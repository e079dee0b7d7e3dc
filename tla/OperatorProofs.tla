--------------------------- MODULE OperatorProofs ---------------------------
(***************************************************************************)
(* What the operators of Privacy, Decisions, Annotations, Synthetic,       *)
(* Sampling and Scoring promise, proved for every input: of any length,    *)
(* with any digits, limits and thresholds, days and weights, ranks and     *)
(* targets, rows, scores and latencies.                                    *)
(*                                                                         *)
(* The first part is induction over sets of numbers and over the subsets of*)
(* a finite set, and what it says of the sums and folds of the community   *)
(* modules. The theorems of the library that take a predicate or an        *)
(* operator as a parameter have no instances a prover can find; a set of   *)
(* numbers, a set of subsets and a step that is a function take their place*)
(* here.                                                                   *)
(***************************************************************************)
EXTENDS Annotations, Privacy, Decisions, Synthetic, Sampling, Scoring, Integers, FiniteSets, FiniteSetsExt, SequencesExt,
        FiniteSetTheorems, WellFoundedInduction, SequenceTheorems, TLAPS

(* A set of numbers that is not empty has a least one.                      *)
LEMMA NatLeast ==
    ASSUME NEW T, T \subseteq Nat, T # {}
    PROVE  \E n \in T : \A m \in T : n <= m
<1>1. IsWellFoundedOn(OpToRel(<, Nat), Nat)
  BY Zenon, NatLessThanWellFounded
<1>. DEFINE Less == {ss \in Nat \X Nat : ss[1] < ss[2]}
<1>2. IsWellFoundedOn(Less, Nat)
  BY <1>1 DEF OpToRel
<1>. HIDE DEF Less
<1>3. PICK x \in T : \A y \in T : ~ (<<y, x>> \in Less)
  BY <1>2, WFMin
<1>4. ASSUME NEW y \in T PROVE x <= y
  <2>1. x \in Nat /\ y \in Nat /\ <<y, x>> \notin Less BY <1>3
  <2>2. ~(y < x) BY <2>1 DEF Less
  <2>. QED BY <2>1, <2>2
<1>. QED BY <1>4

(* A set that has 0, and with a number the next one, has every number.      *)
LEMMA SetInduction ==
    ASSUME NEW T, 0 \in T, \A n \in Nat : n \in T => n + 1 \in T
    PROVE  Nat \subseteq T
<1>. DEFINE U == Nat \ T
<1>1. CASE U # {}
  <2>1. PICK n \in U : \A m \in U : n <= m BY <1>1, NatLeast
  <2>2. n # 0 /\ n - 1 \in Nat /\ n - 1 \in T BY <2>1
  <2>. QED BY <2>1, <2>2
<1>. QED BY <1>1

-----------------------------------------------------------------------------

(* Folds: `pick' takes an element out of every set that has one, `step' maps*)
(* an element and the fold of the others to the fold with it.               *)

Picks(pick, S) == \A s \in SUBSET S : s # {} => pick[s] \in s

IsFold(g, base, step, pick, S) ==
    /\ g[{}] = base
    /\ \A s \in SUBSET S : s # {} => g[s] = step[pick[s]][g[s \ {pick[s]}]]

(* A fold over the subsets of a finite set exists and keeps to the values   *)
(* its step keeps to.                                                       *)
LEMMA FoldExists ==
    ASSUME NEW S, IsFiniteSet(S), NEW W, NEW base, base \in W, NEW step, step \in [S -> [W -> W]],
           NEW pick, Picks(pick, S)
    PROVE  \E g \in [SUBSET S -> W] : IsFold(g, base, step, pick, S)
<1>. DEFINE Up(n) == {s \in SUBSET S : Cardinality(s) <= n}
            Is(g, n) == \A s \in Up(n) :
                g[s] = IF s = {} THEN base ELSE step[pick[s]][g[s \ {pick[s]}]]
            AnyOf(n) == \E g \in [SUBSET S -> W] : Is(g, n)
            T == {n \in Nat : AnyOf(n)}
<1>1. \A s \in SUBSET S : IsFiniteSet(s) /\ Cardinality(s) \in Nat /\ Cardinality(s) <= Cardinality(S)
  BY FS_Subset, FS_CardinalityType
<1>2. \A s \in SUBSET S : s # {} => /\ s \ {pick[s]} \in SUBSET S
                                    /\ Cardinality(s \ {pick[s]}) = Cardinality(s) - 1
  BY <1>1, FS_RemoveElement DEF Picks
<1>3. 0 \in T
  <2>. DEFINE g == [s \in SUBSET S |-> base]
  <2>1. \A s \in Up(0) : s = {} BY <1>1, FS_EmptySet
  <2>2. g \in [SUBSET S -> W] /\ Is(g, 0) BY <2>1
  <2>. QED BY <2>2
<1>4. ASSUME NEW n \in Nat, n \in T PROVE n + 1 \in T
  <2>1. PICK g \in [SUBSET S -> W] : Is(g, n) BY <1>4
  <2>. DEFINE h == [s \in SUBSET S |-> IF Cardinality(s) <= n THEN g[s]
                                       ELSE step[pick[s]][g[s \ {pick[s]}]]]
  <2>2. \A s \in SUBSET S : s = {} => Cardinality(s) <= n BY FS_EmptySet
  <2>3. h \in [SUBSET S -> W]
    <3>. SUFFICES ASSUME NEW s \in SUBSET S, ~(Cardinality(s) <= n)
                  PROVE  step[pick[s]][g[s \ {pick[s]}]] \in W
      OBVIOUS
    <3>1. s # {} BY <2>2
    <3>2. pick[s] \in S /\ g[s \ {pick[s]}] \in W BY <1>2, <3>1 DEF Picks
    <3>. QED BY <3>2
  <2>4. Is(h, n + 1)
    <3>. SUFFICES ASSUME NEW s \in Up(n + 1)
                  PROVE  h[s] = IF s = {} THEN base ELSE step[pick[s]][h[s \ {pick[s]}]]
      BY Zenon
    <3>1. CASE s = {} BY <2>1, <2>2, <3>1
    <3>2. CASE s # {}
      <4>1. s \ {pick[s]} \in SUBSET S /\ Cardinality(s \ {pick[s]}) <= n
        BY <1>1, <1>2, <3>2
      <4>2. h[s \ {pick[s]}] = g[s \ {pick[s]}] BY SMTT(30), <4>1
      <4>3. CASE Cardinality(s) <= n BY ZenonT(40), <2>1, <3>2, <4>2, <4>3
      <4>4. CASE ~(Cardinality(s) <= n) BY Zenon, <3>2, <4>2, <4>4
      <4>. QED BY Zenon, <4>3, <4>4
    <3>. QED BY Zenon, <3>1, <3>2
  <2>5. AnyOf(n + 1)
    <3>. HIDE DEF h, Is
    <3>. QED BY <2>3, <2>4
  <2>. HIDE DEF AnyOf
  <2>. QED BY <2>5
<1>5. Nat \subseteq T
  <2>. HIDE DEF T
  <2>. QED BY <1>3, <1>4, SetInduction
<1>6. PICK g \in [SUBSET S -> W] : Is(g, Cardinality(S))
  BY <1>1, <1>5
<1>7. \A s \in SUBSET S : s \in Up(Cardinality(S)) BY <1>1
<1>. QED BY <1>6, <1>7 DEF IsFold

-----------------------------------------------------------------------------

(* Sums of a function over a finite set                                     *)

AnyOf(s) == CHOOSE x \in s : TRUE

IsSum(g, f, S) == \A s \in SUBSET S :
    g[s] = IF s = {} THEN 0 ELSE f[AnyOf(s)] + g[s \ {AnyOf(s)}]

(* The function that gives every subset of a finite set the sum of its      *)
(* elements exists.                                                         *)
LEMMA SumExists ==
    ASSUME NEW S, IsFiniteSet(S), NEW f, \A x \in S : f[x] \in Int
    PROVE  \E g \in [SUBSET S -> Int] : IsSum(g, f, S)
<1>. DEFINE step == [x \in S |-> [w \in Int |-> f[x] + w]]
            pick == [s \in SUBSET S |-> AnyOf(s)]
<1>1. step \in [S -> [Int -> Int]] OBVIOUS
<1>2. Picks(pick, S) BY DEF AnyOf, Picks
<1>3. PICK g \in [SUBSET S -> Int] : IsFold(g, 0, step, pick, S)
  <2>1. 0 \in Int OBVIOUS
  <2>. HIDE DEF step, pick
  <2>. QED BY <1>1, <1>2, <2>1, FoldExists, Zenon
<1>4. ASSUME NEW s \in SUBSET S
      PROVE  g[s] = IF s = {} THEN 0 ELSE f[AnyOf(s)] + g[s \ {AnyOf(s)}]
  <2>1. CASE s = {} BY <1>3, <2>1 DEF IsFold
  <2>2. CASE s # {}
    <3>1. pick[s] = AnyOf(s) /\ AnyOf(s) \in S /\ g[s \ {AnyOf(s)}] \in Int BY <1>2, <2>2 DEF Picks
    <3>2. step[AnyOf(s)][g[s \ {AnyOf(s)}]] = f[AnyOf(s)] + g[s \ {AnyOf(s)}] BY <3>1
    <3>. QED BY <1>3, <2>2, <3>1, <3>2 DEF IsFold
  <2>. QED BY <2>1, <2>2
<1>. QED BY <1>4 DEF IsSum

(* The sum of the community modules is the value of one such function.      *)
LEMMA SumFunctionIs ==
    ASSUME NEW S, IsFiniteSet(S), NEW f, \A x \in S : f[x] \in Int
    PROVE  \E g : IsSum(g, f, S) /\ SumFunctionOnSet(f, S) = g[S]
<1>. DEFINE Eq(g) == g = [s \in SUBSET S |-> IF s = {} THEN 0 ELSE f[AnyOf(s)] + g[s \ {AnyOf(s)}]]
            iter == CHOOSE g : Eq(g)
<1>1. PICK g \in [SUBSET S -> Int] : IsSum(g, f, S) BY SumExists
<1>2. Eq(g) BY <1>1 DEF IsSum
<1>3. Eq(iter)
  <2>. HIDE DEF Eq
  <2>. QED BY <1>2
<1>4. IsSum(iter, f, S)
  <2>. HIDE DEF iter
  <2>. QED BY <1>3 DEF IsSum
<1>5. SumFunctionOnSet(f, S) = iter[S]
  BY DEF SumFunctionOnSet, FoldFunctionOnSet, MapThenFoldSet, AnyOf
<1>. QED BY <1>4, <1>5

(* Subsets of a finite set, smaller ones first: what holds of the empty set,*)
(* and of a set when it holds of every set of one element less, holds.      *)
LEMMA SubsetInduction ==
    ASSUME NEW S, IsFiniteSet(S), NEW Q, {} \in Q,
           \A s \in SUBSET S : (s # {} /\ \A x \in s : s \ {x} \in Q) => s \in Q
    PROVE  SUBSET S \subseteq Q
<1>. DEFINE All(n) == \A s \in SUBSET S : Cardinality(s) = n => s \in Q
            T == {n \in Nat : All(n)}
<1>1. \A s \in SUBSET S : IsFiniteSet(s) /\ Cardinality(s) \in Nat
  BY FS_Subset, FS_CardinalityType
<1>2. 0 \in T BY <1>1, FS_EmptySet
<1>3. ASSUME NEW n \in Nat, n \in T PROVE n + 1 \in T
  <2>1. ASSUME NEW s \in SUBSET S, Cardinality(s) = n + 1 PROVE s \in Q
    <3>1. s # {} BY <1>1, <2>1, FS_EmptySet
    <3>2. ASSUME NEW x \in s PROVE s \ {x} \in Q
      <4>1. Cardinality(s \ {x}) = n /\ s \ {x} \in SUBSET S BY <1>1, <2>1, FS_RemoveElement
      <4>. QED BY <1>3, <4>1
    <3>. QED BY <3>1, <3>2
  <2>2. All(n + 1) BY <2>1
  <2>. HIDE DEF All
  <2>. QED BY <2>2
<1>4. Nat \subseteq T
  <2>. HIDE DEF T
  <2>. QED BY <1>2, <1>3, SetInduction
<1>. QED BY <1>1, <1>4

(* Any two such functions agree.                                            *)
LEMMA SumUnique ==
    ASSUME NEW S, IsFiniteSet(S), NEW f, NEW g, NEW h, IsSum(g, f, S), IsSum(h, f, S)
    PROVE  g[S] = h[S]
<1>. DEFINE Q == {s \in SUBSET S : g[s] = h[s]}
<1>1. {} \in Q BY DEF IsSum
<1>2. ASSUME NEW s \in SUBSET S, s # {}, \A x \in s : s \ {x} \in Q PROVE s \in Q
  <2>1. AnyOf(s) \in s BY <1>2 DEF AnyOf
  <2>2. g[s \ {AnyOf(s)}] = h[s \ {AnyOf(s)}] BY <1>2, <2>1
  <2>. QED BY <1>2, <2>2 DEF IsSum
<1>3. SUBSET S \subseteq Q
  <2>. HIDE DEF Q
  <2>. QED BY <1>1, <1>2, SubsetInduction
<1>. QED BY <1>3

(* So the sum of the community modules is the value of any such function.   *)
LEMMA SumIs ==
    ASSUME NEW S, IsFiniteSet(S), NEW f, \A x \in S : f[x] \in Int, NEW g, IsSum(g, f, S)
    PROVE  SumFunctionOnSet(f, S) = g[S]
BY SumFunctionIs, SumUnique

(* A sum over nothing is zero.                                              *)
LEMMA SumEmpty == ASSUME NEW f PROVE SumFunctionOnSet(f, {}) = 0
<1>1. PICK g : IsSum(g, f, {}) /\ SumFunctionOnSet(f, {}) = g[{}] BY SumFunctionIs, FS_EmptySet
<1>. QED BY <1>1 DEF IsSum

(* A sum of integers is an integer.                                         *)
LEMMA SumType ==
    ASSUME NEW S, IsFiniteSet(S), NEW f, \A x \in S : f[x] \in Int
    PROVE  SumFunctionOnSet(f, S) \in Int
<1>1. PICK g \in [SUBSET S -> Int] : IsSum(g, f, S) BY SumExists
<1>. QED BY <1>1, SumIs

(* A sum is a sum over all its elements but one, and that one.              *)
LEMMA SumRemove ==
    ASSUME NEW S, IsFiniteSet(S), NEW f, \A x \in S : f[x] \in Int, NEW a \in S
    PROVE  SumFunctionOnSet(f, S) = f[a] + SumFunctionOnSet(f, S \ {a})
<1>1. PICK g \in [SUBSET S -> Int] : IsSum(g, f, S) BY SumExists
<1>. DEFINE Q == {s \in SUBSET S : \A x \in s : g[s] = f[x] + g[s \ {x}]}
<1>2. {} \in Q OBVIOUS
<1>3. ASSUME NEW s \in SUBSET S, s # {}, \A x \in s : s \ {x} \in Q PROVE s \in Q
  <2>. DEFINE c == AnyOf(s)
  <2>1. c \in s /\ g[s] = f[c] + g[s \ {c}] BY <1>1, <1>3 DEF AnyOf, IsSum
  <2>. HIDE DEF c
  <2>2. ASSUME NEW x \in s, x # c PROVE g[s] = f[x] + g[s \ {x}]
    <3>1. g[s \ {c}] = f[x] + g[(s \ {c}) \ {x}] BY <1>3, <2>1, <2>2
    <3>2. g[s \ {x}] = f[c] + g[(s \ {x}) \ {c}] BY <1>3, <2>1, <2>2
    <3>3. (s \ {c}) \ {x} = (s \ {x}) \ {c} OBVIOUS
    <3>4. f[x] \in Int /\ f[c] \in Int /\ g[(s \ {c}) \ {x}] \in Int BY <1>1, <2>1
    <3>5. g[s] = f[c] + (f[x] + g[(s \ {c}) \ {x}]) BY <2>1, <3>1
    <3>6. g[s \ {x}] = f[c] + g[(s \ {c}) \ {x}] BY <3>2, <3>3
    <3>. QED BY <3>4, <3>5, <3>6
  <2>. QED BY <2>1, <2>2
<1>4. SUBSET S \subseteq Q
  <2>. HIDE DEF Q
  <2>. QED BY <1>2, <1>3, SubsetInduction
<1>5. g[S] = f[a] + g[S \ {a}] BY <1>4
<1>6. SumFunctionOnSet(f, S) = g[S] BY <1>1, SumIs
<1>7. IsFiniteSet(S \ {a}) /\ IsSum(g, f, S \ {a}) BY <1>1, FS_Subset DEF IsSum
<1>8. SumFunctionOnSet(f, S \ {a}) = g[S \ {a}] BY <1>7, SumIs
<1>. QED BY <1>5, <1>6, <1>8

-----------------------------------------------------------------------------

(* Folds over a sequence take its last element first                        *)

(* The maximum of numbers up to n is one of them and above all of them.     *)
LEMMA MaxOfSubset ==
    ASSUME NEW n \in Nat, NEW s \in SUBSET (1..n), s # {}
    PROVE  Max(s) \in s /\ \A y \in s : Max(s) >= y
<1>. DEFINE U == {m \in Nat : \E x \in s : m = n - x}
<1>1. U # {} /\ U \subseteq Nat
  <2>1. PICK x \in s : TRUE OBVIOUS
  <2>2. n - x \in U BY <2>1
  <2>. QED BY <2>2
<1>2. PICK m \in U : \A k \in U : m <= k
  <2>. HIDE DEF U
  <2>. QED BY <1>1, NatLeast
<1>3. PICK x \in s : m = n - x BY <1>2
<1>4. \A y \in s : x >= y BY <1>2, <1>3
<1>. QED BY <1>4 DEF Max

MaxPick(n) == [s \in SUBSET (1..n) |-> Max(s)]

(* The maximum is a choice of an element from every set that has one.       *)
LEMMA MaxPicks == ASSUME NEW n \in Nat PROVE Picks(MaxPick(n), 1..n)
BY MaxOfSubset DEF Picks, MaxPick

(* The maximum of the first k numbers is k, and without it the first k - 1  *)
(* are left.                                                                *)
LEMMA MaxOfPrefix ==
    ASSUME NEW n \in Nat, NEW k \in 1..n
    PROVE  Max(1..k) = k /\ (1..k) \ {k} = 1..(k - 1) /\ 1..k # {} /\ 1..k \in SUBSET (1..n)
<1>1. 1..k # {} /\ 1..k \in SUBSET (1..n) OBVIOUS
<1>2. Max(1..k) \in 1..k /\ \A y \in 1..k : Max(1..k) >= y BY <1>1, MaxOfSubset
<1>. QED BY <1>1, <1>2

(* The positions of a sequence are finitely many.                           *)
LEMMA IntervalIsFinite == ASSUME NEW n \in Nat PROVE IsFiniteSet(1..n)
BY FS_Interval

-----------------------------------------------------------------------------
(* Sums, cardinalities and sequences, as the calculations need them         *)

(* A sequence of bounded length is a sequence.                              *)
LEMMA BoundedSeqs ==
    ASSUME NEW U, NEW n \in Nat, NEW s \in BoundedSeq(U, n) PROVE s \in Seq(U)
BY DEF BoundedSeq, SeqOf

(* The minimum of numbers up to n is one of them and below all of them.     *)
LEMMA MinOfSubset ==
    ASSUME NEW n \in Nat, NEW s \in SUBSET (1..n), s # {}
    PROVE  Min(s) \in s /\ \A y \in s : Min(s) <= y
<1>1. s \subseteq Nat OBVIOUS
<1>2. PICK x \in s : \A y \in s : x <= y BY <1>1, NatLeast
<1>. QED BY <1>2 DEF Min

(* A sum of equal terms is their number times the term.                     *)
LEMMA SumConstant ==
    ASSUME NEW X, IsFiniteSet(X), NEW f, NEW r \in Int, \A x \in X : f[x] = r
    PROVE  SumFunctionOnSet(f, X) = Cardinality(X) * r
<1>. DEFINE Q == {s \in SUBSET X : SumFunctionOnSet(f, s) = Cardinality(s) * r}
<1>1. {} \in Q BY SumEmpty, FS_EmptySet
<1>2. ASSUME NEW s \in SUBSET X, s # {}, \A x \in s : s \ {x} \in Q PROVE s \in Q
  <2>1. PICK x \in s : TRUE BY <1>2
  <2>2. IsFiniteSet(s) /\ \A y \in s : f[y] \in Int BY FS_Subset
  <2>3. SumFunctionOnSet(f, s) = f[x] + SumFunctionOnSet(f, s \ {x}) BY <2>2, SumRemove
  <2>4. SumFunctionOnSet(f, s \ {x}) = Cardinality(s \ {x}) * r BY <1>2
  <2>5. Cardinality(s \ {x}) = Cardinality(s) - 1 /\ Cardinality(s) \in Nat
    BY <2>1, <2>2, FS_RemoveElement, FS_CardinalityType
  <2>6. \A c \in Nat : r + (c - 1) * r = c * r OBVIOUS
  <2>. QED BY <2>3, <2>4, <2>5, <2>6
<1>3. SUBSET X \subseteq Q
  <2>. HIDE DEF Q
  <2>. QED BY <1>1, <1>2, SubsetInduction
<1>. QED BY <1>3

(* One element has its own value, the others share one. *)
LEMMA SumOfRest ==
    ASSUME NEW X, IsFiniteSet(X), NEW f, NEW a \in X, f[a] \in Int, NEW r \in Int, \A x \in X : x # a => f[x] = r
    PROVE  SumFunctionOnSet(f, X) = f[a] + (Cardinality(X) - 1) * r
<1>1. SumFunctionOnSet(f, X) = f[a] + SumFunctionOnSet(f, X \ {a}) BY SumRemove
<1>2. IsFiniteSet(X \ {a}) /\ Cardinality(X \ {a}) = Cardinality(X) - 1 BY FS_RemoveElement
<1>3. SumFunctionOnSet(f, X \ {a}) = Cardinality(X \ {a}) * r BY <1>2, SumConstant
<1>. QED BY <1>1, <1>2, <1>3

(* d shares of a, rounded down, miss a by less than d. *)
LEMMA SharesOf ==
    ASSUME NEW a \in Nat, NEW d \in Nat, d > 0
    PROVE  /\ a \div d \in Nat /\ a \div d <= a
           /\ d * (a \div d) <= a /\ a - d < d * (a \div d)
OBVIOUS

(* A sequence with one more element.                                        *)
LEMMA ConcatOne ==
    ASSUME NEW U, NEW t \in Seq(U), NEW x \in U
    PROVE  t \o <<x>> = [i \in 1..(Len(t) + 1) |-> IF i <= Len(t) THEN t[i] ELSE x]
OBVIOUS

(* The maximum of a finite set of integers is one of them and above all of  *)
(* them.                                                                    *)
LEMMA MaxOfFinite ==
    ASSUME NEW X, IsFiniteSet(X), X # {}, X \subseteq Int
    PROVE  Max(X) \in X /\ \A y \in X : Max(X) >= y
<1>. DEFINE Q == {s \in SUBSET X : s # {} => \E m \in s : \A y \in s : m >= y}
<1>1. {} \in Q OBVIOUS
<1>2. ASSUME NEW s \in SUBSET X, s # {}, \A x \in s : s \ {x} \in Q PROVE s \in Q
  <2>1. PICK x \in s : TRUE BY <1>2
  <2>2. CASE s = {x} BY <2>2
  <2>3. CASE s # {x}
    <3>1. PICK m \in s \ {x} : \A y \in s \ {x} : m >= y BY <1>2, <2>1, <2>3
    <3>2. x \in Int /\ m \in Int /\ \A y \in s : y \in Int OBVIOUS
    <3>3. CASE m >= x BY <3>1, <3>2, <3>3
    <3>4. CASE x >= m BY <3>1, <3>2, <3>4
    <3>. QED BY <3>2, <3>3, <3>4
  <2>. QED BY <2>2, <2>3
<1>3. SUBSET X \subseteq Q
  <2>. HIDE DEF Q
  <2>. QED BY <1>1, <1>2, SubsetInduction
<1>4. PICK m \in X : \A y \in X : m >= y BY <1>3
<1>. QED BY <1>4 DEF Max

(* A sum of natural numbers is a natural number.                            *)
LEMMA SumIsNatural ==
    ASSUME NEW X, IsFiniteSet(X), NEW f, \A x \in X : f[x] \in Nat
    PROVE  SumFunctionOnSet(f, X) \in Nat
<1>. DEFINE Q == {s \in SUBSET X : SumFunctionOnSet(f, s) \in Nat}
<1>1. {} \in Q BY SumEmpty
<1>2. ASSUME NEW s \in SUBSET X, s # {}, \A x \in s : s \ {x} \in Q PROVE s \in Q
  <2>1. PICK x \in s : TRUE BY <1>2
  <2>2. IsFiniteSet(s) /\ \A y \in s : f[y] \in Int BY FS_Subset
  <2>3. SumFunctionOnSet(f, s) = f[x] + SumFunctionOnSet(f, s \ {x}) BY <2>2, SumRemove
  <2>4. SumFunctionOnSet(f, s \ {x}) \in Nat BY <1>2
  <2>. QED BY <2>3, <2>4
<1>3. SUBSET X \subseteq Q
  <2>. HIDE DEF Q
  <2>. QED BY <1>1, <1>2, SubsetInduction
<1>. QED BY <1>3

(* A sum over three levels.                                                 *)
LEMMA SumOfThree ==
    ASSUME NEW f, \A x \in 0..2 : f[x] \in Int
    PROVE  SumFunctionOnSet(f, 0..2) = f[0] + f[1] + f[2]
<1>1. 0..2 = {0, 1, 2} /\ {0, 1, 2} \ {0} = {1, 2} /\ {1, 2} \ {1} = {2} /\ {2} \ {2} = {} OBVIOUS
<1>2. IsFiniteSet({0, 1, 2}) /\ IsFiniteSet({1, 2}) /\ IsFiniteSet({2})
  <2>1. 0 \in Int /\ 2 \in Int OBVIOUS
  <2>2. IsFiniteSet(0..2) BY <2>1, FS_Interval
  <2>3. {1, 2} \in SUBSET {0, 1, 2} /\ {2} \in SUBSET {0, 1, 2} OBVIOUS
  <2>. QED BY <1>1, <2>2, <2>3, FS_Subset
<1>3. f[0] \in Int /\ f[1] \in Int /\ f[2] \in Int BY <1>1
<1>4. SumFunctionOnSet(f, {0, 1, 2}) = f[0] + SumFunctionOnSet(f, {0, 1, 2} \ {0})
  <2>1. 0 \in {0, 1, 2} /\ \A x \in {0, 1, 2} : f[x] \in Int BY <1>3
  <2>. QED BY <1>2, <2>1, SumRemove
<1>5. SumFunctionOnSet(f, {1, 2}) = f[1] + SumFunctionOnSet(f, {1, 2} \ {1})
  <2>1. 1 \in {1, 2} /\ \A x \in {1, 2} : f[x] \in Int BY <1>3
  <2>. QED BY <1>2, <2>1, SumRemove
<1>6. SumFunctionOnSet(f, {2}) = f[2] + SumFunctionOnSet(f, {2} \ {2})
  <2>1. 2 \in {2} /\ \A x \in {2} : f[x] \in Int BY <1>3
  <2>. QED BY <1>2, <2>1, SumRemove
<1>7. SumFunctionOnSet(f, {}) = 0 BY SumEmpty
<1>8. SumFunctionOnSet(f, {2}) = f[2] BY <1>1, <1>3, <1>6, <1>7
<1>9. SumFunctionOnSet(f, {1, 2}) = f[1] + f[2] BY <1>1, <1>5, <1>8
<1>10. SumFunctionOnSet(f, {0, 1, 2}) = f[0] + (f[1] + f[2]) BY <1>1, <1>4, <1>9
<1>11. SumFunctionOnSet(f, 0..2) = SumFunctionOnSet(f, {0, 1, 2}) BY <1>1, Zenon
<1>. QED BY <1>3, <1>10, <1>11

(* Equal terms have equal sums.                                             *)
LEMMA SumSame ==
    ASSUME NEW X, IsFiniteSet(X), NEW f, NEW g, \A x \in X : f[x] \in Int /\ f[x] = g[x]
    PROVE  SumFunctionOnSet(f, X) = SumFunctionOnSet(g, X)
<1>1. PICK h \in [SUBSET X -> Int] : IsSum(h, f, X) BY SumExists
<1>2. IsSum(h, g, X)
  <2>1. \A s \in SUBSET X : s # {} => f[AnyOf(s)] = g[AnyOf(s)] BY DEF AnyOf
  <2>. QED BY <1>1, <2>1 DEF IsSum
<1>3. SumFunctionOnSet(f, X) = h[X] BY <1>1, SumIs
<1>4. SumFunctionOnSet(g, X) = h[X] BY <1>2, SumIs
<1>. QED BY <1>3, <1>4

(* A sum over a sequence with one value in front. *)
LEMMA SumShift ==
    ASSUME NEW n \in Nat, NEW f, \A i \in 1..n : f[i] \in Int,
           NEW g, g[1] = 0, \A i \in 1..n : g[i + 1] = f[i]
    PROVE  SumFunctionOnSet(g, 1..(n + 1)) = SumFunctionOnSet(f, 1..n)
<1>. DEFINE T0 == {k \in Nat : k <= n => SumFunctionOnSet(g, 1..(k + 1)) = SumFunctionOnSet(f, 1..k)}
<1>1. \A i \in 1..(n + 1) : g[i] \in Int
  <2>. SUFFICES ASSUME NEW i \in 1..(n + 1), i # 1 PROVE g[i] \in Int BY DEF SumFunctionOnSet
  <2>1. i - 1 \in 1..n /\ (i - 1) + 1 = i OBVIOUS
  <2>. QED BY <2>1
<1>2. \A k \in 0..n : IsFiniteSet(1..k) /\ IsFiniteSet(1..(k + 1)) BY IntervalIsFinite
<1>3. 0 \in T0
  <2>1. 1..0 = {} /\ 1..(0 + 1) = {1} /\ {1} \ {1} = {} OBVIOUS
  <2>2. SumFunctionOnSet(g, {1}) = g[1] + SumFunctionOnSet(g, {1} \ {1})
    <3>1. IsFiniteSet({1}) BY FS_Singleton
    <3>2. 1 \in {1} /\ \A x \in {1} : g[x] \in Int OBVIOUS
    <3>. QED BY <3>1, <3>2, SumRemove
  <2>3. SumFunctionOnSet(g, {1}) = 0 BY <2>1, <2>2, SumEmpty
  <2>4. SumFunctionOnSet(f, 1..0) = 0 /\ SumFunctionOnSet(g, 1..(0 + 1)) = 0 BY <2>1, <2>3, SumEmpty
  <2>. QED BY <2>4
<1>4. ASSUME NEW k \in Nat, k \in T0 PROVE k + 1 \in T0
  <2>. SUFFICES ASSUME k + 1 <= n
                PROVE  SumFunctionOnSet(g, 1..((k + 1) + 1)) = SumFunctionOnSet(f, 1..(k + 1))
    OBVIOUS
  <2>1. /\ IsFiniteSet(1..((k + 1) + 1)) /\ IsFiniteSet(1..(k + 1))
        /\ (k + 1) + 1 \in 1..((k + 1) + 1) /\ k + 1 \in 1..(k + 1)
        /\ (1..((k + 1) + 1)) \ {(k + 1) + 1} = 1..(k + 1) /\ (1..(k + 1)) \ {k + 1} = 1..k
        /\ \A x \in 1..((k + 1) + 1) : x \in 1..(n + 1)
        /\ \A x \in 1..(k + 1) : x \in 1..n
    BY <1>2
  <2>2. SumFunctionOnSet(g, 1..((k + 1) + 1)) = g[(k + 1) + 1] + SumFunctionOnSet(g, (1..((k + 1) + 1)) \ {(k + 1) + 1})
    <3>1. \A x \in 1..((k + 1) + 1) : g[x] \in Int BY <1>1, <2>1
    <3>. QED BY <2>1, <3>1, SumRemove
  <2>3. SumFunctionOnSet(f, 1..(k + 1)) = f[k + 1] + SumFunctionOnSet(f, (1..(k + 1)) \ {k + 1})
    <3>1. \A x \in 1..(k + 1) : f[x] \in Int BY <2>1
    <3>. QED BY <2>1, <3>1, SumRemove
  <2>4. g[(k + 1) + 1] = f[k + 1] BY <2>1
  <2>5. SumFunctionOnSet(g, 1..(k + 1)) = SumFunctionOnSet(f, 1..k) BY <1>4
  <2>. QED BY <2>1, <2>2, <2>3, <2>4, <2>5
<1>5. Nat \subseteq T0
  <2>. HIDE DEF T0
  <2>. QED BY <1>3, <1>4, SetInduction
<1>. QED BY <1>5

(* Sums of digits that differ in one term differ modulo 10.                 *)
LEMMA OneTermDiffers ==
    ASSUME NEW n \in Nat, NEW f, NEW g, NEW i \in 1..n,
           \A x \in 1..n : f[x] \in 0..9 /\ g[x] \in 0..9,
           \A x \in (1..n) \ {i} : f[x] = g[x], f[i] # g[i]
    PROVE  SumFunctionOnSet(f, 1..n) % 10 # SumFunctionOnSet(g, 1..n) % 10
<1>. DEFINE X == 1..n
            rest == SumFunctionOnSet(f, X \ {i})
<1>1. IsFiniteSet(X) /\ IsFiniteSet(X \ {i}) BY IntervalIsFinite, FS_Subset
<1>2. \A x \in X : f[x] \in Int /\ g[x] \in Int OBVIOUS
<1>3. i \in X OBVIOUS
<1>4. \A x \in X \ {i} : f[x] \in Int /\ f[x] = g[x] OBVIOUS
<1>5. f[i] \in 0..9 /\ g[i] \in 0..9 OBVIOUS
<1>. HIDE DEF X
<1>6. SumFunctionOnSet(f, X) = f[i] + SumFunctionOnSet(f, X \ {i}) BY <1>1, <1>2, <1>3, SumRemove
<1>7. SumFunctionOnSet(g, X) = g[i] + SumFunctionOnSet(g, X \ {i}) BY <1>1, <1>2, <1>3, SumRemove
<1>8. SumFunctionOnSet(g, X \ {i}) = rest
  <2>. DEFINE S1 == X \ {i}
  <2>1. IsFiniteSet(S1) /\ \A x \in S1 : f[x] \in Int /\ f[x] = g[x] BY <1>1, <1>4
  <2>. HIDE DEF S1
  <2>2. SumFunctionOnSet(f, S1) = SumFunctionOnSet(g, S1) BY <2>1, SumSame
  <2>. QED BY <2>2 DEF S1
<1>9. rest \in Int
  <2>1. \A x \in X \ {i} : f[x] \in Int BY <1>4
  <2>. QED BY <1>1, <2>1, SumType
<1>10. SumFunctionOnSet(f, X) = f[i] + rest BY <1>6
<1>11. SumFunctionOnSet(g, X) = g[i] + rest BY <1>7, <1>8
<1>. HIDE DEF rest
<1>12. (f[i] + rest) % 10 # (g[i] + rest) % 10
  <2>. DEFINE a == f[i]
              b == g[i]
  <2>1. a \in 0..9 /\ b \in 0..9 /\ a # b /\ rest \in Int BY <1>5, <1>9
  <2>. HIDE DEF a, b
  <2>2. (a + rest) % 10 # (b + rest) % 10 BY <2>1
  <2>. QED BY <2>2 DEF a, b
<1>. QED BY <1>10, <1>11, <1>12 DEF X

(* The elements of a sequence, by position.                                 *)
LEMMA ElementsOf ==
    ASSUME NEW X, NEW s \in Seq(X), NEW n, Len(s) = n
    PROVE  \A i \in 1..n : s[i] \in X
OBVIOUS

(* A function from the first n numbers is a sequence.                       *)
LEMMA SequenceOf ==
    ASSUME NEW X, NEW n \in Nat, NEW f \in [1..n -> X]
    PROVE  f \in Seq(X) /\ Len(f) = n
OBVIOUS

(* What stands where in two sequences put together.                         *)
LEMMA ConcatIs ==
    ASSUME NEW X, NEW n \in Nat, NEW k \in Nat, NEW s \in [1..n -> X], NEW t \in [1..k -> X], NEW m, m = n + k
    PROVE  /\ s \o t \in [1..m -> X]
           /\ \A i \in 1..n : (s \o t)[i] = s[i]
           /\ \A i \in 1..k, j \in 1..m : j = n + i => (s \o t)[j] = t[i]
<1>. DEFINE u == s \o t
<1>1. s \in Seq(X) /\ Len(s) = n /\ t \in Seq(X) /\ Len(t) = k BY SequenceOf
<1>2. /\ u \in Seq(X) /\ Len(u) = n + k
      /\ \A i \in 1..(n + k) : u[i] = IF i <= n THEN s[i] ELSE t[i - n]
  BY <1>1, ConcatProperties
<1>. HIDE DEF u
<1>3. u \in [1..(n + k) -> X] BY <1>2
<1>4. \A i \in 1..n : u[i] = s[i] BY <1>2
<1>5. ASSUME NEW i \in 1..k PROVE u[n + i] = t[i]
  <2>1. n + i \in 1..(n + k) /\ ~(n + i <= n) /\ (n + i) - n = i OBVIOUS
  <2>. QED BY <1>2, <2>1
<1>. QED BY <1>3, <1>4, <1>5 DEF u

(* A sum grows by what a zero term grows.                                   *)
LEMMA SumWithOneMore ==
    ASSUME NEW X, IsFiniteSet(X), NEW f \in [X -> Int], NEW a \in X, f[a] = 0, NEW v \in Int
    PROVE  SumFunctionOnSet([f EXCEPT ![a] = v], X) = SumFunctionOnSet(f, X) + v
<1>. DEFINE g == [f EXCEPT ![a] = v]
            S1 == X \ {a}
<1>1. g[a] = v /\ \A x \in S1 : f[x] = g[x] /\ f[x] \in Int OBVIOUS
<1>2. \A x \in X : f[x] \in Int /\ g[x] \in Int OBVIOUS
<1>3. IsFiniteSet(S1) BY FS_Subset
<1>. HIDE DEF g
<1>4. SumFunctionOnSet(f, X) = f[a] + SumFunctionOnSet(f, X \ {a}) BY <1>2, SumRemove
<1>5. SumFunctionOnSet(g, X) = g[a] + SumFunctionOnSet(g, X \ {a}) BY <1>2, SumRemove
<1>. HIDE DEF S1
<1>6. SumFunctionOnSet(f, S1) = SumFunctionOnSet(g, S1)
  <2>1. \A x \in S1 : f[x] \in Int /\ f[x] = g[x] BY <1>1
  <2>. QED BY <1>3, <2>1, SumSame
<1>7. SumFunctionOnSet(f, S1) \in Int
  <2>1. \A x \in S1 : f[x] \in Int BY <1>1
  <2>. QED BY <1>3, <2>1, SumType
<1>8. SumFunctionOnSet(f, X) = SumFunctionOnSet(f, S1) BY <1>4, <1>7 DEF S1
<1>9. SumFunctionOnSet(g, X) = v + SumFunctionOnSet(f, S1) BY <1>1, <1>5, <1>6 DEF S1
<1>10. SumFunctionOnSet(g, X) = SumFunctionOnSet(f, X) + v BY <1>7, <1>8, <1>9
<1>. QED BY <1>10 DEF g

(* Two sets apart are together as many as one after the other.              *)
LEMMA CardinalityOfTwo ==
    ASSUME NEW n \in Nat, NEW s \in SUBSET (1..n), NEW t \in SUBSET (1..n), s \cap t = {}
    PROVE  Cardinality(s \cup t) = Cardinality(s) + Cardinality(t)
<1>1. IsFiniteSet(s) /\ IsFiniteSet(t) BY IntervalIsFinite, FS_Subset
<1>2. Cardinality(s) \in Int /\ Cardinality(t) \in Int BY <1>1, FS_CardinalityType
<1>3. Cardinality(s \cap t) = 0 BY FS_EmptySet
<1>4. Cardinality(s \cup t) = Cardinality(s) + Cardinality(t) - Cardinality(s \cap t) BY <1>1, FS_Union
<1>. QED BY <1>2, <1>3, <1>4

SumOfZeros(X) == SumFunctionOnSet([x \in X |-> 0], X) = 0

(* A sum of zeros is zero.                                                  *)
LEMMA ZerosAddUp ==
    ASSUME NEW X, IsFiniteSet(X)
    PROVE  SumOfZeros(X)
<1>. DEFINE f == [x \in X |-> 0]
            Q == {s \in SUBSET X : SumFunctionOnSet(f, s) = 0}
<1>1. {} \in Q BY SumEmpty
<1>2. ASSUME NEW s \in SUBSET X, s # {}, \A x \in s : s \ {x} \in Q PROVE s \in Q
  <2>1. PICK a \in s : TRUE BY <1>2
  <2>2. IsFiniteSet(s) /\ \A x \in s : f[x] \in Int BY FS_Subset
  <2>3. f[a] = 0 /\ SumFunctionOnSet(f, s \ {a}) = 0 BY <1>2
  <2>. HIDE DEF f
  <2>4. SumFunctionOnSet(f, s) = f[a] + SumFunctionOnSet(f, s \ {a}) BY <2>2, SumRemove
  <2>. QED BY <2>3, <2>4
<1>3. SUBSET X \subseteq Q
  <2>. HIDE DEF Q
  <2>. QED BY <1>1, <1>2, SubsetInduction
<1>4. SumFunctionOnSet(f, X) = 0 BY <1>3
<1>. QED BY <1>4 DEF SumOfZeros

-----------------------------------------------------------------------------
(* Labels: what the evaluation calls gold, complete and ready               *)

(* _resolved_gold returns an answer only for a row that is valid and        *)
(* complete, and then either the annotators' common answer or, where they   *)
(* disagreed, the adjudicated one.                                          *)
LEMMA LabelAccepted ==
    ASSUME NEW record, NEW label, NEW Vs, NEW Ws,
           label.annotations \in Seq(Vs), label.adjudication \in Seq(Ws),
           label.split = record.split, record.second \in BOOLEAN,
           ResolvedGold(record, label) # <<>>
    PROVE  /\ RowIsValid(record, label) /\ Complete(record, label)
           /\ \/ \A a \in Range(label.annotations) : a.answers = ResolvedGold(record, label)[1]
              \/ /\ Disagree(label)
                 /\ ResolvedGold(record, label)[1] = label.adjudication[1].answers
<1>. DEFINE gold == ResolvedGold(record, label)
            as == label.annotations
<1>1. /\ label.second = record.second /\ Len(as) = Required(record)
      /\ AnnotationsAreValid(label) /\ Passes(label) = 1..Required(record)
      /\ Disagree(label) <=> Adjudicated(label)
      /\ AdjudicationIsValid(label)
      /\ gold = <<IF Disagree(label) THEN label.adjudication[1].answers ELSE as[1].answers>>
  BY DEF ResolvedGold, Nothing
<1>2. RowIsValid(record, label) /\ Complete(record, label)
  BY <1>1 DEF RowIsValid, Complete, Required
<1>3. CASE Disagree(label)
  BY <1>1, <1>2, <1>3
<1>4. CASE ~Disagree(label)
  <2>1. gold[1] = as[1].answers BY <1>1, <1>4
  <2>2. Len(as) \in 1..2 BY <1>1 DEF Required
  <2>3. \A i \in DOMAIN as : as[i].answers = as[1].answers
    BY <2>2, <1>4 DEF Disagree
  <2>. QED BY <1>2, <2>1, <2>3 DEF Range
<1>. QED BY <1>3, <1>4

(* _resolved_gold refuses no row that is valid and complete, as long as the *)
(* passes the label and the record ask for agree and the label holds the    *)
(* first pass.                                                              *)
LEMMA LabelRefused ==
    ASSUME NEW record, NEW label, NEW Vs,
           label.annotations \in Seq(Vs),
           label.second = record.second, record.second \in BOOLEAN,
           RowIsValid(record, label), Complete(record, label), Passes(label) # {2}
    PROVE  ResolvedGold(record, label) # <<>>
<1>. DEFINE as == label.annotations
<1>1. /\ label.split = record.split /\ AnnotationsAreValid(label) /\ AdjudicationIsValid(label)
      /\ Len(as) = Required(record)
      /\ Disagree(label) <=> Adjudicated(label)
  BY DEF RowIsValid, Complete, AdjudicationIsValid
<1>2. Passes(label) = 1..Required(record)
  <2>1. DOMAIN as = 1..Len(as) /\ Passes(label) = {as[i].pass : i \in 1..Len(as)}
    BY DEF Passes
  <2>2. Passes(label) \subseteq {1, 2}
    BY <1>1 DEF AnnotationsAreValid
  <2>3. CASE record.second
    <3>1. Len(as) = 2 BY <1>1, <2>3 DEF Required
    <3>2. as[1].pass # as[2].pass BY <1>1, <2>1, <3>1 DEF AnnotationsAreValid
    <3>3. as[1].pass \in Passes(label) /\ as[2].pass \in Passes(label)
      <4>1. 1 \in 1..Len(as) /\ 2 \in 1..Len(as) BY <3>1
      <4>. QED BY <2>1, <4>1
    <3>4. Passes(label) = {as[1].pass, as[2].pass} BY <2>1, <3>1
    <3>5. Passes(label) = {1, 2} BY <2>2, <3>2, <3>3, <3>4
    <3>. QED BY <1>1, <3>1, <3>5
  <2>4. CASE ~record.second
    <3>1. Len(as) = 1 BY <1>1, <2>4 DEF Required
    <3>2. Passes(label) = {as[1].pass} BY <2>1, <3>1
    <3>3. as[1].pass = 1 BY <2>2, <3>2
    <3>. QED BY <1>1, <3>1, <3>2, <3>3
  <2>. QED BY <2>3, <2>4
<1>. QED BY <1>1, <1>2 DEF ResolvedGold, Nothing

(* The readiness of one record: refused for an invalid row, otherwise ready *)
(* when the row is complete.                                                *)
LEMMA ReadinessOfOne ==
    ASSUME NEW record, NEW label
    PROVE  LET ready == Readiness(<<record>>, <<label>>, 1)
           IN  /\ ready = <<>> <=> ~RowIsValid(record, label)
               /\ RowIsValid(record, label) => (ready[1].ready <=> Complete(record, label))
<1>. DEFINE ready == Readiness(<<record>>, <<label>>, 1)
<1>1. /\ DOMAIN <<record>> = DOMAIN <<label>> /\ DOMAIN <<record>> = {1}
      /\ <<record>>[1] = record /\ <<label>>[1] = label
  OBVIOUS
<1>2. Cardinality({1}) = 1 BY FS_Singleton
<1>3. CASE ~RowIsValid(record, label)
  <2>1. ready = <<>> BY <1>1, <1>3 DEF Readiness, Nothing
  <2>. QED BY <2>1, <1>3
<1>4. CASE RowIsValid(record, label)
  <2>1. ~\E i \in DOMAIN <<record>> : ~RowIsValid(<<record>>[i], <<label>>[i]) BY <1>1, <1>4
  <2>2. \A r : <<r>> # <<>> /\ <<r>>[1] = r OBVIOUS
  <2>. DEFINE all == Cardinality(DOMAIN <<record>>) = 1 /\ \A i \in DOMAIN <<record>> : Complete(<<record>>[i], <<label>>[i])
  <2>3. \E x : ready = <<[splits |-> x, ready |-> all]>>
    <3>. DEFINE ids(s) == {i \in DOMAIN <<record>> : <<record>>[i].split = s}
                complete(s) == {i \in ids(s) : Complete(<<record>>[i], <<label>>[i])}
                of(s) == [total |-> Cardinality(ids(s)), complete |-> Cardinality(complete(s)),
                          incomplete |-> Cardinality(ids(s) \ complete(s)),
                          disagreements |-> Cardinality({i \in ids(s) : Disagree(<<label>>[i])}),
                          adjudicated |-> Cardinality({i \in ids(s) : Adjudicated(<<label>>[i])}),
                          ready |-> complete(s) = ids(s)]
                x == [s \in {<<record>>[i].split : i \in DOMAIN <<record>>} |-> of(s)]
    <3>1. ready = <<[splits |-> x, ready |-> all]>>
      BY <1>1, <2>1, Zenon DEF Readiness, Nothing
    <3>. QED BY <3>1
  <2>4. all <=> Complete(record, label) BY <1>1, <1>2 DEF Cardinality
  <2>. HIDE DEF all, ready
  <2>5. ready # <<>> /\ ready[1].ready = all BY <2>2, <2>3
  <2>. QED BY <1>4, <2>4, <2>5 DEF ready
<1>. QED BY <1>3, <1>4

-----------------------------------------------------------------------------
(* Routing: the bands of the policy router                                  *)

(* A policy that loads for questions of distinct names.                     *)
IsPolicyOf(policy, schema, questions) ==
    /\ PolicyLoads(policy, schema, questions)
    /\ IsInjective([i \in DOMAIN questions |-> questions[i].id])

(* In a policy that loads, the row of a question is the one at its          *)
(* position: it has the question's primitive and valid thresholds, and in   *)
(* an active policy it has thresholds.                                      *)
LEMMA RowOfQuestion ==
    ASSUME NEW policy, NEW schema, NEW questions, IsPolicyOf(policy, schema, questions),
           NEW i, i \in DOMAIN questions
    PROVE  /\ i \in DOMAIN policy.rows
           /\ (CHOOSE r \in Range(policy.rows) : r.id = questions[i].id) = policy.rows[i]
           /\ policy.rows[i].primitive = questions[i].primitive
           /\ ThresholdsAreValid(policy.rows[i])
           /\ policy.status = "active" => policy.rows[i].thresholds # <<>>
<1>1. /\ [j \in DOMAIN policy.rows |-> <<policy.rows[j].id, policy.rows[j].primitive>>]
              = [j \in DOMAIN questions |-> <<questions[j].id, questions[j].primitive>>]
      /\ \A row \in Range(policy.rows) : ThresholdsAreValid(row)
      /\ policy.status = "active" => \A row \in Range(policy.rows) : row.thresholds # <<>>
  BY DEF PolicyLoads, IsPolicyOf
<1>2. DOMAIN policy.rows = DOMAIN questions BY <1>1
<1>3. \A j \in DOMAIN questions : /\ policy.rows[j].id = questions[j].id
                                  /\ policy.rows[j].primitive = questions[j].primitive
                                  /\ policy.rows[j] \in Range(policy.rows)
  BY <1>1, <1>2 DEF Range
<1>4. \A r \in Range(policy.rows) : r.id = questions[i].id => r = policy.rows[i]
  <2>. SUFFICES ASSUME NEW j \in DOMAIN questions, policy.rows[j].id = questions[i].id
                PROVE  policy.rows[j] = policy.rows[i]
    BY <1>2 DEF Range
  <2>1. i = j BY <1>3 DEF IsInjective, IsPolicyOf
  <2>. QED BY <2>1
<1>5. (CHOOSE r \in Range(policy.rows) : r.id = questions[i].id) = policy.rows[i]
  BY <1>3, <1>4
<1>. QED BY <1>1, <1>2, <1>3, <1>5

(* The band of a probability between the thresholds t. *)
Band3(primitive, t, c) ==
    IF primitive = "noul" THEN IF c <= t.low THEN "accepted_negative" ELSE IF c >= t.high THEN "accepted_positive" ELSE "uncertain"
    ELSE IF c >= t.high THEN "accepted" ELSE IF c >= t.low THEN "review" ELSE "abstained"

(* The router gives an answer the band of its confidence when the policy is *)
(* active, and none otherwise.                                              *)
LEMMA RouteIs ==
    ASSUME NEW policy, NEW schema, NEW questions, IsPolicyOf(policy, schema, questions),
           NEW i, i \in DOMAIN questions, NEW answer, answer.type = questions[i].primitive
    PROVE  Route(policy, questions[i].id, answer) =
               IF policy.status = "active"
               THEN <<Band3(questions[i].primitive, policy.rows[i].thresholds[1], answer.confidence)>>
               ELSE <<>>
<1>1. /\ (CHOOSE r \in Range(policy.rows) : r.id = questions[i].id) = policy.rows[i]
      /\ policy.rows[i].primitive = questions[i].primitive
      /\ policy.status = "active" => policy.rows[i].thresholds # <<>>
  BY RowOfQuestion
<1>. QED BY <1>1 DEF Route, Band3

ThresholdsBetween(t) == t.low \in 0..1000 /\ t.high \in 0..1000 /\ t.low < t.high

(* Valid thresholds are apart and between 0 and 1000 thousandths.           *)
LEMMA ThresholdRange ==
    ASSUME NEW row, ThresholdsAreValid(row), row.thresholds # <<>>
    PROVE  ThresholdsBetween(row.thresholds[1])
BY Zenon DEF ThresholdsAreValid, ThresholdsBetween

Confidences == {0, 1, 499, 500, 501, 999, 1000}

-----------------------------------------------------------------------------
(* Streams: what the workbench AI client accepts of a provider              *)

StreamBase == [end |-> "open", length |-> 0, completed |-> FALSE]

StreamStates == [end : {"open", "interrupted", "failed"}, length : Int, completed : BOOLEAN]

StreamEvents(events) == \A i \in 1..Len(events) : events[i].at \in Int /\ events[i].length \in Int

(* A step over an event keeps the types of the reader's state.              *)
LEMMA StreamStepType ==
    ASSUME NEW w \in StreamStates, NEW e, e.length \in Int, NEW limit
    PROVE  StreamStep(w, e, limit) \in StreamStates
<1>1. CASE w.end # "open" BY <1>1 DEF StreamStep
<1>2. CASE w.end = "open" /\ (e.at > limit.seconds \/ ~e.active)
  BY <1>2 DEF StreamStep, StreamStates
<1>3. CASE w.end = "open" /\ ~(e.at > limit.seconds \/ ~e.active)
  <2>1. CASE e.type = "delta"
    <3>. DEFINE length == w.length + e.length
    <3>1. length \in Int BY DEF StreamStates
    <3>2. StreamStep(w, e, limit) =
              [w EXCEPT !.length = length, !.end = IF length > limit.length THEN "interrupted" ELSE @]
      BY <1>3, <2>1 DEF StreamStep
    <3>. HIDE DEF length
    <3>. QED BY <3>1, <3>2 DEF StreamStates
  <2>2. CASE e.type = "failed"
    <3>1. StreamStep(w, e, limit) = [w EXCEPT !.end = IF e.error THEN "interrupted" ELSE "failed"]
      BY <1>3, <2>2 DEF StreamStep
    <3>. QED BY <3>1 DEF StreamStates
  <2>3. CASE e.type = "completed"
    <3>1. StreamStep(w, e, limit) = [w EXCEPT !.completed = TRUE]
      BY <1>3, <2>3 DEF StreamStep
    <3>. QED BY <3>1 DEF StreamStates
  <2>4. CASE e.type \notin {"delta", "failed", "completed"}
    <3>1. StreamStep(w, e, limit) = w BY <1>3, <2>4 DEF StreamStep
    <3>. QED BY <3>1
  <2>. QED BY <2>1, <2>2, <2>3, <2>4
<1>. QED BY <1>1, <1>2, <1>3

(* The fold over the events, event by event. *)
IsRun(h, events, limit) ==
    /\ h[0] = StreamBase
    /\ \A k \in 1..Len(events) : h[k] = StreamStep(h[k - 1], events[k], limit)

EndOf(s, dropped, answer) ==
    IF s.end # "open" THEN s.end
    ELSE IF dropped \/ ~s.completed \/ answer # "valid" THEN "interrupted"
    ELSE "succeeded"

(* The result of a stream is that of a run over its events, one by one.     *)
LEMMA StreamFold ==
    ASSUME NEW E, NEW events \in Seq(E), StreamEvents(events), NEW limit, NEW dropped, NEW answer
    PROVE  \E h : /\ IsRun(h, events, limit)
                  /\ Stream(events, dropped, answer, limit) = EndOf(h[Len(events)], dropped, answer)
<1>. DEFINE n == Len(events)
            W == StreamStates
            step == [k \in 1..n |-> [w \in W |-> StreamStep(w, events[k], limit)]]
            Eq(g) == g = [s \in SUBSET (1..n) |-> IF s = {} THEN StreamBase
                                ELSE StreamStep(g[s \ {Max(s)}], events[Max(s)], limit)]
            iter == CHOOSE g : Eq(g)
            h == [k \in 0..n |-> iter[1..k]]
<1>1. n \in Nat /\ DOMAIN events = 1..n /\ \A k \in 1..n : events[k].length \in Int BY DEF StreamEvents
<1>2. step \in [1..n -> [W -> W]] BY <1>1, StreamStepType
<1>3. IsFiniteSet(1..n) /\ Picks(MaxPick(n), 1..n) BY <1>1, MaxPicks, IntervalIsFinite
<1>4. StreamBase \in W BY DEF StreamBase, StreamStates
<1>5. PICK g \in [SUBSET (1..n) -> W] : IsFold(g, StreamBase, step, MaxPick(n), 1..n)
  <2>. HIDE DEF n, step, W
  <2>. QED BY <1>2, <1>3, <1>4, FoldExists
<1>6. \A s \in SUBSET (1..n) : s # {} => Max(s) \in 1..n /\ s \ {Max(s)} \in SUBSET (1..n)
  <2>. HIDE DEF n
  <2>. QED BY <1>1, MaxOfSubset
<1>7. ASSUME NEW s \in SUBSET (1..n), s # {}
      PROVE  g[s] = StreamStep(g[s \ {Max(s)}], events[Max(s)], limit)
  <2>1. g[s] = step[Max(s)][g[s \ {Max(s)}]] BY <1>5, <1>7 DEF IsFold, MaxPick
  <2>2. Max(s) \in 1..n /\ g[s \ {Max(s)}] \in W BY <1>5, <1>6, <1>7
  <2>. QED BY <2>1, <2>2
<1>8. Eq(g)
  <2>. HIDE DEF n
  <2>1. g[{}] = StreamBase BY <1>5 DEF IsFold
  <2>. QED BY <1>5, <1>7, <2>1
<1>9. Eq(iter)
  <2>. HIDE DEF Eq
  <2>. QED BY <1>8
<1>10. Stream(events, dropped, answer, limit) = EndOf(iter[1..n], dropped, answer)
  BY <1>1 DEF Stream, FoldLeft, MapThenFoldSet, EndOf, StreamBase
<1>11. iter[{}] = StreamBase BY <1>9
<1>12. ASSUME NEW k \in 1..n PROVE iter[1..k] = StreamStep(iter[1..(k - 1)], events[k], limit)
  <2>1. Max(1..k) = k /\ (1..k) \ {k} = 1..(k - 1) /\ 1..k # {} /\ 1..k \in SUBSET (1..n)
    <3>. HIDE DEF n
    <3>. QED BY <1>1, MaxOfPrefix
  <2>2. Max(1..k) = k BY <1>6, <2>1
  <2>. HIDE DEF iter
  <2>. QED BY <1>9, <2>1, <2>2
<1>. HIDE DEF iter
<1>13. h[0] = StreamBase /\ h[n] = iter[1..n] /\ \A k \in 1..n : h[k] = StreamStep(h[k - 1], events[k], limit)
  BY <1>11, <1>12
<1>14. IsRun(h, events, limit) BY <1>13 DEF IsRun
<1>. QED BY <1>10, <1>13, <1>14

(* A stream that has not ended has only events that do not end it, and      *)
(* counts as completed only if one of them says so.                         *)
LEMMA OpenRun ==
    ASSUME NEW E, NEW events \in Seq(E), StreamEvents(events), NEW limit, NEW h, IsRun(h, events, limit),
           limit.seconds \in Int
    PROVE  \A k \in 0..Len(events) :
             /\ h[k] \in StreamStates
             /\ h[k].end = "open" =>
                  \A j \in 1..k : events[j].at <= limit.seconds /\ events[j].active /\ events[j].type # "failed"
             /\ h[k].completed => \E j \in 1..k : events[j].type = "completed"
<1>. DEFINE Holds(k) ==
                /\ h[k] \in StreamStates
                /\ h[k].end = "open" =>
                      \A j \in 1..k : events[j].at <= limit.seconds /\ events[j].active /\ events[j].type # "failed"
                /\ h[k].completed => \E j \in 1..k : events[j].type = "completed"
            T0 == {k \in Nat : k <= Len(events) => Holds(k)}
<1>1. 0 \in T0
  <2>1. h[0] = StreamBase BY DEF IsRun
  <2>2. Holds(0) BY <2>1 DEF StreamBase, StreamStates
  <2>. QED BY <2>2
<1>2. ASSUME NEW k \in Nat, k \in T0 PROVE k + 1 \in T0
  <2>. SUFFICES ASSUME k + 1 <= Len(events) PROVE Holds(k + 1) OBVIOUS
  <2>. DEFINE e == events[k + 1]
  <2>1. e.at \in Int /\ e.length \in Int /\ k + 1 \in 1..Len(events) /\ (k + 1) - 1 = k BY DEF StreamEvents
  <2>2. h[k + 1] = StreamStep(h[k], e, limit) BY <2>1 DEF IsRun
  <2>3. Holds(k) BY <1>2
  <2>4. h[k + 1] \in StreamStates BY <2>1, <2>2, <2>3, StreamStepType
  <2>. HIDE DEF e
  <2>5. h[k + 1].end = "open" => h[k].end = "open" /\ e.at <= limit.seconds /\ e.active /\ e.type # "failed"
    BY <2>1, <2>2, <2>3 DEF StreamStep, StreamStates
  <2>6. h[k + 1].completed => h[k].completed \/ e.type = "completed"
    BY <2>1, <2>2, <2>3 DEF StreamStep, StreamStates
  <2>7. \A j \in 1..(k + 1) : j \in 1..k \/ j = k + 1 OBVIOUS
  <2>8. 1..k \subseteq 1..(k + 1) /\ k + 1 \in 1..(k + 1) OBVIOUS
  <2>. QED BY <2>3, <2>4, <2>5, <2>6, <2>7, <2>8 DEF e
<1>3. Nat \subseteq T0
  <2>. HIDE DEF T0
  <2>. QED BY <1>1, <1>2, SetInduction
<1>. QED BY <1>3

(* A stream that ends in success held a completed event, no failed one,     *)
(* none after the deadline or from an inactive run, was not cut off and     *)
(* carried a valid answer (classify of workbench/openai.py), for every      *)
(* sequence of events.                                                      *)
THEOREM StreamsThatSucceed ==
    ASSUME NEW E, NEW events \in Seq(E), StreamEvents(events), NEW dropped \in BOOLEAN, NEW answer,
           NEW limit, limit.seconds \in Int,
           Stream(events, dropped, answer, limit) = "succeeded"
    PROVE  /\ \E i \in DOMAIN events : events[i].type = "completed"
           /\ \A i \in DOMAIN events :
                 events[i].at <= limit.seconds /\ events[i].active /\ events[i].type # "failed"
           /\ ~dropped /\ answer = "valid"
<1>1. PICK h : /\ IsRun(h, events, limit)
               /\ Stream(events, dropped, answer, limit) = EndOf(h[Len(events)], dropped, answer)
  BY StreamFold
<1>. DEFINE s == h[Len(events)]
<1>2. Len(events) \in 0..Len(events) /\ DOMAIN events = 1..Len(events) OBVIOUS
<1>3. /\ s \in StreamStates
      /\ s.end = "open" =>
           \A j \in 1..Len(events) : events[j].at <= limit.seconds /\ events[j].active /\ events[j].type # "failed"
      /\ s.completed => \E j \in 1..Len(events) : events[j].type = "completed"
  BY <1>1, <1>2, OpenRun
<1>. HIDE DEF s
<1>4. s.end = "open" /\ s.completed /\ ~dropped /\ answer = "valid" BY <1>1, <1>3 DEF StreamStates, EndOf, s
<1>. QED BY <1>2, <1>3, <1>4

-----------------------------------------------------------------------------
(* Answers: what the decision engines call a valid result                   *)

(* Distinct options, as many as fit in a question. *)
AreOptions(s) == s = [i \in 1..Len(s) |-> s[i]] /\ Len(s) \in 2..21 /\ IsInjective(s)

(* Distinct options are as many as the list is long.                        *)
LEMMA RangeOfInjective ==
    ASSUME NEW s, AreOptions(s)
    PROVE  IsFiniteSet(Range(s)) /\ Cardinality(Range(s)) = Len(s)
<1>1. /\ IsFiniteSet(1..Len(s)) /\ Cardinality(1..Len(s)) = Len(s) /\ DOMAIN s = 1..Len(s)
  <2>. DEFINE n == Len(s)
  <2>1. n \in Nat /\ 1 \in Int /\ n \in Int /\ DOMAIN s = 1..n BY DEF AreOptions
  <2>. HIDE DEF n
  <2>2. IsFiniteSet(1..n) /\ Cardinality(1..n) = n BY <2>1, FS_Interval
  <2>. QED BY <2>1, <2>2 DEF n
<1>2. s \in Bijection(1..Len(s), Range(s))
  BY <1>1 DEF Bijection, Injection, Surjection, IsInjective, Range, AreOptions
<1>3. ExistsBijection(1..Len(s), Range(s)) BY <1>2 DEF ExistsBijection
<1>. QED BY <1>1, <1>3, FS_Bijection

IsDistribution(p) == /\ \A o \in DOMAIN p : p[o] \in 0..1000
                     /\ SumFunctionOnSet(p, DOMAIN p) \in 980..1020

(* What the result validation asks of probabilities.                        *)
LEMMA DistributionIs == ASSUME NEW p PROVE DistributionIsValid(p) <=> IsDistribution(p)
BY DEF IsDistribution, DistributionIsValid, MapThenSumSet, MapThenFoldSet, SumFunctionOnSet,
       FoldFunctionOnSet, MapThenFoldSet

(* The confidence of an answer and even shares of the rest are a            *)
(* distribution over up to twenty-one options, whatever the confidence.     *)
THEOREM ConfidentAnswersAreValid ==
    ASSUME NEW options, AreOptions(options),
           NEW selected \in Range(options), NEW confidence \in 0..1000
    PROVE  /\ DOMAIN Confident(options, selected, confidence) = Range(options)
           /\ DistributionIsValid(Confident(options, selected, confidence))
<1>. DEFINE p == Confident(options, selected, confidence)
            d == Len(options) - 1
            a == 1000 - confidence
            r == a \div d
            X == Range(options)
<1>1. IsFiniteSet(X) /\ Cardinality(X) = d + 1 /\ Range(options) = X BY RangeOfInjective
<1>2. p = [o \in X |-> IF o = selected THEN confidence ELSE r] BY <1>1 DEF Confident
<1>3. d \in 1..20 /\ a \in Nat /\ a <= 1000 /\ confidence = 1000 - a
  <2>1. Len(options) \in 2..21 BY ZenonT(40) DEF AreOptions
  <2>. QED BY <2>1
<1>. HIDE DEF d, a, X, p
<1>4. r \in Nat /\ r <= a /\ d * r <= a /\ a - d < d * r
  <2>1. d \in Nat /\ d > 0 BY <1>3
  <2>. QED BY <1>3, <2>1, SharesOf
<1>. DEFINE shared == d * r
<1>. HIDE DEF r
<1>5. shared \in Int /\ shared <= a /\ a - d < shared BY <1>3, <1>4
<1>6. selected \in X BY DEF X
<1>7. SumFunctionOnSet(p, X) = confidence + shared
  <2>1. r \in Int /\ p[selected] = confidence /\ confidence \in Int /\ \A x \in X : x # selected => p[x] = r
    BY <1>2, <1>3, <1>4, <1>6
  <2>2. SumFunctionOnSet(p, X) = p[selected] + (Cardinality(X) - 1) * r
    BY <1>1, <1>6, <2>1, SumOfRest
  <2>3. Cardinality(X) - 1 = d BY <1>1, <1>3
  <2>. QED BY <2>1, <2>2, <2>3
<1>. HIDE DEF shared
<1>8. SumFunctionOnSet(p, X) \in 980..1020 BY <1>3, <1>5, <1>7
<1>9. \A o \in DOMAIN p : p[o] \in 0..1000
  <2>1. r \in 0..1000 /\ confidence \in 0..1000 BY <1>3, <1>4
  <2>. QED BY <1>2, <2>1
<1>10. DOMAIN p = X BY <1>2
<1>11. DistributionIsValid(p)
  <2>1. SumFunctionOnSet(p, DOMAIN p) \in 980..1020 BY <1>8, <1>10
  <2>2. IsDistribution(p) BY <1>9, <2>1 DEF IsDistribution
  <2>. QED BY <2>2, DistributionIs
<1>. QED BY <1>10, <1>11 DEF p, X

(* The rules' answer to a choice is valid when the rules select one of the  *)
(* options.                                                                 *)
LEMMA ChoiceAnswerIsValid ==
    ASSUME NEW q, q.primitive = "choice", AreOptions(q.options), NEW text, NEW channel,
           Selections(text, channel)[q.id] \in Range(q.options)
    PROVE  AnswerIsValid(q, RuleAnswer(q, text, channel))
<1>. DEFINE selected == Selections(text, channel)[q.id]
            confidence == IF selected \in {"other", "unclear"} THEN 680 ELSE 820
            answer == RuleAnswer(q, text, channel)
            options == q.options
<1>1. answer = [type |-> "choice", value |-> selected, confidence |-> confidence,
                probabilities |-> Confident(options, selected, confidence)]
  BY DEF RuleAnswer
<1>2. confidence \in 0..1000 /\ AreOptions(options) /\ selected \in Range(options)
  OBVIOUS
<1>. HIDE DEF answer, confidence, selected, options
<1>3. /\ DOMAIN Confident(options, selected, confidence) = Range(options)
      /\ DistributionIsValid(Confident(options, selected, confidence))
  <2>1. AreOptions(options) BY <1>2
  <2>2. selected \in Range(options) BY <1>2
  <2>3. confidence \in 0..1000 BY <1>2
  <2>. QED BY <2>1, <2>2, <2>3, ConfidentAnswersAreValid, ZenonT(40)
<1>4. /\ answer.type = "choice" /\ answer.value = selected /\ answer.confidence = confidence
      /\ answer.probabilities = Confident(options, selected, confidence)
  BY <1>1
<1>5. AnswerIsValid(q, answer) BY <1>2, <1>3, <1>4 DEF AnswerIsValid, options
<1>. QED BY <1>5 DEF answer

(* The rules' answer to a yes or no question is valid.                      *)
LEMMA FlagAnswerIsValid ==
    ASSUME NEW q, q.primitive = "noul", NEW text, NEW channel
    PROVE  AnswerIsValid(q, RuleAnswer(q, text, channel))
BY DEF AnswerIsValid, RuleAnswer

(* What the rules say of a text *)

TopicOptions == <<"support", "returns_refunds", "website_checkout", "product_information",
                  "price_value", "compatibility", "product_quality", "delivery", "other">>

(* The topics and the options that are made of them.                        *)
LEMMA TopicsAre ==
    /\ DOMAIN Topics = 1..9
    /\ Tail(Topics) \o <<"other">> = TopicOptions
    /\ AreOptions(TopicOptions)
    /\ \A i \in 1..9 : Topics[i] \in Range(TopicOptions)
<1>1. DOMAIN Topics = 1..9 BY DEF Topics
<1>2. Len(TopicOptions) = 9 /\ DOMAIN TopicOptions = 1..9 BY DEF TopicOptions
<1>3. Tail(Topics) \o <<"other">> = TopicOptions
  <2>. DEFINE t == Tail(Topics)
  <2>1. Len(t) = 8 /\ \A i \in 1..8 : t[i] = TopicOptions[i] BY DEF Topics, TopicOptions
  <2>2. TopicOptions = [i \in 1..9 |-> IF i <= 8 THEN TopicOptions[i] ELSE "other"] BY <1>2 DEF TopicOptions
  <2>3. t \in Seq({t[i] : i \in 1..8}) BY DEF Topics
  <2>. HIDE DEF t
  <2>4. t \o <<"other">> = [i \in 1..9 |-> IF i <= 8 THEN t[i] ELSE "other"]
    <3>. DEFINE U == {t[i] : i \in 1..8} \cup {"other"}
    <3>1. t \in Seq(U) /\ "other" \in U BY <2>3
    <3>. HIDE DEF U
    <3>2. t \o <<"other">> = [i \in 1..(Len(t) + 1) |-> IF i <= Len(t) THEN t[i] ELSE "other"]
      BY <3>1, ConcatOne
    <3>3. Len(t) = 8 BY <2>1
    <3>. QED BY <3>2, <3>3
  <2>5. t \o <<"other">> = TopicOptions
    <3>. DEFINE u == TopicOptions
    <3>1. /\ \A i \in 1..8 : t[i] = u[i]
          /\ u = [i \in 1..9 |-> IF i <= 8 THEN u[i] ELSE "other"]
      BY <2>1, <2>2
    <3>. HIDE DEF u
    <3>2. [i \in 1..9 |-> IF i <= 8 THEN t[i] ELSE "other"] = [i \in 1..9 |-> IF i <= 8 THEN u[i] ELSE "other"]
      BY <3>1
    <3>3. t \o <<"other">> = u BY Zenon, <2>4, <3>1, <3>2
    <3>. QED BY <3>3 DEF u
  <2>. QED BY <2>5 DEF t
<1>4. AreOptions(TopicOptions) BY <1>2 DEF IsInjective, TopicOptions, AreOptions
<1>5. \A i \in 1..9 : Topics[i] \in Range(TopicOptions)
  <2>1. Range(TopicOptions) = {TopicOptions[i] : i \in 1..9} BY <1>2 DEF Range
  <2>. QED BY <2>1 DEF TopicOptions, Topics
<1>. QED BY <1>1, <1>3, <1>4, <1>5

(* The rules give a topic of the options, and `other' to an irrelevant      *)
(* text.                                                                    *)
LEMMA TopicIs ==
    ASSUME NEW text, NEW channel
    PROVE  /\ Topic(text, channel) \in Range(TopicOptions)
           /\ Has(text, "irrelevant") => Topic(text, channel) = "other"
<1>. DEFINE applying == {i \in DOMAIN Topics : Applies(Topics[i], text)}
<1>1. DOMAIN Topics = 1..9 BY TopicsAre
<1>2. applying \in SUBSET (1..9) BY <1>1
<1>3. applying # {} => Min(applying) \in applying /\ \A y \in applying : Min(applying) <= y
  <2>. HIDE DEF applying
  <2>. QED BY <1>2, MinOfSubset
<1>4. "other" \in Range(TopicOptions) /\ "product_quality" \in Range(TopicOptions)
  BY TopicsAre DEF Range, TopicOptions
<1>5. Topic(text, channel) = IF applying # {} THEN Topics[Min(applying)]
                               ELSE IF channel = "product_review" THEN "product_quality" ELSE "other"
  BY DEF Topic
<1>6. ASSUME Has(text, "irrelevant") PROVE Topic(text, channel) = "other"
  <2>1. Topics[1] = "other" /\ 1 \in DOMAIN Topics BY <1>1 DEF Topics
  <2>2. Applies("other", text) BY <1>6 DEF Applies
  <2>3. 1 \in applying BY <2>1, <2>2
  <2>4. Min(applying) = 1 BY <1>2, <1>3, <2>3
  <2>. QED BY <1>5, <2>1, <2>3, <2>4
<1>. QED BY <1>1, <1>2, <1>3, <1>4, <1>5, <1>6, TopicsAre

(* The rules score within the two scales.                                   *)
LEMMA ScoreRange ==
    ASSUME NEW text
    PROVE  Scores(text).overall_experience \in 0..4 /\ Scores(text).issue_severity \in 0..3
<1>. DEFINE InRange(s) == s.overall_experience \in 0..4 /\ s.issue_severity \in 0..3
            ground == Grounds[Min({i \in DOMAIN Grounds : Grounded(Grounds[i], text)})]
<1>1. /\ InRange(Scored(0, 0, 2, 2, 2)) /\ InRange(Scored(0, 0, 2, 2, 3)) /\ InRange(Scored(1, 1, 1, 2, 2))
      /\ InRange(Scored(2, 2, 2, 2, 1)) /\ InRange(Scored(1, 1, 2, 2, 2)) /\ InRange(Scored(1, 1, 2, 2, 3))
      /\ InRange(Scored(3, 3, 2, 2, 1)) /\ InRange(Scored(3, 3, 2, 2, 0)) /\ InRange(Scored(4, 4, 2, 2, 0))
      /\ InRange(Scored(1, 3, 1, 2, 1)) /\ InRange(Scored(2, 2, 2, 2, 0))
  BY DEF Scored
<1>2. InRange(SupportScores(text)) BY DEF SupportScores, Scored
<1>3. InRange(ReturnScores(text)) BY DEF ReturnScores, Scored
<1>4. InRange(DeliveryScores(text)) BY DEF DeliveryScores, Scored
<1>5. \E g : Scores(text) =
        CASE g = "stability" -> Scored(0, 0, 2, 2, IF "restart" \in text THEN 2 ELSE 3)
          [] g = "damage" -> Scored(1, 1, 1, 2, 2)
          [] g = "noise" -> IF "performs well" \in text THEN Scored(2, 2, 2, 2, 1)
                                 ELSE Scored(1, 1, 2, 2, 2)
          [] g = "compatibility" -> Scored(1, 1, 2, 2, 3)
          [] g = "support" -> SupportScores(text)
          [] g = "returns" -> ReturnScores(text)
          [] g = "delivery" -> DeliveryScores(text)
          [] g = "price" -> Scored(3, 3, 2, 2, IF "accessories" \in text THEN 1 ELSE 0)
          [] g = "information" -> LET s == IF "fast and quiet" \in text THEN 3 ELSE 2
                                       IN  Scored(s, s, 2, 2, 1)
          [] g = "really pleased" -> Scored(4, 4, 2, 2, 0)
          [] g = "works exactly as expected" -> Scored(3, 3, 2, 2, 0)
          [] g = "frustration" -> Scored(1, 3, 1, 2, 1)
          [] g \in {"checkout", "great speed"} -> Scored(2, 2, 2, 2, 1)
          [] OTHER -> Scored(2, 2, 2, 2, 0)
  BY Zenon DEF Scores
<1>6. InRange(Scores(text))
  <2>. HIDE DEF InRange
  <2>. QED BY <1>1, <1>2, <1>3, <1>4, <1>5, Zenon
<1>. QED BY <1>6

(* The resolutions the rules give.                                          *)
LEMMA ResolutionIs ==
    ASSUME NEW text, NEW channel
    PROVE  Resolution(text, channel) \in {"resolved", "unresolved", "not_applicable", "unclear"}
BY DEF Resolution

(* The defect types the rules give; `unclear' exactly when they see no      *)
(* defect.                                                                  *)
LEMMA DefectTypeIs ==
    ASSUME NEW text
    PROVE  /\ DefectType(text) \in {"noise", "stability", "physical_damage", "other", "unclear"}
           /\ Defect(text) <=> DefectType(text) # "unclear"
BY DEF DefectType, Defect

ResolutionOptions == <<"resolved", "partially_resolved", "unresolved", "not_applicable", "unclear">>

DefectOptions == <<"noise", "thermal", "stability", "physical_damage",
                   "compatibility", "missing_component", "other", "unclear">>

(* The options of the three choices are distinct and contain what the rules *)
(* give.                                                                    *)
LEMMA OptionsAre ==
    /\ AreOptions(TopicOptions) /\ AreOptions(ResolutionOptions) /\ AreOptions(DefectOptions)
    /\ {"resolved", "unresolved", "not_applicable", "unclear"} \subseteq Range(ResolutionOptions)
    /\ {"noise", "stability", "physical_damage", "other", "unclear"} \subseteq Range(DefectOptions)
<1>1. Len(ResolutionOptions) = 5 /\ DOMAIN ResolutionOptions = 1..5 BY DEF ResolutionOptions
<1>2. Len(DefectOptions) = 8 /\ DOMAIN DefectOptions = 1..8 BY DEF DefectOptions
<1>3. AreOptions(ResolutionOptions) BY <1>1 DEF IsInjective, ResolutionOptions, AreOptions
<1>4. AreOptions(DefectOptions) BY <1>2 DEF IsInjective, DefectOptions, AreOptions
<1>5. {"resolved", "unresolved", "not_applicable", "unclear"} \subseteq Range(ResolutionOptions)
  <2>1. Range(ResolutionOptions) = {ResolutionOptions[i] : i \in 1..5} BY <1>1 DEF Range
  <2>. QED BY <2>1 DEF ResolutionOptions
<1>6. {"noise", "stability", "physical_damage", "other", "unclear"} \subseteq Range(DefectOptions)
  <2>1. Range(DefectOptions) = {DefectOptions[i] : i \in 1..8} BY <1>2 DEF Range
  <2>. QED BY <2>1 DEF DefectOptions
<1>. QED BY <1>3, <1>4, <1>5, <1>6, TopicsAre

-----------------------------------------------------------------------------
(* Recordings: the fixture engine replays what was recorded                 *)

(* The last recording of a text. *)
IsLast(recordings, k) ==
    k \in DOMAIN recordings /\ \A j \in DOMAIN recordings :
        recordings[j].state.hash = recordings[k].state.hash => j <= k

(* Of the recordings of a state there is a last one.                        *)
LEMMA LastRecording ==
    ASSUME NEW U, NEW recordings \in Seq(U), NEW i \in DOMAIN recordings
    PROVE  \E k \in DOMAIN recordings : IsLast(recordings, k) /\ recordings[k].state.hash = recordings[i].state.hash
<1>. DEFINE n == Len(recordings)
            same == {j \in 1..n : recordings[j].state.hash = recordings[i].state.hash}
<1>1. n \in Nat /\ DOMAIN recordings = 1..n OBVIOUS
<1>2. same \in SUBSET (1..n) /\ i \in same BY <1>1
<1>3. Max(same) \in same /\ \A y \in same : Max(same) >= y
  <2>. HIDE DEF same, n
  <2>. QED BY <1>1, <1>2, MaxOfSubset
<1>. QED BY <1>1, <1>3 DEF IsLast

(* A fixture that is written has one schema and one model, and of every     *)
(* state the last answers.                                                  *)
LEMMA WrittenFixture ==
    ASSUME NEW U, NEW recordings \in Seq(U), NEW schema, WriteFixture(schema, recordings) # <<>>,
           NEW k, IsLast(recordings, k)
    PROVE  /\ WriteFixture(schema, recordings)[1].schema = schema
           /\ \A i \in DOMAIN recordings :
                 WriteFixture(schema, recordings)[1].model = recordings[i].result.model
           /\ recordings[k].state.hash \in DOMAIN WriteFixture(schema, recordings)[1].records
           /\ WriteFixture(schema, recordings)[1].records[recordings[k].state.hash] = recordings[k].result.answers
<1>. DEFINE models == {<<r.result.provider, r.result.model>> : r \in Range(recordings)}
            hashes == {r.state.hash : r \in Range(recordings)}
            last(h) == Max({i \in DOMAIN recordings : recordings[i].state.hash = h})
            model == (CHOOSE m \in models : TRUE)[2]
            records == [h \in hashes |-> recordings[last(h)].result.answers]
            n == Len(recordings)
<1>1. n \in Nat /\ DOMAIN recordings = 1..n /\ Range(recordings) = {recordings[i] : i \in 1..n}
  BY DEF Range
<1>2. WriteFixture(schema, recordings) =
          IF Cardinality(models) # 1 THEN <<>> ELSE <<[schema |-> schema, model |-> model, records |-> records]>>
  <2>. DEFINE ms == {<<r.result.provider, r.result.model>> : r \in Range(recordings)}
              hs == {r.state.hash : r \in Range(recordings)}
              rs == [h \in hs |->
                  recordings[Max({i \in DOMAIN recordings : recordings[i].state.hash = h})].result.answers]
  <2>1. WriteFixture(schema, recordings) =
            IF Cardinality(ms) # 1 THEN <<>>
            ELSE <<[schema |-> schema, model |-> (CHOOSE m \in ms : TRUE)[2], records |-> rs]>>
    BY DEF WriteFixture
  <2>2. ms = models /\ hs = hashes OBVIOUS
  <2>3. \A h : Max({i \in DOMAIN recordings : recordings[i].state.hash = h}) = last(h) OBVIOUS
  <2>4. rs = records BY <2>2, <2>3
  <2>. HIDE DEF records, rs, ms, models
  <2>5. Cardinality(ms) = Cardinality(models) BY <2>2
  <2>. QED BY <2>1, <2>2, <2>4, <2>5
<1>3. Cardinality(models) = 1 BY <1>2
<1>4. \A r : <<r>>[1] = r OBVIOUS
<1>5. /\ WriteFixture(schema, recordings)[1].schema = schema
      /\ WriteFixture(schema, recordings)[1].model = model
      /\ WriteFixture(schema, recordings)[1].records = records
  <2>. HIDE DEF models, model, records
  <2>. QED BY <1>2, <1>3, <1>4
<1>6. IsFiniteSet(models)
  <2>. DEFINE f == [i \in 1..n |-> <<recordings[i].result.provider, recordings[i].result.model>>]
  <2>1. models = {f[i] : i \in 1..n} BY <1>1
  <2>2. f \in Surjection(1..n, models) BY <2>1 DEF Surjection
  <2>3. IsFiniteSet(1..n) BY <1>1, IntervalIsFinite
  <2>. HIDE DEF f, models, n
  <2>. QED BY <2>2, <2>3, FS_Surjection
<1>7. PICK m : models = {m}
  <2>. HIDE DEF models
  <2>. QED BY <1>3, <1>6, FS_Singleton
<1>8. \A i \in DOMAIN recordings : model = recordings[i].result.model
  <2>1. (CHOOSE x \in models : TRUE) = m BY <1>7
  <2>2. ASSUME NEW i \in DOMAIN recordings PROVE m[2] = recordings[i].result.model
    <3>1. <<recordings[i].result.provider, recordings[i].result.model>> \in models BY <1>1
    <3>2. m = <<recordings[i].result.provider, recordings[i].result.model>> BY <1>7, <3>1
    <3>. QED BY <3>2
  <2>. QED BY <2>1, <2>2
<1>9. recordings[k].state.hash \in hashes BY <1>1 DEF IsLast
<1>10. last(recordings[k].state.hash) = k
  <2>. DEFINE same == {i \in 1..n : recordings[i].state.hash = recordings[k].state.hash}
  <2>1. same \in SUBSET (1..n) /\ k \in same /\ \A j \in same : j <= k BY <1>1 DEF IsLast
  <2>2. Max(same) \in same /\ \A y \in same : Max(same) >= y
    <3>. HIDE DEF same, n
    <3>. QED BY <1>1, <2>1, MaxOfSubset
  <2>3. Max(same) = k
    <3>. HIDE DEF same, n
    <3>1. k \in 1..n /\ Max(same) \in 1..n BY <2>1, <2>2
    <3>2. Max(same) <= k /\ Max(same) >= k BY <2>1, <2>2
    <3>3. k \in Int /\ Max(same) \in Int BY <3>1
    <3>. QED BY <3>2, <3>3
  <2>. QED BY <1>1, <2>3
<1>. QED BY ZenonT(40), <1>5, <1>8, <1>9, <1>10

(* A fixture gives back, for a text, the answers of its last recording when *)
(* they are valid answers, and nothing for another schema.                  *)
THEOREM FixtureReplays ==
    ASSUME NEW U, NEW recordings \in Seq(U), NEW schema, NEW questions, WriteFixture(schema, recordings) # <<>>,
           NEW k, IsLast(recordings, k), NEW other, other # schema
    PROVE  LET fixture == WriteFixture(schema, recordings)[1]
           IN  /\ Replay(fixture, schema, questions, recordings[k].state) =
                      IF ResultIsValid(questions, recordings[k].result.answers)
                      THEN <<[provider |-> "fixture", model |-> recordings[k].result.model,
                              answers |-> recordings[k].result.answers]>>
                      ELSE <<>>
               /\ Replay(fixture, other, questions, recordings[k].state) = <<>>
<1>1. k \in DOMAIN recordings BY DEF IsLast
<1>. DEFINE fixture == WriteFixture(schema, recordings)[1]
<1>2. /\ fixture.schema = schema
      /\ fixture.model = recordings[k].result.model
      /\ recordings[k].state.hash \in DOMAIN fixture.records
      /\ fixture.records[recordings[k].state.hash] = recordings[k].result.answers
  BY <1>1, WrittenFixture
<1>. HIDE DEF fixture
<1>3. /\ Replay(fixture, schema, questions, recordings[k].state) =
                      IF ResultIsValid(questions, recordings[k].result.answers)
                      THEN <<[provider |-> "fixture", model |-> recordings[k].result.model,
                              answers |-> recordings[k].result.answers]>>
                      ELSE <<>>
      /\ Replay(fixture, other, questions, recordings[k].state) = <<>>
  BY <1>2 DEF Replay
<1>. QED BY <1>3 DEF fixture

-----------------------------------------------------------------------------
(* Mapped answers, and the decisions invariant                              *)

(* The expected level, in thousandths. *)
ExpectedValue(p) == MapThenSumSet(LAMBDA o : o * p[o], DOMAIN p)

Weights(p) == [o \in DOMAIN p |-> o * p[o]]

(* The expected value of probabilities is a sum of weights.                 *)
LEMMA ExpectedIs ==
    ASSUME NEW p, IsFiniteSet(DOMAIN p), \A o \in DOMAIN p : o * p[o] \in Int
    PROVE  ExpectedValue(p) = SumFunctionOnSet(Weights(p), DOMAIN p)
<1>. DEFINE X == DOMAIN p
            f == Weights(p)
            Eq(g) == g = [s \in SUBSET X |-> IF s = {} THEN 0
                              ELSE AnyOf(s) * p[AnyOf(s)] + g[s \ {AnyOf(s)}]]
            iter == CHOOSE g : Eq(g)
<1>1. \A x \in X : f[x] = x * p[x] BY DEF Weights
<1>2. \A x \in X : f[x] \in Int BY <1>1
<1>3. \A s \in SUBSET X : s # {} => AnyOf(s) \in X BY DEF AnyOf
<1>. HIDE DEF X, f
<1>4. PICK g \in [SUBSET X -> Int] : IsSum(g, f, X) BY <1>2, SumExists DEF X
<1>5. Eq(g) BY <1>1, <1>3, <1>4 DEF IsSum
<1>6. Eq(iter)
  <2>. HIDE DEF Eq
  <2>. QED BY <1>5
<1>7. IsSum(iter, f, X)
  <2>. HIDE DEF iter
  <2>. QED BY <1>1, <1>3, <1>6 DEF IsSum
<1>8. SumFunctionOnSet(f, X) = iter[X]
  <2>. HIDE DEF iter
  <2>. QED BY <1>2, <1>7, SumIs DEF X
<1>9. ExpectedValue(p) = iter[X]
  BY SMTT(30) DEF ExpectedValue, MapThenSumSet, MapThenFoldSet, AnyOf, X
<1>. QED BY <1>8, <1>9 DEF X, f

(* Probabilities of the local model by option *)

(* The first of the most probable options. *)
IsFirstMost(options, p, i) ==
    /\ i \in 1..Len(options)
    /\ \A j \in 1..Len(options) : p[options[j]] <= p[options[i]]
    /\ \A j \in 1..(i - 1) : p[options[j]] < p[options[i]]

(* There is a first among the most probable options, and it is the one the  *)
(* mapping chooses.                                                         *)
LEMMA FirstMost ==
    ASSUME NEW q, AreOptions(q.options), NEW p \in [Range(q.options) -> Int]
    PROVE  \E i : /\ IsFirstMost(q.options, p, i)
                  /\ Max({p[o] : o \in DOMAIN p}) = p[q.options[i]]
                  /\ i = CHOOSE k \in DOMAIN q.options :
                             /\ p[q.options[k]] = p[q.options[i]]
                             /\ \A j \in 1..(k - 1) : p[q.options[j]] < p[q.options[i]]
<1>. DEFINE options == q.options
            n == Len(options)
            vs == {p[o] : o \in DOMAIN p}
            most == Max(vs)
            at == {k \in 1..n : p[options[k]] = most}
            i == Min(at)
<1>1. n \in 2..21 /\ n \in Nat /\ DOMAIN options = 1..n /\ DOMAIN p = Range(options)
      /\ Range(options) = {options[k] : k \in 1..n}
  BY DEF AreOptions, Range
<1>2. vs = {p[options[k]] : k \in 1..n} /\ vs \subseteq Int /\ vs # {}
  <2>1. vs = {p[o] : o \in {options[k] : k \in 1..n}} BY <1>1
  <2>2. vs = {p[options[k]] : k \in 1..n} BY <2>1
  <2>3. \A k \in 1..n : p[options[k]] \in Int BY <1>1
  <2>4. 1 \in 1..n
    <3>. HIDE DEF n
    <3>. QED BY <1>1
  <2>. QED BY <2>2, <2>3, <2>4
<1>3. IsFiniteSet(vs)
  <2>. DEFINE f == [k \in 1..n |-> p[options[k]]]
  <2>1. f \in Surjection(1..n, vs) BY <1>2 DEF Surjection
  <2>. HIDE DEF f, vs, n
  <2>. QED BY <1>1, <2>1, IntervalIsFinite, FS_Surjection
<1>4. most \in vs /\ \A y \in vs : most >= y
  <2>. HIDE DEF vs
  <2>. QED BY <1>2, <1>3, MaxOfFinite
<1>5. Max(vs) = most OBVIOUS
<1>. HIDE DEF most, vs
<1>6. at \in SUBSET (1..n) /\ at # {} BY <1>2, <1>4
<1>7. i \in at /\ \A y \in at : i <= y
  <2>. HIDE DEF at, n
  <2>. QED BY <1>1, <1>6, MinOfSubset
<1>. HIDE DEF i
<1>8. i \in 1..n /\ p[options[i]] = most BY <1>7
<1>9. \A j \in 1..n : p[options[j]] \in vs /\ p[options[j]] \in Int /\ p[options[j]] <= most
  BY <1>2, <1>4
<1>10. \A j \in 1..(i - 1) : j \in 1..n /\ j \notin at
  BY <1>1, <1>7, <1>8
<1>11. \A j \in 1..(i - 1) : p[options[j]] < most BY <1>8, <1>9, <1>10, SMTT(30)
<1>12. IsFirstMost(options, p, i) BY <1>8, <1>9, <1>11 DEF IsFirstMost
<1>13. \A k \in 1..n : (p[options[k]] = most /\ \A j \in 1..(k - 1) : p[options[j]] < most) => k = i
  <2>. SUFFICES ASSUME NEW k \in 1..n, p[options[k]] = most, \A j \in 1..(k - 1) : p[options[j]] < most
                PROVE  k = i
    OBVIOUS
  <2>1. k \in at /\ i <= k BY <1>7
  <2>2. ~(i < k)
    <3>. SUFFICES ASSUME i < k PROVE FALSE OBVIOUS
    <3>1. i \in 1..(k - 1) BY <1>8
    <3>2. most < most /\ most \in Int BY <1>8, <1>9, <3>1
    <3>. QED BY <3>2
  <2>. QED BY <1>8, <2>1, <2>2
<1>14. i = CHOOSE k \in 1..n : p[options[k]] = most /\ \A j \in 1..(k - 1) : p[options[j]] < most
  BY <1>8, <1>11, <1>13
<1>. QED BY ZenonT(40), <1>1, <1>5, <1>8, <1>12, <1>14 DEF vs

(* A choice is mapped to the first of its most probable options, with that  *)
(* probability as its confidence, and the mapped answer is valid exactly    *)
(* when the probabilities are (_map_answer of the SemIf engine), for every  *)
(* list of options.                                                         *)
THEOREM MappedChoices ==
    ASSUME NEW q, q.primitive = "choice", AreOptions(q.options), NEW p \in [Range(q.options) -> Int]
    PROVE  \E i : /\ IsFirstMost(q.options, p, i)
                  /\ MapAnswer(q, p) = <<[type |-> "choice", value |-> q.options[i],
                                            confidence |-> p[q.options[i]], probabilities |-> p]>>
                  /\ AnswerIsValid(q, MapAnswer(q, p)[1]) <=> DistributionIsValid(p)
<1>1. PICK i : /\ IsFirstMost(q.options, p, i)
               /\ Max({p[o] : o \in DOMAIN p}) = p[q.options[i]]
               /\ i = CHOOSE k \in DOMAIN q.options :
                             /\ p[q.options[k]] = p[q.options[i]]
                             /\ \A j \in 1..(k - 1) : p[q.options[j]] < p[q.options[i]]
  BY FirstMost
<1>2. DOMAIN p = Range(q.options) OBVIOUS
<1>3. MapAnswer(q, p) = <<[type |-> "choice", value |-> q.options[i],
                             confidence |-> p[q.options[i]], probabilities |-> p]>>
  BY Zenon, <1>1, <1>2 DEF MapAnswer
<1>4. q.options[i] \in Range(q.options) BY Zenon, <1>1 DEF IsFirstMost, AreOptions, Range
<1>. DEFINE answer == MapAnswer(q, p)[1]
<1>5. /\ answer.type = "choice" /\ answer.value = q.options[i] /\ answer.confidence = p[q.options[i]]
      /\ answer.probabilities = p
  BY SMTT(30), <1>3
<1>. HIDE DEF answer
<1>6. DistributionIsValid(p) => p[q.options[i]] \in 0..1000
  <2>. SUFFICES ASSUME DistributionIsValid(p) PROVE p[q.options[i]] \in 0..1000 BY Zenon
  <2>1. IsDistribution(p) BY DistributionIs, SMTT(30)
  <2>. QED BY <1>2, <1>4, <2>1, SMTT(30) DEF IsDistribution
<1>7. AnswerIsValid(q, answer) =>  DistributionIsValid(p)
  BY <1>5, SMTT(30) DEF AnswerIsValid
<1>8. DistributionIsValid(p) => AnswerIsValid(q, answer)
  <2>. SUFFICES ASSUME DistributionIsValid(p) PROVE AnswerIsValid(q, answer) OBVIOUS
  <2>1. answer.confidence \in 0..1000 /\ DistributionIsValid(answer.probabilities) BY ZenonT(40), <1>5, <1>6
  <2>2. answer.value \in Range(q.options) /\ DOMAIN answer.probabilities = Range(q.options)
    BY <1>2, <1>4, <1>5
  <2>. QED BY SMT, <1>5, <2>1, <2>2 DEF AnswerIsValid
<1>. QED BY Zenon, <1>1, <1>3, <1>7, <1>8 DEF answer

-----------------------------------------------------------------------------
(* Digits: the checks behind card, account and identity numbers             *)

(* Luhn's check digit *)

LuhnTerms(digits) ==
    [i \in DOMAIN digits |-> IF (Len(digits) - i) % 2 = 1 THEN DigitSum(2 * digits[i]) ELSE digits[i]]

(* The digit sum of a doubled digit is a digit.                             *)
LEMMA DigitSums ==
    \A d \in 0..9 : DigitSum(2 * d) \in 0..9
BY DEF DigitSum

(* Different digits have different digit sums when doubled.                 *)
LEMMA DigitSumsDiffer ==
    \A d, e \in 0..9 : d # e => DigitSum(2 * d) # DigitSum(2 * e)
BY DEF DigitSum

(* The terms of the Luhn sum are digits.                                    *)
LEMMA LuhnTermsAreDigits ==
    ASSUME NEW digits \in Seq(0..9)
    PROVE  \A i \in 1..Len(digits) : LuhnTerms(digits)[i] \in 0..9
BY DigitSums, SMTT(30) DEF LuhnTerms

(* The Luhn check is one sum over the digits, from the last to the first.   *)
LEMMA LuhnIs ==
    ASSUME NEW digits \in Seq(0..9)
    PROVE  Luhn(digits) <=> /\ Len(digits) >= 10
                              /\ SumFunctionOnSet(LuhnTerms(digits), 1..Len(digits)) % 10 = 0
<1>. DEFINE X == DOMAIN digits
            f == LuhnTerms(digits)
            term(i) == IF (Len(digits) - i) % 2 = 1 THEN DigitSum(2 * digits[i]) ELSE digits[i]
            Eq(g) == g = [s \in SUBSET X |-> IF s = {} THEN 0
                              ELSE term(AnyOf(s)) + g[s \ {AnyOf(s)}]]
            iter == CHOOSE g : Eq(g)
<1>1. \A x \in X : f[x] = term(x) BY DEF LuhnTerms
<1>2. X = 1..Len(digits) /\ Len(digits) \in Nat OBVIOUS
<1>3. \A x \in X : f[x] \in Int BY <1>2, LuhnTermsAreDigits
<1>4. \A s \in SUBSET X : s # {} => AnyOf(s) \in X BY DEF AnyOf
<1>5. IsFiniteSet(X) BY <1>2, IntervalIsFinite
<1>6. (Luhn(digits)) <=> (Len(digits) >= 10 /\ iter[X] % 10 = 0)
  BY DEF Luhn, MapThenSumSet, MapThenFoldSet, AnyOf
<1>. HIDE DEF X, f, term
<1>7. PICK g \in [SUBSET X -> Int] : IsSum(g, f, X) BY <1>3, <1>5, SumExists
<1>8. Eq(g) BY <1>1, <1>4, <1>7 DEF IsSum
<1>9. Eq(iter)
  <2>. HIDE DEF Eq
  <2>. QED BY <1>8
<1>10. IsSum(iter, f, X)
  <2>. HIDE DEF iter
  <2>. QED BY <1>1, <1>4, <1>9 DEF IsSum
<1>11. SumFunctionOnSet(f, X) = iter[X]
  <2>. HIDE DEF iter
  <2>. QED BY <1>3, <1>5, <1>10, SumIs
<1>. QED BY <1>2, <1>6, <1>11 DEF f

(* One wrong digit is never overlooked in a card number, and zeros in front *)
(* of ten digits or more do not matter (_passes_luhn), whatever the length. *)
THEOREM CardDigitsAreChecked ==
    ASSUME NEW digits \in Seq(0..9)
    PROVE  /\ Luhn(digits) => \A i \in DOMAIN digits, d \in 0..9 :
                  d # digits[i] => ~Luhn([digits EXCEPT ![i] = d])
           /\ Len(digits) >= 10 => (Luhn(digits) <=> Luhn(<<0>> \o digits))
<1>. DEFINE n == Len(digits)
            f == LuhnTerms(digits)
<1>1. n \in Nat /\ DOMAIN digits = 1..n /\ \A i \in 1..n : digits[i] \in 0..9 OBVIOUS
<1>2. \A i \in 1..n : f[i] \in 0..9 BY LuhnTermsAreDigits
<1>3. ASSUME Luhn(digits), NEW i \in DOMAIN digits, NEW d \in 0..9, d # digits[i]
      PROVE  ~Luhn([digits EXCEPT ![i] = d])
  <2>. DEFINE other == [digits EXCEPT ![i] = d]
              g == LuhnTerms(other)
  <2>1. other \in Seq(0..9) /\ Len(other) = n /\ DOMAIN other = 1..n OBVIOUS
  <2>2. other[i] = d /\ \A x \in (1..n) \ {i} : other[x] = digits[x] BY <1>1
  <2>. HIDE DEF other
  <2>3. \A x \in 1..n : g[x] \in 0..9 BY <2>1, LuhnTermsAreDigits
  <2>4. \A x \in (1..n) \ {i} : f[x] = g[x] BY <1>1, <2>1, <2>2 DEF LuhnTerms
  <2>5. f[i] # g[i]
    <3>1. digits[i] \in 0..9 /\ i \in 1..n BY <1>1, <1>3
    <3>2. DigitSum(2 * d) # DigitSum(2 * digits[i]) BY <1>3, <3>1, DigitSumsDiffer
    <3>3. f[i] = IF (n - i) % 2 = 1 THEN DigitSum(2 * digits[i]) ELSE digits[i] BY <1>1, <3>1 DEF LuhnTerms
    <3>4. g[i] = IF (n - i) % 2 = 1 THEN DigitSum(2 * d) ELSE d BY <2>1, <2>2, <3>1 DEF LuhnTerms
    <3>. HIDE DEF f, g, n
    <3>. QED BY <1>3, <3>2, <3>3, <3>4
  <2>. HIDE DEF f, g
  <2>6. SumFunctionOnSet(f, 1..n) % 10 # SumFunctionOnSet(g, 1..n) % 10
    <3>1. i \in 1..n BY <1>1
    <3>2. \A x \in 1..n : f[x] \in 0..9 /\ g[x] \in 0..9 BY <1>2, <2>3
    <3>. HIDE DEF n
    <3>. QED BY <1>1, <2>4, <2>5, <3>1, <3>2, OneTermDiffers
  <2>7. SumFunctionOnSet(f, 1..n) % 10 = 0 BY <1>3, LuhnIs DEF f
  <2>8. ~Luhn(other) BY <2>1, <2>6, <2>7, LuhnIs DEF g
  <2>. QED BY <2>8 DEF other
<1>4. ASSUME n >= 10 PROVE Luhn(digits) <=> Luhn(<<0>> \o digits)
  <2>. DEFINE longer == <<0>> \o digits
              g == LuhnTerms(longer)
  <2>1. longer \in Seq(0..9) /\ Len(longer) = n + 1 /\ longer[1] = 0
        /\ DOMAIN longer = 1..(n + 1) /\ \A i \in 1..n : longer[i + 1] = digits[i]
    OBVIOUS
  <2>. HIDE DEF longer
  <2>2. g[1] = 0
    <3>1. g[1] = IF ((n + 1) - 1) % 2 = 1 THEN DigitSum(2 * longer[1]) ELSE longer[1]
      <4>1. 1 \in DOMAIN longer BY <1>1, <2>1
      <4>. QED BY <2>1, <4>1 DEF LuhnTerms
    <3>. QED BY <2>1, <3>1 DEF DigitSum
  <2>3. \A i \in 1..n : g[i + 1] = f[i]
    <3>. SUFFICES ASSUME NEW i \in 1..n PROVE g[i + 1] = f[i] OBVIOUS
    <3>1. i + 1 \in DOMAIN longer /\ (n + 1) - (i + 1) = n - i /\ longer[i + 1] = digits[i] BY <1>1, <2>1
    <3>2. g[i + 1] = IF ((n + 1) - (i + 1)) % 2 = 1 THEN DigitSum(2 * longer[i + 1]) ELSE longer[i + 1]
      BY <2>1, <3>1 DEF LuhnTerms
    <3>3. f[i] = IF (n - i) % 2 = 1 THEN DigitSum(2 * digits[i]) ELSE digits[i] BY <1>1 DEF LuhnTerms
    <3>. HIDE DEF f, g, n
    <3>. QED BY <3>1, <3>2, <3>3
  <2>4. \A i \in 1..n : f[i] \in Int BY <1>2
  <2>5. SumFunctionOnSet(g, 1..(n + 1)) = SumFunctionOnSet(f, 1..n)
    <3>. HIDE DEF f, g, n
    <3>. QED BY <1>1, <2>2, <2>3, <2>4, SumShift
  <2>6. (Luhn(longer)) <=> (n + 1 >= 10 /\ SumFunctionOnSet(g, 1..(n + 1)) % 10 = 0)
    BY <2>1, LuhnIs
  <2>7. (Luhn(digits)) <=> (n >= 10 /\ SumFunctionOnSet(f, 1..n) % 10 = 0) BY LuhnIs
  <2>. HIDE DEF f, g, n
  <2>8. n + 1 >= 10 BY <1>1, <1>4
  <2>9. Luhn(digits) <=> Luhn(longer) BY <1>4, <2>5, <2>6, <2>7, <2>8
  <2>. QED BY <2>9 DEF longer
<1>. QED BY <1>3, <1>4

Digit36 == 0..35

IbanStep(r, c) == (r * (IF c > 9 THEN 100 ELSE 10) + c) % 97

Moved(chars) == SubSeq(chars, 5, Len(chars)) \o SubSeq(chars, 1, 4)

Remainders(h, s) == h[0] = 0 /\ \A k \in 1..Len(s) : h[k] = IbanStep(h[k - 1], s[k])

(* A step of the IBAN check keeps a remainder modulo 97.                    *)
LEMMA IbanStepType == \A r \in 0..96, c \in Digit36 : IbanStep(r, c) \in 0..96
BY DEF IbanStep, Digit36

(* A step keeps different remainders apart, and tells apart two digits or   *)
(* two letters after the same remainder.                                    *)
LEMMA IbanStepDiffers ==
    /\ \A r, q \in 0..96, c \in Digit36 : r # q => IbanStep(r, c) # IbanStep(q, c)
    /\ \A r \in 0..96, c, d \in Digit36 : c # d /\ (c > 9 <=> d > 9) => IbanStep(r, c) # IbanStep(r, d)
<1>1. ASSUME NEW r \in 0..96, NEW q \in 0..96, NEW c \in Digit36, r # q PROVE IbanStep(r, c) # IbanStep(q, c)
  <2>1. CASE c > 9
    <3>1. (r * 100 + c) % 97 # (q * 100 + c) % 97 BY <1>1 DEF Digit36
    <3>. QED BY <2>1, <3>1 DEF IbanStep
  <2>2. CASE ~(c > 9)
    <3>1. (r * 10 + c) % 97 # (q * 10 + c) % 97 BY <1>1 DEF Digit36
    <3>. QED BY <2>2, <3>1 DEF IbanStep
  <2>. QED BY <2>1, <2>2
<1>2. ASSUME NEW r \in 0..96, NEW c \in Digit36, NEW d \in Digit36, c # d, c > 9 <=> d > 9
      PROVE  IbanStep(r, c) # IbanStep(r, d)
  <2>1. CASE c > 9
    <3>1. (r * 100 + c) % 97 # (r * 100 + d) % 97 BY <1>2 DEF Digit36
    <3>. QED BY <1>2, <2>1, <3>1 DEF IbanStep
  <2>2. CASE ~(c > 9)
    <3>1. (r * 10 + c) % 97 # (r * 10 + d) % 97 BY <1>2 DEF Digit36
    <3>. QED BY <1>2, <2>2, <3>1 DEF IbanStep
  <2>. QED BY <2>1, <2>2
<1>. QED BY Zenon, <1>1, <1>2

IbanForm(chars) ==
    /\ Len(chars) \in 15..34
    /\ chars[1] > 9 /\ chars[2] > 9 /\ chars[3] <= 9 /\ chars[4] <= 9

(* The IBAN check is a run of steps over the rearranged characters that     *)
(* ends in 1.                                                               *)
LEMMA IbanFold ==
    ASSUME NEW chars, Moved(chars) \in Seq(Digit36)
    PROVE  \E h : /\ Remainders(h, Moved(chars))
                  /\ ValidIban(chars) <=> IbanForm(chars) /\ h[Len(Moved(chars))] = 1
<1>. DEFINE s0 == Moved(chars)
            n == Len(s0)
            W == 0..96
            step == [k \in 1..n |-> [w \in W |-> IbanStep(w, s0[k])]]
            Eq(g) == g = [s \in SUBSET (1..n) |-> IF s = {} THEN 0
                                ELSE IbanStep(g[s \ {Max(s)}], s0[Max(s)])]
            iter == CHOOSE g : Eq(g)
            h == [k \in 0..n |-> iter[1..k]]
<1>1. n \in Nat /\ DOMAIN s0 = 1..n /\ \A k \in 1..n : s0[k] \in Digit36 OBVIOUS
<1>2. ValidIban(chars) <=> IbanForm(chars) /\ iter[1..n] = 1
  BY ZenonT(40), <1>1 DEF ValidIban, FoldLeft, MapThenFoldSet, IbanForm, Moved, IbanStep
<1>. HIDE DEF s0
<1>3. step \in [1..n -> [W -> W]] BY <1>1, IbanStepType
<1>4. IsFiniteSet(1..n) /\ Picks(MaxPick(n), 1..n) BY <1>1, MaxPicks, IntervalIsFinite
<1>5. 0 \in W OBVIOUS
<1>6. PICK g \in [SUBSET (1..n) -> W] : IsFold(g, 0, step, MaxPick(n), 1..n)
  <2>. HIDE DEF n, step, W
  <2>. QED BY <1>3, <1>4, <1>5, FoldExists
<1>7. \A s \in SUBSET (1..n) : s # {} => Max(s) \in 1..n /\ s \ {Max(s)} \in SUBSET (1..n)
  <2>. HIDE DEF n
  <2>. QED BY <1>1, MaxOfSubset
<1>8. ASSUME NEW s \in SUBSET (1..n), s # {}
      PROVE  g[s] = IbanStep(g[s \ {Max(s)}], s0[Max(s)])
  <2>1. g[s] = step[Max(s)][g[s \ {Max(s)}]] BY Zenon, <1>6, <1>8 DEF IsFold, MaxPick
  <2>2. Max(s) \in 1..n /\ g[s \ {Max(s)}] \in W BY <1>6, <1>7, <1>8
  <2>. QED BY <2>1, <2>2
<1>9. Eq(g)
  <2>. HIDE DEF n
  <2>1. g[{}] = 0 BY <1>6 DEF IsFold
  <2>. QED BY <1>6, <1>8, <2>1
<1>10. Eq(iter)
  <2>. HIDE DEF Eq
  <2>. QED BY <1>9
<1>11. iter[{}] = 0 BY <1>10
<1>12. ASSUME NEW k \in 1..n PROVE iter[1..k] = IbanStep(iter[1..(k - 1)], s0[k])
  <2>1. Max(1..k) = k /\ (1..k) \ {k} = 1..(k - 1) /\ 1..k # {} /\ 1..k \in SUBSET (1..n)
    <3>. HIDE DEF n
    <3>. QED BY <1>1, MaxOfPrefix
  <2>2. Max(1..k) = k BY <1>7, <2>1
  <2>. HIDE DEF iter
  <2>. QED BY <1>10, <2>1, <2>2
<1>. HIDE DEF iter
<1>13. h[0] = 0 /\ h[n] = iter[1..n] /\ \A k \in 1..n : h[k] = IbanStep(h[k - 1], s0[k])
  BY <1>1, <1>11, <1>12
<1>14. Remainders(h, s0) BY <1>13 DEF Remainders
<1>. QED BY <1>2, <1>13, <1>14 DEF s0

(* Two runs over characters that differ in one place, a digit for a digit   *)
(* or a letter for a letter, end in different remainders.                   *)
LEMMA RemaindersDiffer ==
    ASSUME NEW s \in Seq(Digit36), NEW t \in Seq(Digit36), Len(t) = Len(s), NEW p \in 1..Len(s),
           \A k \in (1..Len(s)) \ {p} : t[k] = s[k], t[p] # s[p], t[p] > 9 <=> s[p] > 9,
           NEW g, Remainders(g, s), NEW h, Remainders(h, t)
    PROVE  g[Len(s)] # h[Len(s)]
<1>. DEFINE n == Len(s)
            T0 == {k \in Nat : k <= n => /\ g[k] \in 0..96 /\ h[k] \in 0..96
                                         /\ g[k] = h[k] <=> k < p}
<1>1. n \in Nat /\ p \in 1..n /\ \A k \in 1..n : s[k] \in Digit36 /\ t[k] \in Digit36 OBVIOUS
<1>2. g[0] = 0 /\ h[0] = 0 BY DEF Remainders
<1>3. \A k \in 1..n : g[k] = IbanStep(g[k - 1], s[k]) /\ h[k] = IbanStep(h[k - 1], t[k]) BY DEF Remainders
<1>4. \A k \in 1..n : k # p => t[k] = s[k] OBVIOUS
<1>. HIDE DEF n
<1>5. 0 \in T0 BY <1>1, <1>2
<1>6. ASSUME NEW k \in Nat, k \in T0 PROVE k + 1 \in T0
  <2>. SUFFICES ASSUME k + 1 <= n
                PROVE  /\ g[k + 1] \in 0..96 /\ h[k + 1] \in 0..96
                       /\ g[k + 1] = h[k + 1] <=> k + 1 < p
    OBVIOUS
  <2>1. g[k] \in 0..96 /\ h[k] \in 0..96 /\ (g[k] = h[k] <=> k < p) BY <1>1, <1>6
  <2>2. k + 1 \in 1..n /\ (k + 1) - 1 = k BY <1>1
  <2>3. g[k + 1] = IbanStep(g[k], s[k + 1]) /\ h[k + 1] = IbanStep(h[k], t[k + 1]) BY <1>3, <2>2
  <2>4. s[k + 1] \in Digit36 /\ t[k + 1] \in Digit36 BY SMTT(30), <1>1, <2>2
  <2>5. g[k + 1] \in 0..96 /\ h[k + 1] \in 0..96 BY <2>1, <2>3, <2>4, IbanStepType
  <2>6. CASE k + 1 < p
    <3>1. k < p /\ t[k + 1] = s[k + 1] BY <1>1, <1>4, <2>2, <2>6
    <3>. QED BY <2>1, <2>3, <2>5, <2>6, <3>1
  <2>7. CASE k + 1 = p
    <3>1. k < p BY <1>1, <2>7
    <3>2. s[k + 1] # t[k + 1] /\ (s[k + 1] > 9 <=> t[k + 1] > 9) BY <2>7, SMTT(30)
    <3>3. g[k + 1] # h[k + 1] BY <2>1, <2>3, <2>4, <3>1, <3>2, IbanStepDiffers
    <3>. QED BY <1>1, <2>5, <2>7, <3>3
  <2>8. CASE k + 1 > p
    <3>1. ~(k < p) /\ t[k + 1] = s[k + 1] BY <1>1, <1>4, <2>2, <2>8, SMTT(30)
    <3>2. g[k + 1] # h[k + 1] BY <2>1, <2>3, <2>4, <3>1, IbanStepDiffers
    <3>. QED BY <1>1, <2>5, <2>8, <3>2
  <2>. QED BY <1>1, <2>6, <2>7, <2>8
<1>7. Nat \subseteq T0
  <2>. HIDE DEF T0
  <2>. QED BY <1>5, <1>6, SetInduction
<1>8. n \in T0 BY <1>1, <1>7
<1>. QED BY <1>1, <1>8 DEF n

(* The rearrangement moves the first four characters behind the others.     *)
LEMMA MovedIs ==
    ASSUME NEW chars \in Seq(Digit36), Len(chars) >= 5
    PROVE  /\ Moved(chars) \in Seq(Digit36) /\ Len(Moved(chars)) = Len(chars)
           /\ \A k \in 1..(Len(chars) - 4) : Moved(chars)[k] = chars[k + 4]
           /\ \A k \in 1..4 : Moved(chars)[Len(chars) - 4 + k] = chars[k]
<1>. DEFINE a == SubSeq(chars, 5, Len(chars))
            b == SubSeq(chars, 1, 4)
            n == Len(chars)
<1>1. n \in Nat /\ n >= 5 /\ \A k \in 1..n : chars[k] \in Digit36 OBVIOUS
<1>2. a \in Seq(Digit36) /\ Len(a) = n - 4
  <2>1. \A k \in 5..n : chars[k] \in Digit36 BY <1>1
  <2>2. a = [k \in 1..(n - 4) |-> chars[k + 4]] BY <1>1
  <2>3. n - 4 \in Nat /\ \A k \in 1..(n - 4) : chars[k + 4] \in Digit36 BY <1>1, <2>1
  <2>. HIDE DEF a, n
  <2>. QED BY <2>2, <2>3
<1>3. b \in Seq(Digit36) /\ Len(b) = 4 OBVIOUS
<1>4. \A k \in 1..(n - 4) : a[k] = chars[k + 4] OBVIOUS
<1>5. \A k \in 1..4 : b[k] = chars[k] OBVIOUS
<1>. HIDE DEF a, b, n
<1>6. /\ a \o b \in Seq(Digit36) /\ Len(a \o b) = Len(a) + Len(b)
      /\ \A k \in 1..(Len(a) + Len(b)) : (a \o b)[k] = IF k <= Len(a) THEN a[k] ELSE b[k - Len(a)]
  BY <1>2, <1>3, ConcatProperties
<1>. DEFINE e == a \o b
<1>. HIDE DEF e
<1>7. /\ e \in Seq(Digit36) /\ Len(e) = n
      /\ \A k \in 1..n : e[k] = IF k <= n - 4 THEN a[k] ELSE b[k - (n - 4)]
  BY <1>1, <1>2, <1>3, <1>6 DEF e
<1>8. \A k \in 1..(n - 4) : e[k] = chars[k + 4] BY <1>1, <1>4, <1>7, SMTT(30)
<1>9. \A k \in 1..4 : e[(n - 4) + k] = chars[k]
  <2>. SUFFICES ASSUME NEW k \in 1..4 PROVE e[(n - 4) + k] = chars[k] OBVIOUS
  <2>1. (n - 4) + k \in 1..n /\ ~((n - 4) + k <= n - 4) /\ ((n - 4) + k) - (n - 4) = k BY <1>1
  <2>. QED BY <1>5, <1>7, <2>1
<1>. QED BY <1>7, <1>8, <1>9 DEF Moved, a, b, e, n

(* A wrong character of the same kind is never overlooked in an account     *)
(* number of any length (_valid_iban).                                      *)
THEOREM AccountDigitsAreChecked ==
    ASSUME NEW chars \in Seq(Digit36), ValidIban(chars), NEW i \in DOMAIN chars, NEW c \in Digit36,
           c # chars[i], c > 9 <=> chars[i] > 9
    PROVE  ~ValidIban([chars EXCEPT ![i] = c])
<1>. DEFINE other == [chars EXCEPT ![i] = c]
            n == Len(chars)
            s == Moved(chars)
            t == Moved(other)
            p == IF i > 4 THEN i - 4 ELSE n - 4 + i
<1>1. n \in 15..34 BY Zenon DEF ValidIban
<1>2. other \in Seq(Digit36) /\ Len(other) = n /\ DOMAIN chars = 1..n /\ DOMAIN other = 1..n
      /\ other[i] = c /\ \A k \in 1..n : k # i => other[k] = chars[k]
  OBVIOUS
<1>. HIDE DEF other
<1>3. Len(chars) >= 5 /\ Len(other) >= 5 BY <1>1, <1>2
<1>4. /\ s \in Seq(Digit36) /\ Len(s) = n
      /\ \A k \in 1..(n - 4) : s[k] = chars[k + 4]
      /\ \A k \in 1..4 : s[n - 4 + k] = chars[k]
  BY <1>2, <1>3, MovedIs
<1>5. /\ t \in Seq(Digit36) /\ Len(t) = n
      /\ \A k \in 1..(n - 4) : t[k] = other[k + 4]
      /\ \A k \in 1..4 : t[n - 4 + k] = other[k]
  <2>1. /\ t \in Seq(Digit36) /\ Len(t) = Len(other)
        /\ \A k \in 1..(Len(other) - 4) : t[k] = other[k + 4]
        /\ \A k \in 1..4 : t[Len(other) - 4 + k] = other[k]
    BY <1>2, <1>3, MovedIs
  <2>. HIDE DEF t, n
  <2>. QED BY <1>2, <2>1
<1>. HIDE DEF s, t, n
<1>6. (i > 4 => p = i - 4) /\ (i <= 4 => p = n - 4 + i) BY <1>1, <1>2
<1>. HIDE DEF p
<1>7. i \in 1..n /\ p \in 1..n /\ s[p] = chars[i] /\ t[p] = other[i]
  <2>1. i \in 1..n BY <1>2
  <2>2. CASE i > 4
    <3>1. i - 4 \in 1..(n - 4) /\ (i - 4) + 4 = i /\ p = i - 4 BY <1>1, <1>6, <2>1, <2>2
    <3>2. s[i - 4] = chars[(i - 4) + 4] /\ t[i - 4] = other[(i - 4) + 4] BY <1>4, <1>5, <3>1
    <3>3. p \in 1..n BY <1>1, <3>1
    <3>. QED BY <2>1, <3>1, <3>2, <3>3
  <2>3. CASE i <= 4
    <3>1. i \in 1..4 /\ p = n - 4 + i BY <1>1, <1>6, <2>1, <2>3
    <3>2. s[n - 4 + i] = chars[i] /\ t[n - 4 + i] = other[i] BY <1>4, <1>5, <3>1
    <3>3. p \in 1..n BY <1>1, <3>1
    <3>. QED BY <2>1, <3>1, <3>2, <3>3
  <2>. QED BY <1>1, <2>1, <2>2, <2>3
<1>8. \A k \in (1..n) \ {p} : t[k] = s[k]
  <2>. SUFFICES ASSUME NEW k \in 1..n, k # p PROVE t[k] = s[k] OBVIOUS
  <2>1. i \in 1..n BY <1>2
  <2>2. CASE k <= n - 4
    <3>1. k \in 1..(n - 4) /\ k + 4 \in 1..n /\ k + 4 # i BY <1>1, <1>6, <2>1, <2>2
    <3>. QED BY <1>2, <1>4, <1>5, <3>1
  <2>3. CASE k > n - 4
    <3>. DEFINE j == k - (n - 4)
    <3>1. j \in 1..4 /\ n - 4 + j = k /\ j \in 1..n /\ j # i BY <1>1, <1>6, <2>1, <2>3
    <3>. HIDE DEF j
    <3>. QED BY <1>2, <1>4, <1>5, <3>1
  <2>. QED BY <1>1, <2>2, <2>3
<1>9. t[p] # s[p] /\ (t[p] > 9 <=> s[p] > 9) BY <1>2, <1>7
<1>10. PICK g : Remainders(g, s) /\ (ValidIban(chars) <=> IbanForm(chars) /\ g[Len(s)] = 1) BY <1>4, IbanFold DEF s
<1>11. PICK h : Remainders(h, t) /\ (ValidIban(other) <=> IbanForm(other) /\ h[Len(t)] = 1) BY <1>5, IbanFold DEF t
<1>12. g[Len(s)] # h[Len(s)]
  <2>1. p \in 1..Len(s) /\ Len(t) = Len(s) /\ \A k \in (1..Len(s)) \ {p} : t[k] = s[k] BY <1>4, <1>5, <1>7, <1>8
  <2>2. s \in Seq(Digit36) /\ t \in Seq(Digit36) BY <1>4, <1>5
  <2>3. p \in 1..Len(s) BY <2>1
  <2>4. Len(t) = Len(s) BY <2>1
  <2>5. \A k \in (1..Len(s)) \ {p} : t[k] = s[k] BY <2>1
  <2>6. t[p] # s[p] BY <1>9
  <2>7. t[p] > 9 <=> s[p] > 9 BY <1>9
  <2>8. Remainders(g, s) BY <1>10
  <2>9. Remainders(h, t) BY <1>11
  <2>. QED BY <2>2, <2>3, <2>4, <2>5, <2>6, <2>7, <2>8, <2>9, RemaindersDiffer
<1>13. ~ValidIban(other) BY <1>4, <1>5, <1>10, <1>11, <1>12
<1>. QED BY <1>13 DEF other

DecimalDigit == 0..9

YearOfTwo == 0..99
DateThen(y, m, d) == IsDate(1900 + y, m, d)
DateNow(y, m, d) == IsDate(2000 + y, m, d)

(* A date of the last century is one of this century too.                   *)
LEMMA LaterCenturies ==
    ASSUME NEW y \in YearOfTwo, NEW m \in Int, NEW d \in Int
    PROVE  DateThen(y, m, d) => DateNow(y, m, d)
<1>1. LeapYear(1900 + y) => LeapYear(2000 + y) BY DEF LeapYear, YearOfTwo
<1>2. DaysIn(1900 + y, m) \in Int /\ DaysIn(2000 + y, m) \in Int
      /\ DaysIn(1900 + y, m) <= DaysIn(2000 + y, m)
  BY <1>1 DEF DaysIn, YearOfTwo
<1>. QED BY <1>2 DEF DateThen, DateNow, IsDate, YearOfTwo

TwoDigits(digits, i) == 10 * digits[i] + digits[i + 1]

DayOf(d) == IF d > 60 THEN d - 60 ELSE d

IsShort(digits) == SubSeq(digits, Len(digits) - 9, Len(digits)) = digits /\ Len(digits) # 12

(* The identity check of ten digits: a date of this century and the Luhn    *)
(* check.                                                                   *)
LEMMA IdentityForm ==
    ASSUME NEW digits, IsShort(digits)
    PROVE  ValidIdentity(digits) <=>
              IsDate(2000 + TwoDigits(digits, 1), TwoDigits(digits, 3), DayOf(TwoDigits(digits, 5))) /\ Luhn(digits)
<1>. DEFINE short == SubSeq(digits, Len(digits) - 9, Len(digits))
<1>1. ValidIdentity(digits) <=>
          IsDate(2000 + TwoDigits(short, 1), TwoDigits(short, 3), DayOf(TwoDigits(short, 5))) /\ Luhn(short)
  BY DEF IsShort, ValidIdentity, TwoDigits, DayOf
<1>2. short = digits BY DEF IsShort
<1>. HIDE DEF short
<1>. QED BY <1>1, <1>2

(* A number of ten digits is an identity number exactly when its check      *)
(* digit fits and it is a date, or a coordination number of one, in the     *)
(* last century or this one (_valid_swedish_identity_number).              *)
THEOREM IdentityNumbersAreDates ==
    ASSUME NEW digits \in Seq(DecimalDigit), Len(digits) = 10
    PROVE  ValidIdentity(digits) <=>
              /\ Luhn(digits)
              /\ \E century \in {1900, 2000} :
                    IsDate(century + TwoDigits(digits, 1), TwoDigits(digits, 3), DayOf(TwoDigits(digits, 5)))
<1>. DEFINE year == TwoDigits(digits, 1)
            month == TwoDigits(digits, 3)
            day == DayOf(TwoDigits(digits, 5))
<1>1. \A i \in 1..10 : digits[i] \in 0..9
  BY ElementsOf DEF DecimalDigit
<1>2. year \in 0..99 /\ month \in Int /\ day \in Int
  <2>1. /\ digits[1] \in 0..9 /\ digits[2] \in 0..9 /\ digits[3] \in 0..9 /\ digits[4] \in 0..9
        /\ digits[5] \in 0..9 /\ digits[6] \in 0..9
    BY <1>1
  <2>2. year = 10 * digits[1] + digits[2] /\ month = 10 * digits[3] + digits[4] BY DEF TwoDigits
  <2>3. day = LET x == TwoDigits(digits, 5) IN IF x > 60 THEN x - 60 ELSE x BY DEF DayOf
  <2>4. TwoDigits(digits, 5) \in Int BY <2>1, SMTT(30) DEF TwoDigits
  <2>. HIDE DEF year, month, day
  <2>5. year \in 0..99
    <3>1. \A p, q \in 0..9 : 10 * p + q \in 0..99 OBVIOUS
    <3>. QED BY <2>1, <2>2, <3>1
  <2>6. month \in Int BY <2>1, <2>2
  <2>7. day \in Int BY <2>3, <2>4
  <2>. QED BY <2>5, <2>6, <2>7
<1>3. SubSeq(digits, Len(digits) - 9, Len(digits)) = digits
  <2>1. Len(digits) - 9 = 1 OBVIOUS
  <2>. QED BY <2>1, SubSeqFull
<1>4. ValidIdentity(digits) <=> IsDate(2000 + year, month, day) /\ Luhn(digits)
  <2>1. Len(digits) # 12 OBVIOUS
  <2>2. IsShort(digits) BY <1>3, <2>1 DEF IsShort
  <2>3. ValidIdentity(digits) <=>
            IsDate(2000 + TwoDigits(digits, 1), TwoDigits(digits, 3), DayOf(TwoDigits(digits, 5))) /\ Luhn(digits)
    BY <2>2, IdentityForm
  <2>. QED BY <2>3 DEF year, month, day
<1>. HIDE DEF year, month, day
<1>5. IsDate(1900 + year, month, day) => IsDate(2000 + year, month, day)
  <2>1. year \in YearOfTwo BY <1>2 DEF YearOfTwo
  <2>2. month \in Int BY <1>2
  <2>3. day \in Int BY <1>2
  <2>4. DateThen(year, month, day) => DateNow(year, month, day)
    BY <2>1, <2>2, <2>3, LaterCenturies, Zenon
  <2>. QED BY <2>4 DEF DateThen, DateNow
<1>6. IsDate(2000 + year, month, day) <=> \E century \in {1900, 2000} : IsDate(century + year, month, day)
  BY <1>5
<1>. QED BY <1>4, <1>6 DEF year, month, day

-----------------------------------------------------------------------------
(* Redaction: what is replaced, what is counted, and what is left           *)

(* A phrase once it is replaced. *)
Gone(p) == [p EXCEPT !.form = "redacted", !.digits = <<>>]

PhrasesOf(Ls, Fs, Ds) == [label : Ls, form : Fs, digits : Ds]

KindNames == {"national_id", "email", "customer_id", "order_id", "name", "address", "phone"}

KindAt(j) == Kinds[j]

Found(r, kind) == {i \in DOMAIN r.text : MatchesPattern(kind, r.text[i])}

(* The seven kinds, each at its place in the order of redaction.            *)
LEMMA KindsAre ==
    /\ DOMAIN Kinds = 1..7 /\ Range(Kinds) = KindNames
    /\ \A j \in 1..7 : KindAt(j) \in KindNames
    /\ \A kind \in KindNames : \E j \in 1..7 : kind = KindAt(j)
    /\ \A j, k \in 1..7 : j # k => KindAt(j) # KindAt(k)
<1>. DEFINE kinds == Kinds
<1>1. /\ Len(kinds) = 7 /\ kinds[1] = "national_id" /\ kinds[2] = "email" /\ kinds[3] = "customer_id"
      /\ kinds[4] = "order_id" /\ kinds[5] = "name" /\ kinds[6] = "address" /\ kinds[7] = "phone"
      /\ DOMAIN kinds = 1..7
  BY DEF Kinds
<1>. HIDE DEF kinds
<1>2. \A j \in 1..7 : j = 1 \/ j = 2 \/ j = 3 \/ j = 4 \/ j = 5 \/ j = 6 \/ j = 7 OBVIOUS
<1>3. 1 \in 1..7 /\ 2 \in 1..7 /\ 3 \in 1..7 /\ 4 \in 1..7 /\ 5 \in 1..7 /\ 6 \in 1..7 /\ 7 \in 1..7 OBVIOUS
<1>4. \A j \in 1..7 : kinds[j] \in KindNames BY <1>1, <1>2 DEF KindNames
<1>5. \A kind \in KindNames : \E j \in 1..7 : kind = kinds[j] BY <1>1, <1>3 DEF KindNames
<1>6. \A j, k \in 1..7 : j # k => kinds[j] # kinds[k] BY <1>1, <1>2
<1>7. Range(kinds) = KindNames BY <1>1, <1>4, <1>5 DEF Range
<1>. QED BY <1>1, <1>4, <1>5, <1>6, <1>7 DEF kinds, KindAt

(* The kinds are finitely many.                                             *)
LEMMA KindNamesFinite == IsFiniteSet(KindNames)
<1>1. IsFiniteSet({}) BY FS_EmptySet
<1>2. IsFiniteSet({"national_id"}) BY <1>1, FS_Singleton
<1>3. IsFiniteSet({"national_id"} \cup {"email"}) BY <1>2, FS_AddElement
<1>4. IsFiniteSet(({"national_id"} \cup {"email"}) \cup {"customer_id"}) BY <1>3, FS_AddElement
<1>5. IsFiniteSet((({"national_id"} \cup {"email"}) \cup {"customer_id"}) \cup {"order_id"}) BY <1>4, FS_AddElement
<1>6. IsFiniteSet(((({"national_id"} \cup {"email"}) \cup {"customer_id"}) \cup {"order_id"}) \cup {"name"}) BY <1>5, FS_AddElement
<1>7. IsFiniteSet((((({"national_id"} \cup {"email"}) \cup {"customer_id"}) \cup {"order_id"}) \cup {"name"}) \cup {"address"}) BY <1>6, FS_AddElement
<1>8. IsFiniteSet(((((({"national_id"} \cup {"email"}) \cup {"customer_id"}) \cup {"order_id"}) \cup {"name"}) \cup {"address"}) \cup {"phone"}) BY <1>7, FS_AddElement
<1>9. KindNames = ((((({"national_id"} \cup {"email"}) \cup {"customer_id"}) \cup {"order_id"}) \cup {"name"}) \cup {"address"}) \cup {"phone"}
  BY DEF KindNames
<1>. QED BY <1>8, <1>9

(* No pattern matches what was redacted.                                    *)
LEMMA NothingMatchesGone ==
    ASSUME NEW p, p.form = "redacted", NEW kind \in KindNames
    PROVE  ~MatchesPattern(kind, p)
BY DEF MatchesPattern, IsCode, KindNames

TextWithout(r, kind) == [i \in DOMAIN r.text |-> IF i \in Found(r, kind) THEN Gone(r.text[i]) ELSE r.text[i]]
CountsWith(r, kind) == [r.counts EXCEPT ![kind] = Cardinality(Found(r, kind))]

(* A replacement of a kind redacts every phrase of that kind and counts     *)
(* them.                                                                    *)
LEMMA ReplacedIs ==
    ASSUME NEW r, NEW kind
    PROVE  /\ Replaced(r, kind).text = TextWithout(r, kind)
           /\ Replaced(r, kind).counts = CountsWith(r, kind)
           /\ Replaced(r, kind) = [text |-> Replaced(r, kind).text, counts |-> Replaced(r, kind).counts]
<1>. DEFINE t == [i \in DOMAIN r.text |-> IF i \in Found(r, kind) THEN Gone(r.text[i]) ELSE r.text[i]]
            c == [r.counts EXCEPT ![kind] = Cardinality(Found(r, kind))]
<1>1. Replaced(r, kind) = [text |-> t, counts |-> c] BY DEF Replaced, Found, Gone
<1>. HIDE DEF t, c
<1>2. Replaced(r, kind).text = t /\ Replaced(r, kind).counts = c BY <1>1
<1>3. Replaced(r, kind) = [text |-> Replaced(r, kind).text, counts |-> Replaced(r, kind).counts] BY <1>1, <1>2
<1>. QED BY <1>2, <1>3 DEF t, c, TextWithout, CountsWith

Redacted(n, Ls, Fs, Ds) == [text : [1..n -> PhrasesOf(Ls, Fs, Ds)], counts : [KindNames -> Int]]

(* A redacted phrase keeps its label.                                       *)
LEMMA GoneType ==
    ASSUME NEW Ls, NEW Fs, NEW Ds, "redacted" \in Fs, <<>> \in Ds, NEW p \in PhrasesOf(Ls, Fs, Ds)
    PROVE  /\ Gone(p) \in PhrasesOf(Ls, Fs, Ds) /\ Gone(p).label = p.label
           /\ Gone(p).form = "redacted" /\ Gone(p).digits = <<>>
BY DEF Gone, PhrasesOf

(* A replacement keeps the types.                                           *)
LEMMA ReplacedType ==
    ASSUME NEW Ls, NEW Fs, NEW Ds, "redacted" \in Fs, <<>> \in Ds, NEW n \in Nat, NEW r \in Redacted(n, Ls, Fs, Ds),
           NEW kind \in KindNames
    PROVE  Replaced(r, kind) \in Redacted(n, Ls, Fs, Ds)
<1>1. r.text \in [1..n -> PhrasesOf(Ls, Fs, Ds)] /\ r.counts \in [KindNames -> Int] BY DEF Redacted
<1>2. Found(r, kind) \subseteq 1..n BY <1>1 DEF Found
<1>3. Cardinality(Found(r, kind)) \in Int BY <1>2, IntervalIsFinite, FS_Subset, FS_CardinalityType
<1>4. Replaced(r, kind).text \in [1..n -> PhrasesOf(Ls, Fs, Ds)]
  <2>1. \A i \in 1..n : r.text[i] \in PhrasesOf(Ls, Fs, Ds) /\ Gone(r.text[i]) \in PhrasesOf(Ls, Fs, Ds) BY <1>1, GoneType
  <2>2. Replaced(r, kind).text = [i \in DOMAIN r.text |-> IF i \in Found(r, kind) THEN Gone(r.text[i]) ELSE r.text[i]]
    <3>1. Replaced(r, kind).text = TextWithout(r, kind) BY ReplacedIs
    <3>. QED BY <3>1 DEF TextWithout
  <2>3. DOMAIN r.text = 1..n BY <1>1
  <2>. QED BY <2>1, <2>2, <2>3
<1>5. Replaced(r, kind).counts \in [KindNames -> Int]
  <2>1. Replaced(r, kind).counts = [r.counts EXCEPT ![kind] = Cardinality(Found(r, kind))]
    <3>1. Replaced(r, kind).counts = CountsWith(r, kind) BY ReplacedIs
    <3>. QED BY <3>1 DEF CountsWith
  <2>. QED BY <1>1, <1>3, <2>1
<1>6. Replaced(r, kind) = [text |-> Replaced(r, kind).text, counts |-> Replaced(r, kind).counts] BY ReplacedIs
<1>. QED BY <1>4, <1>5, <1>6 DEF Redacted

Unredacted(text) == [text |-> text, counts |-> [k \in KindNames |-> 0]]

IsRedaction(h, text) ==
    /\ h[0] = Unredacted(text)
    /\ \A k \in 1..7 : h[k] = Replaced(h[k - 1], KindAt(k))

(* redact_text, kind by kind. *)
LEMMA RedactFold ==
    ASSUME NEW Ls, NEW Fs, NEW Ds, "redacted" \in Fs, <<>> \in Ds, NEW n \in Nat,
           NEW text \in [1..n -> PhrasesOf(Ls, Fs, Ds)]
    PROVE  \E h : /\ IsRedaction(h, text)
                  /\ \A k \in 0..7 : h[k] \in Redacted(n, Ls, Fs, Ds)
                  /\ Redact(text) = IF \E p \in Range(text) : IsPayment(p) THEN <<>> ELSE <<h[7]>>
<1>. DEFINE W == Redacted(n, Ls, Fs, Ds)
            base == Unredacted(text)
            step == [k \in 1..7 |-> [w \in W |-> Replaced(w, KindAt(k))]]
            Eq(g) == g = [s \in SUBSET (1..7) |-> IF s = {} THEN base
                                ELSE Replaced(g[s \ {Max(s)}], KindAt(Max(s)))]
            iter == CHOOSE g : Eq(g)
            h == [k \in 0..7 |-> iter[1..k]]
<1>1. base \in W BY DEF Redacted, Unredacted
<1>2. step \in [1..7 -> [W -> W]] BY KindsAre, ReplacedType
<1>3. IsFiniteSet(1..7) /\ Picks(MaxPick(7), 1..7) BY MaxPicks, IntervalIsFinite
<1>4. Redact(text) = IF \E p \in Range(text) : IsPayment(p) THEN <<>> ELSE <<iter[1..7]>>
  BY KindsAre DEF Redact, FoldLeft, MapThenFoldSet, KindAt, Unredacted
<1>. HIDE DEF W, base
<1>5. PICK g \in [SUBSET (1..7) -> W] : IsFold(g, base, step, MaxPick(7), 1..7)
  <2>. HIDE DEF step
  <2>. QED BY <1>1, <1>2, <1>3, FoldExists
<1>6. \A s \in SUBSET (1..7) : s # {} => Max(s) \in 1..7 /\ s \ {Max(s)} \in SUBSET (1..7)
  BY MaxOfSubset
<1>7. ASSUME NEW s \in SUBSET (1..7), s # {}
      PROVE  g[s] = Replaced(g[s \ {Max(s)}], KindAt(Max(s)))
  <2>1. g[s] = step[Max(s)][g[s \ {Max(s)}]] BY <1>5, <1>7 DEF IsFold, MaxPick
  <2>2. Max(s) \in 1..7 /\ g[s \ {Max(s)}] \in W BY <1>5, <1>6, <1>7
  <2>. QED BY <2>1, <2>2
<1>8. Eq(g)
  <2>1. g[{}] = base BY <1>5 DEF IsFold
  <2>. QED BY <1>5, <1>7, <2>1
<1>9. Eq(iter)
  <2>. HIDE DEF Eq
  <2>. QED BY <1>8
<1>10. iter[{}] = base BY <1>9
<1>11. ASSUME NEW k \in 1..7 PROVE iter[1..k] = Replaced(iter[1..(k - 1)], KindAt(k))
  <2>1. Max(1..k) = k /\ (1..k) \ {k} = 1..(k - 1) /\ 1..k # {} /\ 1..k \in SUBSET (1..7) BY MaxOfPrefix
  <2>2. Max(1..k) = k BY <1>6, <2>1
  <2>. HIDE DEF iter
  <2>. QED BY <1>9, <2>1, <2>2
<1>. HIDE DEF iter
<1>12. h[0] = base /\ h[7] = iter[1..7] /\ \A k \in 1..7 : h[k] = Replaced(h[k - 1], KindAt(k))
  BY <1>10, <1>11
<1>. HIDE DEF h
<1>13. IsRedaction(h, text) BY <1>12 DEF IsRedaction, base
<1>14. \A k \in 0..7 : h[k] \in W
  <2>. DEFINE T0 == {k \in Nat : k <= 7 => h[k] \in W}
  <2>1. 0 \in T0 BY <1>1, <1>12
  <2>2. ASSUME NEW k \in Nat, k \in T0 PROVE k + 1 \in T0
    <3>. SUFFICES ASSUME k + 1 <= 7 PROVE h[k + 1] \in W OBVIOUS
    <3>1. k + 1 \in 1..7 /\ (k + 1) - 1 = k /\ h[k] \in W BY <2>2
    <3>2. h[k + 1] = Replaced(h[k], KindAt(k + 1)) BY <1>12, <3>1
    <3>3. KindAt(k + 1) \in KindNames BY <3>1, KindsAre
    <3>. QED BY <3>1, <3>2, <3>3, ReplacedType DEF W
  <2>3. Nat \subseteq T0
    <3>. HIDE DEF T0
    <3>. QED BY <2>1, <2>2, SetInduction
  <2>. QED BY <2>3
<1>15. Redact(text) = IF \E p \in Range(text) : IsPayment(p) THEN <<>> ELSE <<h[7]>> BY <1>4, <1>12
<1>. QED BY <1>13, <1>14, <1>15 DEF W

Changed(r, text, n) == {i \in 1..n : r.text[i] # text[i]}

IsStage(r, k, text, n) ==
    /\ \A i \in 1..n : \/ r.text[i] = text[i]
                       \/ r.text[i] = Gone(text[i]) /\ \E j \in 1..k : MatchesPattern(KindAt(j), text[i])
    /\ \A j \in 1..k, i \in 1..n : ~MatchesPattern(KindAt(j), r.text[i])
    /\ \A j \in (k + 1)..7 : r.counts[KindAt(j)] = 0
    /\ SumFunctionOnSet(r.counts, KindNames) = Cardinality(Changed(r, text, n))

(* Before the first replacement nothing is redacted and nothing counted.    *)
LEMMA FirstStage ==
    ASSUME NEW n \in Nat, NEW text
    PROVE  IsStage(Unredacted(text), 0, text, n)
<1>1. Unredacted(text).text = text /\ Unredacted(text).counts = [k \in KindNames |-> 0] BY DEF Unredacted
<1>2. SumFunctionOnSet([k \in KindNames |-> 0], KindNames) = 0 BY KindNamesFinite, ZerosAddUp DEF SumOfZeros
<1>3. Changed(Unredacted(text), text, n) = {} BY <1>1 DEF Changed
<1>4. \A j \in 1..7 : Unredacted(text).counts[KindAt(j)] = 0 BY <1>1, KindsAre
<1>. QED BY <1>1, <1>2, <1>3, <1>4, FS_EmptySet DEF IsStage

(* A replacement leads from each stage of the redaction to the next.        *)
LEMMA NextStage ==
    ASSUME NEW Ls, NEW Fs, NEW Ds, "redacted" \in Fs, <<>> \in Ds, NEW n \in Nat,
           NEW text \in [1..n -> PhrasesOf(Ls, Fs, Ds)],
           NEW r \in Redacted(n, Ls, Fs, Ds), NEW k \in 0..6, IsStage(r, k, text, n)
    PROVE  IsStage(Replaced(r, KindAt(k + 1)), k + 1, text, n)
<1>. DEFINE kind == KindAt(k + 1)
            q == Replaced(r, kind)
            found == Found(r, kind)
<1>1. /\ \A i \in 1..n : \/ r.text[i] = text[i]
                         \/ r.text[i] = Gone(text[i]) /\ \E j \in 1..k : MatchesPattern(KindAt(j), text[i])
      /\ \A j \in 1..k, i \in 1..n : ~MatchesPattern(KindAt(j), r.text[i])
      /\ \A j \in (k + 1)..7 : r.counts[KindAt(j)] = 0
      /\ SumFunctionOnSet(r.counts, KindNames) = Cardinality(Changed(r, text, n))
  BY DEF IsStage
<1>2. r.text \in [1..n -> PhrasesOf(Ls, Fs, Ds)] /\ r.counts \in [KindNames -> Int] BY DEF Redacted
<1>3. k + 1 \in 1..7 /\ kind \in KindNames BY KindsAre
<1>4. /\ DOMAIN r.text = 1..n
      /\ q.text = [i \in DOMAIN r.text |-> IF i \in found THEN Gone(r.text[i]) ELSE r.text[i]]
      /\ q.counts = [r.counts EXCEPT ![kind] = Cardinality(found)]
  <2>1. q.text = TextWithout(r, kind) BY ReplacedIs
  <2>2. q.counts = CountsWith(r, kind) BY ReplacedIs
  <2>. QED BY <1>2, <2>1, <2>2 DEF TextWithout, CountsWith
<1>5. found = {i \in 1..n : MatchesPattern(kind, r.text[i])} BY <1>4 DEF Found
<1>6. \A i \in 1..n : Gone(text[i]).form = "redacted" /\ Gone(r.text[i]).form = "redacted" BY <1>2, GoneType
<1>. HIDE DEF q, found, kind
<1>7. \A i \in 1..n : q.text[i] = IF i \in found THEN Gone(r.text[i]) ELSE r.text[i] BY <1>4
<1>8. \A i \in found : i \in 1..n /\ r.text[i] = text[i] /\ text[i].form # "redacted"
  <2>. SUFFICES ASSUME NEW i \in found PROVE i \in 1..n /\ r.text[i] = text[i] /\ text[i].form # "redacted" OBVIOUS
  <2>1. i \in 1..n /\ MatchesPattern(kind, r.text[i]) BY <1>5
  <2>2. r.text[i].form # "redacted" BY <1>3, <2>1, NothingMatchesGone
  <2>3. r.text[i] = text[i] BY <1>1, <1>6, <2>1, <2>2
  <2>. QED BY <2>1, <2>2, <2>3
<1>9. \A i \in 1..n : \/ q.text[i] = text[i]
                      \/ q.text[i] = Gone(text[i]) /\ \E j \in 1..(k + 1) : MatchesPattern(KindAt(j), text[i])
  <2>. SUFFICES ASSUME NEW i \in 1..n
                PROVE  \/ q.text[i] = text[i]
                       \/ q.text[i] = Gone(text[i]) /\ \E j \in 1..(k + 1) : MatchesPattern(KindAt(j), text[i])
    OBVIOUS
  <2>1. CASE i \in found
    <3>1. q.text[i] = Gone(text[i]) BY <1>7, <1>8, <2>1
    <3>2. MatchesPattern(KindAt(k + 1), text[i]) BY <1>5, <1>8, <2>1 DEF kind
    <3>3. k + 1 \in 1..(k + 1) OBVIOUS
    <3>. QED BY <3>1, <3>2, <3>3
  <2>2. CASE i \notin found
    <3>1. q.text[i] = r.text[i] BY <1>7, <2>2
    <3>2. \A j \in 1..k : j \in 1..(k + 1) OBVIOUS
    <3>. QED BY <1>1, <3>1, <3>2
  <2>. QED BY <2>1, <2>2
<1>10. \A j \in 1..(k + 1), i \in 1..n : ~MatchesPattern(KindAt(j), q.text[i])
  <2>. SUFFICES ASSUME NEW j \in 1..(k + 1), NEW i \in 1..n PROVE ~MatchesPattern(KindAt(j), q.text[i]) OBVIOUS
  <2>1. KindAt(j) \in KindNames
    <3>1. j \in 1..7 OBVIOUS
    <3>. QED BY <3>1, KindsAre
  <2>2. CASE i \in found
    <3>1. q.text[i].form = "redacted" BY <1>6, <1>7, <2>2
    <3>. QED BY <2>1, <3>1, NothingMatchesGone
  <2>3. CASE i \notin found
    <3>1. q.text[i] = r.text[i] /\ ~MatchesPattern(kind, r.text[i]) BY <1>5, <1>7, <2>3
    <3>2. j \in 1..k \/ j = k + 1 OBVIOUS
    <3>. QED BY <1>1, <3>1, <3>2 DEF kind
  <2>. QED BY <2>2, <2>3
<1>11. \A j \in ((k + 1) + 1)..7 : q.counts[KindAt(j)] = 0
  <2>. SUFFICES ASSUME NEW j \in ((k + 1) + 1)..7 PROVE q.counts[KindAt(j)] = 0 OBVIOUS
  <2>1. j \in 1..7 /\ j # k + 1 /\ j \in (k + 1)..7 OBVIOUS
  <2>2. KindAt(j) # kind BY <1>3, <2>1, KindsAre DEF kind
  <2>3. KindAt(j) \in KindNames BY <2>1, KindsAre
  <2>. QED BY <1>1, <1>2, <1>4, <2>1, <2>2, <2>3
<1>12. SumFunctionOnSet(q.counts, KindNames) = Cardinality(Changed(q, text, n))
  <2>. DEFINE c == Cardinality(found)
              was == Changed(r, text, n)
  <2>1. found \in SUBSET (1..n) /\ was \in SUBSET (1..n) BY <1>5 DEF Changed
  <2>2. was \cap found = {} BY <1>8 DEF Changed
  <2>3. Changed(q, text, n) = was \cup found
    <3>1. \A i \in found : q.text[i] # text[i] BY <1>6, <1>7, <1>8
    <3>2. \A i \in 1..n : i \notin found => q.text[i] = r.text[i] BY <1>7
    <3>. QED BY <2>1, <3>1, <3>2 DEF Changed
  <2>4. Cardinality(was \cup found) = Cardinality(was) + c
    <3>. HIDE DEF was
    <3>. QED BY ZenonT(40), <2>1, <2>2, CardinalityOfTwo
  <2>5. c \in Int
    <3>1. IsFiniteSet(found) BY <2>1, IntervalIsFinite, FS_Subset
    <3>. QED BY <3>1, FS_CardinalityType
  <2>. HIDE DEF c, was
  <2>6. r.counts[kind] = 0
    <3>1. k + 1 \in (k + 1)..7 OBVIOUS
    <3>. QED BY <1>1, <3>1 DEF kind
  <2>7. q.counts = [r.counts EXCEPT ![kind] = c] BY <1>4 DEF c
  <2>8. SumFunctionOnSet([r.counts EXCEPT ![kind] = c], KindNames) = SumFunctionOnSet(r.counts, KindNames) + c
    BY <1>2, <1>3, <2>5, <2>6, KindNamesFinite, SumWithOneMore
  <2>. QED BY <1>1, <2>3, <2>4, <2>7, <2>8 DEF was
<1>. QED BY <1>9, <1>10, <1>11, <1>12 DEF IsStage, q, kind

(* A text is refused when it names a payment, and otherwise ends after all  *)
(* seven replacements.                                                      *)
LEMMA LastStage ==
    ASSUME NEW Ls, NEW Fs, NEW Ds, "redacted" \in Fs, <<>> \in Ds, NEW n \in Nat,
           NEW text \in [1..n -> PhrasesOf(Ls, Fs, Ds)]
    PROVE  \E r : /\ Redact(text) = IF \E p \in Range(text) : IsPayment(p) THEN <<>> ELSE <<r>>
                  /\ r \in Redacted(n, Ls, Fs, Ds)
                  /\ IsStage(r, 7, text, n)
<1>1. PICK h : /\ IsRedaction(h, text)
               /\ \A k \in 0..7 : h[k] \in Redacted(n, Ls, Fs, Ds)
               /\ Redact(text) = IF \E p \in Range(text) : IsPayment(p) THEN <<>> ELSE <<h[7]>>
  BY RedactFold
<1>. DEFINE T0 == {k \in Nat : k <= 7 => IsStage(h[k], k, text, n)}
<1>2. 0 \in T0
  <2>1. h[0] = Unredacted(text) BY <1>1 DEF IsRedaction
  <2>. QED BY <2>1, FirstStage
<1>3. ASSUME NEW k \in Nat, k \in T0 PROVE k + 1 \in T0
  <2>. SUFFICES ASSUME k + 1 <= 7 PROVE IsStage(h[k + 1], k + 1, text, n) OBVIOUS
  <2>1. k \in 0..6 /\ k \in 0..7 /\ k + 1 \in 1..7 /\ (k + 1) - 1 = k OBVIOUS
  <2>2. h[k] \in Redacted(n, Ls, Fs, Ds) BY <1>1, <2>1
  <2>3. IsStage(h[k], k, text, n) BY <1>3
  <2>4. h[k + 1] = Replaced(h[k], KindAt(k + 1)) BY <1>1, <2>1 DEF IsRedaction
  <2>5. IsStage(Replaced(h[k], KindAt(k + 1)), k + 1, text, n) BY <2>1, <2>2, <2>3, NextStage
  <2>. QED BY <2>4, <2>5
<1>4. Nat \subseteq T0
  <2>. HIDE DEF T0
  <2>. QED BY <1>2, <1>3, SetInduction
<1>5. IsStage(h[7], 7, text, n) BY <1>4
<1>6. h[7] \in Redacted(n, Ls, Fs, Ds) BY <1>1
<1>. QED BY <1>1, <1>5, <1>6

(* The total of an audit event is the sum of its counts.                    *)
LEMMA TotalIsSum ==
    ASSUME NEW Ls, NEW Fs, NEW Ds, NEW n, NEW r \in Redacted(n, Ls, Fs, Ds)
    PROVE  AuditEvent(r).total = SumFunctionOnSet(r.counts, KindNames)
<1>. DEFINE X == DOMAIN r.counts
            f == r.counts
            Eq(g) == g = [s \in SUBSET X |-> IF s = {} THEN 0
                              ELSE f[AnyOf(s)] + g[s \ {AnyOf(s)}]]
            iter == CHOOSE g : Eq(g)
<1>1. X = KindNames /\ \A x \in X : f[x] \in Int BY DEF Redacted
<1>2. IsFiniteSet(X) BY <1>1, KindNamesFinite
<1>3. AuditEvent(r).total = iter[X]
  BY DEF AuditEvent, MapThenSumSet, MapThenFoldSet, AnyOf
<1>. HIDE DEF X, f
<1>4. PICK g \in [SUBSET X -> Int] : IsSum(g, f, X) BY <1>1, <1>2, SumExists
<1>5. Eq(g) BY <1>4 DEF IsSum
<1>6. Eq(iter)
  <2>. HIDE DEF Eq
  <2>. QED BY <1>5
<1>7. IsSum(iter, f, X)
  <2>. HIDE DEF iter
  <2>. QED BY <1>6 DEF IsSum
<1>8. SumFunctionOnSet(f, X) = iter[X]
  <2>. HIDE DEF iter
  <2>. QED BY <1>1, <1>2, <1>7, SumIs
<1>. QED BY <1>1, <1>3, <1>8 DEF f

IsRedactionOf(r, text, n) ==
    /\ \A i \in 1..n : /\ r.text[i].label = text[i].label
                       /\ r.text[i] = text[i] \/ (r.text[i].form = "redacted" /\ r.text[i].digits = <<>>)
    /\ \A kind \in KindNames, i \in 1..n : ~MatchesPattern(kind, r.text[i])
    /\ AuditEvent(r).total = Cardinality(Changed(r, text, n))

(* A text of any length is refused exactly when it has payment data. What   *)
(* leaves otherwise has no phrase that any kind would replace; a phrase is  *)
(* left alone or replaced, and keeps its label; the counts are those of the *)
(* phrases replaced; and it leaves as it is when it comes again             *)
(* (redact_text, to_decision_state, redaction_event).                      *)
THEOREM RedactionIsStable ==
    ASSUME NEW Ls, NEW Fs, NEW Ds, "redacted" \in Fs, <<>> \in Ds, NEW n \in Nat,
           NEW text \in [1..n -> PhrasesOf(Ls, Fs, Ds)],
           NEW language, NEW channel
    PROVE  /\ Redact(text) = <<>> <=> \E i \in 1..n : IsPayment(text[i])
           /\ Redact(text) # <<>> =>
                 /\ IsRedactionOf(Redact(text)[1], text, n)
                 /\ DecisionState(Redact(text)[1].text, language, channel) = DecisionState(text, language, channel)
<1>1. PICK r : /\ Redact(text) = IF \E p \in Range(text) : IsPayment(p) THEN <<>> ELSE <<r>>
               /\ r \in Redacted(n, Ls, Fs, Ds)
               /\ IsStage(r, 7, text, n)
  BY LastStage
<1>2. (\E p \in Range(text) : IsPayment(p)) <=> \E i \in 1..n : IsPayment(text[i]) BY DEF Range
<1>3. <<r>> # <<>> /\ <<r>>[1] = r OBVIOUS
<1>4. Redact(text) = <<>> <=> \E i \in 1..n : IsPayment(text[i]) BY <1>1, <1>2, <1>3
<1>5. ASSUME Redact(text) # <<>>
      PROVE  /\ IsRedactionOf(Redact(text)[1], text, n)
             /\ DecisionState(Redact(text)[1].text, language, channel) = DecisionState(text, language, channel)
  <2>1. Redact(text) = <<r>> /\ Redact(text)[1] = r BY <1>1, <1>3, <1>5
  <2>2. r.text \in [1..n -> PhrasesOf(Ls, Fs, Ds)] BY <1>1 DEF Redacted
  <2>3. /\ \A i \in 1..n : \/ r.text[i] = text[i]
                           \/ r.text[i] = Gone(text[i]) /\ \E j \in 1..7 : MatchesPattern(KindAt(j), text[i])
        /\ \A j \in 1..7, i \in 1..n : ~MatchesPattern(KindAt(j), r.text[i])
        /\ SumFunctionOnSet(r.counts, KindNames) = Cardinality(Changed(r, text, n))
    BY <1>1 DEF IsStage
  <2>4. \A i \in 1..n : /\ Gone(text[i]).label = text[i].label /\ Gone(text[i]).form = "redacted"
                        /\ Gone(text[i]).digits = <<>>
    BY GoneType
  <2>5. \A i \in 1..n : /\ r.text[i].label = text[i].label
                        /\ r.text[i] = text[i] \/ (r.text[i].form = "redacted" /\ r.text[i].digits = <<>>)
    BY <2>3, <2>4
  <2>6. \A kind \in KindNames, i \in 1..n : ~MatchesPattern(kind, r.text[i]) BY <2>3, KindsAre
  <2>7. AuditEvent(r).total = SumFunctionOnSet(r.counts, KindNames) BY <1>1, TotalIsSum
  <2>8. IsRedactionOf(r, text, n) BY <2>3, <2>5, <2>6, <2>7 DEF IsRedactionOf
  <2>9. PICK q : /\ Redact(r.text) = IF \E p \in Range(r.text) : IsPayment(p) THEN <<>> ELSE <<q>>
                 /\ q \in Redacted(n, Ls, Fs, Ds)
                 /\ IsStage(q, 7, r.text, n)
    BY <2>2, LastStage
  <2>10. ~\E p \in Range(r.text) : IsPayment(p)
    <3>1. \A p : p.form = "redacted" => ~IsPayment(p) BY DEF IsPayment
    <3>2. \A i \in 1..n : ~IsPayment(text[i]) BY <1>4, <1>5
    <3>3. \A i \in 1..n : ~IsPayment(r.text[i]) BY <2>5, <3>1, <3>2
    <3>. QED BY <2>2, <3>3 DEF Range
  <2>11. q.text = r.text
    <3>1. \A i \in 1..n : q.text[i] = r.text[i] BY <2>3, <2>9 DEF IsStage
    <3>2. q.text \in [1..n -> PhrasesOf(Ls, Fs, Ds)] BY <2>9 DEF Redacted
    <3>. QED BY <2>2, <3>1, <3>2
  <2>12. Redact(r.text) = <<q>> /\ <<q>> # <<>> /\ <<q>>[1] = q BY <2>9, <2>10
  <2>13. DecisionState(r.text, language, channel) = DecisionState(text, language, channel)
    BY Zenon, <1>3, <2>1, <2>11, <2>12 DEF DecisionState
  <2>. QED BY <2>1, <2>8, <2>13
<1>. QED BY <1>4, <1>5

CodeForms == {"code", "number", "identity", "date"}

(* A phrase that no pattern matches is none of the personal values.         *)
LEMMA LeftOver ==
    ASSUME NEW p, \A kind \in KindNames : ~MatchesPattern(kind, p)
    PROVE  /\ p.form # "email" /\ p.form # "address"
           /\ p.form = "name" => p.label # "name"
           /\ p.form \in {"number", "identity"} => Len(p.digits) \notin 7..15
           /\ p.label \in {"customer", "order"} /\ p.form \in CodeForms => ~(Len(p.digits) >= 4)
<1>1. ~MatchesPattern("email", p) /\ ~MatchesPattern("address", p) BY DEF KindNames
<1>2. ~MatchesPattern("name", p) BY DEF KindNames
<1>3. ~MatchesPattern("phone", p) BY DEF KindNames
<1>4. ~MatchesPattern("customer_id", p) /\ ~MatchesPattern("order_id", p) BY DEF KindNames
<1>5. p.form # "email" /\ p.form # "address" BY <1>1 DEF MatchesPattern
<1>6. p.form = "name" => p.label # "name" BY <1>2 DEF MatchesPattern
<1>7. p.form \in {"number", "identity"} => Len(p.digits) \notin 7..15 BY <1>3 DEF MatchesPattern
<1>8. p.label \in {"customer", "order"} /\ p.form \in CodeForms => ~(Len(p.digits) >= 4)
  BY <1>4 DEF MatchesPattern, IsCode, CodeForms
<1>. QED BY <1>5, <1>6, <1>7, <1>8

-----------------------------------------------------------------------------
(* The generator of synthetic records                                       *)

(* What the quotient of natural numbers is.                                 *)
LEMMA DivIs ==
    ASSUME NEW a \in Nat, NEW b \in Nat, b > 0
    PROVE  /\ a \div b \in Nat
           /\ b * (a \div b) <= a
           /\ a < b * (a \div b) + b
OBVIOUS

(* Only the quotient fits between the two multiples.                        *)
LEMMA DivUnique ==
    ASSUME NEW a \in Nat, NEW b \in Nat, b > 0, NEW q \in Nat, b * q <= a, a < b * q + b
    PROVE  a \div b = q
<1>. DEFINE r == a \div b
<1>1. r \in Nat /\ b * r <= a /\ a < b * r + b BY DivIs
<1>. HIDE DEF r
<1>2. ASSUME r < q PROVE FALSE
  <2>1. r + 1 <= q BY <1>1, <1>2
  <2>2. b * (r + 1) <= b * q BY <2>1, <1>1
  <2>. QED BY <1>1, <2>2
<1>3. ASSUME q < r PROVE FALSE
  <2>1. q + 1 <= r BY <1>1, <1>3
  <2>2. b * (q + 1) <= b * r BY <2>1, <1>1
  <2>. QED BY <1>1, <2>2
<1>. QED BY <1>1, <1>2, <1>3 DEF r

(* A greater dividend has no smaller quotient.                              *)
LEMMA DivMonotone ==
    ASSUME NEW a \in Nat, NEW c \in Nat, NEW b \in Nat, b > 0, a <= c
    PROVE  a \div b <= c \div b
<1>. DEFINE r == a \div b
            s == c \div b
<1>1. r \in Nat /\ b * r <= a /\ a < b * r + b BY DivIs
<1>2. s \in Nat /\ b * s <= c /\ c < b * s + b BY DivIs
<1>. HIDE DEF r, s
<1>3. ASSUME s < r PROVE FALSE
  <2>1. s + 1 <= r BY <1>1, <1>2, <1>3
  <2>2. b * (s + 1) <= b * r BY <2>1, <1>1, <1>2
  <2>. QED BY <1>1, <1>2, <2>2
<1>. QED BY <1>1, <1>2, <1>3 DEF r, s

(* The records cover the days from the first to the last in order, and      *)
(* every day when there are as many records as days (generate).             *)
THEOREM DaysAreCovered ==
    ASSUME NEW days \in Nat, days > 0, NEW count \in Nat, count > 0
    PROVE  /\ Day(0, count, days) = 0
           /\ count > 1 => Day(count - 1, count, days) = days - 1
           /\ \A i \in 0..(count - 1) : Day(i, count, days) \in 0..(days - 1)
           /\ \A i, j \in 0..(count - 1) : i <= j => Day(i, count, days) <= Day(j, count, days)
           /\ count >= days => \A d \in 0..(days - 1) : \E i \in 0..(count - 1) : Day(i, count, days) = d
<1>1. CASE count = 1
  <2>1. \A i : Day(i, count, days) = 0 BY <1>1 DEF Day
  <2>. QED BY <1>1, <2>1
<1>2. CASE count # 1
  <2>. DEFINE m == count - 1
              n == days - 1
  <2>1. m \in Nat /\ m > 0 /\ n \in Nat /\ count = m + 1 /\ days = n + 1 BY <1>2
  <2>. HIDE DEF m, n
  <2>2. \A i \in 0..m : Day(i, count, days) = (i * n) \div m BY <1>2 DEF Day, m, n
  <2>3. \A i \in 0..m : i * n \in Nat BY <2>1
  <2>4. (0 * n) \div m = 0
    <3>1. 0 \in Nat /\ m * 0 <= 0 /\ 0 < m * 0 + m BY <2>1
    <3>2. 0 \div m = 0 BY <2>1, <3>1, DivUnique
    <3>. QED BY <2>1, <3>2
  <2>5. (m * n) \div m = n
    <3>1. m * n \in Nat /\ m * n <= m * n /\ m * n < m * n + m BY <2>1
    <3>. QED BY <2>1, <3>1, DivUnique
  <2>6. \A i, j \in 0..m : i <= j => (i * n) \div m <= (j * n) \div m
    <3>. SUFFICES ASSUME NEW i \in 0..m, NEW j \in 0..m, i <= j
                  PROVE  (i * n) \div m <= (j * n) \div m
      OBVIOUS
    <3>1. i * n <= j * n BY <2>1
    <3>. QED BY <2>1, <2>3, <3>1, DivMonotone
  <2>7. \A i \in 0..m : (i * n) \div m \in 0..n
    <3>. SUFFICES ASSUME NEW i \in 0..m PROVE (i * n) \div m \in 0..n OBVIOUS
    <3>1. (i * n) \div m \in Nat BY <2>1, <2>3, DivIs
    <3>2. i \in 0..m /\ m \in 0..m /\ i <= m BY <2>1
    <3>3. (i * n) \div m <= (m * n) \div m BY <2>6, <3>2
    <3>. QED BY <2>1, <2>5, <3>1, <3>3
  <2>8. ASSUME count >= days, NEW d \in 0..n PROVE \E i \in 0..m : (i * n) \div m = d
    <3>1. CASE n = 0
      <4>1. 0 \in 0..m /\ d = 0 BY <2>1, <3>1
      <4>. QED BY <2>4, <4>1
    <3>2. CASE n # 0
      <4>. DEFINE x == d * m + (n - 1)
                  i == x \div n
      <4>1. n <= m /\ n > 0 /\ d \in Nat /\ d <= n BY <2>1, <2>8, <3>2
      <4>2. x \in Nat
        <5>1. d * m \in Nat BY <2>1, <4>1
        <5>. QED BY <2>1, <4>1, <5>1
      <4>3. i \in Nat /\ n * i <= x /\ x < n * i + n
        <5>. HIDE DEF x
        <5>. QED BY <2>1, <4>1, <4>2, DivIs
      <4>. HIDE DEF i
      <4>4. i <= m
        <5>1. d * m <= n * m BY <2>1, <4>1
        <5>2. n * i < n * m + n
          <6>1. n * i \in Int /\ n * m \in Int /\ d * m \in Int BY <2>1, <4>1, <4>3
          <6>. QED BY <2>1, <4>1, <4>3, <5>1, <6>1
        <5>3. ASSUME i > m PROVE FALSE
          <6>1. i >= m + 1 BY <2>1, <4>3, <5>3
          <6>2. n * i >= n * (m + 1) BY <2>1, <4>1, <4>3, <6>1
          <6>3. n * (m + 1) = n * m + n BY <2>1, <4>1
          <6>. QED BY <2>1, <4>1, <4>3, <5>2, <6>2, <6>3
        <5>. QED BY <2>1, <4>3, <5>3
      <4>5. m * d <= i * n /\ i * n < m * d + m
        <5>1. n * i \in Int /\ d * m \in Int /\ n * i = i * n /\ d * m = m * d BY <2>1, <4>1, <4>3
        <5>. QED BY <2>1, <4>1, <4>3, <5>1
      <4>6. i \in 0..m /\ i * n \in Nat BY <2>1, <4>3, <4>4
      <4>7. (i * n) \div m = d BY <2>1, <4>1, <4>5, <4>6, DivUnique
      <4>. QED BY <4>6, <4>7
    <3>. QED BY <3>1, <3>2
  <2>9. 0 \in 0..m /\ m \in 0..m BY <2>1
  <2>10. Day(0, count, days) = 0 BY <2>2, <2>4, <2>9
  <2>11. Day(m, count, days) = n BY <2>2, <2>5, <2>9
  <2>12. \A i \in 0..m : Day(i, count, days) \in 0..n BY <2>2, <2>7
  <2>13. \A i, j \in 0..m : i <= j => Day(i, count, days) <= Day(j, count, days) BY <2>2, <2>6
  <2>14. count >= days => \A d \in 0..n : \E i \in 0..m : Day(i, count, days) = d
    <3>. SUFFICES ASSUME count >= days, NEW d \in 0..n PROVE \E i \in 0..m : Day(i, count, days) = d OBVIOUS
    <3>1. PICK i \in 0..m : (i * n) \div m = d BY <2>8
    <3>. QED BY <2>2, <3>1
  <2>. QED BY <2>10, <2>11, <2>12, <2>13, <2>14 DEF m, n
<1>. QED BY <1>1, <1>2

WeightOf(choices) == [j \in DOMAIN choices |-> choices[j].weight]
UpTo(choices, i) == SumFunctionOnSet(WeightOf(choices), 1..i)
Drawn(choices, draw, i) == draw < UpTo(choices, i) /\ (i = 1 \/ UpTo(choices, i - 1) <= draw)

AreChoices(choices, n) ==
    DOMAIN choices = 1..n /\ \A i \in 1..n : choices[i].weight \in Nat \ {0}

(* The choice is one whose weight reaches the draw.                         *)
LEMMA WeightedIs ==
    ASSUME NEW choices, NEW draw
    PROVE  Weighted(choices, draw) = choices[CHOOSE i \in DOMAIN choices : Drawn(choices, draw, i)]
BY DEF Weighted, Drawn, UpTo, WeightOf, SumFunctionOnSet, FoldFunctionOnSet, MapThenFoldSet,
       SumFunctionOnSet, FoldFunctionOnSet, MapThenFoldSet

(* The weights up to a choice add up to more with each choice.              *)
LEMMA WeightsAddUp ==
    ASSUME NEW n \in Nat, NEW choices, AreChoices(choices, n)
    PROVE  /\ UpTo(choices, 0) = 0
           /\ \A i \in 0..n : UpTo(choices, i) \in Nat
           /\ \A i \in 1..n : UpTo(choices, i) = UpTo(choices, i - 1) + choices[i].weight
           /\ \A i, j \in 0..n : i <= j => UpTo(choices, i) <= UpTo(choices, j)
<1>. DEFINE f == WeightOf(choices)
            U(i) == UpTo(choices, i)
<1>1. \A i \in 1..n : f[i] \in Nat /\ f[i] > 0 /\ f[i] = choices[i].weight BY DEF AreChoices, WeightOf
<1>2. \A i : U(i) = SumFunctionOnSet(f, 1..i) BY DEF UpTo
<1>. HIDE DEF f, U
<1>3. U(0) = 0
  <2>1. 1..0 = {} OBVIOUS
  <2>. QED BY <1>2, <2>1, SumEmpty
<1>4. ASSUME NEW i \in 0..n PROVE U(i) \in Nat
  <2>1. i \in Nat /\ \A x \in 1..i : f[x] \in Nat BY <1>1
  <2>. QED BY <1>2, <2>1, IntervalIsFinite, SumIsNatural
<1>5. ASSUME NEW i \in 1..n PROVE U(i) = U(i - 1) + f[i]
  <2>1. i \in Nat /\ i \in 1..i /\ \A x \in 1..i : f[x] \in Int BY <1>1
  <2>2. (1..i) \ {i} = 1..(i - 1) OBVIOUS
  <2>3. IsFiniteSet(1..i) BY <2>1, IntervalIsFinite
  <2>4. SumFunctionOnSet(f, 1..i) = f[i] + SumFunctionOnSet(f, (1..i) \ {i}) BY <2>1, <2>3, SumRemove
  <2>5. U(i) = f[i] + U(i - 1) BY <1>2, <2>2, <2>4
  <2>6. U(i - 1) \in Nat /\ f[i] \in Nat BY <1>1, <1>4
  <2>. QED BY <2>5, <2>6
<1>6. ASSUME NEW i \in 0..n PROVE \A j \in 0..n : i <= j => U(i) <= U(j)
  <2>. DEFINE T0 == {k \in Nat : i + k <= n => U(i) <= U(i + k)}
  <2>1. 0 \in T0 BY <1>4
  <2>2. ASSUME NEW k \in Nat, k \in T0 PROVE k + 1 \in T0
    <3>. SUFFICES ASSUME i + (k + 1) <= n PROVE U(i) <= U(i + (k + 1)) OBVIOUS
    <3>1. i + (k + 1) \in 1..n /\ (i + (k + 1)) - 1 = i + k /\ i + k \in 0..n OBVIOUS
    <3>2. U(i + (k + 1)) = U(i + k) + f[i + (k + 1)] BY <1>5, <3>1
    <3>3. f[i + (k + 1)] \in Nat /\ U(i + k) \in Nat /\ U(i) \in Nat BY <1>1, <1>4, <3>1
    <3>4. U(i) <= U(i + k) BY <2>2
    <3>. QED BY <3>2, <3>3, <3>4
  <2>3. Nat \subseteq T0
    <3>. HIDE DEF T0
    <3>. QED BY <2>1, <2>2, SetInduction
  <2>4. ASSUME NEW j \in 0..n, i <= j PROVE U(i) <= U(j)
    <3>1. j - i \in Nat /\ i + (j - i) = j /\ j - i \in T0 BY <2>3, <2>4
    <3>. QED BY <3>1
  <2>. QED BY <2>4
<1>7. \A i \in 1..n : U(i) = U(i - 1) + choices[i].weight BY <1>1, <1>5
<1>. QED BY <1>3, <1>4, <1>6, <1>7 DEF U

(* A draw below the total weight has one choice.                            *)
LEMMA OneIsDrawn ==
    ASSUME NEW n \in Nat, NEW choices, AreChoices(choices, n),
           NEW draw \in Nat, draw < UpTo(choices, n)
    PROVE  \E i \in 1..n : /\ Weighted(choices, draw) = choices[i]
                           /\ \A j \in 1..n : (UpTo(choices, j - 1) <= draw /\ draw < UpTo(choices, j)) <=> j = i
<1>. DEFINE U(i) == UpTo(choices, i)
            In(j) == U(j - 1) <= draw /\ draw < U(j)
            reached == {k \in Nat : k <= n /\ draw < U(k)}
<1>1. /\ U(0) = 0 /\ \A i \in 0..n : U(i) \in Nat
      /\ \A i, j \in 0..n : i <= j => U(i) <= U(j)
  BY WeightsAddUp
<1>2. n \in reached OBVIOUS
<1>. HIDE DEF U
<1>3. PICK i \in reached : \A k \in reached : i <= k BY <1>2, NatLeast
<1>4. i \in 1..n /\ In(i)
  <2>1. i \in Nat /\ i <= n /\ draw < U(i) BY <1>3
  <2>2. i # 0 BY <1>1, <2>1
  <2>3. i - 1 \in 0..n /\ i - 1 \notin reached BY <1>3, <2>1, <2>2
  <2>. QED BY <1>1, <2>1, <2>2, <2>3
<1>5. ASSUME NEW j \in 1..n, In(j) PROVE j = i
  <2>1. i \in 0..n /\ j \in 0..n /\ i - 1 \in 0..n /\ j - 1 \in 0..n BY <1>4
  <2>2. U(i) \in Nat /\ U(j) \in Nat /\ U(i - 1) \in Nat /\ U(j - 1) \in Nat BY <1>1, <2>1
  <2>3. ASSUME i <= j - 1 PROVE FALSE
    <3>1. U(i) <= U(j - 1) BY <1>1, <2>1, <2>3
    <3>. QED BY <1>4, <1>5, <2>2, <3>1
  <2>4. ASSUME j <= i - 1 PROVE FALSE
    <3>1. U(j) <= U(i - 1) BY <1>1, <2>1, <2>4
    <3>. QED BY <1>4, <1>5, <2>2, <3>1
  <2>. QED BY <1>4, <2>3, <2>4
<1>6. ASSUME NEW j \in 1..n PROVE Drawn(choices, draw, j) <=> In(j)
  BY <1>1 DEF Drawn, U
<1>7. DOMAIN choices = 1..n BY DEF AreChoices
<1>8. (CHOOSE k \in 1..n : Drawn(choices, draw, k)) = i
  <2>. HIDE DEF In
  <2>. QED BY <1>4, <1>5, <1>6
<1>9. Weighted(choices, draw) = choices[i] BY <1>7, <1>8, WeightedIs
<1>. QED BY <1>4, <1>5, <1>9 DEF U

(* Of the draws below the total weight, a choice is that of as many as its  *)
(* weight (_weighted_choice).                                               *)
THEOREM WeightsAreShares ==
    ASSUME NEW n \in Nat, NEW choices, AreChoices(choices, n),
           \A i, j \in 1..n : choices[i] = choices[j] => i = j, NEW i \in 1..n
    PROVE  Cardinality({d \in 0..(UpTo(choices, n) - 1) : Weighted(choices, d) = choices[i]}) = choices[i].weight
<1>. DEFINE U(k) == UpTo(choices, k)
            W(d) == Weighted(choices, d)
            ds == {d \in 0..(U(n) - 1) : W(d) = choices[i]}
            lo == U(i - 1)
            hi == U(i) - 1
<1>1. i - 1 \in 0..n /\ i \in 0..n /\ n \in 0..n OBVIOUS
<1>2. lo \in Nat /\ U(n) \in Nat /\ hi = lo + choices[i].weight - 1 /\ U(i) <= U(n) /\ choices[i].weight \in Nat \ {0}
  <2>1. choices[i].weight \in Nat \ {0} BY DEF AreChoices
  <2>2. U(i) = U(i - 1) + choices[i].weight BY WeightsAddUp
  <2>3. U(i - 1) \in Nat /\ U(n) \in Nat /\ U(i) <= U(n) BY <1>1, WeightsAddUp
  <2>. QED BY <2>1, <2>2, <2>3
<1>3. ASSUME NEW d \in 0..(U(n) - 1) PROVE W(d) = choices[i] <=> d \in lo..hi
  <2>1. d \in Nat /\ d < UpTo(choices, n) BY <1>2
  <2>2. PICK k \in 1..n : /\ W(d) = choices[k]
                          /\ \A j \in 1..n : (UpTo(choices, j - 1) <= d /\ d < UpTo(choices, j)) <=> j = k
    BY <2>1, OneIsDrawn
  <2>3. W(d) = choices[i] <=> i = k BY <2>2
  <2>4. (U(i - 1) <= d /\ d < U(i)) <=> i = k BY <2>2
  <2>5. U(i) \in Nat BY <1>1, WeightsAddUp
  <2>. HIDE DEF U, W
  <2>. QED BY <1>2, <2>1, <2>3, <2>4, <2>5
<1>4. lo..hi \subseteq 0..(U(n) - 1)
  <2>1. U(i) \in Nat BY <1>1, WeightsAddUp
  <2>. HIDE DEF U
  <2>. QED BY <1>2, <2>1
<1>. HIDE DEF lo, hi, U, W
<1>5. ds = lo..hi BY <1>3, <1>4
<1>. HIDE DEF ds
<1>6. lo \in Int /\ hi \in Int /\ ~(lo > hi) /\ hi - lo + 1 = choices[i].weight BY <1>2
<1>7. Cardinality(lo..hi) = IF lo > hi THEN 0 ELSE hi - lo + 1 BY <1>6, FS_Interval
<1>8. Cardinality(ds) = choices[i].weight BY <1>5, <1>6, <1>7
<1>. QED BY <1>8 DEF U, W, ds

ProductsAre(products, n) ==
    /\ products \in Seq([id : Nat \ {0}, price : Nat]) /\ Len(products) = n
    /\ \A i, j \in 1..n : products[i].id = products[j].id => i = j

Bought(products, n) ==
    {[id |-> products[j].id, quantity |-> q, price |-> products[j].price * q, freight |-> f] :
        j \in 1..n, q \in 1..2, f \in Nat}

(* What the related products of a record are: the primary one, and at most  *)
(* one more that is another.                                                *)
RelatedTo(first, related, products, n) ==
    /\ related \in Seq(Bought(products, n)) /\ Len(related) \in 1..2
    /\ related[1].id = first.id
    /\ Len(related) = 2 => related[2].id # first.id

OnlyAt(s, k) == \A i \in DOMAIN s : s[i] = s[k] => i = k
Without(s, k, t, X) ==
    /\ t \in Seq(X) /\ Len(t) = Len(s) - 1
    /\ \A i \in DOMAIN t : \E j \in DOMAIN s : j # k /\ t[i] = s[j]

(* A sequence without its first occurrence of an element that occurs once   *)
(* is one shorter and has no such element.                                  *)
LEMMA WithoutFirst ==
    ASSUME NEW X, NEW s \in Seq(X), NEW k \in DOMAIN s, OnlyAt(s, k)
    PROVE  Without(s, k, RemoveFirst(s, s[k]), X)
<1>. DEFINE n == Len(s)
<1>1. n \in Nat /\ k \in 1..n /\ DOMAIN s = 1..n /\ \A i \in 1..n : s[i] = s[k] => i = k BY DEF OnlyAt
<1>. HIDE DEF n
<1>. DEFINE a == SubSeq(s, 1, k - 1)
            b == SubSeq(s, k + 1, n)
            at == {i \in 1..n : s[i] = s[k]}
<1>2. at = {k} BY <1>1
<1>3. Min({k}) = k BY SMTT(30) DEF Min
<1>4. RemoveFirst(s, s[k]) = a \o b
  BY <1>1, <1>2, <1>3 DEF n, RemoveFirst, RemoveAt, SelectInSeq
<1>5. a \in Seq(X) /\ Len(a) = k - 1 /\ \A i \in 1..(k - 1) : a[i] = s[i] BY <1>1 DEF n
<1>6. b \in Seq(X) /\ Len(b) = n - k /\ \A i \in 1..(n - k) : b[i] = s[k + i] BY <1>1, SMTT(30) DEF n
<1>. HIDE DEF a, b
<1>7. a \o b \in Seq(X) /\ Len(a \o b) = n - 1
  <2>1. a \o b \in Seq(X) /\ Len(a \o b) = Len(a) + Len(b) BY <1>5, <1>6, ConcatProperties
  <2>. QED BY <1>1, <1>5, <1>6, <2>1
<1>8. \A i \in 1..(n - 1) : (a \o b)[i] = IF i <= k - 1 THEN a[i] ELSE b[i - (k - 1)]
  <2>1. \A i \in 1..(Len(a) + Len(b)) : (a \o b)[i] = IF i <= Len(a) THEN a[i] ELSE b[i - Len(a)]
    BY <1>5, <1>6, ConcatProperties
  <2>2. Len(a) + Len(b) = n - 1 BY <1>1, <1>5, <1>6
  <2>. QED BY <1>5, <2>1, <2>2
<1>9. ASSUME NEW i \in 1..(n - 1) PROVE \E j \in 1..n : j # k /\ (a \o b)[i] = s[j]
  <2>1. CASE i <= k - 1
    <3>1. (a \o b)[i] = a[i] BY <1>8, <2>1
    <3>. QED BY <1>1, <1>5, <2>1, <3>1
  <2>2. CASE ~(i <= k - 1)
    <3>1. (a \o b)[i] = b[i - (k - 1)] BY <1>8, <2>2
    <3>2. i - (k - 1) \in 1..(n - k) /\ k + (i - (k - 1)) = i + 1 BY <1>1, <2>2
    <3>3. (a \o b)[i] = s[i + 1] BY <1>1, <1>6, <3>1, <3>2
    <3>. QED BY <1>1, <2>2, <3>3
  <2>. QED BY <2>1, <2>2
<1>. DEFINE t == a \o b
<1>10. DOMAIN t = 1..(n - 1) BY <1>7
<1>. HIDE DEF t
<1>11. Without(s, k, t, X) BY Zenon, <1>1, <1>7, <1>9, <1>10 DEF Without, n, t
<1>. QED BY <1>4, <1>11 DEF t

(* An event is selected only on its days.                                   *)
LEMMA SelectedEvent ==
    ASSUME NEW spec, NEW k \in Nat, DOMAIN spec.events = 1..k, NEW day, NEW shares
    PROVE  \/ SelectEvent(spec, day, shares) = <<>>
           \/ \E i \in 1..k : /\ SelectEvent(spec, day, shares) = <<spec.events[i]>>
                              /\ ActiveOn(spec.events[i], day)
                              /\ shares[spec.events[i].id] < spec.events[i].share
<1>. DEFINE ok(i) == ActiveOn(spec.events[i], day) /\ shares[spec.events[i].id] < spec.events[i].share
            taken == {i \in 1..k : ok(i)}
<1>1. SelectEvent(spec, day, shares) = IF taken = {} THEN <<>> ELSE <<spec.events[Min(taken)]>>
  BY DEF SelectEvent, Min
<1>2. CASE taken # {}
  <2>1. taken \in SUBSET (1..k) OBVIOUS
  <2>. HIDE DEF taken
  <2>2. Min(taken) \in taken BY <1>2, <2>1, MinOfSubset
  <2>. QED BY Zenon, <1>1, <1>2, <2>2 DEF taken
<1>. QED BY <1>1, <1>2

IsIdOf(id, rows) == id \in {r.id : r \in Range(rows)}

(* The row of an identity.                                                  *)
LEMMA RowOfId ==
    ASSUME NEW rows, NEW id, IsIdOf(id, rows)
    PROVE  OfId(rows, id) \in Range(rows) /\ OfId(rows, id).id = id
BY DEF OfId, IsIdOf

OthersThan(ps, n, k, t) ==
    /\ Len(t) = n - 1 /\ (t = <<>> => n = 1)
    /\ \A i \in 1..(n - 1) : \E j \in 1..n : ps[j].id # ps[k].id /\ t[i] = ps[j]

(* The products without one of them.                                        *)
LEMMA OtherProducts ==
    ASSUME NEW ps, NEW n \in Nat, ProductsAre(ps, n), NEW k \in 1..n
    PROVE  OthersThan(ps, n, k, RemoveFirst(ps, ps[k]))
<1>. DEFINE X == [id : Nat \ {0}, price : Nat]
            others == RemoveFirst(ps, ps[k])
<1>1. ps \in Seq(X) /\ Len(ps) = n /\ \A i, j \in 1..n : ps[i].id = ps[j].id => i = j BY DEF ProductsAre
<1>2. k \in DOMAIN ps /\ DOMAIN ps = 1..n BY <1>1
<1>3. OnlyAt(ps, k) BY <1>1, <1>2 DEF OnlyAt
<1>. HIDE DEF X
<1>4. Without(ps, k, RemoveFirst(ps, ps[k]), X) BY <1>1, <1>2, <1>3, WithoutFirst, Zenon
<1>. HIDE DEF others
<1>5. Without(ps, k, others, X) BY <1>4 DEF others
<1>6. others \in Seq(X) /\ Len(others) = n - 1 /\ DOMAIN others = 1..(n - 1) BY <1>1, <1>5 DEF Without
<1>7. \A i \in 1..(n - 1) : \E j \in 1..n : j # k /\ others[i] = ps[j] BY <1>2, <1>5, <1>6 DEF Without
<1>8. \A i \in 1..(n - 1) : \E j \in 1..n : ps[j].id # ps[k].id /\ others[i] = ps[j] BY <1>1, <1>7
<1>9. others = <<>> => n = 1 BY <1>6
<1>. QED BY <1>6, <1>8, <1>9 DEF others, OthersThan

(* Two sequences of one element.                                            *)
LEMMA PairConcat == ASSUME NEW x, NEW y PROVE <<x>> \o <<y>> = <<x, y>> /\ <<x>> \o <<>> = <<x>>
<1>. DEFINE X == {x, y}
<1>1. x \in X /\ y \in X OBVIOUS
<1>. HIDE DEF X
<1>2. <<x>> \in Seq(X) /\ <<y>> \in Seq(X) /\ <<>> \in Seq(X) BY <1>1
<1>3. <<x>> \o <<y>> = <<x, y>>
  <2>1. Len(<<x>>) = 1 /\ Len(<<x>>) + 1 = 2 OBVIOUS
  <2>2. <<x>> \o <<y>> = [i \in 1..(Len(<<x>>) + 1) |-> IF i <= Len(<<x>>) THEN <<x>>[i] ELSE y]
    BY <1>1, <1>2, ConcatOne
  <2>3. [i \in 1..2 |-> IF i <= 1 THEN <<x>>[i] ELSE y] = <<x, y>> OBVIOUS
  <2>. QED BY <2>1, <2>2, <2>3
<1>4. <<x>> \o <<>> = <<x>> BY <1>2
<1>. QED BY <1>3, <1>4

(* The products of a record: none can be drawn besides the only one.        *)
LEMMA RelatedIs ==
    ASSUME NEW spec, NEW n \in Nat, ProductsAre(spec.products, n), NEW scenario, scenario.order \in BOOLEAN,
           NEW k \in 1..n, NEW draw, draw.second \in Nat, draw.freight \in Nat, draw.twice \in BOOLEAN
    PROVE  LET primary == <<spec.products[k]>>
               made == RelatedProducts(spec, scenario, primary, draw)
           IN  \/ made = <<>> /\ scenario.order /\ draw.second # 0 /\ n = 1
               \/ \E related : made = <<related>> /\ RelatedTo(spec.products[k], related, spec.products, n)
<1>. DEFINE ps == spec.products
            p == ps[k]
            others == RemoveFirst(ps, p)
            second == scenario.order /\ draw.second # 0
            bought(x, q) == [id |-> x.id, quantity |-> q, price |-> x.price * q, freight |-> draw.freight]
            first == bought(p, IF draw.twice THEN 2 ELSE 1)
            X == [id : Nat \ {0}, price : Nat]
            B == Bought(ps, n)
            made == RelatedProducts(spec, scenario, <<p>>, draw)
<1>1. ps \in Seq(X) /\ Len(ps) = n /\ \A i, j \in 1..n : ps[i].id = ps[j].id => i = j BY DEF ProductsAre
<1>2. /\ Len(others) = n - 1 /\ (others = <<>> => n = 1)
      /\ \A i \in 1..(n - 1) : \E j \in 1..n : ps[j].id # p.id /\ others[i] = ps[j]
  <2>1. OthersThan(ps, n, k, others) BY OtherProducts, Zenon
  <2>. HIDE DEF others
  <2>. QED BY <2>1 DEF OthersThan
<1>3. \A j \in 1..n, q \in 1..2 : bought(ps[j], q) \in B
  BY DEF Bought
<1>4. made = IF second /\ others = <<>> THEN <<>>
             ELSE <<<<first>> \o (IF second THEN <<bought(others[1 + (draw.second % Len(others))], 1)>> ELSE <<>>)>>
  <2>1. <<p>> # <<>> /\ <<p>>[1] = p OBVIOUS
  <2>. QED BY <2>1 DEF RelatedProducts
<1>. HIDE DEF X, B, others, made, bought
<1>5. first \in B /\ first.id = p.id
  <2>1. first \in B BY <1>3
  <2>2. first.id = p.id BY DEF bought
  <2>. QED BY <2>1, <2>2
<1>. HIDE DEF first
<1>6. CASE second /\ others = <<>>
  <2>1. n = 1 BY <1>2, <1>6
  <2>. QED BY <1>4, <1>6, <2>1 DEF made
<1>7. CASE second /\ others # <<>>
  <2>. DEFINE i == 1 + (draw.second % Len(others))
              next == bought(others[i], 1)
  <2>1. Len(others) \in Nat /\ Len(others) = n - 1 /\ n - 1 > 0 BY <1>2, <1>7
  <2>2. i \in 1..(n - 1) BY <2>1
  <2>3. PICK j \in 1..n : ps[j].id # p.id /\ others[i] = ps[j] BY <1>2, <2>2
  <2>4. next \in B BY <1>3, <2>3
  <2>5. next.id # p.id BY <2>3 DEF bought
  <2>. HIDE DEF i, next
  <2>6. made = <<<<first>> \o <<next>>>> BY <1>4, <1>7 DEF i, next
  <2>7. <<first>> \o <<next>> = <<first, next>> BY PairConcat
  <2>8. <<first, next>> \in Seq(B) BY <1>5, <2>4
  <2>9. RelatedTo(p, <<first, next>>, ps, n) BY <1>5, <2>5, <2>8 DEF RelatedTo, B
  <2>. QED BY <2>6, <2>7, <2>9 DEF made
<1>8. CASE ~second
  <2>1. made = <<<<first>> \o <<>>>> BY <1>4, <1>8
  <2>2. <<first>> \o <<>> = <<first>> BY PairConcat
  <2>3. <<first>> \in Seq(B) BY <1>5
  <2>4. RelatedTo(p, <<first>>, ps, n) BY <1>5, <2>3 DEF RelatedTo, B
  <2>. QED BY <2>1, <2>2, <2>4 DEF made
<1>. QED BY <1>6, <1>7, <1>8

(* What the loader leaves of a specification that satisfies SpecLoads.      *)
SpecIsTyped(spec, n, m, k) ==
    /\ ProductsAre(spec.products, n)
    /\ AreChoices(spec.scenarios, m) /\ \A i \in 1..m : spec.scenarios[i].order \in BOOLEAN
    /\ \A i \in 1..m : spec.scenarios[i].product \in BOOLEAN
    /\ DOMAIN spec.events = 1..k

(* The random numbers of a record.                                          *)
IsDraw(draw, spec, n, m) ==
    /\ draw.scenario \in Nat /\ draw.scenario < UpTo(spec.scenarios, m)
    /\ draw.product \in 1..n /\ draw.second \in Nat /\ draw.freight \in Nat /\ draw.twice \in BOOLEAN
    /\ draw.ago \in Int /\ draw.late \in Int /\ draw.early \in Int /\ draw.other \in Int
    /\ draw.before \in Nat \ {0}

ContextAddsUp(c, products) ==
    /\ c.purchased < c.delivered /\ c.purchased < c.expected
    /\ c.delta = c.delivered - c.expected
    /\ c.price = SumFunction([i \in DOMAIN products |-> products[i].price])

(* A record, its provenance and the scenario and event they are of.         *)
RecordOfScenario(r, s, spec, n) ==
    /\ r.channel = s.source /\ r.provenance.source = s.source /\ r.provenance.scenario = s.id
    /\ IF s.product
       THEN \E j \in 1..n : RelatedTo(spec.products[j], r.products, spec.products, n)
       ELSE r.products = <<>>
    /\ IF s.order THEN \E c : r.context = <<c>> /\ ContextAddsUp(c, r.products) ELSE r.context = <<>>
RecordOfEvent(r, e, s) ==
    /\ r.provenance.event = <<e.id>> /\ ActiveOn(e, r.day) /\ s.id = e.scenario
    /\ s.product /\ e.product # 0 => r.products[1].id = e.product

RecordFollows(r, spec, n, m, k) ==
    \E i \in 1..m : /\ RecordOfScenario(r, spec.scenarios[i], spec, n)
                    /\ \/ r.provenance.event = <<>>
                       \/ \E j \in 1..k : RecordOfEvent(r, spec.events[j], spec.scenarios[i])

ProductIsKnown(event, spec) ==
    event = <<>> \/ \E e : event = <<e>> /\ (e.product # 0 => e.product \in {p.id : p \in Range(spec.products)})
PrimaryOf(primary, scenario, event, spec, n) ==
    IF scenario.product
    THEN \E j \in 1..n : /\ primary = <<spec.products[j]>>
                         /\ event # <<>> /\ event[1].product # 0 => spec.products[j].id = event[1].product
    ELSE primary = <<>>

(* The product a record is about.                                           *)
LEMMA PrimaryIs ==
    ASSUME NEW spec, NEW n \in Nat, NEW m \in Nat, NEW k \in Nat, SpecIsTyped(spec, n, m, k),
           NEW scenario, scenario.product \in BOOLEAN, NEW draw, draw.product \in 1..n, NEW event,
           ProductIsKnown(event, spec)
    PROVE  PrimaryOf(PrimaryProduct(spec, scenario, event, draw), scenario, event, spec, n)
<1>. DEFINE primary == PrimaryProduct(spec, scenario, event, draw)
<1>1. DOMAIN spec.products = 1..n BY DEF SpecIsTyped, ProductsAre
<1>2. CASE ~scenario.product BY <1>2 DEF PrimaryProduct, PrimaryOf
<1>3. CASE scenario.product /\ event # <<>> /\ event[1].product # 0
  <2>1. PICK e : event = <<e>> /\ e.product \in {p.id : p \in Range(spec.products)} BY <1>3 DEF ProductIsKnown
  <2>2. event[1] = e BY <2>1
  <2>3. OfId(spec.products, e.product) \in Range(spec.products) /\ OfId(spec.products, e.product).id = e.product
    BY <2>1, RowOfId DEF IsIdOf
  <2>4. PICK j \in 1..n : spec.products[j] = OfId(spec.products, e.product) BY <1>1, <2>3 DEF Range
  <2>5. primary = <<spec.products[j]>> BY <1>3, <2>2, <2>4 DEF PrimaryProduct
  <2>. QED BY <1>3, <2>2, <2>3, <2>4, <2>5 DEF PrimaryOf
<1>4. CASE scenario.product /\ ~(event # <<>> /\ event[1].product # 0)
  <2>1. primary = <<spec.products[draw.product]>> BY <1>4 DEF PrimaryProduct
  <2>. QED BY <1>4, <2>1 DEF PrimaryOf
<1>. QED BY <1>2, <1>3, <1>4

(* The dates and the costs of an order.                                     *)
LEMMA ContextIs ==
    ASSUME NEW spec, NEW n \in Nat, NEW m \in Nat, NEW draw, IsDraw(draw, spec, n, m), NEW scenario,
           scenario.order \in BOOLEAN, NEW day \in Int, NEW products
    PROVE  LET made == Context(scenario, day, products, draw)
           IN  IF scenario.order THEN \E c : made = <<c>> /\ ContextAddsUp(c, products) ELSE made = <<>>
<1>. DEFINE made == Context(scenario, day, products, draw)
            delivered == day - draw.ago
            delta == CASE scenario.id = "delivery_late" -> draw.late
                       [] scenario.id = "delivery_positive" -> -draw.early
                       [] OTHER -> draw.other
            expected == delivered - delta
            earliest == IF delivered < expected THEN delivered ELSE expected
            price == SumFunction([i \in DOMAIN products |-> products[i].price])
            c == [delivered |-> delivered, expected |-> expected, delta |-> delta,
                  purchased |-> earliest - draw.before,
                  status |-> IF scenario.source = "return_feedback" THEN "returned" ELSE "delivered",
                  price |-> price,
                  freight |-> SumFunction([i \in DOMAIN products |-> products[i].freight])]
<1>1. CASE ~scenario.order BY <1>1 DEF Context
<1>2. CASE scenario.order
  <2>1. made = <<c>>
    BY <1>2 DEF Context, SumFunction, SumFunctionOnSet, FoldFunctionOnSet, MapThenFoldSet,
                SumFunction, SumFunctionOnSet, FoldFunctionOnSet, MapThenFoldSet
  <2>2. delivered \in Int /\ delta \in Int /\ draw.before \in Nat \ {0} BY DEF IsDraw
  <2>3. /\ c.delivered = delivered /\ c.expected = expected /\ c.delta = delta
        /\ c.purchased = earliest - draw.before /\ c.price = price
    OBVIOUS
  <2>. HIDE DEF c, delivered, delta, price
  <2>4. ContextAddsUp(c, products) BY <2>2, <2>3 DEF ContextAddsUp, price
  <2>. QED BY <1>2, <2>1, <2>4
<1>. QED BY <1>1, <1>2

EventOf(spec, day, draw) == SelectEvent(spec, day, draw.shares)
ScenarioOf(spec, day, draw) ==
    LET event == EventOf(spec, day, draw)
    IN  IF event # <<>> THEN OfId(spec.scenarios, event[1].scenario) ELSE Weighted(spec.scenarios, draw.scenario)

ScenarioIsKnown(scenario, spec, m) ==
    \E i \in 1..m : scenario = spec.scenarios[i] /\ (scenario.order => scenario.product)
EventFits(event, scenario, day, spec, k) ==
    event = <<>> \/ \E j \in 1..k : LET e == spec.events[j]
                                   IN  event = <<e>> /\ ActiveOn(e, day) /\ scenario.id = e.scenario

(* The event of a record, and its scenario.                                 *)
LEMMA ScenarioOfRecord ==
    ASSUME NEW spec, NEW n \in Nat, NEW m \in Nat, NEW k \in Nat, SpecIsTyped(spec, n, m, k),
           NEW shortest, SpecLoads(spec, shortest), NEW draw, IsDraw(draw, spec, n, m), NEW day
    PROVE  /\ ScenarioIsKnown(ScenarioOf(spec, day, draw), spec, m)
           /\ EventFits(EventOf(spec, day, draw), ScenarioOf(spec, day, draw), day, spec, k)
           /\ ProductIsKnown(EventOf(spec, day, draw), spec)
<1>. DEFINE event == EventOf(spec, day, draw)
            scenario == ScenarioOf(spec, day, draw)
            ss == spec.scenarios
            es == spec.events
<1>1. DOMAIN ss = 1..m /\ DOMAIN es = 1..k /\ AreChoices(ss, m) BY DEF SpecIsTyped, AreChoices
<1>2. \A i \in 1..m : ss[i].order => ss[i].product
  BY <1>1 DEF SpecLoads, ScenarioIsValid, Range
<1>3. \A j \in 1..k : /\ IsIdOf(es[j].scenario, ss)
                      /\ es[j].product # 0 => es[j].product \in {p.id : p \in Range(spec.products)}
  <2>1. \A e \in Range(es) : EventIsValid(e, spec) BY DEF SpecLoads
  <2>2. \A j \in 1..k : es[j] \in Range(es) BY <1>1 DEF Range
  <2>. QED BY <2>1, <2>2 DEF EventIsValid, IsIdOf
<1>4. scenario = IF event # <<>> THEN OfId(ss, event[1].scenario) ELSE Weighted(ss, draw.scenario)
  BY DEF ScenarioOf
<1>. HIDE DEF scenario
<1>5. CASE event = <<>>
  <2>1. draw.scenario \in Nat /\ draw.scenario < UpTo(ss, m) BY DEF IsDraw
  <2>2. PICK i \in 1..m : Weighted(ss, draw.scenario) = ss[i] BY <1>1, <2>1, OneIsDrawn
  <2>3. scenario = ss[i] BY <1>4, <1>5, <2>2
  <2>. QED BY <1>2, <1>5, <2>3 DEF ScenarioIsKnown, EventFits, ProductIsKnown, scenario
<1>6. CASE event # <<>>
  <2>1. PICK j \in 1..k : event = <<es[j]>> /\ ActiveOn(es[j], day) BY <1>1, <1>6, SelectedEvent DEF EventOf
  <2>2. event[1] = es[j] BY <2>1
  <2>3. scenario = OfId(ss, es[j].scenario) BY <1>4, <1>6, <2>2
  <2>4. OfId(ss, es[j].scenario) \in Range(ss) /\ OfId(ss, es[j].scenario).id = es[j].scenario
    <3>. HIDE DEF ss, es
    <3>1. IsIdOf(es[j].scenario, ss) BY <1>3, Zenon
    <3>. QED BY <3>1, RowOfId, Zenon
  <2>5. scenario \in Range(ss) /\ scenario.id = es[j].scenario BY <2>3, <2>4
  <2>6. PICK i \in 1..m : scenario = ss[i] BY <1>1, <2>5 DEF Range
  <2>7. ScenarioIsKnown(scenario, spec, m) BY <1>2, <2>6 DEF ScenarioIsKnown
  <2>8. EventFits(event, scenario, day, spec, k) BY <2>1, <2>5 DEF EventFits
  <2>9. es[j].product # 0 => es[j].product \in {p.id : p \in Range(spec.products)} BY <1>3
  <2>10. ProductIsKnown(event, spec) BY <2>1, <2>9 DEF ProductIsKnown
  <2>. QED BY <2>7, <2>8, <2>10 DEF scenario
<1>. QED BY <1>5, <1>6

(* A record of a specification that loads, whatever is drawn: it is of a    *)
(* scenario of the specification, and of an event only on the event's days, *)
(* in its scenario and about its product; a second product is another one;  *)
(* an order was bought before it was delivered and expected and costs what  *)
(* its products cost. Wording aside, there is no record only where a second *)
(* product is drawn and the first is the only one (generate, _select_event, *)
(* _select_product, _related_products, _operational_context).               *)
THEOREM RecordsFollowTheSpec ==
    ASSUME NEW spec, NEW n \in Nat, NEW m \in Nat, NEW k \in Nat, SpecIsTyped(spec, n, m, k),
           NEW shortest, SpecLoads(spec, shortest), NEW draw, IsDraw(draw, spec, n, m),
           NEW index, NEW count, Day(index, count, spec.days) \in Int
    PROVE  LET made == Record(spec, index, count, draw)
           IN  \/ made = <<>> /\ n = 1 /\ draw.second # 0
               \/ \E r : /\ made = <<r>> /\ r.id = index /\ r.day = Day(index, count, spec.days)
                         /\ RecordFollows(r, spec, n, m, k)
<1>. DEFINE day == Day(index, count, spec.days)
            event == EventOf(spec, day, draw)
            scenario == ScenarioOf(spec, day, draw)
            primary == PrimaryProduct(spec, scenario, event, draw)
            products == RelatedProducts(spec, scenario, primary, draw)
            context == Context(scenario, day, products[1], draw)
            made == Record(spec, index, count, draw)
            r == [id |-> index, day |-> day, channel |-> scenario.source, products |-> products[1],
                  context |-> context,
                  provenance |-> [scenario |-> scenario.id, source |-> scenario.source,
                                  event |-> IF event = <<>> THEN <<>> ELSE <<event[1].id>>,
                                  products |-> [i \in DOMAIN products[1] |-> products[1][i].id]]]
<1>1. made = IF products = <<>> THEN <<>> ELSE <<r>> BY DEF Record, EventOf, ScenarioOf
<1>. HIDE DEF day
<1>2. /\ ScenarioIsKnown(scenario, spec, m) /\ EventFits(event, scenario, day, spec, k)
       /\ ProductIsKnown(event, spec)
  BY ScenarioOfRecord
<1>. HIDE DEF event, scenario
<1>3. PICK i \in 1..m : scenario = spec.scenarios[i] /\ (scenario.order => scenario.product)
  BY <1>2 DEF ScenarioIsKnown
<1>4. \/ event = <<>>
      \/ \E j \in 1..k : /\ event = <<spec.events[j]>> /\ ActiveOn(spec.events[j], day)
                         /\ scenario.id = spec.events[j].scenario
  BY <1>2 DEF EventFits
<1>5. scenario.product \in BOOLEAN /\ scenario.order \in BOOLEAN BY <1>3 DEF SpecIsTyped
<1>6. /\ draw.product \in 1..n /\ draw.second \in Nat /\ draw.freight \in Nat /\ draw.twice \in BOOLEAN BY DEF IsDraw
<1>7. ProductsAre(spec.products, n) BY DEF SpecIsTyped
<1>8. PrimaryOf(primary, scenario, event, spec, n) BY <1>5, <1>6, <1>2, PrimaryIs
<1>9. /\ r.id = index /\ r.day = day /\ r.channel = scenario.source /\ r.products = products[1]
      /\ r.context = context /\ r.provenance.scenario = scenario.id /\ r.provenance.source = scenario.source
      /\ r.provenance.event = IF event = <<>> THEN <<>> ELSE <<event[1].id>>
  OBVIOUS
<1>10. IF scenario.order THEN \E c : context = <<c>> /\ ContextAddsUp(c, products[1]) ELSE context = <<>>
  <2>1. day \in Int BY DEF day
  <2>. HIDE DEF products
  <2>. QED BY <1>5, <2>1, ContextIs
<1>. HIDE DEF r, context, event, scenario, day, made
<1>11. \/ products = <<>> /\ scenario.order /\ draw.second # 0 /\ n = 1
       \/ /\ products # <<>>
          /\ IF scenario.product
             THEN \E j \in 1..n : /\ RelatedTo(spec.products[j], products[1], spec.products, n)
                                  /\ event # <<>> /\ event[1].product # 0 => spec.products[j].id = event[1].product
             ELSE products[1] = <<>>
  <2>1. CASE scenario.product
    <3>1. PICK j \in 1..n : /\ primary = <<spec.products[j]>>
                            /\ event # <<>> /\ event[1].product # 0 => spec.products[j].id = event[1].product
      BY <1>8, <2>1 DEF PrimaryOf
    <3>2. \/ products = <<>> /\ scenario.order /\ draw.second # 0 /\ n = 1
          \/ \E related : products = <<related>> /\ RelatedTo(spec.products[j], related, spec.products, n)
      BY <1>5, <1>6, <1>7, <3>1, RelatedIs
    <3>. HIDE DEF products
    <3>3. CASE products = <<>> BY <3>2, <3>3
    <3>4. CASE products # <<>>
      <4>1. RelatedTo(spec.products[j], products[1], spec.products, n) BY <3>2, <3>4
      <4>. QED BY <2>1, <3>1, <3>4, <4>1
    <3>. QED BY <3>3, <3>4
  <2>2. CASE ~scenario.product
    <3>1. primary = <<>> BY <1>8, <2>2 DEF PrimaryOf
    <3>2. products = <<<<>>>> BY <3>1 DEF RelatedProducts
    <3>. QED BY <2>2, <3>2
  <2>. QED BY <2>1, <2>2, <1>5
<1>. HIDE DEF products, primary
<1>12. CASE products = <<>> BY <1>1, <1>11, <1>12 DEF made
<1>13. CASE products # <<>>
  <2>1. RecordOfScenario(r, scenario, spec, n) BY <1>5, <1>9, <1>10, <1>11, <1>13 DEF RecordOfScenario
  <2>2. ASSUME event # <<>> PROVE \E j \in 1..k : RecordOfEvent(r, spec.events[j], scenario)
    <3>1. PICK j \in 1..k : /\ event = <<spec.events[j]>> /\ ActiveOn(spec.events[j], day)
                            /\ scenario.id = spec.events[j].scenario
      BY <1>4, <2>2
    <3>2. event[1] = spec.events[j] BY <3>1
    <3>3. scenario.product /\ spec.events[j].product # 0 => r.products[1].id = spec.events[j].product
      BY <1>9, <1>11, <1>13, <2>2, <3>2 DEF RelatedTo
    <3>4. r.provenance.event = <<spec.events[j].id>> /\ r.day = day BY <1>9, <2>2, <3>2
    <3>. QED BY <3>1, <3>3, <3>4 DEF RecordOfEvent
  <2>3. event = <<>> => r.provenance.event = <<>> BY <1>9
  <2>4. RecordFollows(r, spec, n, m, k) BY <1>3, <2>1, <2>2, <2>3 DEF RecordFollows
  <2>. QED BY <1>1, <1>9, <1>13, <2>4 DEF made, day
<1>. QED BY <1>12, <1>13

Apart(f, s) == \A i, j \in s : f[i] = f[j] => i = j
AsMany(f, s) == Cardinality(s) = Cardinality({f[i] : i \in s})

(* As many positions as records when records at two positions differ.       *)
LEMMA CountOfImage ==
    ASSUME NEW n \in Nat, NEW f, NEW s \in SUBSET (1..n), Apart(f, s)
    PROVE  AsMany(f, s)
<1>. DEFINE X == {f[i] : i \in s}
            g == [i \in s |-> f[i]]
<1>1. IsFiniteSet(s) BY IntervalIsFinite, FS_Subset
<1>2. g \in Bijection(s, X) BY DEF Bijection, Injection, Surjection, IsInjective, Apart
<1>3. ExistsBijection(s, X) BY <1>2 DEF ExistsBijection
<1>4. Cardinality(s) = Cardinality(X)
  <2>. HIDE DEF X
  <2>. QED BY <1>1, <1>3, FS_Bijection
<1>. QED BY <1>4 DEF AsMany

InOrder(records, n) ==
    /\ DOMAIN records = 1..n /\ Apart(records, 1..n)
    /\ \A i \in 1..n : records[i].day \in Nat
    /\ \A i \in 1..n : records[1].day <= records[i].day /\ records[i].day <= records[n].day

ManifestSays(manifest, spec, k, records, n) ==
    /\ manifest.start = records[1].day /\ manifest.end = records[n].day
    /\ DOMAIN manifest.events = 1..k
    /\ \A i \in 1..k :
          LET e == spec.events[i]
          IN  /\ manifest.events[i].id = e.id /\ manifest.events[i].start = e.start
              /\ manifest.events[i].end = IF e.duration = <<>> THEN <<>> ELSE <<e.start + e.duration[1] - 1>>
              /\ manifest.events[i].affected = Cardinality({r \in Range(records) : r.provenance.event = <<e.id>>})

(* What the manifest says of records in the order of their days.            *)
LEMMA ManifestIs ==
    ASSUME NEW spec, NEW k \in Nat, DOMAIN spec.events = 1..k, NEW n \in Nat, n > 0, NEW records, InOrder(records, n)
    PROVE  ManifestSays(Manifest(spec, records), spec, k, records, n)
<1>. DEFINE manifest == Manifest(spec, records)
            days == {r.day : r \in Range(records)}
            at(e) == {i \in 1..n : records[i].provenance.event = <<e.id>>}
            of(e) == {r \in Range(records) : r.provenance.event = <<e.id>>}
<1>1. /\ DOMAIN records = 1..n /\ \A i, j \in 1..n : records[i] = records[j] => i = j
      /\ \A i \in 1..n : records[i].day \in Nat
      /\ \A i \in 1..n : records[1].day <= records[i].day /\ records[i].day <= records[n].day
      /\ 1 \in 1..n /\ n \in 1..n
  BY DEF InOrder, Apart
<1>2. manifest.start = Min(days) /\ manifest.end = Max(days) BY DEF Manifest
<1>3. manifest.events = [i \in 1..k |->
             LET e == spec.events[i]
             IN  [id |-> e.id, start |-> e.start, affected |-> Cardinality(at(e)),
                  end |-> IF e.duration = <<>> THEN <<>> ELSE <<e.start + e.duration[1] - 1>>]]
  BY <1>1 DEF Manifest
<1>4. days = {records[i].day : i \in 1..n} BY <1>1 DEF Range
<1>. HIDE DEF days, manifest
<1>5. Min(days) = records[1].day BY <1>1, <1>4 DEF Min
<1>6. Max(days) = records[n].day BY <1>1, <1>4 DEF Max
<1>7. ASSUME NEW e PROVE Cardinality(at(e)) = Cardinality(of(e))
  <2>. DEFINE s == at(e)
  <2>1. of(e) = {records[i] : i \in s} BY <1>1 DEF Range
  <2>2. s \in SUBSET (1..n) OBVIOUS
  <2>. HIDE DEF s
  <2>3. Apart(records, s) BY <1>1, <2>2 DEF Apart
  <2>4. AsMany(records, s) BY <2>2, <2>3, CountOfImage
  <2>5. Cardinality(s) = Cardinality({records[i] : i \in s}) BY <2>4 DEF AsMany
  <2>. QED BY <2>1, <2>5 DEF s
<1>. HIDE DEF at, of
<1>8. DOMAIN manifest.events = 1..k BY <1>3
<1>9. ASSUME NEW i \in 1..k
      PROVE  LET e == spec.events[i]
             IN  /\ manifest.events[i].id = e.id /\ manifest.events[i].start = e.start
                 /\ manifest.events[i].end = IF e.duration = <<>> THEN <<>> ELSE <<e.start + e.duration[1] - 1>>
                 /\ manifest.events[i].affected = Cardinality(of(e))
  <2>. DEFINE e == spec.events[i]
  <2>1. manifest.events[i] = [id |-> e.id, start |-> e.start, affected |-> Cardinality(at(e)),
                              end |-> IF e.duration = <<>> THEN <<>> ELSE <<e.start + e.duration[1] - 1>>]
    BY <1>3
  <2>2. Cardinality(at(e)) = Cardinality(of(e)) BY <1>7
  <2>. HIDE DEF e
  <2>. QED BY <2>1, <2>2 DEF e
<1>. QED BY <1>2, <1>5, <1>6, <1>8, <1>9 DEF manifest, of, ManifestSays

-----------------------------------------------------------------------------
(* The sample that is labelled: its records, their splits, and the second   *)
(* pass                                                                     *)

(* The rows before one are finitely many.                                   *)
LEMMA BelowIs ==
    ASSUME NEW X, IsFiniteSet(X), X \subseteq Nat
    PROVE  \A c : IsFiniteSet({d \in X : d < c}) /\ Cardinality({d \in X : d < c}) \in Nat
BY FS_Subset, FS_CardinalityType

(* The n best ranked of a set are as many, or all of it, and the first.     *)
LEMMA RankedFirst ==
    ASSUME NEW X, IsFiniteSet(X), X \subseteq Nat, NEW n \in Nat
    PROVE  /\ FirstRanked(X, n) \subseteq X
           /\ Cardinality(FirstRanked(X, n)) = n \/ Cardinality(X) < n
           /\ Cardinality(FirstRanked(X, n)) = n \/ (\A c \in X : c \in FirstRanked(X, n))
           /\ \A c \in FirstRanked(X, n), d \in X : d < c => d \in FirstRanked(X, n)
<1>. DEFINE below(c) == {d \in X : d < c}
            num == [c \in X |-> Cardinality(below(c))]
            F(k) == {c \in X : num[c] < k}
            Holds(k) == Cardinality(F(k)) = k \/ (Cardinality(X) < k /\ F(k) = X)
            T0 == {k \in Nat : Holds(k)}
<1>1. \A k : FirstRanked(X, k) = F(k)
  <2>1. \A k : FirstRanked(X, k) = {c \in X : Cardinality(below(c)) < k}
    BY Zenon DEF FirstRanked, Cardinality
  <2>2. ASSUME NEW k PROVE {c \in X : Cardinality(below(c)) < k} = F(k)
    <3>. HIDE DEF below
    <3>1. \A c \in X : num[c] = Cardinality(below(c)) OBVIOUS
    <3>. QED BY <3>1
  <2>. HIDE DEF F, below
  <2>. QED BY <2>1, <2>2
<1>2. \A c \in X : IsFiniteSet(below(c)) /\ num[c] = Cardinality(below(c)) /\ num[c] \in Nat BY BelowIs
<1>3. \A c, d \in X : d < c => num[d] < num[c]
  <2>. SUFFICES ASSUME NEW c \in X, NEW d \in X, d < c PROVE num[d] < num[c]
    OBVIOUS
  <2>1. c \in Nat /\ d \in Nat BY X \subseteq Nat
  <2>2. d \in below(c) /\ d \notin below(d) BY <2>1
  <2>3. \A x \in below(d) : x \in below(c)
    <3>. SUFFICES ASSUME NEW x \in below(d) PROVE x \in below(c) OBVIOUS
    <3>1. x \in X /\ x \in Nat /\ x < d OBVIOUS
    <3>. QED BY <2>1, <3>1
  <2>. HIDE DEF below, num
  <2>4. below(d) \subseteq below(c) \ {d} BY <2>2, <2>3
  <2>5. IsFiniteSet(below(c) \ {d}) /\ Cardinality(below(c) \ {d}) = Cardinality(below(c)) - 1
    BY <1>2, <2>2, FS_RemoveElement
  <2>6. Cardinality(below(d)) <= Cardinality(below(c) \ {d}) BY <2>4, <2>5, FS_Subset
  <2>. QED BY <1>2, <2>5, <2>6
<1>4. num \in [X -> Nat] BY <1>2
<1>. HIDE DEF num, below
<1>5. \A k \in Nat : IsFiniteSet(F(k)) /\ F(k) \subseteq X BY FS_Subset
<1>6. 0 \in T0
  <2>1. F(0) = {}
    <3>1. \A c \in X : ~(num[c] < 0) BY <1>4
    <3>. QED BY <3>1
  <2>. HIDE DEF F
  <2>2. Holds(0) BY <2>1, FS_EmptySet
  <2>. QED BY <2>2
<1>7. ASSUME NEW k \in Nat, k \in T0 PROVE k + 1 \in T0
  <2>. HIDE DEF F
  <2>. SUFFICES Holds(k + 1) OBVIOUS
  <2>1. Holds(k) BY <1>7
  <2>. DEFINE rest == X \ F(k)
  <2>2. CASE rest = {}
    <3>1. F(k) = X BY <1>5, <2>2
    <3>2. F(k + 1) = X
      <4>1. \A c \in X : num[c] < k BY <3>1 DEF F
      <4>2. \A c \in X : num[c] < k + 1 BY <1>4, <4>1
      <4>. QED BY <4>2 DEF F
    <3>3. Cardinality(X) \in Nat /\ Cardinality(X) <= k BY <2>1, <3>1, FS_CardinalityType
    <3>. QED BY <3>2, <3>3
  <2>3. CASE rest # {}
    <3>1. PICK m \in rest : \A c \in rest : m <= c
      <4>1. rest \subseteq Nat /\ rest # {} BY <2>3, X \subseteq Nat
      <4>. HIDE DEF rest
      <4>. QED BY <4>1, NatLeast
    <3>2. m \in X /\ m \notin F(k) /\ m \in Nat BY <3>1
    <3>3. Cardinality(F(k)) = k BY <2>1, <3>2
    <3>4. below(m) = F(k)
      <4>1. ASSUME NEW d \in below(m) PROVE d \in F(k)
        <5>1. d \in X /\ d < m /\ d \in Nat BY <4>1 DEF below
        <5>. QED BY <3>1, <5>1
      <4>2. ASSUME NEW d \in F(k) PROVE d \in below(m)
        <5>1. d \in X /\ d \in Nat /\ num[d] < k BY <4>2 DEF F
        <5>2. ~(m < d)
          <6>1. m < d => num[m] < num[d] BY <1>3, <3>2, <5>1
          <6>2. num[m] >= k BY <1>4, <3>2 DEF F
          <6>. QED BY <1>4, <3>2, <5>1, <6>1, <6>2
        <5>3. d # m BY <3>2, <4>2
        <5>. QED BY <3>2, <5>1, <5>2, <5>3 DEF below
      <4>. QED BY <4>1, <4>2
    <3>5. F(k + 1) = F(k) \cup {m}
      <4>1. m \in F(k + 1)
        <5>1. num[m] = k BY <1>2, <3>2, <3>3, <3>4
        <5>. QED BY <3>2, <5>1 DEF F
      <4>2. F(k) \subseteq F(k + 1)
        <5>1. \A c \in X : num[c] < k => num[c] < k + 1 BY <1>4
        <5>. QED BY <5>1 DEF F
      <4>3. ASSUME NEW c \in F(k + 1), c \notin F(k) PROVE c = m
        <5>1. c \in X /\ c \in Nat /\ num[c] < k + 1 BY <4>3 DEF F
        <5>2. m <= c BY <3>1, <4>3, <5>1
        <5>3. ~(m < c)
          <6>1. num[m] = k BY <1>2, <3>2, <3>3, <3>4
          <6>2. m < c => num[m] < num[c] BY <1>3, <3>2, <5>1
          <6>. QED BY <1>4, <5>1, <6>1, <6>2
        <5>. QED BY <3>2, <5>1, <5>2, <5>3 DEF below
      <4>. QED BY <4>1, <4>2, <4>3
    <3>6. Cardinality(F(k + 1)) = k + 1 BY <1>5, <3>2, <3>3, <3>5, FS_AddElement
    <3>. QED BY <3>6
  <2>. QED BY <2>2, <2>3
<1>8. Nat \subseteq T0
  <2>. HIDE DEF T0
  <2>. QED BY <1>6, <1>7, SetInduction
<1>9. \A c \in F(n), d \in X : d < c => d \in F(n) BY <1>3, <1>4 DEF F
<1>. QED BY <1>1, <1>5, <1>8, <1>9

(* The candidates of the stratum of one of them.                            *)
StratumWith(X, of, c) == {d \in X : of[d] = of[c]}

Needed(X, rules) == UNION {TakeMinimum(X, r.of, r.minimum) : r \in rules}

(* What is needed is the best ranked of some stratum.                       *)
LEMMA NeededIs ==
    ASSUME NEW X, NEW rules
    PROVE  \A c : c \in Needed(X, rules) <=>
              \E r \in rules, b \in X : /\ r.of[b] # Unset
                                        /\ c \in FirstRanked(StratumWith(X, r.of, b), r.minimum)
<1>. DEFINE F(r, s) == FirstRanked(StratumOf(X, r.of, s), r.minimum)
<1>1. ASSUME NEW r \in rules
      PROVE  TakeMinimum(X, r.of, r.minimum) = UNION {F(r, s) : s \in Strata(X, r.of)}
  BY DEF TakeMinimum
<1>2. ASSUME NEW r \in rules, NEW b PROVE F(r, r.of[b]) = FirstRanked(StratumWith(X, r.of, b), r.minimum)
  BY DEF StratumOf, StratumWith
<1>3. ASSUME NEW r \in rules
      PROVE  \A s : s \in Strata(X, r.of) <=> s # Unset /\ \E b \in X : s = r.of[b]
  BY DEF Strata
<1>. HIDE DEF F
<1>4. ASSUME NEW c PROVE c \in Needed(X, rules) <=> \E r \in rules : \E s \in Strata(X, r.of) : c \in F(r, s)
  BY <1>1 DEF Needed
<1>5. ASSUME NEW c, NEW r \in rules
      PROVE  (\E s \in Strata(X, r.of) : c \in F(r, s)) <=>
                \E b \in X : r.of[b] # Unset /\ c \in FirstRanked(StratumWith(X, r.of, b), r.minimum)
  BY <1>2, <1>3
<1>. QED BY <1>4, <1>5

(* A selection is what is needed and the best ranked of the others, and is  *)
(* made only if there are enough candidates.                                *)
LEMMA SelectionIs ==
    ASSUME NEW X, NEW rules, NEW size, NEW chosen, Select(X, rules, size) = <<chosen>>
    PROVE  LET free == size - Cardinality(Needed(X, rules))
           IN  /\ \A r \in rules : Satisfiable(X, r.of, r.minimum)
               /\ ~(free < 0) /\ ~(Cardinality(X) < size)
               /\ chosen = Needed(X, rules) \cup FirstRanked(X \ Needed(X, rules), free)
<1>. DEFINE need == Needed(X, rules)
            free == size - Cardinality(need)
            ok == ~(\/ \E r \in rules : ~Satisfiable(X, r.of, r.minimum)
                    \/ free < 0 \/ Cardinality(X) < size)
<1>1. Select(X, rules, size) = IF ok THEN <<need \cup FirstRanked(X \ need, free)>> ELSE <<>>
  BY DEF Select, Nothing, Needed
<1>2. ok /\ need \cup FirstRanked(X \ need, free) = chosen
  <2>. DEFINE made == need \cup FirstRanked(X \ need, free)
  <2>. HIDE DEF ok, made
  <2>1. <<chosen>> = IF ok THEN <<made>> ELSE <<>> BY <1>1 DEF made
  <2>2. ok BY <2>1
  <2>3. <<chosen>> = <<made>> BY <2>1, <2>2
  <2>4. chosen = made BY <2>3
  <2>. QED BY <2>2, <2>4 DEF made
<1>. QED BY <1>2 DEF free

(* Every stratum that has enough candidates has them.                       *)
LEMMA StratumHasEnough ==
    ASSUME NEW X, NEW of, NEW minimum, Satisfiable(X, of, minimum), NEW b \in X, of[b] # Unset
    PROVE  Cardinality(StratumWith(X, of, b)) >= minimum
<1>1. of[b] \in Strata(X, of) BY DEF Strata
<1>2. Cardinality(StratumOf(X, of, of[b])) >= minimum BY <1>1 DEF Satisfiable
<1>3. StratumOf(X, of, of[b]) = StratumWith(X, of, b) BY DEF StratumOf, StratumWith
<1>. QED BY <1>2, <1>3

(* Up to one of the n best ranked of a set there are at most n.             *)
LEMMA RankOfFirst ==
    ASSUME NEW X, IsFiniteSet(X), X \subseteq Nat, NEW n \in Nat, NEW c \in FirstRanked(X, n)
    PROVE  Cardinality({e \in X : e <= c}) <= n
<1>. DEFINE up == {e \in X : e <= c}
            F == FirstRanked(X, n)
<1>1. F \subseteq X /\ \A d \in X : d < c => d \in F BY RankedFirst
<1>2. \A d \in X : d \in Nat BY X \subseteq Nat
<1>3. up \subseteq F
  <2>. SUFFICES ASSUME NEW e \in up PROVE e \in F OBVIOUS
  <2>1. e \in X /\ e <= c /\ e \in Nat /\ c \in Nat BY <1>1, <1>2
  <2>2. e = c \/ e < c BY <2>1
  <2>. QED BY <1>1, <2>1, <2>2
<1>. HIDE DEF up, F
<1>4. IsFiniteSet(F) BY <1>1, FS_Subset
<1>5. Cardinality(up) <= Cardinality(F) /\ Cardinality(up) \in Nat
  BY <1>3, <1>4, FS_Subset, FS_CardinalityType
<1>6. Cardinality(F) <= n /\ Cardinality(F) \in Nat
  <2>1. Cardinality(F) = n \/ (Cardinality(X) < n /\ F = X) BY RankedFirst DEF F
  <2>2. Cardinality(X) \in Nat /\ Cardinality(F) \in Nat BY <1>4, FS_CardinalityType
  <2>. QED BY <2>1, <2>2
<1>. QED BY <1>5, <1>6 DEF up

(* A stratum needs a record whose rank in it is within its minimum.         *)
IsNeeded(X, rules, c) ==
    \E r \in rules : /\ r.of[c] # Unset
                     /\ Cardinality({e \in StratumWith(X, r.of, c) : e <= c}) <= r.minimum

(* A sample that is selected has its size and the minimum of every stratum, *)
(* and leaves out no candidate for a worse ranked one that no stratum needs,*)
(* whatever the candidates, strata and minima (_select, _take_minimum).     *)
THEOREM SelectionKeepsStrata ==
    ASSUME NEW X, IsFiniteSet(X), X \subseteq Nat, NEW rules, \A r \in rules : r.minimum \in Nat,
           NEW size \in Nat, NEW chosen, Select(X, rules, size) = <<chosen>>
    PROVE  /\ chosen \subseteq X /\ Cardinality(chosen) = size
           /\ \A r \in rules, c \in X : r.of[c] # Unset =>
                 Cardinality(StratumWith(X, r.of, c) \cap chosen) >= r.minimum
           /\ \A c \in chosen, d \in X \ chosen : d < c => IsNeeded(X, rules, c)
<1>. DEFINE need == Needed(X, rules)
            free == size - Cardinality(need)
            rest == X \ need
            F(r, b) == FirstRanked(StratumWith(X, r.of, b), r.minimum)
<1>1. /\ \A r \in rules : Satisfiable(X, r.of, r.minimum)
      /\ ~(free < 0) /\ ~(Cardinality(X) < size)
      /\ chosen = need \cup FirstRanked(rest, free)
  BY SelectionIs
<1>2. ASSUME NEW r \in rules, NEW b \in X
      PROVE  /\ IsFiniteSet(StratumWith(X, r.of, b)) /\ StratumWith(X, r.of, b) \subseteq Nat
             /\ StratumWith(X, r.of, b) \subseteq X /\ b \in StratumWith(X, r.of, b)
  BY FS_Subset DEF StratumWith
<1>3. ASSUME NEW r \in rules, NEW b \in X PROVE F(r, b) \subseteq StratumWith(X, r.of, b)
  BY <1>2, RankedFirst
<1>4. \A c : c \in need <=> \E r \in rules, b \in X : r.of[b] # Unset /\ c \in F(r, b)
  BY NeededIs
<1>. HIDE DEF need, F
<1>5. need \subseteq X BY <1>2, <1>3, <1>4
<1>6. IsFiniteSet(need) /\ IsFiniteSet(rest) /\ rest \subseteq Nat /\ Cardinality(need) \in Nat /\ Cardinality(X) \in Nat
      /\ Cardinality(rest) = Cardinality(X) - Cardinality(need)
  <2>1. IsFiniteSet(need) /\ IsFiniteSet(rest) BY <1>5, FS_Subset
  <2>2. X \cap need = need BY <1>5
  <2>3. Cardinality(rest) = Cardinality(X) - Cardinality(X \cap need) BY <2>1, FS_Difference
  <2>. QED BY <2>1, <2>2, <2>3, FS_CardinalityType
<1>7. free \in Nat BY <1>1, <1>6
<1>8. /\ FirstRanked(rest, free) \subseteq rest
      /\ Cardinality(FirstRanked(rest, free)) = free \/ Cardinality(rest) < free
      /\ \A c \in FirstRanked(rest, free), d \in rest : d < c => d \in FirstRanked(rest, free)
  <2>. HIDE DEF rest, free
  <2>. QED BY <1>6, <1>7, RankedFirst
<1>9. Cardinality(FirstRanked(rest, free)) = free
  <2>1. free = size - Cardinality(need) OBVIOUS
  <2>2. ~(Cardinality(X) < size) BY <1>1
  <2>3. Cardinality(rest) = Cardinality(X) - Cardinality(need) BY <1>6
  <2>. HIDE DEF free, rest
  <2>4. ~(Cardinality(rest) < free) BY <1>6, <2>1, <2>2, <2>3
  <2>. QED BY <1>8, <2>4
<1>10. chosen \subseteq X /\ Cardinality(chosen) = size
  <2>. DEFINE G0 == FirstRanked(rest, free)
  <2>1. chosen \subseteq X BY <1>1, <1>5, <1>8
  <2>2. IsFiniteSet(G0) /\ need \cap G0 = {}
    <3>1. G0 \subseteq rest /\ rest \cap need = {} BY <1>8
    <3>. HIDE DEF G0, rest
    <3>. QED BY <1>6, <3>1, FS_Subset
  <2>3. chosen = need \cup G0 /\ Cardinality(G0) = free BY <1>1, <1>9
  <2>. HIDE DEF G0, free
  <2>4. Cardinality(chosen) = Cardinality(need) + Cardinality(G0) - Cardinality({})
    <3>1. IsFiniteSet(need) BY <1>6
    <3>2. Cardinality(need \cup G0) = Cardinality(need) + Cardinality(G0) - Cardinality(need \cap G0)
      BY <2>2, <3>1, FS_Union
    <3>. QED BY <2>2, <2>3, <3>2
  <2>5. Cardinality({}) = 0 BY FS_EmptySet
  <2>. QED BY <1>6, <1>7, <2>1, <2>3, <2>4, <2>5 DEF free
<1>11. ASSUME NEW r \in rules, NEW c \in X, r.of[c] # Unset
       PROVE  Cardinality(StratumWith(X, r.of, c) \cap chosen) >= r.minimum
  <2>. DEFINE s == StratumWith(X, r.of, c)
  <2>1. Cardinality(s) >= r.minimum BY <1>1, <1>11, StratumHasEnough
  <2>2. IsFiniteSet(s) /\ s \subseteq Nat /\ r.minimum \in Nat BY <1>2
  <2>3. Cardinality(F(r, c)) = r.minimum \/ Cardinality(s) < r.minimum BY <2>2, RankedFirst DEF F
  <2>4. Cardinality(s) \in Nat BY <2>2, FS_CardinalityType
  <2>5. F(r, c) \subseteq s \cap chosen
    <3>1. F(r, c) \subseteq need BY <1>4, <1>11
    <3>. QED BY <1>1, <1>3, <3>1
  <2>. HIDE DEF s
  <2>6. IsFiniteSet(s \cap chosen) BY <2>2, FS_Subset
  <2>7. Cardinality(F(r, c)) <= Cardinality(s \cap chosen) BY <2>5, <2>6, FS_Subset
  <2>8. Cardinality(s \cap chosen) \in Nat BY <2>6, FS_CardinalityType
  <2>. QED BY <2>1, <2>2, <2>3, <2>4, <2>7, <2>8 DEF s
<1>12. ASSUME NEW c \in chosen, NEW d \in X \ chosen, d < c
       PROVE  IsNeeded(X, rules, c)
  <2>1. c \in need BY <1>1, <1>8, <1>12
  <2>2. PICK r \in rules, b \in X : r.of[b] # Unset /\ c \in F(r, b) BY <1>4, <2>1
  <2>3. r.of[c] = r.of[b] BY <1>3, <2>2 DEF StratumWith
  <2>4. StratumWith(X, r.of, c) = StratumWith(X, r.of, b) BY <2>3 DEF StratumWith
  <2>5. c \in FirstRanked(StratumWith(X, r.of, c), r.minimum) BY <2>2, <2>4 DEF F
  <2>6. c \in X BY <1>10
  <2>7. Cardinality({e \in StratumWith(X, r.of, c) : e <= c}) <= r.minimum
    BY <1>2, <2>5, <2>6, RankOfFirst
  <2>. QED BY <2>2, <2>3, <2>7 DEF IsNeeded
<1>. QED BY <1>10, <1>11, <1>12

(* Three targets, as many rows as they are together (SPLIT_TARGETS).        *)
SplitsOf(targets) == targets \in [1..3 -> Nat \ {0}]
TotalOf(targets) == targets[1] + targets[2] + targets[3]

(* No split is further from its target than another one was before its last *)
(* row.                                                                     *)
Fair(counts, targets) ==
    /\ counts \in [1..3 -> Nat]
    /\ \A s \in 1..3 : counts[s] <= targets[s]
    /\ \A s, t \in 1..3 : (counts[s] - 1) * targets[t] <= counts[t] * targets[s]

(* While rows are left, a split has room, and one of those with the least   *)
(* share of its target comes first.                                         *)
LEMMA NextSplitIs ==
    ASSUME NEW targets, SplitsOf(targets), NEW counts \in [1..3 -> Nat], NEW r \in 1..3, counts[r] < targets[r]
    PROVE  LET s == NextSplit(counts, targets)
           IN  /\ s \in 1..3 /\ counts[s] < targets[s]
               /\ \A t \in 1..3 : counts[t] < targets[t] => counts[s] * targets[t] <= counts[t] * targets[s]
<1>. DEFINE free(s) == counts[s] < targets[s]
            before(s, t) == \/ counts[s] * targets[t] < counts[t] * targets[s]
                            \/ counts[s] * targets[t] = counts[t] * targets[s] /\ s <= t
            first(s) == free(s) /\ \A t \in 1..3 : free(t) => before(s, t)
<1>1. \A s \in 1..3 : counts[s] \in Nat /\ targets[s] \in Nat /\ targets[s] > 0 BY DEF SplitsOf
<1>2. \A s \in 1..3 : before(s, s) BY <1>1
<1>3. \A s, t \in 1..3 : before(s, t) \/ before(t, s)
  <2>. SUFFICES ASSUME NEW s \in 1..3, NEW t \in 1..3 PROVE before(s, t) \/ before(t, s) OBVIOUS
  <2>1. counts[s] * targets[t] \in Nat /\ counts[t] * targets[s] \in Nat BY <1>1
  <2>. QED BY <2>1
<1>4. \A s, t, u \in 1..3 : before(s, t) /\ before(t, u) => before(s, u)
  <2>. SUFFICES ASSUME NEW s \in 1..3, NEW t \in 1..3, NEW u \in 1..3, before(s, t), before(t, u)
                PROVE  before(s, u)
    OBVIOUS
  <2>. DEFINE a == counts[s]  b == counts[t]  c == counts[u]
              x == targets[s]  y == targets[t]  z == targets[u]
  <2>1. a \in Nat /\ b \in Nat /\ c \in Nat /\ x \in Nat /\ y \in Nat /\ z \in Nat /\ x > 0 /\ y > 0 /\ z > 0 BY <1>1
  <2>2. a * y < b * x \/ (a * y = b * x /\ s <= t) OBVIOUS
  <2>3. b * z < c * y \/ (b * z = c * y /\ t <= u) OBVIOUS
  <2>4. before(s, u) <=> (a * z < c * x \/ (a * z = c * x /\ s <= u)) OBVIOUS
  <2>. HIDE DEF a, b, c, x, y, z, before
  <2>5. (a * y) * z <= (b * x) * z /\ (b * z) * x <= (c * y) * x BY <2>1, <2>2, <2>3
  <2>6. (a * z) * y <= (c * x) * y BY <2>1, <2>5
  <2>7. a * z <= c * x BY <2>1, <2>6
  <2>8. a * z = c * x => a * y = b * x /\ b * z = c * y
    <3>. SUFFICES ASSUME a * z = c * x PROVE a * y = b * x /\ b * z = c * y OBVIOUS
    <3>1. (a * y) * z = (b * x) * z
      <4>1. (a * z) * y = (c * x) * y OBVIOUS
      <4>. QED BY <2>1, <2>5, <4>1
    <3>2. a * y = b * x BY <2>1, <3>1
    <3>3. (b * z) * x = (c * y) * x
      <4>1. (a * z) * y = (c * x) * y OBVIOUS
      <4>. QED BY <2>1, <2>5, <4>1
    <3>4. b * z = c * y BY <2>1, <3>3
    <3>. QED BY <3>2, <3>4
  <2>9. a * z \in Nat /\ c * x \in Nat BY <2>1
  <2>10. a * y = b * x => ~(a * y < b * x) BY <2>1
  <2>11. b * z = c * y => ~(b * z < c * y) BY <2>1
  <2>12. a * z = c * x => s <= t /\ t <= u BY <2>2, <2>3, <2>8, <2>10, <2>11
  <2>13. s <= t /\ t <= u => s <= u OBVIOUS
  <2>14. a * z < c * x \/ a * z = c * x
    <3>. DEFINE v == a * z  w == c * x
    <3>. HIDE DEF v, w
    <3>1. v \in Nat /\ w \in Nat /\ v <= w BY <2>7, <2>9 DEF v, w
    <3>2. v < w \/ v = w BY <3>1
    <3>. QED BY <3>2 DEF v, w
  <2>. QED BY <2>4, <2>12, <2>13, <2>14
<1>. HIDE DEF before
<1>5. \E s \in 1..3 : first(s)
  <2>1. 1..3 = {1, 2, 3} OBVIOUS
  <2>2. free(r) /\ r \in {1, 2, 3} BY <2>1
  <2>. HIDE DEF free
  <2>. QED BY <1>2, <1>3, <1>4, <2>1, <2>2
<1>6. DOMAIN targets = 1..3 BY DEF SplitsOf
<1>7. NextSplit(counts, targets) = CHOOSE s \in 1..3 : first(s) BY <1>6 DEF NextSplit, before
<1>8. NextSplit(counts, targets) \in 1..3 /\ first(NextSplit(counts, targets))
  <2>. HIDE DEF first
  <2>. QED BY <1>5, <1>7
<1>. DEFINE n == NextSplit(counts, targets)
<1>9. ASSUME NEW t \in 1..3, counts[t] < targets[t] PROVE counts[n] * targets[t] <= counts[t] * targets[n]
  <2>1. before(n, t) /\ n \in 1..3 BY <1>8, <1>9
  <2>. HIDE DEF n
  <2>2. counts[n] * targets[t] \in Nat /\ counts[t] * targets[n] \in Nat BY <1>1, <2>1
  <2>. QED BY <2>1, <2>2 DEF before
<1>. QED BY <1>8, <1>9

(* Fairness is kept by giving a row to the next split.                      *)
LEMMA FairStays ==
    ASSUME NEW targets, SplitsOf(targets), NEW counts, Fair(counts, targets), NEW r \in 1..3, counts[r] < targets[r]
    PROVE  LET s == NextSplit(counts, targets)
           IN  s \in 1..3 /\ Fair([counts EXCEPT ![s] = @ + 1], targets)
<1>. DEFINE n == NextSplit(counts, targets)
            next == [counts EXCEPT ![n] = @ + 1]
<1>1. counts \in [1..3 -> Nat] /\ \A s \in 1..3 : targets[s] \in Nat /\ targets[s] > 0 BY DEF Fair, SplitsOf
<1>2. n \in 1..3 /\ counts[n] < targets[n]
      /\ \A t \in 1..3 : counts[t] < targets[t] => counts[n] * targets[t] <= counts[t] * targets[n]
  BY <1>1, NextSplitIs
<1>. HIDE DEF n
<1>3. next \in [1..3 -> Nat] /\ next[n] = counts[n] + 1 /\ \A t \in 1..3 : t # n => next[t] = counts[t] BY <1>1, <1>2
<1>. HIDE DEF next
<1>4. ASSUME NEW s \in 1..3 PROVE next[s] <= targets[s] BY <1>1, <1>2, <1>3, <1>4 DEF Fair
<1>5. ASSUME NEW s \in 1..3, NEW t \in 1..3 PROVE (next[s] - 1) * targets[t] <= next[t] * targets[s]
  <2>1. counts[s] \in Nat /\ counts[t] \in Nat /\ counts[n] \in Nat /\ targets[s] \in Nat /\ targets[t] \in Nat
        /\ targets[s] > 0 /\ targets[t] > 0 /\ targets[n] \in Nat BY <1>1, <1>2
  <2>2. (counts[s] - 1) * targets[t] <= counts[t] * targets[s] BY DEF Fair
  <2>3. CASE s # n /\ t # n BY <1>3, <2>2, <2>3
  <2>4. CASE s # n /\ t = n
    <3>1. (counts[t] + 1) * targets[s] = counts[t] * targets[s] + targets[s] BY <2>1
    <3>. QED BY <1>3, <2>1, <2>2, <2>4, <3>1
  <2>5. CASE s = n /\ t # n
    <3>1. next[s] - 1 = counts[s] /\ next[t] = counts[t] BY <1>3, <2>1, <2>5
    <3>2. CASE counts[t] < targets[t] BY <1>2, <2>5, <3>1, <3>2
    <3>3. CASE ~(counts[t] < targets[t])
      <4>1. counts[t] = targets[t] BY <2>1, <3>3 DEF Fair
      <4>2. counts[s] <= targets[s] BY DEF Fair
      <4>3. counts[s] * targets[t] <= targets[s] * targets[t] BY <2>1, <4>2
      <4>4. targets[s] * targets[t] = targets[t] * targets[s] BY <2>1
      <4>. QED BY <3>1, <4>1, <4>3, <4>4
    <3>. QED BY <3>2, <3>3
  <2>6. CASE s = n /\ t = n
    <3>1. next[s] - 1 = counts[s] /\ next[t] = counts[s] + 1 /\ t = s BY <1>3, <2>1, <2>6
    <3>2. counts[s] * targets[s] <= (counts[s] + 1) * targets[s] BY <2>1
    <3>. QED BY <3>1, <3>2
  <2>. QED BY <2>3, <2>4, <2>5, <2>6
<1>6. Fair(next, targets) BY <1>3, <1>4, <1>5 DEF Fair
<1>. QED BY <1>2, <1>6 DEF n, next

(* One row more (_assign_splits).                                           *)
GiveRow(w, targets) ==
    LET split == NextSplit(w.counts, targets)
    IN  [counts |-> [w.counts EXCEPT ![split] = @ + 1], splits |-> Append(w.splits, split)]

NoRows(targets) == [counts |-> [s \in DOMAIN targets |-> 0], splits |-> <<>>]

IsAssignment(h, rows, targets) ==
    /\ h[0] = NoRows(targets)
    /\ \A k \in 1..rows : h[k] = GiveRow(h[k - 1], targets)

(* Splits, and whatever is chosen when none has room.                       *)
SplitNames(targets) == (1..3) \cup {NextSplit(c, targets) : c \in [1..3 -> Nat]}
SplitStates(targets) == [counts : [1..3 -> Nat], splits : Seq(SplitNames(targets))]

(* A step of the assignment keeps the types of its state.                   *)
LEMMA GiveRowType ==
    ASSUME NEW targets, NEW w \in SplitStates(targets)
    PROVE  GiveRow(w, targets) \in SplitStates(targets)
<1>. DEFINE split == NextSplit(w.counts, targets)
            counts == [w.counts EXCEPT ![split] = @ + 1]
            splits == Append(w.splits, split)
<1>1. w.counts \in [1..3 -> Nat] /\ w.splits \in Seq(SplitNames(targets)) BY DEF SplitStates
<1>2. split \in SplitNames(targets) BY <1>1 DEF SplitNames
<1>. HIDE DEF split
<1>3. counts \in [1..3 -> Nat]
  <2>1. CASE split \in 1..3
    <3>1. w.counts[split] + 1 \in Nat BY <1>1, <2>1
    <3>. QED BY <1>1, <3>1
  <2>2. CASE split \notin 1..3
    <3>1. counts = w.counts BY <1>1, <2>2
    <3>. QED BY <1>1, <3>1
  <2>. QED BY <2>1, <2>2
<1>4. splits \in Seq(SplitNames(targets)) BY <1>1, <1>2
<1>. HIDE DEF counts, splits
<1>5. [counts |-> counts, splits |-> splits] \in SplitStates(targets) BY <1>3, <1>4 DEF SplitStates
<1>. QED BY <1>5 DEF GiveRow, split, counts, splits

(* The assignment gives one row after the other.                            *)
LEMMA AssignmentFold ==
    ASSUME NEW targets, SplitsOf(targets), NEW rows \in Nat
    PROVE  \E h : IsAssignment(h, rows, targets) /\ AssignSplits(rows, targets) = h[rows].splits
<1>. DEFINE n == rows
            W == SplitStates(targets)
            base == NoRows(targets)
            step == [k \in 1..n |-> [w \in W |-> GiveRow(w, targets)]]
            Eq(g) == g = [s \in SUBSET (1..n) |-> IF s = {} THEN base
                                ELSE GiveRow(g[s \ {Max(s)}], targets)]
            iter == CHOOSE g : Eq(g)
            h == [k \in 0..n |-> iter[1..k]]
<1>1. DOMAIN [i \in 1..n |-> i] = 1..n OBVIOUS
<1>2. step \in [1..n -> [W -> W]] BY GiveRowType
<1>3. IsFiniteSet(1..n) /\ Picks(MaxPick(n), 1..n) BY MaxPicks, IntervalIsFinite
<1>4. base \in W
  <2>1. DOMAIN targets = 1..3 BY DEF SplitsOf
  <2>2. [s \in DOMAIN targets |-> 0] \in [1..3 -> Nat] BY <2>1
  <2>3. <<>> \in Seq(SplitNames(targets)) OBVIOUS
  <2>. QED BY <2>2, <2>3 DEF NoRows, SplitStates
<1>5. PICK g \in [SUBSET (1..n) -> W] : IsFold(g, base, step, MaxPick(n), 1..n)
  <2>. HIDE DEF n, step, W, base
  <2>. QED BY <1>2, <1>3, <1>4, FoldExists
<1>6. \A s \in SUBSET (1..n) : s # {} => Max(s) \in 1..n /\ s \ {Max(s)} \in SUBSET (1..n)
  BY MaxOfSubset
<1>7. ASSUME NEW s \in SUBSET (1..n), s # {}
      PROVE  g[s] = GiveRow(g[s \ {Max(s)}], targets)
  <2>1. g[s] = step[Max(s)][g[s \ {Max(s)}]] BY <1>5, <1>7 DEF IsFold, MaxPick
  <2>2. Max(s) \in 1..n /\ g[s \ {Max(s)}] \in W BY <1>5, <1>6, <1>7
  <2>. HIDE DEF W
  <2>. QED BY <2>1, <2>2
<1>8. Eq(g)
  <2>. HIDE DEF n, base, W
  <2>1. g[{}] = base BY <1>5 DEF IsFold
  <2>. QED BY <1>5, <1>7, <2>1
<1>9. Eq(iter)
  <2>. HIDE DEF Eq
  <2>. QED BY <1>8
<1>10. AssignSplits(rows, targets) = iter[1..n].splits
  BY <1>1 DEF AssignSplits, FoldLeft, MapThenFoldSet, GiveRow, NoRows
<1>11. iter[{}] = base BY <1>9
<1>12. ASSUME NEW k \in 1..n PROVE iter[1..k] = GiveRow(iter[1..(k - 1)], targets)
  <2>1. Max(1..k) = k /\ (1..k) \ {k} = 1..(k - 1) /\ 1..k # {} /\ 1..k \in SUBSET (1..n)
    BY MaxOfPrefix
  <2>2. Max(1..k) = k BY <1>6, <2>1
  <2>. HIDE DEF iter, base
  <2>. QED BY <1>9, <2>1, <2>2
<1>. HIDE DEF iter, base
<1>13. h[0] = base /\ h[n] = iter[1..n] /\ \A k \in 1..n : h[k] = GiveRow(h[k - 1], targets)
  BY <1>11, <1>12
<1>14. IsAssignment(h, rows, targets) BY <1>13 DEF IsAssignment, base
<1>. QED BY <1>10, <1>13, <1>14

(* The split of the k-th row of an assignment.                              *)
SplitAt(h, targets, k) == NextSplit(h[k - 1].counts, targets)
RowsGivenTo(h, targets, s, k) == {j \in 1..k : SplitAt(h, targets, j) = s}

(* What holds of an assignment after k rows.                                *)
AssignedUpTo(h, targets, k) ==
    /\ Fair(h[k].counts, targets)
    /\ h[k].counts[1] + h[k].counts[2] + h[k].counts[3] = k
    /\ \A j \in 1..k : SplitAt(h, targets, j) \in 1..3
    /\ h[k].splits = [j \in 1..k |-> SplitAt(h, targets, j)]
    /\ \A s \in 1..3 : h[k].counts[s] = Cardinality(RowsGivenTo(h, targets, s, k))

(* As long as rows are fewer than the targets together, one has room.       *)
LEMMA RoomIsLeft ==
    ASSUME NEW targets, SplitsOf(targets), NEW counts \in [1..3 -> Nat],
           counts[1] + counts[2] + counts[3] < TotalOf(targets)
    PROVE  \E r \in 1..3 : counts[r] < targets[r]
<1>1. counts[1] \in Nat /\ counts[2] \in Nat /\ counts[3] \in Nat BY 1 \in 1..3, 2 \in 1..3, 3 \in 1..3
<1>2. targets[1] \in Nat /\ targets[2] \in Nat /\ targets[3] \in Nat BY 1 \in 1..3, 2 \in 1..3, 3 \in 1..3 DEF SplitsOf
<1>3. counts[1] < targets[1] \/ counts[2] < targets[2] \/ counts[3] < targets[3] BY <1>1, <1>2 DEF TotalOf
<1>. QED BY <1>3

(* The rows of a split are those before and perhaps the last.               *)
LEMMA RowsOfNext ==
    ASSUME NEW h, NEW targets, NEW s, NEW k \in Nat
    PROVE  Cardinality(RowsGivenTo(h, targets, s, k + 1)) =
              Cardinality(RowsGivenTo(h, targets, s, k)) + (IF SplitAt(h, targets, k + 1) = s THEN 1 ELSE 0)
<1>. DEFINE X == RowsGivenTo(h, targets, s, k)
            Y == RowsGivenTo(h, targets, s, k + 1)
<1>1. IsFiniteSet(X) /\ k + 1 \notin X
  <2>1. X \subseteq 1..k BY DEF RowsGivenTo
  <2>2. IsFiniteSet(1..k) BY IntervalIsFinite
  <2>3. k + 1 \notin 1..k OBVIOUS
  <2>. HIDE DEF X
  <2>4. IsFiniteSet(X) BY <2>1, <2>2, FS_Subset
  <2>. QED BY <2>1, <2>3, <2>4
<1>2. 1..(k + 1) = (1..k) \cup {k + 1} OBVIOUS
<1>3. CASE SplitAt(h, targets, k + 1) = s
  <2>1. Y = X \cup {k + 1} BY <1>2, <1>3 DEF RowsGivenTo
  <2>. HIDE DEF X, Y
  <2>2. Cardinality(Y) = Cardinality(X) + 1 BY <1>1, <2>1, FS_AddElement
  <2>. QED BY <1>3, <2>2 DEF X, Y
<1>4. CASE SplitAt(h, targets, k + 1) # s
  <2>1. Y = X BY <1>2, <1>4 DEF RowsGivenTo
  <2>2. Cardinality(X) \in Nat BY <1>1, FS_CardinalityType
  <2>. HIDE DEF X, Y
  <2>3. Cardinality(Y) = Cardinality(X) + 0 BY <2>1, <2>2
  <2>. QED BY <1>4, <2>3 DEF X, Y
<1>. QED BY <1>3, <1>4

(* An assignment of no more rows than the targets together stays fair.      *)
LEMMA AssignmentHolds ==
    ASSUME NEW targets, SplitsOf(targets),
           NEW rows \in Nat, rows <= TotalOf(targets), NEW h, IsAssignment(h, rows, targets)
    PROVE  \A k \in 0..rows : AssignedUpTo(h, targets, k)
<1>. DEFINE T0 == {k \in Nat : k <= rows => AssignedUpTo(h, targets, k)}
<1>1. \A s \in 1..3 : targets[s] \in Nat /\ targets[s] > 0 BY DEF SplitsOf
<1>2. TotalOf(targets) \in Nat BY <1>1 DEF TotalOf
<1>3. AssignedUpTo(h, targets, 0)
  <2>. DEFINE none == [s \in 1..3 |-> 0]
  <2>1. h[0] = NoRows(targets) /\ DOMAIN targets = 1..3 BY DEF IsAssignment, SplitsOf
  <2>2. h[0].counts = none /\ h[0].splits = <<>> BY <2>1 DEF NoRows
  <2>3. Fair(none, targets)
    <3>1. none \in [1..3 -> Nat] /\ \A s \in 1..3 : none[s] = 0 OBVIOUS
    <3>. HIDE DEF none
    <3>2. \A s \in 1..3 : none[s] <= targets[s] BY <1>1, <3>1
    <3>3. \A s, t \in 1..3 : (0 - 1) * targets[t] <= 0 * targets[s] BY <1>1
    <3>4. \A s, t \in 1..3 : (none[s] - 1) * targets[t] <= none[t] * targets[s] BY <3>1, <3>3
    <3>. QED BY <3>1, <3>2, <3>4 DEF Fair
  <2>4. none[1] + none[2] + none[3] = 0 OBVIOUS
  <2>5. [j \in 1..0 |-> SplitAt(h, targets, j)] = <<>> OBVIOUS
  <2>6. \A s \in 1..3 : none[s] = Cardinality(RowsGivenTo(h, targets, s, 0))
    <3>1. \A s : RowsGivenTo(h, targets, s, 0) = {} BY DEF RowsGivenTo
    <3>2. Cardinality({}) = 0 BY FS_EmptySet
    <3>. QED BY SMTT(30), <3>1, <3>2
  <2>. HIDE DEF none
  <2>. QED BY <2>2, <2>3, <2>4, <2>5, <2>6 DEF AssignedUpTo
<1>4. ASSUME NEW k \in Nat, k \in T0 PROVE k + 1 \in T0
  <2>. SUFFICES ASSUME k + 1 <= rows PROVE AssignedUpTo(h, targets, k + 1) OBVIOUS
  <2>. DEFINE c == h[k].counts
              n == SplitAt(h, targets, k + 1)
              d == [c EXCEPT ![n] = @ + 1]
  <2>1. AssignedUpTo(h, targets, k) BY <1>4
  <2>2. c \in [1..3 -> Nat] /\ Fair(c, targets) /\ c[1] + c[2] + c[3] = k BY <2>1 DEF AssignedUpTo, Fair
  <2>3. (k + 1) - 1 = k /\ k + 1 \in 1..rows OBVIOUS
  <2>4. n = NextSplit(c, targets) BY <2>3 DEF SplitAt
  <2>5. h[k + 1].counts = d /\ h[k + 1].splits = Append(h[k].splits, n)
    <3>1. h[k + 1] = GiveRow(h[k], targets) BY <2>3 DEF IsAssignment
    <3>. QED BY <2>4, <3>1 DEF GiveRow
  <2>6. PICK r \in 1..3 : c[r] < targets[r]
    <3>1. c[1] + c[2] + c[3] < TotalOf(targets) BY <1>2, <2>2
    <3>. HIDE DEF c
    <3>. QED BY <2>2, <3>1, RoomIsLeft
  <2>7. n \in 1..3 /\ Fair(d, targets)
    <3>. HIDE DEF c
    <3>1. NextSplit(c, targets) \in 1..3 /\ Fair([c EXCEPT ![NextSplit(c, targets)] = @ + 1], targets)
      BY <2>2, <2>6, FairStays
    <3>. HIDE DEF n
    <3>. QED BY <2>4, <3>1
  <2>. HIDE DEF c, n
  <2>8. d[1] + d[2] + d[3] = k + 1
    <3>1. c[1] \in Nat /\ c[2] \in Nat /\ c[3] \in Nat BY <2>2, 1 \in 1..3, 2 \in 1..3, 3 \in 1..3
    <3>2. n = 1 \/ n = 2 \/ n = 3 BY <2>7
    <3>3. \A s \in 1..3 : d[s] = IF s = n THEN c[s] + 1 ELSE c[s] BY <2>2, <2>7
    <3>4. d[1] = (IF n = 1 THEN c[1] + 1 ELSE c[1]) /\ d[2] = (IF n = 2 THEN c[2] + 1 ELSE c[2])
          /\ d[3] = (IF n = 3 THEN c[3] + 1 ELSE c[3]) BY <3>3, 1 \in 1..3, 2 \in 1..3, 3 \in 1..3
    <3>. HIDE DEF d
    <3>. QED BY <2>2, <3>1, <3>2, <3>4
  <2>9. \A j \in 1..(k + 1) : SplitAt(h, targets, j) \in 1..3
    <3>1. \A j \in 1..k : SplitAt(h, targets, j) \in 1..3 BY <2>1 DEF AssignedUpTo
    <3>2. \A j \in 1..(k + 1) : j \in 1..k \/ j = k + 1 OBVIOUS
    <3>. QED BY <2>7, <3>1, <3>2 DEF n
  <2>10. h[k + 1].splits = [j \in 1..(k + 1) |-> SplitAt(h, targets, j)]
    <3>. DEFINE p == [j \in 1..k |-> SplitAt(h, targets, j)]
                q == [j \in 1..(k + 1) |-> SplitAt(h, targets, j)]
    <3>1. h[k].splits = p BY <2>1 DEF AssignedUpTo
    <3>2. p \in Seq(1..3) /\ Len(p) = k BY <2>1 DEF AssignedUpTo
    <3>3. q \in Seq(1..3) /\ Len(q) = k + 1 BY <2>9
    <3>4. \A j \in 1..k : q[j] = p[j] OBVIOUS
    <3>5. q[k + 1] = n BY DEF n
    <3>. HIDE DEF p, q
    <3>6. Append(p, n) \in Seq(1..3) /\ Len(Append(p, n)) = k + 1
          /\ \A j \in 1..(k + 1) : Append(p, n)[j] = IF j = k + 1 THEN n ELSE p[j] BY <2>7, <3>2
    <3>7. \A j \in 1..(k + 1) : q[j] = Append(p, n)[j] BY <3>4, <3>5, <3>6
    <3>8. q = Append(p, n) BY <3>3, <3>6, <3>7
    <3>. QED BY <2>5, <3>1, <3>8 DEF q
  <2>11. \A s \in 1..3 : d[s] = Cardinality(RowsGivenTo(h, targets, s, k + 1))
    <3>. SUFFICES ASSUME NEW s \in 1..3 PROVE d[s] = Cardinality(RowsGivenTo(h, targets, s, k + 1)) OBVIOUS
    <3>1. c[s] = Cardinality(RowsGivenTo(h, targets, s, k)) /\ c[s] \in Nat BY <2>1, <2>2 DEF AssignedUpTo, c
    <3>2. Cardinality(RowsGivenTo(h, targets, s, k + 1)) = c[s] + (IF n = s THEN 1 ELSE 0) BY <3>1, RowsOfNext DEF n
    <3>3. d[s] = IF s = n THEN c[s] + 1 ELSE c[s] BY <2>2, <2>7
    <3>. HIDE DEF d
    <3>. QED BY <3>1, <3>2, <3>3
  <2>. HIDE DEF d
  <2>. QED BY <2>5, <2>7, <2>8, <2>9, <2>10, <2>11 DEF AssignedUpTo
<1>5. Nat \subseteq T0
  <2>1. 0 \in T0 BY <1>3
  <2>. HIDE DEF T0
  <2>. QED BY <1>4, <2>1, SetInduction
<1>. QED BY <1>5

(* A split's rows are less than one more, and at most two of its shares     *)
(* fewer, than its share of all rows.                                       *)
LEMMA FairShare ==
    ASSUME NEW targets, SplitsOf(targets), NEW counts, Fair(counts, targets), NEW s \in 1..3
    PROVE  LET k == counts[1] + counts[2] + counts[3]
               all == TotalOf(targets)
           IN  /\ counts[s] * all <= k * targets[s] + all - targets[s]
               /\ k * targets[s] <= counts[s] * all + 2 * targets[s]
<1>. DEFINE Others(t, u) ==
                /\ counts[s] * (targets[s] + targets[t] + targets[u])
                     <= (counts[s] + counts[t] + counts[u]) * targets[s] + targets[t] + targets[u]
                /\ (counts[s] + counts[t] + counts[u]) * targets[s]
                     <= counts[s] * (targets[s] + targets[t] + targets[u]) + 2 * targets[s]
<1>1. \A t \in 1..3 : counts[t] \in Nat /\ targets[t] \in Nat /\ targets[t] > 0 BY DEF SplitsOf, Fair
<1>2. ASSUME NEW t \in 1..3, NEW u \in 1..3 PROVE Others(t, u)
  <2>. DEFINE a == counts[s]  b == counts[t]  c == counts[u]
              x == targets[s]  y == targets[t]  z == targets[u]
  <2>1. a \in Nat /\ b \in Nat /\ c \in Nat /\ x \in Nat /\ y \in Nat /\ z \in Nat BY <1>1
  <2>2. (a - 1) * y <= b * x /\ (a - 1) * z <= c * x /\ (b - 1) * x <= a * y /\ (c - 1) * x <= a * z BY DEF Fair
  <2>. HIDE DEF a, b, c, x, y, z
  <2>3. (a - 1) * y = a * y - y /\ (a - 1) * z = a * z - z /\ (b - 1) * x = b * x - x /\ (c - 1) * x = c * x - x BY <2>1
  <2>4. a * (x + y + z) = a * x + a * y + a * z /\ (a + b + c) * x = a * x + b * x + c * x BY <2>1
  <2>5. a * x \in Nat /\ a * y \in Nat /\ a * z \in Nat /\ b * x \in Nat /\ c * x \in Nat BY <2>1
  <2>6. a * (x + y + z) <= (a + b + c) * x + y + z BY <2>1, <2>2, <2>3, <2>4, <2>5
  <2>7. (a + b + c) * x <= a * (x + y + z) + 2 * x BY <2>1, <2>2, <2>3, <2>4, <2>5
  <2>. QED BY <2>6, <2>7 DEF a, b, c, x, y, z
<1>3. s = 1 \/ s = 2 \/ s = 3 OBVIOUS
<1>. DEFINE k == counts[1] + counts[2] + counts[3]
            all == TotalOf(targets)
<1>4. \E t, u \in 1..3 : k = counts[s] + counts[t] + counts[u] /\ all = targets[s] + targets[t] + targets[u]
  <2>1. 1 \in 1..3 /\ 2 \in 1..3 /\ 3 \in 1..3 OBVIOUS
  <2>2. CASE s = 1 BY <2>1, <2>2 DEF TotalOf
  <2>3. CASE s = 2
    <3>1. k = counts[2] + counts[1] + counts[3] /\ all = targets[2] + targets[1] + targets[3]
      BY <1>1, <2>1 DEF TotalOf
    <3>. QED BY <2>1, <2>3, <3>1
  <2>4. CASE s = 3
    <3>1. k = counts[3] + counts[1] + counts[2] /\ all = targets[3] + targets[1] + targets[2]
      BY <1>1, <2>1 DEF TotalOf
    <3>. QED BY <2>1, <2>4, <3>1
  <2>. QED BY <1>3, <2>2, <2>3, <2>4
<1>5. PICK t \in 1..3, u \in 1..3 : k = counts[s] + counts[t] + counts[u] /\ all = targets[s] + targets[t] + targets[u]
  BY <1>4
<1>6. Others(t, u) BY <1>2
<1>. HIDE DEF k, all
<1>7. counts[s] * all <= k * targets[s] + targets[t] + targets[u] /\ k * targets[s] <= counts[s] * all + 2 * targets[s]
  BY <1>5, <1>6
<1>8. k \in Nat /\ all \in Nat BY <1>1, <1>5
<1>9. k * targets[s] \in Nat /\ counts[s] * all \in Nat /\ targets[s] \in Nat /\ targets[t] \in Nat /\ targets[u] \in Nat
  BY <1>1, <1>8
<1>10. k * targets[s] + targets[t] + targets[u] = k * targets[s] + all - targets[s] BY <1>5, <1>8, <1>9
<1>. QED BY <1>7, <1>10 DEF k, all

(* How many of the first i rows are given to a split.                       *)
GivenTo(splits, s, i) == Cardinality({j \in 1..i : splits[j] = s})

(* The rows of any stretch of the sample are divided in proportion to the   *)
(* targets, whatever the three targets are: a split never has more than its *)
(* share and one row and a part, nor that much less (_assign_splits).       *)
THEOREM SplitsKeepTheirShares ==
    ASSUME NEW targets, SplitsOf(targets), NEW all, all = TotalOf(targets)
    PROVE  LET splits == AssignSplits(all, targets)
               upTo(s, i) == GivenTo(splits, s, i)
           IN  /\ splits \in [1..all -> 1..3]
               /\ \A s \in 1..3 : upTo(s, all) = targets[s]
               /\ \A s \in 1..3, from, to \in 0..all : from <= to =>
                     /\ upTo(s, from) \in Nat /\ upTo(s, to) \in Nat
                     /\ (upTo(s, to) - upTo(s, from)) * all <= (to - from) * targets[s] + all + targets[s]
                     /\ (to - from) * targets[s] <= (upTo(s, to) - upTo(s, from)) * all + all + targets[s]
<1>. DEFINE splits == AssignSplits(all, targets)
            upTo(s, i) == GivenTo(splits, s, i)
<1>1. \A t \in 1..3 : targets[t] \in Nat /\ targets[t] > 0 BY DEF SplitsOf
<1>2. all \in Nat /\ all = targets[1] + targets[2] + targets[3]
  BY <1>1, 1 \in 1..3, 2 \in 1..3, 3 \in 1..3 DEF TotalOf
<1>3. PICK h : IsAssignment(h, all, targets) /\ splits = h[all].splits
  BY <1>2, AssignmentFold
<1>4. \A k \in 0..all : AssignedUpTo(h, targets, k)
  <2>1. IsAssignment(h, all, targets) /\ all \in Nat BY <1>2, <1>3
  <2>. HIDE DEF splits, upTo
  <2>. QED BY <2>1, AssignmentHolds
<1>5. all \in 0..all BY <1>2
<1>6. splits = [j \in 1..all |-> SplitAt(h, targets, j)] /\ \A j \in 1..all : SplitAt(h, targets, j) \in 1..3
  <2>1. AssignedUpTo(h, targets, all) BY <1>4, <1>5
  <2>. HIDE DEF splits
  <2>. QED BY <1>3, <2>1 DEF AssignedUpTo
<1>. HIDE DEF splits
<1>7. ASSUME NEW s \in 1..3, NEW i \in 0..all PROVE upTo(s, i) = h[i].counts[s]
  <2>1. 1..i \subseteq 1..all BY <1>2
  <2>2. {j \in 1..i : splits[j] = s} = RowsGivenTo(h, targets, s, i) BY <1>6, <2>1 DEF RowsGivenTo
  <2>3. h[i].counts[s] = Cardinality(RowsGivenTo(h, targets, s, i)) BY <1>4 DEF AssignedUpTo
  <2>. QED BY <2>2, <2>3 DEF GivenTo
<1>. HIDE DEF upTo
<1>8. ASSUME NEW s \in 1..3, NEW i \in 0..all
      PROVE  /\ upTo(s, i) \in Nat /\ i \in Nat
             /\ upTo(s, i) * all <= i * targets[s] + all - targets[s]
             /\ i * targets[s] <= upTo(s, i) * all + 2 * targets[s]
  <2>. DEFINE c == h[i].counts
  <2>1. Fair(c, targets) /\ c[1] + c[2] + c[3] = i BY <1>4 DEF AssignedUpTo
  <2>. HIDE DEF c
  <2>2. c[s] * all <= i * targets[s] + all - targets[s] /\ i * targets[s] <= c[s] * all + 2 * targets[s]
    BY <2>1, FairShare
  <2>3. upTo(s, i) = c[s] /\ c[s] \in Nat BY <1>7, <2>1 DEF Fair, c
  <2>. QED BY <1>2, <2>2, <2>3
<1>9. ASSUME NEW s \in 1..3 PROVE upTo(s, all) = targets[s]
  <2>. DEFINE c == h[all].counts
  <2>1. c \in [1..3 -> Nat] /\ c[1] + c[2] + c[3] = all /\ \A t \in 1..3 : c[t] <= targets[t]
    BY <1>4, <1>5 DEF AssignedUpTo, Fair
  <2>. HIDE DEF c
  <2>2. c[1] \in Nat /\ c[2] \in Nat /\ c[3] \in Nat /\ c[1] <= targets[1] /\ c[2] <= targets[2] /\ c[3] <= targets[3]
        /\ targets[1] \in Nat /\ targets[2] \in Nat /\ targets[3] \in Nat
    BY <1>1, <2>1, 1 \in 1..3, 2 \in 1..3, 3 \in 1..3
  <2>3. c[1] = targets[1] /\ c[2] = targets[2] /\ c[3] = targets[3] BY <1>2, <2>1, <2>2
  <2>4. s = 1 \/ s = 2 \/ s = 3 OBVIOUS
  <2>. QED BY <1>5, <1>7, <2>3, <2>4 DEF c
<1>10. ASSUME NEW s \in 1..3, NEW from \in 0..all, NEW to \in 0..all
       PROVE  /\ (upTo(s, to) - upTo(s, from)) * all <= (to - from) * targets[s] + all + targets[s]
              /\ (to - from) * targets[s] <= (upTo(s, to) - upTo(s, from)) * all + all + targets[s]
  <2>. DEFINE a == upTo(s, from)  b == upTo(s, to)  x == targets[s]
  <2>1. a \in Nat /\ b \in Nat /\ x \in Nat /\ from \in Nat /\ to \in Nat BY <1>1, <1>8
  <2>2. a * all <= from * x + all - x /\ from * x <= a * all + 2 * x BY <1>8
  <2>3. b * all <= to * x + all - x /\ to * x <= b * all + 2 * x BY <1>8
  <2>. HIDE DEF a, b, x
  <2>4. (b - a) * all = b * all - a * all /\ (to - from) * x = to * x - from * x BY <1>2, <2>1
  <2>5. a * all \in Nat /\ b * all \in Nat /\ from * x \in Nat /\ to * x \in Nat BY <1>2, <2>1
  <2>6. (b - a) * all <= (to - from) * x + all + x BY <1>2, <2>1, <2>2, <2>3, <2>4, <2>5
  <2>7. (to - from) * x <= (b - a) * all + all + x BY <1>2, <2>1, <2>2, <2>3, <2>4, <2>5
  <2>. QED BY <2>6, <2>7 DEF a, b, x
<1>11. splits \in [1..all -> 1..3] BY <1>6
<1>. QED BY <1>8, <1>9, <1>10, <1>11 DEF splits, upTo

(* The rows of a split, or of a bucket.                                     *)
RowsIn(rows, splitOf, s) == {r \in rows : splitOf[r] = s}

(* Of each split as many rows as wanted are labelled twice, or all that it  *)
(* has (_assign_second_pass).                                               *)
THEOREM SecondPassIsFilled ==
    ASSUME NEW X, IsFiniteSet(X), X \subseteq Nat, NEW splitOf, NEW wanted, NEW s \in DOMAIN wanted,
           \A t \in DOMAIN wanted : wanted[t] \in Nat
    PROVE  LET own == RowsIn(X, splitOf, s)
               twice == RowsIn(AssignSecondPass(X, splitOf, wanted), splitOf, s)
           IN  /\ twice \subseteq own
               /\ Cardinality(twice) = wanted[s] \/ Cardinality(own) < wanted[s]
               /\ Cardinality(twice) = wanted[s] \/ (\A r \in own : r \in twice)
<1>. DEFINE Own(t) == RowsIn(X, splitOf, t)
            F(t) == FirstRanked(Own(t), wanted[t])
            twice == RowsIn(AssignSecondPass(X, splitOf, wanted), splitOf, s)
<1>1. AssignSecondPass(X, splitOf, wanted) = UNION {F(t) : t \in DOMAIN wanted} BY DEF AssignSecondPass, RowsIn
<1>2. ASSUME NEW t \in DOMAIN wanted
      PROVE  /\ F(t) \subseteq Own(t)
             /\ Cardinality(F(t)) = wanted[t] \/ Cardinality(Own(t)) < wanted[t]
             /\ Cardinality(F(t)) = wanted[t] \/ (\A r \in Own(t) : r \in F(t))
  <2>1. IsFiniteSet(Own(t)) /\ Own(t) \subseteq Nat /\ wanted[t] \in Nat BY FS_Subset DEF RowsIn
  <2>. HIDE DEF Own
  <2>2. F(t) \subseteq Own(t) BY <2>1, RankedFirst
  <2>3. Cardinality(F(t)) = wanted[t] \/ Cardinality(Own(t)) < wanted[t] BY <2>1, RankedFirst
  <2>4. Cardinality(F(t)) = wanted[t] \/ (\A r \in Own(t) : r \in F(t)) BY <2>1, RankedFirst
  <2>. QED BY <2>2, <2>3, <2>4
<1>. HIDE DEF F
<1>3. twice = F(s)
  <2>1. ASSUME NEW r \in twice PROVE r \in F(s)
    <3>1. PICK t \in DOMAIN wanted : r \in F(t) BY <1>1 DEF RowsIn
    <3>2. t = s BY <1>2, <3>1 DEF RowsIn
    <3>. QED BY <3>1, <3>2
  <2>2. ASSUME NEW r \in F(s) PROVE r \in twice
    <3>1. r \in UNION {F(t) : t \in DOMAIN wanted} OBVIOUS
    <3>2. r \in Own(s) BY <1>2
    <3>3. splitOf[r] = s BY <3>2 DEF RowsIn
    <3>. QED BY <1>1, <3>1, <3>3 DEF RowsIn
  <2>. QED BY <2>1, <2>2
<1>. QED BY <1>2, <1>3

-----------------------------------------------------------------------------
(* The sample that a user runs                                              *)

LastRows(X, bucketOf) == {r \in X : \A q \in X : bucketOf[q] = bucketOf[r] => q <= r}

(* Rows of different buckets are as many as their buckets.                  *)
LEMMA CountOfBuckets ==
    ASSUME NEW Y, IsFiniteSet(Y), NEW bucketOf, \A r, q \in Y : bucketOf[r] = bucketOf[q] => r = q
    PROVE  LET B == {bucketOf[r] : r \in Y}
           IN  IsFiniteSet(B) /\ Cardinality(B) = Cardinality(Y)
<1>. DEFINE B == {bucketOf[r] : r \in Y}
            f == [r \in Y |-> bucketOf[r]]
<1>1. f \in Bijection(Y, B) BY DEF Bijection, Injection, Surjection, IsInjective
<1>2. ExistsBijection(Y, B) BY <1>1 DEF ExistsBijection
<1>. HIDE DEF B
<1>3. IsFiniteSet(B) /\ Cardinality(B) = Cardinality(Y) BY <1>2, FS_Bijection
<1>. QED BY <1>3 DEF B

(* A round takes at most one row of a bucket, and of each that has one left *)
(* unless the sample is full before.                                        *)
LEMMA RoundIs ==
    ASSUME NEW X, IsFiniteSet(X), X \subseteq Nat, NEW bucketOf, \A r \in X : bucketOf[r] \in Nat, NEW n \in Nat
    PROVE  LET drawn == SampleRound(X, bucketOf, n)
           IN  /\ drawn \subseteq X /\ IsFiniteSet(drawn) /\ Cardinality(drawn) <= n
               /\ \A r, q \in drawn : bucketOf[r] = bucketOf[q] => r = q
               /\ \/ Cardinality(drawn) = n
                  \/ \A r \in X : \E q \in drawn : bucketOf[q] = bucketOf[r]
<1>. DEFINE L == LastRows(X, bucketOf)
            B == {bucketOf[r] : r \in L}
            F == FirstRanked(B, n)
            drawn == SampleRound(X, bucketOf, n)
            before(b) == {q \in L : bucketOf[q] < b}
<1>1. L \subseteq X /\ IsFiniteSet(L) /\ \A r \in L : r \in Nat /\ bucketOf[r] \in Nat BY FS_Subset DEF LastRows
<1>2. \A r, q \in L : bucketOf[r] = bucketOf[q] => r = q
  <2>. SUFFICES ASSUME NEW r \in L, NEW q \in L, bucketOf[r] = bucketOf[q] PROVE r = q OBVIOUS
  <2>1. r <= q /\ q <= r BY <1>1 DEF LastRows
  <2>. QED BY <1>1, <2>1
<1>3. ASSUME NEW r \in X PROVE \E q \in L : bucketOf[q] = bucketOf[r]
  <2>. DEFINE own == {q \in X : bucketOf[q] = bucketOf[r]}
  <2>1. IsFiniteSet(own) /\ own # {} BY FS_Subset
  <2>2. \A q \in own : q \in Int OBVIOUS
  <2>3. PICK q \in own : \A p \in own : p <= q
    <3>. HIDE DEF own
    <3>1. Max(own) \in own /\ \A p \in own : Max(own) >= p BY <2>1, <2>2, MaxOfFinite
    <3>2. \A p \in own : p <= Max(own) BY <2>2, <3>1
    <3>. QED BY <3>1, <3>2
  <2>. QED BY <2>3 DEF LastRows
<1>4. drawn = {r \in L : Cardinality(before(bucketOf[r])) < n}
  BY Zenon DEF SampleRound, LastRows
<1>. HIDE DEF L, drawn
<1>5. IsFiniteSet(B) /\ B \subseteq Nat BY <1>1, <1>2, CountOfBuckets
<1>6. ASSUME NEW b \in B PROVE Cardinality(before(b)) = Cardinality({c \in B : c < b})
  <2>. DEFINE C == {bucketOf[q] : q \in before(b)}
  <2>1. IsFiniteSet(before(b)) BY <1>1, FS_Subset
  <2>2. \A r, q \in before(b) : bucketOf[r] = bucketOf[q] => r = q BY <1>2
  <2>3. Cardinality(C) = Cardinality(before(b))
    <3>. HIDE DEF before
    <3>. QED BY <2>1, <2>2, CountOfBuckets
  <2>4. C = {c \in B : c < b} OBVIOUS
  <2>. QED BY <2>3, <2>4
<1>7. F = {b \in B : Cardinality({c \in B : c < b}) < n} BY Zenon DEF FirstRanked, Cardinality
<1>8. \A b \in B : b \in F <=> Cardinality(before(b)) < n
  <2>. HIDE DEF F, B, before
  <2>1. ASSUME NEW b \in B PROVE b \in F <=> Cardinality(before(b)) < n
    <3>1. b \in F <=> Cardinality({c \in B : c < b}) < n BY <1>7
    <3>. QED BY <1>6, <3>1
  <2>. QED BY <2>1
<1>9. F \subseteq B /\ (Cardinality(F) = n \/ (Cardinality(B) < n /\ F = B))
  <2>. HIDE DEF B
  <2>1. IsFiniteSet(B) /\ B \subseteq Nat BY <1>5
  <2>2. F \subseteq B BY <2>1, RankedFirst
  <2>3. Cardinality(F) = n \/ Cardinality(B) < n BY <2>1, RankedFirst
  <2>4. Cardinality(F) = n \/ (\A c \in B : c \in F) BY <2>1, RankedFirst
  <2>. HIDE DEF F
  <2>5. (\A c \in B : c \in F) => F = B BY <2>2
  <2>. QED BY <2>2, <2>3, <2>4, <2>5
<1>. HIDE DEF F, before
<1>10. \A r : r \in drawn <=> r \in L /\ bucketOf[r] \in F BY <1>4, <1>8
<1>11. drawn \subseteq X /\ IsFiniteSet(drawn) /\ \A r, q \in drawn : bucketOf[r] = bucketOf[q] => r = q
  <2>1. drawn \subseteq L BY <1>10
  <2>2. IsFiniteSet(drawn) BY <1>1, <2>1, FS_Subset
  <2>. QED BY <1>1, <1>2, <2>1, <2>2
<1>12. {bucketOf[r] : r \in drawn} = F BY <1>9, <1>10
<1>13. Cardinality(drawn) = Cardinality(F)
  <2>1. Cardinality({bucketOf[r] : r \in drawn}) = Cardinality(drawn) BY <1>11, CountOfBuckets
  <2>. QED BY <1>12, <2>1
<1>14. Cardinality(drawn) <= n
  <2>1. Cardinality(F) \in Nat BY <1>11, <1>13, FS_CardinalityType
  <2>. HIDE DEF B
  <2>. QED BY <1>9, <1>13, <2>1
<1>15. Cardinality(drawn) = n \/ \A r \in X : \E q \in drawn : bucketOf[q] = bucketOf[r]
  <2>1. CASE Cardinality(F) = n BY <1>13, <2>1
  <2>2. CASE F = B BY <1>3, <1>10, <2>2
  <2>. QED BY <1>9, <2>1, <2>2
<1>. QED BY <1>11, <1>14, <1>15 DEF drawn

(* One round more (sample_records).                                         *)
DrawRound(chosen, X, bucketOf, n) == chosen \cup SampleRound(X \ chosen, bucketOf, n - Cardinality(chosen))

IsSampling(h, X, bucketOf, n) ==
    /\ h[0] = {}
    /\ \A k \in 1..n : h[k] = DrawRound(h[k - 1], X, bucketOf, n)

(* A round chooses among the rows.                                          *)
LEMMA DrawRoundType ==
    ASSUME NEW X, NEW bucketOf, NEW n, NEW w \in SUBSET X
    PROVE  DrawRound(w, X, bucketOf, n) \in SUBSET X
<1>1. \A Y, k : SampleRound(Y, bucketOf, k) \subseteq Y BY DEF SampleRound
<1>2. SampleRound(X \ w, bucketOf, n - Cardinality(w)) \subseteq X \ w BY <1>1
<1>. QED BY <1>2 DEF DrawRound

(* The sample draws one round after the other.                              *)
LEMMA SamplingFold ==
    ASSUME NEW X, NEW bucketOf, NEW n \in Nat
    PROVE  \E h : IsSampling(h, X, bucketOf, n) /\ SampleRecords(X, bucketOf, n) = h[n]
<1>. DEFINE W == SUBSET X
            Step(w) == DrawRound(w, X, bucketOf, n)
            step == [k \in 1..n |-> [w \in W |-> Step(w)]]
            Eq(g) == g = [s \in SUBSET (1..n) |-> IF s = {} THEN {}
                                ELSE Step(g[s \ {Max(s)}])]
            iter == CHOOSE g : Eq(g)
            h == [k \in 0..n |-> iter[1..k]]
<1>1. DOMAIN [i \in 1..n |-> i] = 1..n OBVIOUS
<1>2. step \in [1..n -> [W -> W]]
  <2>1. \A w \in W : Step(w) \in W BY DrawRoundType
  <2>. HIDE DEF W, Step
  <2>. QED BY <2>1
<1>3. IsFiniteSet(1..n) /\ Picks(MaxPick(n), 1..n) BY MaxPicks, IntervalIsFinite
<1>4. {} \in W OBVIOUS
<1>5. PICK g \in [SUBSET (1..n) -> W] : IsFold(g, {}, step, MaxPick(n), 1..n)
  <2>. HIDE DEF step, W
  <2>. QED BY <1>2, <1>3, <1>4, FoldExists
<1>6. \A s \in SUBSET (1..n) : s # {} => Max(s) \in 1..n /\ s \ {Max(s)} \in SUBSET (1..n)
  BY MaxOfSubset
<1>7. ASSUME NEW s \in SUBSET (1..n), s # {}
      PROVE  g[s] = Step(g[s \ {Max(s)}])
  <2>1. g[s] = step[Max(s)][g[s \ {Max(s)}]] BY <1>5, <1>7 DEF IsFold, MaxPick
  <2>2. Max(s) \in 1..n /\ g[s \ {Max(s)}] \in W BY <1>5, <1>6, <1>7
  <2>. HIDE DEF W, Step
  <2>. QED BY <2>1, <2>2
<1>8. Eq(g)
  <2>. HIDE DEF W, Step
  <2>1. g[{}] = {} BY <1>5 DEF IsFold
  <2>. QED BY <1>5, <1>7, <2>1
<1>9. Eq(iter)
  <2>. HIDE DEF Eq
  <2>. QED BY <1>8
<1>10. SampleRecords(X, bucketOf, n) = iter[1..n]
  BY <1>1 DEF SampleRecords, FoldLeft, MapThenFoldSet, DrawRound
<1>11. iter[{}] = {} BY <1>9
<1>12. ASSUME NEW k \in 1..n PROVE iter[1..k] = Step(iter[1..(k - 1)])
  <2>1. Max(1..k) = k /\ (1..k) \ {k} = 1..(k - 1) /\ 1..k # {} /\ 1..k \in SUBSET (1..n)
    BY MaxOfPrefix
  <2>. HIDE DEF iter, Step
  <2>. QED BY <1>9, <2>1
<1>. HIDE DEF iter, Step
<1>13. h[0] = {} /\ h[n] = iter[1..n] /\ \A k \in 1..n : h[k] = Step(h[k - 1])
  BY <1>11, <1>12
<1>14. IsSampling(h, X, bucketOf, n) BY <1>13 DEF IsSampling, Step
<1>. QED BY <1>10, <1>13, <1>14

(* A bucket grows by the row drawn of it.                                   *)
LEMMA BucketGrows ==
    ASSUME NEW w, IsFiniteSet(w), NEW drawn, IsFiniteSet(drawn), w \cap drawn = {}, NEW bucketOf,
           \A r, q \in drawn : bucketOf[r] = bucketOf[q] => r = q, NEW b
    PROVE  /\ Cardinality(RowsIn(w, bucketOf, b)) \in Nat
           /\ (\E q \in drawn : bucketOf[q] = b) =>
                 Cardinality(RowsIn(w \cup drawn, bucketOf, b)) = Cardinality(RowsIn(w, bucketOf, b)) + 1
           /\ (\A q \in drawn : bucketOf[q] # b) =>
                 Cardinality(RowsIn(w \cup drawn, bucketOf, b)) = Cardinality(RowsIn(w, bucketOf, b))
<1>1. IsFiniteSet(RowsIn(w, bucketOf, b)) BY FS_Subset DEF RowsIn
<1>2. Cardinality(RowsIn(w, bucketOf, b)) \in Nat BY <1>1, FS_CardinalityType
<1>3. ASSUME NEW q \in drawn, bucketOf[q] = b
      PROVE  Cardinality(RowsIn(w \cup drawn, bucketOf, b)) = Cardinality(RowsIn(w, bucketOf, b)) + 1
  <2>1. RowsIn(w \cup drawn, bucketOf, b) = RowsIn(w, bucketOf, b) \cup {q} BY <1>3 DEF RowsIn
  <2>2. q \notin RowsIn(w, bucketOf, b) BY DEF RowsIn
  <2>. QED BY <1>1, <2>1, <2>2, FS_AddElement
<1>4. (\A q \in drawn : bucketOf[q] # b) => RowsIn(w \cup drawn, bucketOf, b) = RowsIn(w, bucketOf, b) BY DEF RowsIn
<1>. QED BY <1>2, <1>3, <1>4

(* After k rounds a bucket has given at most k rows, exactly k while it has *)
(* more and the sample is not full, and never two less than another while   *)
(* it has more.                                                             *)
RoundsAreFair(w, X, bucketOf, n, k) ==
    LET given(b) == Cardinality(RowsIn(w, bucketOf, b))
        hasMore(b) == \E r \in X \ w : bucketOf[r] = b
    IN  /\ \A b \in Nat : given(b) \in Nat /\ given(b) <= k
        /\ Cardinality(w) < n => \A b \in Nat : hasMore(b) => given(b) = k
        /\ \A b, c \in Nat : hasMore(b) => given(c) <= given(b) + 1

(* Another round is as fair.                                                *)
LEMMA FairRound ==
    ASSUME NEW X, IsFiniteSet(X), X \subseteq Nat, NEW bucketOf, \A r \in X : bucketOf[r] \in Nat,
           NEW n \in Nat, NEW k \in Nat, NEW w, w \subseteq X, Cardinality(w) <= n,
           RoundsAreFair(w, X, bucketOf, n, k)
    PROVE  LET next == DrawRound(w, X, bucketOf, n)
           IN  next \subseteq X /\ Cardinality(next) <= n /\ RoundsAreFair(next, X, bucketOf, n, k + 1)
<1>. DEFINE next == DrawRound(w, X, bucketOf, n)
            drawn == SampleRound(X \ w, bucketOf, n - Cardinality(w))
            given(v, b) == Cardinality(RowsIn(v, bucketOf, b))
            hasMore(v, b) == \E r \in X \ v : bucketOf[r] = b
            hasDrawn(b) == \E q \in drawn : bucketOf[q] = b
<1>1. IsFiniteSet(w) /\ IsFiniteSet(X \ w) /\ Cardinality(w) \in Nat /\ n - Cardinality(w) \in Nat
  <2>1. IsFiniteSet(w) /\ IsFiniteSet(X \ w) BY FS_Subset
  <2>2. Cardinality(w) \in Nat BY <2>1, FS_CardinalityType
  <2>. QED BY <2>1, <2>2
<1>2. next = w \cup drawn BY DEF DrawRound
<1>3. /\ drawn \subseteq X \ w /\ IsFiniteSet(drawn) /\ Cardinality(drawn) <= n - Cardinality(w)
      /\ \A r, q \in drawn : bucketOf[r] = bucketOf[q] => r = q
      /\ Cardinality(drawn) = n - Cardinality(w) \/ (\A r \in X \ w : \E q \in drawn : bucketOf[q] = bucketOf[r])
  <2>. DEFINE Y == X \ w
              m == n - Cardinality(w)
  <2>1. Y \subseteq Nat /\ IsFiniteSet(Y) /\ m \in Nat /\ \A r \in Y : bucketOf[r] \in Nat BY <1>1
  <2>. HIDE DEF Y, m
  <2>2. /\ SampleRound(Y, bucketOf, m) \subseteq Y /\ IsFiniteSet(SampleRound(Y, bucketOf, m)) /\ Cardinality(SampleRound(Y, bucketOf, m)) <= m
        /\ \A r, q \in SampleRound(Y, bucketOf, m) : bucketOf[r] = bucketOf[q] => r = q
        /\ \/ Cardinality(SampleRound(Y, bucketOf, m)) = m
           \/ \A r \in Y : \E q \in SampleRound(Y, bucketOf, m) : bucketOf[q] = bucketOf[r]
    BY <2>1, RoundIs
  <2>. QED BY <2>2 DEF Y, m
<1>. HIDE DEF drawn, next
<1>4. next \subseteq X /\ Cardinality(next) = Cardinality(w) + Cardinality(drawn) /\ Cardinality(drawn) \in Nat
  <2>1. w \cap drawn = {} BY <1>3
  <2>2. Cardinality(w \cup drawn) = Cardinality(w) + Cardinality(drawn) - Cardinality(w \cap drawn) BY <1>1, <1>3, FS_Union
  <2>3. Cardinality(w \cap drawn) = 0 BY <2>1, FS_EmptySet
  <2>4. Cardinality(drawn) \in Nat BY <1>3, FS_CardinalityType
  <2>5. next \subseteq X BY <1>2, <1>3
  <2>. QED BY <1>1, <1>2, <2>2, <2>3, <2>4, <2>5
<1>5. ASSUME NEW b \in Nat
      PROVE  /\ given(w, b) \in Nat
             /\ hasDrawn(b) => given(next, b) = given(w, b) + 1
             /\ ~hasDrawn(b) => given(next, b) = given(w, b)
  <2>1. w \cap drawn = {} BY <1>3
  <2>2. \A r, q \in drawn : bucketOf[r] = bucketOf[q] => r = q BY <1>3
  <2>3. IsFiniteSet(w) /\ IsFiniteSet(drawn) BY <1>1, <1>3
  <2>4. given(w, b) \in Nat BY <2>1, <2>2, <2>3, BucketGrows
  <2>5. (\E q \in drawn : bucketOf[q] = b) => given(w \cup drawn, b) = given(w, b) + 1 BY <2>1, <2>2, <2>3, BucketGrows
  <2>6. (\A q \in drawn : bucketOf[q] # b) => given(w \cup drawn, b) = given(w, b) BY <2>1, <2>2, <2>3, BucketGrows
  <2>. QED BY <1>2, <2>4, <2>5, <2>6
<1>6. \A b \in Nat : given(w, b) <= k BY DEF RoundsAreFair
<1>7. Cardinality(w) < n => \A b \in Nat : hasMore(w, b) => given(w, b) = k BY DEF RoundsAreFair
<1>8. \A b, c \in Nat : hasMore(w, b) => given(w, c) <= given(w, b) + 1 BY DEF RoundsAreFair
<1>9. \A b \in Nat : (hasDrawn(b) => hasMore(w, b)) /\ (hasMore(next, b) => hasMore(w, b)) BY <1>2, <1>3
<1>10. Cardinality(next) < n => Cardinality(w) < n /\ \A b \in Nat : hasMore(next, b) => hasDrawn(b)
  <2>. SUFFICES ASSUME Cardinality(next) < n PROVE Cardinality(w) < n /\ \A b \in Nat : hasMore(next, b) => hasDrawn(b)
    OBVIOUS
  <2>1. Cardinality(w) < n /\ Cardinality(drawn) # n - Cardinality(w) BY <1>1, <1>4
  <2>2. \A r \in X \ w : \E q \in drawn : bucketOf[q] = bucketOf[r] BY <1>3, <2>1
  <2>. QED BY <1>2, <2>1, <2>2
<1>11. CASE Cardinality(w) < n
  <2>. HIDE DEF given, hasMore, hasDrawn
  <2>1. \A b \in Nat : given(next, b) \in Nat /\ given(next, b) <= k + 1 BY <1>5, <1>6
  <2>2. ASSUME Cardinality(next) < n, NEW b \in Nat, hasMore(next, b) PROVE given(next, b) = k + 1
    <3>1. given(w, b) = k BY <1>7, <1>9, <1>11, <2>2
    <3>2. hasDrawn(b) BY <1>10, <2>2
    <3>. QED BY <1>5, <3>1, <3>2
  <2>3. ASSUME NEW b \in Nat, NEW c \in Nat, hasMore(next, b) PROVE given(next, c) <= given(next, b) + 1
    <3>1. given(w, b) = k BY <1>7, <1>9, <1>11, <2>3
    <3>2. given(next, b) >= k BY <1>5, <3>1
    <3>. QED BY <2>1, <3>2
  <2>. QED BY <1>1, <1>3, <1>4, <2>1, <2>2, <2>3 DEF RoundsAreFair, given, hasMore, next
<1>12. CASE ~(Cardinality(w) < n)
  <2>1. Cardinality(w) = n /\ Cardinality(drawn) = 0 BY <1>1, <1>3, <1>4, <1>12
  <2>2. drawn = {} BY <1>3, <2>1, FS_EmptySet
  <2>3. next = w BY <1>2, <2>2
  <2>4. \A b \in Nat : given(w, b) \in Nat /\ given(w, b) <= k + 1 BY <1>5, <1>6
  <2>5. RoundsAreFair(w, X, bucketOf, n, k + 1)
    <3>. HIDE DEF next, drawn
    <3>. QED BY <1>8, <1>12, <2>4 DEF RoundsAreFair, given
  <2>. QED BY <2>3, <2>5 DEF next
<1>. QED BY <1>11, <1>12

(* A sample has its size unless it is every record, and no bucket of a      *)
(* language and month has two rows more than a bucket that still had rows   *)
(* to give (sample_records).                                                *)
THEOREM BucketsAreBalanced ==
    ASSUME NEW X, IsFiniteSet(X), X \subseteq Nat, NEW bucketOf, \A r \in X : bucketOf[r] \in Nat, NEW n \in Nat
    PROVE  LET chosen == SampleRecords(X, bucketOf, n)
           IN  /\ chosen \subseteq X /\ Cardinality(chosen) <= n
               /\ Cardinality(chosen) = n \/ (\A r \in X : r \in chosen)
               /\ \A b, c \in Nat : RowsIn(X \ chosen, bucketOf, b) # {} =>
                     Cardinality(RowsIn(chosen, bucketOf, c)) <= Cardinality(RowsIn(chosen, bucketOf, b)) + 1
<1>. DEFINE chosen == SampleRecords(X, bucketOf, n)
<1>1. PICK h : IsSampling(h, X, bucketOf, n) /\ chosen = h[n] BY SamplingFold
<1>. DEFINE Fair0(k) == h[k] \subseteq X /\ Cardinality(h[k]) <= n /\ RoundsAreFair(h[k], X, bucketOf, n, k)
            T0 == {k \in Nat : k <= n => Fair0(k)}
<1>2. 0 \in T0
  <2>1. h[0] = {} /\ Cardinality({}) = 0 BY <1>1, FS_EmptySet DEF IsSampling
  <2>2. \A b : RowsIn({}, bucketOf, b) = {} BY DEF RowsIn
  <2>3. RoundsAreFair({}, X, bucketOf, n, 0)
    <3>1. \A b : Cardinality(RowsIn({}, bucketOf, b)) = 0 BY <2>1, <2>2
    <3>. QED BY <3>1 DEF RoundsAreFair
  <2>. QED BY <2>1, <2>3
<1>3. ASSUME NEW k \in Nat, k \in T0 PROVE k + 1 \in T0
  <2>. SUFFICES ASSUME k + 1 <= n PROVE Fair0(k + 1) OBVIOUS
  <2>1. h[k] \subseteq X /\ Cardinality(h[k]) <= n /\ RoundsAreFair(h[k], X, bucketOf, n, k) BY <1>3
  <2>2. h[k + 1] = DrawRound(h[k], X, bucketOf, n)
    <3>1. k + 1 \in 1..n /\ (k + 1) - 1 = k OBVIOUS
    <3>2. \A j \in 1..n : h[j] = DrawRound(h[j - 1], X, bucketOf, n) BY <1>1 DEF IsSampling
    <3>. QED BY <3>1, <3>2
  <2>3. LET next == DrawRound(h[k], X, bucketOf, n)
        IN  next \subseteq X /\ Cardinality(next) <= n /\ RoundsAreFair(next, X, bucketOf, n, k + 1)
    <3>. DEFINE w == h[k]
    <3>1. w \subseteq X /\ Cardinality(w) <= n /\ RoundsAreFair(w, X, bucketOf, n, k) BY <2>1
    <3>. HIDE DEF w
    <3>2. LET next == DrawRound(w, X, bucketOf, n)
          IN  next \subseteq X /\ Cardinality(next) <= n /\ RoundsAreFair(next, X, bucketOf, n, k + 1)
      BY <3>1, FairRound
    <3>. QED BY <3>2 DEF w
  <2>. QED BY <2>2, <2>3
<1>4. n \in T0
  <2>. HIDE DEF T0
  <2>1. Nat \subseteq T0 BY <1>2, <1>3, SetInduction
  <2>. QED BY <2>1
<1>5. chosen \subseteq X /\ Cardinality(chosen) <= n /\ RoundsAreFair(chosen, X, bucketOf, n, n) BY <1>1, <1>4
<1>. HIDE DEF chosen
<1>6. ASSUME Cardinality(chosen) # n PROVE \A r \in X : r \in chosen
  <2>. SUFFICES ASSUME NEW r \in X, r \notin chosen PROVE FALSE OBVIOUS
  <2>. DEFINE own == RowsIn(chosen, bucketOf, bucketOf[r])
  <2>1. IsFiniteSet(chosen) /\ Cardinality(chosen) \in Nat BY <1>5, FS_Subset, FS_CardinalityType
  <2>2. Cardinality(chosen) < n BY <1>5, <1>6, <2>1
  <2>3. bucketOf[r] \in Nat /\ \E q \in X \ chosen : bucketOf[q] = bucketOf[r] OBVIOUS
  <2>4. Cardinality(own) = n BY <1>5, <2>2, <2>3 DEF RoundsAreFair
  <2>5. own \subseteq chosen BY DEF RowsIn
  <2>6. Cardinality(own) <= Cardinality(chosen) BY <2>1, <2>5, FS_Subset
  <2>. HIDE DEF own
  <2>. QED BY <2>1, <2>2, <2>4, <2>6
<1>7. ASSUME NEW b \in Nat, NEW c \in Nat, RowsIn(X \ chosen, bucketOf, b) # {}
      PROVE  Cardinality(RowsIn(chosen, bucketOf, c)) <= Cardinality(RowsIn(chosen, bucketOf, b)) + 1
  <2>1. \E r \in X \ chosen : bucketOf[r] = b BY <1>7 DEF RowsIn
  <2>. QED BY <1>5, <2>1 DEF RoundsAreFair
<1>. QED BY <1>5, <1>6, <1>7 DEF chosen

-----------------------------------------------------------------------------
(* Sums, as the scores need them                                           *)

(* A term of a sum of natural numbers is not above the sum.                *)
LEMMA TermAtMostSum ==
    ASSUME NEW X, IsFiniteSet(X), NEW f, \A x \in X : f[x] \in Nat, NEW a \in X
    PROVE  f[a] <= SumFunctionOnSet(f, X)
<1>1. SumFunctionOnSet(f, X) = f[a] + SumFunctionOnSet(f, X \ {a}) BY SumRemove
<1>2. IsFiniteSet(X \ {a}) BY FS_Subset
<1>3. SumFunctionOnSet(f, X \ {a}) \in Nat BY <1>2, SumIsNatural
<1>. QED BY <1>1, <1>3

(* A sum of natural numbers is zero when all of them are.                  *)
LEMMA SumIsZero ==
    ASSUME NEW X, IsFiniteSet(X), NEW f, \A x \in X : f[x] \in Nat
    PROVE  SumFunctionOnSet(f, X) = 0 <=> \A x \in X : f[x] = 0
<1>1. SumFunctionOnSet(f, X) = 0 => \A x \in X : f[x] = 0
  <2>1. SumFunctionOnSet(f, X) \in Nat BY SumIsNatural
  <2>2. \A x \in X : f[x] <= SumFunctionOnSet(f, X) BY TermAtMostSum
  <2>. QED BY <2>1, <2>2
<1>2. ASSUME \A x \in X : f[x] = 0 PROVE SumFunctionOnSet(f, X) = 0
  <2>1. SumFunctionOnSet(f, X) = Cardinality(X) * 0
    <3>1. 0 \in Int OBVIOUS
    <3>. QED BY <1>2, <3>1, SumConstant
  <2>2. Cardinality(X) \in Nat BY FS_CardinalityType
  <2>. QED BY <2>1, <2>2
<1>. QED BY <1>1, <1>2

(* Terms that are not above those of another sum have a sum that is not.   *)
LEMMA SumAtMost ==
    ASSUME NEW X, IsFiniteSet(X), NEW f, NEW g, \A x \in X : f[x] \in Int /\ g[x] \in Int /\ f[x] <= g[x]
    PROVE  SumFunctionOnSet(f, X) <= SumFunctionOnSet(g, X)
<1>. DEFINE Q == {s \in SUBSET X : SumFunctionOnSet(f, s) <= SumFunctionOnSet(g, s)}
<1>1. {} \in Q BY SumEmpty
<1>2. ASSUME NEW s \in SUBSET X, s # {}, \A x \in s : s \ {x} \in Q PROVE s \in Q
  <2>1. PICK a \in s : TRUE BY <1>2
  <2>2. IsFiniteSet(s) /\ IsFiniteSet(s \ {a}) BY FS_Subset
  <2>3. SumFunctionOnSet(f, s) = f[a] + SumFunctionOnSet(f, s \ {a}) BY <2>2, SumRemove
  <2>4. SumFunctionOnSet(g, s) = g[a] + SumFunctionOnSet(g, s \ {a}) BY <2>2, SumRemove
  <2>5. SumFunctionOnSet(f, s \ {a}) \in Int
    <3>1. \A x \in s \ {a} : f[x] \in Int OBVIOUS
    <3>. QED BY <2>2, <3>1, SumType
  <2>6. SumFunctionOnSet(g, s \ {a}) \in Int
    <3>1. \A x \in s \ {a} : g[x] \in Int OBVIOUS
    <3>. QED BY <2>2, <3>1, SumType
  <2>7. SumFunctionOnSet(f, s \ {a}) <= SumFunctionOnSet(g, s \ {a}) BY <1>2
  <2>. QED BY <2>1, <2>3, <2>4, <2>5, <2>6, <2>7
<1>3. SUBSET X \subseteq Q
  <2>. HIDE DEF Q
  <2>. QED BY <1>1, <1>2, SubsetInduction
<1>. QED BY <1>3

(* A sum of multiples is the multiple of the sum.                          *)
LEMMA SumOfMultiples ==
    ASSUME NEW X, IsFiniteSet(X), NEW f, NEW g, NEW k \in Int, \A x \in X : g[x] \in Int /\ f[x] = k * g[x]
    PROVE  SumFunctionOnSet(f, X) = k * SumFunctionOnSet(g, X)
<1>. DEFINE Q == {s \in SUBSET X : SumFunctionOnSet(f, s) = k * SumFunctionOnSet(g, s)}
<1>1. {} \in Q BY SumEmpty
<1>2. ASSUME NEW s \in SUBSET X, s # {}, \A x \in s : s \ {x} \in Q PROVE s \in Q
  <2>1. PICK a \in s : TRUE BY <1>2
  <2>2. IsFiniteSet(s) /\ IsFiniteSet(s \ {a}) BY FS_Subset
  <2>3. SumFunctionOnSet(f, s) = f[a] + SumFunctionOnSet(f, s \ {a})
    <3>1. \A x \in s : f[x] \in Int OBVIOUS
    <3>. QED BY <2>1, <2>2, <3>1, SumRemove
  <2>4. SumFunctionOnSet(g, s) = g[a] + SumFunctionOnSet(g, s \ {a}) BY <2>2, SumRemove
  <2>5. SumFunctionOnSet(g, s \ {a}) \in Int
    <3>1. \A x \in s \ {a} : g[x] \in Int OBVIOUS
    <3>. QED BY <2>2, <3>1, SumType
  <2>6. SumFunctionOnSet(f, s \ {a}) = k * SumFunctionOnSet(g, s \ {a}) BY <1>2
  <2>7. \A b, c \in Int : k * b + k * c = k * (b + c) OBVIOUS
  <2>8. f[a] = k * g[a] /\ g[a] \in Int BY <2>1
  <2>. QED BY <2>3, <2>4, <2>5, <2>6, <2>7, <2>8
<1>3. SUBSET X \subseteq Q
  <2>. HIDE DEF Q
  <2>. QED BY <1>1, <1>2, SubsetInduction
<1>. QED BY <1>3

(* The parts of a set by the keys of its elements.                         *)
PartOf(key, p) == {i \in DOMAIN key : key[i] = p}
PartsOf(key, s) == {i \in DOMAIN key : key[i] \in s}
CountsParts(f, key, s) == \A p \in s : f[p] = Cardinality(PartOf(key, p))

(* The parts of a set add up to it.                                        *)
LEMMA PartsAddUp ==
    ASSUME NEW key, IsFiniteSet(DOMAIN key), NEW parts, IsFiniteSet(parts), NEW f, CountsParts(f, key, parts)
    PROVE  SumFunctionOnSet(f, parts) = Cardinality(PartsOf(key, parts))
<1>. DEFINE Q == {s \in SUBSET parts : SumFunctionOnSet(f, s) = Cardinality(PartsOf(key, s))}
<1>1. \A s : IsFiniteSet(PartsOf(key, s)) /\ Cardinality(PartsOf(key, s)) \in Nat
  BY FS_Subset, FS_CardinalityType DEF PartsOf
<1>2. \A d : IsFiniteSet(PartOf(key, d)) /\ Cardinality(PartOf(key, d)) \in Nat
  BY FS_Subset, FS_CardinalityType DEF PartOf
<1>3. \A d \in parts : f[d] = Cardinality(PartOf(key, d)) /\ f[d] \in Int BY <1>2 DEF CountsParts
<1>4. {} \in Q
  <2>1. PartsOf(key, {}) = {} BY DEF PartsOf
  <2>. QED BY <2>1, SumEmpty, FS_EmptySet
<1>5. ASSUME NEW s \in SUBSET parts, s # {}, \A x \in s : s \ {x} \in Q PROVE s \in Q
  <2>1. PICK d \in s : TRUE BY <1>5
  <2>2. d \in parts /\ IsFiniteSet(s) /\ \A x \in s : f[x] \in Int BY <1>3, <2>1, FS_Subset
  <2>3. SumFunctionOnSet(f, s) = f[d] + SumFunctionOnSet(f, s \ {d}) BY <2>1, <2>2, SumRemove
  <2>4. SumFunctionOnSet(f, s \ {d}) = Cardinality(PartsOf(key, s \ {d})) BY <1>5, <2>1
  <2>5. PartsOf(key, s) = PartOf(key, d) \cup PartsOf(key, s \ {d})
        /\ PartOf(key, d) \cap PartsOf(key, s \ {d}) = {}
    BY <2>1 DEF PartOf, PartsOf
  <2>6. Cardinality(PartsOf(key, s)) = Cardinality(PartOf(key, d)) + Cardinality(PartsOf(key, s \ {d}))
    <3>. DEFINE A0 == PartOf(key, d)
                B0 == PartsOf(key, s \ {d})
    <3>1. IsFiniteSet(A0) /\ IsFiniteSet(B0) /\ Cardinality(A0) \in Nat /\ Cardinality(B0) \in Nat BY <1>1, <1>2
    <3>2. A0 \cap B0 = {} BY <2>5
    <3>. HIDE DEF A0, B0
    <3>3. Cardinality(A0 \cup B0) = Cardinality(A0) + Cardinality(B0) - Cardinality(A0 \cap B0)
      BY <3>1, FS_Union
    <3>4. Cardinality(A0 \cap B0) = 0 BY <3>2, FS_EmptySet
    <3>5. Cardinality(A0 \cup B0) = Cardinality(A0) + Cardinality(B0) BY <3>1, <3>3, <3>4
    <3>. QED BY <2>5, <3>5 DEF A0, B0
  <2>7. SumFunctionOnSet(f, s) = Cardinality(PartsOf(key, s)) BY <1>3, <2>2, <2>3, <2>4, <2>6
  <2>. QED BY <2>7
<1>6. SUBSET parts \subseteq Q
  <2>. HIDE DEF Q
  <2>. QED BY <1>4, <1>5, SubsetInduction
<1>. QED BY <1>6

-----------------------------------------------------------------------------
(* Calibration: the bins of the confidences                                *)

(* The bin of a confidence, the pairs of a bin and the right ones, and what*)
(* the confidences of the bin differ from them.                            *)
BinOf(pair) == IF pair.confidence = 100 THEN 9 ELSE pair.confidence \div 10

Group(pairs, bin) == {i \in DOMAIN pairs : InBin(pairs[i], bin)}
Right(pairs, bin) == {i \in Group(pairs, bin) : pairs[i].correct}
ConfidencesOf(pairs, bin) == [i \in Group(pairs, bin) |-> pairs[i].confidence]
Gap(pairs, bin) == Distance(SumFunction(ConfidencesOf(pairs, bin)), 100 * Cardinality(Right(pairs, bin)))
Gaps(pairs) == [bin \in 0..9 |-> Gap(pairs, bin)]

ArePairs(pairs) == IsFiniteSet(DOMAIN pairs) /\ \A i \in DOMAIN pairs : pairs[i].confidence \in 0..100

(* A confidence is in the bin of its tens, the highest one in the last bin.*)
LEMMA BinIs ==
    ASSUME NEW pair, pair.confidence \in 0..100
    PROVE  BinOf(pair) \in 0..9 /\ \A bin \in 0..9 : InBin(pair, bin) <=> bin = BinOf(pair)
<1>. DEFINE c == pair.confidence
            b == c \div 10
<1>1. c \in 0..100 OBVIOUS
<1>. HIDE DEF c
<1>2. b \in Int /\ 10 * b <= c /\ c < 10 * (b + 1) BY <1>1
<1>. HIDE DEF b
<1>3. CASE c = 100
  <2>1. \A bin \in 0..9 : (10 * bin <= c /\ c <= 10 * (bin + 1) /\ (bin = 9 \/ c < 10 * (bin + 1))) <=> bin = 9 BY <1>3
  <2>2. BinOf(pair) = 9 BY <1>3 DEF BinOf, c
  <2>. QED BY <2>1, <2>2 DEF InBin, c
<1>4. CASE c # 100
  <2>1. b \in 0..9 BY <1>1, <1>2, <1>4
  <2>2. \A bin \in 0..9 : (10 * bin <= c /\ c <= 10 * (bin + 1) /\ (bin = 9 \/ c < 10 * (bin + 1))) <=> bin = b
    BY <1>1, <1>2, <1>4, <2>1
  <2>3. BinOf(pair) = b BY <1>4 DEF BinOf, c, b
  <2>. QED BY <2>1, <2>2, <2>3 DEF InBin, c
<1>. QED BY <1>3, <1>4

(* The calibration error by its bins.                                      *)
LEMMA EceIs ==
    ASSUME NEW pairs
    PROVE  Ece(pairs) = Over(SumFunctionOnSet(Gaps(pairs), 0..9), 100 * Cardinality(DOMAIN pairs))
<1>. DEFINE f == [bin \in 0..9 |-> Distance(SumFunction([i \in {i \in DOMAIN pairs : InBin(pairs[i], bin)} |-> pairs[i].confidence]),
                     100 * Cardinality({i \in {i \in DOMAIN pairs : InBin(pairs[i], bin)} : pairs[i].correct}))]
<1>1. f = Gaps(pairs) BY Zenon DEF Gaps, Gap, ConfidencesOf, Right, Group
<1>2. DOMAIN f = 0..9 OBVIOUS
<1>3. Ece(pairs) = Over(SumFunction(f), 100 * Cardinality(DOMAIN pairs)) BY Zenon DEF Ece
<1>. HIDE DEF f
<1>4. SumFunction(f) = SumFunctionOnSet(f, 0..9) BY <1>2 DEF SumFunction
<1>. QED BY <1>1, <1>3, <1>4

(* The gap of a bin is a whole number, at most 100 for each of its pairs;  *)
(* it is zero when all of the bin are right and certain.                   *)
LEMMA GapIs ==
    ASSUME NEW pairs, ArePairs(pairs), NEW bin \in 0..9
    PROVE  /\ Cardinality(Group(pairs, bin)) \in Nat
           /\ Gap(pairs, bin) \in 0..(100 * Cardinality(Group(pairs, bin)))
           /\ (\A i \in Group(pairs, bin) : pairs[i].confidence = 100) =>
                  (Gap(pairs, bin) = 0 <=> \A i \in Group(pairs, bin) : pairs[i].correct)
<1>. DEFINE X == Group(pairs, bin)
            R == Right(pairs, bin)
            f == ConfidencesOf(pairs, bin)
            n == Cardinality(X)
            r == Cardinality(R)
            t == SumFunctionOnSet(f, X)
<1>1. IsFiniteSet(X) /\ \A i \in X : f[i] = pairs[i].confidence /\ f[i] \in 0..100
  BY FS_Subset DEF ArePairs, Group, ConfidencesOf
<1>2. DOMAIN f = X BY DEF ConfidencesOf
<1>3. R \subseteq X /\ \A i \in X : i \in R <=> pairs[i].correct BY DEF Right
<1>4. Gap(pairs, bin) = Distance(t, 100 * r) BY <1>2, Zenon DEF Gap, SumFunction
<1>. HIDE DEF X, R, f
<1>5. n \in Nat BY <1>1, FS_CardinalityType
<1>6. r \in Nat /\ r <= n /\ (r = n => R = X) BY <1>1, <1>3, FS_Subset, FS_CardinalityType
<1>7. t \in Nat
  <2>1. \A i \in X : f[i] \in Nat BY <1>1
  <2>. QED BY <1>1, <2>1, SumIsNatural
<1>8. t <= 100 * n
  <2>. DEFINE g == [i \in X |-> 100]
  <2>1. \A i \in X : f[i] \in Int /\ g[i] \in Int /\ f[i] <= g[i] BY <1>1
  <2>2. \A i \in X : g[i] = 100 OBVIOUS
  <2>. HIDE DEF g
  <2>3. t <= SumFunctionOnSet(g, X) BY <1>1, <2>1, SumAtMost
  <2>4. SumFunctionOnSet(g, X) = n * 100
    <3>1. IsFiniteSet(X) /\ 100 \in Int BY <1>1
    <3>. HIDE DEF n, r, t
    <3>2. SumFunctionOnSet(g, X) = Cardinality(X) * 100 BY <2>2, <3>1, SumConstant
    <3>. QED BY <3>2 DEF n
  <2>. QED BY <1>5, <2>3, <2>4
<1>9. ASSUME \A i \in X : pairs[i].confidence = 100 PROVE t = 100 * n
  <2>1. 100 \in Int /\ \A i \in X : f[i] = 100 BY <1>1, <1>9
  <2>2. t = n * 100 BY <1>1, <2>1, SumConstant
  <2>. QED BY <1>5, <2>2
<1>. HIDE DEF n, r, t
<1>10. Gap(pairs, bin) \in 0..(100 * n) BY <1>4, <1>5, <1>6, <1>7, <1>8 DEF Distance
<1>11. ASSUME \A i \in X : pairs[i].confidence = 100
       PROVE  Gap(pairs, bin) = 0 <=> \A i \in X : pairs[i].correct
  <2>1. t = 100 * n BY <1>9, <1>11
  <2>2. Gap(pairs, bin) = 0 <=> r = n BY <1>4, <1>5, <1>6, <2>1 DEF Distance
  <2>3. r = n <=> R = X BY <1>6 DEF r, n
  <2>. QED BY <1>3, <2>2, <2>3
<1>. QED BY <1>5, <1>10, <1>11 DEF X, n

(* The calibration error of any answers is a share: each confidence is in  *)
(* one bin. It is zero for answers given for certain exactly when all of   *)
(* them are right (_ece).                                                  *)
THEOREM CalibrationIsAShare ==
    ASSUME NEW pairs, ArePairs(pairs), DOMAIN pairs # {}
    PROVE  /\ \A i \in DOMAIN pairs : Cardinality({bin \in 0..9 : InBin(pairs[i], bin)}) = 1
           /\ Ece(pairs)[1] \in 0..(100 * Cardinality(DOMAIN pairs))
           /\ Ece(pairs)[2] = 100 * Cardinality(DOMAIN pairs)
           /\ (\A i \in DOMAIN pairs : pairs[i].confidence = 100) =>
                  (Ece(pairs)[1] = 0 <=> \A i \in DOMAIN pairs : pairs[i].correct)
<1>. DEFINE X == DOMAIN pairs
            B == 0..9
            f == Gaps(pairs)
            n == Cardinality(X)
            total == SumFunctionOnSet(f, B)
            key == [i \in X |-> BinOf(pairs[i])]
            c == [bin \in B |-> Cardinality(Group(pairs, bin))]
            d == [bin \in B |-> 100 * c[bin]]
<1>1. \A i \in X : BinOf(pairs[i]) \in B /\ \A bin \in B : InBin(pairs[i], bin) <=> bin = BinOf(pairs[i])
  BY BinIs DEF ArePairs
<1>2. IsFiniteSet(X) /\ IsFiniteSet(B)
  <2>1. 0 \in Int /\ 9 \in Int OBVIOUS
  <2>. QED BY <2>1, FS_Interval DEF ArePairs
<1>3. n \in Nat /\ n # 0 BY <1>2, FS_CardinalityType, FS_EmptySet
<1>4. \A i \in X : {bin \in B : InBin(pairs[i], bin)} = {BinOf(pairs[i])} BY <1>1
<1>5. \A bin \in B : f[bin] = Gap(pairs, bin) BY DEF Gaps
<1>6. \A bin \in B : c[bin] \in Nat /\ d[bin] = 100 * c[bin] /\ f[bin] \in 0..d[bin] BY <1>5, GapIs
<1>7. SumFunctionOnSet(c, B) = n
  <2>1. DOMAIN key = X OBVIOUS
  <2>2. \A bin \in B : Group(pairs, bin) = PartOf(key, bin) BY <1>1 DEF Group, PartOf
  <2>3. PartsOf(key, B) = X BY <1>1 DEF PartsOf
  <2>4. CountsParts(c, key, B) BY <2>2, Zenon DEF CountsParts
  <2>. HIDE DEF c, key, X, B
  <2>. QED BY <1>2, <2>1, <2>3, <2>4, PartsAddUp DEF n
<1>. HIDE DEF f, c, d
<1>8. SumFunctionOnSet(d, B) = 100 * n
  <2>1. 100 \in Int /\ \A bin \in B : c[bin] \in Int /\ d[bin] = 100 * c[bin] BY <1>6
  <2>. HIDE DEF B, n
  <2>. QED BY <1>2, <1>7, <2>1, SumOfMultiples
<1>9. total <= 100 * n
  <2>1. \A bin \in B : f[bin] \in Int /\ d[bin] \in Int /\ f[bin] <= d[bin] BY <1>6
  <2>. HIDE DEF B, n
  <2>. QED BY <1>2, <1>8, <2>1, SumAtMost
<1>10. \A bin \in B : f[bin] \in Nat BY <1>6
<1>11. total \in Nat
  <2>. HIDE DEF B
  <2>. QED BY <1>2, <1>10, SumIsNatural
<1>12. Ece(pairs) = <<total, 100 * n>> BY <1>3, EceIs DEF Over, f
<1>13. ASSUME \A i \in X : pairs[i].confidence = 100
       PROVE  Ece(pairs)[1] = 0 <=> \A i \in X : pairs[i].correct
  <2>1. total = 0 <=> \A bin \in B : f[bin] = 0
    <3>. HIDE DEF B
    <3>. QED BY <1>2, <1>10, SumIsZero
  <2>2. \A bin \in B : f[bin] = 0 <=> \A i \in Group(pairs, bin) : pairs[i].correct
    <3>1. \A bin \in B : \A i \in Group(pairs, bin) : pairs[i].confidence = 100 BY <1>13 DEF Group
    <3>2. \A bin \in B : Gap(pairs, bin) = 0 <=> \A i \in Group(pairs, bin) : pairs[i].correct BY <3>1, GapIs
    <3>. QED BY <1>5, <3>2
  <2>3. \A i \in X : i \in Group(pairs, BinOf(pairs[i])) BY <1>1 DEF Group
  <2>4. \A bin \in B : Group(pairs, bin) \subseteq X BY DEF Group
  <2>5. (\A bin \in B : \A i \in Group(pairs, bin) : pairs[i].correct) <=> \A i \in X : pairs[i].correct
    BY <1>1, <2>3, <2>4, Zenon
  <2>. HIDE DEF total, n, B
  <2>. QED BY <1>12, <2>1, <2>2, <2>5
<1>14. \A i \in X : Cardinality({bin \in B : InBin(pairs[i], bin)}) = 1 BY <1>4, FS_Singleton
<1>. HIDE DEF total, n
<1>15. Ece(pairs)[1] = total /\ Ece(pairs)[2] = 100 * n BY <1>12
<1>. QED BY <1>3, <1>9, <1>11, <1>13, <1>14, <1>15 DEF n

-----------------------------------------------------------------------------
(* Fractions and their sums                                                *)

(* Shares are pairs of a numerator and a denominator.                      *)
Fraction == Nat \X (Nat \ {0})

(* The sums over the subsets of a set, element by element.                 *)
IsFractionSum(g, f, S) == \A s \in SUBSET S :
    /\ g[s] \in Fraction
    /\ g[s] = IF s = {} THEN <<0, 1>> ELSE Plus(f[AnyOf(s)], g[s \ {AnyOf(s)}])

(* The sum of two fractions is a fraction.                                 *)
LEMMA PlusType == ASSUME NEW p \in Fraction, NEW q \in Fraction PROVE Plus(p, q) \in Fraction
<1>1. \A a, b \in Nat : a * b \in Nat OBVIOUS
<1>2. \A a, b \in Nat \ {0} : a * b # 0 OBVIOUS
<1>3. p[1] \in Nat /\ q[1] \in Nat /\ p[2] \in Nat \ {0} /\ q[2] \in Nat \ {0} BY DEF Fraction
<1>4. p[1] * q[2] \in Nat /\ q[1] * p[2] \in Nat /\ p[2] * q[2] \in Nat BY <1>1, <1>3
<1>5. p[2] * q[2] # 0 BY <1>2, <1>3
<1>6. p[1] * q[2] + q[1] * p[2] \in Nat BY <1>4
<1>. QED BY <1>4, <1>5, <1>6 DEF Plus, Fraction

(* The sum of fractions adds them up one by one.                           *)
LEMMA FractionSum ==
    ASSUME NEW f, IsFiniteSet(DOMAIN f), \A x \in DOMAIN f : f[x] \in Fraction
    PROVE  \E g : IsFractionSum(g, f, DOMAIN f) /\ Sum(f) = g[DOMAIN f]
<1>. DEFINE S == DOMAIN f
            Eq(g) == g = [s \in SUBSET S |-> IF s = {} THEN <<0, 1>> ELSE Plus(f[AnyOf(s)], g[s \ {AnyOf(s)}])]
            iter == CHOOSE g : Eq(g)
            step == [x \in S |-> [w \in Fraction |-> Plus(f[x], w)]]
            pick == [s \in SUBSET S |-> AnyOf(s)]
<1>1. step \in [S -> [Fraction -> Fraction]] BY PlusType
<1>2. Picks(pick, S) BY DEF AnyOf, Picks
<1>3. PICK g \in [SUBSET S -> Fraction] : IsFold(g, <<0, 1>>, step, pick, S)
  <2>1. <<0, 1>> \in Fraction BY DEF Fraction
  <2>2. IsFiniteSet(S) OBVIOUS
  <2>. HIDE DEF step, pick, S
  <2>. QED BY <1>1, <1>2, <2>1, <2>2, FoldExists, Zenon
<1>4. ASSUME NEW s \in SUBSET S
      PROVE  g[s] = IF s = {} THEN <<0, 1>> ELSE Plus(f[AnyOf(s)], g[s \ {AnyOf(s)}])
  <2>1. CASE s = {} BY <1>3, <2>1 DEF IsFold
  <2>2. CASE s # {}
    <3>1. pick[s] = AnyOf(s) /\ AnyOf(s) \in S /\ g[s \ {AnyOf(s)}] \in Fraction BY <1>2, <2>2 DEF Picks
    <3>2. step[AnyOf(s)][g[s \ {AnyOf(s)}]] = Plus(f[AnyOf(s)], g[s \ {AnyOf(s)}]) BY <3>1
    <3>. QED BY <1>3, <2>2, <3>1, <3>2 DEF IsFold
  <2>. QED BY <2>1, <2>2
<1>5. Eq(g) BY <1>4
<1>6. Eq(iter)
  <2>. HIDE DEF Eq
  <2>. QED BY <1>5
<1>7. Sum(f) = iter[S] BY DEF Sum, FoldFunction, FoldFunctionOnSet, MapThenFoldSet, AnyOf
<1>8. \A s \in SUBSET S : iter[s] = IF s = {} THEN <<0, 1>> ELSE Plus(f[AnyOf(s)], iter[s \ {AnyOf(s)}])
  <2>. HIDE DEF iter
  <2>. QED BY <1>6
<1>. DEFINE Q == {s \in SUBSET S : iter[s] \in Fraction}
<1>9. {} \in Q
  <2>1. iter[{}] = <<0, 1>>
    <3>1. {} \in SUBSET S OBVIOUS
    <3>. HIDE DEF iter, S
    <3>. QED BY Zenon, <1>8, <3>1
  <2>2. <<0, 1>> \in Fraction BY DEF Fraction
  <2>. HIDE DEF iter
  <2>. QED BY <2>1, <2>2
<1>10. ASSUME NEW s \in SUBSET S, s # {}, \A x \in s : s \ {x} \in Q PROVE s \in Q
  <2>1. AnyOf(s) \in s BY <1>10 DEF AnyOf
  <2>2. f[AnyOf(s)] \in Fraction /\ iter[s \ {AnyOf(s)}] \in Fraction BY <1>10, <2>1
  <2>3. Plus(f[AnyOf(s)], iter[s \ {AnyOf(s)}]) \in Fraction BY <2>2, PlusType
  <2>4. iter[s] = Plus(f[AnyOf(s)], iter[s \ {AnyOf(s)}])
    <3>. HIDE DEF iter, S
    <3>. QED BY Zenon, <1>8, <1>10
  <2>. HIDE DEF iter
  <2>. QED BY <2>3, <2>4
<1>11. SUBSET S \subseteq Q
  <2>. HIDE DEF Q, S
  <2>. QED BY <1>9, <1>10, SubsetInduction DEF S
<1>12. IsFractionSum(iter, f, S)
  <2>. HIDE DEF iter
  <2>. QED BY <1>8, <1>11 DEF IsFractionSum
<1>. QED BY <1>7, <1>12

(* A product grows with its factor.                                        *)
LEMMA Times == ASSUME NEW a \in Int, NEW b \in Int, NEW k \in Nat, a <= b PROVE a * k <= b * k
OBVIOUS

(* Fractions that are one.                                                 *)
AreOnes(f, X) == \A x \in X : \E k \in Nat \ {0} : f[x] = <<k, k>>

(* Ones add up to their number.                                            *)
LEMMA SumOfOnes ==
    ASSUME NEW X, IsFiniteSet(X), NEW f, DOMAIN f = X, AreOnes(f, X)
    PROVE  Sum(f) \in Fraction /\ Sum(f)[1] = Sum(f)[2] * Cardinality(X)
<1>1. \A x \in X : f[x] \in Fraction BY DEF AreOnes, Fraction
<1>2. PICK a : IsFractionSum(a, f, X) /\ Sum(f) = a[X] BY <1>1, FractionSum
<1>. DEFINE Q == {s \in SUBSET X : a[s][1] = a[s][2] * Cardinality(s)}
<1>3. {} \in Q
  <2>1. a[{}] = <<0, 1>> BY <1>2 DEF IsFractionSum
  <2>. QED BY <2>1, FS_EmptySet
<1>4. ASSUME NEW s \in SUBSET X, s # {}, \A x \in s : s \ {x} \in Q PROVE s \in Q
  <2>. DEFINE x == AnyOf(s)
              u == s \ {x}
              m == Cardinality(u)
              v == a[u][2]
  <2>1. x \in s BY <1>4 DEF AnyOf
  <2>2. u \in SUBSET X /\ a[u][1] = v * m BY <1>4, <2>1
  <2>3. a[s] = Plus(f[x], a[u]) /\ a[u] \in Fraction BY <1>2, <1>4, <2>2 DEF IsFractionSum
  <2>4. PICK k \in Nat \ {0} : f[x] = <<k, k>> BY <2>1 DEF AreOnes
  <2>5. m \in Nat /\ Cardinality(s) = m + 1
    <3>1. IsFiniteSet(s) BY FS_Subset
    <3>2. IsFiniteSet(u) /\ m = Cardinality(s) - 1 BY <2>1, <3>1, FS_RemoveElement
    <3>. QED BY <3>1, <3>2, FS_CardinalityType
  <2>6. v \in Nat BY <2>3 DEF Fraction
  <2>7. a[s] = <<k * v + (v * m) * k, k * v>> BY <2>2, <2>3, <2>4 DEF Plus
  <2>. HIDE DEF x, u, m, v
  <2>8. k * v + (v * m) * k = (k * v) * (m + 1) BY <2>5, <2>6
  <2>. QED BY <2>5, <2>7, <2>8
<1>5. SUBSET X \subseteq Q
  <2>. HIDE DEF Q
  <2>. QED BY <1>3, <1>4, SubsetInduction
<1>6. a[X] \in Fraction BY <1>2 DEF IsFractionSum
<1>. QED BY <1>2, <1>5, <1>6

-----------------------------------------------------------------------------
(* Classification: the cells of a class, failures and slices               *)

(* The rows of a run, with the true class and the one said, if any.        *)
AreLabelled(truth, said, X) ==
    /\ IsFiniteSet(X) /\ DOMAIN truth = X /\ DOMAIN said = X
    /\ \A i \in X : said[i] = <<>> \/ \E c : said[i] = <<c>>

IsSo(truth, class) == {i \in DOMAIN truth : truth[i] = class}
IsSaid(said, class) == {i \in DOMAIN said : said[i] = <<class>>}

(* A report by its parts.                                                  *)
IsReport(report, truth, said, K) ==
    /\ report.evaluated = Cardinality(Answered(said))
    /\ report.accuracy = <<Cardinality(Correct(truth, said)), Cardinality(DOMAIN truth)>>
    /\ \A c \in K : report.perClass[c] = PerClass(truth, said, c)
    /\ report.macro = Sum([c \in K |-> PerClass(truth, said, c).f1])

(* The report of a run has these parts (_classification).                  *)
LEMMA ClassificationIs ==
    ASSUME NEW truth, NEW said, NEW K
    PROVE  IsReport(Classification(truth, said, K), truth, said, K)
<1>. DEFINE report == Classification(truth, said, K)
            per == [c \in K |-> PerClass(truth, said, c)]
            matrix == [p \in K \X K |-> Cardinality({i \in DOMAIN truth : truth[i] = p[1] /\ said[i] = <<p[2]>>})]
<1>1. report = [evaluated |-> Cardinality(Answered(said)),
                accuracy |-> <<Cardinality(Correct(truth, said)), Cardinality(DOMAIN truth)>>,
                macro |-> Sum([c \in K |-> per[c].f1]), perClass |-> per, matrix |-> matrix]
  BY Zenon DEF Classification
<1>. HIDE DEF matrix, report
<1>2. report.perClass = per /\ \A c \in K : per[c] = PerClass(truth, said, c) BY <1>1
<1>3. [c \in K |-> per[c].f1] = [c \in K |-> PerClass(truth, said, c).f1] BY Zenon
<1>. HIDE DEF per
<1>4. IsReport(report, truth, said, K) BY <1>1, <1>2, <1>3 DEF IsReport
<1>. QED BY <1>4 DEF report

(* The counts of a class whose rows are S when T are said to be of it.     *)
CellsCount(c, S, T) ==
    /\ c.tp = Cardinality(S \cap T) /\ c.fp = Cardinality(T \ S) /\ c.fn = Cardinality(S \ T)
    /\ c.tp \in Nat /\ c.fp \in Nat /\ c.fn \in Nat
    /\ c.tp + c.fn = Cardinality(S)

(* The cells of a class count its rows and those said to be of it.         *)
LEMMA CellsAre ==
    ASSUME NEW truth, NEW said, NEW X, AreLabelled(truth, said, X), NEW class
    PROVE  CellsCount(Cells(truth, said, class), IsSo(truth, class), IsSaid(said, class))
<1>. DEFINE S == IsSo(truth, class)
            T == IsSaid(said, class)
            c == Cells(truth, said, class)
<1>1. c = [tp |-> Cardinality(S \cap T), fp |-> Cardinality(T \ S), fn |-> Cardinality(S \ T)]
  BY Zenon DEF Cells, IsSo, IsSaid
<1>2. S \subseteq X /\ T \subseteq X BY DEF IsSo, IsSaid, AreLabelled
<1>. HIDE DEF S, T, c
<1>3. IsFiniteSet(S) /\ IsFiniteSet(T) BY <1>2, FS_Subset DEF AreLabelled
<1>4. IsFiniteSet(S \cap T) /\ IsFiniteSet(T \ S) /\ IsFiniteSet(S \ T) BY <1>3, FS_Subset
<1>5. Cardinality(S \cap T) \in Nat /\ Cardinality(T \ S) \in Nat /\ Cardinality(S \ T) \in Nat /\ Cardinality(S) \in Nat
  BY <1>3, <1>4, FS_CardinalityType
<1>6. Cardinality(S \ T) = Cardinality(S) - Cardinality(S \cap T) BY <1>3, FS_Difference
<1>7. CellsCount(c, S, T) BY <1>1, <1>5, <1>6 DEF CellsCount
<1>. QED BY <1>7 DEF S, T, c

(* Shares are fractions.                                                   *)
LEMMA ShareType == ASSUME NEW n \in Nat, NEW d \in Nat PROVE Share(n, d) \in Fraction
BY DEF Share, Fraction

(* One row more is found and one less is missed.                           *)
FoundOneMore(b, c) == b.fn > 0 /\ c.tp = b.tp + 1 /\ c.fp = b.fp /\ c.fn = b.fn - 1

(* A right answer in the place of a failure is found and no longer missed. *)
LEMMA RightCells ==
    ASSUME NEW truth, NEW said, NEW X, AreLabelled(truth, said, X), NEW i \in X, said[i] = <<>>
    PROVE  FoundOneMore(Cells(truth, said, truth[i]), Cells(truth, [said EXCEPT ![i] = <<truth[i]>>], truth[i]))
<1>. DEFINE k == truth[i]
            other == [said EXCEPT ![i] = <<k>>]
            b == Cells(truth, said, k)
            c == Cells(truth, other, k)
            S == IsSo(truth, k)
            T == IsSaid(said, k)
            U == IsSaid(other, k)
<1>1. AreLabelled(truth, other, X) BY DEF AreLabelled
<1>2. i \in S /\ i \notin T /\ U = T \cup {i} BY DEF IsSo, IsSaid, AreLabelled
<1>3. S \subseteq X /\ T \subseteq X BY DEF IsSo, IsSaid, AreLabelled
<1>. HIDE DEF other, k
<1>4. CellsCount(b, S, T) BY Zenon, CellsAre
<1>5. CellsCount(c, S, U) BY Zenon, <1>1, CellsAre
<1>. HIDE DEF S, T, U, b, c
<1>6. IsFiniteSet(S) /\ IsFiniteSet(S \cap T) /\ IsFiniteSet(S \ T) BY <1>3, FS_Subset DEF AreLabelled
<1>7. S \cap U = (S \cap T) \cup {i} /\ U \ S = T \ S /\ S \ U = (S \ T) \ {i} BY <1>2
<1>8. Cardinality((S \cap T) \cup {i}) = Cardinality(S \cap T) + 1
  <2>1. i \notin S \cap T BY <1>2
  <2>. QED BY <1>6, <2>1, FS_AddElement
<1>9. Cardinality((S \ T) \ {i}) = Cardinality(S \ T) - 1
  <2>1. i \in S \ T BY <1>2
  <2>. QED BY <1>6, <2>1, FS_RemoveElement
<1>10. c.tp = b.tp + 1 /\ c.fp = b.fp /\ c.fn = b.fn - 1 BY <1>4, <1>5, <1>7, <1>8, <1>9 DEF CellsCount
<1>11. b.fn \in Nat /\ c.fn \in Nat BY <1>4, <1>5 DEF CellsCount
<1>12. FoundOneMore(b, c) BY <1>10, <1>11 DEF FoundOneMore
<1>. QED BY <1>12 DEF other, k, b, c

(* Another class has the counts it had.                                    *)
LEMMA OtherCells ==
    ASSUME NEW truth, NEW said, NEW X, AreLabelled(truth, said, X), NEW i \in X, said[i] = <<>>,
           NEW c, NEW d, c # d
    PROVE  PerClass(truth, [said EXCEPT ![i] = <<c>>], d) = PerClass(truth, said, d)
<1>. DEFINE other == [said EXCEPT ![i] = <<c>>]
<1>1. {j \in DOMAIN other : other[j] = <<d>>} = {j \in DOMAIN said : said[j] = <<d>>} BY DEF AreLabelled
<1>. HIDE DEF other
<1>2. Cells(truth, other, d) = Cells(truth, said, d) BY <1>1, Zenon DEF Cells
<1>3. PerClass(truth, other, d) = PerClass(truth, said, d) BY <1>2, Zenon DEF PerClass
<1>. QED BY <1>3 DEF other

(* The measures of a class.                                                *)
LEMMA PerClassIs ==
    ASSUME NEW truth, NEW said, NEW X, AreLabelled(truth, said, X), NEW class,
           NEW c, c = Cells(truth, said, class), NEW r, r = PerClass(truth, said, class)
    PROVE  /\ c.tp \in Nat /\ c.fp \in Nat /\ c.fn \in Nat
           /\ r.support = Cardinality(IsSo(truth, class))
           /\ r.recall = Share(c.tp, c.tp + c.fn) /\ r.precision = Share(c.tp, c.tp + c.fp)
           /\ r.f1 = Share(2 * c.tp, 2 * c.tp + c.fp + c.fn) /\ r.f1 \in Fraction
<1>1. r = [support |-> c.tp + c.fn, precision |-> Share(c.tp, c.tp + c.fp),
           recall |-> Share(c.tp, c.tp + c.fn), f1 |-> Share(2 * c.tp, 2 * c.tp + c.fp + c.fn)]
  BY Zenon DEF PerClass
<1>2. c.tp \in Nat /\ c.fp \in Nat /\ c.fn \in Nat /\ c.tp + c.fn = Cardinality(IsSo(truth, class))
  BY CellsAre DEF CellsCount
<1>3. 2 * c.tp \in Nat /\ 2 * c.tp + c.fp + c.fn \in Nat BY <1>2
<1>4. Share(2 * c.tp, 2 * c.tp + c.fp + c.fn) \in Fraction BY <1>3, ShareType
<1>. QED BY <1>1, <1>2, <1>4

(* Every row is in the support of its class.                               *)
LEMMA SupportsAddUp ==
    ASSUME NEW truth, NEW said, NEW X, AreLabelled(truth, said, X), NEW K, IsFiniteSet(K), \A j \in X : truth[j] \in K
    PROVE  SumFunctionOnSet([d \in K |-> PerClass(truth, said, d).support], K) = Cardinality(X)
<1>. DEFINE f == [d \in K |-> PerClass(truth, said, d).support]
<1>1. \A d \in K : f[d] = Cardinality(PartOf(truth, d))
  <2>1. \A d \in K : f[d] = PerClass(truth, said, d).support OBVIOUS
  <2>2. \A d : PerClass(truth, said, d).support = Cardinality(IsSo(truth, d)) BY PerClassIs
  <2>3. \A d : IsSo(truth, d) = PartOf(truth, d) BY DEF IsSo, PartOf
  <2>. QED BY <2>1, <2>2, <2>3
<1>2. PartsOf(truth, K) = X BY DEF PartsOf, AreLabelled
<1>. HIDE DEF f
<1>3. CountsParts(f, truth, K) BY <1>1 DEF CountsParts
<1>4. IsFiniteSet(DOMAIN truth) BY DEF AreLabelled
<1>5. SumFunctionOnSet(f, K) = Cardinality(X) BY <1>2, <1>3, <1>4, PartsAddUp
<1>. QED BY <1>5 DEF f

(* Reports that add up to another one.                                     *)
AreSlices(slices, now) ==
    /\ SumFunction([l \in DOMAIN slices |-> slices[l].accuracy[1]]) = now.accuracy[1]
    /\ SumFunction([l \in DOMAIN slices |-> slices[l].evaluated]) = now.evaluated

(* The reports by language count what the report of the split counts       *)
(* (score_evaluation).                                                     *)
LEMMA SlicesAddUp ==
    ASSUME NEW truth, NEW said, NEW X, AreLabelled(truth, said, X), NEW K, NEW N, NEW language \in [X -> N]
    PROVE  AreSlices(LanguageSlices(truth, said, K, language), Classification(truth, said, K))
<1>. DEFINE slices == LanguageSlices(truth, said, K, language)
            now == Classification(truth, said, K)
            L == Range(language)
            rows(l) == {i \in DOMAIN truth : language[i] = l}
            part(l) == Classification(Restrict(truth, rows(l)), Restrict(said, rows(l)), K)
            A == Correct(truth, said)
            B == Answered(said)
            keyA == [i \in A |-> language[i]]
            keyB == [i \in B |-> language[i]]
            f == [l \in L |-> slices[l].accuracy[1]]
            g == [l \in L |-> slices[l].evaluated]
<1>1. slices = [l \in L |-> part(l)] BY Zenon DEF LanguageSlices
<1>2. A \subseteq X /\ B \subseteq X BY DEF Correct, Answered, AreLabelled
<1>3. IsFiniteSet(A) /\ IsFiniteSet(B) /\ IsFiniteSet(L)
  <2>1. language \in [X -> L] /\ \A l \in L : \E i \in X : language[i] = l BY DEF Range
  <2>2. language \in Surjection(X, L)
    <3>. HIDE DEF L
    <3>. QED BY <2>1 DEF Surjection
  <2>3. IsFiniteSet(L) BY <2>2, FS_Surjection DEF AreLabelled
  <2>. QED BY <1>2, <2>3, FS_Subset DEF AreLabelled
<1>4. \A l : Correct(Restrict(truth, rows(l)), Restrict(said, rows(l))) = PartOf(keyA, l)
  BY Zenon DEF Correct, Answered, Restrict, PartOf, AreLabelled
<1>5. \A l : Answered(Restrict(said, rows(l))) = PartOf(keyB, l)
  BY DEF Answered, Restrict, PartOf, AreLabelled
<1>6. PartsOf(keyA, L) = A /\ PartsOf(keyB, L) = B BY <1>2 DEF PartsOf, Range
<1>7. DOMAIN keyA = A /\ DOMAIN keyB = B OBVIOUS
<1>8. now.accuracy[1] = Cardinality(A) /\ now.evaluated = Cardinality(B)
  <2>1. IsReport(now, truth, said, K) BY Zenon, ClassificationIs
  <2>. QED BY <2>1 DEF IsReport
<1>. HIDE DEF rows, keyA, keyB, A, B, slices, now
<1>9. \A l : part(l).accuracy[1] = Cardinality(Correct(Restrict(truth, rows(l)), Restrict(said, rows(l))))
             /\ part(l).evaluated = Cardinality(Answered(Restrict(said, rows(l))))
  <2>1. \A l : IsReport(part(l), Restrict(truth, rows(l)), Restrict(said, rows(l)), K) BY Zenon, ClassificationIs
  <2>. HIDE DEF part
  <2>. QED BY <2>1 DEF IsReport
<1>10. DOMAIN slices = L /\ \A l \in L : slices[l] = part(l) BY <1>1
<1>. HIDE DEF part, L
<1>11. CountsParts(f, keyA, L) /\ CountsParts(g, keyB, L)
  BY <1>4, <1>5, <1>9, <1>10 DEF CountsParts
<1>12. DOMAIN f = L /\ DOMAIN g = L OBVIOUS
<1>. HIDE DEF f, g
<1>13. SumFunctionOnSet(f, L) = Cardinality(A)
  <2>1. SumFunctionOnSet(f, L) = Cardinality(PartsOf(keyA, L)) BY <1>3, <1>7, <1>11, PartsAddUp
  <2>. QED BY <1>6, <2>1
<1>14. SumFunctionOnSet(g, L) = Cardinality(B)
  <2>1. SumFunctionOnSet(g, L) = Cardinality(PartsOf(keyB, L)) BY <1>3, <1>7, <1>11, PartsAddUp
  <2>. QED BY <1>6, <2>1
<1>15. SumFunction(f) = now.accuracy[1] /\ SumFunction(g) = now.evaluated
  BY <1>8, <1>12, <1>13, <1>14 DEF SumFunction
<1>16. AreSlices(slices, now) BY <1>10, <1>15, Zenon DEF f, g, AreSlices
<1>. QED BY <1>16 DEF slices, now

(* A sum of two.                                                           *)
LEMMA SumOfTwo ==
    ASSUME NEW f, f[1] \in Int, f[2] \in Int
    PROVE  SumFunctionOnSet(f, 1..2) = f[1] + f[2]
<1>1. 1..2 = {1, 2} /\ {1, 2} \ {1} = {2} /\ {2} \ {2} = {} OBVIOUS
<1>2. IsFiniteSet({1, 2}) /\ IsFiniteSet({2})
  <2>1. 1 \in Int /\ 2 \in Int OBVIOUS
  <2>2. IsFiniteSet(1..2) BY <2>1, FS_Interval
  <2>. QED BY <1>1, <2>2, FS_Subset
<1>3. SumFunctionOnSet(f, {1, 2}) = f[1] + SumFunctionOnSet(f, {1, 2} \ {1})
  <2>1. 1 \in {1, 2} /\ \A x \in {1, 2} : f[x] \in Int OBVIOUS
  <2>. QED BY <1>2, <2>1, SumRemove
<1>4. SumFunctionOnSet(f, {2}) = f[2] + SumFunctionOnSet(f, {2} \ {2})
  <2>1. 2 \in {2} /\ \A x \in {2} : f[x] \in Int OBVIOUS
  <2>. QED BY <1>2, <2>1, SumRemove
<1>5. SumFunctionOnSet(f, {}) = 0 BY SumEmpty
<1>6. SumFunctionOnSet(f, {2}) = f[2] + 0 BY Zenon, <1>1, <1>4, <1>5
<1>7. SumFunctionOnSet(f, {1, 2}) = f[1] + (f[2] + 0) BY Zenon, <1>1, <1>3, <1>6
<1>8. f[1] + (f[2] + 0) = f[1] + f[2] OBVIOUS
<1>. QED BY <1>1, <1>7, <1>8, Zenon

-----------------------------------------------------------------------------
(* Areas under the curves                                                  *)

(* Each positive row is compared with each negative one, and has the higher*)
(* score, the same or a lower one.                                         *)
Positives(pairs) == {i \in DOMAIN pairs : pairs[i].label}
Negatives(pairs) == DOMAIN pairs \ Positives(pairs)
Contests(pairs) == Positives(pairs) \X Negatives(pairs)
Won(pairs) == {p \in Contests(pairs) : pairs[p[1]].score > pairs[p[2]].score}
Tied(pairs) == {p \in Contests(pairs) : pairs[p[1]].score = pairs[p[2]].score}
Lost(pairs) == {p \in Contests(pairs) : pairs[p[1]].score < pairs[p[2]].score}

AreScored(pairs) ==
    IsFiniteSet(DOMAIN pairs) /\ \A i \in DOMAIN pairs : pairs[i].label \in BOOLEAN /\ pairs[i].score \in Int

(* The area under the ROC curve is the share of the contests that are won. *)
LEMMA AurocIs ==
    ASSUME NEW pairs
    PROVE  Auroc(pairs) = Over(2 * Cardinality(Won(pairs)) + Cardinality(Tied(pairs)),
                               2 * Cardinality(Positives(pairs)) * Cardinality(Negatives(pairs)))
BY Zenon DEF Auroc, Won, Tied, Contests, Positives, Negatives

(* As many elements on both sides of a mapping that has an inverse.        *)
LEMMA MappedBack ==
    ASSUME NEW S, IsFiniteSet(S), NEW T, NEW f \in [S -> T], NEW g \in [T -> S],
           \A x \in S : g[f[x]] = x, \A y \in T : f[g[y]] = y
    PROVE  Cardinality(S) = Cardinality(T)
<1>1. f \in Bijection(S, T) BY DEF Bijection, Injection, Surjection, IsInjective
<1>2. ExistsBijection(S, T) BY <1>1 DEF ExistsBijection
<1>. QED BY <1>2, FS_Bijection

(* The contests are won, tied or lost.                                     *)
LEMMA ContestsAre ==
    ASSUME NEW pairs, AreScored(pairs)
    PROVE  /\ IsFiniteSet(Won(pairs)) /\ IsFiniteSet(Tied(pairs)) /\ IsFiniteSet(Lost(pairs))
           /\ Cardinality(Won(pairs)) \in Nat /\ Cardinality(Tied(pairs)) \in Nat /\ Cardinality(Lost(pairs)) \in Nat
           /\ Cardinality(Positives(pairs)) \in Nat /\ Cardinality(Negatives(pairs)) \in Nat
           /\ Cardinality(Won(pairs)) + Cardinality(Tied(pairs)) + Cardinality(Lost(pairs))
                 = Cardinality(Positives(pairs)) * Cardinality(Negatives(pairs))
<1>. DEFINE P == Positives(pairs)
            N == Negatives(pairs)
            C == Contests(pairs)
            W == Won(pairs)
            T == Tied(pairs)
            L == Lost(pairs)
<1>1. P \subseteq DOMAIN pairs /\ N \subseteq DOMAIN pairs /\ C = P \X N BY DEF Positives, Negatives, Contests
<1>2. W \subseteq C /\ T \subseteq C /\ L \subseteq C BY DEF Won, Tied, Lost
<1>3. \A p \in C : pairs[p[1]].score \in Int /\ pairs[p[2]].score \in Int BY <1>1 DEF AreScored
<1>4. C = (W \cup T) \cup L /\ W \cap T = {} /\ (W \cup T) \cap L = {} BY <1>3 DEF Won, Tied, Lost
<1>. HIDE DEF P, N, C, W, T, L
<1>5. IsFiniteSet(P) /\ IsFiniteSet(N) BY <1>1, FS_Subset DEF AreScored
<1>6. IsFiniteSet(C) /\ Cardinality(C) = Cardinality(P) * Cardinality(N) BY <1>1, <1>5, FS_Product
<1>7. IsFiniteSet(W) /\ IsFiniteSet(T) /\ IsFiniteSet(L) BY <1>2, <1>6, FS_Subset
<1>8. /\ Cardinality(W) \in Nat /\ Cardinality(T) \in Nat /\ Cardinality(L) \in Nat
      /\ Cardinality(P) \in Nat /\ Cardinality(N) \in Nat
  BY <1>5, <1>7, FS_CardinalityType
<1>9. IsFiniteSet(W \cup T) /\ Cardinality(W \cup T) = Cardinality(W) + Cardinality(T)
  <2>1. Cardinality(W \cap T) = 0 BY <1>4, FS_EmptySet
  <2>2. IsFiniteSet(W \cup T) /\ Cardinality(W \cup T) = Cardinality(W) + Cardinality(T) - Cardinality(W \cap T)
    BY <1>7, FS_Union
  <2>. QED BY <1>8, <2>1, <2>2
<1>10. Cardinality((W \cup T) \cup L) = Cardinality(W \cup T) + Cardinality(L)
  <2>1. Cardinality((W \cup T) \cap L) = 0 BY <1>4, FS_EmptySet
  <2>2. Cardinality((W \cup T) \cup L) = Cardinality(W \cup T) + Cardinality(L) - Cardinality((W \cup T) \cap L)
    BY <1>7, <1>9, FS_Union
  <2>. QED BY <1>8, <1>9, <2>1, <2>2
<1>11. Cardinality(W) + Cardinality(T) + Cardinality(L) = Cardinality(P) * Cardinality(N)
  BY <1>4, <1>6, <1>8, <1>9, <1>10
<1>. QED BY <1>7, <1>8, <1>11 DEF P, N, W, T, L

(* The same rows with their labels swapped.                                *)
Swapped(pairs, other) ==
    /\ DOMAIN other = DOMAIN pairs
    /\ \A i \in DOMAIN pairs : other[i].label = ~pairs[i].label /\ other[i].score = pairs[i].score

(* The area under the ROC curve of any scored rows becomes its complement  *)
(* when the labels are swapped (_auroc).                                   *)
THEOREM RocIsComplementary ==
    ASSUME NEW pairs, AreScored(pairs), NEW other, Swapped(pairs, other), Auroc(pairs) # Nothing
    PROVE  Auroc(pairs)[1] + Auroc(other)[1] = Auroc(pairs)[2]
<1>. DEFINE p == Cardinality(Positives(pairs))
            n == Cardinality(Negatives(pairs))
            w == Cardinality(Won(pairs))
            t == Cardinality(Tied(pairs))
            l == Cardinality(Lost(pairs))
<1>1. AreScored(other) BY DEF AreScored, Swapped
<1>2. Positives(other) = Negatives(pairs) /\ Negatives(other) = Positives(pairs)
  BY DEF Positives, Negatives, Swapped, AreScored
<1>3. \A i, j : <<i, j>> \in Contests(other) <=> <<j, i>> \in Contests(pairs) BY <1>2 DEF Contests
<1>4. \A i, j : <<i, j>> \in Contests(other) => other[i].score = pairs[i].score /\ other[j].score = pairs[j].score
  BY DEF Contests, Positives, Negatives, Swapped
<1>5. \A i, j : <<i, j>> \in Contests(other) =>
          pairs[i].score \in Int /\ pairs[j].score \in Int /\ i \in DOMAIN pairs /\ j \in DOMAIN pairs
  BY DEF Contests, Positives, Negatives, Swapped, AreScored
<1>6. \A c \in Contests(pairs) : c = <<c[1], c[2]>> BY DEF Contests
<1>7. \A c \in Contests(other) : c = <<c[1], c[2]>> BY DEF Contests
<1>8. Cardinality(Lost(pairs)) = Cardinality(Won(other))
  <2>. DEFINE f == [c \in Lost(pairs) |-> <<c[2], c[1]>>]
              g == [c \in Won(other) |-> <<c[2], c[1]>>]
  <2>1. \A c \in Lost(pairs) : <<c[2], c[1]>> \in Won(other) /\ c = <<c[1], c[2]>>
    BY <1>3, <1>4, <1>5, <1>6 DEF Lost, Won
  <2>2. \A c \in Won(other) : <<c[2], c[1]>> \in Lost(pairs) /\ c = <<c[1], c[2]>>
    BY <1>3, <1>4, <1>5, <1>7 DEF Lost, Won
  <2>3. f \in [Lost(pairs) -> Won(other)] /\ g \in [Won(other) -> Lost(pairs)] BY <2>1, <2>2
  <2>4. \A c \in Lost(pairs) : g[f[c]] = c BY Zenon, <2>1
  <2>5. \A c \in Won(other) : f[g[c]] = c BY Zenon, <2>2
  <2>. HIDE DEF f, g
  <2>. QED BY <2>3, <2>4, <2>5, ContestsAre, MappedBack
<1>9. Cardinality(Tied(pairs)) = Cardinality(Tied(other))
  <2>. DEFINE f == [c \in Tied(pairs) |-> <<c[2], c[1]>>]
              g == [c \in Tied(other) |-> <<c[2], c[1]>>]
  <2>1. \A c \in Tied(pairs) : <<c[2], c[1]>> \in Tied(other) /\ c = <<c[1], c[2]>>
    BY <1>3, <1>4, <1>6 DEF Tied
  <2>2. \A c \in Tied(other) : <<c[2], c[1]>> \in Tied(pairs) /\ c = <<c[1], c[2]>>
    BY <1>3, <1>4, <1>7 DEF Tied
  <2>3. f \in [Tied(pairs) -> Tied(other)] /\ g \in [Tied(other) -> Tied(pairs)] BY <2>1, <2>2
  <2>4. \A c \in Tied(pairs) : g[f[c]] = c BY Zenon, <2>1
  <2>5. \A c \in Tied(other) : f[g[c]] = c BY Zenon, <2>2
  <2>. HIDE DEF f, g
  <2>. QED BY <2>3, <2>4, <2>5, ContestsAre, MappedBack
<1>10. Auroc(pairs) = Over(2 * w + t, 2 * p * n) BY Zenon, AurocIs
<1>11. Auroc(other) = Over(2 * l + t, 2 * n * p) BY Zenon, <1>2, <1>8, <1>9, AurocIs
<1>12. p \in Nat /\ n \in Nat /\ w \in Nat /\ t \in Nat /\ l \in Nat /\ w + t + l = p * n BY ContestsAre
<1>. HIDE DEF p, n, w, t, l
<1>13. 2 * p * n = 2 * (p * n) /\ 2 * n * p = 2 * (p * n) /\ p * n \in Nat BY <1>12
<1>14. 2 * (p * n) # 0 BY <1>10, <1>13 DEF Over
<1>15. Auroc(pairs) = <<2 * w + t, 2 * (p * n)>> /\ Auroc(other) = <<2 * l + t, 2 * (p * n)>>
  BY <1>10, <1>11, <1>13, <1>14 DEF Over
<1>. QED BY <1>12, <1>15

(* The same rows in another order.                                         *)
Reordered(pairs, other, h) == \A i \in DOMAIN pairs :
    h[i] \in DOMAIN other /\ other[h[i]].label = pairs[i].label /\ other[h[i]].score = pairs[i].score

Inverses(h, k, X, Y) == (\A x \in X : k[h[x]] = x) /\ (\A y \in Y : h[k[y]] = y)

(* It does not depend on the order of the rows (_auroc).                   *)
THEOREM RocIsOfAnyOrder ==
    ASSUME NEW pairs, AreScored(pairs), NEW other, AreScored(other), NEW h, NEW k,
           Reordered(pairs, other, h), Reordered(other, pairs, k),
           Inverses(h, k, DOMAIN pairs, DOMAIN other)
    PROVE  Auroc(other) = Auroc(pairs)
<1>1. Cardinality(Positives(pairs)) = Cardinality(Positives(other))
  <2>. DEFINE S == Positives(pairs)
              T == Positives(other)
              f == [x \in S |-> h[x]]
              g == [x \in T |-> k[x]]
  <2>1. \A x \in S : h[x] \in T /\ k[h[x]] = x BY DEF Positives, Reordered, Inverses
  <2>2. \A x \in T : k[x] \in S /\ h[k[x]] = x BY DEF Positives, Reordered, Inverses
  <2>3. IsFiniteSet(S) BY FS_Subset DEF AreScored, Positives
  <2>. HIDE DEF S, T
  <2>4. f \in [S -> T] /\ g \in [T -> S] /\ (\A x \in S : g[f[x]] = x) /\ (\A y \in T : f[g[y]] = y) BY <2>1, <2>2
  <2>. HIDE DEF f, g
  <2>5. Cardinality(S) = Cardinality(T) BY <2>3, <2>4, MappedBack
  <2>. QED BY <2>5 DEF S, T
<1>2. Cardinality(Negatives(pairs)) = Cardinality(Negatives(other))
  <2>. DEFINE S == Negatives(pairs)
              T == Negatives(other)
              f == [x \in S |-> h[x]]
              g == [x \in T |-> k[x]]
  <2>1. \A x \in S : h[x] \in T /\ k[h[x]] = x BY DEF Positives, Negatives, Reordered, Inverses
  <2>2. \A x \in T : k[x] \in S /\ h[k[x]] = x BY DEF Positives, Negatives, Reordered, Inverses
  <2>3. IsFiniteSet(S) BY FS_Subset DEF AreScored, Negatives
  <2>. HIDE DEF S, T
  <2>4. f \in [S -> T] /\ g \in [T -> S] /\ (\A x \in S : g[f[x]] = x) /\ (\A y \in T : f[g[y]] = y) BY <2>1, <2>2
  <2>. HIDE DEF f, g
  <2>5. Cardinality(S) = Cardinality(T) BY <2>3, <2>4, MappedBack
  <2>. QED BY <2>5 DEF S, T
<1>3. ASSUME NEW c \in Contests(pairs)
      PROVE  /\ <<h[c[1]], h[c[2]]>> \in Contests(other)
             /\ k[h[c[1]]] = c[1] /\ k[h[c[2]]] = c[2] /\ c = <<c[1], c[2]>>
             /\ other[h[c[1]]].score = pairs[c[1]].score /\ other[h[c[2]]].score = pairs[c[2]].score
  BY DEF Contests, Positives, Negatives, Reordered, Inverses
<1>4. ASSUME NEW c \in Contests(other)
      PROVE  /\ <<k[c[1]], k[c[2]]>> \in Contests(pairs)
             /\ h[k[c[1]]] = c[1] /\ h[k[c[2]]] = c[2] /\ c = <<c[1], c[2]>>
             /\ pairs[k[c[1]]].score = other[c[1]].score /\ pairs[k[c[2]]].score = other[c[2]].score
  BY DEF Contests, Positives, Negatives, Reordered, Inverses
<1>5. Cardinality(Won(pairs)) = Cardinality(Won(other))
  <2>. DEFINE f == [c \in Won(pairs) |-> <<h[c[1]], h[c[2]]>>]
              g == [c \in Won(other) |-> <<k[c[1]], k[c[2]]>>]
  <2>1. \A c \in Won(pairs) : /\ <<h[c[1]], h[c[2]]>> \in Won(other)
                              /\ k[h[c[1]]] = c[1] /\ k[h[c[2]]] = c[2] /\ c = <<c[1], c[2]>>
    BY <1>3 DEF Won
  <2>2. \A c \in Won(other) : /\ <<k[c[1]], k[c[2]]>> \in Won(pairs)
                              /\ h[k[c[1]]] = c[1] /\ h[k[c[2]]] = c[2] /\ c = <<c[1], c[2]>>
    BY <1>4 DEF Won
  <2>3. f \in [Won(pairs) -> Won(other)] /\ g \in [Won(other) -> Won(pairs)] BY <2>1, <2>2
  <2>4. \A c \in Won(pairs) : g[f[c]] = c BY <2>1
  <2>5. \A c \in Won(other) : f[g[c]] = c BY <2>2
  <2>. HIDE DEF f, g
  <2>. QED BY <2>3, <2>4, <2>5, ContestsAre, MappedBack
<1>6. Cardinality(Tied(pairs)) = Cardinality(Tied(other))
  <2>. DEFINE f == [c \in Tied(pairs) |-> <<h[c[1]], h[c[2]]>>]
              g == [c \in Tied(other) |-> <<k[c[1]], k[c[2]]>>]
  <2>1. \A c \in Tied(pairs) : /\ <<h[c[1]], h[c[2]]>> \in Tied(other)
                               /\ k[h[c[1]]] = c[1] /\ k[h[c[2]]] = c[2] /\ c = <<c[1], c[2]>>
    BY <1>3 DEF Tied
  <2>2. \A c \in Tied(other) : /\ <<k[c[1]], k[c[2]]>> \in Tied(pairs)
                               /\ h[k[c[1]]] = c[1] /\ h[k[c[2]]] = c[2] /\ c = <<c[1], c[2]>>
    BY <1>4 DEF Tied
  <2>3. f \in [Tied(pairs) -> Tied(other)] /\ g \in [Tied(other) -> Tied(pairs)] BY <2>1, <2>2
  <2>4. \A c \in Tied(pairs) : g[f[c]] = c BY <2>1
  <2>5. \A c \in Tied(other) : f[g[c]] = c BY <2>2
  <2>. HIDE DEF f, g
  <2>. QED BY <2>3, <2>4, <2>5, ContestsAre, MappedBack
<1>. QED BY Zenon, <1>1, <1>2, <1>5, <1>6, AurocIs

-----------------------------------------------------------------------------
(* Probabilities, thresholds, and answers given for certain                *)

(* The rows that were answered, with the probabilities of their answers.   *)
ScoredRows(truth, answers) ==
    [i \in Answered(answers) |-> [label |-> truth[i], score |-> answers[i][1].probability]]
NoulErrors(truth, answers) ==
    [i \in Answered(answers) |-> Square(answers[i][1].probability - IF truth[i] THEN 100 ELSE 0)]

(* A report by its parts.                                                  *)
IsNoulReport(report, truth, answers) ==
    /\ report.auroc = Auroc(ScoredRows(truth, answers))
    /\ report.auprc = Auprc(ScoredRows(truth, answers))
    /\ report.brier = Over(SumFunctionOnSet(NoulErrors(truth, answers), Answered(answers)), 10000 * Cardinality(Answered(answers)))
    /\ report.ece = Ece(Judged(truth, answers, Said(answers)))
    /\ report.cells = Cells(truth, Said(answers), TRUE)

(* The report of a noul question has these parts (_noul_report).           *)
LEMMA NoulReportIs == ASSUME NEW truth, NEW answers PROVE IsNoulReport(NoulReport(truth, answers), truth, answers)
<1>. DEFINE rows == Answered(answers)
            said == Said(answers)
            scored == ScoredRows(truth, answers)
            error(p) == Square(p.score - IF p.label THEN 100 ELSE 0)
            errors == [i \in rows |-> error(scored[i])]
            pairs == Judged(truth, answers, said)
            report == NoulReport(truth, answers)
<1>1. report = [perClass |-> PerClass(truth, said, TRUE),
                accuracy |-> <<Cardinality(Correct(truth, said)), Cardinality(DOMAIN truth)>>,
                auroc |-> Auroc(scored), auprc |-> Auprc(scored),
                brier |-> Over(SumFunction(errors), 10000 * Cardinality(rows)),
                ece |-> Ece(pairs), selective |-> Selective(pairs), cells |-> Cells(truth, said, TRUE)]
  BY SMT DEF NoulReport, ScoredRows
<1>2. errors = NoulErrors(truth, answers)
  <2>1. \A i \in rows : scored[i].score = answers[i][1].probability /\ scored[i].label = truth[i] BY DEF ScoredRows
  <2>. HIDE DEF scored
  <2>2. \A i \in rows : error(scored[i]) = Square(answers[i][1].probability - IF truth[i] THEN 100 ELSE 0) BY Zenon, <2>1
  <2>. HIDE DEF error
  <2>. QED BY Zenon, <2>2 DEF NoulErrors
<1>3. DOMAIN errors = rows OBVIOUS
<1>. HIDE DEF scored, errors, pairs, report, rows, said
<1>4. SumFunction(errors) = SumFunctionOnSet(errors, rows) BY <1>3 DEF SumFunction
<1>5. /\ report.auroc = Auroc(scored) /\ report.auprc = Auprc(scored) /\ report.ece = Ece(pairs)
      /\ report.brier = Over(SumFunction(errors), 10000 * Cardinality(rows)) /\ report.cells = Cells(truth, said, TRUE)
  BY <1>1
<1>6. report.brier = Over(SumFunctionOnSet(NoulErrors(truth, answers), rows), 10000 * Cardinality(rows)) BY <1>2, <1>4, <1>5
<1>7. /\ report.auroc = Auroc(ScoredRows(truth, answers)) /\ report.auprc = Auprc(ScoredRows(truth, answers))
      /\ report.ece = Ece(Judged(truth, answers, Said(answers))) /\ report.cells = Cells(truth, Said(answers), TRUE)
  BY <1>5 DEF scored, pairs, said
<1>8. report.brier = Over(SumFunctionOnSet(NoulErrors(truth, answers), Answered(answers)), 10000 * Cardinality(Answered(answers)))
  BY <1>6 DEF rows
<1>9. IsNoulReport(report, truth, answers) BY <1>7, <1>8 DEF IsNoulReport
<1>. QED BY <1>9 DEF report

(* Probabilities that were said, if any.                                   *)
AreNouls(truth, said, X) ==
    /\ IsFiniteSet(X) /\ X \subseteq Nat /\ truth \in [X -> BOOLEAN] /\ DOMAIN said = X
    /\ \A i \in X : said[i] = <<>> \/ \E p \in 0..100 : said[i] = <<p>>

(* A square is natural, and zero only of zero.                             *)
LEMMA SquareIs == ASSUME NEW n \in Int PROVE Square(n) \in Nat /\ (Square(n) = 0 <=> n = 0)
<1>1. CASE n >= 0 BY <1>1 DEF Square
<1>2. CASE n < 0
  <2>1. n * n = (-n) * (-n) OBVIOUS
  <2>2. -n \in Nat /\ -n # 0 BY <1>2
  <2>3. (-n) * (-n) \in Nat /\ (-n) * (-n) # 0 BY <2>2
  <2>. QED BY <1>2, <2>1, <2>3 DEF Square
<1>. QED BY <1>1, <1>2

(* The answers that a threshold accepts are those at or above it.          *)
Above(pairs, t) == {i \in DOMAIN pairs : pairs[i].confidence >= t}

(* A threshold accepts those answers, and counts them (_selective).        *)
LEMMA AcceptedAre ==
    ASSUME NEW pairs, NEW t \in Thresholds
    PROVE  Selective(pairs)[t].accepted = Cardinality(Above(pairs, t))
<1>. DEFINE accepted(u) == {i \in DOMAIN pairs : pairs[i].confidence >= u}
            correct(u) == {i \in accepted(u) : pairs[i].correct}
            at(u) == [accepted |-> Cardinality(accepted(u)),
                      coverage |-> Share(Cardinality(accepted(u)), Cardinality(DOMAIN pairs)),
                      accuracy |-> Over(Cardinality(correct(u)), Cardinality(accepted(u))),
                      risk |-> Over(Cardinality(accepted(u) \ correct(u)), Cardinality(accepted(u)))]
<1>1. Selective(pairs) = [u \in Thresholds |-> at(u)] BY Zenon DEF Selective
<1>2. at(t).accepted = Cardinality(Above(pairs, t)) BY DEF Above
<1>. HIDE DEF at
<1>. QED BY <1>1, <1>2

(* A higher threshold accepts no more answers.                             *)
LEMMA HigherAcceptsFewer ==
    ASSUME NEW pairs, ArePairs(pairs), NEW t \in Thresholds, NEW u \in Thresholds, t <= u
    PROVE  Selective(pairs)[u].accepted <= Selective(pairs)[t].accepted
<1>. DEFINE S == Above(pairs, u)
            T == Above(pairs, t)
<1>1. S \subseteq T
  <2>1. ASSUME NEW i \in S PROVE i \in T
    <3>. DEFINE c == pairs[i].confidence
    <3>1. i \in DOMAIN pairs /\ c >= u BY DEF Above
    <3>2. c \in 0..100 BY <3>1 DEF ArePairs
    <3>3. t \in Int /\ u \in Int BY DEF Thresholds
    <3>. HIDE DEF c
    <3>4. c >= t BY <3>1, <3>2, <3>3
    <3>. QED BY Zenon, <3>1, <3>4 DEF Above, c
  <2>. QED BY <2>1
<1>2. IsFiniteSet(T) BY FS_Subset DEF Above, ArePairs
<1>. HIDE DEF S, T
<1>3. Cardinality(S) <= Cardinality(T) BY <1>1, <1>2, FS_Subset
<1>4. Selective(pairs)[u].accepted = Cardinality(S) /\ Selective(pairs)[t].accepted = Cardinality(T)
  BY Zenon, AcceptedAre DEF S, T
<1>. QED BY <1>3, <1>4

(* Answers with all confidence in what they say.                           *)
AreCertain(answers, said, X, K) ==
    /\ DOMAIN answers = X /\ DOMAIN said = X /\ Answered(answers) = Answered(said) /\ Answered(said) \subseteq X
    /\ \A i \in Answered(said) :
          /\ said[i][1] \in K /\ said[i] = <<said[i][1]>>
          /\ answers[i][1].value = said[i][1] /\ answers[i][1].confidence = 100
          /\ answers[i][1].probabilities = [c \in K |-> IF <<c>> = said[i] THEN 100 ELSE 0]
    /\ \A i \in X \ Answered(said) : said[i] = <<>> /\ answers[i] = <<>>

(* The level of a certain answer is its value.                             *)
LEMMA CertainLevel ==
    ASSUME NEW K, K \subseteq Int, NEW v \in K, NEW p, p = [c \in K |-> IF <<c>> = <<v>> THEN 100 ELSE 0]
    PROVE  Level(p) = v
<1>1. DOMAIN p = K /\ p[v] = 100 /\ \A c \in K : c # v => p[c] = 0
  <2>1. \A c : <<c>> = <<v>> => c = v OBVIOUS
  <2>. QED BY <2>1
<1>. DEFINE first(l) == \A other \in DOMAIN p : \/ p[l] > p[other]
                                                \/ p[l] = p[other] /\ l <= other
<1>2. first(v) BY <1>1
<1>3. \A l \in DOMAIN p : first(l) => l = v BY <1>1
<1>4. Level(p) = CHOOSE l \in DOMAIN p : first(l) BY Zenon DEF Level
<1>. HIDE DEF first
<1>. QED BY <1>1, <1>2, <1>3, <1>4

(* Certain answers say their values, as levels too.                        *)
LEMMA CertainSaid ==
    ASSUME NEW answers, NEW said, NEW X, NEW K, AreCertain(answers, said, X, K), said = [i \in X |-> said[i]]
    PROVE  Said(answers) = said /\ (K \subseteq Int => SaidLevel(answers) = said)
<1>1. DOMAIN answers = X /\ Answered(answers) = Answered(said) BY DEF AreCertain
<1>2. \A i \in X : answers[i] = Nothing => said[i] = Nothing BY <1>1 DEF AreCertain, Answered, Nothing
<1>3. \A i \in X : answers[i] # Nothing => i \in Answered(said) BY <1>1 DEF Answered
<1>4. \A i \in Answered(said) : said[i] = <<answers[i][1].value>> BY ZenonT(60) DEF AreCertain
<1>5. Said(answers) = said
  <2>1. Said(answers) = [i \in X |-> IF answers[i] = Nothing THEN Nothing ELSE <<answers[i][1].value>>]
    BY Zenon, <1>1 DEF Said
  <2>2. \A i \in X : (IF answers[i] = Nothing THEN Nothing ELSE <<answers[i][1].value>>) = said[i] BY Zenon, <1>2, <1>3, <1>4
  <2>3. Said(answers) = [i \in X |-> said[i]] BY Zenon, <2>1, <2>2
  <2>. QED BY Zenon, <2>3
<1>6. ASSUME K \subseteq Int PROVE SaidLevel(answers) = said
  <2>1. SaidLevel(answers) = [i \in X |-> IF answers[i] = Nothing THEN Nothing ELSE <<Level(answers[i][1].probabilities)>>]
    BY Zenon, <1>1 DEF SaidLevel
  <2>2. ASSUME NEW i \in Answered(said) PROVE said[i] = <<Level(answers[i][1].probabilities)>>
    <3>. DEFINE v == said[i][1]
                p == answers[i][1].probabilities
    <3>1. v \in K /\ said[i] = <<v>> BY DEF AreCertain
    <3>2. p = [c \in K |-> IF <<c>> = said[i] THEN 100 ELSE 0] BY DEF AreCertain
    <3>. HIDE DEF v, p
    <3>3. p = [c \in K |-> IF <<c>> = <<v>> THEN 100 ELSE 0] BY <3>1, <3>2
    <3>4. Level(p) = v BY <1>6, <3>1, <3>3, CertainLevel
    <3>. QED BY <3>1, <3>4 DEF p
  <2>3. \A i \in X : (IF answers[i] = Nothing THEN Nothing ELSE <<Level(answers[i][1].probabilities)>>) = said[i]
    BY Zenon, <1>2, <1>3, <2>2
  <2>4. SaidLevel(answers) = [i \in X |-> said[i]] BY Zenon, <2>1, <2>3
  <2>. QED BY Zenon, <2>4
<1>. QED BY <1>5, <1>6

(* Certain answers are judged with full confidence.                        *)
LEMMA CertainJudged ==
    ASSUME NEW answers, NEW said, NEW X, NEW K, AreCertain(answers, said, X, K), IsFiniteSet(X),
           NEW truth, NEW pairs, pairs = Judged(truth, answers, said)
    PROVE  /\ ArePairs(pairs) /\ DOMAIN pairs = Answered(said)
           /\ \A i \in DOMAIN pairs : pairs[i].confidence = 100
           /\ (\A i \in DOMAIN pairs : pairs[i].correct) <=> Correct(truth, said) = Answered(said)
<1>1. Answered(answers) = Answered(said) /\ Answered(said) \subseteq X BY DEF AreCertain
<1>2. pairs = [i \in Answered(said) |-> [confidence |-> answers[i][1].confidence, correct |-> said[i] = <<truth[i]>>]]
  BY Zenon, <1>1 DEF Judged
<1>3. DOMAIN pairs = Answered(said) /\ \A i \in Answered(said) : /\ pairs[i].confidence = answers[i][1].confidence
                                                                 /\ pairs[i].correct = (said[i] = <<truth[i]>>)
  BY <1>2
<1>4. \A i \in Answered(said) : pairs[i].confidence = 100
  <2>1. \A i \in Answered(said) : answers[i][1].confidence = 100 BY DEF AreCertain
  <2>. QED BY Zenon, <1>3, <2>1
<1>5. ArePairs(pairs)
  <2>1. IsFiniteSet(Answered(said)) BY <1>1, FS_Subset
  <2>2. 100 \in 0..100 OBVIOUS
  <2>. QED BY Zenon, <1>3, <1>4, <2>1, <2>2 DEF ArePairs
<1>6. (\A i \in DOMAIN pairs : pairs[i].correct) <=> \A i \in Answered(said) : said[i] = <<truth[i]>> BY Zenon, <1>3
<1>7. Correct(truth, said) = Answered(said) <=> \A i \in Answered(said) : said[i] = <<truth[i]>> BY DEF Correct
<1>. QED BY Zenon, <1>3, <1>4, <1>5, <1>6, <1>7

(* Their squared error is zero exactly when they are right.                *)
LEMMA CertainBrier ==
    ASSUME NEW answers, NEW said, NEW X, NEW K, AreCertain(answers, said, X, K), IsFiniteSet(X), IsFiniteSet(K),
           NEW truth, \A i \in X : truth[i] \in K, NEW brier, brier = MulticlassBrier(truth, answers, K)
    PROVE  /\ Answered(said) = {} => brier = Nothing
           /\ Answered(said) # {} => (brier[1] = 0 <=> Correct(truth, said) = Answered(said))
<1>. DEFINE rows == Answered(said)
            error(i, c) == Square(answers[i][1].probabilities[c] - IF c = truth[i] THEN 100 ELSE 0)
            f == [r \in rows \X K |-> error(r[1], r[2])]
            n == Cardinality(K)
            m == Cardinality(rows)
            total == SumFunctionOnSet(f, rows \X K)
<1>1. Answered(answers) = rows /\ rows \subseteq X BY DEF AreCertain
<1>2. brier = Over(SumFunction(f), 10000 * n * m)
  <2>1. brier = LET R == Answered(answers)
                IN  Over(SumFunction([r \in R \X K |-> error(r[1], r[2])]), 10000 * Cardinality(K) * Cardinality(R))
    BY DEF MulticlassBrier
  <2>. QED BY <1>1, <2>1
<1>3. DOMAIN f = rows \X K OBVIOUS
<1>4. ASSUME NEW r \in rows \X K
      PROVE  f[r] \in Nat /\ (f[r] = 0 <=> (<<r[2]>> = said[r[1]] <=> r[2] = truth[r[1]]))
  <2>. DEFINE i == r[1]
              c == r[2]
              p == answers[i][1].probabilities[c]
              e == IF c = truth[i] THEN 100 ELSE 0
  <2>1. i \in rows /\ c \in K OBVIOUS
  <2>2. f[r] = error(i, c) OBVIOUS
  <2>3. f[r] = Square(p - e) BY <2>2
  <2>4. p = IF <<c>> = said[i] THEN 100 ELSE 0
    <3>1. answers[i][1].probabilities = [k \in K |-> IF <<k>> = said[i] THEN 100 ELSE 0] BY <2>1 DEF AreCertain
    <3>. HIDE DEF i, c
    <3>. QED BY <2>1, <3>1
  <2>. HIDE DEF i, c, p, f, rows
  <2>5. p - e \in Int /\ (p - e = 0 <=> (<<c>> = said[i] <=> c = truth[i])) BY <2>4
  <2>6. f[r] \in Nat /\ (f[r] = 0 <=> p - e = 0) BY <2>3, <2>5, SquareIs
  <2>. QED BY Zenon, <2>5, <2>6 DEF i, c
<1>. HIDE DEF f, n, m, total
<1>5. SumFunction(f) = total BY <1>3 DEF SumFunction, total
<1>6. IsFiniteSet(rows) /\ IsFiniteSet(rows \X K) BY <1>1, FS_Subset, FS_Product
<1>7. n \in Nat /\ m \in Nat /\ (m = 0 <=> rows = {}) BY <1>6, FS_CardinalityType, FS_EmptySet DEF n, m
<1>8. ASSUME rows = {} PROVE brier = Nothing
  <2>1. 10000 * n * m = 0 BY <1>7, <1>8
  <2>. QED BY <1>2, <2>1 DEF Over
<1>9. ASSUME rows # {} PROVE brier[1] = 0 <=> Correct(truth, said) = rows
  <2>1. K # {} BY <1>1, <1>9
  <2>2. n # 0 BY <2>1, FS_EmptySet DEF n
  <2>3. 10000 * n * m # 0 BY <1>7, <1>9, <2>2
  <2>4. brier[1] = total BY <1>2, <1>5, <2>3 DEF Over
  <2>5. total = 0 <=> \A r \in rows \X K : f[r] = 0
    <3>. HIDE DEF rows
    <3>. QED BY <1>4, <1>6, SumIsZero DEF total
  <2>6. (\A r \in rows \X K : f[r] = 0) <=> \A i \in rows : \A c \in K : <<c>> = said[i] <=> c = truth[i]
    <3>1. \A i \in rows : \A c \in K : <<i, c>> \in rows \X K /\ <<i, c>>[1] = i /\ <<i, c>>[2] = c OBVIOUS
    <3>2. \A r \in rows \X K : r[1] \in rows /\ r[2] \in K OBVIOUS
    <3>. HIDE DEF rows
    <3>3. \A r \in rows \X K : f[r] = 0 <=> (<<r[2]>> = said[r[1]] <=> r[2] = truth[r[1]]) BY Zenon, <1>4
    <3>4. ASSUME \A r \in rows \X K : f[r] = 0, NEW i \in rows, NEW c \in K PROVE <<c>> = said[i] <=> c = truth[i]
      <4>. DEFINE r == <<i, c>>
      <4>1. r \in rows \X K /\ r[1] = i /\ r[2] = c BY Zenon, <3>1
      <4>. HIDE DEF r
      <4>2. <<r[2]>> = said[r[1]] <=> r[2] = truth[r[1]] BY Zenon, <3>3, <3>4, <4>1
      <4>. QED BY <4>1, <4>2
    <3>5. ASSUME \A i \in rows : \A c \in K : <<c>> = said[i] <=> c = truth[i], NEW r \in rows \X K PROVE f[r] = 0
      BY Zenon, <3>2, <3>3, <3>5
    <3>. QED BY Zenon, <3>4, <3>5
  <2>7. ASSUME NEW i \in rows PROVE (\A c \in K : <<c>> = said[i] <=> c = truth[i]) <=> said[i] = <<truth[i]>>
    <3>. DEFINE v == said[i][1]
                t == truth[i]
    <3>1. t \in K /\ v \in K /\ said[i] = <<v>> BY <1>1 DEF AreCertain
    <3>. HIDE DEF v, t
    <3>2. \A c : <<c>> = <<v>> <=> c = v OBVIOUS
    <3>3. (\A c \in K : <<c>> = said[i] <=> c = t) <=> v = t BY <3>1, <3>2
    <3>4. said[i] = <<t>> <=> v = t BY <3>1, <3>2
    <3>. QED BY Zenon, <3>3, <3>4 DEF t
  <2>8. Correct(truth, said) = rows <=> \A i \in rows : said[i] = <<truth[i]>> BY DEF Correct
  <2>. HIDE DEF rows
  <2>. QED BY Zenon, <2>4, <2>5, <2>6, <2>7, <2>8
<1>. QED BY <1>8, <1>9

(* Every threshold accepts a certain answer.                               *)
LEMMA CertainAccepted ==
    ASSUME NEW pairs, \A i \in DOMAIN pairs : pairs[i].confidence = 100
    PROVE  Selective(pairs)[99].accepted = Selective(pairs)[0].accepted
<1>1. 99 \in Thresholds /\ 0 \in Thresholds BY DEF Thresholds
<1>2. 100 >= 99 /\ 100 >= 0 OBVIOUS
<1>3. Above(pairs, 99) = DOMAIN pairs /\ Above(pairs, 0) = DOMAIN pairs BY <1>2 DEF Above
<1>. QED BY <1>1, <1>3, AcceptedAre

(* The mean distance of the answers from the truth.                        *)
MeanError(answers, truth) ==
    Over(SumFunction([i \in Answered(answers) |-> Distance(answers[i][1].value, truth[i])]), Cardinality(Answered(answers)))

(* Their mean error is zero exactly when they are right.                   *)
LEMMA CertainError ==
    ASSUME NEW answers, NEW said, NEW X, NEW K \in SUBSET Int, AreCertain(answers, said, X, K), IsFiniteSet(X),
           NEW truth, \A i \in X : truth[i] \in K
    PROVE  Answered(said) # {} => (MeanError(answers, truth)[1] = 0 <=> Correct(truth, said) = Answered(said))
<1>. SUFFICES ASSUME Answered(said) # {}
              PROVE  MeanError(answers, truth)[1] = 0 <=> Correct(truth, said) = Answered(said)
  OBVIOUS
<1>. DEFINE mae == MeanError(answers, truth)
            rows == Answered(said)
            f == [i \in rows |-> Distance(answers[i][1].value, truth[i])]
            total == SumFunctionOnSet(f, rows)
<1>1. Answered(answers) = rows /\ rows \subseteq X BY DEF AreCertain
<1>2. mae = Over(SumFunction(f), Cardinality(rows)) BY Zenon, <1>1 DEF MeanError
<1>3. IsFiniteSet(rows) BY <1>1, FS_Subset
<1>4. Cardinality(rows) # 0 BY <1>3, FS_EmptySet
<1>5. \A i \in rows : f[i] \in Nat /\ (f[i] = 0 <=> said[i] = <<truth[i]>>)
  <2>. SUFFICES ASSUME NEW i \in rows PROVE f[i] \in Nat /\ (f[i] = 0 <=> said[i] = <<truth[i]>>) OBVIOUS
  <2>. DEFINE v == said[i][1]
              t == truth[i]
  <2>1. v \in K /\ said[i] = <<v>> /\ answers[i][1].value = v BY Zenon DEF AreCertain
  <2>2. v \in Int /\ t \in Int BY <1>1, <2>1
  <2>3. f[i] = Distance(v, t) BY <2>1
  <2>. HIDE DEF v, t, f
  <2>4. f[i] \in Nat /\ (f[i] = 0 <=> v = t) BY <2>2, <2>3 DEF Distance
  <2>5. <<v>> = <<t>> <=> v = t OBVIOUS
  <2>6. said[i] = <<t>> <=> v = t BY Zenon, <2>1, <2>5
  <2>. QED BY Zenon, <2>4, <2>6 DEF t
<1>6. DOMAIN f = rows OBVIOUS
<1>. HIDE DEF f
<1>7. SumFunction(f) = total BY <1>6 DEF SumFunction
<1>8. mae[1] = total BY <1>2, <1>4, <1>7 DEF Over
<1>9. total = 0 <=> \A i \in rows : f[i] = 0
  <2>. HIDE DEF rows
  <2>. QED BY <1>3, <1>5, SumIsZero
<1>10. Correct(truth, said) = rows <=> \A i \in rows : said[i] = <<truth[i]>> BY DEF Correct
<1>. HIDE DEF total, rows, mae
<1>11. mae[1] = 0 <=> Correct(truth, said) = rows BY Zenon, <1>5, <1>8, <1>9, <1>10
<1>. QED BY <1>11 DEF rows, mae

-----------------------------------------------------------------------------
(* Quantiles of the latencies                                              *)

(* The rows with a value under v, and with one up to v.                    *)
Under(values, v) == {i \in DOMAIN values : values[i] < v}
NotAbove(values, v) == {i \in DOMAIN values : values[i] <= v}

AreValues(values, D) == IsFiniteSet(D) /\ D # {} /\ values \in [D -> Nat]

(* The place of a value in the order.                                      *)
IsAt(values, v, position) ==
    v \in Range(values) /\ Cardinality(Under(values, v)) <= position /\ position < Cardinality(NotAbove(values, v))

(* The values under another one, or up to it, are finitely many.           *)
LEMMA CountsOfValues ==
    ASSUME NEW values, NEW D, AreValues(values, D), NEW v
    PROVE  /\ Under(values, v) \subseteq D /\ NotAbove(values, v) \subseteq D
           /\ IsFiniteSet(Under(values, v)) /\ IsFiniteSet(NotAbove(values, v))
           /\ Cardinality(Under(values, v)) \in Nat /\ Cardinality(NotAbove(values, v)) \in Nat
           /\ Cardinality(NotAbove(values, v)) <= Cardinality(D)
<1>1. Under(values, v) \subseteq D /\ NotAbove(values, v) \subseteq D BY DEF Under, NotAbove, AreValues
<1>2. IsFiniteSet(D) BY DEF AreValues
<1>3. IsFiniteSet(Under(values, v)) /\ IsFiniteSet(NotAbove(values, v)) /\ Cardinality(NotAbove(values, v)) <= Cardinality(D)
  BY <1>1, <1>2, FS_Subset
<1>. QED BY <1>1, <1>3, FS_CardinalityType

(* The values themselves are finitely many.                                *)
LEMMA RangeOfValues ==
    ASSUME NEW values, NEW D, AreValues(values, D)
    PROVE  /\ IsFiniteSet(Range(values)) /\ Range(values) # {} /\ Range(values) \subseteq Nat
           /\ \A i \in D : values[i] \in Range(values)
           /\ \A v \in Range(values) : \E i \in D : values[i] = v
<1>1. values \in [D -> Range(values)] /\ \A v \in Range(values) : \E i \in D : values[i] = v BY DEF Range, AreValues
<1>2. Range(values) # {} /\ Range(values) \subseteq Nat BY DEF Range, AreValues
<1>3. values \in Surjection(D, Range(values)) BY <1>1 DEF Surjection
<1>4. IsFiniteSet(Range(values)) BY <1>3, FS_Surjection DEF AreValues
<1>. QED BY <1>1, <1>2, <1>4

(* Every place of the order has a value.                                   *)
LEMMA OrderedIs ==
    ASSUME NEW values, NEW D, AreValues(values, D), NEW position \in Nat, position < Cardinality(D)
    PROVE  IsAt(values, Ordered(values, position), position)
<1>. DEFINE R == Range(values)
            S == {v \in R : position < Cardinality(NotAbove(values, v))}
<1>1. IsFiniteSet(R) /\ R # {} /\ R \subseteq Nat /\ (\A i \in D : values[i] \in R) BY RangeOfValues
<1>. HIDE DEF R
<1>2. \E v \in R : IsAt(values, v, position)
  <2>1. S # {}
    <3>1. R \subseteq Int BY <1>1
    <3>2. Max(R) \in R /\ \A y \in R : Max(R) >= y BY <1>1, <3>1, MaxOfFinite
    <3>3. \A i \in D : values[i] <= Max(R) BY <1>1, <3>1, <3>2
    <3>4. NotAbove(values, Max(R)) = D BY <3>3 DEF NotAbove, AreValues
    <3>. QED BY <3>2, <3>4
  <2>2. PICK v \in S : \A w \in S : v <= w
    <3>1. S \subseteq Nat BY <1>1
    <3>. HIDE DEF S
    <3>. QED BY <2>1, <3>1, NatLeast
  <2>. DEFINE B == {w \in R : w < v}
  <2>3. v \in R /\ position < Cardinality(NotAbove(values, v)) /\ v \in Nat BY <1>1, <2>2
  <2>4. Cardinality(Under(values, v)) <= position
    <3>1. CASE B = {}
      <4>1. Under(values, v) = {} BY <1>1, <3>1 DEF Under, AreValues
      <4>. QED BY <4>1, FS_EmptySet
    <3>2. CASE B # {}
      <4>1. B \subseteq R BY DEF B
      <4>2. IsFiniteSet(B) /\ B \subseteq Int BY <1>1, <4>1, FS_Subset
      <4>. DEFINE m == Max(B)
      <4>3. m \in B /\ \A y \in B : m >= y
        <5>. HIDE DEF B
        <5>. QED BY <3>2, <4>2, MaxOfFinite
      <4>. HIDE DEF m
      <4>4. m \in R /\ m \in Nat /\ m < v BY <1>1, <4>3
      <4>5. ~(position < Cardinality(NotAbove(values, m))) BY <2>2, <2>3, <4>4
      <4>6. Under(values, v) = NotAbove(values, m)
        <5>1. \A i \in D : values[i] \in Nat /\ (values[i] < v <=> values[i] <= m)
          <6>. SUFFICES ASSUME NEW i \in D PROVE values[i] \in Nat /\ (values[i] < v <=> values[i] <= m) OBVIOUS
          <6>. DEFINE x == values[i]
          <6>1. x \in R BY <1>1
          <6>2. x < v => m >= x BY <4>3, <6>1
          <6>. HIDE DEF x
          <6>3. x \in Nat /\ (x < v <=> x <= m) BY <1>1, <2>3, <4>4, <6>1, <6>2
          <6>. QED BY Zenon, <6>3 DEF x
        <5>. QED BY <5>1 DEF Under, NotAbove, AreValues
      <4>7. Cardinality(NotAbove(values, m)) \in Nat BY CountsOfValues
      <4>. QED BY <4>5, <4>6, <4>7
    <3>. QED BY <3>1, <3>2
  <2>. QED BY <2>3, <2>4 DEF IsAt, R
<1>3. Ordered(values, position) = CHOOSE v \in R : IsAt(values, v, position)
  <2>1. \A v \in R : IsAt(values, v, position) <=> /\ Cardinality({i \in DOMAIN values : values[i] < v}) <= position
                                                   /\ position < Cardinality({i \in DOMAIN values : values[i] <= v})
    BY DEF IsAt, Under, NotAbove, R
  <2>. QED BY Zenon, <2>1 DEF Ordered, R
<1>4. (CHOOSE v \in R : IsAt(values, v, position)) \in R /\ IsAt(values, CHOOSE v \in R : IsAt(values, v, position), position)
  BY <1>2
<1>. QED BY Zenon, <1>3, <1>4

(* A later place has no smaller value.                                     *)
LEMMA OrderedGrows ==
    ASSUME NEW values, NEW D, AreValues(values, D), NEW p \in Nat, NEW q \in Nat, p <= q, q < Cardinality(D)
    PROVE  /\ Ordered(values, p) \in Nat /\ Ordered(values, q) \in Nat /\ Ordered(values, p) <= Ordered(values, q)
           /\ \E i \in D : Ordered(values, p) = values[i]
<1>. DEFINE a == Ordered(values, p)
            b == Ordered(values, q)
<1>1. IsAt(values, a, p) /\ IsAt(values, b, q)
  <2>1. p < Cardinality(D)
    <3>1. Cardinality(D) \in Nat BY FS_CardinalityType DEF AreValues
    <3>. QED BY <3>1
  <2>. QED BY <2>1, OrderedIs
<1>. HIDE DEF a, b
<1>2. a \in Nat /\ b \in Nat /\ \E i \in D : a = values[i] BY <1>1, RangeOfValues DEF IsAt
<1>3. ASSUME b < a PROVE FALSE
  <2>1. NotAbove(values, b) \subseteq Under(values, a)
    <3>1. \A i \in D : values[i] \in Nat BY DEF AreValues
    <3>. QED BY <1>2, <1>3, <3>1 DEF NotAbove, Under, AreValues
  <2>2. IsFiniteSet(Under(values, a)) /\ Cardinality(Under(values, a)) \in Nat /\ Cardinality(NotAbove(values, b)) \in Nat
    BY CountsOfValues
  <2>3. Cardinality(NotAbove(values, b)) <= Cardinality(Under(values, a)) BY <2>1, <2>2, FS_Subset
  <2>4. q < Cardinality(NotAbove(values, b)) /\ Cardinality(Under(values, a)) <= p BY <1>1 DEF IsAt
  <2>. QED BY <2>2, <2>3, <2>4
<1>4. a <= b BY <1>2, <1>3
<1>. QED BY <1>2, <1>4 DEF a, b

(* A position between two places.                                          *)
LEMMA PlaceIs ==
    ASSUME NEW n \in Nat, n >= 1, NEW d \in Nat, NEW e \in 0..99, 100 * d + e <= (n - 1) * 100
    PROVE  d < n /\ (e # 0 => d + 1 < n)
OBVIOUS

(* The position of a quantile, the place under it, and the rest.           *)
Position(D, q) == (Cardinality(D) - 1) * q
Lower(D, q) == Position(D, q) \div 100
Rest(D, q) == Position(D, q) % 100

(* A percentile between two places of the order.                           *)
LEMMA PercentileIs ==
    ASSUME NEW values, NEW D, AreValues(values, D), NEW q \in 0..100
    PROVE  /\ Position(D, q) \in Nat /\ Lower(D, q) \in Nat /\ Rest(D, q) \in 0..99
           /\ Position(D, q) = 100 * Lower(D, q) + Rest(D, q)
           /\ Lower(D, q) < Cardinality(D) /\ (Rest(D, q) # 0 => Lower(D, q) + 1 < Cardinality(D))
           /\ Percentile(values, q)[1] =
                  IF Rest(D, q) = 0 THEN 100 * Ordered(values, Lower(D, q))
                  ELSE 100 * Ordered(values, Lower(D, q))
                         + (Ordered(values, Lower(D, q) + 1) - Ordered(values, Lower(D, q))) * Rest(D, q)
<1>. DEFINE n == Cardinality(D)
            position == Position(D, q)
            d == Lower(D, q)
            e == Rest(D, q)
<1>1. n \in Nat /\ n >= 1
  <2>1. IsFiniteSet(D) /\ D # {} BY DEF AreValues
  <2>. QED BY <2>1, FS_CardinalityType, FS_EmptySet
<1>2. position \in Nat /\ position <= (n - 1) * 100
  <2>1. q \in Nat /\ q <= 100 /\ n - 1 \in Nat BY <1>1
  <2>2. \A a \in Nat : q * a <= 100 * a BY <2>1, Times
  <2>3. q * (n - 1) <= 100 * (n - 1) BY <2>1, <2>2
  <2>4. position = (n - 1) * q BY DEF Position
  <2>. HIDE DEF n, position
  <2>. QED BY <2>1, <2>3, <2>4
<1>3. d \in Nat /\ e \in 0..99 /\ position = 100 * d + e
  <2>1. d = position \div 100 /\ e = position % 100 BY DEF Lower, Rest
  <2>. HIDE DEF position, d, e
  <2>. QED BY <1>2, <2>1
<1>4. d < n /\ (e # 0 => d + 1 < n)
  <2>. HIDE DEF n, position, d, e
  <2>1. 100 * d + e <= (n - 1) * 100 BY <1>2, <1>3
  <2>. QED BY <1>1, <1>3, <2>1, PlaceIs
<1>5. DOMAIN values = D /\ D # {} BY DEF AreValues
<1>6. Percentile(values, q) = IF e = 0 THEN <<100 * Ordered(values, d)>>
                              ELSE <<100 * Ordered(values, d) + (Ordered(values, d + 1) - Ordered(values, d)) * e>>
  BY <1>5 DEF Percentile, Position, Lower, Rest
<1>. HIDE DEF position, d, e, n
<1>7. Percentile(values, q)[1] = IF e = 0 THEN 100 * Ordered(values, d)
                                 ELSE 100 * Ordered(values, d) + (Ordered(values, d + 1) - Ordered(values, d)) * e
  BY <1>6
<1>. QED BY <1>2, <1>3, <1>4, <1>7 DEF position, d, e, n

(* A percentile grows with the quantile and lies between two of the values,*)
(* for any values (_percentile).                                           *)
THEOREM PercentilesGrow ==
    ASSUME NEW values, NEW D, AreValues(values, D), NEW q \in 0..100, NEW r \in 0..100, q <= r
    PROVE  /\ Percentile(values, q)[1] \in Nat /\ Percentile(values, r)[1] \in Nat
           /\ Percentile(values, q)[1] <= Percentile(values, r)[1]
           /\ \E i \in D : 100 * values[i] <= Percentile(values, q)[1]
           /\ \E j \in D : Percentile(values, r)[1] <= 100 * values[j]
<1>. DEFINE n == Cardinality(D)
            p(x) == Position(D, x)
            d(x) == Lower(D, x)
            e(x) == Rest(D, x)
            a(x) == Ordered(values, d(x))
            b(x) == Ordered(values, d(x) + 1)
            v(x) == Percentile(values, x)[1]
<1>1. ASSUME NEW x \in 0..100
      PROVE  /\ p(x) \in Nat /\ d(x) \in Nat /\ e(x) \in 0..99 /\ p(x) = 100 * d(x) + e(x)
             /\ d(x) < n /\ (e(x) # 0 => d(x) + 1 < n)
             /\ v(x) = IF e(x) = 0 THEN 100 * a(x) ELSE 100 * a(x) + (b(x) - a(x)) * e(x)
  BY PercentileIs, SMTT(30)
<1>2. p(q) <= p(r)
  <2>1. n \in Nat /\ n # 0
    <3>1. IsFiniteSet(D) /\ D # {} BY DEF AreValues
    <3>. QED BY <3>1, FS_CardinalityType, FS_EmptySet
  <2>2. p(q) = (n - 1) * q /\ p(r) = (n - 1) * r BY DEF Position
  <2>. HIDE DEF n, p
  <2>3. n - 1 \in Nat BY <2>1
  <2>4. q * (n - 1) <= r * (n - 1) BY <2>3, Times, SMTT(30)
  <2>. QED BY <2>2, <2>3, <2>4
<1>. HIDE DEF n, p, d, e, a, b, v
<1>3. ASSUME NEW x \in 0..100 PROVE a(x) \in Nat /\ \E i \in D : a(x) = values[i]
  <2>1. d(x) \in Nat /\ d(x) < n BY <1>1
  <2>. QED BY <2>1, OrderedGrows DEF n, a
<1>4. ASSUME NEW x \in 0..100, d(x) + 1 < n PROVE b(x) \in Nat /\ a(x) <= b(x) /\ \E i \in D : b(x) = values[i]
  <2>1. d(x) \in Nat /\ d(x) + 1 \in Nat /\ d(x) <= d(x) + 1 BY <1>1, SMTT(30)
  <2>2. d(x) + 1 <= d(x) + 1 BY <2>1
  <2>. QED BY <1>4, <2>1, <2>2, OrderedGrows DEF n, a, b
<1>5. ASSUME NEW x \in 0..100, e(x) # 0 PROVE 100 * a(x) <= v(x) /\ v(x) <= 100 * b(x) /\ v(x) \in Nat
  <2>. DEFINE k == b(x) - a(x)
              m == e(x)
  <2>1. k \in Nat /\ m \in 0..99 /\ v(x) = 100 * a(x) + k * m /\ a(x) \in Nat /\ b(x) = a(x) + k
    <3>1. a(x) \in Nat /\ b(x) \in Nat /\ a(x) <= b(x) BY Zenon, <1>1, <1>3, <1>4, <1>5
    <3>2. m \in 0..99 /\ v(x) = 100 * a(x) + k * m BY Zenon, <1>1, <1>5
    <3>. QED BY <3>1, <3>2
  <2>. HIDE DEF k, m
  <2>2. k * m \in Nat BY <2>1
  <2>3. m * k <= 100 * k BY <2>1, Times
  <2>. QED BY <2>1, <2>2, <2>3
<1>6. ASSUME NEW x \in 0..100, e(x) = 0 PROVE v(x) = 100 * a(x) /\ v(x) \in Nat
  <2>1. v(x) = 100 * a(x) BY <1>1, <1>6
  <2>. QED BY <1>3, <2>1
<1>7. \A x \in 0..100 : v(x) \in Nat /\ 100 * a(x) <= v(x)
  <2>. SUFFICES ASSUME NEW x \in 0..100 PROVE v(x) \in Nat /\ 100 * a(x) <= v(x) OBVIOUS
  <2>1. a(x) \in Nat BY <1>3
  <2>2. CASE e(x) = 0 BY <1>6, <2>1, <2>2
  <2>3. CASE e(x) # 0 BY <1>5, <2>3
  <2>. QED BY <2>2, <2>3
<1>8. /\ d(q) \in Nat /\ e(q) \in 0..99 /\ d(r) \in Nat /\ e(r) \in 0..99
      /\ d(q) <= d(r) /\ (d(q) = d(r) => e(q) <= e(r))
  <2>. DEFINE i == d(q)
              j == e(q)
              k == d(r)
              m == e(r)
  <2>1. i \in Nat /\ j \in 0..99 /\ k \in Nat /\ m \in 0..99 /\ p(q) = 100 * i + j /\ p(r) = 100 * k + m BY <1>1
  <2>. HIDE DEF i, j, k, m
  <2>2. 100 * i + j <= 100 * k + m BY <1>2, <2>1
  <2>3. i <= k /\ (i = k => j <= m) BY <2>1, <2>2
  <2>. QED BY <2>1, <2>3 DEF i, j, k, m
<1>9. v(q) <= v(r)
  <2>1. CASE d(q) < d(r)
    <3>1. d(q) + 1 < n /\ d(q) + 1 <= d(r) /\ d(q) + 1 \in Nat /\ d(r) \in Nat /\ d(r) < n
      <4>1. n \in Nat BY FS_CardinalityType DEF n, AreValues
      <4>2. d(r) < n BY <1>1
      <4>. QED BY <1>8, <2>1, <4>1, <4>2
    <3>2. b(q) <= a(r) /\ b(q) \in Nat /\ a(r) \in Nat BY <3>1, OrderedGrows DEF n, a, b
    <3>3. v(q) <= 100 * b(q)
      <4>1. CASE e(q) = 0
        <5>1. a(q) <= b(q) /\ a(q) \in Nat BY <1>3, <1>4, <3>1
        <5>. QED BY <1>6, <3>2, <4>1, <5>1
      <4>2. CASE e(q) # 0 BY <1>5, <4>2
      <4>. QED BY <4>1, <4>2
    <3>. QED BY <1>7, <3>2, <3>3
  <2>2. CASE d(q) = d(r)
    <3>1. a(q) = a(r) /\ b(q) = b(r) BY <2>2 DEF a, b
    <3>2. e(q) <= e(r) BY <1>8, <2>2
    <3>3. CASE e(q) = 0
      <4>1. v(q) = 100 * a(r) BY <1>6, <3>1, <3>3
      <4>. QED BY <1>7, <4>1
    <3>4. CASE e(q) # 0
      <4>. DEFINE k == b(r) - a(r)
      <4>1. e(r) # 0 /\ e(q) \in Nat /\ e(r) \in Nat BY <1>8, <3>2, <3>4
      <4>2. v(q) = 100 * a(r) + k * e(q) /\ v(r) = 100 * a(r) + k * e(r) BY <1>1, <3>1, <3>4, <4>1
      <4>3. a(r) \in Nat /\ k \in Nat
        <5>1. d(r) + 1 < n BY <1>1, <4>1
        <5>2. a(r) \in Nat /\ b(r) \in Nat /\ a(r) <= b(r) BY <1>3, <1>4, <5>1
        <5>. QED BY <5>2
      <4>. HIDE DEF k
      <4>4. e(q) * k <= e(r) * k BY <3>2, <4>1, <4>3, Times
      <4>. QED BY <4>1, <4>2, <4>3, <4>4
    <3>. QED BY <3>3, <3>4
  <2>. QED BY <1>8, <2>1, <2>2
<1>10. \E i \in D : 100 * values[i] <= v(q)
  <2>1. PICK i \in D : a(q) = values[i] BY <1>3
  <2>2. 100 * a(q) <= v(q) BY <1>7
  <2>3. 100 * values[i] <= v(q) BY Zenon, <2>1, <2>2
  <2>. QED BY <2>3
<1>11. \E j \in D : v(r) <= 100 * values[j]
  <2>1. CASE e(r) = 0
    <3>1. PICK i \in D : a(r) = values[i] BY <1>3
    <3>2. v(r) = 100 * a(r) /\ a(r) \in Nat BY <1>3, <1>6, <2>1
    <3>3. v(r) <= 100 * a(r) BY <3>2
    <3>4. v(r) <= 100 * values[i] BY Zenon, <3>1, <3>3
    <3>. QED BY <3>4
  <2>2. CASE e(r) # 0
    <3>1. d(r) + 1 < n BY <1>1, <2>2
    <3>2. PICK i \in D : b(r) = values[i] BY <1>4, <3>1
    <3>3. v(r) <= 100 * b(r) BY <1>5, <2>2
    <3>4. v(r) <= 100 * values[i] BY Zenon, <3>2, <3>3
    <3>. QED BY <3>4
  <2>. QED BY <2>1, <2>2
<1>12. v(q) \in Nat /\ v(r) \in Nat BY <1>7
<1>. QED BY Zenon, <1>9, <1>10, <1>11, <1>12 DEF v

-----------------------------------------------------------------------------
(* Requests and the rows they score                                        *)

(* What is scored are predictions of the split that was asked for; for a   *)
(* human reference all of them, and those of the locked test only when it  *)
(* was unlocked (score_evaluation).                                        *)
LEMMA SelectedAre ==
    ASSUME NEW q, NEW splitOf, NEW predicted, NEW scored, scored = Selected(q, splitOf, DOMAIN splitOf, predicted)
    PROVE  /\ scored \subseteq predicted
           /\ q.split # "all" => \A i \in scored : i \in DOMAIN splitOf /\ splitOf[i] = q.split
           /\ (q.kind = "human_gold" /\ scored # {}) =>
                 /\ q.split # "all" /\ (q.split = "locked_test" => q.unlock)
                 /\ \A i \in DOMAIN splitOf : i \in scored \/ splitOf[i] # q.split
<1>. DEFINE target == {i \in DOMAIN splitOf : q.split \in {"all", splitOf[i]}}
<1>1. scored = IF \/ ~RequestIsValid(q) \/ DOMAIN splitOf # DOMAIN splitOf
                  \/ ~(predicted \subseteq target) \/ (~q.partial /\ predicted # target)
               THEN {} ELSE predicted
  BY Zenon DEF Selected
<1>2. q.split # "all" => \A i \in target : i \in DOMAIN splitOf /\ splitOf[i] = q.split BY Zenon
<1>3. \A i \in DOMAIN splitOf : splitOf[i] = q.split => i \in target BY Zenon
<1>. HIDE DEF target
<1>4. CASE scored = {} BY <1>4
<1>5. CASE scored # {}
  <2>1. scored = predicted /\ RequestIsValid(q) /\ predicted \subseteq target /\ (~q.partial => predicted = target)
    BY Zenon, <1>1, <1>5
  <2>2. q.kind = "human_gold" => q.kind # "ai_reference" OBVIOUS
  <2>3. q.kind = "human_gold" => q.split # "all" /\ ~q.partial /\ (q.split = "locked_test" => q.unlock)
    BY Zenon, <2>1, <2>2 DEF RequestIsValid
  <2>. QED BY Zenon, <1>2, <1>3, <2>1, <2>3
<1>. QED BY <1>4, <1>5

(* An operations report by its parts.                                      *)
IsOperations(report, rows, X) ==
    /\ \A q \in {50, 95, 99} : report.latency[q] = Percentile([i \in X |-> rows[i].latency], q)
    /\ report.cost # Nothing =>
          /\ \A i \in X : rows[i].cost # Nothing
          /\ report.cost[1] = SumFunctionOnSet([i \in X |-> rows[i].cost[1]], X)
    /\ SumFunction(report.errors) = Cardinality({i \in X : rows[i].error # Nothing})

(* The parts of an operations report: the errors of the kinds add up to the*)
(* rows that failed (_operations_report).                                  *)
LEMMA OperationsAre ==
    ASSUME NEW X, IsFiniteSet(X), NEW rows, DOMAIN rows = X
    PROVE  IsOperations(Operations(rows), rows, X)
<1>. DEFINE report == Operations(rows)
            priced == {i \in X : rows[i].cost # Nothing}
            failed == {i \in X : rows[i].error # Nothing}
            E == {rows[i].error : i \in failed}
            latency == [q \in {50, 95, 99} |-> Percentile([i \in X |-> rows[i].latency], q)]
            tokens == SumFunction([i \in X |-> rows[i].tokens])
            costs == [i \in priced |-> rows[i].cost[1]]
            errors == [e \in E |-> Cardinality({i \in failed : rows[i].error = e})]
            key == [i \in failed |-> rows[i].error]
<1>1. report = [latency |-> latency, tokens |-> tokens,
                cost |-> IF priced = X THEN <<SumFunction(costs)>> ELSE Nothing, errors |-> errors]
  BY DEF Operations
<1>2. IsFiniteSet(failed) BY FS_Subset
<1>3. IsFiniteSet(E)
  <2>1. key \in [failed -> E] /\ \A e \in E : \E i \in failed : key[i] = e BY Zenon
  <2>. HIDE DEF key, E, failed
  <2>2. key \in Surjection(failed, E) BY <2>1 DEF Surjection
  <2>. QED BY <1>2, <2>2, FS_Surjection
<1>4. CountsParts(errors, key, E)
  <2>1. \A e \in E : PartOf(key, e) = {i \in failed : rows[i].error = e} BY Zenon DEF PartOf
  <2>2. \A e \in E : errors[e] = Cardinality({i \in failed : rows[i].error = e}) BY Zenon
  <2>. QED BY Zenon, <2>1, <2>2 DEF CountsParts
<1>5. PartsOf(key, E) = failed /\ DOMAIN key = failed BY Zenon DEF PartsOf
<1>6. DOMAIN errors = E OBVIOUS
<1>. HIDE DEF errors, key, E, latency, tokens, report
<1>7. SumFunction(report.errors) = Cardinality(failed)
  <2>1. SumFunctionOnSet(errors, E) = Cardinality(failed) BY <1>2, <1>3, <1>4, <1>5, PartsAddUp
  <2>. QED BY <1>1, <1>6, <2>1 DEF SumFunction
<1>8. \A q \in {50, 95, 99} : report.latency[q] = Percentile([i \in X |-> rows[i].latency], q)
  <2>1. report.latency = latency BY <1>1
  <2>. QED BY Zenon, <2>1 DEF latency
<1>9. ASSUME report.cost # Nothing
      PROVE  /\ \A i \in X : rows[i].cost # Nothing
             /\ report.cost[1] = SumFunctionOnSet([i \in X |-> rows[i].cost[1]], X)
  <2>1. report.cost = IF priced = X THEN <<SumFunction(costs)>> ELSE Nothing BY <1>1
  <2>2. priced = X BY Zenon, <1>9, <2>1
  <2>3. costs = [i \in X |-> rows[i].cost[1]] /\ DOMAIN costs = X BY Zenon, <2>2
  <2>4. report.cost[1] = SumFunction(costs) BY <2>1, <2>2
  <2>5. \A i \in X : rows[i].cost # Nothing BY <2>2
  <2>. HIDE DEF costs
  <2>6. SumFunction(costs) = SumFunctionOnSet(costs, X) BY <2>3 DEF SumFunction
  <2>. QED BY Zenon, <2>3, <2>4, <2>5, <2>6
<1>10. IsOperations(report, rows, X) BY Zenon, <1>7, <1>8, <1>9 DEF IsOperations
<1>. QED BY <1>10 DEF report

(* The rows of the inputs.                                                 *)
LEMMA TwoAreTwo == IsFiniteSet(1..2) /\ Cardinality(1..2) = 2
<1>. DEFINE n == 2
<1>1. 1 \in Int /\ n \in Int /\ n = 2 OBVIOUS
<1>. HIDE DEF n
<1>2. IsFiniteSet(1..n) /\ Cardinality(1..n) = IF 1 > n THEN 0 ELSE n - 1 + 1 BY Zenon, <1>1, FS_Interval
<1>3. IsFiniteSet(1..n) /\ Cardinality(1..n) = n BY <1>1, <1>2
<1>. QED BY Zenon, <1>1, <1>3

=============================================================================
