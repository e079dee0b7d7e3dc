-------------------------- MODULE CalculationProofs --------------------------
(***************************************************************************)
(* The invariants of the Calculations run, proved for every value of its   *)
(* bounds. A behaviour of the specification is one input that stays as it  *)
(* is, so that an invariant is a statement about every input of its kind:  *)
(* the theorems of OperatorProofs say what the operators make of any input,*)
(* the lemmas here which inputs there are.                                 *)
(***************************************************************************)
EXTENDS MCCalculations, OperatorProofs

-----------------------------------------------------------------------------
(* LabelInputs: what the evaluation calls gold, complete and ready               *)

(* The inputs of StudyChecks say by their kind which calculation they are   *)
(* of.                                                                      *)
LEMMA StudyKinds ==
    /\ \A x \in Shapes : x.kind = "shape"
    /\ \A x \in Alerts : x.kind = "alerts"
    /\ \A x \in Studies : x.kind = "study"
    /\ \A x \in Samples : x.kind = "sample"
    /\ \A x \in LabelInputs : x.kind = "label"
    /\ \A x \in Classes : x.kind = "classes"
    /\ \A x \in Levels : x.kind = "levels"
    /\ \A x \in Pairs : x.kind = "pairs"
    /\ \A x \in Nouls : x.kind = "nouls"
    /\ \A x \in Requests : x.kind = "request"
    /\ \A x \in PredictionRows : x.kind = "rows"
BY SMTT(30) DEF Shapes, Alerts, Studies, Samples, LabelInputs, Classes, Levels, Pairs, Nouls, Requests, PredictionRows

(* So do the inputs of RecordChecks.                                        *)
LEMMA RecordKinds ==
    /\ \A x \in Results : x.kind = "results"
    /\ \A x \in Buckets : x.kind = "buckets"
    /\ \A x \in Tables : x.kind = "table"
    /\ \A x \in JsonTexts : x.kind = "json"
    /\ \A x \in JsonArrays : x.kind = "array"
    /\ \A x \in LocalTimes : x.kind = "local"
    /\ \A x \in Numbers : x.kind = "number"
    /\ \A x \in Ibans : x.kind = "iban"
    /\ \A x \in Identities : x.kind = "identity"
    /\ \A x \in PrivateTexts : x.kind = "private"
    /\ \A x \in RuleTexts : x.kind = "rules"
    /\ \A x \in Policies : x.kind = "policy"
    /\ \A x \in Recordings : x.kind = "recordings"
    /\ \A x \in Streams : x.kind = "stream"
    /\ \A x \in Generations : x.kind = "generated"
    /\ \A x \in Templates : x.kind = "template"
    /\ \A x \in Sheets : x.kind = "upload"
    /\ \A x \in Csvs : x.kind = "upload"
    /\ \A x \in Jsons : x.kind = "upload"
    /\ \A x \in Processes : x.kind = "process"
    /\ \A x \in Mapped : x.kind = "mapped"
<1>1. /\ \A x \in Results : x.kind = "results"
      /\ \A x \in Buckets : x.kind = "buckets"
      /\ \A x \in Tables : x.kind = "table"
      /\ \A x \in JsonTexts : x.kind = "json"
      /\ \A x \in JsonArrays : x.kind = "array"
      /\ \A x \in LocalTimes : x.kind = "local"
      /\ \A x \in Numbers : x.kind = "number"
      /\ \A x \in Ibans : x.kind = "iban"
      /\ \A x \in Identities : x.kind = "identity"
      /\ \A x \in PrivateTexts : x.kind = "private"
      /\ \A x \in RuleTexts : x.kind = "rules"
  BY Zenon DEF Results, Buckets, Tables, JsonTexts, JsonArrays, LocalTimes, Numbers, Ibans, Identities, PrivateTexts, RuleTexts
<1>2. /\ \A x \in Policies : x.kind = "policy"
      /\ \A x \in Recordings : x.kind = "recordings"
      /\ \A x \in Streams : x.kind = "stream"
      /\ \A x \in Generations : x.kind = "generated"
      /\ \A x \in Templates : x.kind = "template"
      /\ \A x \in Sheets : x.kind = "upload"
      /\ \A x \in Csvs : x.kind = "upload"
      /\ \A x \in Jsons : x.kind = "upload"
      /\ \A x \in Processes : x.kind = "process"
      /\ \A x \in Mapped : x.kind = "mapped"
  BY ZenonT(40) DEF Policies, Recordings, Streams, Generations, Templates, Sheets, Csvs, Jsons, Processes, Mapped
<1>. QED BY <1>1, <1>2

(* So do the inputs of ProviderChecks.                                      *)
LEMMA ProviderKinds ==
    /\ \A x \in MappedSources : x.kind = "mapped csv"
    /\ \A x \in OlistSources : x.kind = "olist"
    /\ \A x \in LineSources : x.kind = "lines"
    /\ \A x \in Payloads : x.kind = "payload"
<1>1. /\ \A x \in MappedSources : x.kind = "mapped csv"
      /\ \A x \in LineSources : x.kind = "lines"
      /\ \A x \in Payloads : x.kind = "payload"
  BY Zenon DEF MappedSources, LineSources, Payloads
<1>2. \A x \in OlistSources : x.kind = "olist"
  <2>. DEFINE As == BoundedSeq(Reviews, 2)
              Bs == BoundedSeq({Item(1, <<5>>)}, 1)
              Cs == {"read", "missing_source_table", "unsupported_schema"}
              Es == BoundedSeq(Items, 2)
              Fs == {<<ProductItem(1, "c")>>, <<ProductItem(1, ""), ProductItem(2, "c")>>, <<ProductItem(1, "c"), ProductItem(1, "d")>>}
              Gs == BoundedSeq({Word("c", "x"), Word("c", "y"), Word("", "z"), [Word("d", "x") EXCEPT !.short = TRUE]}, 2)
  <2>1. OlistSources = {OlistSource(a, b, c, <<ProductItem(1, "c")>>, <<>>, d) : a \in As, b \in Orders, c \in Bs, d \in Cs}
            \cup {OlistSource(<<Review(1)>>, <<Order(1, At(4))>>, a, b, c, "read") : a \in Es, b \in Fs, c \in Gs}
    BY DEF OlistSources
  <2>. HIDE DEF As, Bs, Cs, Es, Fs, Gs
  <2>. QED BY <2>1 DEF OlistSource
<1>. QED BY Zenon, <1>1, <1>2

(* An input of a kind is one of the set of that kind.                       *)
LEMMA InputKind == ASSUME Init PROVE
    /\ input.kind = "label" => input \in LabelInputs
    /\ input.kind = "sample" => input \in Samples
    /\ input.kind = "buckets" => input \in Buckets
    /\ input.kind = "number" => input \in Numbers
    /\ input.kind = "iban" => input \in Ibans
    /\ input.kind = "identity" => input \in Identities
    /\ input.kind = "private" => input \in PrivateTexts
    /\ input.kind = "rules" => input \in RuleTexts
    /\ input.kind = "policy" => input \in Policies
    /\ input.kind = "recordings" => input \in Recordings
    /\ input.kind = "mapped" => input \in Mapped
    /\ input.kind = "stream" => input \in Streams
    /\ input.kind = "generated" => input \in Generations
    /\ input.kind = "results" => input \in Results
    /\ input.kind = "template" => input \in Templates
    /\ input.kind = "classes" => input \in Classes
    /\ input.kind = "levels" => input \in Levels
    /\ input.kind = "pairs" => input \in Pairs
    /\ input.kind = "nouls" => input \in Nouls
    /\ input.kind = "request" => input \in Requests
    /\ input.kind = "rows" => input \in PredictionRows
<1>1. CASE StudyInit BY <1>1, StudyKinds DEF StudyInit
<1>2. CASE RecordInit BY <1>2, RecordKinds DEF RecordInit
<1>3. CASE ProviderInit BY Zenon, <1>3, ProviderKinds DEF ProviderInit
<1>. QED BY <1>1, <1>2, <1>3 DEF Init

(* A state is an input, and no step changes it: what holds of every input   *)
(* always holds.                                                           *)
LEMMA InputStays == Spec => []Init
<1>1. Init /\ [Next]_input => Init'
  BY DEF Init, Next, StudyInit, RecordInit, ProviderInit
<1>. QED BY <1>1, PTL DEF Spec

(* Every row that _resolved_gold scores is valid, complete and reported     *)
(* ready, with the common or the adjudicated answer as its gold; every row  *)
(* reported ready is scored unless it says another number of passes than the*)
(* record, or holds the second pass alone (_resolved_gold against           *)
(* validate_annotation_readiness).                                          *)
THEOREM LabelsScorable == Spec => []LabelsAreScorable
<1>1. ASSUME Init PROVE LabelsAreScorable
  <2>. SUFFICES ASSUME input.kind = "label" PROVE LabelsAreScorable
    BY DEF LabelsAreScorable
  <2>. DEFINE record == [split |-> "development", second |-> input.second]
              label == [split |-> "development", second |-> input.labelSecond,
                        annotations |-> input.annotations, adjudication |-> input.adjudication]
              gold == ResolvedGold(record, label)
              ready == Readiness(<<record>>, <<label>>, 1)
  <2>1. input \in LabelInputs BY <1>1, InputKind
  <2>2. /\ label.annotations \in Seq(Annotation) /\ label.adjudication \in Seq(Adjudication)
        /\ label.split = record.split /\ record.second \in BOOLEAN
        /\ label.second \in BOOLEAN
    BY <2>1, BoundedSeqs DEF LabelInputs
  <2>. HIDE DEF record, label
  <2>3. /\ ready = <<>> <=> ~RowIsValid(record, label)
        /\ RowIsValid(record, label) => (ready[1].ready <=> Complete(record, label))
    BY ReadinessOfOne
  <2>4. CASE gold # <<>>
    <3>1. /\ RowIsValid(record, label) /\ Complete(record, label)
          /\ \/ \A a \in Range(label.annotations) : a.answers = gold[1]
             \/ Disagree(label) /\ gold[1] = label.adjudication[1].answers
      BY <2>2, <2>4, LabelAccepted
    <3>. QED BY <2>3, <2>4, <3>1 DEF LabelsAreScorable, record, label
  <2>5. CASE gold = <<>>
    <3>1. \/ ~RowIsValid(record, label) \/ ~Complete(record, label)
          \/ label.second # record.second \/ Passes(label) = {2}
      BY <2>2, <2>5, LabelRefused
    <3>2. \/ ready = <<>> \/ ~ready[1].ready
          \/ label.second # record.second \/ Passes(label) = {2}
      BY <2>3, <3>1
    <3>. QED BY <2>5, <3>2 DEF LabelsAreScorable, record, label
  <2>. QED BY <2>4, <2>5
<1>. QED BY <1>1, InputStays, PTL

-----------------------------------------------------------------------------
(* Samples: what the evaluation labels and what a run takes                 *)

(* A sample that is selected from ranked candidates of two rules (_select,  *)
(* _take_minimum).                                                          *)
LEMMA SelectionsAreProportional == ASSUME Init PROVE SelectionIsProportional
<1>. SUFFICES ASSUME input.kind = "sample" PROVE SelectionIsProportional BY Zenon DEF SelectionIsProportional
<1>. DEFINE rules == {[of |-> input.cell, minimum |-> input.minimum],
                      [of |-> input.event, minimum |-> 1]}
            X == 1..Ranks
            selected == Select(X, rules, input.size)
            inStratum(r, c) == {d \in X : r.of[d] = r.of[c]}
<1>1. input \in Samples BY InputKind
<1>2. input.minimum \in Nat /\ input.size \in Nat BY <1>1, SampleAssumption DEF Samples
<1>3. \A r \in rules : r.minimum \in Nat BY <1>2
<1>4. IsFiniteSet(X) /\ X \subseteq Nat BY SampleAssumption, IntervalIsFinite
<1>5. selected = <<>> \/ \E chosen : selected = <<chosen>> BY Zenon DEF Select, Nothing
<1>. HIDE DEF rules, X
<1>6. ASSUME NEW chosen \in Range(selected)
      PROVE  /\ Cardinality(chosen) = input.size
             /\ \A r \in rules, c \in X : r.of[c] # Unset =>
                   Cardinality(inStratum(r, c) \cap chosen) >= r.minimum
             /\ \A c \in chosen, d \in X \ chosen : d < c =>
                   \E r \in rules : /\ r.of[c] # Unset
                                    /\ Cardinality({e \in inStratum(r, c) : e <= c}) <= r.minimum
  <2>1. Select(X, rules, input.size) = <<chosen>> BY <1>5, <1>6 DEF Range
  <2>. DEFINE size == input.size
  <2>. HIDE DEF size
  <2>2. Select(X, rules, size) = <<chosen>> /\ size \in Nat BY <1>2, <2>1 DEF size
  <2>3. Cardinality(chosen) = size BY <1>3, <1>4, <2>2, SelectionKeepsStrata
  <2>4. \A r \in rules, c \in X : r.of[c] # Unset =>
              Cardinality(StratumWith(X, r.of, c) \cap chosen) >= r.minimum
    BY <1>3, <1>4, <2>2, SelectionKeepsStrata
  <2>5. \A c \in chosen, d \in X \ chosen : d < c => IsNeeded(X, rules, c)
    BY <1>3, <1>4, <2>2, SelectionKeepsStrata
  <2>. QED BY Zenon, <2>3, <2>4, <2>5 DEF StratumWith, IsNeeded, size
<1>. QED BY Zenon, <1>6 DEF SelectionIsProportional, rules, X

(* What the three targets are together.                                     *)
LEMMA TotalOfTargets == ASSUME NEW targets, SplitsOf(targets) PROVE SumFunction(targets) = TotalOf(targets)
<1>1. targets \in [1..3 -> Nat] /\ DOMAIN targets = 1..3 BY DEF SplitsOf
<1>2. 1..3 = {1, 2, 3} /\ {1, 2, 3} \ {1} = {2, 3} /\ {2, 3} \ {2} = {3} /\ {3} \ {3} = {} OBVIOUS
<1>3. IsFiniteSet({1, 2, 3}) /\ IsFiniteSet({2, 3}) /\ IsFiniteSet({3})
  <2>1. IsFiniteSet(1..3) BY IntervalIsFinite
  <2>. QED BY <1>2, <2>1, FS_Subset
<1>4. \A x \in {1, 2, 3} : targets[x] \in Int BY <1>1
<1>5. SumFunctionOnSet(targets, {1, 2, 3}) = targets[1] + SumFunctionOnSet(targets, {2, 3})
  <2>1. 1 \in {1, 2, 3} OBVIOUS
  <2>. QED BY <1>2, <1>3, <1>4, <2>1, SumRemove
<1>6. SumFunctionOnSet(targets, {2, 3}) = targets[2] + SumFunctionOnSet(targets, {3})
  <2>1. 2 \in {2, 3} /\ \A x \in {2, 3} : targets[x] \in Int BY <1>4
  <2>. QED BY <1>2, <1>3, <2>1, SumRemove
<1>7. SumFunctionOnSet(targets, {3}) = targets[3] + SumFunctionOnSet(targets, {})
  <2>1. 3 \in {3} /\ \A x \in {3} : targets[x] \in Int BY <1>4
  <2>. QED BY <1>2, <1>3, <2>1, SumRemove
<1>8. SumFunctionOnSet(targets, {}) = 0 BY SumEmpty
<1>9. SumFunctionOnSet(targets, {1, 2, 3}) = targets[1] + targets[2] + targets[3] BY <1>4, <1>5, <1>6, <1>7, <1>8
<1>. QED BY Zenon, <1>1, <1>2, <1>9 DEF SumFunction, TotalOf

(* The sample divided by the targets, and its second pass (_assign_splits,  *)
(* _assign_second_pass).                                                    *)
LEMMA SplitsAreInProportion == SplitsAreProportional
<1>. DEFINE all == SplitRows
            splits == AssignSplits(all, Targets)
            count(s, i) == GivenTo(splits, s, i)
            wanted == [s \in DOMAIN Targets |-> Targets[s] \div 2]
            twice == AssignSecondPass(DOMAIN splits, splits, wanted)
<1>1. SplitsOf(Targets) /\ DOMAIN Targets = 1..3 BY SampleAssumption DEF SplitsOf
<1>2. SumFunction(Targets) = all /\ all = TotalOf(Targets) BY <1>1, SampleAssumption, TotalOfTargets
<1>3. /\ \A s \in 1..3 : Targets[s] \in Nat \ {0}
      /\ all \in Nat /\ all = Targets[1] + Targets[2] + Targets[3]
  BY <1>2, SampleAssumption DEF TotalOf
<1>. HIDE DEF all
<1>4. /\ splits \in [1..all -> 1..3]
      /\ \A s \in 1..3 : count(s, all) = Targets[s]
      /\ \A s \in 1..3, from, to \in 0..all : from <= to =>
            /\ count(s, from) \in Nat /\ count(s, to) \in Nat
            /\ (count(s, to) - count(s, from)) * all <= (to - from) * Targets[s] + all + Targets[s]
            /\ (to - from) * Targets[s] <= (count(s, to) - count(s, from)) * all + all + Targets[s]
  BY <1>1, <1>2, SplitsKeepTheirShares
<1>. HIDE DEF splits
<1>5. ASSUME NEW s \in 1..3, NEW from \in 0..all, NEW to \in 0..all, from <= to
      PROVE  Within(s, count(s, to) - count(s, from), to - from)
  <2>. DEFINE a == count(s, from)
              b == count(s, to)
              t == Targets[s]
              k == to - from
  <2>1. /\ a \in Nat /\ b \in Nat
        /\ (b - a) * all <= k * t + all + t
        /\ k * t <= (b - a) * all + all + t
    BY Zenon, <1>4, <1>5
  <2>2. t \in Nat /\ t < all BY <1>3
  <2>3. k \in Nat BY <1>5
  <2>. HIDE DEF a, b, t, k
  <2>4. (b - a) * all \in Int /\ k * t \in Int BY <1>3, <2>1, <2>2, <2>3
  <2>5. (b - a) * all < k * t + 2 * all /\ k * t < (b - a) * all + 2 * all BY <1>3, <2>1, <2>2, <2>4
  <2>6. Within(s, b - a, k) BY Zenon, <1>2, <2>5 DEF Within, t
  <2>. QED BY <2>6 DEF a, b, k
<1>6. ASSUME NEW s \in 1..3 PROVE Cardinality({i \in twice : splits[i] = s}) = Targets[s] \div 2
  <2>. DEFINE X == 1..all
              own == RowsIn(X, splits, s)
  <2>1. IsFiniteSet(X) /\ X \subseteq Nat /\ DOMAIN splits = X BY <1>3, <1>4, IntervalIsFinite
  <2>2. DOMAIN wanted = 1..3 /\ (\A t \in 1..3 : wanted[t] = Targets[t] \div 2 /\ wanted[t] \in Nat /\ wanted[t] <= Targets[t])
    <3>1. \A t \in 1..3 : Targets[t] \div 2 \in Nat /\ Targets[t] \div 2 <= Targets[t] BY <1>3
    <3>. QED BY <1>1, <3>1
  <2>3. Cardinality(own) = Targets[s] BY <1>4 DEF RowsIn, GivenTo
  <2>. HIDE DEF X, wanted, own
  <2>4. \/ Cardinality(RowsIn(AssignSecondPass(X, splits, wanted), splits, s)) = wanted[s]
        \/ Cardinality(RowsIn(X, splits, s)) < wanted[s]
    BY <2>1, <2>2, SecondPassIsFilled
  <2>5. ~(Cardinality(RowsIn(X, splits, s)) < wanted[s]) BY <1>3, <2>2, <2>3 DEF own
  <2>6. Cardinality(RowsIn(twice, splits, s)) = wanted[s] BY <2>1, <2>4, <2>5
  <2>. QED BY <2>2, <2>6 DEF RowsIn
<1>. QED BY Zenon, <1>1, <1>5, <1>6 DEF SplitsAreProportional, GivenTo, splits, all

(* The sample of a run, and what its preview counts (sample_records,        *)
(* runs/preview).                                                           *)
LEMMA BucketInputsAreBalanced == ASSUME Init PROVE SampleIsBalanced
<1>. SUFFICES ASSUME input.kind = "buckets" PROVE SampleIsBalanced BY DEF SampleIsBalanced
<1>. DEFINE bucket == input.bucket
            rows == DOMAIN bucket
            count == input.count
            chosen == SampleRecords(rows, bucket, count)
            given(b) == {r \in chosen : bucket[r] = b}
            left(b) == {r \in rows \ chosen : bucket[r] = b}
            preview == Preview(rows, bucket, TRUE, count, {1}, {1, 2})
<1>1. input \in Buckets BY InputKind
<1>2. count \in Nat /\ \E n \in 1..5 : bucket \in [1..n -> 1..3] BY <1>1 DEF Buckets
<1>3. PICK n \in 1..5 : bucket \in [1..n -> 1..3] BY <1>2
<1>. HIDE DEF bucket, count
<1>4. rows = 1..n /\ IsFiniteSet(rows) /\ rows \subseteq Nat /\ Cardinality(rows) = n BY <1>3, FS_Interval
<1>5. \A r \in rows : bucket[r] \in Nat BY <1>3
<1>. HIDE DEF rows
<1>6. chosen \subseteq rows /\ Cardinality(chosen) <= count BY <1>2, <1>4, <1>5, BucketsAreBalanced
<1>7. Cardinality(chosen) = count \/ (\A r \in rows : r \in chosen) BY <1>2, <1>4, <1>5, BucketsAreBalanced
<1>8. \A b, c \in Nat : RowsIn(rows \ chosen, bucket, b) # {} =>
          Cardinality(RowsIn(chosen, bucket, c)) <= Cardinality(RowsIn(chosen, bucket, b)) + 1
  BY <1>2, <1>4, <1>5, BucketsAreBalanced
<1>9. preview.selected = Cardinality(chosen \ {1})
      /\ preview.blocked = Cardinality((chosen \ {1}) \cap {1, 2})
  BY DEF Preview
<1>. HIDE DEF chosen, preview
<1>10. Cardinality(chosen) = Min({count, Cardinality(rows)})
  <2>. DEFINE m == Min({count, Cardinality(rows)})
  <2>1. m \in {count, n} /\ \A y \in {count, n} : m <= y
    <3>1. {count, n} # {} /\ {count, n} \subseteq Nat BY <1>2
    <3>2. PICK x \in {count, n} : \A y \in {count, n} : x <= y BY <3>1, NatLeast
    <3>. QED BY <1>4, <3>2 DEF Min
  <2>2. Cardinality(chosen) \in Nat /\ Cardinality(chosen) <= n
    BY <1>4, <1>6, FS_Subset, FS_CardinalityType
  <2>3. CASE Cardinality(chosen) = count BY <1>2, <2>1, <2>2, <2>3
  <2>4. CASE \A r \in rows : r \in chosen
    <3>1. chosen = rows BY <1>6, <2>4
    <3>. QED BY <1>2, <1>4, <1>6, <2>1, <3>1
  <2>. QED BY <1>7, <2>3, <2>4
<1>11. ASSUME NEW b \in 1..3, NEW c \in 1..3, left(b) # {} PROVE Cardinality(given(c)) <= Cardinality(given(b)) + 1
  <2>1. b \in Nat /\ c \in Nat /\ RowsIn(rows \ chosen, bucket, b) # {} BY <1>11 DEF RowsIn
  <2>2. Cardinality(RowsIn(chosen, bucket, c)) <= Cardinality(RowsIn(chosen, bucket, b)) + 1 BY <1>8, <2>1
  <2>. QED BY <2>2 DEF RowsIn
<1>12. preview.blocked <= preview.selected
  <2>1. IsFiniteSet(chosen \ {1}) BY <1>4, <1>6, FS_Subset
  <2>. QED BY <1>9, <2>1, FS_Subset
<1>. QED BY Zenon, <1>6, <1>9, <1>10, <1>11, <1>12 DEF SampleIsBalanced, chosen, preview, rows, bucket, count

(* The evaluation sample has its size and the minimum of every stratum and  *)
(* leaves out no record for a worse ranked one that no stratum needs; any   *)
(* stretch of it is divided in proportion to the three targets, to less than*)
(* two rows, whatever they are; the sample of a run takes from no bucket two*)
(* rows more than from one that still has rows.                             *)
THEOREM SamplesBalanced == Spec => []SamplesAreBalanced
<1>1. Init => SamplesAreBalanced
  BY SelectionsAreProportional, SplitsAreInProportion, BucketInputsAreBalanced DEF SamplesAreBalanced
<1>. QED BY <1>1, InputStays, PTL

-----------------------------------------------------------------------------
(* Results of a run: selections, facets, pages, summaries, trends and rules *)

(* One more row: a selection takes it when it matches.                      *)
TakeRow(w, row, q) == IF Matches(row, q) THEN Append(w, row) ELSE w

IsFiltering(h, rows, q) ==
    /\ h[0] = <<>>
    /\ \A k \in 1..Len(rows) : h[k] = TakeRow(h[k - 1], rows[k], q)

SelectedUpTo(rows, q, k) == {i \in 1..k : Matches(rows[i], q)}
CountOf(rows, q) == Cardinality({i \in DOMAIN rows : Matches(rows[i], q)})

(* A selection goes through the rows one after the other.                   *)
LEMMA FilterFold ==
    ASSUME NEW X, NEW rows \in Seq(X), NEW q
    PROVE  \E h : IsFiltering(h, rows, q) /\ FilterRows(rows, q) = h[Len(rows)]
<1>. DEFINE n == Len(rows)
            W == Seq(X)
            Step(w, k) == TakeRow(w, rows[k], q)
            step == [k \in 1..n |-> [w \in W |-> Step(w, k)]]
            Eq(g) == g = [s \in SUBSET (1..n) |-> IF s = {} THEN <<>>
                                ELSE Step(g[s \ {Max(s)}], Max(s))]
            iter == CHOOSE g : Eq(g)
            h == [k \in 0..n |-> iter[1..k]]
<1>1. DOMAIN rows = 1..n /\ n \in Nat OBVIOUS
<1>2. step \in [1..n -> [W -> W]]
  <2>1. \A k \in 1..n, w \in W : Step(w, k) \in W BY DEF TakeRow
  <2>. HIDE DEF W, Step, n
  <2>. QED BY <2>1
<1>. HIDE DEF n
<1>3. IsFiniteSet(1..n) /\ Picks(MaxPick(n), 1..n) BY <1>1, MaxPicks, IntervalIsFinite
<1>4. <<>> \in W OBVIOUS
<1>5. PICK g \in [SUBSET (1..n) -> W] : IsFold(g, <<>>, step, MaxPick(n), 1..n)
  <2>. HIDE DEF step, W
  <2>. QED BY <1>2, <1>3, <1>4, FoldExists
<1>6. \A s \in SUBSET (1..n) : s # {} => Max(s) \in 1..n /\ s \ {Max(s)} \in SUBSET (1..n)
  BY <1>1, MaxOfSubset
<1>7. ASSUME NEW s \in SUBSET (1..n), s # {}
      PROVE  g[s] = Step(g[s \ {Max(s)}], Max(s))
  <2>1. g[s] = step[Max(s)][g[s \ {Max(s)}]] BY <1>5, <1>7 DEF IsFold, MaxPick
  <2>2. Max(s) \in 1..n /\ g[s \ {Max(s)}] \in W BY <1>5, <1>6, <1>7
  <2>. HIDE DEF W, Step
  <2>. QED BY <2>1, <2>2
<1>8. Eq(g)
  <2>. HIDE DEF W, Step
  <2>1. g[{}] = <<>> BY <1>5 DEF IsFold
  <2>. QED BY <1>5, <1>7, <2>1
<1>9. Eq(iter)
  <2>. HIDE DEF Eq
  <2>. QED BY <1>8
<1>10. FilterRows(rows, q) = iter[1..n]
  BY <1>1 DEF FilterRows, FoldLeft, MapThenFoldSet, TakeRow
<1>11. iter[{}] = <<>> BY <1>9
<1>12. ASSUME NEW k \in 1..n PROVE iter[1..k] = Step(iter[1..(k - 1)], k)
  <2>1. Max(1..k) = k /\ (1..k) \ {k} = 1..(k - 1) /\ 1..k # {} /\ 1..k \in SUBSET (1..n)
    BY <1>1, MaxOfPrefix
  <2>2. Max(1..k) = k BY <1>6, <2>1
  <2>. HIDE DEF iter, Step
  <2>. QED BY <1>9, <2>1, <2>2
<1>. HIDE DEF iter, Step
<1>13. h[0] = <<>> /\ h[n] = iter[1..n] /\ \A k \in 1..n : h[k] = Step(h[k - 1], k)
  BY <1>1, <1>11, <1>12
<1>14. IsFiltering(h, rows, q) BY <1>13 DEF IsFiltering, Step, n
<1>. QED BY <1>10, <1>13, <1>14 DEF n

(* A selection has as many rows as match, and they are rows of the run      *)
(* (filter_rows).                                                           *)
LEMMA SelectionCounts ==
    ASSUME NEW X, NEW rows \in Seq(X), NEW q
    PROVE  FilterRows(rows, q) \in Seq(X) /\ Len(FilterRows(rows, q)) = CountOf(rows, q)
<1>1. PICK h : IsFiltering(h, rows, q) /\ FilterRows(rows, q) = h[Len(rows)] BY FilterFold
<1>2. Len(rows) \in Nat /\ DOMAIN rows = 1..Len(rows) /\ \A i \in 1..Len(rows) : rows[i] \in X OBVIOUS
<1>. DEFINE n == Len(rows)
            Good(k) == h[k] \in Seq(X) /\ Len(h[k]) = Cardinality(SelectedUpTo(rows, q, k))
            T0 == {k \in Nat : k <= n => Good(k)}
<1>. HIDE DEF n
<1>3. 0 \in T0
  <2>1. h[0] = <<>> BY <1>1 DEF IsFiltering
  <2>2. SelectedUpTo(rows, q, 0) = {} BY DEF SelectedUpTo
  <2>3. Cardinality(SelectedUpTo(rows, q, 0)) = 0 BY <2>2, FS_EmptySet
  <2>4. Good(0) BY <2>1, <2>3
  <2>. QED BY <2>4
<1>4. ASSUME NEW k \in Nat, k \in T0 PROVE k + 1 \in T0
  <2>. SUFFICES ASSUME k + 1 <= n PROVE Good(k + 1) OBVIOUS
  <2>1. Good(k) /\ k + 1 \in 1..n /\ (k + 1) - 1 = k BY <1>2, <1>4 DEF n
  <2>2. h[k + 1] = TakeRow(h[k], rows[k + 1], q)
    <3>1. h[k + 1] = TakeRow(h[(k + 1) - 1], rows[k + 1], q) BY <1>1, <2>1 DEF IsFiltering, n
    <3>. QED BY <2>1, <3>1
  <2>3. rows[k + 1] \in X BY <1>2, <2>1 DEF n
  <2>. DEFINE S0 == SelectedUpTo(rows, q, k)
              S1 == SelectedUpTo(rows, q, k + 1)
  <2>4. IsFiniteSet(S0) /\ k + 1 \notin S0
    <3>1. S0 \in SUBSET (1..k) BY DEF SelectedUpTo
    <3>. QED BY <3>1, IntervalIsFinite, FS_Subset
  <2>5. CASE Matches(rows[k + 1], q)
    <3>1. S1 = S0 \cup {k + 1} BY <2>5 DEF SelectedUpTo
    <3>2. Cardinality(S1) = Cardinality(S0) + 1 BY <2>4, <3>1, FS_AddElement
    <3>3. h[k + 1] = Append(h[k], rows[k + 1]) BY <2>2, <2>5 DEF TakeRow
    <3>. HIDE DEF S0, S1
    <3>4. h[k + 1] \in Seq(X) /\ Len(h[k + 1]) = Len(h[k]) + 1 BY <2>1, <2>3, <3>3, AppendProperties
    <3>. QED BY <2>1, <3>2, <3>4 DEF S0, S1
  <2>6. CASE ~Matches(rows[k + 1], q)
    <3>1. S1 = S0 BY <2>6 DEF SelectedUpTo
    <3>2. h[k + 1] = h[k] BY <2>2, <2>6 DEF TakeRow
    <3>. QED BY <2>1, <3>1, <3>2
  <2>. QED BY <2>5, <2>6
<1>5. Nat \subseteq T0
  <2>. HIDE DEF T0
  <2>. QED BY <1>3, <1>4, SetInduction
<1>6. Good(n) BY <1>2, <1>5 DEF n
<1>. QED BY <1>1, <1>2, <1>6 DEF n, CountOf, SelectedUpTo

IsFlattening(g, seqs, m) == g[1] = seqs[1] /\ \A i \in 2..m : g[i] = g[i - 1] \o seqs[i]

(* Flattening goes through the sequences one after the other: what g says of*)
(* each is what they are together up to it.                                 *)
LEMMA FlattenIs ==
    ASSUME NEW m \in Nat, m > 0, NEW seqs, Len(seqs) = m, NEW g, IsFlattening(g, seqs, m)
    PROVE  FlattenSeq(seqs) = g[m]
<1>. DEFINE Eq(f) == f = [i \in 1..m |-> IF i = 1 THEN seqs[i] ELSE f[i - 1] \o seqs[i]]
            flatten == CHOOSE f : Eq(f)
            f0 == [i \in 1..m |-> g[i]]
            T0 == {k \in Nat : k + 1 \in 1..m => flatten[k + 1] = g[k + 1]}
<1>1. Eq(f0)
  <2>1. ASSUME NEW i \in 1..m PROVE f0[i] = IF i = 1 THEN seqs[i] ELSE f0[i - 1] \o seqs[i]
    <3>1. CASE i # 1
      <4>1. i \in 2..m /\ i - 1 \in 1..m BY <3>1
      <4>2. g[i] = g[i - 1] \o seqs[i] BY <4>1 DEF IsFlattening
      <4>. QED BY <4>1, <4>2, <3>1
    <3>2. CASE i = 1 BY <3>2 DEF IsFlattening
    <3>. QED BY <3>1, <3>2
  <2>. QED BY <2>1
<1>2. Eq(flatten)
  <2>. HIDE DEF Eq, f0
  <2>. QED BY <1>1
<1>3. FlattenSeq(seqs) = flatten[m] BY DEF FlattenSeq
<1>4. \A i \in 1..m : flatten[i] = IF i = 1 THEN seqs[i] ELSE flatten[i - 1] \o seqs[i] BY <1>2, Zenon
<1>. HIDE DEF flatten
<1>5. 0 \in T0 BY <1>4 DEF IsFlattening
<1>6. ASSUME NEW k \in Nat, k \in T0 PROVE k + 1 \in T0
  <2>. SUFFICES ASSUME (k + 1) + 1 \in 1..m PROVE flatten[(k + 1) + 1] = g[(k + 1) + 1] OBVIOUS
  <2>1. (k + 1) + 1 \in 2..m /\ ((k + 1) + 1) - 1 = k + 1 /\ k + 1 \in 1..m OBVIOUS
  <2>. DEFINE j == (k + 1) + 1
  <2>. HIDE DEF j
  <2>2. flatten[j] = flatten[j - 1] \o seqs[j]
    <3>1. j \in 1..m /\ j # 1 BY DEF j
    <3>. QED BY <1>4, <3>1, Zenon
  <2>3. g[j] = g[j - 1] \o seqs[j] BY <2>1 DEF j, IsFlattening
  <2>4. flatten[j - 1] = g[j - 1] BY <1>6, <2>1 DEF j
  <2>. QED BY <2>2, <2>3, <2>4 DEF j
<1>7. Nat \subseteq T0
  <2>. HIDE DEF T0
  <2>. QED BY <1>5, <1>6, SetInduction
<1>8. m - 1 \in Nat /\ (m - 1) + 1 = m /\ m \in 1..m OBVIOUS
<1>9. flatten[m] = g[m] BY <1>7, <1>8
<1>. QED BY <1>3, <1>9

(* How many pages a selection has: none is empty but the only page of an    *)
(* empty one.                                                               *)
LEMMA PagesAre ==
    ASSUME NEW X, NEW rows \in Seq(X), NEW size \in Nat, size > 0, NEW m, m = Pages(rows, size)
    PROVE  /\ m \in Nat /\ m > 0 /\ Len(rows) <= size * m
           /\ \A p \in 1..m : p < m => size * p < Len(rows)
           /\ rows = <<>> => m = 1
<1>1. CASE rows = <<>>
  <2>1. m = 1 /\ Len(rows) = 0 BY <1>1 DEF Pages
  <2>2. size * 1 = size OBVIOUS
  <2>. QED BY <2>1, <2>2
<1>2. CASE rows # <<>>
  <2>. DEFINE n == Len(rows)
              a == n + size - 1
  <2>1. n \in Nat /\ n > 0 BY <1>2
  <2>2. m = a \div size BY <1>2 DEF Pages
  <2>. HIDE DEF n
  <2>3. a \in Nat /\ a >= size BY <2>1
  <2>4. m \in Nat /\ size * m <= a /\ a < size * m + size
    <3>. HIDE DEF a
    <3>. QED BY <2>2, <2>3, DivIs
  <2>5. m > 0
    <3>1. CASE m = 0
      <4>1. size * 0 = 0 OBVIOUS
      <4>. QED BY <2>3, <2>4, <3>1, <4>1
    <3>. QED BY <2>4, <3>1
  <2>6. n <= size * m
    <3>1. size * m \in Nat BY <2>4
    <3>. QED BY <2>1, <2>4, <3>1
  <2>7. ASSUME NEW p \in 1..m, p < m PROVE size * p < n
    <3>1. p + 1 <= m /\ p \in Nat BY <2>4, <2>7
    <3>2. size * (p + 1) <= size * m BY <2>4, <3>1
    <3>3. size * (p + 1) = size * p + size /\ size * p \in Nat /\ size * m \in Nat BY <2>4, <3>1
    <3>. QED BY <2>1, <2>4, <3>2, <3>3
  <2>. QED BY <1>2, <2>4, <2>5, <2>6, <2>7 DEF n
<1>. QED BY <1>1, <1>2

(* Where a page starts and ends.                                            *)
Upto(n, size, p) == IF size * p > n THEN n ELSE size * p

LEMMA PageIs ==
    ASSUME NEW X, NEW rows \in Seq(X), NEW size \in Nat, size > 0, NEW p \in 1..Pages(rows, size)
    PROVE  Page(rows, p, size) = SubSeq(rows, size * (p - 1) + 1, Upto(Len(rows), size, p))
<1>. DEFINE m == Pages(rows, size)
            first == (p - 1) * size
            n == Len(rows)
<1>1. m \in Nat /\ p \in Nat /\ p >= 1 /\ p <= m /\ n \in Nat BY PagesAre
<1>2. PageNumber(rows, p, size) = p
  <2>. HIDE DEF m
  <2>. QED BY <1>1 DEF PageNumber, m
<1>3. first = size * (p - 1) /\ first + size = size * p BY <1>1
<1>4. Page(rows, p, size) = SubSeq(rows, first + 1, IF first + size > n THEN n ELSE first + size)
  BY <1>2 DEF Page
<1>. HIDE DEF first, n
<1>5. Page(rows, p, size) = SubSeq(rows, size * (p - 1) + 1, IF size * p > n THEN n ELSE size * p)
  BY <1>3, <1>4
<1>. QED BY <1>5 DEF Upto, n

(* The pages of a selection are its rows in order, each once, for pages of  *)
(* any size, and none is empty but the only page of an empty selection (the *)
(* pages of the results request).                                           *)
THEOREM PagesAreTheSelection ==
    ASSUME NEW X, NEW rows \in Seq(X), NEW size \in Nat, size > 0
    PROVE  /\ FlattenSeq([p \in 1..Pages(rows, size) |-> Page(rows, p, size)]) = rows
           /\ \A p \in 1..Pages(rows, size) :
                  Page(rows, p, size) = <<>> => rows = <<>> /\ Pages(rows, size) = 1
<1>. DEFINE m == Pages(rows, size)
            n == Len(rows)
            seqs == [p \in 1..m |-> Page(rows, p, size)]
            g == [p \in 1..m |-> SubSeq(rows, 1, Upto(n, size, p))]
<1>1. /\ m \in Nat /\ m > 0 /\ n <= size * m /\ n \in Nat
      /\ \A p \in 1..m : p < m => size * p < n
      /\ rows = <<>> => m = 1
  BY PagesAre
<1>2. \A p \in 1..m : seqs[p] = SubSeq(rows, size * (p - 1) + 1, Upto(n, size, p)) BY PageIs
<1>3. Len(seqs) = m BY <1>1
<1>. HIDE DEF m, n, seqs
<1>4. g[1] = seqs[1]
  <2>1. 1 \in 1..m /\ size * (1 - 1) + 1 = 1 BY <1>1
  <2>2. seqs[1] = SubSeq(rows, size * (1 - 1) + 1, Upto(n, size, 1)) BY <1>2, <2>1
  <2>. QED BY <2>1, <2>2
<1>5. ASSUME NEW i \in 2..m PROVE g[i] = g[i - 1] \o seqs[i]
  <2>1. i \in 1..m /\ i - 1 \in 1..m /\ i - 1 < m /\ i \in Nat /\ i - 1 \in Nat BY <1>1
  <2>2. size * (i - 1) <= n /\ size * (i - 1) \in Nat /\ size * (i - 1) <= size * i /\ size * i \in Nat
    <3>1. size * (i - 1) <= n BY <1>1, <2>1
    <3>2. size * i = size * (i - 1) + size BY <2>1
    <3>3. size * (i - 1) \in Nat BY <2>1
    <3>. QED BY <3>1, <3>2, <3>3
  <2>. DEFINE a == size * (i - 1)
              b == size * i
              c == Upto(n, size, i)
  <2>3. Upto(n, size, i - 1) = a BY <1>1, <2>2 DEF Upto
  <2>4. c \in a..n /\ a \in 0..n BY <1>1, <2>2 DEF Upto
  <2>. HIDE DEF a, c
  <2>5. g[i - 1] = SubSeq(rows, 1, a) /\ g[i] = SubSeq(rows, 1, c) BY <2>1, <2>3 DEF c
  <2>6. seqs[i] = SubSeq(rows, a + 1, c) BY <1>2, <2>1 DEF a, c
  <2>7. SubSeq(rows, 1, a) \o SubSeq(rows, a + 1, c) = SubSeq(rows, 1, c)
    <3>1. 1 \in 1..(Len(rows) + 1) /\ a \in (1 - 1)..Len(rows) /\ c \in a..Len(rows) BY <1>1, <2>4 DEF n
    <3>. QED BY <3>1, ConcatAdjacentSubSeq
  <2>. QED BY <2>5, <2>6, <2>7
<1>6. FlattenSeq(seqs) = g[m]
  <2>. HIDE DEF g
  <2>1. IsFlattening(g, seqs, m) BY <1>4, <1>5 DEF IsFlattening
  <2>. QED BY <1>1, <1>3, <2>1, FlattenIs
<1>7. g[m] = rows
  <2>1. Upto(n, size, m) = n
    <3>1. size * m \in Nat BY <1>1
    <3>. QED BY <1>1, <3>1 DEF Upto
  <2>2. g[m] = SubSeq(rows, 1, n) BY <1>1, <2>1
  <2>3. SubSeq(rows, 1, n) = rows BY SubSeqFull DEF n
  <2>. QED BY <2>2, <2>3
<1>8. ASSUME NEW p \in 1..m, rows # <<>> PROVE seqs[p] # <<>>
  <2>. DEFINE a == size * (p - 1)
              c == Upto(n, size, p)
  <2>1. n > 0 /\ p \in Nat /\ p - 1 \in Nat /\ a \in Nat /\ size * p = a + size BY <1>1, <1>8 DEF n
  <2>2. a < n
    <3>1. CASE p = 1
      <4>1. size * (1 - 1) = 0 OBVIOUS
      <4>. QED BY <2>1, <3>1, <4>1
    <3>2. CASE p # 1
      <4>1. p - 1 \in 1..m /\ p - 1 < m BY <1>1, <2>1, <3>2
      <4>. QED BY <1>1, <4>1
    <3>. QED BY <3>1, <3>2
  <2>. HIDE DEF a
  <2>3. c \in a + 1..n BY <1>1, <2>1, <2>2 DEF Upto
  <2>. HIDE DEF c
  <2>4. seqs[p] = SubSeq(rows, a + 1, c) BY <1>2 DEF a, c
  <2>5. Len(SubSeq(rows, a + 1, c)) > 0
    <3>1. a + 1 \in 1..Len(rows) + 1 /\ c \in (a + 1) - 1..Len(rows) /\ c \in Nat /\ c > a BY <1>1, <2>1, <2>2, <2>3 DEF n
    <3>2. Len(SubSeq(rows, a + 1, c)) = (c - (a + 1)) + 1
      <4>. DEFINE b == a + 1
      <4>1. b \in Int /\ c \in Int /\ b <= c /\ \A i \in b..c : i \in 1..Len(rows) BY <2>1, <3>1
      <4>. HIDE DEF b, c
      <4>2. \A i \in b..c : rows[i] \in X BY <4>1
      <4>3. Len(SubSeq(rows, b, c)) = c - b + 1 BY <4>1, <4>2, SubSeqProperties
      <4>. QED BY <4>3 DEF b
    <3>. QED BY <2>1, <3>1, <3>2
  <2>6. Len(<<>>) = 0 OBVIOUS
  <2>. DEFINE page == SubSeq(rows, a + 1, c)
  <2>7. seqs[p] = page /\ Len(page) > 0 BY <2>4, <2>5
  <2>. HIDE DEF page
  <2>. QED BY <2>6, <2>7
<1>9. \A p \in 1..m : seqs[p] = Page(rows, p, size) BY DEF seqs
<1>10. \A p \in 1..m : Page(rows, p, size) = <<>> => rows = <<>> /\ m = 1 BY <1>1, <1>8, <1>9
<1>. QED BY <1>6, <1>7, <1>10 DEF seqs, m

(* The positions of the rows whose day is d, or is one of some days.        *)
OnDay(rows, d) == {i \in DOMAIN rows : rows[i].day = d}
OnDays(rows, days) == {i \in DOMAIN rows : rows[i].day \in days}

PerDay(rows, days) == [d \in days |-> Cardinality(OnDay(rows, d))]

(* The rows of some days are those of each day together.                    *)
LEMMA DaysAddUp ==
    ASSUME NEW rows, IsFiniteSet(DOMAIN rows), NEW days, IsFiniteSet(days)
    PROVE  SumFunction(PerDay(rows, days)) = Cardinality(OnDays(rows, days))
<1>. DEFINE f == PerDay(rows, days)
            Q == {s \in SUBSET days : SumFunctionOnSet(f, s) = Cardinality(OnDays(rows, s))}
<1>1. \A s : IsFiniteSet(OnDays(rows, s)) /\ Cardinality(OnDays(rows, s)) \in Nat
  BY FS_Subset, FS_CardinalityType DEF OnDays
<1>2. \A d : IsFiniteSet(OnDay(rows, d)) /\ Cardinality(OnDay(rows, d)) \in Nat
  BY FS_Subset, FS_CardinalityType DEF OnDay
<1>3. \A d \in days : f[d] = Cardinality(OnDay(rows, d)) /\ f[d] \in Int BY <1>2 DEF PerDay
<1>. HIDE DEF f
<1>4. {} \in Q
  <2>1. OnDays(rows, {}) = {} BY DEF OnDays
  <2>. QED BY <2>1, SumEmpty, FS_EmptySet
<1>5. ASSUME NEW s \in SUBSET days, s # {}, \A x \in s : s \ {x} \in Q PROVE s \in Q
  <2>1. PICK d \in s : TRUE BY <1>5
  <2>2. d \in days /\ IsFiniteSet(s) /\ \A x \in s : f[x] \in Int BY <1>3, <2>1, FS_Subset
  <2>3. SumFunctionOnSet(f, s) = f[d] + SumFunctionOnSet(f, s \ {d}) BY <2>1, <2>2, SumRemove
  <2>4. SumFunctionOnSet(f, s \ {d}) = Cardinality(OnDays(rows, s \ {d})) BY <1>5, <2>1
  <2>5. OnDays(rows, s) = OnDay(rows, d) \cup OnDays(rows, s \ {d})
        /\ OnDay(rows, d) \cap OnDays(rows, s \ {d}) = {}
    BY <2>1 DEF OnDay, OnDays
  <2>6. Cardinality(OnDays(rows, s)) = Cardinality(OnDay(rows, d)) + Cardinality(OnDays(rows, s \ {d}))
    <3>. DEFINE A0 == OnDay(rows, d)
                B0 == OnDays(rows, s \ {d})
    <3>1. IsFiniteSet(A0) /\ IsFiniteSet(B0) /\ Cardinality(A0) \in Nat /\ Cardinality(B0) \in Nat BY <1>1, <1>2
    <3>2. A0 \cap B0 = {} BY <2>5
    <3>. HIDE DEF A0, B0
    <3>3. Cardinality(A0 \cup B0) = Cardinality(A0) + Cardinality(B0) - Cardinality(A0 \cap B0)
      BY <3>1, FS_Union
    <3>4. Cardinality(A0 \cap B0) = 0 BY <3>2, FS_EmptySet
    <3>5. Cardinality(A0 \cup B0) = Cardinality(A0) + Cardinality(B0) BY <3>1, <3>3, <3>4
    <3>. QED BY <2>5, <3>5 DEF A0, B0
  <2>7. SumFunctionOnSet(f, s) = Cardinality(OnDays(rows, s)) BY <1>3, <2>2, <2>3, <2>4, <2>6
  <2>. QED BY <2>7
<1>6. SUBSET days \subseteq Q
  <2>. HIDE DEF Q
  <2>. QED BY <1>4, <1>5, SubsetInduction
<1>7. SumFunctionOnSet(f, days) = Cardinality(OnDays(rows, days)) BY <1>6
<1>8. DOMAIN PerDay(rows, days) = days BY DEF PerDay
<1>. QED BY <1>7, <1>8 DEF SumFunction, f

DaysOf(rows) == {row.day : row \in Range(rows)} \ {0}

(* What a summary says of the days of its rows.                             *)
LEMMA SummaryIs ==
    ASSUME NEW rows, NEW summary, summary = Summary(rows)
    PROVE  /\ summary.processed = Len(rows)
           /\ summary.dated = Cardinality({i \in DOMAIN rows : rows[i].day # 0})
           /\ DOMAIN summary.days = DaysOf(rows)
           /\ \A d \in DaysOf(rows) : summary.days[d].total = Cardinality(OnDay(rows, d))
<1>. DEFINE days == {row.day : row \in Range(rows)} \ {0}
            on(d) == {i \in DOMAIN rows : rows[i].day = d}
            byDay == [d \in days |-> [total |-> Cardinality(on(d)), topics |-> CountBy(rows, on(d), "topic")]]
<1>1. days = DaysOf(rows) BY DEF DaysOf
<1>2. summary.days = byDay BY Zenon DEF Summary
<1>3. summary.processed = Len(rows) BY Zenon DEF Summary
<1>4. summary.dated = Cardinality({i \in DOMAIN rows : rows[i].day # 0}) BY Zenon DEF Summary
<1>. HIDE DEF days
<1>5. DOMAIN summary.days = days BY <1>2
<1>6. ASSUME NEW d \in days PROVE summary.days[d].total = Cardinality(OnDay(rows, d))
  <2>1. summary.days[d].total = Cardinality(on(d)) BY <1>2, <1>6
  <2>2. on(d) = OnDay(rows, d) BY DEF OnDay
  <2>. QED BY <2>1, <2>2
<1>. QED BY <1>1, <1>3, <1>4, <1>5, <1>6

(* The days of a summary add up to its dated rows, and these and the rows   *)
(* without a day to all of them (summarize).                                *)
THEOREM SummariesAddUp ==
    ASSUME NEW X, NEW rows \in Seq(X), \A x \in X : x.day \in Nat, NEW summary, summary = Summary(rows)
    PROVE  /\ SumFunction([d \in DOMAIN summary.days |-> summary.days[d].total]) = summary.dated
           /\ summary.dated + Cardinality({i \in DOMAIN rows : rows[i].day = 0}) = summary.processed
<1>. DEFINE days == DaysOf(rows)
            n == Len(rows)
            dated == {i \in DOMAIN rows : rows[i].day # 0}
            undated == {i \in DOMAIN rows : rows[i].day = 0}
            totals == [d \in DOMAIN summary.days |-> summary.days[d].total]
<1>1. n \in Nat /\ DOMAIN rows = 1..n /\ \A i \in 1..n : rows[i] \in X BY LenProperties
<1>2. IsFiniteSet(DOMAIN rows) BY <1>1, IntervalIsFinite
<1>3. summary.processed = n /\ summary.dated = Cardinality(dated) /\ DOMAIN summary.days = days
      /\ \A d \in days : summary.days[d].total = Cardinality(OnDay(rows, d))
  BY SummaryIs
<1>4. IsFiniteSet(days)
  <2>. DEFINE D0 == {rows[i].day : i \in DOMAIN rows}
  <2>1. IsFiniteSet(D0)
    <3>. DEFINE g == [i \in DOMAIN rows |-> rows[i].day]
    <3>1. g \in Surjection(DOMAIN rows, D0) BY DEF Surjection
    <3>. HIDE DEF D0, g, n
    <3>. QED BY <1>2, <3>1, FS_Surjection
  <2>2. days \subseteq D0
    <3>1. Range(rows) = {rows[i] : i \in DOMAIN rows} BY DEF Range
    <3>. QED BY <3>1 DEF DaysOf
  <2>. QED BY <2>1, <2>2, FS_Subset
<1>5. totals = PerDay(rows, days) BY <1>3 DEF PerDay
<1>6. OnDays(rows, days) = dated
  <2>1. Range(rows) = {rows[i] : i \in DOMAIN rows} BY DEF Range
  <2>. QED BY <2>1 DEF OnDays, DaysOf
<1>7. SumFunction(PerDay(rows, days)) = Cardinality(OnDays(rows, days)) BY <1>2, <1>4, DaysAddUp
<1>8. SumFunction(totals) = Cardinality(dated)
  <2>. HIDE DEF totals, dated, days
  <2>. QED BY <1>5, <1>6, <1>7
<1>9. Cardinality(dated) + Cardinality(undated) = n
  <2>1. dated \in SUBSET (1..n) /\ undated \in SUBSET (1..n) /\ dated \cap undated = {} /\ dated \cup undated = 1..n
    BY <1>1
  <2>2. n \in Nat OBVIOUS
  <2>. HIDE DEF dated, undated, n
  <2>3. dated \in SUBSET (1..n) /\ undated \in SUBSET (1..n) /\ dated \cap undated = {} BY <2>1
  <2>4. Cardinality(dated \cup undated) = Cardinality(dated) + Cardinality(undated) BY <2>2, <2>3, CardinalityOfTwo
  <2>5. Cardinality(1..n) = n BY <1>1, FS_Interval
  <2>. QED BY <2>1, <2>4, <2>5
<1>. QED BY <1>3, <1>8, <1>9

(* The rows of the inputs: what they can have in each field of a filter.    *)
LEMMA ResultRowsAre ==
    /\ \A x \in ResultRows : /\ x["topic"] \in {"a", "b"} /\ x["sentiment"] \in {"positive", "none"}
                             /\ x["language"] = "sv" /\ x["product"] = "none" /\ x["group"] = "none"
                             /\ x.day \in 0..2
    /\ Fields = {"topic", "sentiment", "language", "product", "group"}
    /\ Nullable = {"sentiment", "language", "product", "group"}
    /\ None = "none" /\ AnyValue = "any" /\ Nothing = <<>>
<1>1. Fields = {"topic", "sentiment", "language", "product", "group"}
      /\ None = "none" /\ AnyValue = "any" /\ Nothing = <<>>
  BY DEF Fields, None, AnyValue, Nothing
<1>2. Nullable = {"sentiment", "language", "product", "group"} BY <1>1 DEF Nullable
<1>3. ASSUME NEW x \in ResultRows
      PROVE  /\ x["topic"] \in {"a", "b"} /\ x["sentiment"] \in {"positive", "none"}
             /\ x["language"] = "sv" /\ x["product"] = "none" /\ x["group"] = "none"
             /\ x.day \in 0..2
  <2>1. PICK t \in {"a", "b"}, s \in {"positive", None}, d \in 0..2 : x = Row(t, s, d, 5 - d, d = 1)
    BY DEF ResultRows
  <2>2. x = [topic |-> t, sentiment |-> s, day |-> d, language |-> "sv", product |-> None,
             group |-> None, rating |-> 5 - d, reused |-> (d = 1), tokens |-> 1]
    BY <2>1 DEF Row
  <2>. QED BY <1>1, <2>1, <2>2
<1>. QED BY <1>1, <1>2, <1>3

(* A row has a value of the rows, or none, in every field; a topic always.  *)
LEMMA FieldOfRow ==
    ASSUME NEW x \in ResultRows, NEW f \in Fields
    PROVE  x[f] # "any" /\ (f = "topic" => x[f] # "none")
BY ResultRowsAre

(* The selections that leave every field but one open.                      *)
LEMMA AllIs ==
    /\ All = [values |-> [f \in Fields |-> "any"], missing |-> {}, from |-> 0, to |-> 0]
    /\ \A f \in Fields : Only(f, "none") = [All EXCEPT !.missing = {f}]
    /\ \A f, v : v # "none" => Only(f, v) = [All EXCEPT !.values[f] = v]
<1>1. AnyValue = "any" /\ None = "none" BY ResultRowsAre
<1>2. \A f : (CASE f = "topic" -> AnyValue [] f = "sentiment" -> AnyValue [] OTHER -> AnyValue) = "any"
  BY <1>1
<1>3. [f \in Fields |-> CASE f = "topic" -> AnyValue [] f = "sentiment" -> AnyValue [] OTHER -> AnyValue]
          = [f \in Fields |-> "any"]
  BY <1>2
<1>4. All = [values |-> [f \in Fields |-> "any"], missing |-> {}, from |-> 0, to |-> 0]
  BY <1>3, Zenon DEF All, Query
<1>. QED BY <1>1, <1>4 DEF Only

(* The filter of a value, or of no value, selects the rows that have it.    *)
LEMMA OnlyMatches ==
    ASSUME NEW x \in ResultRows, NEW f \in Fields, NEW v, v # "any", v = "none" => f \in Nullable
    PROVE  Matches(x, Only(f, v)) <=> x[f] = v
<1>. DEFINE q == Only(f, v)
<1>1. CASE v = "none"
  <2>1. q.missing = {f} /\ q.from = 0 /\ q.to = 0 /\ \A g \in Fields : q.values[g] = "any"
    BY <1>1, AllIs
  <2>. HIDE DEF q
  <2>2. Matches(x, q) <=> \A g \in Fields : IF g \in q.missing THEN x[g] = "none" ELSE q.values[g] \in {"any", x[g]}
    BY <2>1, ResultRowsAre DEF Matches
  <2>. QED BY <1>1, <2>1, <2>2 DEF q
<1>2. CASE v # "none"
  <2>1. q = [All EXCEPT !.values[f] = v] BY <1>2, ResultRowsAre DEF Only
  <2>2. q.missing = {} /\ q.from = 0 /\ q.to = 0 /\ q.values[f] = v
        /\ \A g \in Fields : g # f => q.values[g] = "any"
    BY <2>1, AllIs
  <2>. HIDE DEF q
  <2>3. Matches(x, q) <=> \A g \in Fields : IF g \in q.missing THEN x[g] = "none" ELSE q.values[g] \in {"any", x[g]}
    BY <2>2, ResultRowsAre DEF Matches
  <2>. QED BY <1>2, <2>2, <2>3 DEF q
<1>. QED BY <1>1, <1>2

(* The range of one day selects the rows of that day.                       *)
LEMMA DayMatches ==
    ASSUME NEW x \in ResultRows, NEW d \in 1..2
    PROVE  Matches(x, [All EXCEPT !.from = d, !.to = d]) <=> x.day = d
<1>. DEFINE q == [All EXCEPT !.from = d, !.to = d]
<1>1. q.missing = {} /\ q.from = d /\ q.to = d /\ \A g \in Fields : q.values[g] = "any" BY AllIs
<1>. HIDE DEF q
<1>2. x.day \in 0..2 BY ResultRowsAre
<1>3. Matches(x, q) <=> /\ x.day # 0 /\ d <= x.day /\ x.day <= d
                          /\ \A g \in Fields : IF g \in q.missing THEN x[g] = "none" ELSE q.values[g] \in {"any", x[g]}
  BY <1>1, ResultRowsAre DEF Matches
<1>. QED BY <1>1, <1>2, <1>3 DEF q

(* What a facet counts is what the filter of that value then selects        *)
(* (observed_facets, filter_rows).                                          *)
LEMMA FacetCounts ==
    ASSUME NEW rows \in Seq(ResultRows), NEW f \in Fields, NEW v \in DOMAIN Facets(rows)[f],
           v = None => f \in Nullable
    PROVE  Facets(rows)[f][v] = Len(FilterRows(rows, Only(f, v)))
<1>1. Facets(rows)[f] = CountBy(rows, DOMAIN rows, f) BY DEF Facets
<1>2. CountBy(rows, DOMAIN rows, f)
          = [w \in {rows[i][f] : i \in DOMAIN rows} |-> Cardinality({i \in DOMAIN rows : rows[i][f] = w})]
  BY DEF CountBy
<1>3. v \in {rows[i][f] : i \in DOMAIN rows} BY <1>1, <1>2
<1>4. Facets(rows)[f][v] = Cardinality({i \in DOMAIN rows : rows[i][f] = v})
  BY <1>1, <1>2, <1>3
<1>5. \A i \in DOMAIN rows : rows[i] \in ResultRows BY LenProperties
<1>6. v # "any"
  <2>1. PICK i \in DOMAIN rows : v = rows[i][f] BY <1>3
  <2>. QED BY <1>5, <2>1, FieldOfRow
<1>7. v = "none" => f \in Nullable BY ResultRowsAre
<1>8. {i \in DOMAIN rows : rows[i][f] = v} = {i \in DOMAIN rows : Matches(rows[i], Only(f, v))}
  BY <1>5, <1>6, <1>7, OnlyMatches
<1>9. Len(FilterRows(rows, Only(f, v))) = CountOf(rows, Only(f, v)) BY SelectionCounts
<1>. QED BY <1>4, <1>8, <1>9 DEF CountOf

(* A day of a summary counts what its range selects.                        *)
LEMMA DayCounts ==
    ASSUME NEW rows \in Seq(ResultRows), NEW d \in DOMAIN Summary(rows).days
    PROVE  Summary(rows).days[d].total = Len(FilterRows(rows, [All EXCEPT !.from = d, !.to = d]))
<1>. DEFINE q == [All EXCEPT !.from = d, !.to = d]
<1>1. d \in DaysOf(rows) BY SummaryIs
<1>2. Summary(rows).days[d].total = Cardinality(OnDay(rows, d)) BY <1>1, SummaryIs
<1>3. \A i \in DOMAIN rows : rows[i] \in ResultRows BY LenProperties
<1>4. d \in 1..2
  <2>1. PICK i \in DOMAIN rows : d = rows[i].day /\ d # 0 BY <1>1 DEF DaysOf, Range
  <2>2. rows[i].day \in 0..2 BY <1>3, <2>1, ResultRowsAre
  <2>. QED BY <2>1, <2>2
<1>5. OnDay(rows, d) = {i \in DOMAIN rows : Matches(rows[i], q)} BY <1>3, <1>4, DayMatches DEF OnDay
<1>6. Len(FilterRows(rows, q)) = CountOf(rows, q) BY SelectionCounts
<1>. QED BY <1>2, <1>5, <1>6 DEF CountOf

(* A rate has no more of a topic than there are rows of its days (trends).  *)
LEMMA RatesAreShares ==
    ASSUME NEW rows \in Seq(ResultRows), NEW t, NEW from, NEW d \in DOMAIN Observed(rows, t, from)
    PROVE  Observed(rows, t, from)[d].accepted \in 0..Observed(rows, t, from)[d].eligible
<1>. DEFINE on == {i \in DOMAIN rows : rows[i].day = d}
            of == {i \in on : rows[i].topic = t}
            days == {row.day : row \in {r \in Range(rows) : r.day # 0 /\ r.day >= from}}
            o == Observed(rows, t, from)
<1>1. DOMAIN o = days BY Zenon DEF Observed
<1>2. d \in days BY <1>1
<1>3. o[d] = [eligible |-> Cardinality(on), known |-> TRUE, accepted |-> Cardinality(of)]
  BY <1>2, Zenon DEF Observed
<1>4. o[d].eligible = Cardinality(on) /\ o[d].accepted = Cardinality(of) BY <1>3
<1>5. IsFiniteSet(on)
  <2>1. DOMAIN rows = 1..Len(rows) /\ Len(rows) \in Nat BY LenProperties
  <2>2. IsFiniteSet(DOMAIN rows) BY <2>1, IntervalIsFinite
  <2>. QED BY <2>2, FS_Subset
<1>. HIDE DEF o
<1>6. of \subseteq on OBVIOUS
<1>. HIDE DEF on, of
<1>7. Cardinality(of) \in Nat /\ Cardinality(on) \in Nat /\ Cardinality(of) <= Cardinality(on)
  BY <1>5, <1>6, FS_Subset, FS_CardinalityType
<1>8. o[d].accepted \in 0..o[d].eligible BY <1>4, <1>7
<1>. QED BY <1>8 DEF o

(* The rows with one topic under another name.                              *)
Renamed(rows) == [i \in DOMAIN rows |-> [rows[i] EXCEPT !.topic = IF @ = "b" THEN "c" ELSE @]]

LEMMA RenamedIs ==
    ASSUME NEW rows \in Seq(ResultRows)
    PROVE  /\ DOMAIN Renamed(rows) = DOMAIN rows
           /\ \A i \in DOMAIN rows : /\ Renamed(rows)[i].day = rows[i].day
                                     /\ Renamed(rows)[i].topic = "a" <=> rows[i].topic = "a"
<1>1. ASSUME NEW x \in ResultRows
      PROVE  LET y == [x EXCEPT !.topic = IF @ = "b" THEN "c" ELSE @]
             IN  y.day = x.day /\ (y.topic = "a" <=> x.topic = "a")
  <2>1. PICK t \in {"a", "b"}, s \in {"positive", None}, d \in 0..2 : x = Row(t, s, d, 5 - d, d = 1)
    BY DEF ResultRows
  <2>2. x = [topic |-> t, sentiment |-> s, day |-> d, language |-> "sv", product |-> None,
             group |-> None, rating |-> 5 - d, reused |-> (d = 1), tokens |-> 1]
    BY <2>1 DEF Row
  <2>. QED BY <2>2
<1>2. \A i \in DOMAIN rows : rows[i] \in ResultRows BY LenProperties
<1>. QED BY <1>1, <1>2 DEF Renamed

(* The days of the rows, and the days on which a topic was observed, do not *)
(* depend on the names of other topics.                                     *)
LEMMA ObservedAlike ==
    ASSUME NEW rows \in Seq(ResultRows), NEW from
    PROVE  Observed(Renamed(rows), "a", from) = Observed(rows, "a", from)
<1>. DEFINE all == Renamed(rows)
            Days(s) == {row.day : row \in {r \in Range(s) : r.day # 0 /\ r.day >= from}}
            On(s, d) == {i \in DOMAIN s : s[i].day = d}
            OfTopic(s, d) == {i \in On(s, d) : s[i].topic = "a"}
            Each(s, d) == [eligible |-> Cardinality(On(s, d)), known |-> TRUE, accepted |-> Cardinality(OfTopic(s, d))]
<1>1. DOMAIN all = DOMAIN rows /\ \A i \in DOMAIN rows : all[i].day = rows[i].day /\ (all[i].topic = "a" <=> rows[i].topic = "a")
  BY RenamedIs
<1>2. Observed(rows, "a", from) = [d \in Days(rows) |-> Each(rows, d)] BY Zenon DEF Observed
<1>3. Observed(all, "a", from) = [d \in Days(all) |-> Each(all, d)] BY Zenon DEF Observed
<1>. HIDE DEF all
<1>4. Days(all) = Days(rows)
  <2>1. \A s : Range(s) = {s[i] : i \in DOMAIN s} BY DEF Range
  <2>2. \A s : Days(s) = {s[i].day : i \in {j \in DOMAIN s : s[j].day # 0 /\ s[j].day >= from}} BY <2>1
  <2>. HIDE DEF Days
  <2>. QED BY <1>1, <2>2
<1>5. \A d : On(all, d) = On(rows, d) /\ OfTopic(all, d) = OfTopic(rows, d) BY <1>1
<1>. HIDE DEF On, OfTopic, Days
<1>6. \A d : Each(all, d) = Each(rows, d) BY <1>5
<1>. HIDE DEF Each
<1>7. Observed(all, "a", from) = Observed(rows, "a", from) BY <1>2, <1>3, <1>4, <1>6
<1>. QED BY <1>7 DEF all

Dated(rows) == {row \in Range(rows) : row.day # 0}
EndOfRows(rows) == 1 + CHOOSE d \in {r.day : r \in Dated(rows)} : \A r \in Dated(rows) : r.day <= d
ResultOf(rows, method, scale, topic, direction) ==
    LET cfg == Protocol(method, scale)
    IN  Detect(method, Observed(rows, topic, EndOfRows(rows) - cfg.current - cfg.baseline), EndOfRows(rows),
                 direction, cfg)
RatesOf(rows, method, scale) ==
    {[topic |-> t, expected |-> direction, result |-> ResultOf(rows, method, scale, t, direction)] :
        t \in {r.topic : r \in Dated(rows)}, direction \in {"increase", "decrease"}}

(* What the trends of a run are, when they are not refused.                 *)
LEMMA TrendsAre ==
    ASSUME NEW rows, NEW q, NEW method \in Methods, q.values["topic"] = AnyValue, NEW scale
    PROVE  TrendsOf(rows, q, method, scale)
               = IF Dated(rows) = {} THEN <<{}>> ELSE <<RatesOf(rows, method, scale)>>
BY SMT DEF TrendsOf, Dated, RatesOf, ResultOf, EndOfRows

(* The results of one topic.                                                *)
ResultsOf(found, topic) == {r.result : r \in {t \in found : t.topic = topic}}

LEMMA RatesOfTopic ==
    ASSUME NEW rows, NEW method, NEW scale
    PROVE  ResultsOf(RatesOf(rows, method, scale), "a")
               = {ResultOf(rows, method, scale, "a", direction) :
                     direction \in {e \in {"increase", "decrease"} : \E r \in Dated(rows) : r.topic = "a"}}
<1>. DEFINE Outcome(t, e) == ResultOf(rows, method, scale, t, e)
            Rate(t, e) == [topic |-> t, expected |-> e, result |-> Outcome(t, e)]
            topics == {r.topic : r \in Dated(rows)}
            rates == RatesOf(rows, method, scale)
            both == {"increase", "decrease"}
            named == {e \in both : \E r \in Dated(rows) : r.topic = "a"}
<1>1. \A x : x \in rates <=> \E t \in topics, e \in both : x = Rate(t, e) BY SMT DEF RatesOf
<1>2. \A t, e : Rate(t, e).topic = t /\ Rate(t, e).result = Outcome(t, e) OBVIOUS
<1>3. \A e : e \in named <=> e \in both /\ "a" \in topics OBVIOUS
<1>. HIDE DEF Rate, Outcome, topics, rates, both, named
<1>4. ASSUME NEW x PROVE x \in ResultsOf(rates, "a") <=> \E e \in named : x = Outcome("a", e)
  <2>1. x \in ResultsOf(rates, "a") <=> \E r \in rates : r.topic = "a" /\ x = r.result BY DEF ResultsOf
  <2>2. ASSUME NEW r \in rates, r.topic = "a", x = r.result PROVE \E e \in named : x = Outcome("a", e)
    <3>1. PICK t \in topics, e \in both : r = Rate(t, e) BY <1>1
    <3>. QED BY <1>2, <1>3, <2>2, <3>1
  <2>3. ASSUME NEW e \in named, x = Outcome("a", e) PROVE \E r \in rates : r.topic = "a" /\ x = r.result
    <3>1. Rate("a", e) \in rates BY <1>1, <1>3
    <3>. QED BY <1>2, <2>3, <3>1
  <2>. QED BY <2>1, <2>2, <2>3
<1>5. ResultsOf(rates, "a") = {Outcome("a", e) : e \in named} BY <1>4
<1>. QED BY <1>5 DEF Outcome, rates, named, both

(* The rate of a topic, and what the detector makes of it, is the same when *)
(* another topic has another name (trends).                                 *)
LEMMA NamesDoNotMatter ==
    ASSUME NEW rows \in Seq(ResultRows), NEW method, NEW scale
    PROVE  /\ Dated(Renamed(rows)) = {} <=> Dated(rows) = {}
           /\ ResultsOf(RatesOf(Renamed(rows), method, scale), "a") = ResultsOf(RatesOf(rows, method, scale), "a")
<1>. DEFINE all == Renamed(rows)
            Positions(s) == {i \in DOMAIN s : s[i].day # 0}
<1>1. DOMAIN all = DOMAIN rows /\ \A i \in DOMAIN rows : all[i].day = rows[i].day /\ (all[i].topic = "a" <=> rows[i].topic = "a")
  BY RenamedIs
<1>2. \A from : Observed(all, "a", from) = Observed(rows, "a", from) BY ObservedAlike
<1>. HIDE DEF all
<1>3. \A s : Dated(s) = {s[i] : i \in Positions(s)}
  <2>1. \A s : Range(s) = {s[i] : i \in DOMAIN s} BY DEF Range
  <2>. QED BY <2>1 DEF Dated
<1>4. Positions(all) = Positions(rows) /\ Positions(rows) \subseteq DOMAIN rows BY <1>1
<1>. HIDE DEF Positions
<1>5. Dated(all) = {} <=> Dated(rows) = {} BY <1>3, <1>4
<1>6. (\E r \in Dated(all) : r.topic = "a") <=> (\E r \in Dated(rows) : r.topic = "a") BY <1>1, <1>3, <1>4
<1>7. EndOfRows(all) = EndOfRows(rows)
  <2>1. {r.day : r \in Dated(all)} = {r.day : r \in Dated(rows)} BY <1>1, <1>3, <1>4
  <2>2. \A d : (\A r \in Dated(all) : r.day <= d) <=> (\A r \in Dated(rows) : r.day <= d) BY <1>1, <1>3, <1>4
  <2>3. (CHOOSE d \in {r.day : r \in Dated(all)} : \A r \in Dated(all) : r.day <= d)
            = CHOOSE d \in {r.day : r \in Dated(rows)} : \A r \in Dated(rows) : r.day <= d
    BY <2>1, <2>2
  <2>. QED BY <2>3 DEF EndOfRows
<1>8. \A e : ResultOf(all, method, scale, "a", e) = ResultOf(rows, method, scale, "a", e)
  BY <1>2, <1>7, Zenon DEF ResultOf
<1>9. ResultsOf(RatesOf(all, method, scale), "a") = ResultsOf(RatesOf(rows, method, scale), "a")
  <2>. DEFINE Same(u) == {ResultOf(u, method, scale, "a", e) :
                             e \in {d \in {"increase", "decrease"} : \E r \in Dated(u) : r.topic = "a"}}
  <2>1. Same(all) = Same(rows) BY <1>6, <1>8
  <2>2. \A u : ResultsOf(RatesOf(u, method, scale), "a") = Same(u) BY RatesOfTopic
  <2>. HIDE DEF Same
  <2>. QED BY <2>1, <2>2
<1>. QED BY <1>5, <1>9 DEF all

(* What the results of a run say of its rows agrees (filter_rows,           *)
(* observed_facets, summarize, trends, and the pages of the results         *)
(* request).                                                                *)
LEMMA ResultInputsMatch == ASSUME Init PROVE FacetsMatchSelection
<1>. SUFFICES ASSUME input.kind = "results" PROVE FacetsMatchSelection BY Zenon DEF FacetsMatchSelection
<1>. DEFINE rows == input.rows
            count(q) == Len(FilterRows(rows, q))
            renamed == [i \in DOMAIN rows |-> [rows[i] EXCEPT !.topic = IF @ = "b" THEN "c" ELSE @]]
            scale == [current |-> 1, baseline |-> 1, minCurrent |-> 1, minBaseline |-> 1, minPositive |-> 1]
            rates(all) == TrendsOf(all, All, "simple_rate_change", scale)
            of(topic, found) == {r.result : r \in {t \in found[1] : t.topic = topic}}
<1>1. rows \in Seq(ResultRows)
  <2>1. input \in Results BY InputKind
  <2>2. rows \in BoundedSeq(ResultRows, MostRows) BY <2>1 DEF Results
  <2>3. PICK m \in 0..MostRows : rows \in [1..m -> ResultRows] BY <2>2 DEF BoundedSeq, SeqOf
  <2>4. m \in Nat OBVIOUS
  <2>. HIDE DEF rows
  <2>. QED BY <2>3, <2>4, SequenceOf
<1>. HIDE DEF rows
<1>2. ASSUME NEW f \in Fields, NEW v \in DOMAIN Facets(rows)[f], v = None => f \in Nullable
      PROVE  Facets(rows)[f][v] = count(Only(f, v))
  BY <1>1, <1>2, FacetCounts
<1>3. ASSUME NEW q \in Queries
      PROVE  LET kept == FilterRows(rows, q)
                 summary == Summary(kept)
                 days == DOMAIN summary.days
             IN  /\ FlattenSeq([p \in 1..Pages(kept, 2) |-> Page(kept, p, 2)]) = kept
                 /\ SumFunction([d \in days |-> summary.days[d].total]) = summary.dated
                 /\ summary.dated + Cardinality({i \in DOMAIN kept : kept[i].day = 0}) = summary.processed
                 /\ q.values["topic"] # AnyValue => TrendsOf(kept, q, "simple_rate_change", scale) = <<>>
  <2>. DEFINE kept == FilterRows(rows, q)
              summary == Summary(kept)
  <2>1. kept \in Seq(ResultRows) BY <1>1, SelectionCounts
  <2>. HIDE DEF kept
  <2>2. FlattenSeq([p \in 1..Pages(kept, 2) |-> Page(kept, p, 2)]) = kept
    <3>1. 2 \in Nat /\ 2 > 0 OBVIOUS
    <3>. QED BY <2>1, <3>1, PagesAreTheSelection
  <2>3. \A x \in ResultRows : x.day \in Nat BY ResultRowsAre
  <2>4. /\ SumFunction([d \in DOMAIN summary.days |-> summary.days[d].total]) = summary.dated
        /\ summary.dated + Cardinality({i \in DOMAIN kept : kept[i].day = 0}) = summary.processed
    <3>. HIDE DEF summary
    <3>1. summary = Summary(kept) BY DEF summary
    <3>. QED BY <2>1, <2>3, <3>1, SummariesAddUp
  <2>5. q.values["topic"] # AnyValue => TrendsOf(kept, q, "simple_rate_change", scale) = <<>>
    <3>. HIDE DEF scale
    <3>. QED BY ResultRowsAre DEF TrendsOf
  <2>. QED BY Zenon, <2>2, <2>4, <2>5 DEF summary, kept
<1>4. ASSUME NEW d \in DOMAIN Summary(rows).days
      PROVE  Summary(rows).days[d].total = count([All EXCEPT !.from = d, !.to = d])
  BY Zenon, <1>1, DayCounts
<1>5. of("a", rates(rows)) = of("a", rates(renamed))
  <2>. DEFINE method == "simple_rate_change"
  <2>. HIDE DEF scale, method
  <2>1. method \in Methods BY DEF method, Methods
  <2>2. All.values["topic"] = AnyValue BY AllIs, ResultRowsAre
  <2>3. \A u : TrendsOf(u, All, method, scale) = IF Dated(u) = {} THEN <<{}>> ELSE <<RatesOf(u, method, scale)>>
    BY <2>1, <2>2, TrendsAre
  <2>4. renamed = Renamed(rows) BY Zenon DEF Renamed
  <2>5. (Dated(Renamed(rows)) = {} <=> Dated(rows) = {})
        /\ ResultsOf(RatesOf(Renamed(rows), method, scale), "a") = ResultsOf(RatesOf(rows, method, scale), "a")
    BY <1>1, NamesDoNotMatter
  <2>. HIDE DEF renamed
  <2>6. \A u : TrendsOf(u, All, method, scale)[1] = IF Dated(u) = {} THEN {} ELSE RatesOf(u, method, scale)
    BY <2>3
  <2>7. \A u : of("a", TrendsOf(u, All, method, scale)) = ResultsOf(TrendsOf(u, All, method, scale)[1], "a")
    BY Zenon DEF ResultsOf
  <2>. HIDE DEF of
  <2>8. of("a", TrendsOf(rows, All, method, scale)) = of("a", TrendsOf(Renamed(rows), All, method, scale))
    <3>1. CASE Dated(rows) = {} BY <2>5, <2>6, <2>7, <3>1
    <3>2. CASE Dated(rows) # {} BY <2>5, <2>6, <2>7, <3>2
    <3>. QED BY <3>1, <3>2
  <2>. QED BY Zenon, <2>4, <2>8 DEF method
<1>6. ASSUME NEW t, NEW from, NEW d
      PROVE  LET o == Observed(rows, t, from) IN d \in DOMAIN o => o[d].accepted \in 0..o[d].eligible
  BY <1>1, RatesAreShares
<1>. HIDE DEF count, of, rates, renamed, scale
<1>. QED BY Zenon, <1>2, <1>3, <1>4, <1>5, <1>6 DEF FacetsMatchSelection, count, of, rates, renamed, scale, rows

TopicsIn(topics, words) == {t \in Range(topics) : t.keywords \cap words # {}}
FirstOf(found, t) == \A u \in found : \/ t.priority[1] < u.priority[1]
                                      \/ t.priority[1] = u.priority[1] /\ t.id <= u.id

(* Of topics that are found one comes first, by priority and then by id.    *)
LEMMA FirstIsFound ==
    ASSUME NEW found, found # {}, \A t \in found : t.priority[1] \in Nat /\ t.id \in Nat
    PROVE  \E t \in found : FirstOf(found, t)
<1>. DEFINE priorities == {t.priority[1] : t \in found}
<1>1. priorities # {} /\ priorities \subseteq Nat OBVIOUS
<1>2. PICK p \in priorities : \A m \in priorities : p <= m
  <2>. HIDE DEF priorities
  <2>. QED BY <1>1, NatLeast
<1>. DEFINE ids == {t.id : t \in {u \in found : u.priority[1] = p}}
<1>3. ids # {} /\ ids \subseteq Nat BY <1>2
<1>4. PICK n \in ids : \A m \in ids : n <= m
  <2>. HIDE DEF ids
  <2>. QED BY <1>3, NatLeast
<1>5. PICK t \in found : t.priority[1] = p /\ t.id = n BY <1>4
<1>6. ASSUME NEW u \in found PROVE t.priority[1] < u.priority[1] \/ (t.priority[1] = u.priority[1] /\ t.id <= u.id)
  <2>1. p <= u.priority[1] /\ u.priority[1] \in Nat /\ p \in Nat BY <1>1, <1>2
  <2>2. CASE u.priority[1] = p
    <3>1. u.id \in ids BY <2>2
    <3>. QED BY <1>4, <1>5, <2>2, <3>1
  <2>3. CASE u.priority[1] # p BY <1>5, <2>1, <2>3
  <2>. QED BY <2>2, <2>3
<1>. QED BY <1>5, <1>6 DEF FirstOf

(* The rules fail exactly for a text with a topic that has no priority; the *)
(* topic of any other is the first of those that are found in it.           *)
LEMMA RuleTopicIs ==
    ASSUME NEW words, NEW topics, NEW lexicon, NEW language
    PROVE  LET found == TopicsIn(topics, words)
               now == RuleClassify(words, topics, lexicon, language)
           IN  /\ now = Nothing <=> \E t \in found : t.priority = Nothing
               /\ now # Nothing => now[1].topic = IF found = {} THEN 0 ELSE FirstTopic(found)
<1>. DEFINE found == TopicsIn(topics, words)
            now == RuleClassify(words, topics, lexicon, language)
            known == language \in {"en", "sv"}
            positive == known /\ words \cap lexicon.positive # {}
            negative == known /\ words \cap lexicon.negative # {}
            sentiment == CASE ~known -> None
                           [] positive /\ negative -> "mixed"
                           [] positive /\ ~negative -> "positive"
                           [] negative /\ ~positive -> "negative"
                           [] OTHER -> "neutral"
            actionable == negative \/ words \cap lexicon.requests # {}
            topic == IF found = {} THEN 0 ELSE FirstTopic(found)
            result == [topic |-> topic, sentiment |-> sentiment, actionable |-> actionable]
<1>1. now = IF \E t \in found : t.priority = Nothing THEN Nothing ELSE Some(result)
  BY Zenon DEF RuleClassify, TopicsIn
<1>. HIDE DEF found, now, sentiment, actionable, topic
<1>2. result.topic = topic OBVIOUS
<1>. HIDE DEF result
<1>3. Some(result) # Nothing /\ Some(result)[1] = result BY DEF Some, Nothing
<1>4. now = Nothing <=> \E t \in found : t.priority = Nothing BY Zenon, <1>1, <1>3
<1>5. now # Nothing => now[1].topic = topic BY Zenon, <1>1, <1>2, <1>3
<1>. QED BY Zenon, <1>4, <1>5 DEF found, now, topic

(* The rules fail for a text exactly when a topic without a priority is     *)
(* found in it; otherwise they give it a topic of the template exactly when *)
(* a keyword of one is found, and then one that no found topic precedes     *)
(* (rule_classify).                                                         *)
THEOREM FoundTopicsAreRanked ==
    ASSUME NEW words, NEW topics, NEW lexicon, NEW language,
           \A t \in Range(topics) : (t.priority = Nothing \/ t.priority[1] \in Nat) /\ t.id \in Nat /\ t.id # 0
    PROVE  LET found == {t \in Range(topics) : t.keywords \cap words # {}}
               now == RuleClassify(words, topics, lexicon, language)
           IN  /\ now = Nothing <=> \E t \in found : t.priority = Nothing
               /\ now # Nothing =>
                     /\ now[1].topic # 0 <=> found # {}
                     /\ now[1].topic # 0 => \E t \in found : /\ t.id = now[1].topic
                                                             /\ \A u \in found : t.priority[1] <= u.priority[1]
<1>. DEFINE found == TopicsIn(topics, words)
            now == RuleClassify(words, topics, lexicon, language)
            c == CHOOSE t \in found : FirstOf(found, t)
<1>1. /\ now = Nothing <=> \E t \in found : t.priority = Nothing
      /\ now # Nothing => now[1].topic = IF found = {} THEN 0 ELSE FirstTopic(found)
  BY RuleTopicIs
<1>2. \A t \in found : (t.priority = Nothing \/ t.priority[1] \in Nat) /\ t.id \in Nat /\ t.id # 0 BY DEF TopicsIn
<1>3. FirstTopic(found) = c.id BY Zenon DEF FirstTopic, FirstOf, c
<1>. HIDE DEF found, now
<1>4. ASSUME now # Nothing
      PROVE  /\ now[1].topic # 0 <=> found # {}
             /\ now[1].topic # 0 => \E t \in found : /\ t.id = now[1].topic
                                                     /\ \A u \in found : t.priority[1] <= u.priority[1]
  <2>1. CASE found = {}
    <3>1. now[1].topic = 0 BY Zenon, <1>1, <1>4, <2>1
    <3>. QED BY <2>1, <3>1
  <2>2. CASE found # {}
    <3>1. \A t \in found : t.priority[1] \in Nat /\ t.id \in Nat /\ t.id # 0 BY <1>1, <1>2, <1>4
    <3>2. c \in found /\ FirstOf(found, c) BY <2>2, <3>1, FirstIsFound, Zenon
    <3>3. now[1].topic = c.id BY Zenon, <1>1, <1>3, <1>4, <2>2
    <3>. HIDE DEF c
    <3>4. now[1].topic # 0 BY <3>1, <3>2, <3>3
    <3>5. \A u \in found : c.priority[1] <= u.priority[1] BY <3>1, <3>2 DEF FirstOf
    <3>. QED BY <2>2, <3>2, <3>3, <3>4, <3>5
  <2>. QED BY <2>1, <2>2
<1>. QED BY Zenon, <1>1, <1>4 DEF found, now, TopicsIn

(* The order of the topics does not matter.                                 *)
LEMMA OrderDoesNotMatter ==
    ASSUME NEW words, NEW topics, NEW others, NEW lexicon, NEW language, Range(topics) = Range(others)
    PROVE  RuleClassify(words, topics, lexicon, language) = RuleClassify(words, others, lexicon, language)
BY SMTT(30) DEF RuleClassify

LEMMA RangeOfReverse ==
    ASSUME NEW X, NEW s \in Seq(X) PROVE Range(Reverse(s)) = Range(s)
<1>1. Len(s) \in Nat /\ DOMAIN s = 1..Len(s) OBVIOUS
<1>2. \A i \in 1..Len(s) : (Len(s) - i) + 1 \in 1..Len(s) /\ (Len(s) - ((Len(s) - i) + 1)) + 1 = i BY <1>1
<1>3. DOMAIN Reverse(s) = 1..Len(s) /\ \A i \in 1..Len(s) : Reverse(s)[i] = s[(Len(s) - i) + 1] BY DEF Reverse
<1>4. \A i \in 1..Len(s) : Reverse(s)[(Len(s) - i) + 1] = s[i] BY <1>2, <1>3
<1>5. Range(s) = {s[i] : i \in 1..Len(s)} BY <1>1 DEF Range
<1>6. Range(Reverse(s)) = {Reverse(s)[i] : i \in 1..Len(s)} BY <1>3 DEF Range
<1>. QED BY <1>2, <1>3, <1>4, <1>5, <1>6

(* Two runs compare alike either way round, and agree wholly exactly when   *)
(* they do not disagree (the comparison of runs).                           *)
THEOREM ComparisonIsSymmetric ==
    ASSUME NEW left, NEW right, IsFiniteSet(DOMAIN left)
    PROVE  LET compared == Compare(left, right)
           IN  /\ compared = Compare(right, left)
               /\ compared.agreement # <<>> =>
                     (compared.agreement[1] = compared.agreement[2]) = (compared.disagreements = 0)
<1>. DEFINE Shared(x, y) == DOMAIN x \cap DOMAIN y
            Differ(x, y) == {r \in Shared(x, y) : \E f \in {"topic", "sentiment", "actionable"} : x[r][f] # y[r][f]}
            Outcome(s, d) == [shared |-> Cardinality(s), disagreements |-> Cardinality(d),
                             agreement |-> IF s = {} THEN Nothing
                                           ELSE <<Cardinality(s \ d), Cardinality(s)>>]
            compared == Compare(left, right)
            s == Shared(left, right)
            d == Differ(left, right)
<1>1. \A x, y : Compare(x, y) = Outcome(Shared(x, y), Differ(x, y)) BY Zenon DEF Compare
<1>2. Shared(left, right) = Shared(right, left) OBVIOUS
<1>3. Differ(left, right) = Differ(right, left) BY <1>2
<1>4. IsFiniteSet(s) /\ d \subseteq s BY FS_Subset
<1>5. compared = Outcome(s, d) BY <1>1
<1>6. Compare(right, left) = Outcome(Shared(right, left), Differ(right, left)) BY <1>1
<1>. HIDE DEF Shared, Differ, compared
<1>7. compared = Compare(right, left) BY Zenon, <1>2, <1>3, <1>5, <1>6
<1>. HIDE DEF s, d
<1>8. compared.disagreements = Cardinality(d)
      /\ (compared.agreement # <<>> => compared.agreement = <<Cardinality(s \ d), Cardinality(s)>>)
  BY <1>5 DEF Nothing
<1>9. (Cardinality(s \ d) = Cardinality(s)) <=> Cardinality(d) = 0
  <2>1. IsFiniteSet(d) /\ Cardinality(s) \in Nat /\ Cardinality(d) \in Nat BY <1>4, FS_Subset, FS_CardinalityType
  <2>2. Cardinality(s \ d) = Cardinality(s) - Cardinality(s \cap d) BY <1>4, FS_Difference
  <2>3. s \cap d = d BY <1>4
  <2>4. Cardinality(s \ d) = Cardinality(s) - Cardinality(d) BY <2>2, <2>3
  <2>. DEFINE a == Cardinality(s)
              b == Cardinality(d)
              c == Cardinality(s \ d)
  <2>5. a \in Nat /\ b \in Nat /\ c = a - b BY <2>1, <2>4
  <2>. HIDE DEF a, b, c
  <2>6. (c = a) <=> b = 0 BY <2>5
  <2>. QED BY Zenon, <2>6 DEF a, b, c
<1>10. compared.agreement # <<>> =>
           (compared.agreement[1] = compared.agreement[2]) = (compared.disagreements = 0)
  BY <1>8, <1>9
<1>. QED BY <1>7, <1>10 DEF compared

(* The rules of a template and the comparison of its runs.                  *)
LEMMA TemplatesAreStable == ASSUME Init PROVE RulesAreStable
<1>. SUFFICES ASSUME input.kind = "template" /\ TemplateIsValid(input.topics, [topics |-> 2, keywords |-> 2])
              PROVE  RulesAreStable
  BY DEF RulesAreStable
<1>. DEFINE result(topics, words) == RuleClassify(words, topics, TemplateLexicon, input.language)
            now == result(input.topics, input.words)
            found == {t \in Range(input.topics) : t.keywords \cap input.words # {}}
            run(texts, also) == [w \in {v \in texts : result(input.topics, v \cup also) # Nothing} |->
                                    result(input.topics, w \cup also)[1]]
            left == run(SUBSET {"late", "love"}, {})
            right == run({{"late"}, input.words}, {"price"})
            compared == Compare(left, right)
<1>1. input.topics \in Seq(TemplateTopics)
  <2>1. input \in Templates BY InputKind
  <2>2. input.topics \in BoundedSeq(TemplateTopics, 2) BY <2>1 DEF Templates
  <2>. QED BY <2>2, BoundedSeqs
<1>2. \A t \in Range(input.topics) : (t.priority = Nothing \/ t.priority[1] \in Nat) /\ t.id \in Nat /\ t.id # 0
  <2>1. \A t \in TemplateTopics : (t.priority = Nothing \/ t.priority[1] \in Nat) /\ t.id \in Nat /\ t.id # 0
    BY DEF TemplateTopics, Some
  <2>2. Range(input.topics) \subseteq TemplateTopics BY <1>1 DEF Range
  <2>. QED BY <2>1, <2>2
<1>3. /\ now = Nothing <=> \E t \in found : t.priority = Nothing
      /\ now # Nothing =>
            /\ now[1].topic # 0 <=> found # {}
            /\ now[1].topic # 0 => \E t \in found : /\ t.id = now[1].topic
                                                    /\ \A u \in found : t.priority[1] <= u.priority[1]
  <2>. HIDE DEF found
  <2>1. LET f == {t \in Range(input.topics) : t.keywords \cap input.words # {}}
            n == RuleClassify(input.words, input.topics, TemplateLexicon, input.language)
        IN  /\ n = Nothing <=> \E t \in f : t.priority = Nothing
            /\ n # Nothing =>
                  /\ n[1].topic # 0 <=> f # {}
                  /\ n[1].topic # 0 => \E t \in f : t.id = n[1].topic /\ \A u \in f : t.priority[1] <= u.priority[1]
    BY <1>2, FoundTopicsAreRanked
  <2>. QED BY Zenon, <2>1 DEF found
<1>4. now = result(Reverse(input.topics), input.words)
  <2>1. Range(Reverse(input.topics)) = Range(input.topics) BY <1>1, RangeOfReverse
  <2>. QED BY <2>1, OrderDoesNotMatter
<1>5. IsFiniteSet(DOMAIN left)
  <2>1. IsFiniteSet({"late", "love"})
    <3>1. IsFiniteSet({"late"}) BY FS_Singleton
    <3>2. {"late", "love"} = {"late"} \cup {"love"} OBVIOUS
    <3>. QED BY <3>1, <3>2, FS_AddElement
  <2>2. IsFiniteSet(SUBSET {"late", "love"}) BY <2>1, FS_SUBSET
  <2>3. DOMAIN left \subseteq SUBSET {"late", "love"} OBVIOUS
  <2>. QED BY <2>2, <2>3, FS_Subset
<1>. HIDE DEF left, right
<1>6. /\ compared = Compare(right, left)
      /\ compared.agreement # <<>> =>
            (compared.agreement[1] = compared.agreement[2]) = (compared.disagreements = 0)
  BY <1>5, ComparisonIsSymmetric
<1>. HIDE DEF compared, found, now, result, run
<1>. QED BY Zenon, <1>3, <1>4, <1>6 DEF RulesAreStable, compared, found, now, result, run, left, right

(* A facet counts what its filter selects, the pages of a selection are the *)
(* selection, the days of a summary add up, the rates of a topic do not     *)
(* depend on the names of the others; the rules give the first topic found, *)
(* whatever the order of the topics, and runs compare alike either way      *)
(* round (analysis.py, and the requests of server.py that read it).         *)
THEOREM ResultsConsistent == Spec => []ResultsAreConsistent
<1>1. Init => ResultsAreConsistent
  BY ResultInputsMatch, TemplatesAreStable DEF ResultsAreConsistent
<1>. QED BY <1>1, InputStays, PTL

-----------------------------------------------------------------------------
(* Routing: the bands of the policy router                                  *)

(* The ranks of the six bands.                                              *)
LEMMA RankOf ==
    /\ Rank("abstained") = 1 /\ Rank("review") = 2 /\ Rank("accepted") = 3
    /\ Rank("accepted_negative") = 1 /\ Rank("uncertain") = 2 /\ Rank("accepted_positive") = 3
<1>1. Rank("abstained") = 1 BY DEF Rank
<1>2. Rank("review") = 2 BY DEF Rank
<1>3. Rank("accepted") = 3 BY DEF Rank
<1>4. Rank("accepted_negative") = 1 BY DEF Rank
<1>5. Rank("uncertain") = 2 BY DEF Rank
<1>6. Rank("accepted_positive") = 3 BY DEF Rank
<1>. QED BY <1>1, <1>2, <1>3, <1>4, <1>5, <1>6

(* A band is never lower for a higher confidence.                           *)
LEMMA BandRank ==
    ASSUME NEW primitive, NEW t, t.low \in Int, t.high \in Int, t.low < t.high, NEW c \in Int, NEW e \in Int, c <= e
    PROVE  Rank(Band3(primitive, t, c)) <= Rank(Band3(primitive, t, e))
<1>1. CASE primitive = "noul" BY <1>1, RankOf DEF Band3
<1>2. CASE primitive # "noul" BY <1>2, RankOf DEF Band3
<1>. QED BY <1>1, <1>2

(* An active policy routes every answer of the question's type, and a more  *)
(* confident answer never to a lower band; a draft policy routes none       *)
(* (route_answer), for every policy that loads.                             *)
THEOREM ActivePolicyRoutes ==
    ASSUME NEW policy, NEW schema, NEW questions, IsPolicyOf(policy, schema, questions),
           NEW i, i \in DOMAIN questions,
           NEW lower, NEW higher, lower.type = questions[i].primitive, higher.type = questions[i].primitive,
           lower.confidence \in Int, higher.confidence \in Int, lower.confidence <= higher.confidence
    PROVE  IF policy.status = "active"
           THEN /\ Route(policy, questions[i].id, lower) # <<>>
                /\ Rank(Route(policy, questions[i].id, lower)[1]) <= Rank(Route(policy, questions[i].id, higher)[1])
           ELSE Route(policy, questions[i].id, lower) = <<>>
<1>1. \A answer : answer.type = questions[i].primitive =>
          Route(policy, questions[i].id, answer) =
              IF policy.status = "active"
              THEN <<Band3(questions[i].primitive, policy.rows[i].thresholds[1], answer.confidence)>>
              ELSE <<>>
  BY RouteIs
<1>2. CASE policy.status = "active"
  <2>. DEFINE t == policy.rows[i].thresholds[1]
              p == questions[i].primitive
              l == Route(policy, questions[i].id, lower)
              h == Route(policy, questions[i].id, higher)
  <2>1. ThresholdsAreValid(policy.rows[i]) /\ policy.rows[i].thresholds # <<>>
    BY RowOfQuestion, <1>2
  <2>2. t.low \in 0..1000 /\ t.high \in 0..1000 /\ t.low < t.high BY ZenonT(60), <2>1, ThresholdRange DEF ThresholdsBetween
  <2>3. l = <<Band3(p, t, lower.confidence)>> /\ h = <<Band3(p, t, higher.confidence)>>
    BY <1>1, <1>2
  <2>. HIDE DEF t, p, l, h
  <2>4. \A x : x \in 0..1000 => x \in Int OBVIOUS
  <2>5. Rank(Band3(p, t, lower.confidence)) <= Rank(Band3(p, t, higher.confidence))
    BY <2>2, <2>4, BandRank
  <2>6. \A x : <<x>> # <<>> /\ <<x>>[1] = x OBVIOUS
  <2>7. l # <<>> /\ l[1] = Band3(p, t, lower.confidence) /\ h[1] = Band3(p, t, higher.confidence)
    BY <2>3, <2>6
  <2>. QED BY <1>2, <2>5, <2>7 DEF l, h
<1>3. CASE policy.status # "active" BY <1>1, <1>3
<1>. QED BY <1>2, <1>3

(* The two questions the policy inputs are about.                           *)
LEMMA TwoQuestionsAre ==
    /\ TwoQuestions = <<Questions[1], Questions[2]>>
    /\ Questions[1].id = "primary_topic" /\ Questions[1].primitive = "choice"
    /\ Questions[1].options = Tail(Topics) \o <<"other">>
    /\ Questions[2].id = "mentions_product" /\ Questions[2].primitive = "noul"
<1>1. /\ Questions[1] = Question("primary_topic", "choice", Tail(Topics) \o <<"other">>)
      /\ Questions[2] = Question("mentions_product", "noul", <<>>)
      /\ Questions \in Seq({Questions[i] : i \in 1..7}) /\ Len(Questions) = 7
  BY DEF Questions
<1>2. TwoQuestions = <<Questions[1], Questions[2]>>
  <2>1. /\ Len(TwoQuestions) = 2 /\ TwoQuestions[1] = Questions[1] /\ TwoQuestions[2] = Questions[2]
        /\ TwoQuestions \in Seq({Questions[i] : i \in 1..7})
    BY <1>1 DEF TwoQuestions
  <2>. QED BY <2>1
<1>. QED BY <1>1, <1>2 DEF Question

(* A policy input that loads is a policy of these two.                      *)
LEMMA PolicyIsOfTwo ==
    ASSUME PolicyLoads(Policy, "s", TwoQuestions)
    PROVE  IsPolicyOf(Policy, "s", TwoQuestions) /\ DOMAIN TwoQuestions = 1..2
<1>1. TwoQuestions = <<Questions[1], Questions[2]>> /\ TwoQuestions[1].id # TwoQuestions[2].id
  BY TwoQuestionsAre
<1>2. DOMAIN TwoQuestions = {1, 2} BY <1>1
<1>3. IsInjective([i \in DOMAIN TwoQuestions |-> TwoQuestions[i].id]) BY <1>1, <1>2 DEF IsInjective
<1>. QED BY <1>2, <1>3 DEF IsPolicyOf

RouteOf(i, c) == Route(Policy, TwoQuestions[i].id, Answer(TwoQuestions[i].primitive, c))

(* An active policy input routes monotonically and reaches the middle and   *)
(* the upper band; a draft one routes nothing.                              *)
LEMMA PolicyIsRouted ==
    ASSUME Init, input.kind = "policy", PolicyLoads(Policy, "s", TwoQuestions), NEW i \in 1..2
    PROVE  IF input.status = "active"
           THEN /\ \A c, e \in Confidences : c <= e => Rank(RouteOf(i, c)[1]) <= Rank(RouteOf(i, e)[1])
                /\ \E c \in Confidences : Rank(RouteOf(i, c)[1]) = 2
                /\ \E c \in Confidences : Rank(RouteOf(i, c)[1]) = 3
           ELSE \A c \in Confidences : RouteOf(i, c) = <<>>
<1>1. input \in Policies BY InputKind
<1>2. IsPolicyOf(Policy, "s", TwoQuestions) /\ i \in DOMAIN TwoQuestions BY PolicyIsOfTwo
<1>3. Policy.status = input.status BY DEF Policy
<1>4. \A p, c : Answer(p, c).type = p /\ Answer(p, c).confidence = c BY DEF Answer
<1>5. ASSUME NEW c \in Int, NEW e \in Int, c <= e
      PROVE  IF Policy.status = "active" THEN Rank(RouteOf(i, c)[1]) <= Rank(RouteOf(i, e)[1]) ELSE RouteOf(i, c) = <<>>
  BY <1>2, <1>4, <1>5, ActivePolicyRoutes DEF RouteOf
<1>6. \A c \in Confidences : c \in Int /\ c <= c BY DEF Confidences
<1>7. CASE input.status # "active"
  BY <1>3, <1>5, <1>6, <1>7
<1>8. CASE input.status = "active"
  <2>. DEFINE t == Policy.rows[i].thresholds[1]
              p == TwoQuestions[i].primitive
  <2>1. ASSUME NEW c PROVE RouteOf(i, c)[1] = Band3(p, t, c)
    <3>. DEFINE a == Answer(p, c)
    <3>1. a.type = p /\ a.confidence = c BY <1>4
    <3>. HIDE DEF a
    <3>2. a.type = TwoQuestions[i].primitive BY <3>1
    <3>3. Route(Policy, TwoQuestions[i].id, a) =
              IF Policy.status = "active"
              THEN <<Band3(TwoQuestions[i].primitive, Policy.rows[i].thresholds[1], a.confidence)>>
              ELSE <<>>
      BY <1>2, <3>2, RouteIs
    <3>. QED BY <1>3, <1>8, <3>1, <3>3 DEF RouteOf, a
  <2>2. ThresholdsAreValid(Policy.rows[i]) /\ Policy.rows[i].thresholds # <<>>
    BY <1>2, <1>3, <1>8, RowOfQuestion
  <2>3. PICK l \in {0, 500, 1000, 1001}, h \in {0, 500, 1000, 1001} :
            Policy.rows[i].thresholds = <<[low |-> l, high |-> h]>>
    <3>1. Policy.rows[i].thresholds \in Band BY <1>1 DEF Policy, Policies
    <3>. QED BY <2>2, <3>1 DEF Band
  <2>4. t.low = l /\ t.high = h BY <2>3
  <2>5. l \in {0, 500} /\ h \in {500, 1000} /\ l < h
    <3>1. ThresholdsBetween(Policy.rows[i].thresholds[1]) BY <2>2, ThresholdRange
    <3>. HIDE DEF t
    <3>2. l \in 0..1000 /\ h \in 0..1000 /\ l < h BY <2>4, <3>1 DEF ThresholdsBetween, t
    <3>. QED BY <3>2, SMTT(30)
  <2>. HIDE DEF t, p
  <2>6. \E c \in Confidences : Rank(Band3(p, t, c)) = 2
    <3>1. CASE p = "noul" BY <2>4, <2>5, <3>1, RankOf DEF Band3, Confidences
    <3>2. CASE p # "noul" BY <2>4, <2>5, <3>2, RankOf DEF Band3, Confidences
    <3>. QED BY <3>1, <3>2
  <2>7. \E c \in Confidences : Rank(Band3(p, t, c)) = 3
    BY <2>4, <2>5, RankOf DEF Band3, Confidences
  <2>8. \A c, e \in Confidences : c <= e => Rank(RouteOf(i, c)[1]) <= Rank(RouteOf(i, e)[1])
    BY <1>3, <1>5, <1>6, <1>8
  <2>. QED BY <1>8, <2>1, <2>6, <2>7, <2>8
<1>. QED BY <1>7, <1>8

-----------------------------------------------------------------------------
(* Answers: what the decision engines call a valid result                   *)

(* The levels of a scale are the numbers from 0, each at its place.         *)
LEMMA LevelsAre ==
    ASSUME NEW n \in 2..10
    PROVE  /\ AreOptions(LevelsTo(n)) /\ Len(LevelsTo(n)) = n
           /\ Range(LevelsTo(n)) = 0..(n - 1) /\ Last(LevelsTo(n)) = n - 1
           /\ \A i \in DOMAIN LevelsTo(n) : LevelsTo(n)[i] = i - 1
<1>1. /\ LevelsTo(n) \in Seq(Int) /\ Len(LevelsTo(n)) = n /\ DOMAIN LevelsTo(n) = 1..n
      /\ \A i \in 1..n : LevelsTo(n)[i] = i - 1
  BY DEF LevelsTo
<1>2. Last(LevelsTo(n)) = n - 1 BY <1>1 DEF Last
<1>3. IsInjective(LevelsTo(n)) BY <1>1 DEF IsInjective
<1>4. \A x \in 0..(n - 1) : x + 1 \in 1..n /\ LevelsTo(n)[x + 1] = x
  <2>. SUFFICES ASSUME NEW x \in 0..(n - 1) PROVE x + 1 \in 1..n /\ LevelsTo(n)[x + 1] = x OBVIOUS
  <2>1. x + 1 \in 1..n /\ (x + 1) - 1 = x OBVIOUS
  <2>. QED BY <1>1, <2>1
<1>5. Range(LevelsTo(n)) = 0..(n - 1)
  <2>1. \A x \in 0..(n - 1) : x \in Range(LevelsTo(n)) BY <1>1, <1>4 DEF Range
  <2>2. \A x \in Range(LevelsTo(n)) : x \in 0..(n - 1) BY <1>1 DEF Range
  <2>. QED BY <2>1, <2>2
<1>6. AreOptions(LevelsTo(n)) BY <1>1, <1>3 DEF AreOptions
<1>. QED BY <1>1, <1>2, <1>5, <1>6

(* The rules' answer to a scale is valid when the rules give one of its     *)
(* levels.                                                                  *)
LEMMA ScoreAnswerIsValid ==
    ASSUME NEW n \in 2..10, NEW q, q.primitive = "score", q.options = LevelsTo(n), NEW text, NEW channel,
           Scores(text)[q.id] \in 0..(n - 1)
    PROVE  AnswerIsValid(q, RuleAnswer(q, text, channel))
<1>. DEFINE selected == Scores(text)[q.id]
            answer == RuleAnswer(q, text, channel)
            options == q.options
<1>1. answer = [type |-> "score", value |-> 1000 * selected, confidence |-> 800,
                probabilities |-> Confident(options, selected, 800)]
  BY DEF RuleAnswer
<1>2. /\ AreOptions(options) /\ Range(options) = 0..(n - 1) /\ Last(options) = n - 1
      /\ selected \in 0..(n - 1) /\ 800 \in 0..1000
  <2>1. options = LevelsTo(n) /\ selected \in 0..(n - 1) OBVIOUS
  <2>2. AreOptions(LevelsTo(n)) /\ Range(LevelsTo(n)) = 0..(n - 1) /\ Last(LevelsTo(n)) = n - 1
    BY LevelsAre
  <2>3. 800 \in 0..1000 OBVIOUS
  <2>. HIDE DEF options, selected
  <2>. QED BY <2>1, <2>2, <2>3
<1>. HIDE DEF answer, selected, options
<1>3. /\ DOMAIN Confident(options, selected, 800) = Range(options)
      /\ DistributionIsValid(Confident(options, selected, 800))
  <2>1. selected \in Range(options) BY <1>2
  <2>. QED BY <1>2, <2>1, ConfidentAnswersAreValid
<1>4. /\ answer.type = "score" /\ answer.value = 1000 * selected /\ answer.confidence = 800
      /\ answer.probabilities = Confident(options, selected, 800)
  BY <1>1
<1>5. 1000 * selected \in 0..(1000 * Last(options)) BY <1>2
<1>6. AnswerIsValid(q, answer)
  BY <1>2, <1>3, <1>4, <1>5 DEF AnswerIsValid, options
<1>. QED BY <1>6 DEF answer

QuestionList ==
    <<Question("primary_topic", "choice", TopicOptions),
      Question("mentions_product", "noul", <<>>), Question("overall_experience", "score", LevelsTo(5)),
      Question("reports_product_defect", "noul", <<>>), Question("issue_severity", "score", LevelsTo(4)),
      Question("resolution_status", "choice", ResolutionOptions),
      Question("defect_type", "choice", DefectOptions)>>

(* The seven questions, written out.                                        *)
LEMMA QuestionsAre == Questions = QuestionList
BY TopicsAre DEF Questions, QuestionList, ResolutionOptions, DefectOptions

(* The seven questions, field by field.                                     *)
LEMMA QuestionFacts ==
    /\ DOMAIN Questions = 1..7 /\ Questions # <<>>
    /\ Questions[1].id = "primary_topic" /\ Questions[1].primitive = "choice" /\ Questions[1].options = TopicOptions
    /\ Questions[2].id = "mentions_product" /\ Questions[2].primitive = "noul"
    /\ Questions[3].id = "overall_experience" /\ Questions[3].primitive = "score" /\ Questions[3].options = LevelsTo(5)
    /\ Questions[4].id = "reports_product_defect" /\ Questions[4].primitive = "noul"
    /\ Questions[5].id = "issue_severity" /\ Questions[5].primitive = "score" /\ Questions[5].options = LevelsTo(4)
    /\ Questions[6].id = "resolution_status" /\ Questions[6].primitive = "choice" /\ Questions[6].options = ResolutionOptions
    /\ Questions[7].id = "defect_type" /\ Questions[7].primitive = "choice" /\ Questions[7].options = DefectOptions
<1>1. DOMAIN QuestionList = 1..7 /\ QuestionList # <<>> BY DEF QuestionList
<1>2. /\ QuestionList[1] = Question("primary_topic", "choice", TopicOptions)
      /\ QuestionList[2] = Question("mentions_product", "noul", <<>>)
      /\ QuestionList[3] = Question("overall_experience", "score", LevelsTo(5))
      /\ QuestionList[4] = Question("reports_product_defect", "noul", <<>>)
      /\ QuestionList[5] = Question("issue_severity", "score", LevelsTo(4))
      /\ QuestionList[6] = Question("resolution_status", "choice", ResolutionOptions)
      /\ QuestionList[7] = Question("defect_type", "choice", DefectOptions)
  BY DEF QuestionList
<1>. QED BY <1>1, <1>2, QuestionsAre DEF Question

(* No two of the seven questions have the same name.                        *)
LEMMA QuestionIds ==
    /\ IsInjective([i \in 1..7 |-> Questions[i].id])
    /\ \A q, r \in Range(Questions) : r.id = q.id => r = q
<1>1. IsInjective([i \in 1..7 |-> Questions[i].id]) BY QuestionFacts DEF IsInjective
<1>2. \A i, j \in 1..7 : Questions[i].id = Questions[j].id => i = j BY <1>1 DEF IsInjective
<1>3. Range(Questions) = {Questions[i] : i \in 1..7} BY QuestionFacts DEF Range
<1>4. \A q, r \in Range(Questions) : r.id = q.id => r = q BY <1>2, <1>3
<1>. QED BY <1>1, <1>4

(* The schema of the questions loads. *)
LEMMA SchemaOfQuestions == SchemaLoads(Questions)
<1>1. Range(Questions) = {Questions[i] : i \in 1..7} BY QuestionFacts DEF Range
<1>2. \A s : AreOptions(s) => Len(s) >= 2 /\ IsInjective(s) BY DEF AreOptions
<1>3. \A n \in {4, 5} : /\ Len(LevelsTo(n)) \in 2..10
                        /\ \A i \in DOMAIN LevelsTo(n) : LevelsTo(n)[i] = i - 1
  <2>1. \A n \in {4, 5} : n \in 2..10 OBVIOUS
  <2>. QED BY <2>1, LevelsAre
<1>4. IsInjective([i \in DOMAIN Questions |-> Questions[i].id])
  BY QuestionFacts, QuestionIds
<1>. DEFINE Loads(q) == /\ q.primitive \in {"choice", "score", "noul"}
                        /\ q.primitive = "choice" => Len(q.options) >= 2 /\ IsInjective(q.options)
                        /\ q.primitive = "score" => /\ Len(q.options) \in 2..10
                                                    /\ \A i \in DOMAIN q.options : q.options[i] = i - 1
<1>5. Loads(Questions[1]) /\ Loads(Questions[6]) /\ Loads(Questions[7])
  BY <1>2, QuestionFacts, OptionsAre
<1>6. Loads(Questions[2]) /\ Loads(Questions[4]) BY QuestionFacts
<1>7. Loads(Questions[3]) /\ Loads(Questions[5]) BY <1>3, QuestionFacts
<1>8. \A q \in Range(Questions) : Loads(q)
  <2>1. \A i \in 1..7 : i \in {1, 2, 3, 4, 5, 6, 7} OBVIOUS
  <2>. HIDE DEF Loads
  <2>. QED BY <1>1, <1>5, <1>6, <1>7, <2>1
<1>. QED BY <1>4, <1>8, QuestionFacts DEF SchemaLoads

(* Whatever the text and the channel, the rule engine's answers to any of   *)
(* the seven questions pass the validation of results                       *)
(* (RuleDecisionEngine.decide, validate_engine_result).                     *)
THEOREM RuleAnswersAreValid ==
    ASSUME NEW questions, Range(questions) \subseteq Range(Questions), NEW text, NEW channel
    PROVE  /\ ResultIsValid(questions, RuleAnswers(questions, text, channel))
           /\ \A q \in Range(questions) :
                 RuleAnswers(questions, text, channel)[q.id] = RuleAnswer(q, text, channel)
<1>. DEFINE answers == RuleAnswers(questions, text, channel)
            Valid(q) == AnswerIsValid(q, RuleAnswer(q, text, channel))
<1>1. Range(Questions) = {Questions[i] : i \in 1..7}
  BY QuestionFacts DEF Range
<1>2. DOMAIN answers = Ids(questions) BY DEF RuleAnswers
<1>3. ASSUME NEW q \in Range(questions) PROVE answers[q.id] = RuleAnswer(q, text, channel)
  <2>1. q.id \in Ids(questions) BY <1>1, <1>3 DEF Ids
  <2>2. \A r \in Range(questions) : r.id = q.id => r = q BY <1>3, QuestionIds
  <2>3. (CHOOSE r \in Range(questions) : r.id = q.id) = q BY <1>3, <2>2
  <2>. QED BY <1>1, <2>1, <2>3 DEF RuleAnswers
<1>4. /\ Selections(text, channel)["primary_topic"] = Topic(text, channel)
      /\ Selections(text, channel)["resolution_status"] = Resolution(text, channel)
      /\ Selections(text, channel)["defect_type"] = DefectType(text)
  BY DEF Selections
<1>5. Valid(Questions[1])
  BY <1>4, QuestionFacts, OptionsAre, TopicIs, ChoiceAnswerIsValid
<1>6. Valid(Questions[6])
  BY <1>4, QuestionFacts, OptionsAre, ResolutionIs, ChoiceAnswerIsValid
<1>7. Valid(Questions[7])
  BY <1>4, QuestionFacts, OptionsAre, DefectTypeIs, ChoiceAnswerIsValid
<1>8. Valid(Questions[2]) /\ Valid(Questions[4]) BY QuestionFacts, FlagAnswerIsValid
<1>9. Valid(Questions[3])
  <2>1. 5 \in 2..10 /\ Scores(text)["overall_experience"] \in 0..(5 - 1) BY ScoreRange
  <2>. QED BY <2>1, QuestionFacts, ScoreAnswerIsValid
<1>10. Valid(Questions[5])
  <2>1. 4 \in 2..10 /\ Scores(text)["issue_severity"] \in 0..(4 - 1) BY ScoreRange
  <2>. QED BY <2>1, QuestionFacts, ScoreAnswerIsValid
<1>11. \A q \in Range(Questions) : Valid(q)
  <2>1. \A i \in 1..7 : i \in {1, 2, 3, 4, 5, 6, 7} OBVIOUS
  <2>. HIDE DEF Valid
  <2>. QED BY <1>1, <1>5, <1>6, <1>7, <1>8, <1>9, <1>10, <2>1
<1>12. ResultIsValid(questions, answers)
  BY <1>1, <1>2, <1>3, <1>11 DEF ResultIsValid
<1>. QED BY <1>3, <1>12

(* What the rules say of a product and of its defect agrees (_classify).    *)
THEOREM RuleAnswersAgree ==
    ASSUME NEW text, NEW channel
    PROVE  LET answers == RuleAnswers(Questions, text, channel)
           IN  /\ answers["reports_product_defect"].confidence > 500 <=> answers["defect_type"].value # "unclear"
               /\ answers["primary_topic"].value \in {"product_quality", "compatibility"}
                      => answers["mentions_product"].confidence > 500
<1>. DEFINE answers == RuleAnswers(Questions, text, channel)
<1>1. /\ answers["primary_topic"] = RuleAnswer(Questions[1], text, channel)
      /\ answers["mentions_product"] = RuleAnswer(Questions[2], text, channel)
      /\ answers["reports_product_defect"] = RuleAnswer(Questions[4], text, channel)
      /\ answers["defect_type"] = RuleAnswer(Questions[7], text, channel)
  <2>1. \A i \in 1..7 : Questions[i] \in Range(Questions) BY QuestionFacts DEF Range
  <2>2. \A q \in Range(Questions) : answers[q.id] = RuleAnswer(q, text, channel) BY RuleAnswersAreValid
  <2>. HIDE DEF answers
  <2>. QED BY <2>1, <2>2, QuestionFacts
<1>2. /\ RuleAnswer(Questions[1], text, channel).value = Topic(text, channel)
      /\ RuleAnswer(Questions[7], text, channel).value = DefectType(text)
  BY QuestionFacts DEF RuleAnswer, Selections
<1>3. /\ RuleAnswer(Questions[2], text, channel).confidence =
             IF MentionsProduct(text, channel) THEN 900 ELSE 100
      /\ RuleAnswer(Questions[4], text, channel).confidence = IF Defect(text) THEN 900 ELSE 100
  BY QuestionFacts DEF RuleAnswer, Flags
<1>4. Topic(text, channel) \in {"product_quality", "compatibility"} => MentionsProduct(text, channel)
  BY TopicIs DEF MentionsProduct
<1>. QED BY <1>1, <1>2, <1>3, <1>4, DefectTypeIs

-----------------------------------------------------------------------------
(* Mapped answers, and the decisions invariant                              *)

(* The levels of a score are valid when their probabilities are, and do not *)
(* add up to so much more than one that the expected level is above the     *)
(* last one (_map_answer).                                                  *)
THEOREM MappedScores ==
    ASSUME NEW n \in 2..10, NEW q, q.primitive = "score", q.options = LevelsTo(n), NEW p \in [0..(n - 1) -> Int]
    PROVE  /\ MapAnswer(q, p) # <<>>
           /\ AnswerIsValid(q, MapAnswer(q, p)[1])
                  <=> DistributionIsValid(p) /\ ExpectedValue(p) <= 1000 * (n - 1)
<1>1. /\ AreOptions(q.options) /\ Range(q.options) = 0..(n - 1) /\ Last(q.options) = n - 1
      /\ Range(q.options) = 0..(n - 1)
  BY LevelsAre
<1>2. PICK i : /\ IsFirstMost(q.options, p, i)
               /\ Max({p[o] : o \in DOMAIN p}) = p[q.options[i]]
  BY <1>1, FirstMost
<1>3. MapAnswer(q, p) = <<[type |-> "score", confidence |-> p[q.options[i]], probabilities |-> p,
                             value |-> ExpectedValue(p)]>>
  BY <1>1, <1>2 DEF MapAnswer, ExpectedValue, MapThenSumSet, MapThenFoldSet
<1>4. q.options[i] \in 0..(n - 1) BY <1>1, <1>2 DEF IsFirstMost, AreOptions, Range
<1>. DEFINE answer == MapAnswer(q, p)[1]
<1>5. /\ answer.type = "score" /\ answer.value = ExpectedValue(p) /\ answer.confidence = p[q.options[i]]
      /\ answer.probabilities = p /\ MapAnswer(q, p) # <<>>
  BY <1>3, SMTT(30)
<1>. HIDE DEF answer
<1>6. DistributionIsValid(p) => p[q.options[i]] \in 0..1000 /\ \A o \in 0..(n - 1) : p[o] \in 0..1000
  <2>. SUFFICES ASSUME DistributionIsValid(p)
                PROVE  p[q.options[i]] \in 0..1000 /\ \A o \in 0..(n - 1) : p[o] \in 0..1000
    OBVIOUS
  <2>. DEFINE levels == 0..(n - 1)
              l == q.options[i]
  <2>1. DOMAIN p = levels /\ l \in levels BY <1>4
  <2>2. \A o \in DOMAIN p : p[o] \in 0..1000 BY DistributionIs, ZenonT(40) DEF IsDistribution
  <2>3. p[l] \in 0..1000 /\ \A o \in levels : p[o] \in 0..1000
    <3>. HIDE DEF levels, l
    <3>. QED BY <2>1, <2>2, ZenonT(40)
  <2>. QED BY <2>3, SMTT(30)
<1>7. DistributionIsValid(p) => ExpectedValue(p) \in Nat
  <2>. SUFFICES ASSUME DistributionIsValid(p) PROVE ExpectedValue(p) \in Nat OBVIOUS
  <2>1. \A o \in 0..(n - 1) : o \in Nat /\ p[o] \in Nat
    <3>1. \A o \in 0..(n - 1) : p[o] \in 0..1000 BY ZenonT(60), <1>6
    <3>2. \A x : x \in 0..1000 => x \in Nat OBVIOUS
    <3>3. \A o \in 0..(n - 1) : o \in Nat OBVIOUS
    <3>4. \A o \in 0..(n - 1) : p[o] \in Nat BY <3>1, <3>2, ZenonT(60)
    <3>. QED BY <3>3, <3>4
  <2>2. \A a, b \in Nat : a * b \in Nat OBVIOUS
  <2>3. IsFiniteSet(DOMAIN p) /\ DOMAIN p = 0..(n - 1)
    <3>1. 0 \in Int /\ n - 1 \in Int OBVIOUS
    <3>. QED BY <3>1, FS_Interval
  <2>4. DOMAIN Weights(p) = DOMAIN p /\ \A o \in DOMAIN p : Weights(p)[o] \in Nat /\ o * p[o] \in Int
    BY <2>1, <2>2, <2>3 DEF Weights
  <2>5. ExpectedValue(p) = SumFunctionOnSet(Weights(p), DOMAIN p) BY <2>3, <2>4, ExpectedIs
  <2>6. SumFunctionOnSet(Weights(p), DOMAIN p) \in Nat BY <2>3, <2>4, SumIsNatural
  <2>. QED BY <2>5, <2>6
<1>8. AnswerIsValid(q, answer) <=>
          /\ p[q.options[i]] \in 0..1000 /\ DistributionIsValid(p) /\ ExpectedValue(p) \in 0..(1000 * (n - 1))
  BY <1>1, <1>5 DEF AnswerIsValid
<1>9. ASSUME NEW e \in Nat PROVE e <= 1000 * (n - 1) <=> e \in 0..(1000 * (n - 1)) OBVIOUS
<1>10. AnswerIsValid(q, answer) <=> DistributionIsValid(p) /\ ExpectedValue(p) <= 1000 * (n - 1)
  <2>1. CASE DistributionIsValid(p)
    <3>1. ExpectedValue(p) <= 1000 * (n - 1) <=> ExpectedValue(p) \in 0..(1000 * (n - 1)) BY <1>7, <1>9, <2>1, SMTT(30)
    <3>2. p[q.options[i]] \in 0..1000 BY <1>6, <2>1, SMTT(30)
    <3>. QED BY <1>8, <2>1, <3>1, <3>2
  <2>2. CASE ~DistributionIsValid(p) BY <1>8, <2>2
  <2>. QED BY <2>1, <2>2, SMTT(30)
<1>. QED BY <1>5, <1>10 DEF answer

(* The rules' answers are valid, and agree with one another about defects   *)
(* and products.                                                            *)
LEMMA TextsAreRuled ==
    ASSUME NEW text, NEW channel
    PROVE  LET answers == RuleAnswers(Questions, text, channel)
               flag(id) == answers[id].confidence > 500
           IN  /\ SchemaLoads(Questions) /\ ResultIsValid(Questions, answers)
               /\ flag("reports_product_defect") <=> answers["defect_type"].value # "unclear"
               /\ answers["primary_topic"].value \in {"product_quality", "compatibility"}
                      => flag("mentions_product")
BY SchemaOfQuestions, RuleAnswersAreValid, RuleAnswersAgree

AllRecordings == [i \in DOMAIN input.states |-> Recording(i)]

Written == WriteFixture("s", AllRecordings)

(* A written fixture replays what was recorded, under its own schema only;  *)
(* equal ids are of equal envelopes.                                        *)
LEMMA RecordingsAreReplayed ==
    ASSUME Init, input.kind = "recordings"
    PROVE  /\ Written # <<>> => \A r \in Range(AllRecordings) :
                 /\ Replay(Written[1], "s", TwoQuestions, r.state)[1].answers = r.result.answers
                 /\ Replay(Written[1], "s", TwoQuestions, r.state)[1].model = r.result.model
                 /\ Replay(Written[1], "t", TwoQuestions, r.state) = <<>>
           /\ \A p, q \in Range(AllRecordings) :
                 Envelope(p.state, "s", p.result).id = Envelope(q.state, "s", q.result).id
                     => Envelope(p.state, "s", p.result) = Envelope(q.state, "s", q.result)
<1>. DEFINE all == AllRecordings
            text(h) == IF h = "h1" THEN {"price"} ELSE {}
            answers(h) == RuleAnswers(TwoQuestions, text(h), "")
            n == Len(input.states)
            fixture == Written
<1>1. input.states \in Seq(States)
  <2>1. input \in Recordings BY InputKind
  <2>. QED BY <2>1, BoundedSeqs DEF Recordings
<1>2. n \in Nat /\ DOMAIN input.states = 1..n /\ \A i \in 1..n : input.states[i] \in States BY <1>1
<1>3. \A i \in 1..n : /\ all[i].state = input.states[i] /\ all[i].result.model = "m"
                      /\ all[i].result.provider = input.provider[i]
                      /\ all[i].result.answers = answers(input.states[i].hash)
  BY Zenon, <1>2 DEF Recording, AllRecordings
<1>4. all \in Seq({all[i] : i \in 1..n}) /\ DOMAIN all = 1..n
  <2>1. all = [i \in 1..n |-> Recording(i)] BY <1>2 DEF AllRecordings
  <2>2. all \in [1..n -> {all[i] : i \in 1..n}] BY Zenon, <2>1
  <2>. HIDE DEF all, n
  <2>. QED BY <1>2, <2>2, SMTT(30)
<1>5. Range(TwoQuestions) \subseteq Range(Questions)
  <2>1. Range(TwoQuestions) = {Questions[1], Questions[2]}
    <3>1. DOMAIN TwoQuestions = {1, 2} BY TwoQuestionsAre
    <3>. QED BY <3>1, TwoQuestionsAre DEF Range
  <2>2. Questions[1] \in Range(Questions) /\ Questions[2] \in Range(Questions) BY QuestionFacts DEF Range
  <2>. QED BY <2>1, <2>2
<1>6. \A h : ResultIsValid(TwoQuestions, answers(h)) BY Zenon, <1>5, RuleAnswersAreValid
<1>7. ASSUME fixture # <<>>, NEW i \in 1..n
      PROVE  /\ Replay(fixture[1], "s", TwoQuestions, all[i].state)[1].answers = all[i].result.answers
             /\ Replay(fixture[1], "s", TwoQuestions, all[i].state)[1].model = all[i].result.model
             /\ Replay(fixture[1], "t", TwoQuestions, all[i].state) = <<>>
  <2>1. PICK k \in 1..n : IsLast(all, k) /\ all[k].state.hash = all[i].state.hash
    <3>. HIDE DEF all, n
    <3>. QED BY <1>4, LastRecording
  <2>2. /\ Replay(fixture[1], "s", TwoQuestions, all[k].state) =
             IF ResultIsValid(TwoQuestions, all[k].result.answers)
             THEN <<[provider |-> "fixture", model |-> all[k].result.model, answers |-> all[k].result.answers]>>
             ELSE <<>>
        /\ Replay(fixture[1], "t", TwoQuestions, all[k].state) = <<>>
    <3>1. "t" # "s" OBVIOUS
    <3>. HIDE DEF n
    <3>. QED BY <1>4, <1>7, <2>1, <3>1, FixtureReplays DEF Written
  <2>3. /\ all[k].result.answers = all[i].result.answers /\ all[k].result.model = all[i].result.model
        /\ ResultIsValid(TwoQuestions, all[k].result.answers)
    <3>. HIDE DEF all, answers
    <3>. QED BY <1>3, <1>6, <2>1
  <2>4. \A f, s : Replay(f, s, TwoQuestions, all[i].state) = Replay(f, s, TwoQuestions, all[k].state)
    BY <2>1 DEF Replay
  <2>. HIDE DEF all, fixture
  <2>5. \A r : <<r>>[1] = r OBVIOUS
  <2>. QED BY <2>2, <2>3, <2>4, <2>5
<1>8. ASSUME NEW i \in 1..n, NEW j \in 1..n,
             Envelope(all[i].state, "s", all[i].result).id = Envelope(all[j].state, "s", all[j].result).id
      PROVE  Envelope(all[i].state, "s", all[i].result) = Envelope(all[j].state, "s", all[j].result)
  <2>1. all[i].state.feedback = all[j].state.feedback /\ all[i].state.hash = all[j].state.hash
    BY <1>8 DEF Envelope, DecisionId
  <2>2. all[i].state \in States /\ all[j].state \in States BY Zenon, <1>2, <1>3
  <2>3. all[i].state = all[j].state BY <2>1, <2>2 DEF States
  <2>4. all[i].result.answers = all[j].result.answers
    <3>. HIDE DEF all, answers
    <3>. QED BY <1>3, <2>3
  <2>. HIDE DEF all
  <2>. QED BY <1>8, <2>3, <2>4 DEF Envelope
<1>9. Range(all) = {all[i] : i \in 1..n} BY <1>4 DEF Range
<1>. HIDE DEF n
<1>. QED BY <1>7, <1>8, <1>9

Probabilities == [o \in 0..(input.most - 1) |-> input.p[o]]

(* The inputs of probabilities are mapped, or refused, as the invariant     *)
(* says.                                                                    *)
LEMMA ProbabilitiesAreMapped ==
    ASSUME Init, input.kind = "mapped"
    PROVE  /\ MapAnswer(MappedQuestion, Probabilities) = <<>> <=> input.most # 3
           /\ MapAnswer(MappedQuestion, Probabilities) # <<>> =>
                /\ AnswerIsValid(MappedQuestion, MapAnswer(MappedQuestion, Probabilities)[1])
                       <=> DistributionIsValid(Probabilities)
                /\ input.primitive = "choice" =>
                      \A o \in 0..2 : o < MapAnswer(MappedQuestion, Probabilities)[1].value =>
                          input.p[o] < input.p[MapAnswer(MappedQuestion, Probabilities)[1].value]
<1>. DEFINE q == MappedQuestion
            p == Probabilities
            answer == MapAnswer(q, p)
            Grid == {0, 300, 400, 500, 1000}
<1>1. input.primitive \in {"choice", "score"} /\ input.most \in {2, 3} /\ input.p \in [0..2 -> Grid]
  <2>1. input \in Mapped BY InputKind
  <2>. QED BY <2>1 DEF Mapped
<1>2. q.primitive = input.primitive /\ q.options = LevelsTo(3) BY DEF MappedQuestion, Question
<1>3. /\ AreOptions(q.options) /\ Range(q.options) = 0..2 /\ Range(q.options) = 0..2 /\ Len(q.options) = 3
      /\ \A i \in 1..3 : q.options[i] = i - 1
  <2>1. 3 \in 2..10 /\ 3 - 1 = 2 OBVIOUS
  <2>2. /\ AreOptions(LevelsTo(3)) /\ Range(LevelsTo(3)) = 0..(3 - 1) /\ Len(LevelsTo(3)) = 3
        /\ \A i \in DOMAIN LevelsTo(3) : LevelsTo(3)[i] = i - 1
    BY <2>1, LevelsAre
  <2>3. DOMAIN LevelsTo(3) = 1..3 BY <2>2 DEF AreOptions
  <2>. QED BY <1>2, <2>1, <2>2, <2>3
<1>4. ASSUME input.most # 3 PROVE answer = <<>>
  <2>1. DOMAIN p = 0..1 BY <1>1, <1>4 DEF Probabilities
  <2>2. 2 \in 0..2 /\ 2 \notin 0..1 OBVIOUS
  <2>3. DOMAIN p # Range(q.options) BY <1>3, <2>1, <2>2
  <2>4. q.primitive # "noul" BY <1>1, <1>2
  <2>. HIDE DEF p, q
  <2>. QED BY Zenon, <2>3, <2>4 DEF MapAnswer
<1>5. ASSUME input.most = 3 PROVE p = input.p /\ p \in [0..2 -> Int] /\ \A o \in 0..2 : p[o] \in Grid
  <2>1. p = [o \in 0..2 |-> input.p[o]] BY <1>5 DEF Probabilities
  <2>. QED BY <1>1, <2>1
<1>6. ASSUME input.most = 3, input.primitive = "choice"
      PROVE  /\ answer # <<>>
             /\ AnswerIsValid(q, answer[1]) <=> DistributionIsValid(p)
             /\ \A o \in 0..2 : o < answer[1].value => input.p[o] < input.p[answer[1].value]
  <2>1. p \in [Range(q.options) -> Int] BY <1>3, <1>5, <1>6
  <2>. HIDE DEF p, q, Grid
  <2>2. PICK i : /\ IsFirstMost(q.options, p, i)
                 /\ answer = <<[type |-> "choice", value |-> q.options[i],
                                confidence |-> p[q.options[i]], probabilities |-> p]>>
                 /\ AnswerIsValid(q, answer[1]) <=> DistributionIsValid(p)
    BY <1>2, <1>3, <1>6, <2>1, MappedChoices
  <2>3. i \in 1..3 /\ \A j \in 1..(i - 1) : p[q.options[j]] < p[q.options[i]]
    BY <1>3, <2>2 DEF IsFirstMost
  <2>. HIDE DEF answer
  <2>4. answer # <<>> /\ answer[1].value = i - 1
    <3>1. q.options[i] = i - 1 BY <1>3, <2>3
    <3>. QED BY <2>2, <3>1
  <2>5. \A o \in 0..2 : o < i - 1 => p[o] < p[i - 1]
    <3>. SUFFICES ASSUME NEW o \in 0..2, o < i - 1 PROVE p[o] < p[i - 1] OBVIOUS
    <3>1. o + 1 \in 1..(i - 1) /\ o + 1 \in 1..3 /\ (o + 1) - 1 = o BY <2>3
    <3>2. q.options[o + 1] = o /\ q.options[i] = i - 1 BY <1>3, <2>3, <3>1
    <3>3. p[q.options[o + 1]] < p[q.options[i]] BY <2>3, <3>1
    <3>. QED BY <3>2, <3>3
  <2>6. p = input.p BY <1>5, <1>6
  <2>. QED BY <2>2, <2>4, <2>5, <2>6
<1>7. ASSUME input.most = 3, input.primitive = "score"
      PROVE  answer # <<>> /\ (AnswerIsValid(q, answer[1]) <=> DistributionIsValid(p))
  <2>1. p \in [0..2 -> Int] /\ \A o \in 0..2 : p[o] \in Grid BY <1>5, <1>7
  <2>2. 3 \in 2..10 /\ 3 - 1 = 2 OBVIOUS
  <2>3. q.primitive = "score" BY <1>2, <1>7
  <2>4. answer # <<>> /\ (AnswerIsValid(q, answer[1]) <=> DistributionIsValid(p) /\ ExpectedValue(p) <= 1000 * (3 - 1))
    <3>. HIDE DEF p, q
    <3>. QED BY <1>2, <2>1, <2>2, <2>3, MappedScores
  <2>5. DistributionIsValid(p) => ExpectedValue(p) <= 2000
    <3>. SUFFICES ASSUME DistributionIsValid(p) PROVE ExpectedValue(p) <= 2000 OBVIOUS
    <3>. HIDE DEF p
    <3>1. DOMAIN p = 0..2 /\ \A o \in 0..2 : p[o] \in Int BY <2>1
    <3>2. SumFunctionOnSet(p, 0..2) \in 980..1020 BY <3>1, DistributionIs DEF IsDistribution
    <3>3. SumFunctionOnSet(p, 0..2) = p[0] + p[1] + p[2] BY <3>1, SumOfThree
    <3>4. /\ DOMAIN Weights(p) = 0..2 /\ Weights(p)[0] = 0 /\ Weights(p)[1] = p[1] /\ Weights(p)[2] = 2 * p[2]
          /\ \A o \in 0..2 : o * p[o] \in Int /\ Weights(p)[o] \in Int
      BY <3>1 DEF Weights
    <3>5. ExpectedValue(p) = SumFunctionOnSet(Weights(p), 0..2)
      <4>1. 0 \in Int /\ 2 \in Int OBVIOUS
      <4>2. IsFiniteSet(0..2) BY <4>1, FS_Interval
      <4>. QED BY <3>1, <3>4, <4>2, ExpectedIs
    <3>6. ExpectedValue(p) = p[1] + 2 * p[2]
      <4>1. SumFunctionOnSet(Weights(p), 0..2) = Weights(p)[0] + Weights(p)[1] + Weights(p)[2]
        BY <3>4, SumOfThree
      <4>. QED BY <3>1, <3>4, <3>5, <4>1
    <3>7. p[0] \in Grid /\ p[1] \in Grid /\ p[2] \in Grid BY <2>1
    <3>8. p[0] + p[1] + p[2] \in 980..1020 BY <3>2, <3>3
    <3>. QED BY <3>6, <3>7, <3>8
  <2>. QED BY <2>4, <2>5
<1>. HIDE DEF p, q, answer
<1>8. CASE input.most # 3 BY <1>4, <1>8 DEF p, q, answer
<1>9. CASE input.most = 3 /\ input.primitive = "choice" BY <1>6, <1>9 DEF p, q, answer
<1>10. CASE input.most = 3 /\ input.primitive = "score" BY <1>7, <1>10 DEF p, q, answer
<1>. QED BY <1>1, <1>8, <1>9, <1>10

(* The stream inputs that succeed, as the invariant says.                   *)
LEMMA StreamsAreFollowed ==
    ASSUME Init, input.kind = "stream",
           Stream(input.events, input.dropped, input.answer, [seconds |-> 2, length |-> 4]) = "succeeded"
    PROVE  /\ \E e \in Range(input.events) : e.type = "completed"
           /\ \A e \in Range(input.events) : e.at <= 2 /\ e.active /\ e.type # "failed"
           /\ ~input.dropped
<1>1. input \in Streams BY InputKind
<1>2. input.events \in Seq(Event) /\ input.dropped \in BOOLEAN BY <1>1, BoundedSeqs DEF Streams
<1>3. StreamEvents(input.events)
  <2>1. ASSUME NEW e \in Event PROVE e.at \in Int /\ e.length \in Int
    <3>1. e.at \in {1, 3} /\ e.length \in {0, 1, 2} BY Zenon DEF Event
    <3>. QED BY <3>1
  <2>2. \A i \in 1..Len(input.events) : input.events[i] \in Event BY <1>2
  <2>. QED BY <2>1, <2>2 DEF StreamEvents
<1>. DEFINE limit == [seconds |-> 2, length |-> 4]
<1>4. limit.seconds = 2 /\ limit.seconds \in Int OBVIOUS
<1>5. Stream(input.events, input.dropped, input.answer, limit) = "succeeded" OBVIOUS
<1>. HIDE DEF limit
<1>6. /\ \E i \in DOMAIN input.events : input.events[i].type = "completed"
      /\ \A i \in DOMAIN input.events :
            input.events[i].at <= limit.seconds /\ input.events[i].active /\ input.events[i].type # "failed"
      /\ ~input.dropped
  BY <1>2, <1>3, <1>4, <1>5, StreamsThatSucceed
<1>. QED BY <1>4, <1>6 DEF Range

(* Every decision is valid and routed as its policy says, replayed from the *)
(* recording of its text, and taken only from a stream that completed.      *)
THEOREM DecisionsRouted == Spec => []DecisionsAreRouted
<1>1. ASSUME Init PROVE DecisionsAreRouted
  <2>1. CASE input.kind = "rules"
    BY <2>1, TextsAreRuled, SMTT(30) DEF DecisionsAreRouted
  <2>2. CASE input.kind = "policy"
    BY <1>1, <2>2, PolicyIsRouted DEF DecisionsAreRouted, RouteOf, Confidences
  <2>3. CASE input.kind = "recordings"
    BY Zenon, <1>1, <2>3, RecordingsAreReplayed DEF DecisionsAreRouted, AllRecordings, Written
  <2>4. CASE input.kind = "mapped"
    BY <1>1, <2>4, ProbabilitiesAreMapped DEF DecisionsAreRouted, Probabilities
  <2>5. CASE input.kind = "stream"
    BY <1>1, <2>5, StreamsAreFollowed DEF DecisionsAreRouted
  <2>6. CASE input.kind \notin {"rules", "policy", "recordings", "mapped", "stream"}
    BY Zenon, <2>6 DEF DecisionsAreRouted
  <2>. QED BY <2>1, <2>2, <2>3, <2>4, <2>5, <2>6
<1>. QED BY <1>1, InputStays, PTL

-----------------------------------------------------------------------------
(* Digits: the checks behind card, account and identity numbers             *)

(* The card numbers of the inputs are long enough and made of digits.       *)
LEMMA NumberIs ==
    ASSUME NEW n \in Numbers
    PROVE  Number(n) \in Seq(0..9) /\ Len(Number(n)) >= 10
<1>1. n.size \in Nat /\ n.size >= 10 /\ \A i \in 1..3 : n.free[i] \in 0..9 BY DEF Numbers
<1>2. \A i \in 1..n.size : (7 * i) % 10 \in 0..9 BY <1>1
<1>3. Number(n) \in [1..n.size -> 0..9] BY <1>1, <1>2 DEF Number
<1>. QED BY <1>1, <1>3

(* The identity numbers of the inputs say their date.                       *)
LEMMA IdentityIs ==
    ASSUME NEW input0 \in Identities
    PROVE  /\ Identity(input0) \in Seq(DecimalDigit) /\ Len(Identity(input0)) = 10
           /\ TwoDigits(Identity(input0), 1) = input0.year
           /\ TwoDigits(Identity(input0), 3) = input0.month
           /\ TwoDigits(Identity(input0), 5) = input0.day
<1>1. input0.year \in 0..99 /\ input0.month \in 0..99 /\ input0.day \in 0..99 /\ input0.check \in 0..9 BY DEF Identities
<1>. DEFINE two(x) == <<x \div 10, x % 10>>
<1>2. \A x \in 0..99 : x \div 10 \in 0..9 /\ x % 10 \in 0..9 /\ 10 * (x \div 10) + (x % 10) = x OBVIOUS
<1>. DEFINE a == two(input0.year)
            b == two(input0.month)
            c == two(input0.day)
            d == <<1, 2, 3, input0.check>>
<1>3. /\ a \in [1..2 -> DecimalDigit] /\ 10 * a[1] + a[2] = input0.year
      /\ b \in [1..2 -> DecimalDigit] /\ 10 * b[1] + b[2] = input0.month
      /\ c \in [1..2 -> DecimalDigit] /\ 10 * c[1] + c[2] = input0.day
  BY <1>1, <1>2 DEF DecimalDigit
<1>4. d \in [1..4 -> DecimalDigit] BY <1>1 DEF DecimalDigit
<1>5. Identity(input0) = ((a \o b) \o c) \o d BY DEF Identity
<1>. HIDE DEF a, b, c, d, two
<1>. DEFINE e == a \o b
            f == e \o c
            g == f \o d
            n2 == 2
            n4 == 4
            n6 == 6
            n10 == 10
<1>6. /\ n2 \in Nat /\ n4 \in Nat /\ n6 \in Nat /\ n10 \in Nat
      /\ n4 = n2 + n2 /\ n6 = n4 + n2 /\ n10 = n6 + n4
  OBVIOUS
<1>. HIDE DEF n2, n4, n6, n10
<1>7. e \in [1..4 -> DecimalDigit] /\ e[1] = a[1] /\ e[2] = a[2] /\ e[3] = b[1] /\ e[4] = b[2]
  <2>1. a \in [1..n2 -> DecimalDigit] /\ b \in [1..n2 -> DecimalDigit] BY <1>3 DEF n2
  <2>2. e \in [1..n4 -> DecimalDigit] BY <1>6, <2>1, ConcatIs
  <2>3. \A i \in 1..n2 : e[i] = a[i] BY <1>6, <2>1, ConcatIs
  <2>4. \A i \in 1..n2, j \in 1..n4 : j = n2 + i => e[j] = b[i] BY <1>6, <2>1, ConcatIs
  <2>. HIDE DEF e
  <2>5. 1 \in 1..n2 /\ 2 \in 1..n2 /\ 3 \in 1..n4 /\ 4 \in 1..n4 /\ 3 = n2 + 1 /\ 4 = n2 + 2 BY DEF n2, n4
  <2>6. e[1] = a[1] /\ e[2] = a[2] /\ e[3] = b[1] /\ e[4] = b[2] BY <2>3, <2>4, <2>5
  <2>. QED BY <2>2, <2>6 DEF n4
<1>. HIDE DEF e
<1>8. f \in [1..6 -> DecimalDigit] /\ f[1] = e[1] /\ f[2] = e[2] /\ f[3] = e[3] /\ f[4] = e[4] /\ f[5] = c[1] /\ f[6] = c[2]
  <2>1. e \in [1..n4 -> DecimalDigit] /\ c \in [1..n2 -> DecimalDigit] BY <1>3, <1>7 DEF n2, n4
  <2>2. f \in [1..n6 -> DecimalDigit] BY <1>6, <2>1, ConcatIs
  <2>3. \A i \in 1..n4 : f[i] = e[i] BY <1>6, <2>1, ConcatIs
  <2>4. \A i \in 1..n2, j \in 1..n6 : j = n4 + i => f[j] = c[i] BY <1>6, <2>1, ConcatIs
  <2>. HIDE DEF f
  <2>5. /\ 1 \in 1..n4 /\ 2 \in 1..n4 /\ 3 \in 1..n4 /\ 4 \in 1..n4 /\ 1 \in 1..n2 /\ 2 \in 1..n2
        /\ 5 \in 1..n6 /\ 6 \in 1..n6 /\ 5 = n4 + 1 /\ 6 = n4 + 2
    BY DEF n2, n4, n6
  <2>6. f[1] = e[1] /\ f[2] = e[2] /\ f[3] = e[3] /\ f[4] = e[4] /\ f[5] = c[1] /\ f[6] = c[2] BY <2>3, <2>4, <2>5
  <2>. QED BY <2>2, <2>6 DEF n6
<1>. HIDE DEF f
<1>9. g \in [1..n10 -> DecimalDigit] /\ \A i \in 1..6 : g[i] = f[i]
  <2>1. f \in [1..n6 -> DecimalDigit] /\ d \in [1..n4 -> DecimalDigit] BY <1>4, <1>8 DEF n4, n6
  <2>2. g \in [1..n10 -> DecimalDigit] BY <1>6, <2>1, ConcatIs
  <2>3. \A i \in 1..n6 : g[i] = f[i] BY <1>6, <2>1, ConcatIs
  <2>. HIDE DEF g
  <2>. QED BY <2>2, <2>3 DEF n6
<1>. HIDE DEF g
<1>10. Identity(input0) = g BY <1>5 DEF e, f, g
<1>11. g[1] = a[1] /\ g[2] = a[2] /\ g[3] = b[1] /\ g[4] = b[2] /\ g[5] = c[1] /\ g[6] = c[2] BY <1>7, <1>8, <1>9
<1>12. g \in Seq(DecimalDigit) /\ Len(g) = 10
  <2>1. g \in Seq(DecimalDigit) /\ Len(g) = n10 BY <1>6, <1>9, SequenceOf
  <2>. QED BY <2>1 DEF n10
<1>. QED BY <1>3, <1>10, <1>11, <1>12 DEF TwoDigits

(* The account numbers of the inputs are made of digits and letters.        *)
LEMMA IbanIs ==
    ASSUME NEW n \in Ibans
    PROVE  Iban(n) \in Seq(Digit36)
<1>. DEFINE a == <<28, 14>>
            b == n.check
            c == [i \in 1..9 |-> (3 * i) % 10]
            d == n.free
<1>1. a \in Seq(Digit36) BY DEF Digit36
<1>2. b \in Seq(Digit36)
  <2>1. b \in [1..2 -> Digit36] BY DEF Ibans, Digit36
  <2>. HIDE DEF b
  <2>. QED BY <2>1, SequenceOf
<1>3. c \in Seq(Digit36)
  <2>1. c \in [1..9 -> Digit36] BY DEF Digit36
  <2>. HIDE DEF c
  <2>. QED BY <2>1, SequenceOf
<1>4. d \in Seq(Digit36)
  <2>1. d \in [1..2 -> Digit36] BY DEF Ibans, Digit36
  <2>. HIDE DEF d
  <2>. QED BY <2>1, SequenceOf
<1>5. Iban(n) = ((a \o b) \o c) \o d BY DEF Iban
<1>. HIDE DEF a, b, c, d
<1>6. a \o b \in Seq(Digit36) BY <1>1, <1>2
<1>7. (a \o b) \o c \in Seq(Digit36) BY <1>3, <1>6
<1>8. ((a \o b) \o c) \o d \in Seq(Digit36) BY <1>4, <1>7
<1>. QED BY <1>5, <1>8

-----------------------------------------------------------------------------
(* Redaction: what is replaced, what is counted, and what is left           *)

(* A run of digits.                                                         *)
LEMMA DigitsAre ==
    ASSUME NEW n \in Nat
    PROVE  Digits(n) \in Seq(Nat) /\ Len(Digits(n)) \in Nat
<1>1. Digits(n) \in [1..n -> Nat] BY DEF Digits
<1>. QED BY <1>1, SequenceOf

(* The phrases of the inputs, as far as the patterns tell them apart.       *)
LEMMA ValuesAre ==
    ASSUME NEW v \in Values
    PROVE  /\ Len(v.digits) \in Nat
           /\ v.form \notin CodeForms => v.digits = <<>>
<1>1. CASE v \in [form : {"word", "name", "email", "address", "redacted"}, digits : {<<>>}]
  BY <1>1
<1>2. CASE v \in [form : {"code", "number"}, digits : {Digits(n) : n \in {3, 4, 7, 15, 16, 20}}]
  <2>1. PICK n \in {3, 4, 7, 15, 16, 20} : v.digits = Digits(n) BY <1>2
  <2>2. n \in Nat BY <2>1
  <2>3. v.form \in {"code", "number"} BY <1>2
  <2>. QED BY <2>1, <2>2, <2>3, DigitsAre DEF CodeForms
<1>3. CASE v = [form |-> "date", digits |-> Digits(8)]
  <2>1. v.form = "date" /\ v.digits = Digits(8) BY <1>3
  <2>2. 8 \in Nat OBVIOUS
  <2>. QED BY <2>1, <2>2, DigitsAre DEF CodeForms
<1>4. CASE v = [form |-> "number", digits |-> [i \in 1..16 |-> 0]]
  <2>. DEFINE z == [i \in 1..16 |-> 0]
  <2>1. z \in [1..16 -> Nat] /\ 16 \in Nat OBVIOUS
  <2>. HIDE DEF z
  <2>2. Len(z) = 16 BY <2>1, SequenceOf
  <2>3. v.form = "number" /\ v.digits = z BY <1>4 DEF z
  <2>. QED BY <2>2, <2>3 DEF CodeForms
<1>5. CASE v.form = "identity" /\ v.digits = <<9, 0, 0, 1, 0, 1, 1, 2, 3, 9>>
  BY <1>5 DEF CodeForms
<1>6. CASE v.form = "identity" /\ v.digits = <<9, 0, 0, 1, 0, 1, 1, 2, 3, 8>>
  BY <1>6, SMTT(30) DEF CodeForms
<1>. QED BY <1>1, <1>2, <1>3, <1>4, <1>5, <1>6 DEF Values

PrivateTextIsRedacted ==
    LET redacted == Redact(Text)
        replaced == {i \in 1..TextPhrases : redacted[1].text[i] # Text[i]}
        event == AuditEvent(redacted[1])
    IN  /\ redacted = <<>> <=> \E i \in 1..TextPhrases : IsPayment(Text[i])
        /\ redacted # <<>> =>
              /\ DecisionState(redacted[1].text, "sv-SE", "return_feedback")
                     = DecisionState(Text, "sv-SE", "return_feedback")
              /\ event.total = Cardinality(replaced)
              /\ \A i \in 1..TextPhrases : LET p == redacted[1].text[i]
                                           IN  /\ p.label = Text[i].label
                                               /\ p.form \notin {"email", "address"}
                                               /\ p.form = "name" => p.label # "name"
                                               /\ p.form \in {"number", "identity"} => Len(p.digits) \notin 7..15
                                               /\ p.label \in {"customer", "order"} => Len(p.digits) < 4

(* The text inputs are redacted as the invariant says.                      *)
LEMMA PrivateTextsAreRedacted ==
    ASSUME input \in PrivateTexts
    PROVE  PrivateTextIsRedacted
<1>. DEFINE text == Text
            Ls == {text[i].label : i \in 1..TextPhrases}
            Fs == {text[i].form : i \in 1..TextPhrases} \cup {"redacted"}
            Ds == {text[i].digits : i \in 1..TextPhrases} \cup {<<>>}
            redacted == Redact(text)
            r == redacted[1]
<1>1. ASSUME NEW i \in 1..TextPhrases
      PROVE  /\ text[i].form = input.value[i].form
             /\ text[i].digits = input.value[i].digits
             /\ text[i] = [label |-> text[i].label, form |-> text[i].form, digits |-> text[i].digits]
  <2>. DEFINE v == [label |-> input.label[i], form |-> input.value[i].form, digits |-> input.value[i].digits]
  <2>1. text[i] = v BY DEF Text
  <2>2. /\ v.form = input.value[i].form
        /\ v.digits = input.value[i].digits
        /\ v = [label |-> v.label, form |-> v.form, digits |-> v.digits]
    OBVIOUS
  <2>. HIDE DEF text, v
  <2>. QED BY <2>1, <2>2
<1>2. \A i \in 1..TextPhrases : input.value[i] \in Values BY DEF PrivateTexts
<1>3. \A i \in 1..TextPhrases : Len(text[i].digits) \in Nat /\ (text[i].form \notin CodeForms => text[i].digits = <<>>)
  <2>. HIDE DEF text
  <2>1. \A i \in 1..TextPhrases : text[i].form = input.value[i].form /\ text[i].digits = input.value[i].digits BY <1>1
  <2>. QED BY <1>2, <2>1, ValuesAre
<1>4. text \in [1..TextPhrases -> PhrasesOf(Ls, Fs, Ds)]
  <2>1. text = [i \in 1..TextPhrases |-> text[i]] BY DEF Text
  <2>. HIDE DEF text
  <2>2. ASSUME NEW i \in 1..TextPhrases PROVE text[i] \in PhrasesOf(Ls, Fs, Ds)
    <3>1. text[i].label \in Ls /\ text[i].form \in Fs /\ text[i].digits \in Ds OBVIOUS
    <3>2. text[i] = [label |-> text[i].label, form |-> text[i].form, digits |-> text[i].digits] BY <1>1
    <3>. HIDE DEF Ls, Fs, Ds
    <3>. QED BY <3>1, <3>2 DEF PhrasesOf
  <2>. HIDE DEF Ls, Fs, Ds
  <2>. QED BY <2>1, <2>2
<1>. HIDE DEF text
<1>5. "redacted" \in Fs /\ <<>> \in Ds
  <2>1. \A S, x : x \in S \cup {x} OBVIOUS
  <2>. QED BY Zenon, <2>1
<1>. HIDE DEF Ls, Fs, Ds
<1>6. /\ redacted = <<>> <=> \E i \in 1..TextPhrases : IsPayment(text[i])
      /\ redacted # <<>> =>
            /\ IsRedactionOf(r, text, TextPhrases)
            /\ DecisionState(r.text, "sv-SE", "return_feedback") = DecisionState(text, "sv-SE", "return_feedback")
  <2>. DEFINE n == TextPhrases
  <2>1. n \in Nat /\ text \in [1..n -> PhrasesOf(Ls, Fs, Ds)] BY <1>4, TextAssumption
  <2>. HIDE DEF n
  <2>2. Redact(text) = <<>> <=> \E i \in 1..n : IsPayment(text[i]) BY <1>5, <2>1, RedactionIsStable, ZenonT(40)
  <2>3. Redact(text) # <<>> => IsRedactionOf(Redact(text)[1], text, n) BY <1>5, <2>1, RedactionIsStable
  <2>4. Redact(text) # <<>> =>
            DecisionState(Redact(text)[1].text, "sv-SE", "return_feedback") = DecisionState(text, "sv-SE", "return_feedback")
    BY <1>5, <2>1, RedactionIsStable, SMTT(30)
  <2>. QED BY <2>2, <2>3, <2>4 DEF n
<1>. HIDE DEF redacted, r
<1>7. ASSUME redacted # <<>>
      PROVE  /\ DecisionState(r.text, "sv-SE", "return_feedback") = DecisionState(text, "sv-SE", "return_feedback")
             /\ AuditEvent(r).total = Cardinality({i \in 1..TextPhrases : r.text[i] # text[i]})
             /\ \A i \in 1..TextPhrases : /\ r.text[i].label = text[i].label
                                          /\ r.text[i].form \notin {"email", "address"}
                                          /\ r.text[i].form = "name" => r.text[i].label # "name"
                                          /\ r.text[i].form \in {"number", "identity"} => Len(r.text[i].digits) \notin 7..15
                                          /\ r.text[i].label \in {"customer", "order"} => Len(r.text[i].digits) < 4
  <2>1. /\ \A i \in 1..TextPhrases : /\ r.text[i].label = text[i].label
                                     /\ r.text[i] = text[i] \/ (r.text[i].form = "redacted" /\ r.text[i].digits = <<>>)
        /\ \A kind \in KindNames, i \in 1..TextPhrases : ~MatchesPattern(kind, r.text[i])
        /\ AuditEvent(r).total = Cardinality({i \in 1..TextPhrases : r.text[i] # text[i]})
    BY <1>6, <1>7 DEF IsRedactionOf, Changed
  <2>2. ASSUME NEW i \in 1..TextPhrases
        PROVE  /\ r.text[i].label = text[i].label
               /\ r.text[i].form \notin {"email", "address"}
               /\ r.text[i].form = "name" => r.text[i].label # "name"
               /\ r.text[i].form \in {"number", "identity"} => Len(r.text[i].digits) \notin 7..15
               /\ r.text[i].label \in {"customer", "order"} => Len(r.text[i].digits) < 4
    <3>. DEFINE p == r.text[i]
    <3>1. \A kind \in KindNames : ~MatchesPattern(kind, p) BY <2>1
    <3>2. p.label = text[i].label /\ (p = text[i] \/ (p.form = "redacted" /\ p.digits = <<>>)) BY <2>1
    <3>. HIDE DEF p
    <3>3. /\ p.form # "email" /\ p.form # "address"
          /\ p.form = "name" => p.label # "name"
          /\ p.form \in {"number", "identity"} => Len(p.digits) \notin 7..15
          /\ p.label \in {"customer", "order"} /\ p.form \in CodeForms => ~(Len(p.digits) >= 4)
      BY <3>1, LeftOver
    <3>4. Len(p.digits) \in Nat /\ (p.form \notin CodeForms => p.digits = <<>>)
      <4>1. CASE p = text[i] BY <1>3, <4>1
      <4>2. CASE p.form = "redacted" /\ p.digits = <<>> BY <4>2
      <4>. QED BY <3>2, <4>1, <4>2
    <3>5. p.label \in {"customer", "order"} => Len(p.digits) < 4
      <4>1. CASE p.form \in CodeForms BY <3>3, <3>4, <4>1
      <4>2. CASE p.form \notin CodeForms
        <5>1. Len(p.digits) = 0 BY <3>4, <4>2
        <5>. QED BY <5>1
      <4>. QED BY <4>1, <4>2
    <3>. QED BY <3>2, <3>3, <3>5 DEF p
  <2>. QED BY <1>6, <1>7, <2>1, <2>2
<1>. QED BY <1>6, <1>7 DEF PrivateTextIsRedacted, text, redacted, r

(* Wrong digits are noticed, identity numbers are dates, and of a text that *)
(* is redacted nothing personal is left and everything replaced is counted  *)
(* (redact_text and its validators).                                        *)
THEOREM RedactionsComplete == Spec => []RedactionIsComplete
<1>1. Init => RedactionIsComplete
  <2>. SUFFICES ASSUME Init PROVE RedactionIsComplete OBVIOUS
  <2>1. CASE input.kind = "number"
    <3>1. input \in Numbers BY <2>1, InputKind
    <3>. DEFINE digits == Number(input)
    <3>2. digits \in Seq(0..9) /\ Len(digits) >= 10 BY <3>1, NumberIs
    <3>. HIDE DEF digits
    <3>3. /\ Luhn(digits) => \A i \in DOMAIN digits, d \in 0..9 :
                  d # digits[i] => ~Luhn([digits EXCEPT ![i] = d])
          /\ (Luhn(digits) <=> Luhn(<<0>> \o digits))
      BY <3>2, CardDigitsAreChecked
    <3>4. Luhn(digits) \in BOOLEAN /\ Luhn(<<0>> \o digits) \in BOOLEAN BY DEF Luhn
    <3>5. Luhn(digits) <=> Luhn(<<0>> \o digits) BY <3>3
    <3>6. Luhn(digits) = Luhn(<<0>> \o digits)
      <4>. DEFINE x == Luhn(digits)
                  y == Luhn(<<0>> \o digits)
      <4>1. x \in BOOLEAN /\ y \in BOOLEAN /\ (x <=> y) BY <3>4, <3>5
      <4>. HIDE DEF x, y
      <4>2. x = y BY <4>1
      <4>. QED BY <4>2 DEF x, y
    <3>. QED BY <2>1, <3>3, <3>6, Zenon DEF RedactionIsComplete, digits
  <2>2. CASE input.kind = "iban"
    <3>1. input \in Ibans BY <2>2, InputKind
    <3>. DEFINE chars == Iban(input)
    <3>2. chars \in Seq(Digit36) BY <3>1, IbanIs
    <3>. HIDE DEF chars
    <3>3. ASSUME ValidIban(chars), NEW i \in DOMAIN chars, NEW c \in 0..35, c # chars[i], (c > 9) = (chars[i] > 9)
          PROVE  ~ValidIban([chars EXCEPT ![i] = c])
      <4>1. c \in Digit36 BY DEF Digit36
      <4>2. c > 9 <=> chars[i] > 9 BY <3>3
      <4>. QED BY <3>2, <3>3, <4>1, <4>2, AccountDigitsAreChecked
    <3>. QED BY Zenon, <2>2, <3>3 DEF RedactionIsComplete, chars
  <2>3. CASE input.kind = "identity"
    <3>1. input \in Identities BY <2>3, InputKind
    <3>. DEFINE digits == Identity(input)
    <3>2. /\ digits \in Seq(DecimalDigit) /\ Len(digits) = 10
          /\ TwoDigits(digits, 1) = input.year
          /\ TwoDigits(digits, 3) = input.month
          /\ TwoDigits(digits, 5) = input.day
      BY <3>1, IdentityIs
    <3>. HIDE DEF digits
    <3>3. ValidIdentity(digits) <=>
              /\ Luhn(digits)
              /\ \E century \in {1900, 2000} :
                    IsDate(century + TwoDigits(digits, 1), TwoDigits(digits, 3), DayOf(TwoDigits(digits, 5)))
      BY <3>2, IdentityNumbersAreDates
    <3>4. ValidIdentity(digits) <=>
              /\ Luhn(digits)
              /\ \E century \in {1900, 2000} :
                    IsDate(century + input.year, input.month, IF input.day > 60 THEN input.day - 60 ELSE input.day)
      BY <3>2, <3>3 DEF DayOf
    <3>5. ValidIdentity(digits) \in BOOLEAN BY DEF ValidIdentity, Luhn, IsDate
    <3>6. ValidIdentity(digits) =
              (/\ Luhn(digits)
               /\ \E century \in {1900, 2000} :
                     IsDate(century + input.year, input.month, IF input.day > 60 THEN input.day - 60 ELSE input.day))
    <4>. DEFINE x == ValidIdentity(digits)
                y == /\ Luhn(digits)
                     /\ \E century \in {1900, 2000} :
                           IsDate(century + input.year, input.month, IF input.day > 60 THEN input.day - 60 ELSE input.day)
    <4>1. y \in BOOLEAN OBVIOUS
    <4>2. x \in BOOLEAN /\ (x <=> y) BY <3>4, <3>5
    <4>. HIDE DEF x, y
    <4>3. x = y BY <4>1, <4>2
    <4>. QED BY <4>3 DEF x, y
    <3>. QED BY <2>3, <3>6 DEF RedactionIsComplete, digits
  <2>4. CASE input.kind = "private"
    <3>1. PrivateTextIsRedacted BY <2>4, InputKind, PrivateTextsAreRedacted
    <3>. QED BY <2>4, <3>1 DEF RedactionIsComplete, PrivateTextIsRedacted
  <2>5. CASE input.kind \notin {"number", "iban", "identity", "private"}
    BY Zenon, <2>5 DEF RedactionIsComplete
  <2>. QED BY <2>1, <2>2, <2>3, <2>4, <2>5
<1>. QED BY <1>1, InputStays, PTL

-----------------------------------------------------------------------------
(* Synthetic records                                                        *)

(* The specifications of the run.                                           *)
LEMMA PlantedIs ==
    ASSUME NEW events, NEW n \in 1..2
    PROVE  LET spec == PlantedSpec(events, n)
           IN  /\ ProductsAre(spec.products, n) /\ \A i \in 1..n : spec.products[i].id = i /\ spec.products[i].price = 10 * i
               /\ AreChoices(spec.scenarios, 5) /\ UpTo(spec.scenarios, 5) = 7
               /\ \A i, j \in 1..5 : spec.scenarios[i] = spec.scenarios[j] => i = j
               /\ \A i \in 1..5 : /\ spec.scenarios[i].order \in BOOLEAN /\ spec.scenarios[i].product \in BOOLEAN
                                  /\ spec.scenarios[i].id = "delivery_late" =>
                                        /\ spec.scenarios[i].source = "delivery_survey"
                                        /\ spec.scenarios[i].order /\ spec.scenarios[i].product
               /\ spec.events = events /\ spec.days = SpecDays
<1>. DEFINE spec == PlantedSpec(events, n)
            ps == spec.products
            ss == spec.scenarios
<1>1. spec.events = events /\ spec.days = SpecDays BY DEF PlantedSpec
<1>2. ps = [i \in 1..n |-> [id |-> i, price |-> 10 * i]] BY DEF PlantedSpec
<1>3. \A i \in 1..n : ps[i] \in [id : Nat \ {0}, price : Nat] /\ ps[i].id = i /\ ps[i].price = 10 * i
  <2>. SUFFICES ASSUME NEW i \in 1..n
                PROVE  ps[i] \in [id : Nat \ {0}, price : Nat] /\ ps[i].id = i /\ ps[i].price = 10 * i
    OBVIOUS
  <2>. DEFINE q == [id |-> i, price |-> 10 * i]
  <2>1. ps[i] = q BY <1>2
  <2>2. q \in [id : Nat \ {0}, price : Nat] /\ q.id = i /\ q.price = 10 * i OBVIOUS
  <2>. HIDE DEF q, ps
  <2>. QED BY <2>1, <2>2
<1>4. ProductsAre(ps, n)
  <2>. HIDE DEF ps
  <2>1. n \in Nat OBVIOUS
  <2>2. ps \in [1..n -> [id : Nat \ {0}, price : Nat]] BY <1>2, <1>3
  <2>3. ps \in Seq([id : Nat \ {0}, price : Nat]) /\ Len(ps) = n BY <2>1, <2>2, SequenceOf
  <2>4. \A i, j \in 1..n : ps[i].id = ps[j].id => i = j BY <1>3
  <2>. QED BY <2>3, <2>4 DEF ProductsAre
<1>5. ss = <<Scenario("site", "site_feedback", FALSE), Scenario("delivery_late", "delivery_survey", TRUE),
             Scenario("review", "product_review", FALSE), Scenario("ticket", "support_ticket", FALSE),
             Scenario("return", "return_feedback", TRUE)>>
  BY DEF PlantedSpec
<1>. HIDE DEF ss, ps, spec
<1>6. /\ DOMAIN ss = 1..5 /\ ss[1] = Scenario("site", "site_feedback", FALSE)
       /\ ss[2] = Scenario("delivery_late", "delivery_survey", TRUE) /\ ss[3] = Scenario("review", "product_review", FALSE)
       /\ ss[4] = Scenario("ticket", "support_ticket", FALSE) /\ ss[5] = Scenario("return", "return_feedback", TRUE)
  BY <1>5
<1>7. /\ ss[1].id = "site" /\ ss[1].weight = 1 /\ ss[1].order \in BOOLEAN /\ ss[1].product \in BOOLEAN
  BY <1>6 DEF Scenario
<1>8. /\ ss[2].id = "delivery_late" /\ ss[2].weight = 2 /\ ss[2].order \in BOOLEAN /\ ss[2].product \in BOOLEAN
       /\ ss[2].source = "delivery_survey" /\ ss[2].order /\ ss[2].product
  BY <1>6 DEF Scenario
<1>9. /\ ss[3].id = "review" /\ ss[3].weight = 1 /\ ss[3].order \in BOOLEAN /\ ss[3].product \in BOOLEAN
  BY <1>6 DEF Scenario
<1>10. /\ ss[4].id = "ticket" /\ ss[4].weight = 1 /\ ss[4].order \in BOOLEAN /\ ss[4].product \in BOOLEAN
  BY <1>6 DEF Scenario
<1>11. /\ ss[5].id = "return" /\ ss[5].weight = 2 /\ ss[5].order \in BOOLEAN /\ ss[5].product \in BOOLEAN
  BY <1>6 DEF Scenario
<1>12. \A i \in 1..5 : i = 1 \/ i = 2 \/ i = 3 \/ i = 4 \/ i = 5 OBVIOUS
<1>13. \A i \in 1..5 : ss[i].weight \in Nat \ {0} /\ ss[i].order \in BOOLEAN /\ ss[i].product \in BOOLEAN
  <2>. SUFFICES ASSUME NEW i \in 1..5
                PROVE  ss[i].weight \in Nat \ {0} /\ ss[i].order \in BOOLEAN /\ ss[i].product \in BOOLEAN
    OBVIOUS
  <2>1. CASE i = 1 BY <2>1, <1>7
  <2>2. CASE i = 2 BY <2>2, <1>8
  <2>3. CASE i = 3 BY <2>3, <1>9
  <2>4. CASE i = 4 BY <2>4, <1>10
  <2>5. CASE i = 5 BY <2>5, <1>11
  <2>. QED BY <1>12, <2>1, <2>2, <2>3, <2>4, <2>5
<1>14. AreChoices(ss, 5) BY <1>6, <1>13 DEF AreChoices
<1>15. UpTo(ss, 5) = 7
  <2>1. UpTo(ss, 0) = 0 /\ \A i \in 1..5 : UpTo(ss, i) = UpTo(ss, i - 1) + ss[i].weight
    BY <1>14, WeightsAddUp
  <2>2. UpTo(ss, 1) = 1 BY <1>7, <2>1
  <2>3. UpTo(ss, 2) = 3 BY <1>8, <2>1, <2>2
  <2>4. UpTo(ss, 3) = 4 BY <1>9, <2>1, <2>3
  <2>5. UpTo(ss, 4) = 5 BY <1>10, <2>1, <2>4
  <2>. QED BY <1>11, <2>1, <2>5
<1>16. \A i, j \in 1..5 : ss[i].id = ss[j].id => i = j BY <1>7, <1>8, <1>9, <1>10, <1>11, <1>12
<1>17. \A i \in 1..5 : ss[i].id = "delivery_late" => i = 2 BY <1>7, <1>8, <1>9, <1>10, <1>11, <1>12
<1>. QED BY <1>1, <1>3, <1>4, <1>8, <1>13, <1>14, <1>15, <1>16, <1>17 DEF spec, ss, ps

EventsIs == <<Planted("a", input.start, input.duration, 1), Planted("b", 0, <<1>>, 0)>>

GeneratedRecord(i) == Record(GeneratedSpec, i - 1, input.count, Draw(i))
DayOfRecord(i) == Day(i - 1, input.count, SpecDays)

(* The input of a generation that loads.                                    *)
LEMMA GenerationIs ==
    ASSUME input \in Generations, SpecLoads(GeneratedSpec, SpecDays)
    PROVE  /\ input.products \in 1..2 /\ input.count \in Nat \ {0} /\ input.second \in 0..1
           /\ SpecDays \in Nat \ {0}
           /\ SpecIsTyped(GeneratedSpec, input.products, 5, 2)
           /\ GeneratedSpec.days = SpecDays /\ GeneratedSpec.events = EventsIs
           /\ \A j \in 1..2 : GeneratedSpec.events[j].start \in 0..(SpecDays - 1)
           /\ \A j \in 1..2 : GeneratedSpec.events[j].duration # <<>> =>
                 /\ GeneratedSpec.events[j].duration[1] \in Nat
                 /\ GeneratedSpec.events[j].start + GeneratedSpec.events[j].duration[1] <= SpecDays
<1>. DEFINE spec == GeneratedSpec
            n == input.products
<1>1. /\ n \in 1..2 /\ input.count \in 1..(SpecDays + 2) /\ input.second \in 0..1
      /\ input.start \in 0..SpecDays /\ input.duration \in {<<>>, <<1>>, <<2>>, <<SpecDays>>}
  BY DEF Generations
<1>2. SpecDays \in Nat BY SpecAssumption
<1>3. spec = PlantedSpec(EventsIs, n) BY DEF GeneratedSpec, EventsIs
<1>. HIDE DEF spec, n
<1>4. /\ ProductsAre(spec.products, n) /\ AreChoices(spec.scenarios, 5)
      /\ \A i \in 1..5 : spec.scenarios[i].order \in BOOLEAN /\ spec.scenarios[i].product \in BOOLEAN
      /\ spec.events = EventsIs /\ spec.days = SpecDays
  BY <1>1, <1>3, PlantedIs
<1>5. DOMAIN spec.events = 1..2 BY <1>4 DEF EventsIs
<1>6. SpecIsTyped(spec, n, 5, 2) BY <1>4, <1>5 DEF SpecIsTyped
<1>7. \A j \in 1..2 : EventIsValid(spec.events[j], spec)
  BY <1>5 DEF SpecLoads, Range, spec
<1>8. \A j \in 1..2 : spec.events[j].start \in 0..(SpecDays - 1) BY <1>4, <1>7 DEF EventIsValid
<1>9. SpecDays # 0 BY <1>2, <1>8
<1>10. \A j \in 1..2 : spec.events[j].duration \in {<<>>, <<1>>, <<2>>, <<SpecDays>>}
  <2>1. spec.events[1].duration = input.duration /\ spec.events[2].duration = <<1>>
    BY <1>4 DEF EventsIs, Planted
  <2>2. \A j \in 1..2 : j = 1 \/ j = 2 OBVIOUS
  <2>. QED BY <1>1, <2>1, <2>2
<1>11. \A x \in {<<>>, <<1>>, <<2>>, <<SpecDays>>} : x # <<>> => x[1] \in Nat BY <1>2
<1>12. ASSUME NEW j \in 1..2, spec.events[j].duration # <<>>
       PROVE  /\ spec.events[j].duration[1] \in Nat
              /\ spec.events[j].start + spec.events[j].duration[1] <= SpecDays
  BY <1>4, <1>7, <1>10, <1>11, <1>12 DEF EventIsValid
<1>. QED BY <1>1, <1>2, <1>4, <1>6, <1>8, <1>9, <1>12, SMTT(30) DEF spec, n

(* The draws of the run are draws.                                          *)
LEMMA DrawIs ==
    ASSUME input \in Generations, NEW i \in Nat
    PROVE  IsDraw(Draw(i), GeneratedSpec, input.products, 5) /\ Draw(i).second = input.second
<1>1. input.products \in 1..2 /\ input.second \in 0..1 /\ input.scenario \in 0..6 BY DEF Generations
<1>2. GeneratedSpec = PlantedSpec(EventsIs, input.products) BY DEF GeneratedSpec, EventsIs
<1>3. UpTo(GeneratedSpec.scenarios, 5) = 7 BY <1>1, <1>2, PlantedIs
<1>4. (input.scenario + i) % 7 \in 0..6 BY <1>1
<1>5. /\ Draw(i).scenario = (input.scenario + i) % 7 /\ Draw(i).product = 1 /\ Draw(i).second = input.second
      /\ Draw(i).twice \in BOOLEAN /\ Draw(i).freight = 5 /\ Draw(i).ago = 2 /\ Draw(i).late = 3 /\ Draw(i).early = 1
      /\ Draw(i).other = -1 /\ Draw(i).before = 2
  BY DEF Draw
<1>6. Draw(i).scenario \in Nat /\ Draw(i).scenario < 7 BY <1>4, <1>5
<1>7. 1 \in 1..input.products BY <1>1
<1>. DEFINE d == Draw(i)
<1>. HIDE DEF d
<1>8. d.scenario \in Nat /\ d.scenario < UpTo(GeneratedSpec.scenarios, 5) BY <1>3, <1>6 DEF d
<1>9. d.product \in 1..input.products BY <1>5, <1>7 DEF d
<1>10. d.second \in Nat /\ d.second = input.second BY <1>1, <1>5 DEF d
<1>11. d.freight \in Nat /\ d.twice \in BOOLEAN /\ d.before \in Nat \ {0} BY <1>5 DEF d
<1>12. d.ago \in Int /\ d.late \in Int /\ d.early \in Int /\ d.other \in Int BY <1>5 DEF d
<1>13. IsDraw(d, GeneratedSpec, input.products, 5) BY <1>8, <1>9, <1>10, <1>11, <1>12 DEF IsDraw
<1>. QED BY <1>10, <1>13 DEF d

(* The record at a position.                                                *)
LEMMA GeneratedRecordIs ==
    ASSUME input \in Generations, SpecLoads(GeneratedSpec, SpecDays), NEW i \in 1..input.count
    PROVE  \/ GeneratedRecord(i) = <<>> /\ input.products = 1 /\ input.second = 1
           \/ \E r : /\ GeneratedRecord(i) = <<r>> /\ r.id = i - 1 /\ r.day = DayOfRecord(i)
                     /\ RecordFollows(r, GeneratedSpec, input.products, 5, 2)
<1>1. /\ input.products \in Nat /\ 5 \in Nat /\ 2 \in Nat /\ input.count \in Nat \ {0} /\ input.second \in 0..1
      /\ SpecDays \in Nat \ {0} /\ SpecIsTyped(GeneratedSpec, input.products, 5, 2) /\ GeneratedSpec.days = SpecDays
  BY GenerationIs
<1>2. i \in Nat /\ i - 1 \in 0..(input.count - 1) BY <1>1
<1>3. IsDraw(Draw(i), GeneratedSpec, input.products, 5) /\ Draw(i).second = input.second BY <1>2, DrawIs
<1>4. Day(i - 1, input.count, SpecDays) \in 0..(SpecDays - 1)
  <2>. DEFINE c == input.count
              days == SpecDays
  <2>1. c \in Nat /\ c > 0 /\ days \in Nat /\ days > 0 BY <1>1
  <2>. HIDE DEF c, days
  <2>2. \A x \in 0..(c - 1) : Day(x, c, days) \in 0..(days - 1) BY <2>1, DaysAreCovered
  <2>. QED BY <1>2, <2>2 DEF c, days
<1>5. Day(i - 1, input.count, GeneratedSpec.days) \in Int BY <1>1, <1>4
<1>. DEFINE d == Draw(i)
            spec == GeneratedSpec
<1>. HIDE DEF d, spec
<1>6. \/ Record(spec, i - 1, input.count, d) = <<>> /\ input.products = 1 /\ d.second # 0
      \/ \E r : /\ Record(spec, i - 1, input.count, d) = <<r>> /\ r.id = i - 1
                /\ r.day = Day(i - 1, input.count, spec.days)
                /\ RecordFollows(r, spec, input.products, 5, 2)
  BY <1>1, <1>3, <1>5, RecordsFollowTheSpec DEF d, spec
<1>. QED BY <1>1, <1>3, <1>6 DEF d, spec, GeneratedRecord, DayOfRecord

(* The products of a record cost as much as their prices in the             *)
(* specification, which are ten times the number of the product.            *)
LEMMA CostIs ==
    ASSUME NEW events, NEW n \in 1..2, NEW products,
           products = <<>> \/ \E j \in 1..n : RelatedTo(PlantedSpec(events, n).products[j], products,
                                                       PlantedSpec(events, n).products, n)
    PROVE  SumFunction([i \in DOMAIN products |-> products[i].price])
               = SumFunction([i \in DOMAIN products |-> 10 * products[i].id * products[i].quantity])
<1>. DEFINE ps == PlantedSpec(events, n).products
<1>1. \A i \in 1..n : ps[i].id = i /\ ps[i].price = 10 * i BY PlantedIs
<1>. HIDE DEF ps
<1>2. ASSUME NEW b \in Bought(ps, n) PROVE b.price = 10 * b.id * b.quantity
  <2>1. PICK j \in 1..n, q \in 1..2, f \in Nat :
            b = [id |-> ps[j].id, quantity |-> q, price |-> ps[j].price * q, freight |-> f]
    BY DEF Bought
  <2>2. b.id = j /\ b.quantity = q /\ b.price = (10 * j) * q BY <1>1, <2>1
  <2>. QED BY <2>2
<1>3. \A i \in DOMAIN products : products[i].price = 10 * products[i].id * products[i].quantity
  <2>1. CASE products = <<>> BY <2>1
  <2>2. CASE products # <<>>
    <3>1. products \in Seq(Bought(ps, n)) BY <2>2 DEF RelatedTo, ps
    <3>2. \A i \in DOMAIN products : products[i] \in Bought(ps, n)
      <4>. DEFINE B == Bought(ps, n)
      <4>. HIDE DEF B
      <4>1. products \in Seq(B) BY <3>1 DEF B
      <4>2. \A i \in DOMAIN products : products[i] \in B BY <4>1
      <4>. QED BY <4>2 DEF B
    <3>. QED BY <1>2, <3>2
  <2>. QED BY <2>1, <2>2
<1>4. [i \in DOMAIN products |-> products[i].price]
        = [i \in DOMAIN products |-> 10 * products[i].id * products[i].quantity]
  BY <1>3
<1>. QED BY <1>4

(* A record of an event is on its days, of its scenario and of its product. *)
LEMMA EventOfRecord ==
    ASSUME input \in Generations, SpecLoads(GeneratedSpec, SpecDays), NEW r,
           RecordFollows(r, GeneratedSpec, input.products, 5, 2), NEW j \in 1..2,
           r.provenance.event = <<GeneratedSpec.events[j].id>>
    PROVE  /\ ActiveOn(GeneratedSpec.events[j], r.day)
           /\ r.channel = "delivery_survey" /\ r.context # <<>>
           /\ GeneratedSpec.events[j].id = "a" => r.products[1].id = 1
<1>. DEFINE spec == GeneratedSpec
            n == input.products
            es == spec.events
            ss == spec.scenarios
<1>1. es = EventsIs BY GenerationIs
<1>2. /\ es[1].id = "a" /\ es[1].scenario = "delivery_late" /\ es[1].product = 1
      /\ es[2].id = "b" /\ es[2].scenario = "delivery_late"
  BY <1>1 DEF EventsIs, Planted
<1>3. spec = PlantedSpec(EventsIs, n) /\ n \in 1..2 BY DEF GeneratedSpec, EventsIs, Generations
<1>4. \A i \in 1..5 : ss[i].id = "delivery_late" =>
            ss[i].source = "delivery_survey" /\ ss[i].order /\ ss[i].product
  BY <1>3, PlantedIs
<1>5. PICK i \in 1..5 : /\ RecordOfScenario(r, ss[i], spec, n)
                        /\ \/ r.provenance.event = <<>>
                           \/ \E x \in 1..2 : RecordOfEvent(r, es[x], ss[i])
  BY DEF RecordFollows
<1>. HIDE DEF spec, n, es, ss
<1>6. r.provenance.event = <<es[j].id>> BY DEF es, spec
<1>7. PICK x \in 1..2 : RecordOfEvent(r, es[x], ss[i]) BY <1>5, <1>6
<1>8. es[x].id = es[j].id BY <1>6, <1>7 DEF RecordOfEvent
<1>9. x = j BY <1>2, <1>8
<1>10. RecordOfEvent(r, es[j], ss[i]) BY <1>7, <1>9
<1>11. es[j].scenario = "delivery_late" BY <1>2
<1>12. ss[i].source = "delivery_survey" /\ ss[i].order /\ ss[i].product
  BY <1>4, <1>10, <1>11 DEF RecordOfEvent
<1>13. r.channel = "delivery_survey" /\ r.context # <<>>
  <2>1. r.channel = ss[i].source BY <1>5 DEF RecordOfScenario
  <2>2. PICK c : r.context = <<c>> BY <1>5, <1>12 DEF RecordOfScenario
  <2>. QED BY <1>12, <2>1, <2>2
<1>14. es[j].id = "a" => r.products[1].id = 1 BY <1>2, <1>10, <1>12 DEF RecordOfEvent
<1>15. ActiveOn(es[j], r.day) BY <1>10 DEF RecordOfEvent
<1>. QED BY <1>13, <1>14, <1>15 DEF es, spec

(* The context of a record adds up.                                         *)
LEMMA ContextOfRecord ==
    ASSUME input \in Generations, NEW r, RecordFollows(r, GeneratedSpec, input.products, 5, 2), r.context # <<>>
    PROVE  /\ r.context[1].purchased < r.context[1].delivered /\ r.context[1].purchased < r.context[1].expected
           /\ r.context[1].delta = r.context[1].delivered - r.context[1].expected
           /\ r.context[1].price = SumFunction([i \in DOMAIN r.products |->
                                                    10 * r.products[i].id * r.products[i].quantity])
<1>. DEFINE spec == GeneratedSpec
            n == input.products
            ss == spec.scenarios
<1>1. PICK i \in 1..5 : RecordOfScenario(r, ss[i], spec, n) BY DEF RecordFollows
<1>2. spec = PlantedSpec(EventsIs, n) /\ n \in 1..2 BY DEF GeneratedSpec, EventsIs, Generations
<1>. HIDE DEF spec, n, ss
<1>3. PICK c : r.context = <<c>> /\ ContextAddsUp(c, r.products) BY <1>1 DEF RecordOfScenario
<1>4. r.context[1] = c BY <1>3
<1>5. r.products = <<>> \/ \E j \in 1..n : RelatedTo(spec.products[j], r.products, spec.products, n)
  BY <1>1 DEF RecordOfScenario
<1>6. SumFunction([x \in DOMAIN r.products |-> r.products[x].price])
          = SumFunction([x \in DOMAIN r.products |-> 10 * r.products[x].id * r.products[x].quantity])
  BY <1>2, <1>5, CostIs
<1>. QED BY <1>3, <1>4, <1>6 DEF ContextAddsUp

Made == [i \in 1..input.count |-> Record(GeneratedSpec, i - 1, input.count, Draw(i))]
MadeRecords == [i \in DOMAIN Made |-> Made[i][1]]
MadeManifest == Manifest(GeneratedSpec, MadeRecords)
AllMade == \A i \in DOMAIN Made : Made[i] # <<>>

(* The scenarios are drawn as often as their weights.                       *)
LEMMA ScenariosAreShared ==
    ASSUME input \in Generations
    PROVE  \A s \in Range(GeneratedSpec.scenarios) :
               Cardinality({d \in 0..6 : Weighted(GeneratedSpec.scenarios, d) = s}) = s.weight
<1>. DEFINE spec == GeneratedSpec
            ss == spec.scenarios
<1>1. spec = PlantedSpec(EventsIs, input.products) /\ input.products \in 1..2
  BY DEF GeneratedSpec, EventsIs, Generations
<1>. HIDE DEF spec
<1>2. AreChoices(ss, 5) /\ UpTo(ss, 5) = 7 /\ \A i, j \in 1..5 : ss[i] = ss[j] => i = j BY <1>1, PlantedIs
<1>3. DOMAIN ss = 1..5 BY <1>2 DEF AreChoices
<1>. HIDE DEF ss
<1>4. \A i \in 1..5 : Cardinality({d \in 0..(UpTo(ss, 5) - 1) : Weighted(ss, d) = ss[i]}) = ss[i].weight
  BY <1>2, WeightsAreShares
<1>5. 0..(UpTo(ss, 5) - 1) = 0..6 BY <1>2
<1>6. \A i \in 1..5 : Cardinality({d \in 0..6 : Weighted(ss, d) = ss[i]}) = ss[i].weight BY <1>4, <1>5
<1>. QED BY <1>3, <1>6 DEF Range, ss, spec

(* The records that were made, by position.                                 *)
LEMMA MadeIs ==
    ASSUME input \in Generations, SpecLoads(GeneratedSpec, SpecDays)
    PROVE  /\ DOMAIN Made = 1..input.count /\ DOMAIN MadeRecords = 1..input.count
           /\ \A i \in 1..input.count : Made[i] = <<>> => input.products = 1 /\ input.second = 1
           /\ AllMade => \A i \in 1..input.count :
                 /\ MadeRecords[i].id = i - 1 /\ MadeRecords[i].day = DayOfRecord(i)
                 /\ RecordFollows(MadeRecords[i], GeneratedSpec, input.products, 5, 2)
<1>1. DOMAIN Made = 1..input.count /\ DOMAIN MadeRecords = 1..input.count BY DEF Made, MadeRecords
<1>2. \A i \in 1..input.count : Made[i] = GeneratedRecord(i) BY DEF Made, GeneratedRecord
<1>3. \A i \in 1..input.count : MadeRecords[i] = Made[i][1] BY <1>1 DEF MadeRecords
<1>4. ASSUME NEW i \in 1..input.count
      PROVE  \/ Made[i] = <<>> /\ input.products = 1 /\ input.second = 1
             \/ \E r : /\ Made[i] = <<r>> /\ r.id = i - 1 /\ r.day = DayOfRecord(i)
                       /\ RecordFollows(r, GeneratedSpec, input.products, 5, 2)
  BY <1>2, GeneratedRecordIs
<1>5. ASSUME AllMade, NEW i \in 1..input.count
      PROVE  /\ MadeRecords[i].id = i - 1 /\ MadeRecords[i].day = DayOfRecord(i)
             /\ RecordFollows(MadeRecords[i], GeneratedSpec, input.products, 5, 2)
  <2>1. Made[i] # <<>> BY <1>1, <1>5 DEF AllMade
  <2>2. PICK r : /\ Made[i] = <<r>> /\ r.id = i - 1 /\ r.day = DayOfRecord(i)
                 /\ RecordFollows(r, GeneratedSpec, input.products, 5, 2)
    BY <1>4, <2>1
  <2>3. MadeRecords[i] = r BY <1>3, <2>2
  <2>. QED BY <2>2, <2>3
<1>6. ASSUME NEW i \in 1..input.count, Made[i] = <<>> PROVE input.products = 1 /\ input.second = 1
  <2>1. \A r : Made[i] # <<r>> BY <1>6
  <2>. QED BY <1>4, <2>1
<1>. QED BY <1>1, <1>5, <1>6

(* The days of the records.                                                 *)
LEMMA DaysOfRecords ==
    ASSUME input \in Generations, SpecLoads(GeneratedSpec, SpecDays)
    PROVE  LET n == input.count
           IN  /\ DayOfRecord(1) = 0 /\ DayOfRecord(n) = IF n > 1 THEN SpecDays - 1 ELSE 0
               /\ \A i \in 1..n : DayOfRecord(i) \in 0..(SpecDays - 1)
               /\ \A i, j \in 1..n : i <= j => DayOfRecord(i) <= DayOfRecord(j)
               /\ n >= SpecDays => \A d \in 0..(SpecDays - 1) : \E i \in 1..n : DayOfRecord(i) = d
<1>. DEFINE n == input.count
            days == SpecDays
            D0(i) == Day(i, n, days)
<1>1. n \in Nat /\ n > 0 /\ days \in Nat /\ days > 0
  <2>1. n \in Nat \ {0} /\ days \in Nat \ {0} BY GenerationIs
  <2>. HIDE DEF n, days
  <2>. QED BY <2>1
<1>2. \A i : DayOfRecord(i) = D0(i - 1) BY DEF DayOfRecord
<1>. HIDE DEF n, days
<1>3. /\ D0(0) = 0 /\ (n > 1 => D0(n - 1) = days - 1)
      /\ \A i \in 0..(n - 1) : D0(i) \in 0..(days - 1)
      /\ \A i, j \in 0..(n - 1) : i <= j => D0(i) <= D0(j)
      /\ n >= days => \A d \in 0..(days - 1) : \E i \in 0..(n - 1) : D0(i) = d
  BY <1>1, DaysAreCovered
<1>. HIDE DEF D0
<1>4. \A i \in 1..n : i - 1 \in 0..(n - 1) BY <1>1
<1>5. DayOfRecord(1) = 0 BY <1>2, <1>3
<1>6. DayOfRecord(n) = IF n > 1 THEN days - 1 ELSE 0
  <2>1. CASE n > 1 BY <1>2, <1>3, <2>1
  <2>2. CASE ~(n > 1)
    <3>1. n = 1 BY <1>1, <2>2
    <3>. QED BY <1>5, <3>1
  <2>. QED BY <2>1, <2>2
<1>7. \A i \in 1..n : DayOfRecord(i) \in 0..(days - 1) BY <1>2, <1>3, <1>4
<1>8. \A i, j \in 1..n : i <= j => DayOfRecord(i) <= DayOfRecord(j)
  <2>. SUFFICES ASSUME NEW i \in 1..n, NEW j \in 1..n, i <= j PROVE D0(i - 1) <= D0(j - 1) BY <1>2
  <2>1. i - 1 <= j - 1 BY <1>1
  <2>. QED BY <1>3, <1>4, <2>1
<1>9. ASSUME n >= days, NEW d \in 0..(days - 1) PROVE \E i \in 1..n : DayOfRecord(i) = d
  <2>1. PICK i \in 0..(n - 1) : D0(i) = d BY <1>3, <1>9
  <2>2. i + 1 \in 1..n /\ (i + 1) - 1 = i BY <1>1
  <2>. QED BY <1>2, <2>1, <2>2
<1>. QED BY <1>5, <1>6, <1>7, <1>8, <1>9 DEF n, days

(* The events of the manifest.                                              *)
LEMMA EventsOfManifest ==
    ASSUME input \in Generations, SpecLoads(GeneratedSpec, SpecDays), AllMade, NEW e \in Range(MadeManifest.events)
    PROVE  LET of == {r \in Range(MadeRecords) : r.provenance.event = <<e.id>>}
           IN  /\ e.affected = Cardinality(of)
               /\ e.end # <<>> => e.end[1] < SpecDays
               /\ \A r \in of : /\ e.start <= r.day /\ (e.end # <<>> => r.day <= e.end[1])
                                /\ r.channel = "delivery_survey" /\ r.context # <<>>
                                /\ e.id = "a" => r.products[1].id = 1
<1>. DEFINE n == input.count
            spec == GeneratedSpec
            records == MadeRecords
            es == spec.events
<1>1. /\ n \in Nat /\ n > 0 /\ 1 \in 1..n /\ n \in 1..n /\ SpecDays \in Nat /\ DOMAIN es = 1..2
      /\ \A j \in 1..2 : es[j].start \in 0..(SpecDays - 1)
      /\ \A j \in 1..2 : es[j].duration # <<>> =>
            es[j].duration[1] \in Nat /\ es[j].start + es[j].duration[1] <= SpecDays
  BY GenerationIs DEF SpecIsTyped
<1>2. /\ DOMAIN records = 1..n
      /\ \A i \in 1..n : /\ records[i].id = i - 1 /\ records[i].day = DayOfRecord(i)
                         /\ RecordFollows(records[i], spec, input.products, 5, 2)
  BY MadeIs
<1>3. \A i \in 1..n : records[i].day \in Nat BY <1>1, <1>2, DaysOfRecords, SMTT(30)
<1>4. \A i, j \in 1..n : records[i] = records[j] => i = j
  <2>. SUFFICES ASSUME NEW i \in 1..n, NEW j \in 1..n, records[i] = records[j] PROVE i = j OBVIOUS
  <2>1. i - 1 = j - 1 BY <1>2
  <2>. QED BY <1>1, <2>1
<1>5. \A i \in 1..n : records[1].day <= records[i].day /\ records[i].day <= records[n].day
  <2>1. \A i \in 1..n : DayOfRecord(1) <= DayOfRecord(i) /\ DayOfRecord(i) <= DayOfRecord(n)
    BY <1>1, DaysOfRecords
  <2>. QED BY <1>1, <1>2, <2>1
<1>6. /\ DOMAIN MadeManifest.events = 1..2
      /\ \A i \in 1..2 :
            /\ MadeManifest.events[i].id = es[i].id /\ MadeManifest.events[i].start = es[i].start
            /\ MadeManifest.events[i].end =
                  IF es[i].duration = <<>> THEN <<>> ELSE <<es[i].start + es[i].duration[1] - 1>>
            /\ MadeManifest.events[i].affected
                  = Cardinality({r \in Range(records) : r.provenance.event = <<es[i].id>>})
  <2>1. InOrder(records, n) BY <1>1, <1>2, <1>3, <1>4, <1>5 DEF InOrder, Apart
  <2>2. n \in Nat /\ n > 0 /\ 2 \in Nat /\ DOMAIN spec.events = 1..2 BY <1>1
  <2>. HIDE DEF n, spec, records
  <2>3. ManifestSays(Manifest(spec, records), spec, 2, records, n) BY <2>1, <2>2, ManifestIs
  <2>. QED BY <2>3 DEF ManifestSays, MadeManifest, spec, records
<1>7. PICK j \in 1..2 : e = MadeManifest.events[j] BY <1>6 DEF Range
<1>. DEFINE x == es[j]
            of == {r \in Range(records) : r.provenance.event = <<x.id>>}
<1>8. /\ e.id = x.id /\ e.start = x.start /\ e.affected = Cardinality(of)
      /\ e.end = IF x.duration = <<>> THEN <<>> ELSE <<x.start + x.duration[1] - 1>>
  BY <1>6, <1>7
<1>9. x.start \in Nat /\ (x.duration # <<>> => x.duration[1] \in Nat /\ x.start + x.duration[1] <= SpecDays)
  BY <1>1
<1>10. ASSUME NEW r \in of
       PROVE  /\ ActiveOn(x, r.day) /\ r.day \in Nat
              /\ r.channel = "delivery_survey" /\ r.context # <<>>
              /\ x.id = "a" => r.products[1].id = 1
  <2>1. PICK i \in 1..n : r = records[i] BY <1>2 DEF Range
  <2>2. RecordFollows(r, spec, input.products, 5, 2) /\ r.day \in Nat BY <1>2, <1>3, <2>1
  <2>3. r.provenance.event = <<x.id>> OBVIOUS
  <2>. QED BY <2>2, <2>3, EventOfRecord
<1>. HIDE DEF x, of
<1>11. e.end # <<>> => e.end = <<x.start + x.duration[1] - 1>> /\ x.duration # <<>> BY <1>8
<1>12. e.end # <<>> => e.end[1] = x.start + x.duration[1] - 1 BY <1>11
<1>13. e.end # <<>> => e.end[1] < SpecDays BY <1>1, <1>9, <1>11, <1>12, SMTT(30)
<1>14. ASSUME NEW r \in of
       PROVE  e.start <= r.day /\ (e.end # <<>> => r.day <= e.end[1])
  <2>1. x.start <= r.day /\ (x.duration = <<>> \/ r.day < x.start + x.duration[1]) /\ r.day \in Nat
    BY <1>10 DEF ActiveOn
  <2>2. e.start <= r.day BY <1>8, <2>1
  <2>3. e.end # <<>> => r.day <= e.end[1] BY <1>9, <1>11, <1>12, <2>1
  <2>. QED BY <2>2, <2>3
<1>15. {r \in Range(MadeRecords) : r.provenance.event = <<e.id>>} = of BY <1>8 DEF of
<1>16. \A r \in of : /\ e.start <= r.day /\ (e.end # <<>> => r.day <= e.end[1])
                     /\ r.channel = "delivery_survey" /\ r.context # <<>>
                     /\ e.id = "a" => r.products[1].id = 1
  BY <1>8, <1>10, <1>14
<1>. QED BY <1>8, <1>13, <1>15, <1>16

(* What the run checks of a generation.                                     *)
LEMMA GenerationsAreConsistent ==
    ASSUME input \in Generations PROVE GeneratedIsConsistent
<1>. SUFFICES ASSUME SpecLoads(GeneratedSpec, SpecDays)
              PROVE  GeneratedIsConsistent
  BY Zenon DEF GeneratedIsConsistent
<1>. DEFINE failed == {i \in DOMAIN Made : Made[i] = <<>>}
            n == input.count
<1>1. failed # {} => input.products = 1 /\ input.second = 1 BY MadeIs
<1>2. failed = {} => AllMade BY DEF AllMade
<1>3. n \in Nat /\ n > 0 /\ SpecDays \in Nat /\ SpecDays > 0
  <2>1. n \in Nat \ {0} /\ SpecDays \in Nat \ {0} BY GenerationIs
  <2>. HIDE DEF n
  <2>. QED BY <2>1
<1>4. ASSUME AllMade
      PROVE  /\ MadeManifest.start = 0 /\ (input.count > 1 => MadeManifest.end = SpecDays - 1)
             /\ \A i, j \in DOMAIN MadeRecords : i <= j => MadeRecords[i].day <= MadeRecords[j].day
             /\ input.count >= SpecDays => {r.day : r \in Range(MadeRecords)} = 0..(SpecDays - 1)
             /\ \A r \in Range(MadeRecords) : r.context # <<>> =>
                   LET c == r.context[1]
                   IN  /\ c.purchased < c.delivered /\ c.purchased < c.expected
                       /\ c.delta = c.delivered - c.expected
                       /\ c.price = SumFunction([i \in DOMAIN r.products |->
                                                  10 * r.products[i].id * r.products[i].quantity])
  <2>1. /\ DOMAIN MadeRecords = 1..n
        /\ \A i \in 1..n : /\ MadeRecords[i].day = DayOfRecord(i) /\ MadeRecords[i].id = i - 1
                           /\ RecordFollows(MadeRecords[i], GeneratedSpec, input.products, 5, 2)
    BY <1>4, MadeIs
  <2>2. /\ DayOfRecord(1) = 0 /\ DayOfRecord(n) = IF n > 1 THEN SpecDays - 1 ELSE 0
        /\ \A i \in 1..n : DayOfRecord(i) \in 0..(SpecDays - 1)
        /\ \A i, j \in 1..n : i <= j => DayOfRecord(i) <= DayOfRecord(j)
        /\ n >= SpecDays => \A d \in 0..(SpecDays - 1) : \E i \in 1..n : DayOfRecord(i) = d
    BY DaysOfRecords
  <2>3. Range(MadeRecords) = {MadeRecords[i] : i \in 1..n} BY <2>1 DEF Range
  <2>4. \A i, j \in 1..n : i <= j => MadeRecords[i].day <= MadeRecords[j].day BY <2>1, <2>2
  <2>5. n >= SpecDays => {r.day : r \in Range(MadeRecords)} = 0..(SpecDays - 1)
    <3>1. {r.day : r \in Range(MadeRecords)} = {DayOfRecord(i) : i \in 1..n} BY <2>1, <2>3
    <3>. QED BY <2>2, <3>1, SMTT(30)
  <2>6. MadeManifest.start = 0 /\ (n > 1 => MadeManifest.end = SpecDays - 1)
    <3>1. MadeManifest.start = DayOfRecord(1) /\ MadeManifest.end = DayOfRecord(n)
      <4>. DEFINE spec == GeneratedSpec
                  records == MadeRecords
      <4>1. 1 \in 1..n /\ n \in 1..n /\ 2 \in Nat BY <1>3
      <4>2. DOMAIN spec.events = 1..2 BY GenerationIs DEF SpecIsTyped
      <4>3. \A i \in 1..n : records[i].day \in Nat BY <2>1, <2>2
      <4>4. \A i, j \in 1..n : records[i] = records[j] => i = j
        <5>. SUFFICES ASSUME NEW i \in 1..n, NEW j \in 1..n, records[i] = records[j] PROVE i = j OBVIOUS
        <5>1. i - 1 = j - 1 BY <2>1
        <5>. QED BY <1>3, <5>1
      <4>5. \A i \in 1..n : records[1].day <= records[i].day /\ records[i].day <= records[n].day
        BY <1>3, <2>4, <4>1
      <4>6. DOMAIN records = 1..n BY <2>1
      <4>. HIDE DEF n, spec, records
      <4>7. MadeManifest.start = records[1].day /\ MadeManifest.end = records[n].day
        <5>1. InOrder(records, n) BY <4>3, <4>4, <4>5, <4>6 DEF InOrder, Apart
        <5>2. ManifestSays(Manifest(spec, records), spec, 2, records, n) BY <1>3, <4>1, <4>2, <5>1, ManifestIs
        <5>. QED BY <5>2 DEF ManifestSays, MadeManifest, spec, records
      <4>. QED BY <2>1, <4>1, <4>7 DEF records
    <3>. QED BY <2>2, <3>1
  <2>7. \A r \in Range(MadeRecords) : RecordFollows(r, GeneratedSpec, input.products, 5, 2) BY <2>1, <2>3
  <2>8. \A r \in Range(MadeRecords) : r.context # <<>> =>
            /\ r.context[1].purchased < r.context[1].delivered /\ r.context[1].purchased < r.context[1].expected
            /\ r.context[1].delta = r.context[1].delivered - r.context[1].expected
            /\ r.context[1].price = SumFunction([i \in DOMAIN r.products |->
                                                     10 * r.products[i].id * r.products[i].quantity])
    BY <2>7, ContextOfRecord
  <2>. QED BY <2>1, <2>4, <2>5, <2>6, <2>8
<1>5. ASSUME AllMade, NEW e \in Range(MadeManifest.events)
      PROVE  LET of == {r \in Range(MadeRecords) : r.provenance.event = <<e.id>>}
             IN  /\ e.affected = Cardinality(of)
                 /\ e.end # <<>> => e.end[1] < SpecDays
                 /\ \A r \in of : /\ e.start <= r.day /\ (e.end # <<>> => r.day <= e.end[1])
                                  /\ r.channel = "delivery_survey" /\ r.context # <<>>
                                  /\ e.id = "a" => r.products[1].id = 1
  BY <1>5, EventsOfManifest
<1>6. \A s \in Range(GeneratedSpec.scenarios) :
          Cardinality({d \in 0..6 : Weighted(GeneratedSpec.scenarios, d) = s}) = s.weight
  BY ScenariosAreShared
<1>7. failed = {} =>
         /\ MadeManifest.start = 0 /\ (input.count > 1 => MadeManifest.end = SpecDays - 1)
         /\ \A i, j \in DOMAIN MadeRecords : i <= j => MadeRecords[i].day <= MadeRecords[j].day
         /\ input.count >= SpecDays => {r.day : r \in Range(MadeRecords)} = 0..(SpecDays - 1)
         /\ \A e \in Range(MadeManifest.events) :
               LET of == {r \in Range(MadeRecords) : r.provenance.event = <<e.id>>}
               IN  /\ e.affected = Cardinality(of)
                   /\ e.end # <<>> => e.end[1] < SpecDays
                   /\ \A r \in of : /\ e.start <= r.day /\ (e.end # <<>> => r.day <= e.end[1])
                                    /\ r.channel = "delivery_survey" /\ r.context # <<>>
                                    /\ e.id = "a" => r.products[1].id = 1
         /\ \A r \in Range(MadeRecords) : r.context # <<>> =>
               LET c == r.context[1]
               IN  /\ c.purchased < c.delivered /\ c.purchased < c.expected
                   /\ c.delta = c.delivered - c.expected
                   /\ c.price = SumFunction([i \in DOMAIN r.products |->
                                              10 * r.products[i].id * r.products[i].quantity])
  <2>. HIDE DEF failed
  <2>. QED BY <1>2, <1>4, <1>5
<1>. QED BY <1>1, <1>6, <1>7, Zenon DEF GeneratedIsConsistent, Made, MadeRecords, MadeManifest

(* The generator, for every number of days of the specification: the records*)
(* of one that loads cover its days in order, those of an event are on the  *)
(* days that the manifest says and as many, orders add up, and each scenario*)
(* is drawn as often as its weight; only a second product that does not     *)
(* exist makes it fail, the wording of templates aside (generate,           *)
(* _manifest).                                                              *)
THEOREM GeneratedConsistent == Spec => []GeneratedIsConsistent
<1>1. ASSUME Init PROVE GeneratedIsConsistent
  <2>1. CASE input.kind = "generated" BY <1>1, <2>1, InputKind, GenerationsAreConsistent
  <2>2. CASE input.kind # "generated" BY Zenon, <2>2 DEF GeneratedIsConsistent
  <2>. QED BY <2>1, <2>2
<1>. QED BY <1>1, InputStays, PTL

-----------------------------------------------------------------------------
(* Scores: requests, failures and measures                                 *)

(* Fractions that are not above others have a sum that is not.             *)
LEMMA PlusAtMost ==
    ASSUME NEW p \in Fraction, NEW q \in Fraction, AtMost(p, q), NEW r \in Fraction, NEW t \in Fraction, AtMost(r, t)
    PROVE  AtMost(Plus(p, r), Plus(q, t))
<1>. DEFINE p1 == p[1]
            p2 == p[2]
            q1 == q[1]
            q2 == q[2]
            r1 == r[1]
            r2 == r[2]
            t1 == t[1]
            t2 == t[2]
<1>1. p1 \in Nat /\ p2 \in Nat /\ q1 \in Nat /\ q2 \in Nat /\ r1 \in Nat /\ r2 \in Nat /\ t1 \in Nat /\ t2 \in Nat
  BY DEF Fraction
<1>2. p1 * q2 <= q1 * p2 /\ r1 * t2 <= t1 * r2 BY DEF AtMost
<1>3. /\ Plus(p, r)[1] = p1 * r2 + r1 * p2 /\ Plus(p, r)[2] = p2 * r2
      /\ Plus(q, t)[1] = q1 * t2 + t1 * q2 /\ Plus(q, t)[2] = q2 * t2
  BY DEF Plus
<1>. HIDE DEF p1, p2, q1, q2, r1, r2, t1, t2
<1>4. (p1 * q2) * (r2 * t2) <= (q1 * p2) * (r2 * t2)
  <2>1. p1 * q2 \in Int /\ q1 * p2 \in Int /\ r2 * t2 \in Nat BY <1>1
  <2>. QED BY <1>2, <2>1, Times
<1>5. (r1 * t2) * (p2 * q2) <= (t1 * r2) * (p2 * q2)
  <2>1. r1 * t2 \in Int /\ t1 * r2 \in Int /\ p2 * q2 \in Nat BY <1>1
  <2>. QED BY <1>2, <2>1, Times
<1>6. (p1 * r2 + r1 * p2) * (q2 * t2) = (p1 * q2) * (r2 * t2) + (r1 * t2) * (p2 * q2) BY <1>1
<1>7. (q1 * t2 + t1 * q2) * (p2 * r2) = (q1 * p2) * (r2 * t2) + (t1 * r2) * (p2 * q2) BY <1>1
<1>8. (p1 * r2 + r1 * p2) * (q2 * t2) <= (q1 * t2 + t1 * q2) * (p2 * r2)
  <2>1. /\ (p1 * q2) * (r2 * t2) \in Int /\ (q1 * p2) * (r2 * t2) \in Int
        /\ (r1 * t2) * (p2 * q2) \in Int /\ (t1 * r2) * (p2 * q2) \in Int
    BY <1>1
  <2>. QED BY <1>4, <1>5, <1>6, <1>7, <2>1
<1>. QED BY <1>3, <1>8 DEF AtMost

(* A sum of fractions that are at most others is at most the sum of these. *)
LEMMA FractionSumAtMost ==
    ASSUME NEW X, IsFiniteSet(X), NEW f, NEW h, DOMAIN f = X, DOMAIN h = X,
           \A x \in X : f[x] \in Fraction /\ h[x] \in Fraction /\ AtMost(f[x], h[x])
    PROVE  AtMost(Sum(f), Sum(h))
<1>1. PICK a : IsFractionSum(a, f, X) /\ Sum(f) = a[X] BY FractionSum
<1>2. PICK b : IsFractionSum(b, h, X) /\ Sum(h) = b[X] BY FractionSum
<1>. DEFINE Q == {s \in SUBSET X : AtMost(a[s], b[s])}
<1>3. {} \in Q
  <2>1. a[{}] = <<0, 1>> /\ b[{}] = <<0, 1>> BY <1>1, <1>2 DEF IsFractionSum
  <2>. QED BY <2>1 DEF AtMost
<1>4. ASSUME NEW s \in SUBSET X, s # {}, \A x \in s : s \ {x} \in Q PROVE s \in Q
  <2>. DEFINE x == AnyOf(s)
              u == s \ {x}
  <2>1. x \in s BY <1>4 DEF AnyOf
  <2>2. u \in SUBSET X /\ AtMost(a[u], b[u]) BY <1>4, <2>1
  <2>3. a[s] = Plus(f[x], a[u]) /\ a[u] \in Fraction BY <1>1, <1>4, <2>2 DEF IsFractionSum
  <2>4. b[s] = Plus(h[x], b[u]) /\ b[u] \in Fraction BY <1>2, <1>4, <2>2 DEF IsFractionSum
  <2>5. f[x] \in Fraction /\ h[x] \in Fraction /\ AtMost(f[x], h[x]) BY <2>1
  <2>. HIDE DEF x, u
  <2>6. AtMost(a[s], b[s]) BY <2>2, <2>3, <2>4, <2>5, PlusAtMost
  <2>. QED BY <2>6
<1>5. SUBSET X \subseteq Q
  <2>. HIDE DEF Q
  <2>. QED BY <1>3, <1>4, SubsetInduction
<1>. QED BY <1>1, <1>2, <1>5

(* A share grows when it gains a row that counts, or counts one more of as *)
(* many.                                                                   *)
LEMMA SharesGrow ==
    ASSUME NEW tp \in Nat, NEW fp \in Nat, NEW fn \in Nat, fn > 0
    PROVE  /\ AtMost(Share(tp, tp + fn), Share(tp + 1, (tp + 1) + (fn - 1)))
           /\ AtMost(Share(tp, tp + fp), Share(tp + 1, (tp + 1) + fp))
           /\ AtMost(Share(2 * tp, 2 * tp + fp + fn), Share(2 * (tp + 1), 2 * (tp + 1) + fp + (fn - 1)))
<1>1. \A a, d, b, e \in Nat : (e # 0 /\ (d = 0 \/ a * e <= b * d)) => AtMost(Share(a, d), Share(b, e))
  <2>. SUFFICES ASSUME NEW a \in Nat, NEW d \in Nat, NEW b \in Nat, NEW e \in Nat, e # 0, d = 0 \/ a * e <= b * d
                PROVE  AtMost(Share(a, d), Share(b, e))
    OBVIOUS
  <2>1. CASE d = 0
    <3>1. 0 * e <= b * 1 OBVIOUS
    <3>2. Share(a, d) = <<0, 1>> /\ Share(b, e) = <<b, e>> BY <2>1 DEF Share
    <3>. QED BY <3>1, <3>2 DEF AtMost
  <2>2. CASE d # 0
    <3>1. Share(a, d) = <<a, d>> /\ Share(b, e) = <<b, e>> BY <2>2 DEF Share
    <3>2. a * e <= b * d BY <2>2
    <3>. QED BY <3>1, <3>2 DEF AtMost
  <2>. QED BY <2>1, <2>2
<1>2. AtMost(Share(tp, tp + fn), Share(tp + 1, (tp + 1) + (fn - 1)))
  <2>1. (tp + 1) + (fn - 1) = tp + fn OBVIOUS
  <2>2. tp * (tp + fn) <= (tp + 1) * (tp + fn) OBVIOUS
  <2>. QED BY <1>1, <2>1, <2>2
<1>3. AtMost(Share(tp, tp + fp), Share(tp + 1, (tp + 1) + fp))
  <2>1. tp * ((tp + 1) + fp) = tp * (tp + fp) + tp OBVIOUS
  <2>2. (tp + 1) * (tp + fp) = tp * (tp + fp) + (tp + fp) OBVIOUS
  <2>3. tp * (tp + fp) \in Nat OBVIOUS
  <2>4. tp * ((tp + 1) + fp) <= (tp + 1) * (tp + fp) BY <2>1, <2>2, <2>3
  <2>. QED BY <1>1, <2>4
<1>4. AtMost(Share(2 * tp, 2 * tp + fp + fn), Share(2 * (tp + 1), 2 * (tp + 1) + fp + (fn - 1)))
  <2>. DEFINE a == 2 * tp
              d == a + fp + fn
              e == 2 * (tp + 1) + fp + (fn - 1)
              b == 2 * (tp + 1)
  <2>1. a \in Nat /\ d \in Nat /\ b \in Nat /\ e \in Nat /\ e = d + 1 /\ b = a + 2 /\ a <= d OBVIOUS
  <2>. HIDE DEF a, d, e, b
  <2>2. a * e = a * d + a BY <2>1
  <2>3. b * d = a * d + 2 * d BY <2>1
  <2>4. a * d \in Nat BY <2>1
  <2>5. a * e <= b * d BY <2>1, <2>2, <2>3, <2>4
  <2>6. AtMost(Share(a, d), Share(b, e)) BY <1>1, <2>1, <2>5
  <2>. QED BY <2>6 DEF a, b, d, e
<1>. QED BY <1>2, <1>3, <1>4

(* Every fraction is at most itself.                                       *)
LEMMA AtMostItself == ASSUME NEW p \in Fraction PROVE AtMost(p, p)
<1>1. p[1] \in Nat /\ p[2] \in Nat BY DEF Fraction
<1>2. \A a, b \in Nat : a * b <= a * b OBVIOUS
<1>. QED BY <1>1, <1>2 DEF AtMost

(* No measure of a class is below the one it had.                          *)
NotBelow(r, q) == AtMost(r.recall, q.recall) /\ AtMost(r.precision, q.precision) /\ AtMost(r.f1, q.f1)

(* An answer in the place of a failure leaves the measures of a class as   *)
(* they were or higher: the right one those of its class, any answer those *)
(* of the classes that it does not name (_classification).                 *)
LEMMA AnswerRaises ==
    ASSUME NEW truth, NEW said, NEW X, AreLabelled(truth, said, X), NEW i \in X, said[i] = <<>>,
           NEW c, NEW d, d = c => c = truth[i]
    PROVE  NotBelow(PerClass(truth, said, d), PerClass(truth, [said EXCEPT ![i] = <<c>>], d))
<1>. DEFINE other == [said EXCEPT ![i] = <<c>>]
            r == PerClass(truth, said, d)
            q == PerClass(truth, other, d)
            a == Cells(truth, said, d)
            b == Cells(truth, other, d)
<1>1. AreLabelled(truth, other, X) BY DEF AreLabelled
<1>2. d = c => FoundOneMore(a, b) BY RightCells
<1>3. d # c => q = r BY OtherCells
<1>. HIDE DEF other, a, b, r, q
<1>4. /\ a.tp \in Nat /\ a.fp \in Nat /\ a.fn \in Nat
      /\ r.recall = Share(a.tp, a.tp + a.fn) /\ r.precision = Share(a.tp, a.tp + a.fp)
      /\ r.f1 = Share(2 * a.tp, 2 * a.tp + a.fp + a.fn)
  BY PerClassIs DEF a, r
<1>5. /\ q.recall = Share(b.tp, b.tp + b.fn) /\ q.precision = Share(b.tp, b.tp + b.fp)
      /\ q.f1 = Share(2 * b.tp, 2 * b.tp + b.fp + b.fn)
  BY <1>1, PerClassIs DEF b, q
<1>6. CASE d = c
  <2>. DEFINE tp == a.tp
              fp == a.fp
              fn == a.fn
  <2>1. tp \in Nat /\ fp \in Nat /\ fn \in Nat /\ fn > 0 BY <1>2, <1>4, <1>6 DEF FoundOneMore
  <2>2. b.tp = tp + 1 /\ b.fp = fp /\ b.fn = fn - 1 BY <1>2, <1>6 DEF FoundOneMore
  <2>3. r.recall = Share(tp, tp + fn) /\ q.recall = Share(tp + 1, (tp + 1) + (fn - 1)) BY <1>4, <1>5, <2>2
  <2>4. r.precision = Share(tp, tp + fp) /\ q.precision = Share(tp + 1, (tp + 1) + fp) BY <1>4, <1>5, <2>2
  <2>5. r.f1 = Share(2 * tp, 2 * tp + fp + fn) /\ q.f1 = Share(2 * (tp + 1), 2 * (tp + 1) + fp + (fn - 1)) BY <1>4, <1>5, <2>2
  <2>. HIDE DEF tp, fp, fn
  <2>6. /\ AtMost(Share(tp, tp + fn), Share(tp + 1, (tp + 1) + (fn - 1)))
        /\ AtMost(Share(tp, tp + fp), Share(tp + 1, (tp + 1) + fp))
        /\ AtMost(Share(2 * tp, 2 * tp + fp + fn), Share(2 * (tp + 1), 2 * (tp + 1) + fp + (fn - 1)))
    BY <2>1, SharesGrow
  <2>7. NotBelow(r, q) BY Zenon, <2>3, <2>4, <2>5, <2>6 DEF NotBelow
  <2>. QED BY <2>7 DEF r, q, other
<1>7. CASE d # c
  <2>. DEFINE tp == a.tp
              fp == a.fp
              fn == a.fn
  <2>1. tp \in Nat /\ fp \in Nat /\ fn \in Nat BY <1>4
  <2>2. r.recall = Share(tp, tp + fn) /\ r.precision = Share(tp, tp + fp) /\ r.f1 = Share(2 * tp, 2 * tp + fp + fn) BY <1>4
  <2>. HIDE DEF tp, fp, fn
  <2>3. tp + fn \in Nat /\ tp + fp \in Nat /\ 2 * tp \in Nat /\ 2 * tp + fp + fn \in Nat BY <2>1
  <2>4. r.recall \in Fraction /\ r.precision \in Fraction /\ r.f1 \in Fraction BY <2>1, <2>2, <2>3, ShareType
  <2>5. NotBelow(r, r) BY <2>4, AtMostItself DEF NotBelow
  <2>. QED BY <1>3, <1>7, <2>5 DEF r, q, other
<1>. QED BY <1>6, <1>7

(* In any classification, of any number of rows and classes, an answer in  *)
(* the place of a failure leaves the accuracy and the recall of the right  *)
(* class at least as they were, and the right answer every measure         *)
(* (_classification).                                                      *)
THEOREM FailuresDoNotHelp ==
    ASSUME NEW truth, NEW said, NEW X, AreLabelled(truth, said, X), NEW K, IsFiniteSet(K), \A j \in X : truth[j] \in K,
           NEW i \in X, said[i] = <<>>, NEW c,
           NEW now, now = Classification(truth, said, K),
           NEW next, next = Classification(truth, [said EXCEPT ![i] = <<c>>], K)
    PROVE  /\ AtMost(now.accuracy, next.accuracy)
           /\ AtMost(now.perClass[truth[i]].recall, next.perClass[truth[i]].recall)
           /\ c = truth[i] => /\ AtMost(now.macro, next.macro)
                              /\ \A d \in K : NotBelow(now.perClass[d], next.perClass[d])
<1>. DEFINE other == [said EXCEPT ![i] = <<c>>]
            f == [d \in K |-> PerClass(truth, said, d).f1]
            h == [d \in K |-> PerClass(truth, other, d).f1]
            A == Correct(truth, said)
            B == Correct(truth, other)
            n == Cardinality(X)
<1>1. AreLabelled(truth, other, X) BY DEF AreLabelled
<1>2. \A d : (d = c => c = truth[i]) => NotBelow(PerClass(truth, said, d), PerClass(truth, other, d)) BY AnswerRaises
<1>3. A \subseteq B /\ B \subseteq X BY DEF Correct, Answered, AreLabelled, Nothing
<1>. HIDE DEF other, A, B
<1>4. /\ now.accuracy = <<Cardinality(A), n>> /\ now.macro = Sum(f)
      /\ \A d \in K : now.perClass[d] = PerClass(truth, said, d)
  <2>1. IsReport(now, truth, said, K) BY Zenon, ClassificationIs
  <2>. QED BY Zenon, <2>1 DEF IsReport, AreLabelled, A
<1>5. /\ next.accuracy = <<Cardinality(B), n>> /\ next.macro = Sum(h)
      /\ \A d \in K : next.perClass[d] = PerClass(truth, other, d)
  <2>1. IsReport(next, truth, other, K) BY Zenon, ClassificationIs DEF other
  <2>. QED BY Zenon, <1>1, <2>1 DEF IsReport, AreLabelled, B
<1>. HIDE DEF f, h
<1>6. AtMost(now.accuracy, next.accuracy)
  <2>1. IsFiniteSet(X) /\ IsFiniteSet(B) BY <1>3, FS_Subset DEF AreLabelled
  <2>2. n \in Nat /\ Cardinality(B) \in Nat /\ Cardinality(A) \in Nat /\ Cardinality(A) <= Cardinality(B)
    BY <1>3, <2>1, FS_Subset, FS_CardinalityType
  <2>. HIDE DEF n
  <2>3. Cardinality(A) * n <= Cardinality(B) * n BY <2>2, Times
  <2>4. AtMost(<<Cardinality(A), n>>, <<Cardinality(B), n>>) BY <2>3 DEF AtMost
  <2>. QED BY Zenon, <1>4, <1>5, <2>4
<1>7. AtMost(now.perClass[truth[i]].recall, next.perClass[truth[i]].recall)
  <2>1. NotBelow(PerClass(truth, said, truth[i]), PerClass(truth, other, truth[i])) BY <1>2
  <2>. QED BY <1>4, <1>5, <2>1 DEF NotBelow
<1>8. ASSUME c = truth[i]
      PROVE  AtMost(now.macro, next.macro) /\ \A d \in K : NotBelow(now.perClass[d], next.perClass[d])
  <2>1. \A d : NotBelow(PerClass(truth, said, d), PerClass(truth, other, d)) BY <1>2, <1>8
  <2>2. \A d \in K : f[d] = PerClass(truth, said, d).f1 /\ h[d] = PerClass(truth, other, d).f1 BY DEF f, h
  <2>3. \A d : PerClass(truth, said, d).f1 \in Fraction BY PerClassIs
  <2>4. \A d : PerClass(truth, other, d).f1 \in Fraction BY <1>1, PerClassIs
  <2>5. \A d \in K : f[d] \in Fraction /\ h[d] \in Fraction /\ AtMost(f[d], h[d]) BY <2>1, <2>2, <2>3, <2>4 DEF NotBelow
  <2>6. DOMAIN f = K /\ DOMAIN h = K BY DEF f, h
  <2>7. AtMost(Sum(f), Sum(h)) BY <2>5, <2>6, FractionSumAtMost
  <2>. QED BY <1>4, <1>5, <2>1, <2>7
<1>. QED BY <1>6, <1>7, <1>8

(* The predictions of the inputs, of two classes or three levels.          *)
LEMMA LabelledInputs ==
    ASSUME NEW K, NEW truth \in [1..Rows -> K], NEW said \in [1..Rows -> Optional(K)]
    PROVE  AreLabelled(truth, said, 1..Rows)
<1>1. IsFiniteSet(1..Rows) BY RowsAssumption, IntervalIsFinite
<1>2. \A i \in 1..Rows : said[i] = <<>> \/ \E c : said[i] = <<c>> BY DEF Optional
<1>. QED BY <1>1, <1>2 DEF AreLabelled

(* Failures in a prediction run of two classes (_classification).          *)
LEMMA ClassesNeverGain == ASSUME Init PROVE FailuresNeverHelp
<1>. SUFFICES ASSUME input.kind = "classes" PROVE FailuresNeverHelp BY Zenon DEF FailuresNeverHelp
<1>. DEFINE truth == input.truth
            said == input.said
            language == input.language
            X == 1..Rows
            K == 1..2
            report(s) == Classification(truth, s, K)
            now == report(said)
            slices == LanguageSlices(truth, said, K, language)
<1>1. truth \in [X -> K] /\ said \in [X -> Optional(K)] /\ language \in [X -> {"sv", "en"}] BY InputKind DEF Classes
<1>2. AreLabelled(truth, said, X) /\ (\A j \in X : truth[j] \in K) BY <1>1, LabelledInputs
<1>3. IsFiniteSet(K)
  <2>1. 2 \in Nat OBVIOUS
  <2>. QED BY <2>1, IntervalIsFinite
<1>4. DOMAIN said = X /\ Len(truth) = Rows /\ Cardinality(X) = Rows
  <2>1. Rows \in Nat /\ 1 \in Int /\ Rows \in Int BY RowsAssumption
  <2>2. Cardinality(X) = Rows BY <2>1, FS_Interval
  <2>. QED BY <1>1, <2>1, <2>2, SequenceOf
<1>. DEFINE f == [d \in K |-> PerClass(truth, said, d).support]
<1>5. SumFunctionOnSet(f, K) = Cardinality(X)
  <2>. HIDE DEF K, truth, said, X
  <2>. QED BY <1>2, <1>3, SupportsAddUp
<1>6. now.perClass[1].support + now.perClass[2].support = Len(truth)
  <2>1. f[1] = PerClass(truth, said, 1).support /\ f[2] = PerClass(truth, said, 2).support OBVIOUS
  <2>2. \A d : PerClass(truth, said, d).support \in Int
    <3>1. \A d : PerClass(truth, said, d).support = Cardinality(IsSo(truth, d)) BY <1>2, PerClassIs
    <3>2. \A d : IsFiniteSet(IsSo(truth, d)) BY <1>2, FS_Subset DEF IsSo, AreLabelled
    <3>. QED BY <3>1, <3>2, FS_CardinalityType
  <2>3. f[1] \in Int /\ f[2] \in Int BY <2>1, <2>2
  <2>4. IsReport(now, truth, said, K) BY Zenon, ClassificationIs
  <2>5. 1 \in K /\ 2 \in K OBVIOUS
  <2>6. now.perClass[1] = PerClass(truth, said, 1) /\ now.perClass[2] = PerClass(truth, said, 2) BY Zenon, <2>4, <2>5 DEF IsReport
  <2>. HIDE DEF f
  <2>7. SumFunctionOnSet(f, 1..2) = f[1] + f[2] BY <2>3, SumOfTwo
  <2>. HIDE DEF truth, said, now, X
  <2>. QED BY <1>4, <1>5, <2>1, <2>6, <2>7
<1>7. AreSlices(slices, now)
  <2>. HIDE DEF K, truth, said, language, X
  <2>. QED BY <1>1, <1>2, SlicesAddUp
<1>8. ASSUME NEW i \in X, said[i] = <<>>, NEW c \in K
      PROVE  LET other == report([said EXCEPT ![i] = <<c>>])
             IN  /\ AtMost(now.accuracy, other.accuracy)
                 /\ AtMost(now.perClass[truth[i]].recall, other.perClass[truth[i]].recall)
                 /\ c = truth[i] => /\ AtMost(now.macro, other.macro)
                                    /\ \A d \in K : NotBelow(now.perClass[d], other.perClass[d])
  <2>. HIDE DEF K, truth, said, X
  <2>. QED BY <1>2, <1>3, <1>8, FailuresDoNotHelp
<1>9. \A i \in X : said[i] = <<>> =>
        /\ \A c \in K :
              LET other == report([said EXCEPT ![i] = <<c>>])
              IN  /\ AtMost(now.accuracy, other.accuracy)
                  /\ AtMost(now.perClass[truth[i]].recall, other.perClass[truth[i]].recall)
        /\ LET right == report([said EXCEPT ![i] = <<truth[i]>>])
           IN  /\ AtMost(now.macro, right.macro)
               /\ \A c \in K : /\ AtMost(now.perClass[c].recall, right.perClass[c].recall)
                               /\ AtMost(now.perClass[c].precision, right.perClass[c].precision)
  <2>. HIDE DEF K, truth, said, X, report
  <2>. QED BY Zenon, <1>2, <1>8 DEF NotBelow
<1>. HIDE DEF slices
<1>. QED BY Zenon, <1>4, <1>6, <1>7, <1>9 DEF FailuresNeverHelp, slices, AreSlices

(* Scores that put every positive above every negative win every contest.  *)
LEMMA PerfectRoc ==
    ASSUME NEW pairs, AreScored(pairs),
           \A c \in Contests(pairs) : pairs[c[1]].score > pairs[c[2]].score, Auroc(pairs) # Nothing
    PROVE  One(Auroc(pairs))
<1>. DEFINE p == Cardinality(Positives(pairs))
            n == Cardinality(Negatives(pairs))
            w == Cardinality(Won(pairs))
            t == Cardinality(Tied(pairs))
            l == Cardinality(Lost(pairs))
<1>1. \A c \in Contests(pairs) : pairs[c[1]].score \in Int /\ pairs[c[2]].score \in Int
  BY DEF Contests, Positives, Negatives, AreScored
<1>2. Tied(pairs) = {} /\ Lost(pairs) = {} BY <1>1 DEF Tied, Lost
<1>3. t = 0 /\ l = 0 BY <1>2, FS_EmptySet
<1>4. p \in Nat /\ n \in Nat /\ w \in Nat /\ w + t + l = p * n BY ContestsAre
<1>5. Auroc(pairs) = Over(2 * w + t, 2 * p * n) BY Zenon, AurocIs
<1>. HIDE DEF p, n, w, t, l
<1>6. 2 * w + t = 2 * p * n BY <1>3, <1>4
<1>. QED BY <1>5, <1>6 DEF Over, One

(* Positives with no negative in front have precision 1 everywhere.        *)
LEMMA PerfectPrecision ==
    ASSUME NEW pairs, AreScored(pairs), DOMAIN pairs \subseteq Nat,
           \A i \in Positives(pairs), j \in Negatives(pairs) : pairs[j].score < pairs[i].score,
           Auprc(pairs) # Nothing
    PROVE  One(Auprc(pairs))
<1>. DEFINE P == Positives(pairs)
            upTo(i) == {j \in DOMAIN pairs : \/ pairs[j].score > pairs[i].score
                                             \/ pairs[j].score = pairs[i].score /\ j <= i}
            f == [i \in P |-> <<Cardinality(upTo(i) \cap P), Cardinality(upTo(i))>>]
            total == Sum(f)
<1>1. Auprc(pairs) = Over(total[1], total[2] * Cardinality(P)) BY Zenon DEF Auprc, Positives
<1>2. ASSUME NEW i \in P PROVE upTo(i) \subseteq P /\ i \in upTo(i)
  <2>1. i \in DOMAIN pairs /\ i \in Nat /\ pairs[i].score \in Int BY DEF Positives, AreScored
  <2>2. ASSUME NEW j \in upTo(i), j \notin P PROVE FALSE
    <3>1. j \in Negatives(pairs) /\ pairs[j].score \in Int BY <2>2 DEF Negatives, AreScored
    <3>2. pairs[j].score < pairs[i].score BY <3>1
    <3>. QED BY <2>1, <3>1, <3>2
  <2>. QED BY <2>1, <2>2
<1>3. IsFiniteSet(P) BY FS_Subset DEF Positives, AreScored
<1>4. AreOnes(f, P)
  <2>1. ASSUME NEW i \in P PROVE \E k \in Nat \ {0} : f[i] = <<k, k>>
    <3>1. upTo(i) \cap P = upTo(i) BY <1>2
    <3>2. f[i] = <<Cardinality(upTo(i) \cap P), Cardinality(upTo(i))>> OBVIOUS
    <3>3. IsFiniteSet(upTo(i)) /\ upTo(i) # {} BY <1>2, <1>3, FS_Subset
    <3>. HIDE DEF upTo, f
    <3>4. Cardinality(upTo(i)) \in Nat \ {0} BY <3>3, FS_CardinalityType, FS_EmptySet
    <3>5. f[i] = <<Cardinality(upTo(i)), Cardinality(upTo(i))>> BY <3>1, <3>2
    <3>. QED BY <3>4, <3>5
  <2>. QED BY <2>1 DEF AreOnes
<1>5. DOMAIN f = P OBVIOUS
<1>. HIDE DEF f, P
<1>6. total[1] = total[2] * Cardinality(P) BY <1>3, <1>4, <1>5, SumOfOnes
<1>. HIDE DEF total
<1>. QED BY <1>1, <1>6 DEF Over, One

(* What the answers are that the probabilities stand for.                  *)
LEMMA NoulAnswersAre ==
    ASSUME NEW truth, NEW said, NEW X, AreNouls(truth, said, X), NEW answers, answers = NoulAnswers(said)
    PROVE  /\ DOMAIN answers = X /\ Answered(answers) = Answered(said) /\ Answered(said) \subseteq X
           /\ \A i \in Answered(said) :
                 /\ said[i] = <<said[i][1]>> /\ said[i][1] \in 0..100
                 /\ answers[i][1].probability = said[i][1]
                 /\ answers[i][1].value = (said[i][1] >= 50)
                 /\ answers[i][1].confidence = IF said[i][1] < 50 THEN 100 - said[i][1] ELSE said[i][1]
           /\ \A i \in X \ Answered(said) : answers[i] = <<>>
<1>1. DOMAIN answers = X /\ Answered(said) \subseteq X BY DEF NoulAnswers, AreNouls, Answered
<1>2. \A i \in X : answers[i] = IF said[i] = <<>> THEN <<>> ELSE <<NoulAnswer(said[i][1])>> BY DEF NoulAnswers, AreNouls
<1>3. \A p : NoulAnswer(p) = [value |-> p >= 50, probability |-> p, confidence |-> IF p < 50 THEN 100 - p ELSE p]
  BY Zenon DEF NoulAnswer
<1>. HIDE DEF NoulAnswer
<1>4. Answered(answers) = Answered(said)
  <2>1. \A x : <<x>> # <<>> OBVIOUS
  <2>2. \A i \in X : answers[i] = <<>> <=> said[i] = <<>> BY Zenon, <1>2, <2>1
  <2>3. DOMAIN said = X BY DEF AreNouls
  <2>. QED BY <1>1, <2>2, <2>3 DEF Answered, Nothing
<1>5. \A i \in Answered(said) : said[i] = <<said[i][1]>> /\ said[i][1] \in 0..100 /\ answers[i] = <<NoulAnswer(said[i][1])>>
  <2>. SUFFICES ASSUME NEW i \in Answered(said)
                PROVE  said[i] = <<said[i][1]>> /\ said[i][1] \in 0..100 /\ answers[i] = <<NoulAnswer(said[i][1])>>
    OBVIOUS
  <2>1. i \in X /\ said[i] # <<>> BY <1>1 DEF Answered, Nothing
  <2>2. PICK p \in 0..100 : said[i] = <<p>> BY Zenon, <2>1 DEF AreNouls
  <2>3. said[i][1] = p BY <2>2
  <2>4. answers[i] = <<NoulAnswer(said[i][1])>> BY Zenon, <1>2, <2>1
  <2>. QED BY Zenon, <2>2, <2>3, <2>4
<1>6. \A i \in Answered(said) : answers[i][1] = NoulAnswer(said[i][1])
  <2>1. \A x : <<x>>[1] = x OBVIOUS
  <2>. QED BY Zenon, <1>5, <2>1
<1>7. \A p : /\ NoulAnswer(p).probability = p /\ NoulAnswer(p).value = (p >= 50)
             /\ NoulAnswer(p).confidence = IF p < 50 THEN 100 - p ELSE p
  BY <1>3
<1>8. \A i \in X \ Answered(said) : answers[i] = <<>> BY <1>1, <1>2 DEF Answered, Nothing, AreNouls
<1>. QED BY Zenon, <1>1, <1>4, <1>5, <1>6, <1>7, <1>8

(* The scored rows of such answers.                                        *)
LEMMA ScoredRowsAre ==
    ASSUME NEW truth, NEW said, NEW X, AreNouls(truth, said, X), NEW pairs, pairs = ScoredRows(truth, NoulAnswers(said))
    PROVE  /\ DOMAIN pairs = Answered(said) /\ AreScored(pairs)
           /\ \A i \in Answered(said) : pairs[i].label = truth[i] /\ pairs[i].score = said[i][1]
<1>1. /\ Answered(NoulAnswers(said)) = Answered(said) /\ Answered(said) \subseteq X
      /\ \A i \in Answered(said) : NoulAnswers(said)[i][1].probability = said[i][1] /\ said[i][1] \in 0..100
  BY NoulAnswersAre
<1>2. pairs = [i \in Answered(said) |-> [label |-> truth[i], score |-> NoulAnswers(said)[i][1].probability]]
  BY Zenon, <1>1 DEF ScoredRows
<1>3. DOMAIN pairs = Answered(said) /\ \A i \in Answered(said) : pairs[i].label = truth[i] /\ pairs[i].score = said[i][1]
  BY <1>1, <1>2
<1>4. IsFiniteSet(Answered(said)) /\ \A i \in Answered(said) : truth[i] \in BOOLEAN BY <1>1, FS_Subset DEF AreNouls
<1>. QED BY <1>1, <1>3, <1>4 DEF AreScored

(* A report without a squared error has nothing else to show: its          *)
(* confidences are right, none of its rows is a false positive, and its    *)
(* areas are whole (_noul_report).                                         *)
THEOREM WithoutErrorAllIsRight ==
    ASSUME NEW truth, NEW said, NEW X, AreNouls(truth, said, X),
           NEW report, report = NoulReport(truth, NoulAnswers(said)),
           report.brier # <<>>, report.brier[1] = 0
    PROVE  /\ report.ece[1] = 0 /\ report.cells.fp = 0
           /\ report.auroc # <<>> => One(report.auroc)
           /\ report.auprc # <<>> => One(report.auprc)
<1>. DEFINE answers == NoulAnswers(said)
            rows == Answered(said)
            errors == NoulErrors(truth, answers)
            scored == ScoredRows(truth, answers)
            value == Said(answers)
            pairs == Judged(truth, answers, value)
<1>1. /\ DOMAIN answers = X /\ Answered(answers) = rows /\ rows \subseteq X
      /\ \A i \in rows : /\ said[i][1] \in 0..100 /\ answers[i][1].probability = said[i][1]
                         /\ answers[i][1].value = (said[i][1] >= 50)
                         /\ answers[i][1].confidence = IF said[i][1] < 50 THEN 100 - said[i][1] ELSE said[i][1]
      /\ \A i \in X \ rows : answers[i] = <<>>
  BY NoulAnswersAre
<1>2. IsNoulReport(report, truth, answers) BY Zenon, NoulReportIs
<1>3. IsFiniteSet(rows) /\ rows \subseteq Nat /\ \A i \in rows : truth[i] \in BOOLEAN BY <1>1, FS_Subset DEF AreNouls
<1>4. DOMAIN scored = rows /\ AreScored(scored) /\ \A i \in rows : scored[i].label = truth[i] /\ scored[i].score = said[i][1]
  BY ScoredRowsAre
<1>. HIDE DEF answers, rows
<1>5. \A i \in rows : errors[i] = Square(said[i][1] - IF truth[i] THEN 100 ELSE 0)
  BY <1>1 DEF NoulErrors
<1>6. \A i \in rows : errors[i] \in Nat /\ (errors[i] = 0 => said[i][1] = IF truth[i] THEN 100 ELSE 0)
  <2>. SUFFICES ASSUME NEW i \in rows PROVE errors[i] \in Nat /\ (errors[i] = 0 => said[i][1] = IF truth[i] THEN 100 ELSE 0)
    OBVIOUS
  <2>. DEFINE e == IF truth[i] THEN 100 ELSE 0
              d == said[i][1] - e
  <2>1. errors[i] = Square(d) BY Zenon, <1>5
  <2>2. said[i][1] \in Int
    <3>1. 0..100 \subseteq Int OBVIOUS
    <3>. QED BY Zenon, <1>1, <3>1
  <2>3. e \in Int
    <3>1. e = 100 \/ e = 0 BY Zenon
    <3>. HIDE DEF e
    <3>. QED BY <3>1
  <2>. HIDE DEF e
  <2>4. d \in Int /\ (d = 0 => said[i][1] = e) BY <2>2, <2>3
  <2>. HIDE DEF d
  <2>5. errors[i] \in Nat /\ (errors[i] = 0 => said[i][1] = e) BY <2>1, <2>4, SquareIs
  <2>. QED BY Zenon, <2>5 DEF e
<1>7. report.brier = Over(SumFunctionOnSet(errors, rows), 10000 * Cardinality(rows))
  <2>1. report.brier = Over(SumFunctionOnSet(errors, Answered(answers)), 10000 * Cardinality(Answered(answers)))
    BY <1>2 DEF IsNoulReport
  <2>2. Answered(answers) = rows BY <1>1
  <2>. HIDE DEF errors
  <2>. QED BY <2>1, <2>2
<1>. HIDE DEF errors
<1>8. rows # {} /\ SumFunctionOnSet(errors, rows) = 0
  <2>1. 10000 * Cardinality(rows) # 0 BY <1>7 DEF Over, Nothing
  <2>2. Cardinality(rows) # 0 BY <2>1
  <2>3. rows # {} BY <2>2, FS_EmptySet
  <2>4. report.brier = <<SumFunctionOnSet(errors, rows), 10000 * Cardinality(rows)>> BY <1>7, <2>1 DEF Over
  <2>. QED BY <2>3, <2>4
<1>9. \A i \in rows : said[i][1] = IF truth[i] THEN 100 ELSE 0
  <2>1. \A i \in rows : errors[i] \in Nat BY Zenon, <1>6
  <2>2. \A i \in rows : errors[i] = 0 BY <1>3, <1>8, <2>1, SumIsZero
  <2>. QED BY Zenon, <1>6, <2>2
<1>10. \A i \in X : value[i] = IF i \in rows THEN <<truth[i]>> ELSE <<>>
  <2>1. \A i \in X : value[i] = IF answers[i] = <<>> THEN <<>> ELSE <<answers[i][1].value>> BY <1>1 DEF Said, Nothing
  <2>2. \A i \in rows : answers[i] # <<>> BY <1>1 DEF Answered, Nothing
  <2>3. \A i \in rows : answers[i][1].value = truth[i]
    <3>. SUFFICES ASSUME NEW i \in rows PROVE answers[i][1].value = truth[i] OBVIOUS
    <3>1. CASE truth[i] = TRUE
      <4>1. said[i][1] = 100 BY <1>9, <3>1
      <4>2. said[i][1] >= 50 BY <4>1
      <4>. QED BY Zenon, <1>1, <3>1, <4>2
    <3>2. CASE truth[i] = FALSE
      <4>1. said[i][1] = 0 BY <1>9, <3>2
      <4>2. (said[i][1] >= 50) = FALSE BY <4>1
      <4>. QED BY Zenon, <1>1, <3>2, <4>2
    <3>. QED BY Zenon, <1>3, <3>1, <3>2
  <2>. QED BY Zenon, <1>1, <2>1, <2>2, <2>3
<1>11. DOMAIN value = X BY <1>1 DEF Said
<1>12. DOMAIN pairs = rows /\ \A i \in rows : pairs[i].confidence = 100 /\ pairs[i].correct
  <2>1. DOMAIN pairs = rows /\ \A i \in rows : /\ pairs[i].confidence = answers[i][1].confidence
                                               /\ pairs[i].correct = (value[i] = <<truth[i]>>)
    BY <1>1 DEF Judged
  <2>2. \A i \in rows : answers[i][1].confidence = 100 BY <1>1, <1>9
  <2>. QED BY ZenonT(60), <1>1, <1>10, <2>1, <2>2
<1>13. report.ece = Ece(pairs) BY SMT, <1>2 DEF IsNoulReport
<1>14. report.cells = Cells(truth, value, TRUE) BY Zenon, <1>2 DEF IsNoulReport
<1>15. report.auroc = Auroc(scored) /\ report.auprc = Auprc(scored) BY Zenon, <1>2 DEF IsNoulReport
<1>. HIDE DEF value, pairs, scored
<1>16. report.ece[1] = 0
  <2>1. ArePairs(pairs)
    <3>1. \A i \in rows : pairs[i].confidence = 100 BY Zenon, <1>12
    <3>2. 100 \in 0..100 OBVIOUS
    <3>. QED BY Zenon, <1>3, <1>12, <3>1, <3>2 DEF ArePairs
  <2>2. Ece(pairs)[1] = 0 BY <1>8, <1>12, <2>1, CalibrationIsAShare
  <2>. QED BY <1>13, <2>2
<1>17. report.cells.fp = 0
  <2>1. IsSaid(value, TRUE) \ IsSo(truth, TRUE) = {}
    <3>1. \A i \in X : value[i] = <<TRUE>> => truth[i] = TRUE
      <4>1. \A a : \A b : <<a>> = <<b>> => a = b OBVIOUS
      <4>2. \A a : <<>> # <<a>> OBVIOUS
      <4>. QED BY Zenon, <1>10, <4>1, <4>2
    <3>. QED BY <1>11, <3>1 DEF IsSaid, IsSo, AreNouls
  <2>2. AreLabelled(truth, value, X)
    <3>1. DOMAIN truth = X /\ IsFiniteSet(X) BY DEF AreNouls
    <3>2. \A i \in X : value[i] = <<>> \/ \E c : value[i] = <<c>> BY Zenon, <1>10
    <3>. QED BY <1>11, <3>1, <3>2 DEF AreLabelled
  <2>3. CellsCount(report.cells, IsSo(truth, TRUE), IsSaid(value, TRUE)) BY Zenon, <1>14, <2>2, CellsAre
  <2>. QED BY <2>1, <2>3, FS_EmptySet DEF CellsCount
<1>18. \A i \in Positives(scored), j \in Negatives(scored) : scored[j].score < scored[i].score
  <2>1. \A i \in Positives(scored) : i \in rows /\ truth[i] = TRUE BY <1>3, <1>4 DEF Positives
  <2>2. \A j \in Negatives(scored) : j \in rows /\ truth[j] = FALSE BY <1>3, <1>4 DEF Negatives, Positives
  <2>3. \A i \in Positives(scored) : scored[i].score = 100 BY <1>4, <1>9, <2>1
  <2>4. \A i \in Negatives(scored) : scored[i].score = 0 BY <1>4, <1>9, <2>2
  <2>. QED BY <2>3, <2>4
<1>19. report.auroc # <<>> => One(report.auroc)
  <2>1. \A c \in Contests(scored) : scored[c[1]].score > scored[c[2]].score
    <3>1. \A c \in Contests(scored) : c[1] \in Positives(scored) /\ c[2] \in Negatives(scored) BY DEF Contests
    <3>2. \A c \in Contests(scored) : scored[c[1]].score \in Int /\ scored[c[2]].score \in Int
      BY <1>4, <3>1 DEF Positives, Negatives, AreScored
    <3>. QED BY <1>18, <3>1, <3>2
  <2>. QED BY <1>4, <1>15, <2>1, PerfectRoc DEF Nothing
<1>20. report.auprc # <<>> => One(report.auprc) BY <1>3, <1>4, <1>15, <1>18, PerfectPrecision DEF Nothing
<1>. QED BY <1>16, <1>17, <1>19, <1>20

(* Questions that are answered with a probability.                         *)
LEMMA NoulsAreStandard ==
    ASSUME Init, input.kind = "nouls",
           NEW report, report = NoulReport(input.truth, NoulAnswers(input.said)),
           NEW swapped, swapped = NoulReport([i \in DOMAIN input.truth |-> ~input.truth[i]], NoulAnswers(input.said)),
           NEW reversed, reversed = NoulReport(Reverse(input.truth), NoulAnswers(Reverse(input.said)))
    PROVE  /\ report.auroc # <<>> => report.auroc[1] + swapped.auroc[1] = report.auroc[2]
           /\ report.auroc = reversed.auroc
           /\ report.brier # <<>> /\ report.brier[1] = 0 =>
                 /\ report.ece[1] = 0 /\ report.cells.fp = 0
                 /\ report.auroc # <<>> => One(report.auroc)
                 /\ report.auprc # <<>> => One(report.auprc)
<1>. DEFINE truth == input.truth
            said == input.said
            X == 1..Rows
            negated == [i \in DOMAIN truth |-> ~truth[i]]
            h == [i \in X |-> (Rows - i) + 1]
            back == [i \in X |-> truth[h[i]]]
            saidBack == [i \in X |-> said[h[i]]]
            pairs == ScoredRows(truth, NoulAnswers(said))
            opposite == ScoredRows(negated, NoulAnswers(said))
            moved == ScoredRows(back, NoulAnswers(saidBack))
<1>1. truth \in [X -> BOOLEAN] /\ said \in [X -> Optional({0, 40, 50, 100})] BY InputKind DEF Nouls
<1>2. IsFiniteSet(X) /\ X \subseteq Nat BY RowsAssumption, IntervalIsFinite
<1>3. Rows \in Nat /\ \A i \in X : h[i] \in X /\ h[h[i]] = i BY RowsAssumption
<1>4. Reverse(truth) = back /\ Reverse(said) = saidBack
  <2>1. Len(truth) = Rows /\ Len(said) = Rows BY <1>1, <1>3, SequenceOf
  <2>2. \A s : Len(s) = Rows => Reverse(s) = [i \in X |-> s[h[i]]] BY DEF Reverse
  <2>. QED BY <2>1, <2>2
<1>5. \A i \in X : said[i] = <<>> \/ \E p \in 0..100 : said[i] = <<p>>
  <2>. DEFINE S == {0, 40, 50, 100}
              P == 0..100
  <2>1. S \subseteq P OBVIOUS
  <2>. HIDE DEF S, P
  <2>2. \A i \in X : said[i] = <<>> \/ \E p \in S : said[i] = <<p>> BY Zenon, <1>1 DEF Optional, S
  <2>3. \A i \in X : said[i] = <<>> \/ \E p \in P : said[i] = <<p>> BY Zenon, <2>1, <2>2
  <2>. QED BY Zenon, <2>3 DEF P
<1>6. AreNouls(truth, said, X) BY <1>1, <1>2, <1>5 DEF AreNouls
<1>7. AreNouls(negated, said, X)
  <2>1. negated \in [X -> BOOLEAN] BY <1>1
  <2>. QED BY <2>1, <1>1, <1>2, <1>5, Zenon DEF AreNouls
<1>8. AreNouls(back, saidBack, X)
  <2>1. back \in [X -> BOOLEAN] BY <1>1, <1>3, SMTT(30)
  <2>2. DOMAIN saidBack = X /\ \A i \in X : saidBack[i] = <<>> \/ \E p \in 0..100 : saidBack[i] = <<p>> BY <1>3, <1>5
  <2>. HIDE DEF back, saidBack
  <2>. QED BY <2>1, <2>2, <1>2, Zenon DEF AreNouls
<1>9. report.auroc = Auroc(pairs)
  <2>1. IsNoulReport(report, truth, NoulAnswers(said)) BY Zenon, NoulReportIs
  <2>. QED BY <2>1 DEF IsNoulReport
<1>10. swapped.auroc = Auroc(opposite)
  <2>1. IsNoulReport(swapped, negated, NoulAnswers(said)) BY Zenon, NoulReportIs
  <2>. HIDE DEF negated
  <2>. QED BY <2>1 DEF IsNoulReport
<1>11. reversed.auroc = Auroc(moved)
  <2>1. IsNoulReport(reversed, back, NoulAnswers(saidBack)) BY Zenon, <1>4, NoulReportIs
  <2>. HIDE DEF back, saidBack
  <2>. QED BY <2>1 DEF IsNoulReport
<1>12. \A i \in X : negated[i] = ~truth[i] BY <1>1, Zenon
<1>13. \A i \in X : back[i] = truth[h[i]] /\ saidBack[i] = said[h[i]] OBVIOUS
<1>. HIDE DEF truth, said, negated, back, saidBack, X, h
<1>14. DOMAIN pairs = Answered(said) /\ AreScored(pairs) /\ \A i \in Answered(said) : pairs[i].label = truth[i] /\ pairs[i].score = said[i][1]
  BY <1>6, ScoredRowsAre
<1>15. DOMAIN opposite = Answered(said) /\ \A i \in Answered(said) : opposite[i].label = negated[i] /\ opposite[i].score = said[i][1]
  BY <1>7, ScoredRowsAre
<1>16. DOMAIN moved = Answered(saidBack) /\ AreScored(moved)
       /\ \A i \in Answered(saidBack) : moved[i].label = back[i] /\ moved[i].score = saidBack[i][1]
  BY <1>8, ScoredRowsAre
<1>17. Answered(said) \subseteq X /\ Answered(saidBack) \subseteq X BY <1>6, <1>8 DEF AreNouls, Answered
<1>18. \A i \in X : i \in Answered(saidBack) <=> h[i] \in Answered(said)
  BY <1>3, <1>6, <1>8, <1>13 DEF AreNouls, Answered
<1>. HIDE DEF pairs, opposite, moved
<1>19. report.auroc # <<>> => report.auroc[1] + swapped.auroc[1] = report.auroc[2]
  <2>1. Swapped(pairs, opposite) BY Zenon, <1>12, <1>14, <1>15, <1>17 DEF Swapped
  <2>2. Auroc(pairs) # Nothing => Auroc(pairs)[1] + Auroc(opposite)[1] = Auroc(pairs)[2] BY <1>14, <2>1, RocIsComplementary
  <2>. QED BY Zenon, <1>9, <1>10, <2>2 DEF Nothing
<1>20. report.auroc = reversed.auroc
  <2>1. Reordered(pairs, moved, h)
    <3>1. \A i \in Answered(said) : h[i] \in Answered(saidBack) /\ back[h[i]] = truth[i] /\ saidBack[h[i]] = said[i]
      BY <1>3, <1>13, <1>17, <1>18
    <3>. QED BY <1>14, <1>16, <3>1 DEF Reordered
  <2>2. Reordered(moved, pairs, h)
    <3>1. \A i \in Answered(saidBack) : h[i] \in Answered(said) /\ back[i] = truth[h[i]] /\ saidBack[i] = said[h[i]]
      BY <1>3, <1>13, <1>17, <1>18
    <3>. QED BY <1>14, <1>16, <3>1 DEF Reordered
  <2>3. Inverses(h, h, DOMAIN pairs, DOMAIN moved) BY Zenon, <1>3, <1>14, <1>16, <1>17 DEF Inverses
  <2>4. Auroc(moved) = Auroc(pairs) BY <1>14, <1>16, <2>1, <2>2, <2>3, RocIsOfAnyOrder
  <2>. QED BY Zenon, <1>9, <1>11, <2>4
<1>21. report.brier # <<>> /\ report.brier[1] = 0 =>
                 /\ report.ece[1] = 0 /\ report.cells.fp = 0
                 /\ report.auroc # <<>> => One(report.auroc)
                 /\ report.auprc # <<>> => One(report.auprc)
  BY <1>6, WithoutErrorAllIsRight DEF truth, said
<1>. QED BY Zenon, <1>19, <1>20, <1>21

(* Any two confidences.                                                    *)
LEMMA PairsAreStandard ==
    ASSUME Init, input.kind = "pairs"
    PROVE  /\ \A i \in DOMAIN input.pairs : Cardinality({bin \in 0..9 : InBin(input.pairs[i], bin)}) = 1
           /\ AtMost(Ece(input.pairs), <<1, 1>>)
           /\ \A t, u \in Thresholds : t <= u => Selective(input.pairs)[u].accepted <= Selective(input.pairs)[t].accepted
<1>. DEFINE pairs == input.pairs
            C == {5 * n : n \in 0..20}
<1>1. input \in Pairs BY InputKind
<1>2. DOMAIN pairs = 1..2 /\ \A i \in 1..2 : pairs[i].confidence \in C
  <2>1. pairs \in [1..2 -> [confidence : C, correct : BOOLEAN]] BY Zenon, <1>1 DEF Pairs
  <2>. HIDE DEF pairs, C
  <2>. QED BY <2>1
<1>3. C \subseteq 0..100 OBVIOUS
<1>4. IsFiniteSet(1..2) /\ 1..2 # {}
  <2>1. 2 \in Nat /\ 1 \in 1..2 OBVIOUS
  <2>. QED BY <2>1, IntervalIsFinite
<1>. HIDE DEF C, pairs
<1>5. ArePairs(pairs) BY <1>2, <1>3, <1>4 DEF ArePairs
<1>6. \A i \in DOMAIN pairs : Cardinality({bin \in 0..9 : InBin(pairs[i], bin)}) = 1
  BY <1>2, <1>4, <1>5, CalibrationIsAShare
<1>7. AtMost(Ece(pairs), <<1, 1>>)
  <2>1. /\ Ece(pairs)[1] \in 0..(100 * Cardinality(DOMAIN pairs))
        /\ Ece(pairs)[2] = 100 * Cardinality(DOMAIN pairs)
    BY <1>2, <1>4, <1>5, CalibrationIsAShare
  <2>2. Cardinality(DOMAIN pairs) \in Nat BY <1>5, FS_CardinalityType DEF ArePairs
  <2>. QED BY <2>1, <2>2 DEF AtMost
<1>8. \A t, u \in Thresholds : t <= u => Selective(pairs)[u].accepted <= Selective(pairs)[t].accepted
  BY <1>5, HigherAcceptsFewer
<1>. QED BY Zenon, <1>6, <1>7, <1>8 DEF pairs

(* The answers that an engine gave for certain.                            *)
LEMMA CertainAre ==
    ASSUME NEW X, NEW K, input.said \in [X -> Optional(K)]
    PROVE  AreCertain(CertainAnswers(K), input.said, X, K)
<1>. DEFINE said == input.said
            answers == CertainAnswers(K)
            a(i) == [value |-> said[i][1], confidence |-> 100,
                     probabilities |-> [c \in K |-> IF <<c>> = said[i] THEN 100 ELSE 0]]
<1>1. DOMAIN answers = X /\ DOMAIN said = X BY DEF CertainAnswers
<1>2. \A i \in X : answers[i] = IF said[i] = <<>> THEN <<>> ELSE <<a(i)>>
  <2>1. answers = [i \in X |-> IF said[i] = <<>> THEN <<>> ELSE <<a(i)>>] BY Zenon, <1>1 DEF CertainAnswers
  <2>. HIDE DEF answers, a
  <2>. QED BY <2>1
<1>3. \A i : /\ a(i).value = said[i][1] /\ a(i).confidence = 100
             /\ a(i).probabilities = [c \in K |-> IF <<c>> = said[i] THEN 100 ELSE 0]
  OBVIOUS
<1>4. \A i \in X : said[i] = <<>> \/ \E c \in K : said[i] = <<c>> BY Zenon, <1>1 DEF Optional
<1>. HIDE DEF a, answers
<1>5. \A x : <<x>> # <<>> /\ <<x>>[1] = x OBVIOUS
<1>6. Answered(answers) = Answered(said) /\ Answered(said) \subseteq X
  <2>1. \A i \in X : answers[i] = <<>> <=> said[i] = <<>> BY Zenon, <1>2, <1>5
  <2>. QED BY <1>1, <2>1 DEF Answered, Nothing
<1>7. \A i \in X \ Answered(said) : said[i] = <<>> /\ answers[i] = <<>> BY <1>1, <1>2 DEF Answered, Nothing
<1>8. ASSUME NEW i \in Answered(said)
      PROVE  said[i][1] \in K /\ said[i] = <<said[i][1]>> /\ answers[i][1] = a(i)
  <2>1. i \in X /\ said[i] # <<>> BY <1>6 DEF Answered, Nothing
  <2>2. PICK c \in K : said[i] = <<c>> BY Zenon, <1>4, <2>1
  <2>3. said[i][1] = c BY <2>2
  <2>4. answers[i] = <<a(i)>> BY Zenon, <1>2, <2>1
  <2>. QED BY Zenon, <1>5, <2>2, <2>3, <2>4
<1>. HIDE DEF said
<1>9. ASSUME NEW i \in Answered(said)
      PROVE  /\ answers[i][1].value = said[i][1] /\ answers[i][1].confidence = 100
             /\ answers[i][1].probabilities = [c \in K |-> IF <<c>> = said[i] THEN 100 ELSE 0]
  <2>1. answers[i][1] = a(i) BY <1>8
  <2>. QED BY <1>3, <2>1
<1>10. AreCertain(answers, said, X, K) BY <1>1, <1>6, <1>7, <1>8, <1>9 DEF AreCertain
<1>. QED BY <1>10 DEF answers, said

(* Choices of two classes that are given for certain.                      *)
LEMMA ClassesAreStandard ==
    ASSUME Init, input.kind = "classes",
           NEW report, report = ChoiceReport(input.truth, CertainAnswers(1..2), 1..2),
           NEW right, right = Correct(input.truth, input.said)
    PROVE  /\ report.classification = Classification(input.truth, input.said, 1..2)
           /\ report.brier # <<>> => (report.brier[1] = 0) = (Answered(input.said) = right)
           /\ report.selective[99].accepted = report.selective[0].accepted
<1>. DEFINE truth == input.truth
            said == input.said
            X == 1..Rows
            K == 1..2
            answers == CertainAnswers(K)
            pairs == Judged(truth, answers, said)
<1>1. truth \in [X -> K] /\ said \in [X -> Optional(K)] BY InputKind DEF Classes
<1>2. IsFiniteSet(X) /\ IsFiniteSet(K)
  <2>1. 2 \in Nat OBVIOUS
  <2>. QED BY <2>1, RowsAssumption, IntervalIsFinite
<1>3. AreCertain(answers, said, X, K) BY Zenon, <1>1, CertainAre
<1>4. Said(answers) = said
  <2>1. said = [i \in X |-> said[i]] BY <1>1
  <2>. QED BY Zenon, <1>3, <2>1, CertainSaid
<1>5. report = [classification |-> Classification(truth, said, K), brier |-> MulticlassBrier(truth, answers, K),
                ece |-> Ece(pairs), selective |-> Selective(pairs)]
  BY Zenon, <1>4 DEF ChoiceReport
<1>6. \A i \in X : truth[i] \in K BY <1>1
<1>. HIDE DEF truth, said, X, K, answers, pairs
<1>7. report.classification = Classification(truth, said, K) /\ report.brier = MulticlassBrier(truth, answers, K)
      /\ report.selective = Selective(pairs)
  BY <1>5
<1>8. report.brier # <<>> => (report.brier[1] = 0) = (Answered(said) = right)
  <2>1. Answered(said) = {} => report.brier = Nothing BY <1>2, <1>3, <1>6, <1>7, CertainBrier
  <2>2. Answered(said) # {} => (report.brier[1] = 0 <=> Correct(truth, said) = Answered(said))
    BY <1>2, <1>3, <1>6, <1>7, CertainBrier
  <2>3. right = Correct(truth, said) BY DEF truth, said
  <2>. QED BY Zenon, <2>1, <2>2, <2>3 DEF Nothing
<1>9. report.selective[99].accepted = report.selective[0].accepted
  <2>1. \A i \in DOMAIN pairs : pairs[i].confidence = 100
    <3>1. pairs = Judged(truth, answers, said) BY DEF pairs
    <3>. QED BY <1>2, <1>3, <3>1, CertainJudged
  <2>. QED BY <1>7, <2>1, CertainAccepted
<1>. QED BY Zenon, <1>7, <1>8, <1>9 DEF truth, said, K

(* Kappa is missing only without answers, and 1 only on full agreement: two*)
(* levels that are given apart are expected apart.                         *)
LEMMA KappaIs ==
    ASSUME NEW truth, NEW said, NEW X, AreLabelled(truth, said, X), NEW K, K \subseteq Int,
           IsFiniteSet(K), Cardinality(K) >= 2,
           \A i \in X : truth[i] \in K, \A i \in Answered(said) : said[i][1] \in K,
           NEW kappa, kappa = QuadraticWeightedKappa(truth, said, K)
    PROVE  /\ kappa = Nothing <=> Answered(said) = {}
           /\ Answered(said) # {} => /\ kappa[1] <= kappa[2]
                                     /\ One(kappa) <=> Correct(truth, said) = Answered(said)
<1>. DEFINE rows == Answered(said)
            f == [i \in rows |-> Square(truth[i] - said[i][1])]
            is(c) == {i \in rows : truth[i] = c}
            as(c) == {i \in rows : said[i][1] = c}
            g == [p \in K \X K |-> Cardinality(is(p[1])) * Cardinality(as(p[2])) * Square(p[1] - p[2])]
            m == Cardinality(rows)
            apart == SumFunctionOnSet(f, rows)
            observed == m * apart
            expected == SumFunctionOnSet(g, K \X K)
<1>1. kappa = IF rows = {} \/ Cardinality(K) < 2 THEN Nothing
              ELSE IF expected # 0 THEN <<expected - observed, expected>>
              ELSE IF observed = 0 THEN <<1, 1>> ELSE Nothing
  <2>1. kappa = IF rows = {} \/ Cardinality(K) < 2 THEN Nothing
                ELSE IF SumFunction(g) # 0 THEN <<SumFunction(g) - m * SumFunction(f), SumFunction(g)>>
                ELSE IF m * SumFunction(f) = 0 THEN <<1, 1>> ELSE Nothing
    BY Zenon DEF QuadraticWeightedKappa
  <2>2. DOMAIN f = rows /\ DOMAIN g = K \X K OBVIOUS
  <2>. HIDE DEF f, g, rows
  <2>3. SumFunction(f) = SumFunctionOnSet(f, rows) BY <2>2 DEF SumFunction
  <2>4. SumFunction(g) = SumFunctionOnSet(g, K \X K) BY <2>2 DEF SumFunction
  <2>. QED BY Zenon, <2>1, <2>3, <2>4
<1>2. rows \subseteq X /\ IsFiniteSet(rows) BY FS_Subset DEF Answered, AreLabelled
<1>3. m \in Nat /\ (m = 0 <=> rows = {}) BY <1>2, FS_CardinalityType, FS_EmptySet
<1>4. \A i \in rows : truth[i] \in Int /\ said[i][1] \in Int BY <1>2
<1>5. \A i \in rows : f[i] \in Nat /\ (f[i] = 0 <=> truth[i] = said[i][1])
  <2>. SUFFICES ASSUME NEW i \in rows PROVE f[i] \in Nat /\ (f[i] = 0 <=> truth[i] = said[i][1]) OBVIOUS
  <2>. DEFINE a == truth[i]
              b == said[i][1]
  <2>1. f[i] = Square(a - b) OBVIOUS
  <2>2. a \in Int /\ b \in Int BY <1>4
  <2>. HIDE DEF a, b, f
  <2>3. a - b \in Int /\ (a - b = 0 <=> a = b) BY <2>2
  <2>4. f[i] \in Nat /\ (f[i] = 0 <=> a = b) BY <2>1, <2>3, SquareIs
  <2>. QED BY <2>4 DEF a, b
<1>6. \A c : IsFiniteSet(is(c)) /\ IsFiniteSet(as(c)) BY <1>2, FS_Subset
<1>7. \A c : Cardinality(is(c)) \in Nat /\ Cardinality(as(c)) \in Nat BY <1>6, FS_CardinalityType
<1>8. \A p \in K \X K : g[p] = Cardinality(is(p[1])) * Cardinality(as(p[2])) * Square(p[1] - p[2]) /\ p[1] \in Int /\ p[2] \in Int
  OBVIOUS
<1>9. ASSUME NEW i \in rows PROVE Cardinality(is(truth[i])) # 0 /\ Cardinality(as(said[i][1])) # 0
  <2>1. i \in is(truth[i]) /\ i \in as(said[i][1]) OBVIOUS
  <2>. HIDE DEF is, as
  <2>. QED BY <1>6, <2>1, FS_EmptySet
<1>. HIDE DEF f, g, is, as, m
<1>10. \A p \in K \X K : g[p] \in Nat
  <2>1. \A a, b \in Int : a - b \in Int OBVIOUS
  <2>2. \A p \in K \X K : p[1] - p[2] \in Int BY Zenon, <1>8, <2>1
  <2>3. \A p \in K \X K : Square(p[1] - p[2]) \in Nat BY Zenon, <2>2, SquareIs
  <2>4. \A a, b, c \in Nat : a * b * c \in Nat OBVIOUS
  <2>5. \A p \in K \X K : Cardinality(is(p[1])) * Cardinality(as(p[2])) * Square(p[1] - p[2]) \in Nat
    BY Zenon, <1>7, <2>3, <2>4
  <2>. QED BY Zenon, <1>8, <2>5
<1>11. apart \in Nat /\ (apart = 0 <=> \A i \in rows : f[i] = 0)
  <2>. HIDE DEF rows
  <2>. QED BY <1>2, <1>5, SumIsNatural, SumIsZero
<1>12. expected \in Nat /\ (expected = 0 <=> \A p \in K \X K : g[p] = 0)
  <2>1. IsFiniteSet(K \X K) BY FS_Product
  <2>. QED BY <1>10, <2>1, SumIsNatural, SumIsZero
<1>13. ASSUME NEW i \in rows, expected = 0 PROVE f[i] = 0
  <2>. DEFINE a == truth[i]
              b == said[i][1]
              p == <<a, b>>
              s == Cardinality(is(a))
              t == Cardinality(as(b))
  <2>1. a \in K /\ b \in K BY <1>2
  <2>2. p \in K \X K /\ p[1] = a /\ p[2] = b BY <2>1
  <2>3. g[p] = 0 BY <1>12, <1>13, <2>2
  <2>4. g[p] = s * t * Square(a - b)
    <3>1. g[p] = Cardinality(is(p[1])) * Cardinality(as(p[2])) * Square(p[1] - p[2]) BY Zenon, <1>8, <2>2
    <3>. QED BY Zenon, <2>2, <3>1
  <2>5. s \in Nat /\ t \in Nat /\ s # 0 /\ t # 0 BY <1>7, <1>9
  <2>6. a - b \in Int BY <1>4
  <2>7. Square(a - b) \in Nat BY <2>6, SquareIs
  <2>. HIDE DEF s, t, p
  <2>8. Square(a - b) = 0
    <3>1. \A x, y, z \in Nat : (x # 0 /\ y # 0 /\ x * y * z = 0) => z = 0
      <4>1. \A x, y \in Nat : (x # 0 /\ y # 0) => x * y \in Nat /\ x * y # 0 OBVIOUS
      <4>. QED BY <4>1
    <3>. HIDE DEF a, b
    <3>. QED BY <2>3, <2>4, <2>5, <2>7, <3>1
  <2>9. a - b = 0 BY <2>6, <2>8, SquareIs
  <2>. QED BY <1>4, <1>5, <2>9
<1>14. (\A i \in rows : f[i] = 0) <=> Correct(truth, said) = rows
  <2>1. \A i \in rows : said[i] = <<said[i][1]>> BY <1>2 DEF Answered, AreLabelled, Nothing
  <2>2. \A i \in rows : said[i] = <<truth[i]>> <=> truth[i] = said[i][1] BY <2>1
  <2>3. Correct(truth, said) = rows <=> \A i \in rows : said[i] = <<truth[i]>> BY DEF Correct
  <2>. QED BY Zenon, <1>5, <2>2, <2>3
<1>15. CASE rows = {} BY <1>1, <1>15
<1>16. CASE rows # {}
  <2>1. kappa = IF expected # 0 THEN <<expected - observed, expected>> ELSE IF observed = 0 THEN <<1, 1>> ELSE Nothing
    <3>1. ~(Cardinality(K) < 2)
      <4>1. Cardinality(K) \in Nat BY FS_CardinalityType
      <4>. QED BY <4>1
    <3>. QED BY Zenon, <1>1, <1>16, <3>1
  <2>2. observed \in Nat /\ (observed = 0 <=> apart = 0) BY <1>3, <1>11, <1>16
  <2>3. expected = 0 => apart = 0 BY <1>11, <1>13
  <2>4. apart = 0 <=> Correct(truth, said) = rows BY Zenon, <1>11, <1>14
  <2>. HIDE DEF apart, observed, expected, rows
  <2>5. kappa # Nothing /\ kappa[1] <= kappa[2] /\ (kappa[1] = kappa[2] <=> apart = 0)
    BY <1>12, <2>1, <2>2, <2>3 DEF Nothing
  <2>. QED BY Zenon, <1>16, <2>4, <2>5 DEF rows, One
<1>. QED BY <1>15, <1>16

(* Scores of three levels that are given for certain.                      *)
LEMMA LevelsAreStandard ==
    ASSUME Init, input.kind = "levels",
           NEW report, report = ScoreReport(input.truth, CertainAnswers(1..3), 1..3),
           NEW rows, rows = Answered(input.said)
    PROVE  /\ (report.kappa = <<>>) = (rows = {})
           /\ rows # {} => /\ report.kappa[1] <= report.kappa[2]
                           /\ One(report.kappa) = (Correct(input.truth, input.said) = rows)
                           /\ (report.mae[1] = 0) = (Correct(input.truth, input.said) = rows)
                           /\ (report.brier[1] = 0) = (Correct(input.truth, input.said) = rows)
                           /\ (report.ece[1] = 0) = (Correct(input.truth, input.said) = rows)
<1>. DEFINE truth == input.truth
            said == input.said
            X == 1..Rows
            K == 1..3
            answers == CertainAnswers(K)
            pairs == Judged(truth, answers, said)
<1>1. truth \in [X -> K] /\ said \in [X -> Optional(K)] BY InputKind DEF Levels
<1>2. IsFiniteSet(X) /\ IsFiniteSet(K) /\ Cardinality(K) >= 2
  <2>. DEFINE n == 3
  <2>1. n \in Nat /\ 1 \in Int /\ n \in Int /\ n >= 2 OBVIOUS
  <2>. HIDE DEF n
  <2>2. Cardinality(1..n) >= 2 BY <2>1, FS_Interval
  <2>3. Cardinality(K) >= 2 BY Zenon, <2>2 DEF n
  <2>4. IsFiniteSet(1..n) BY <2>1, IntervalIsFinite
  <2>5. IsFiniteSet(K) BY Zenon, <2>4 DEF n
  <2>6. IsFiniteSet(X) BY RowsAssumption, IntervalIsFinite
  <2>. QED BY Zenon, <2>3, <2>5, <2>6
<1>3. AreCertain(answers, said, X, K) BY Zenon, <1>1, CertainAre
<1>4. K \subseteq Int OBVIOUS
<1>5. SaidLevel(answers) = said
  <2>1. said = [i \in X |-> said[i]] BY <1>1
  <2>. QED BY Zenon, <1>3, <1>4, <2>1, CertainSaid
<1>6. report = [evaluated |-> Cardinality(Answered(answers)), mae |-> MeanError(answers, truth),
                kappa |-> QuadraticWeightedKappa(truth, said, K),
                accuracy |-> <<Cardinality(Correct(truth, said)), Cardinality(DOMAIN truth)>>,
                brier |-> MulticlassBrier(truth, answers, K), ece |-> Ece(pairs), selective |-> Selective(pairs)]
  BY Zenon, <1>5 DEF ScoreReport, MeanError
<1>7. \A i \in X : truth[i] \in K BY <1>1
<1>8. AreLabelled(truth, said, X) BY <1>1, LabelledInputs
<1>9. rows = Answered(said) OBVIOUS
<1>. HIDE DEF truth, said, X, K, answers, pairs
<1>10. report.kappa = QuadraticWeightedKappa(truth, said, K) /\ report.brier = MulticlassBrier(truth, answers, K)
       /\ report.ece = Ece(pairs) /\ report.mae = MeanError(answers, truth)
  BY <1>6
<1>. DEFINE right == Correct(truth, said)
<1>11. /\ report.kappa = Nothing <=> rows = {}
       /\ rows # {} => report.kappa[1] <= report.kappa[2] /\ (One(report.kappa) <=> right = rows)
  <2>1. \A i \in Answered(said) : said[i][1] \in K BY <1>3 DEF AreCertain
  <2>. QED BY <1>2, <1>4, <1>7, <1>8, <1>9, <1>10, <2>1, KappaIs
<1>12. rows # {} => (report.mae[1] = 0 <=> right = rows)
  <2>1. IsFiniteSet(X) /\ report.mae = MeanError(answers, truth) BY <1>2, <1>10
  <2>2. Answered(said) # {} => (MeanError(answers, truth)[1] = 0 <=> Correct(truth, said) = Answered(said))
    BY SMT, <1>3, <1>4, <1>7, <2>1, CertainError
  <2>. QED BY Zenon, <1>9, <2>1, <2>2
<1>13. rows # {} => (report.brier[1] = 0 <=> right = rows) BY <1>2, <1>3, <1>7, <1>9, <1>10, CertainBrier
<1>14. ASSUME rows # {} PROVE report.ece[1] = 0 <=> right = rows
  <2>1. /\ ArePairs(pairs) /\ DOMAIN pairs = rows /\ (\A i \in DOMAIN pairs : pairs[i].confidence = 100)
        /\ (\A i \in DOMAIN pairs : pairs[i].correct) <=> right = rows
    <3>1. pairs = Judged(truth, answers, said) BY DEF pairs
    <3>. QED BY <1>2, <1>3, <1>9, <3>1, CertainJudged
  <2>2. Ece(pairs)[1] = 0 <=> \A i \in DOMAIN pairs : pairs[i].correct BY <1>14, <2>1, CalibrationIsAShare
  <2>. QED BY Zenon, <1>10, <2>1, <2>2
<1>. QED BY Zenon, <1>11, <1>12, <1>13, <1>14 DEF truth, said, Nothing, One

(* The requests of the inputs, whose splits have two records.              *)
LEMMA RequestsAreKept ==
    ASSUME Init, input.kind = "request",
           NEW scored,
           scored = Selected([input EXCEPT !.kind = input.reference], input.splitOf, DOMAIN input.splitOf, input.predicted),
           NEW locked, locked = {i \in scored : input.splitOf[i] = "locked_test"}
    PROVE  /\ scored \subseteq input.predicted
           /\ input.split # "all" => \A i \in scored : input.splitOf[i] = input.split
           /\ (input.reference = "human_gold" /\ scored # {}) =>
                 /\ \A i \in DOMAIN input.splitOf : i \in scored \/ input.splitOf[i] # input.split
                 /\ locked # {} => input.unlock
<1>. DEFINE q == [input EXCEPT !.kind = input.reference]
<1>1. input \in Requests BY InputKind
<1>2. q.kind = input.reference /\ q.split = input.split /\ q.unlock = input.unlock BY <1>1 DEF Requests
<1>3. scored = Selected(q, input.splitOf, DOMAIN input.splitOf, input.predicted) OBVIOUS
<1>. HIDE DEF q
<1>4. /\ scored \subseteq input.predicted
      /\ q.split # "all" => \A i \in scored : i \in DOMAIN input.splitOf /\ input.splitOf[i] = q.split
      /\ (q.kind = "human_gold" /\ scored # {}) =>
            /\ q.split # "all" /\ (q.split = "locked_test" => q.unlock)
            /\ \A i \in DOMAIN input.splitOf : i \in scored \/ input.splitOf[i] # q.split
  <2>. DEFINE splitOf == input.splitOf
              predicted == input.predicted
  <2>1. scored = Selected(q, splitOf, DOMAIN splitOf, predicted) BY Zenon, <1>3
  <2>. HIDE DEF splitOf, predicted
  <2>2. /\ scored \subseteq predicted
        /\ q.split # "all" => \A i \in scored : i \in DOMAIN splitOf /\ splitOf[i] = q.split
        /\ (q.kind = "human_gold" /\ scored # {}) =>
              /\ q.split # "all" /\ (q.split = "locked_test" => q.unlock)
              /\ \A i \in DOMAIN splitOf : i \in scored \/ splitOf[i] # q.split
    BY <2>1, SelectedAre
  <2>. QED BY Zenon, <2>2 DEF splitOf, predicted
<1>. QED BY Zenon, <1>2, <1>4

(* A row of the two that one engine predicted.                             *)
PredictedRow(i) ==
    [split |-> "development", latency |-> input.latency[i], tokens |-> 1, cost |-> input.cost[i],
     engine |-> [model |-> input.engine[i], schema |-> "s"], error |-> input.error[i],
     status |-> IF input.error[i] = <<>> THEN "success" ELSE "error",
     answered |-> input.answered[i]]

(* Each row is counted once, the latencies grow with the quantile, and the *)
(* costs add up (_operations_report).                                      *)
LEMMA RowsAreCounted ==
    ASSUME Init, input.kind = "rows", NEW rows, rows = [i \in 1..2 |-> PredictedRow(i)],
           RowsAreValid(rows, [i \in 1..2 |-> "development"], "s"),
           NEW report, report = Operations(rows)
    PROVE  /\ Cardinality({i \in 1..2 : input.answered[i]}) + SumFunction(report.errors) = 2
           /\ report.latency[50][1] <= report.latency[95][1] /\ report.latency[95][1] <= report.latency[99][1]
           /\ \E i \in 1..2 : 100 * input.latency[i] <= report.latency[50][1]
           /\ \E j \in 1..2 : report.latency[99][1] <= 100 * input.latency[j]
           /\ report.cost # <<>> => report.cost[1] = 8
<1>. DEFINE X == 1..2
            values == [i \in X |-> rows[i].latency]
            costs == [i \in X |-> rows[i].cost[1]]
            answered == {i \in X : input.answered[i]}
            failed == {i \in X : rows[i].error # Nothing}
<1>1. input \in PredictionRows BY InputKind
<1>2. IsFiniteSet(X) /\ Cardinality(X) = 2 BY Zenon, TwoAreTwo
<1>3. IsOperations(report, rows, X)
  <2>1. DOMAIN rows = X OBVIOUS
  <2>2. IsOperations(Operations(rows), rows, X) BY Zenon, <1>2, <2>1, OperationsAre
  <2>. QED BY Zenon, <2>2
<1>4. \A i \in X : /\ rows[i].latency = input.latency[i] /\ rows[i].cost = input.cost[i]
                   /\ rows[i].error = input.error[i] /\ rows[i].answered = input.answered[i]
                   /\ rows[i].status = IF input.error[i] = <<>> THEN "success" ELSE "error"
  BY DEF PredictedRow
<1>5. \A i \in X : input.latency[i] \in {1, 2, 7} /\ input.cost[i] \in Optional({4}) /\ input.answered[i] \in BOOLEAN
  BY <1>1 DEF PredictionRows
<1>6. \A i \in X : i \in failed <=> i \notin answered
  <2>1. \A i \in X : rows[i].answered = (rows[i].status = "success") BY DEF RowsAreValid
  <2>2. \A i \in X : rows[i].status = "success" <=> rows[i].error = Nothing BY <1>4 DEF Nothing
  <2>3. \A i \in X : input.answered[i] <=> rows[i].error = Nothing BY <1>4, <1>5, <2>1, <2>2
  <2>. QED BY Zenon, <2>3
<1>7. values \in [X -> Nat] /\ \A i \in X : values[i] = input.latency[i] BY <1>4, <1>5
<1>8. AreValues(values, X)
  <2>1. X # {} OBVIOUS
  <2>. QED BY Zenon, <1>2, <1>7, <2>1 DEF AreValues
<1>9. /\ report.latency[50] = Percentile(values, 50) /\ report.latency[95] = Percentile(values, 95)
      /\ report.latency[99] = Percentile(values, 99)
  BY <1>3 DEF IsOperations
<1>10. SumFunction(report.errors) = Cardinality(failed) BY <1>3 DEF IsOperations
<1>11. Cardinality(answered) + Cardinality(failed) = 2
  <2>1. answered \subseteq X /\ failed = X \ answered BY Zenon, <1>6
  <2>2. Cardinality(X \ answered) = Cardinality(X) - Cardinality(X \cap answered) BY <1>2, FS_Difference
  <2>3. X \cap answered = answered BY Zenon, <2>1
  <2>4. IsFiniteSet(answered) BY <1>2, <2>1, FS_Subset
  <2>. HIDE DEF answered, failed, X
  <2>5. Cardinality(answered) \in Nat BY <2>4, FS_CardinalityType
  <2>6. Cardinality(failed) = 2 - Cardinality(answered) BY <1>2, <2>1, <2>2, <2>3
  <2>. QED BY <2>5, <2>6
<1>12. report.cost # Nothing => report.cost[1] = 8
  <2>. SUFFICES ASSUME report.cost # Nothing PROVE report.cost[1] = 8 OBVIOUS
  <2>1. (\A i \in X : rows[i].cost # Nothing) /\ report.cost[1] = SumFunctionOnSet(costs, X)
    BY <1>3 DEF IsOperations
  <2>2. \A i \in X : rows[i].cost[1] = 4 BY <1>4, <1>5, <2>1 DEF Optional, Nothing
  <2>3. costs[1] = 4 /\ costs[2] = 4 BY <2>2
  <2>. HIDE DEF costs
  <2>4. SumFunctionOnSet(costs, 1..2) = costs[1] + costs[2]
    <3>1. costs[1] \in Int /\ costs[2] \in Int BY <2>3
    <3>. QED BY <3>1, SumOfTwo
  <2>. QED BY <2>1, <2>3, <2>4
<1>. HIDE DEF values, X
<1>13. /\ Percentile(values, 50)[1] <= Percentile(values, 95)[1]
       /\ Percentile(values, 95)[1] <= Percentile(values, 99)[1]
       /\ \E i \in X : 100 * values[i] <= Percentile(values, 50)[1]
       /\ \E j \in X : Percentile(values, 99)[1] <= 100 * values[j]
  <2>1. 50 \in 0..100 /\ 95 \in 0..100 /\ 99 \in 0..100 /\ 50 <= 95 /\ 95 <= 99 OBVIOUS
  <2>2. \A q, r \in 0..100 : q <= r => /\ Percentile(values, q)[1] <= Percentile(values, r)[1]
                                       /\ \E i \in X : 100 * values[i] <= Percentile(values, q)[1]
                                       /\ \E j \in X : Percentile(values, r)[1] <= 100 * values[j]
    BY Zenon, <1>8, PercentilesGrow
  <2>. QED BY ZenonT(60), <2>1, <2>2
<1>14. /\ report.latency[50][1] <= report.latency[95][1] /\ report.latency[95][1] <= report.latency[99][1]
       /\ \E i \in X : 100 * input.latency[i] <= report.latency[50][1]
       /\ \E j \in X : report.latency[99][1] <= 100 * input.latency[j]
  BY ZenonT(60), <1>7, <1>9, <1>13
<1>15. report.cost # <<>> => report.cost[1] = 8 BY <1>12 DEF Nothing
<1>. HIDE DEF failed, answered
<1>16. Cardinality(answered) + SumFunction(report.errors) = 2 BY Zenon, <1>10, <1>11
<1>. QED BY Zenon, <1>14, <1>15, <1>16 DEF X, answered

(* What is scored is what was asked for (score_evaluation).                *)
LEMMA AskedIsScored == ASSUME Init PROVE ScoredAreSelected
<1>. DEFINE scored == Selected([input EXCEPT !.kind = input.reference], input.splitOf, DOMAIN input.splitOf, input.predicted)
            locked == {i \in scored : input.splitOf[i] = "locked_test"}
            rows == [i \in 1..2 |-> PredictedRow(i)]
            report == Operations(rows)
<1>1. input.kind = "request" =>
         /\ scored \subseteq input.predicted
         /\ input.split # "all" => \A i \in scored : input.splitOf[i] = input.split
         /\ (input.reference = "human_gold" /\ scored # {}) =>
               /\ \A i \in DOMAIN input.splitOf : i \in scored \/ input.splitOf[i] # input.split
               /\ locked # {} => input.unlock
  BY ZenonT(60), RequestsAreKept
<1>2. (input.kind = "rows" /\ RowsAreValid(rows, [i \in 1..2 |-> "development"], "s")) =>
         /\ Cardinality({i \in 1..2 : input.answered[i]}) + SumFunction(report.errors) = 2
         /\ report.latency[50][1] <= report.latency[95][1] /\ report.latency[95][1] <= report.latency[99][1]
         /\ \E i \in 1..2 : 100 * input.latency[i] <= report.latency[50][1]
         /\ \E j \in 1..2 : report.latency[99][1] <= 100 * input.latency[j]
         /\ report.cost # <<>> => report.cost[1] = 8
  BY Zenon, RowsAreCounted
<1>3. (input.kind = "rows" /\ RowsAreValid(rows, [i \in 1..2 |-> "development"], "s")) =>
         \E i, j \in 1..2 : /\ 100 * input.latency[i] <= report.latency[50][1]
                            /\ report.latency[99][1] <= 100 * input.latency[j]
  BY Zenon, <1>2
<1>. QED BY Zenon, <1>1, <1>2, <1>3 DEF ScoredAreSelected, PredictedRow

(* The measures of every report (_score_report, _selective, _auroc).       *)
LEMMA ReportsAreStandard == ASSUME Init PROVE MeasuresAreStandard
<1>. DEFINE report == ScoreReport(input.truth, CertainAnswers(1..3), 1..3)
            rows == Answered(input.said)
            choice == ChoiceReport(input.truth, CertainAnswers(1..2), 1..2)
            right == Correct(input.truth, input.said)
            noul == NoulReport(input.truth, NoulAnswers(input.said))
            swapped == NoulReport([i \in DOMAIN input.truth |-> ~input.truth[i]], NoulAnswers(input.said))
            reversed == NoulReport(Reverse(input.truth), NoulAnswers(Reverse(input.said)))
<1>1. input.kind = "levels" =>
         /\ (report.kappa = <<>>) = (rows = {})
         /\ rows # {} => /\ report.kappa[1] <= report.kappa[2]
                         /\ One(report.kappa) = (right = rows)
                         /\ (report.mae[1] = 0) = (right = rows)
                         /\ (report.brier[1] = 0) = (right = rows)
                         /\ (report.ece[1] = 0) = (right = rows)
  BY SMT, LevelsAreStandard
<1>2. (input.kind = "levels" /\ rows # {}) =>
         \A perfect \in {One(report.kappa), report.mae[1] = 0, report.brier[1] = 0, report.ece[1] = 0} :
            perfect = (right = rows)
  BY Zenon, <1>1
<1>3. input.kind = "classes" =>
         /\ choice.classification = Classification(input.truth, input.said, 1..2)
         /\ choice.brier # <<>> => (choice.brier[1] = 0) = (rows = right)
         /\ choice.selective[99].accepted = choice.selective[0].accepted
  BY Zenon, ClassesAreStandard
<1>4. input.kind = "pairs" =>
         /\ \A i \in DOMAIN input.pairs : Cardinality({bin \in 0..9 : InBin(input.pairs[i], bin)}) = 1
         /\ AtMost(Ece(input.pairs), <<1, 1>>)
         /\ \A t, u \in Thresholds : t <= u => Selective(input.pairs)[u].accepted <= Selective(input.pairs)[t].accepted
  BY Zenon, PairsAreStandard
<1>5. input.kind = "nouls" =>
         /\ noul.auroc # <<>> => noul.auroc[1] + swapped.auroc[1] = noul.auroc[2]
         /\ noul.auroc = reversed.auroc
         /\ (noul.brier # <<>> /\ noul.brier[1] = 0) =>
               /\ noul.ece[1] = 0 /\ noul.cells.fp = 0
               /\ noul.auroc # <<>> => One(noul.auroc)
               /\ noul.auprc # <<>> => One(noul.auprc)
  BY Zenon, NoulsAreStandard
<1>. QED BY Zenon, <1>1, <1>2, <1>3, <1>4, <1>5 DEF MeasuresAreStandard

(* What is scored is what was asked for, a prediction run gains nothing by *)
(* failing, and its measures have the properties that make them comparable,*)
(* whatever the number of rows of a split (score_evaluation).              *)
THEOREM ScoresStandard == Spec => []ScoresAreStandard
<1>1. ASSUME Init PROVE ScoresAreStandard
  BY <1>1, AskedIsScored, ClassesNeverGain, ReportsAreStandard DEF ScoresAreStandard
<1>. QED BY <1>1, InputStays, PTL

=============================================================================
