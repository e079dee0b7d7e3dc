----------------------------- MODULE Annotations -----------------------------
(***************************************************************************)
(* The evaluation sample and its human labels: evaluation/sample.py, the   *)
(* readiness check of evaluation/annotations.py and what                   *)
(* evaluation/scoring.py takes as the reference answer of a record.        *)
(*                                                                         *)
(* The answers of an annotation are one value: it stands for the answers   *)
(* to all questions, and Invalid for any that a validator refuses. A       *)
(* result is a sequence of one, Nothing when an exception ends the command.*)
(***************************************************************************)
EXTENDS Optional, Integers, Sequences, SequencesExt

Invalid == "invalid"
Unset == "unset"

-----------------------------------------------------------------------------
(* Selection of the sample *)

(* Candidates are named by their rank, a hash of the id; `of' maps a       *)
(* candidate to its stratum, Unset for those outside every stratum.        *)
StratumOf(candidates, of, stratum) == {c \in candidates : of[c] = stratum}
Strata(candidates, of) == {of[c] : c \in candidates} \ {Unset}

FirstRanked(candidates, n) == {c \in candidates : Cardinality({d \in candidates : d < c}) < n}

Satisfiable(candidates, of, minimum) ==
    \A s \in Strata(candidates, of) : Cardinality(StratumOf(candidates, of, s)) >= minimum

TakeMinimum(candidates, of, minimum) ==
    UNION {FirstRanked(StratumOf(candidates, of, s), minimum) : s \in Strata(candidates, of)}

(* Fault: the best ranked of all are taken, whatever was taken before. *)
SelectByRank(candidates, rules, size) ==
    LET needed == UNION {TakeMinimum(candidates, r.of, r.minimum) : r \in rules}
    IN  IF Cardinality(needed) > size THEN Nothing ELSE <<FirstRanked(candidates, size)>>

(* Every stratum of every rule has its minimum, and the best ranked of the  *)
(* others fill the sample.                                                 *)
Select(candidates, rules, size) ==
    LET needed == UNION {TakeMinimum(candidates, r.of, r.minimum) : r \in rules}
        free == size - Cardinality(needed)
    IN  IF \/ \E r \in rules : ~Satisfiable(candidates, r.of, r.minimum)
           \/ free < 0 \/ Cardinality(candidates) < size
        THEN Nothing
        ELSE <<needed \cup FirstRanked(candidates \ needed, free)>>

(* Fault: the split with the fewest records is filled first. *)
NextSplitByCount(counts, targets) ==
    CHOOSE s \in DOMAIN targets :
        /\ counts[s] < targets[s]
        /\ \A t \in DOMAIN targets : counts[t] < targets[t] =>
              counts[s] < counts[t] \/ (counts[s] = counts[t] /\ s <= t)

(* The split with the smallest share of its target; splits are numbered in *)
(* the order of their names, which decides between equals.                 *)
NextSplit(counts, targets) ==
    CHOOSE s \in DOMAIN targets :
        /\ counts[s] < targets[s]
        /\ \A t \in DOMAIN targets : counts[t] < targets[t] =>
              \/ counts[s] * targets[t] < counts[t] * targets[s]
              \/ counts[s] * targets[t] = counts[t] * targets[s] /\ s <= t

(* The splits of the selected rows, which are ordered by stratum and rank. *)
AssignSplits(rows, targets) ==
    LET none == [s \in DOMAIN targets |-> 0]
        assign(done, i) ==
            LET split == NextSplit(done.counts, targets)
            IN  [counts |-> [done.counts EXCEPT ![split] = @ + 1],
                 splits |-> Append(done.splits, split)]
    IN  FoldLeft(assign, [counts |-> none, splits |-> <<>>], [i \in 1..rows |-> i]).splits

(* Rows here are numbered by the hash that picks the second passes.        *)
AssignSecondPass(rows, splitOf, targets) ==
    UNION {FirstRanked({r \in rows : splitOf[r] = s}, targets[s]) : s \in DOMAIN targets}

-----------------------------------------------------------------------------
(* Labels *)

Required(record) == IF record.second THEN 2 ELSE 1

Passes(label) == {label.annotations[i].pass : i \in DOMAIN label.annotations}

(* An annotation is refused for its pass, its missing author or its answers. *)
AnnotationsAreValid(label) ==
    /\ \A i, j \in DOMAIN label.annotations :
          i # j => label.annotations[i].pass # label.annotations[j].pass
    /\ Passes(label) \subseteq {1, 2}
    /\ \A a \in Range(label.annotations) : a.signed /\ a.answers # Invalid

Disagree(label) ==
    Len(label.annotations) = 2 /\ label.annotations[1].answers # label.annotations[2].answers

(* An adjudication is Nothing or a sequence of one. *)
Adjudicated(label) == label.adjudication # Nothing

AdjudicationIsValid(label) ==
    Adjudicated(label) => /\ Disagree(label) /\ label.adjudication[1].signed
                          /\ label.adjudication[1].answers # Invalid

(* validate_annotation_readiness, for the label of one record. *)
RowIsValid(record, label) ==
    /\ label.split = record.split
    /\ Len(label.annotations) <= Required(record)
    /\ AnnotationsAreValid(label) /\ AdjudicationIsValid(label)

(* Fault: an adjudication makes a label complete without its second pass. *)
CompleteWhenAdjudicated(record, label) ==
    Len(label.annotations) = Required(record) \/ Adjudicated(label)

Complete(record, label) ==
    /\ Len(label.annotations) = Required(record)
    /\ Disagree(label) => Adjudicated(label)

(* The counts by split; records and labels are functions from their ids.    *)
Readiness(records, labels, size) ==
    LET split(s) ==
            LET ids == {i \in DOMAIN records : records[i].split = s}
                complete == {i \in ids : Complete(records[i], labels[i])}
            IN  [total |-> Cardinality(ids), complete |-> Cardinality(complete),
                 incomplete |-> Cardinality(ids \ complete),
                 disagreements |-> Cardinality({i \in ids : Disagree(labels[i])}),
                 adjudicated |-> Cardinality({i \in ids : Adjudicated(labels[i])}),
                 ready |-> complete = ids]
        splits == {records[i].split : i \in DOMAIN records}
    IN  IF \/ DOMAIN records # DOMAIN labels
           \/ \E i \in DOMAIN records : ~RowIsValid(records[i], labels[i])
        THEN Nothing
        ELSE <<[splits |-> [s \in splits |-> split(s)],
              ready |-> /\ Cardinality(DOMAIN records) = size
                        /\ \A i \in DOMAIN records : Complete(records[i], labels[i])]>>

(* _resolved_gold: the reference answers of a record, for the scorer.       *)
ResolvedGold(record, label) ==
    IF /\ label.split = record.split /\ label.second = record.second
       /\ Len(label.annotations) = Required(record)
       /\ AnnotationsAreValid(label) /\ Passes(label) = 1..Required(record)
       /\ Disagree(label) <=> Adjudicated(label)
       /\ AdjudicationIsValid(label)
    THEN <<IF Disagree(label) THEN label.adjudication[1].answers ELSE label.annotations[1].answers>>
    ELSE Nothing

=============================================================================
