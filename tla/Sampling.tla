------------------------------- MODULE Sampling -------------------------------
(***************************************************************************)
(* The records that a Workbench run takes: sample_records of               *)
(* workbench/analysis.py and runs/preview of workbench/server.py. A record *)
(* is the number of its hash, a bucket the number of its language and month.*)
(***************************************************************************)
EXTENDS Integers, FiniteSets, SequencesExt

(* A round of sample_records: the last row of each bucket that has one left, *)
(* in the order of the buckets until the sample is full. Rows are numbered  *)
(* by the hash of their id.                                                *)
SampleRound(rows, bucketOf, left) ==
    LET last == {r \in rows : \A s \in rows : bucketOf[s] = bucketOf[r] => s <= r}
    IN  {r \in last : Cardinality({s \in last : bucketOf[s] < bucketOf[r]}) < left}

(* Fault: a bucket is drawn empty before the next one. *)
SampleInOrder(rows, bucketOf, count) ==
    {r \in rows : Cardinality({s \in rows : \/ bucketOf[s] < bucketOf[r]
                                            \/ bucketOf[s] = bucketOf[r] /\ s <= r}) <= count}

SampleRecords(rows, bucketOf, count) ==
    FoldLeft(LAMBDA chosen, round :
                 chosen \cup SampleRound(rows \ chosen, bucketOf, count - Cardinality(chosen)),
             {}, [round \in 1..count |-> round])

(* runs/preview: what a run would send, without the records it reuses.      *)
Preview(rows, bucketOf, sample, count, reused, blocked) ==
    LET selected == (IF sample THEN SampleRecords(rows, bucketOf, count) ELSE rows) \ reused
    IN  [selected |-> Cardinality(selected), reused |-> Cardinality(reused),
         blocked |-> Cardinality(selected \cap blocked)]
=============================================================================
