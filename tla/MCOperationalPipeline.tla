------------------------ MODULE MCOperationalPipeline ------------------------
(* Finite instances of the operational pipeline for TLC. *)
EXTENDS OperationalPipeline, TLC

CONSTANTS w1, w2, j1, j2, d1, d2, f1, c1, c2

(* Two jobs about one record (another requested model) whose decisions may *)
(* coincide: the decision identity has the resolved model only.            *)
FeedbackOfBoth == [j \in Jobs |-> f1]
DecisionsOfBoth == (j1 :> {d1}) @@ (j2 :> {d1, d2})
DecisionsOfOne == [j \in Jobs |-> Decisions]

WorkerSymmetry == Permutations(Workers)
=============================================================================
