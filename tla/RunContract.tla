----------------------------- MODULE RunContract -----------------------------
(***************************************************************************)
(* What the workbench promises about classification runs, without jobs,    *)
(* leases and workers. A run's owner starts, stops and resumes it; results *)
(* are added only while it is active and are never changed or taken back;  *)
(* a completed run is final; a dataset whose deletion was requested        *)
(* withdraws its runs for good, and the purge removes all their results.   *)
(***************************************************************************)
CONSTANTS Runs, Records

VARIABLES
    stage,   \* "none", "active", "stopped", "completed", "withdrawn" or "purged"
    results  \* pairs of a run and a record

promise == <<stage, results>>

Init ==
    /\ stage = [r \in Runs |-> "none"]
    /\ results = {}

(* A full run may start with the results of a completed sample. *)
Start(r, reused) ==
    /\ stage[r] = "none"
    /\ reused # {} =>
          \E sample \in Runs : /\ stage[sample] = "completed"
                               /\ reused = {c \in Records : <<sample, c>> \in results}
    /\ stage' = [stage EXCEPT ![r] = "active"]
    /\ results' = results \cup ({r} \X reused)

Store(r, c) ==
    /\ stage[r] = "active"
    /\ <<r, c>> \notin results
    /\ results' = results \cup {<<r, c>>}
    /\ UNCHANGED stage

Stop(stopped) ==
    /\ \A r \in stopped : stage[r] = "active"
    /\ stage' = [r \in Runs |-> IF r \in stopped THEN "stopped" ELSE stage[r]]
    /\ UNCHANGED results

Resume(r) ==
    /\ stage[r] = "stopped"
    /\ stage' = [stage EXCEPT ![r] = "active"]
    /\ UNCHANGED results

Complete(r) ==
    /\ stage[r] = "active"
    /\ stage' = [stage EXCEPT ![r] = "completed"]
    /\ UNCHANGED results

Withdraw(withdrawn) ==
    /\ \A r \in withdrawn : stage[r] \in {"active", "stopped", "completed"}
    /\ stage' = [r \in Runs |-> IF r \in withdrawn THEN "withdrawn" ELSE stage[r]]
    /\ UNCHANGED results

Purge(purged) ==
    /\ \A r \in purged : stage[r] = "withdrawn"
    /\ stage' = [r \in Runs |-> IF r \in purged THEN "purged" ELSE stage[r]]
    /\ results' = {p \in results : p[1] \notin purged}

Next ==
    \/ \E r \in Runs : \/ \E reused \in SUBSET Records : Start(r, reused)
                       \/ \E c \in Records : Store(r, c)
                       \/ Resume(r) \/ Complete(r)
    \/ \E S \in SUBSET Runs : Stop(S) \/ Withdraw(S) \/ Purge(S)

Spec == Init /\ [][Next]_promise
=============================================================================
