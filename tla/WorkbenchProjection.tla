------------------------- MODULE WorkbenchProjection -------------------------
(***************************************************************************)
(* Projection of workbench results into ClickHouse, and the purge of a     *)
(* deleted dataset: project_and_purge in workbench/server.py with the      *)
(* outbox of migration 006. The deployment runs one processing loop; every *)
(* statement it sends is a step, so that commands of the owner, crashes    *)
(* and the clock come between any two of them. ClickHouse is a set of      *)
(* facts: the view over its ReplacingMergeTree hides repeated inserts. An  *)
(* insert whose client is gone may still be executed.                      *)
(*                                                                         *)
(* Data abstractions. An event is the result it was stored for. The loop   *)
(* alone draws lease tokens and settles a batch before it claims another,  *)
(* so a row carries the token of the current batch exactly when it is      *)
(* `publishing' and in `batch'; the batch of a dead loop is empty.         *)
(***************************************************************************)
EXTENDS Naturals, FiniteSets

CONSTANTS
    Datasets,
    Events,
    DatasetOf,    \* the dataset of each event
    BatchSize,    \* LIMIT of the claim, 100
    MaxAttempts,  \* the attempt limit of an event, 8
    SlowServer,   \* may ClickHouse execute an insert after its client timed out?
    None

ASSUME ProjectionAssumption ==
    /\ DatasetOf \in [Events -> Datasets]
    /\ BatchSize \in Nat \ {0}
    /\ MaxAttempts \in Nat \ {0}
    /\ SlowServer \in BOOLEAN
    /\ None \notin Datasets

VARIABLES
    datasets,     \* workbench.datasets: the status
    classifying,  \* datasets with a running job whose lease has not lapsed
    outbox,       \* workbench.outbox, by event
    facts,        \* events with a row in ClickHouse
    inflight,     \* events of abandoned inserts that may still be executed
    pc,           \* the statement the loop sends next
    todo,         \* deleting datasets it has yet to look at
    target,       \* the one it is purging
    batch         \* the events it claimed

rows == <<datasets, classifying, outbox>>
clickhouse == <<facts, inflight>>
loop == <<pc, todo, target, batch>>
vars == <<rows, clickhouse, loop>>

(* `lapsed': leased_until of a publishing event has passed. *)
EventRow ==
    [status : {"none", "pending", "publishing", "published", "dead", "purged"},
     attempt : 0..MaxAttempts, lapsed : BOOLEAN]
NoRow == [status |-> "none", attempt |-> 0, lapsed |-> FALSE]

EventsOf(d) == {e \in Events : DatasetOf[e] = d}
Set(row, status) == [status |-> status, attempt |-> row.attempt, lapsed |-> FALSE]

TypeOK ==
    /\ datasets \in [Datasets -> {"ready", "deleting", "deleted"}]
    /\ classifying \subseteq Datasets
    /\ outbox \in [Events -> EventRow]
    /\ facts \subseteq Events
    /\ inflight \subseteq Events
    /\ pc \in {"scan", "drain", "erase", "purge", "insert", "ack", "nack"}
    /\ todo \subseteq Datasets
    /\ target \in Datasets \cup {None}
    /\ batch \subseteq Events

Init ==
    /\ datasets = [d \in Datasets |-> "ready"]
    /\ classifying = {}
    /\ outbox = [e \in Events |-> NoRow]
    /\ facts = {}
    /\ inflight = {}
    /\ pc = "scan"
    /\ todo = {}
    /\ target = None
    /\ batch = {}

-----------------------------------------------------------------------------
(* The rest of the workbench; WorkbenchRuns has it in detail *)

(* store_result, from finish or create_run, both of which lock rows that   *)
(* mark_delete needs: the dataset is ready.                                *)
StoreEvent(e) ==
    /\ datasets[DatasetOf[e]] = "ready"
    /\ outbox[e].status = "none"
    /\ outbox' = [outbox EXCEPT ![e] = Set(NoRow, "pending")]
    /\ UNCHANGED <<datasets, classifying, clickhouse, loop>>

(* A job of the dataset is claimed, or is settled or loses its lease. *)
Classify(d) ==
    /\ d \notin classifying /\ datasets[d] = "ready"
    /\ classifying' = classifying \cup {d}
    /\ UNCHANGED <<datasets, outbox, clickhouse, loop>>

EndClassify(d) ==
    /\ d \in classifying
    /\ classifying' = classifying \ {d}
    /\ UNCHANGED <<datasets, outbox, clickhouse, loop>>

MarkDelete(d) ==
    /\ datasets[d] = "ready"
    /\ datasets' = [datasets EXCEPT ![d] = "deleting"]
    /\ UNCHANGED <<classifying, outbox, clickhouse, loop>>

-----------------------------------------------------------------------------
(* Purging *)

Scan ==
    /\ pc = "scan"
    /\ todo' = {d \in Datasets : datasets[d] = "deleting"}
    /\ pc' = "drain"
    /\ UNCHANGED <<rows, clickhouse, target, batch>>

(* Fault: events that are being inserted do not delay the purge. *)
BusyClassifying(d) == d \in classifying

(* Fault: a crash on the last attempt blocks the purge for ever. *)
BusyPublishing(d) ==
    d \in classifying \/ \E e \in EventsOf(d) : outbox[e].status = "publishing"

Busy(d) ==
    \/ d \in classifying
    \/ \E e \in EventsOf(d) : outbox[e].status = "publishing" /\ ~outbox[e].lapsed

(* A busy dataset is left for the next round. *)
Check(d) ==
    /\ pc = "drain" /\ d \in todo
    /\ todo' = todo \ {d}
    /\ IF Busy(d) THEN UNCHANGED <<pc, target>>
       ELSE pc' = "erase" /\ target' = d
    /\ UNCHANGED <<rows, clickhouse, batch>>

(* mutations_sync=2: the answer comes after the rows are gone.             *)
Erase ==
    /\ pc = "erase"
    /\ facts' = facts \ EventsOf(target)
    /\ pc' = "purge"
    /\ UNCHANGED <<rows, inflight, todo, target, batch>>

(* No answer: the exception ends the round; the deletion may have applied. *)
EraseFails ==
    /\ pc = "erase"
    /\ \E erased \in {facts, facts \ EventsOf(target)} : facts' = erased
    /\ pc' = "scan" /\ todo' = {} /\ target' = None
    /\ UNCHANGED <<rows, inflight, batch>>

(* The transaction of the purge role; a single loop never finds the        *)
(* dataset in another status.                                              *)
Purge ==
    /\ pc = "purge"
    /\ datasets[target] = "deleting"
    /\ datasets' = [datasets EXCEPT ![target] = "deleted"]
    /\ outbox' = [e \in Events |-> IF e \in EventsOf(target) THEN Set(NoRow, "purged")
                                   ELSE outbox[e]]
    /\ classifying' = classifying \ {target}
    /\ pc' = "drain" /\ target' = None
    /\ UNCHANGED <<clickhouse, todo, batch>>

-----------------------------------------------------------------------------
(* Projecting *)

(* Fault: the lease of a dead loop is never taken over. *)
NotReclaimable(e) ==
    datasets[DatasetOf[e]] = "ready" /\ outbox[e].status = "pending"

Claimable(e) ==
    /\ datasets[DatasetOf[e]] = "ready"
    /\ outbox[e].attempt < MaxAttempts
    /\ \/ outbox[e].status = "pending"
       \/ outbox[e].status = "publishing" /\ outbox[e].lapsed

Ready == {e \in Events : Claimable(e)}

(* Nothing to project: the loop classifies, waits and starts again. *)
Idle ==
    /\ pc = "drain" /\ todo = {}
    /\ Ready = {}
    /\ pc' = "scan"
    /\ UNCHANGED <<rows, clickhouse, todo, target, batch>>

Claim ==
    /\ pc = "drain" /\ todo = {}
    /\ \E claimed \in SUBSET Ready :
         /\ claimed # {} /\ Cardinality(claimed) <= BatchSize
         /\ Cardinality(claimed) = BatchSize \/ claimed = Ready
         /\ batch' = claimed
         /\ outbox' = [e \in Events |->
                IF e \in claimed
                THEN [status |-> "publishing", attempt |-> outbox[e].attempt + 1,
                      lapsed |-> FALSE]
                ELSE outbox[e]]
    /\ pc' = "insert"
    /\ UNCHANGED <<datasets, classifying, clickhouse, todo, target>>

(* Fault: a failed insert is acknowledged like a successful one. *)
InsertSwallowed ==
    /\ pc = "insert"
    /\ \E applied \in {{}, batch} : facts' = facts \cup applied
    /\ pc' = "ack"
    /\ UNCHANGED <<rows, inflight, todo, target, batch>>

Insert ==
    /\ pc = "insert"
    /\ facts' = facts \cup batch
    /\ pc' = "ack"
    /\ UNCHANGED <<rows, inflight, todo, target, batch>>

(* URLError or a timeout after 30 seconds. The insert was executed or not, *)
(* or a slow server still executes it.                                     *)
InsertFails ==
    /\ pc = "insert"
    /\ \/ \E applied \in {{}, batch} : facts' = facts \cup applied /\ UNCHANGED inflight
       \/ SlowServer /\ inflight' = inflight \cup batch /\ UNCHANGED facts
    /\ pc' = "nack"
    /\ UNCHANGED <<rows, todo, target, batch>>

(* Events of the batch that still carry its token get their new status.    *)
Settle(status) ==
    /\ outbox' = [e \in Events |->
           IF e \in batch /\ outbox[e].status = "publishing"
           THEN Set(outbox[e], status[e]) ELSE outbox[e]]
    /\ pc' = "scan" /\ batch' = {}
    /\ UNCHANGED <<datasets, classifying, clickhouse, todo, target>>

Acknowledge ==
    /\ pc = "ack"
    /\ Settle([e \in Events |-> "published"])

(* The lease is given up at once; the last attempt makes the event dead.   *)
Release ==
    /\ pc = "nack"
    /\ Settle([e \in Events |->
           IF outbox[e].attempt >= MaxAttempts THEN "dead" ELSE "pending"])

-----------------------------------------------------------------------------
(* The environment *)

(* The process dies or an exception restarts the loop. A request under way *)
(* is left behind and may still be executed.                               *)
Crash ==
    /\ pc # "scan"
    /\ inflight' = IF pc = "insert" THEN inflight \cup batch ELSE inflight
    /\ pc' = "scan" /\ todo' = {} /\ target' = None /\ batch' = {}
    /\ UNCHANGED <<rows, facts>>

(* ClickHouse executes or forgets an abandoned insert. *)
Land(e) ==
    /\ e \in inflight
    /\ \E landed \in {facts, facts \cup {e}} : facts' = landed
    /\ inflight' = inflight \ {e}
    /\ UNCHANGED <<rows, loop>>

(* The 90 seconds of the lease pass. Assumed: ClickHouse is done with a    *)
(* request, whether its client waits or is gone, before they do.           *)
EventClock(e) ==
    /\ outbox[e].status = "publishing" /\ ~outbox[e].lapsed
    /\ e \notin inflight /\ ~(e \in batch /\ pc = "insert")
    /\ outbox' = [outbox EXCEPT ![e] =
           [status |-> "publishing", attempt |-> outbox[e].attempt, lapsed |-> TRUE]]
    /\ UNCHANGED <<datasets, classifying, clickhouse, loop>>

Purging == Scan \/ (\E d \in Datasets : Check(d)) \/ Erase \/ EraseFails \/ Purge
Projecting == Idle \/ Claim \/ Insert \/ InsertFails \/ Acknowledge \/ Release

Next ==
    \/ Purging
    \/ Projecting
    \/ \E d \in Datasets : Classify(d) \/ EndClassify(d) \/ MarkDelete(d)
    \/ \E e \in Events : StoreEvent(e) \/ Land(e) \/ EventClock(e)
    \/ Crash

Spec == Init /\ [][Next]_vars

(***************************************************************************)
(* The loop runs for as long as its process, which is restarted            *)
(* (`restart: unless-stopped', `while True'). Time passes, requests and    *)
(* classifications end. A crash or an unanswered deletion may come again   *)
(* and again, but not every time the loop reaches the same statement:      *)
(* strong fairness on the statements between the scan and the purge.       *)
(***************************************************************************)
Fairness ==
    /\ WF_vars(Scan) /\ WF_vars(Idle)
    /\ WF_vars(Insert \/ InsertFails) /\ WF_vars(Acknowledge) /\ WF_vars(Release)
    /\ SF_vars(Claim) /\ SF_vars(Erase) /\ SF_vars(Purge)
    /\ \A d \in Datasets : SF_vars(Check(d)) /\ WF_vars(EndClassify(d))
    /\ \A e \in Events : WF_vars(Land(e)) /\ WF_vars(EventClock(e))

FairSpec == Spec /\ Fairness

-----------------------------------------------------------------------------
(* Properties *)

(* Once a dataset is deleted, no fact of it is in ClickHouse, and none     *)
(* comes back from a request that was left behind, whatever crashed or     *)
(* failed between the statements of the purge and of the projection.       *)
ErasureIsComplete ==
    \A e \in Events : datasets[DatasetOf[e]] = "deleted" => e \notin facts

(* While its dataset is there, a published event is in ClickHouse.         *)
PublishedIsProjected ==
    \A e \in Events :
        outbox[e].status = "published" /\ datasets[DatasetOf[e]] = "ready" => e \in facts

(* A deletion is finished, although projections of the dataset crashed,    *)
(* failed or were given up at any point.                                   *)
DeletionCompletes ==
    \A d \in Datasets : (datasets[d] = "deleting") ~> (datasets[d] = "deleted")

(* An event leaves the queue, or its dataset is withdrawn, or its last     *)
(* attempt was cut short.                                                  *)
EventsSettle ==
    \A e \in Events :
        (outbox[e].status = "pending") ~>
            \/ outbox[e].status \in {"published", "dead", "purged"}
            \/ outbox[e].status = "publishing" /\ outbox[e].attempt = MaxAttempts
            \/ datasets[DatasetOf[e]] # "ready"

(* What the documentation says of the lease/outbox pattern: work whose     *)
(* attempts are used up ends `dead'.                                       *)
EventsTerminate ==
    \A e \in Events :
        (outbox[e].status = "pending") ~>
            \/ outbox[e].status \in {"published", "dead", "purged"}
            \/ datasets[DatasetOf[e]] # "ready"
=============================================================================
