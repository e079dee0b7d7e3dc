------------------------- MODULE OperationalPipeline -------------------------
(***************************************************************************)
(* The operational pipeline: ingestion enqueues records and jobs, workers  *)
(* lease jobs, commit decisions together with an outbox event, and the     *)
(* same workers lease outbox events and project them to ClickHouse.        *)
(*                                                                         *)
(* Each worker is one run of service.drain_once after another. A step of   *)
(* the model is one PostgreSQL transaction, one engine call or one         *)
(* ClickHouse request; workers interleave between steps, clocks pass and   *)
(* workers die at any point. Transactions are atomic: every table change   *)
(* of one of them is in one action.                                        *)
(***************************************************************************)
EXTENDS Naturals

CONSTANTS
    Workers,           \* decision-worker processes
    Jobs,              \* idempotency keys: feedback x schema x engine x model
    Feedback,          \* feedback identities
    Contents,          \* distinguishable record contents
    Decisions,         \* decision identities; an event has its decision's identity
    FeedbackOf,        \* the record a job is about
    DecisionsOf,       \* the decisions an engine call for the job can produce
    Eligible,          \* decisions whose event has an eligible answer
    MaxJobAttempts, MaxEventAttempts,
    None

Destinations == {"clickhouse.signal_facts", "skipped.uncalibrated"}

ASSUME PipelineAssumption ==
    /\ FeedbackOf \in [Jobs -> Feedback]
    /\ DecisionsOf \in [Jobs -> SUBSET Decisions]
    /\ Eligible \subseteq Decisions
    /\ MaxJobAttempts \in Nat \ {0}
    /\ MaxEventAttempts \in Nat \ {0}
    /\ None \notin Jobs \cup Contents \cup Decisions \cup Destinations

VARIABLES
    records,     \* feedback_records with their restricted text: content or None
    jobs,        \* processing_jobs
    decisions,   \* decision_runs with their answers: the job that wrote it, or None
    outbox,      \* outbox_events, by decision
    ledger,      \* projection_ledger: the destination, or None
    facts,       \* events in the deduplicated reads of signal_facts (ClickHouse)
    pc,          \* where in drain_once each worker is
    jobLease,    \* the ClaimedJob a worker works on and the decision it made
    eventLease   \* the ClaimedEvent a worker works on and the destination it chose

tables == <<records, jobs, decisions, outbox, ledger>>
local == <<pc, jobLease, eventLease>>
vars == <<tables, facts, local>>

Job == INSTANCE LeasedRow
         WITH MaxAttempts <- MaxJobAttempts, Leased <- "running", Done <- "succeeded"
Event == INSTANCE LeasedRow
         WITH MaxAttempts <- MaxEventAttempts, Leased <- "publishing", Done <- "published"

Steps == {"claim_job", "decide", "persist_success", "persist_failure",
          "claim_event", "project", "acknowledge", "projection_failure"}

NoJob == [job |-> None, token |-> 0, decision |-> None]
NoEvent == [event |-> None, token |-> 0, destination |-> None]

JobLeases ==
    [job : Jobs \cup {None}, token : 0..MaxJobAttempts, decision : Decisions \cup {None}]
EventLeases ==
    [event : Decisions \cup {None}, token : 0..MaxEventAttempts,
     destination : Destinations \cup {None}]

TypeOK ==
    /\ records \in [Feedback -> Contents \cup {None}]
    /\ jobs \in [Jobs -> Job!Row]
    /\ decisions \in [Decisions -> Jobs \cup {None}]
    /\ outbox \in [Decisions -> Event!Row]
    /\ ledger \in [Decisions -> Destinations \cup {None}]
    /\ facts \in SUBSET Decisions
    /\ pc \in [Workers -> Steps]
    /\ jobLease \in [Workers -> JobLeases]
    /\ eventLease \in [Workers -> EventLeases]

Init ==
    /\ records = [f \in Feedback |-> None]
    /\ jobs = [j \in Jobs |-> Job!Absent]
    /\ decisions = [d \in Decisions |-> None]
    /\ outbox = [d \in Decisions |-> Event!Absent]
    /\ ledger = [d \in Decisions |-> None]
    /\ facts = {}
    /\ pc = [w \in Workers |-> "claim_job"]
    /\ jobLease = [w \in Workers |-> NoJob]
    /\ eventLease = [w \in Workers |-> NoEvent]

-----------------------------------------------------------------------------
(* Ingestion *)

(***************************************************************************)
(* enqueue_record and EnqueueAsync: insert the record unless its identity  *)
(* exists, and the job unless its idempotency key exists. A request whose  *)
(* content differs from the stored record raises and rolls back: no step.  *)
(***************************************************************************)
EnqueueRecord(j, c) ==
    /\ records[FeedbackOf[j]] \in {None, c}
    /\ records' = [records EXCEPT ![FeedbackOf[j]] = c]
    /\ jobs' = [jobs EXCEPT ![j] = IF Job!Exists(@) THEN @ ELSE Job!Fresh]
    /\ UNCHANGED <<decisions, outbox, ledger, facts, local>>

-----------------------------------------------------------------------------
(* The first half of drain_once: one job *)

(* The rows a poll may find locked by the transactions of other workers.   *)
LockableBesides(w, rows) ==
    IF Workers = {w} THEN {{}} ELSE SUBSET DOMAIN rows

(***************************************************************************)
(* claim_job. The poll picks one candidate, in created_at order among the  *)
(* rows it can lock; the order is abstracted to any candidate. A poll that *)
(* finds none still reaps, and drain_once goes on to the outbox.           *)
(***************************************************************************)
ClaimJob(w) ==
    /\ pc[w] = "claim_job"
    /\ \E locked \in LockableBesides(w, jobs) :
         LET free == Jobs \ locked
             candidates == {j \in free : Job!Claimable(jobs[j])}
         IN  \/ \E j \in candidates :
                  /\ jobs' = Job!Polled(jobs, free, {j})
                  /\ jobLease' = [jobLease EXCEPT ![w] =
                         [job |-> j, token |-> jobs'[j].token, decision |-> None]]
                  /\ pc' = [pc EXCEPT ![w] = "decide"]
             \/ /\ candidates = {}
                /\ jobs' = Job!Polled(jobs, free, {})
                /\ pc' = [pc EXCEPT ![w] = "claim_event"]
                /\ UNCHANGED jobLease
    /\ UNCHANGED <<records, decisions, outbox, ledger, facts, eventLease>>

(***************************************************************************)
(* Schema check, load_record, redaction, engine.decide and the event: the  *)
(* worker has a decision in memory, or an exception anywhere on the way.   *)
(***************************************************************************)
Decide(w) ==
    /\ pc[w] = "decide"
    /\ \/ \E d \in DecisionsOf[jobLease[w].job] :
            /\ jobLease' = [jobLease EXCEPT ![w].decision = d]
            /\ pc' = [pc EXCEPT ![w] = "persist_success"]
       \/ /\ pc' = [pc EXCEPT ![w] = "persist_failure"]
          /\ UNCHANGED jobLease
    /\ UNCHANGED <<tables, facts, eventLease>>

(* decision_runs.job_id is UNIQUE: a second decision for the job raises.   *)
JobIdFree(j, d) ==
    decisions[d] # None \/ \A other \in Decisions : decisions[other] # j

(* Fault: the fenced update matches no row and the transaction commits.    *)
PersistSuccessWithoutRollback(w) ==
    LET j == jobLease[w].job
        d == jobLease[w].decision
        held == Job!HeldBy(jobs[j], jobLease[w].token)
    IN  /\ pc[w] = "persist_success"
        /\ decisions' = [decisions EXCEPT ![d] = IF @ = None THEN j ELSE @]
        /\ outbox' = [outbox EXCEPT ![d] = IF Event!Exists(@) THEN @ ELSE Event!Fresh]
        /\ jobs' = [jobs EXCEPT ![j] = IF held THEN Job!Completed(@) ELSE @]
        /\ pc' = [pc EXCEPT ![w] = IF held THEN "claim_event" ELSE "persist_failure"]
        /\ jobLease' = [jobLease EXCEPT ![w] = IF held THEN NoJob ELSE @]
        /\ UNCHANGED <<records, ledger, facts, eventLease>>

(***************************************************************************)
(* persist_success in one transaction: the decision and its answers, the   *)
(* outbox event and the fenced update of the job. If the update finds no   *)
(* row, or a constraint fails, everything rolls back and drain_once goes   *)
(* to the failure callback. It also goes there when something after the    *)
(* commit raises (telemetry runs inside the same try block).               *)
(***************************************************************************)
PersistSuccess(w) ==
    LET j == jobLease[w].job
        d == jobLease[w].decision
        commits == Job!HeldBy(jobs[j], jobLease[w].token) /\ JobIdFree(j, d)
    IN  /\ pc[w] = "persist_success"
        /\ \/ /\ commits
              /\ decisions' = [decisions EXCEPT ![d] = IF @ = None THEN j ELSE @]
              /\ outbox' = [outbox EXCEPT ![d] = IF Event!Exists(@) THEN @ ELSE Event!Fresh]
              /\ jobs' = [jobs EXCEPT ![j] = Job!Completed(@)]
              /\ \/ /\ pc' = [pc EXCEPT ![w] = "claim_event"]
                    /\ jobLease' = [jobLease EXCEPT ![w] = NoJob]
                 \/ /\ pc' = [pc EXCEPT ![w] = "persist_failure"]
                    /\ UNCHANGED jobLease
           \/ /\ ~commits
              /\ pc' = [pc EXCEPT ![w] = "persist_failure"]
              /\ UNCHANGED <<jobs, decisions, outbox, jobLease>>
        /\ UNCHANGED <<records, ledger, facts, eventLease>>

(* Fault: the callback updates the job by identity alone. *)
PersistFailureUnfenced(w) ==
    LET j == jobLease[w].job
    IN  /\ pc[w] = "persist_failure"
        /\ jobs' = [jobs EXCEPT ![j] = Job!Failed(@)]
        /\ jobLease' = [jobLease EXCEPT ![w] = NoJob]
        /\ pc' = [pc EXCEPT ![w] = "claim_event"]
        /\ UNCHANGED <<records, decisions, outbox, ledger, facts, eventLease>>

(* persist_failure: a fenced update that may match no row. *)
PersistFailure(w) ==
    LET j == jobLease[w].job
        held == Job!HeldBy(jobs[j], jobLease[w].token)
    IN  /\ pc[w] = "persist_failure"
        /\ jobs' = [jobs EXCEPT ![j] = IF held THEN Job!Failed(@) ELSE @]
        /\ jobLease' = [jobLease EXCEPT ![w] = NoJob]
        /\ pc' = [pc EXCEPT ![w] = "claim_event"]
        /\ UNCHANGED <<records, decisions, outbox, ledger, facts, eventLease>>

-----------------------------------------------------------------------------
(* The second half of drain_once: one outbox event *)

ClaimEvent(w) ==
    /\ pc[w] = "claim_event"
    /\ \E locked \in LockableBesides(w, outbox) :
         LET free == Decisions \ locked
             candidates == {e \in free : Event!Claimable(outbox[e])}
         IN  \/ \E e \in candidates :
                  /\ outbox' = Event!Polled(outbox, free, {e})
                  /\ eventLease' = [eventLease EXCEPT ![w] =
                         [event |-> e, token |-> outbox'[e].token, destination |-> None]]
                  /\ pc' = [pc EXCEPT ![w] = "project"]
             \/ /\ candidates = {}
                /\ outbox' = Event!Polled(outbox, free, {})
                /\ pc' = [pc EXCEPT ![w] = "claim_job"]
                /\ UNCHANGED eventLease
    /\ UNCHANGED <<records, jobs, decisions, ledger, facts, jobLease>>

(***************************************************************************)
(* The projection: an event with an eligible answer is inserted into       *)
(* ClickHouse (insert_deduplication_token is the event identity, so a      *)
(* repeated insert adds nothing), any other is skipped. A request can fail *)
(* before or after ClickHouse has taken the row.                           *)
(***************************************************************************)
Project(w) ==
    LET e == eventLease[w].event
    IN  /\ pc[w] = "project"
        /\ \/ /\ e \in Eligible
              /\ facts' = facts \cup {e}
              /\ eventLease' =
                    [eventLease EXCEPT ![w].destination = "clickhouse.signal_facts"]
              /\ pc' = [pc EXCEPT ![w] = "acknowledge"]
           \/ /\ e \notin Eligible
              /\ eventLease' = [eventLease EXCEPT ![w].destination = "skipped.uncalibrated"]
              /\ pc' = [pc EXCEPT ![w] = "acknowledge"]
              /\ UNCHANGED facts
           \/ /\ facts' \in {facts} \cup {facts \cup ({e} \cap Eligible)}
              /\ pc' = [pc EXCEPT ![w] = "projection_failure"]
              /\ UNCHANGED eventLease
        /\ UNCHANGED <<tables, jobLease>>

(* Fault: the ledger row outlives a lost lease. *)
AcknowledgeWithoutRollback(w) ==
    LET e == eventLease[w].event
        held == Event!HeldBy(outbox[e], eventLease[w].token)
    IN  /\ pc[w] = "acknowledge"
        /\ ledger' = [ledger EXCEPT ![e] = IF @ = None THEN eventLease[w].destination ELSE @]
        /\ outbox' = [outbox EXCEPT ![e] = IF held THEN Event!Completed(@) ELSE @]
        /\ eventLease' = [eventLease EXCEPT ![w] = IF held THEN NoEvent ELSE @]
        /\ pc' = [pc EXCEPT ![w] = IF held THEN "claim_job" ELSE "projection_failure"]
        /\ UNCHANGED <<records, jobs, decisions, facts, jobLease>>

(* persist_projection_success: the ledger row and the fenced update of the *)
(* event in one transaction, rolled back when the lease was lost.          *)
Acknowledge(w) ==
    LET e == eventLease[w].event
        held == Event!HeldBy(outbox[e], eventLease[w].token)
    IN  /\ pc[w] = "acknowledge"
        /\ \/ /\ held
              /\ ledger' = [ledger EXCEPT ![e] =
                               IF @ = None THEN eventLease[w].destination ELSE @]
              /\ outbox' = [outbox EXCEPT ![e] = Event!Completed(@)]
              /\ \/ /\ pc' = [pc EXCEPT ![w] = "claim_job"]
                    /\ eventLease' = [eventLease EXCEPT ![w] = NoEvent]
                 \/ /\ pc' = [pc EXCEPT ![w] = "projection_failure"]
                    /\ UNCHANGED eventLease
           \/ /\ ~held
              /\ pc' = [pc EXCEPT ![w] = "projection_failure"]
              /\ UNCHANGED <<outbox, ledger, eventLease>>
        /\ UNCHANGED <<records, jobs, decisions, facts, jobLease>>

(* persist_projection_failure: a fenced update that may match no row. *)
ProjectionFailure(w) ==
    LET e == eventLease[w].event
        held == Event!HeldBy(outbox[e], eventLease[w].token)
    IN  /\ pc[w] = "projection_failure"
        /\ outbox' = [outbox EXCEPT ![e] = IF held THEN Event!Failed(@) ELSE @]
        /\ eventLease' = [eventLease EXCEPT ![w] = NoEvent]
        /\ pc' = [pc EXCEPT ![w] = "claim_job"]
        /\ UNCHANGED <<records, jobs, decisions, ledger, facts, jobLease>>

-----------------------------------------------------------------------------
(* The environment *)

(* A worker dies or loses its database connection: drain_once is gone and  *)
(* the process starts over. What it had committed stays.                   *)
Crash(w) ==
    /\ pc[w] # "claim_job"
    /\ pc' = [pc EXCEPT ![w] = "claim_job"]
    /\ jobLease' = [jobLease EXCEPT ![w] = NoJob]
    /\ eventLease' = [eventLease EXCEPT ![w] = NoEvent]
    /\ UNCHANGED <<tables, facts>>

(* leased_until or available_at passes. *)
JobClock(j) ==
    /\ Job!Ticking(jobs[j])
    /\ jobs' = [jobs EXCEPT ![j] = Job!Ticked(@)]
    /\ UNCHANGED <<records, decisions, outbox, ledger, facts, local>>

EventClock(e) ==
    /\ Event!Ticking(outbox[e])
    /\ outbox' = [outbox EXCEPT ![e] = Event!Ticked(@)]
    /\ UNCHANGED <<records, jobs, decisions, ledger, facts, local>>

-----------------------------------------------------------------------------
DrainStep(w) ==
    \/ ClaimJob(w) \/ Decide(w) \/ PersistSuccess(w) \/ PersistFailure(w)
    \/ ClaimEvent(w) \/ Project(w) \/ Acknowledge(w) \/ ProjectionFailure(w)

Next ==
    \/ \E j \in Jobs, c \in Contents : EnqueueRecord(j, c)
    \/ \E w \in Workers : DrainStep(w) \/ Crash(w)
    \/ \E j \in Jobs : JobClock(j)
    \/ \E e \in Decisions : EventClock(e)

Spec == Init /\ [][Next]_vars

(***************************************************************************)
(* service.run calls drain_once again for as long as the process lives, a  *)
(* dead process is restarted, and clocks do not stop. Row locks last for   *)
(* one short transaction and processes do not die before every single      *)
(* poll, so a poll that has something to take or to reap eventually does.  *)
(* Nothing is assumed of engines, ClickHouse or the number of crashes.     *)
(***************************************************************************)
Fairness ==
    /\ \A w \in Workers : /\ WF_vars(DrainStep(w))
                          /\ SF_vars(ClaimJob(w) /\ jobs' # jobs)
                          /\ SF_vars(ClaimEvent(w) /\ outbox' # outbox)
    /\ \A j \in Jobs : WF_vars(JobClock(j))
    /\ \A e \in Decisions : WF_vars(EventClock(e))

FairSpec == Spec /\ Fairness

-----------------------------------------------------------------------------
(* Properties *)

HoldsJob(w, j) == jobLease[w].job = j /\ Job!HeldBy(jobs[j], jobLease[w].token)
HoldsEvent(w, e) ==
    eventLease[w].event = e /\ Event!HeldBy(outbox[e], eventLease[w].token)

(* At most one worker can commit for a row: of all the workers still busy  *)
(* with a job or an event, those that were presumed dead no longer pass    *)
(* the fence of the claims made after them.                                *)
OneCurrentOwner ==
    \A v, w \in Workers :
        /\ \A j \in Jobs : HoldsJob(v, j) /\ HoldsJob(w, j) => v = w
        /\ \A e \in Decisions : HoldsEvent(v, e) /\ HoldsEvent(w, e) => v = w

(* A row dies only with its attempts used up, and a row that waits for     *)
(* another attempt has one left: neither callbacks of stale workers nor    *)
(* the reaper give up early, and none leaves a row no poll would take.     *)
DeadOnlyWhenExhausted ==
    /\ \A j \in Jobs :
        /\ jobs[j].status = "dead" => jobs[j].attempt = MaxJobAttempts
        /\ Job!Waiting(jobs[j]) => jobs[j].attempt < MaxJobAttempts
    /\ \A e \in Decisions :
        /\ outbox[e].status = "dead" => outbox[e].attempt = MaxEventAttempts
        /\ Event!Waiting(outbox[e]) => outbox[e].attempt < MaxEventAttempts

(* The decision, its event and the job's success commit together: a job    *)
(* that succeeded has a decision with an event, and a decision was written *)
(* by a job that succeeded, whatever stale workers tried in between.       *)
SuccessIsBacked ==
    /\ \A j \in Jobs : jobs[j].status = "succeeded" =>
        \E d \in DecisionsOf[j] : decisions[d] # None
    /\ \A d \in Decisions :
        /\ decisions[d] # None =>
              /\ jobs[decisions[d]].status = "succeeded"
              /\ Event!Exists(outbox[d])
        /\ Event!Exists(outbox[d]) => decisions[d] # None

(* The projection ledger has exactly the published events, and an event    *)
(* it reports in ClickHouse is there: the acknowledgement never precedes   *)
(* the analytical write and never survives a lost lease.                   *)
LedgerIsTruthful ==
    \A e \in Decisions :
        /\ outbox[e].status = "published" <=> ledger[e] # None
        /\ ledger[e] = "clickhouse.signal_facts" => e \in facts
        /\ ledger[e] = "skipped.uncalibrated" => e \notin facts

(* Every job that was accepted ends as succeeded or dead, and every event  *)
(* as published or dead, however workers, engines and requests fail.       *)
EverythingSettles ==
    /\ \A j \in Jobs : Job!Exists(jobs[j]) ~> Job!Settled(jobs[j])
    /\ \A e \in Decisions : Event!Exists(outbox[e]) ~> Event!Settled(outbox[e])

(* The pipeline implements its contract. A leased or waiting row is open.  *)
JobOutcome(r) ==
    CASE r.status = "absent" -> "none"
      [] Job!Settled(r) -> r.status
      [] OTHER -> "open"
EventOutcome(r) ==
    CASE r.status = "absent" -> "none"
      [] Event!Settled(r) -> r.status
      [] OTHER -> "open"

Outcome == [j \in Jobs |-> JobOutcome(jobs[j])]
Delivery == [d \in Decisions |-> EventOutcome(outbox[d])]

Contract == INSTANCE PipelineContract
    WITH outcome <- Outcome, decidedBy <- decisions, delivery <- Delivery

(* Outcomes are final and decisions immutable: leases, retries, repeated   *)
(* requests and stale callbacks are invisible through the contract.        *)
ImplementsContract == Contract!Spec
=============================================================================
