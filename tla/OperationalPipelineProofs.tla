----------------------- MODULE OperationalPipelineProofs -----------------------
(***************************************************************************)
(* Proofs about the operational pipeline, for any sets of workers, jobs    *)
(* and decisions and any attempt limits. The inductive invariant IInv      *)
(* adds to the checked properties what makes them inductive: the shape of  *)
(* the rows, and that every lease a worker remembers, current or stale,    *)
(* carries an attempt number the row has already reached.                  *)
(***************************************************************************)
EXTENDS OperationalPipeline, TLAPS

Busy == {"decide", "persist_success", "persist_failure"}
Projecting == {"project", "acknowledge", "projection_failure"}

(* A worker busy with a job remembers a token the row has drawn, and at    *)
(* most one of those workers remembers the last one.                       *)
JobSide ==
    /\ jobs \in [Jobs -> Job!Row]
    /\ jobLease \in [Workers -> JobLeases]
    /\ \A j \in Jobs : Job!WellFormed(jobs[j])
    /\ \A w \in Workers :
        /\ pc[w] \in Busy =>
              /\ jobLease[w].job \in Jobs
              /\ jobLease[w].token \in 1..jobs[jobLease[w].job].attempt
        /\ pc[w] \notin Busy => jobLease[w] = NoJob
        /\ pc[w] = "persist_success" =>
              jobLease[w].decision \in DecisionsOf[jobLease[w].job]
    /\ \A j \in Jobs, v, w \in Workers : HoldsJob(v, j) /\ HoldsJob(w, j) => v = w

EventSide ==
    /\ outbox \in [Decisions -> Event!Row]
    /\ eventLease \in [Workers -> EventLeases]
    /\ \A e \in Decisions : Event!WellFormed(outbox[e])
    /\ \A w \in Workers :
        /\ pc[w] \in Projecting =>
              /\ eventLease[w].event \in Decisions
              /\ eventLease[w].token \in 1..outbox[eventLease[w].event].attempt
              /\ Event!Exists(outbox[eventLease[w].event])
        /\ pc[w] \notin Projecting => eventLease[w] = NoEvent
    /\ \A e \in Decisions, v, w \in Workers :
        HoldsEvent(v, e) /\ HoldsEvent(w, e) => v = w

(* What an acknowledging worker knows about the facts. *)
FactsInv ==
    /\ facts \subseteq Eligible
    /\ \A e \in facts : Event!Exists(outbox[e])
    /\ \A w \in Workers : pc[w] = "acknowledge" =>
          LET e == eventLease[w].event
          IN  \/ eventLease[w].destination = "clickhouse.signal_facts" /\ e \in facts
              \/ eventLease[w].destination = "skipped.uncalibrated" /\ e \notin Eligible

(* The ledger part, with eligibility in the place of facts. *)
LedgerInv ==
    \A e \in Decisions :
        /\ outbox[e].status = "published" <=> ledger[e] # None
        /\ ledger[e] = "clickhouse.signal_facts" => e \in facts
        /\ ledger[e] = "skipped.uncalibrated" => e \notin Eligible

IInv ==
    /\ TypeOK
    /\ JobSide
    /\ EventSide
    /\ SuccessIsBacked
    /\ FactsInv
    /\ LedgerInv

-----------------------------------------------------------------------------
(* What the row operations preserve and establish. *)

LEMMA JobRowSteps ==
    ASSUME NEW r, Job!WellFormed(r)
    PROVE  /\ Job!Claimable(r) => /\ Job!WellFormed(Job!Granted(r))
                                  /\ Job!Granted(r).attempt = r.attempt + 1
                                  /\ Job!Granted(r).token = r.attempt + 1
                                  /\ Job!Granted(r).status = "running"
           /\ Job!Exhausted(r) => /\ Job!WellFormed(Job!Reaped(r))
                                  /\ Job!Reaped(r).attempt = r.attempt
                                  /\ Job!Reaped(r).status = "dead"
           /\ r.status = "running" => /\ Job!WellFormed(Job!Completed(r))
                                      /\ Job!Completed(r).attempt = r.attempt
                                      /\ Job!Completed(r).status = "succeeded"
           /\ r.status = "running" => /\ Job!WellFormed(Job!Failed(r))
                                      /\ Job!Failed(r).attempt = r.attempt
                                      /\ Job!Failed(r).status \in {"dead", "retry_wait"}
           /\ /\ Job!WellFormed(Job!Ticked(r))
              /\ Job!Ticked(r).attempt = r.attempt
              /\ Job!Ticked(r).status = r.status
              /\ Job!Ticked(r).token = r.token
<1> USE DEF Job!WellFormed, Job!Row, Job!Waiting, Job!Lapsed, Job!NoToken
<1>0. MaxJobAttempts \in Nat /\ MaxJobAttempts # 0
  BY PipelineAssumption DEF PipelineAssumption
<1>1. Job!Claimable(r) => /\ Job!WellFormed(Job!Granted(r))
                         /\ Job!Granted(r).attempt = r.attempt + 1
                         /\ Job!Granted(r).token = r.attempt + 1
                         /\ Job!Granted(r).status = "running"
  BY <1>0 DEF Job!Claimable, Job!Granted
<1>2. Job!Exhausted(r) => /\ Job!WellFormed(Job!Reaped(r))
                         /\ Job!Reaped(r).attempt = r.attempt
                         /\ Job!Reaped(r).status = "dead"
  BY <1>0 DEF Job!Exhausted, Job!Reaped, Job!Released
<1>3. r.status = "running" => /\ Job!WellFormed(Job!Completed(r))
                            /\ Job!Completed(r).attempt = r.attempt
                            /\ Job!Completed(r).status = "succeeded"
  BY <1>0 DEF Job!Completed, Job!Released
<1>4. r.status = "running" => /\ Job!WellFormed(Job!Failed(r))
                            /\ Job!Failed(r).attempt = r.attempt
                            /\ Job!Failed(r).status \in {"dead", "retry_wait"}
  BY <1>0 DEF Job!Failed, Job!Released
<1>5. /\ Job!WellFormed(Job!Ticked(r))
      /\ Job!Ticked(r).attempt = r.attempt
      /\ Job!Ticked(r).status = r.status
      /\ Job!Ticked(r).token = r.token
  BY <1>0 DEF Job!Ticked
<1>6. QED
  BY <1>1, <1>2, <1>3, <1>4, <1>5

LEMMA EventRowSteps ==
    ASSUME NEW r, Event!WellFormed(r)
    PROVE  /\ Event!Claimable(r) => /\ Event!WellFormed(Event!Granted(r))
                                  /\ Event!Granted(r).attempt = r.attempt + 1
                                  /\ Event!Granted(r).token = r.attempt + 1
                                  /\ Event!Granted(r).status = "publishing"
           /\ Event!Exhausted(r) => /\ Event!WellFormed(Event!Reaped(r))
                                  /\ Event!Reaped(r).attempt = r.attempt
                                  /\ Event!Reaped(r).status = "dead"
           /\ r.status = "publishing" => /\ Event!WellFormed(Event!Completed(r))
                                      /\ Event!Completed(r).attempt = r.attempt
                                      /\ Event!Completed(r).status = "published"
           /\ r.status = "publishing" => /\ Event!WellFormed(Event!Failed(r))
                                      /\ Event!Failed(r).attempt = r.attempt
                                      /\ Event!Failed(r).status \in {"dead", "retry_wait"}
           /\ /\ Event!WellFormed(Event!Ticked(r))
              /\ Event!Ticked(r).attempt = r.attempt
              /\ Event!Ticked(r).status = r.status
              /\ Event!Ticked(r).token = r.token
<1> USE DEF Event!WellFormed, Event!Row, Event!Waiting, Event!Lapsed, Event!NoToken
<1>0. MaxEventAttempts \in Nat /\ MaxEventAttempts # 0
  BY PipelineAssumption DEF PipelineAssumption
<1>1. Event!Claimable(r) => /\ Event!WellFormed(Event!Granted(r))
                         /\ Event!Granted(r).attempt = r.attempt + 1
                         /\ Event!Granted(r).token = r.attempt + 1
                         /\ Event!Granted(r).status = "publishing"
  BY <1>0 DEF Event!Claimable, Event!Granted
<1>2. Event!Exhausted(r) => /\ Event!WellFormed(Event!Reaped(r))
                         /\ Event!Reaped(r).attempt = r.attempt
                         /\ Event!Reaped(r).status = "dead"
  BY <1>0 DEF Event!Exhausted, Event!Reaped, Event!Released
<1>3. r.status = "publishing" => /\ Event!WellFormed(Event!Completed(r))
                            /\ Event!Completed(r).attempt = r.attempt
                            /\ Event!Completed(r).status = "published"
  BY <1>0 DEF Event!Completed, Event!Released
<1>4. r.status = "publishing" => /\ Event!WellFormed(Event!Failed(r))
                            /\ Event!Failed(r).attempt = r.attempt
                            /\ Event!Failed(r).status \in {"dead", "retry_wait"}
  BY <1>0 DEF Event!Failed, Event!Released
<1>5. /\ Event!WellFormed(Event!Ticked(r))
      /\ Event!Ticked(r).attempt = r.attempt
      /\ Event!Ticked(r).status = r.status
      /\ Event!Ticked(r).token = r.token
  BY <1>0 DEF Event!Ticked
<1>6. QED
  BY <1>1, <1>2, <1>3, <1>4, <1>5

(* One poll: rows stay well formed, attempts grow, settled rows stay, and  *)
(* only the picked rows, under tokens never drawn before, gain an owner.   *)
LEMMA JobsPolled ==
    ASSUME NEW rows, rows \in [Jobs -> Job!Row],
           \A i \in Jobs : Job!WellFormed(rows[i]),
           NEW free, NEW picked, NEW after,
           after = Job!Polled(rows, free, picked),
           \A i \in picked : Job!Claimable(rows[i])
    PROVE  /\ after \in [Jobs -> Job!Row]
           /\ \A i \in Jobs :
                /\ Job!WellFormed(after[i])
                /\ after[i].attempt >= rows[i].attempt
                /\ after[i].status = "succeeded" <=> rows[i].status = "succeeded"
                /\ Job!Exists(after[i]) <=> Job!Exists(rows[i])
                /\ i \in picked => /\ after[i].attempt = rows[i].attempt + 1
                                   /\ after[i].token = rows[i].attempt + 1
                /\ i \notin picked => \A t : Job!HeldBy(after[i], t)
                                             => Job!HeldBy(rows[i], t)
<1>1. SUFFICES ASSUME NEW i \in Jobs
               PROVE  /\ after[i] \in Job!Row
                      /\ Job!WellFormed(after[i])
                      /\ after[i].attempt >= rows[i].attempt
                      /\ after[i].status = "succeeded" <=> rows[i].status = "succeeded"
                      /\ Job!Exists(after[i]) <=> Job!Exists(rows[i])
                      /\ i \in picked => /\ after[i].attempt = rows[i].attempt + 1
                                         /\ after[i].token = rows[i].attempt + 1
                      /\ i \notin picked => \A t : Job!HeldBy(after[i], t)
                                                   => Job!HeldBy(rows[i], t)
  BY DEF Job!Polled
<1>2. Job!WellFormed(rows[i]) /\ rows[i].attempt \in Nat
  BY DEF Job!WellFormed, Job!Row
<1>3. CASE i \in picked
  <2>1. after[i] = Job!Granted(rows[i]) /\ Job!Claimable(rows[i])
    BY <1>3 DEF Job!Polled
  <2>2. Job!WellFormed(Job!Granted(rows[i])) /\ Job!Granted(rows[i]) \in Job!Row
    BY <1>2, <2>1, JobRowSteps DEF Job!WellFormed
  <2>3. QED
    BY <1>2, <1>3, <2>1, <2>2, JobRowSteps
       DEF Job!Claimable, Job!Waiting, Job!Lapsed, Job!Exists
<1>4. CASE i \notin picked /\ i \in free /\ Job!Exhausted(rows[i])
  <2>1. after[i] = Job!Reaped(rows[i])
    BY <1>4 DEF Job!Polled
  <2>2. Job!WellFormed(Job!Reaped(rows[i])) /\ Job!Reaped(rows[i]) \in Job!Row
    BY <1>2, <1>4, JobRowSteps DEF Job!WellFormed
  <2>3. QED
    BY <1>2, <1>4, <2>1, <2>2, JobRowSteps
       DEF Job!Exhausted, Job!Waiting, Job!Lapsed, Job!Exists, Job!HeldBy
<1>5. CASE i \notin picked /\ ~(i \in free /\ Job!Exhausted(rows[i]))
  BY <1>2, <1>5 DEF Job!Polled, Job!WellFormed
<1>6. QED
  BY <1>3, <1>4, <1>5

(* One poll: rows stay well formed, attempts grow, settled rows stay, and  *)
(* only the picked rows, under tokens never drawn before, gain an owner.   *)
LEMMA EventsPolled ==
    ASSUME NEW rows, rows \in [Decisions -> Event!Row],
           \A i \in Decisions : Event!WellFormed(rows[i]),
           NEW free, NEW picked, NEW after,
           after = Event!Polled(rows, free, picked),
           \A i \in picked : Event!Claimable(rows[i])
    PROVE  /\ after \in [Decisions -> Event!Row]
           /\ \A i \in Decisions :
                /\ Event!WellFormed(after[i])
                /\ after[i].attempt >= rows[i].attempt
                /\ after[i].status = "published" <=> rows[i].status = "published"
                /\ Event!Exists(after[i]) <=> Event!Exists(rows[i])
                /\ i \in picked => /\ after[i].attempt = rows[i].attempt + 1
                                   /\ after[i].token = rows[i].attempt + 1
                /\ i \notin picked => \A t : Event!HeldBy(after[i], t)
                                             => Event!HeldBy(rows[i], t)
<1>1. SUFFICES ASSUME NEW i \in Decisions
               PROVE  /\ after[i] \in Event!Row
                      /\ Event!WellFormed(after[i])
                      /\ after[i].attempt >= rows[i].attempt
                      /\ after[i].status = "published" <=> rows[i].status = "published"
                      /\ Event!Exists(after[i]) <=> Event!Exists(rows[i])
                      /\ i \in picked => /\ after[i].attempt = rows[i].attempt + 1
                                         /\ after[i].token = rows[i].attempt + 1
                      /\ i \notin picked => \A t : Event!HeldBy(after[i], t)
                                                   => Event!HeldBy(rows[i], t)
  BY DEF Event!Polled
<1>2. Event!WellFormed(rows[i]) /\ rows[i].attempt \in Nat
  BY DEF Event!WellFormed, Event!Row
<1>3. CASE i \in picked
  <2>1. after[i] = Event!Granted(rows[i]) /\ Event!Claimable(rows[i])
    BY <1>3 DEF Event!Polled
  <2>2. Event!WellFormed(Event!Granted(rows[i])) /\ Event!Granted(rows[i]) \in Event!Row
    BY <1>2, <2>1, EventRowSteps DEF Event!WellFormed
  <2>3. QED
    BY <1>2, <1>3, <2>1, <2>2, EventRowSteps
       DEF Event!Claimable, Event!Waiting, Event!Lapsed, Event!Exists
<1>4. CASE i \notin picked /\ i \in free /\ Event!Exhausted(rows[i])
  <2>1. after[i] = Event!Reaped(rows[i])
    BY <1>4 DEF Event!Polled
  <2>2. Event!WellFormed(Event!Reaped(rows[i])) /\ Event!Reaped(rows[i]) \in Event!Row
    BY <1>2, <1>4, EventRowSteps DEF Event!WellFormed
  <2>3. QED
    BY <1>2, <1>4, <2>1, <2>2, EventRowSteps
       DEF Event!Exhausted, Event!Waiting, Event!Lapsed, Event!Exists, Event!HeldBy
<1>5. CASE i \notin picked /\ ~(i \in free /\ Event!Exhausted(rows[i]))
  BY <1>2, <1>5 DEF Event!Polled, Event!WellFormed
<1>6. QED
  BY <1>3, <1>4, <1>5

-----------------------------------------------------------------------------
(* Steps that hand out no lease: a worker keeps its lease or drops it, and *)
(* nobody passes a fence that was closed before.                           *)
LEMMA JobSideKept ==
    ASSUME JobSide,
           jobs' \in [Jobs -> Job!Row],
           jobLease' \in [Workers -> JobLeases],
           \A j \in Jobs : /\ Job!WellFormed(jobs'[j])
                           /\ jobs'[j].attempt >= jobs[j].attempt
                           /\ \A t : Job!HeldBy(jobs'[j], t) => Job!HeldBy(jobs[j], t),
           \A w \in Workers :
              \/ pc'[w] \notin Busy /\ jobLease'[w] = NoJob
              \/ /\ pc[w] \in Busy /\ pc'[w] \in Busy
                 /\ jobLease'[w].job = jobLease[w].job
                 /\ jobLease'[w].token = jobLease[w].token
                 /\ pc'[w] = "persist_success" =>
                       jobLease'[w].decision \in DecisionsOf[jobLease[w].job]
    PROVE  JobSide'
<1>1. \A j \in Jobs : jobs[j].attempt \in Nat /\ jobs'[j].attempt \in Nat
  BY DEF JobSide, Job!Row
<1>2. ASSUME NEW w \in Workers
      PROVE  /\ pc'[w] \in Busy =>
                   /\ jobLease'[w].job \in Jobs
                   /\ jobLease'[w].token \in 1..jobs'[jobLease'[w].job].attempt
             /\ pc'[w] \notin Busy => jobLease'[w] = NoJob
             /\ pc'[w] = "persist_success" =>
                   jobLease'[w].decision \in DecisionsOf[jobLease'[w].job]
  BY <1>1 DEF JobSide, Busy
<1>3. ASSUME NEW j \in Jobs, NEW w \in Workers, HoldsJob(w, j)'
      PROVE  HoldsJob(w, j)
  <2>1. jobLease'[w] # NoJob
    BY <1>3, PipelineAssumption DEF HoldsJob, NoJob, PipelineAssumption
  <2>2. QED
    BY <1>3, <2>1 DEF HoldsJob
<1>4. QED
  BY <1>2, <1>3 DEF JobSide

LEMMA EventSideKept ==
    ASSUME EventSide,
           outbox' \in [Decisions -> Event!Row],
           eventLease' \in [Workers -> EventLeases],
           \A e \in Decisions : /\ Event!WellFormed(outbox'[e])
                                /\ outbox'[e].attempt >= outbox[e].attempt
                                /\ Event!Exists(outbox[e]) => Event!Exists(outbox'[e])
                                /\ \A t : Event!HeldBy(outbox'[e], t)
                                          => Event!HeldBy(outbox[e], t),
           \A w \in Workers :
              \/ pc'[w] \notin Projecting /\ eventLease'[w] = NoEvent
              \/ /\ pc[w] \in Projecting /\ pc'[w] \in Projecting
                 /\ eventLease'[w].event = eventLease[w].event
                 /\ eventLease'[w].token = eventLease[w].token
    PROVE  EventSide'
<1>1. \A e \in Decisions : outbox[e].attempt \in Nat /\ outbox'[e].attempt \in Nat
  BY DEF EventSide, Event!Row
<1>2. ASSUME NEW w \in Workers
      PROVE  /\ pc'[w] \in Projecting =>
                   /\ eventLease'[w].event \in Decisions
                   /\ eventLease'[w].token \in 1..outbox'[eventLease'[w].event].attempt
                   /\ Event!Exists(outbox'[eventLease'[w].event])
             /\ pc'[w] \notin Projecting => eventLease'[w] = NoEvent
  BY <1>1 DEF EventSide
<1>3. ASSUME NEW e \in Decisions, NEW w \in Workers, HoldsEvent(w, e)'
      PROVE  HoldsEvent(w, e)
  <2>1. eventLease'[w] # NoEvent
    BY <1>3, PipelineAssumption DEF HoldsEvent, NoEvent, PipelineAssumption
  <2>2. QED
    BY <1>3, <2>1 DEF HoldsEvent
<1>4. QED
  BY <1>2, <1>3 DEF EventSide

(* A step that neither decides a job nor writes a decision or an event. *)
LEMMA SuccessIsBackedKept ==
    ASSUME SuccessIsBacked, JobSide, EventSide, TypeOK,
           UNCHANGED decisions,
           \A j \in Jobs : jobs'[j].status = "succeeded" <=> jobs[j].status = "succeeded",
           \A d \in Decisions : Event!Exists(outbox'[d]) <=> Event!Exists(outbox[d])
    PROVE  SuccessIsBacked'
<1>1. \A d \in Decisions : decisions[d] # None => decisions[d] \in Jobs
  BY DEF TypeOK
<1>2. QED
  BY <1>1 DEF SuccessIsBacked

(* A half of drain_once, or the environment, leaves the other half alone. *)
LEMMA JobSideUnchanged ==
    ASSUME JobSide, UNCHANGED <<jobs, jobLease>>,
           \A w \in Workers : pc'[w] = pc[w] \/ (pc[w] \notin Busy /\ pc'[w] \notin Busy)
    PROVE  JobSide'
<1>1. \A w \in Workers : pc'[w] \notin Busy => pc[w] \notin Busy
  OBVIOUS
<1>2. \A w \in Workers : pc[w] \notin Busy => jobLease'[w] = NoJob
  BY DEF JobSide
<1>3. \A w \in Workers : pc'[w] = "persist_success" => pc[w] = "persist_success"
  BY DEF Busy
<1>4. \A j \in Jobs : jobs'[j].attempt \in Nat /\ jobs'[j].attempt >= jobs[j].attempt
  BY DEF JobSide, Job!Row
<1>5. QED
  BY <1>1, <1>2, <1>3, <1>4, JobSideKept DEF JobSide

LEMMA EventSideUnchanged ==
    ASSUME EventSide, UNCHANGED <<outbox, eventLease>>,
           \A w \in Workers : \/ pc'[w] = pc[w]
                              \/ pc[w] \notin Projecting /\ pc'[w] \notin Projecting
    PROVE  EventSide'
<1>1. \A w \in Workers : pc'[w] \notin Projecting => pc[w] \notin Projecting
  OBVIOUS
<1>2. \A w \in Workers : pc[w] \notin Projecting => eventLease'[w] = NoEvent
  BY DEF EventSide
<1>4. \A e \in Decisions : outbox'[e].attempt \in Nat /\ outbox'[e].attempt >= outbox[e].attempt
  BY DEF EventSide, Event!Row
<1>5. QED
  BY <1>1, <1>2, <1>4, EventSideKept DEF EventSide

-----------------------------------------------------------------------------
(* Ingestion and the job half of drain_once. *)

LEMMA EnqueueRecordStep ==
    ASSUME IInv, NEW j \in Jobs, NEW c \in Contents, EnqueueRecord(j, c)
    PROVE  IInv'
<1>1. Job!WellFormed(Job!Fresh) /\ Job!Fresh \in Job!Row
  BY PipelineAssumption DEF PipelineAssumption, Job!WellFormed, Job!Row, Job!Fresh,
     Job!Waiting, Job!NoToken
<1>2. \A i \in Jobs : \/ jobs'[i] = jobs[i]
                      \/ ~Job!Exists(jobs[i]) /\ jobs'[i] = Job!Fresh
  BY DEF IInv, TypeOK, EnqueueRecord
<1>3. \A i \in Jobs : /\ ~Job!Exists(jobs[i]) => jobs[i].attempt = 0
                      /\ jobs[i].attempt \in Nat
  BY DEF IInv, JobSide, Job!WellFormed, Job!Row, Job!Exists
<1>4. TypeOK'
  BY <1>1, PipelineAssumption DEF IInv, TypeOK, EnqueueRecord, local, PipelineAssumption
<1>5. JobSide'
  <2>1. \A i \in Jobs : /\ Job!WellFormed(jobs'[i])
                        /\ jobs'[i].attempt >= jobs[i].attempt
                        /\ \A t : Job!HeldBy(jobs'[i], t) => Job!HeldBy(jobs[i], t)
    <3>1. ASSUME NEW i \in Jobs, jobs'[i] = jobs[i]
          PROVE  /\ Job!WellFormed(jobs'[i])
                 /\ jobs'[i].attempt >= jobs[i].attempt
                 /\ \A t : Job!HeldBy(jobs'[i], t) => Job!HeldBy(jobs[i], t)
      BY <1>3, <3>1 DEF IInv, JobSide
    <3>2. ASSUME NEW i \in Jobs, ~Job!Exists(jobs[i]), jobs'[i] = Job!Fresh
          PROVE  /\ Job!WellFormed(jobs'[i])
                 /\ jobs'[i].attempt >= jobs[i].attempt
                 /\ \A t : Job!HeldBy(jobs'[i], t) => Job!HeldBy(jobs[i], t)
      BY <1>1, <1>3, <3>2 DEF Job!Fresh, Job!HeldBy
    <3>3. QED
      BY <1>2, <3>1, <3>2
  <2>2. QED
    BY <1>4, <2>1, JobSideKept DEF IInv, TypeOK, JobSide, EnqueueRecord, local, Busy
<1>6. EventSide'
  <2>1. UNCHANGED <<outbox, eventLease, pc>>
    BY DEF EnqueueRecord, local
  <2>2. QED
    BY <2>1, EventSideUnchanged DEF IInv
<1>7. SuccessIsBacked'
  BY <1>2, SuccessIsBackedKept DEF IInv, EnqueueRecord, Job!Exists, Job!Fresh
<1>8. FactsInv' /\ LedgerInv'
  BY DEF IInv, FactsInv, LedgerInv, EnqueueRecord, local
<1>9. QED
  BY <1>4, <1>5, <1>6, <1>7, <1>8 DEF IInv

LEMMA ClaimJobStep ==
    ASSUME IInv, NEW w \in Workers, ClaimJob(w)
    PROVE  IInv'
<1>1. PICK free, picked :
        /\ jobs' = Job!Polled(jobs, free, picked)
        /\ \/ \E j \in Jobs :
                 /\ picked = {j} /\ Job!Claimable(jobs[j])
                 /\ jobLease' = [jobLease EXCEPT ![w] =
                        [job |-> j, token |-> jobs'[j].token, decision |-> None]]
                 /\ pc' = [pc EXCEPT ![w] = "decide"]
           \/ /\ picked = {}
              /\ pc' = [pc EXCEPT ![w] = "claim_event"]
              /\ UNCHANGED jobLease
  BY DEF ClaimJob
<1>2. \A i \in picked : i \in Jobs /\ Job!Claimable(jobs[i])
  BY <1>1
<1>3. /\ jobs' \in [Jobs -> Job!Row]
      /\ \A i \in Jobs :
            /\ Job!WellFormed(jobs'[i])
            /\ jobs'[i].attempt >= jobs[i].attempt
            /\ jobs'[i].status = "succeeded" <=> jobs[i].status = "succeeded"
            /\ i \in picked => /\ jobs'[i].attempt = jobs[i].attempt + 1
                               /\ jobs'[i].token = jobs[i].attempt + 1
            /\ i \notin picked => \A t : Job!HeldBy(jobs'[i], t) => Job!HeldBy(jobs[i], t)
  <2>1. jobs \in [Jobs -> Job!Row] /\ \A i \in Jobs : Job!WellFormed(jobs[i])
    BY DEF IInv, JobSide
  <2>2. jobs' = Job!Polled(jobs, free, picked) /\ \A i \in picked : Job!Claimable(jobs[i])
    BY <1>1, <1>2
  <2>3. /\ jobs' \in [Jobs -> Job!Row]
        /\ \A i \in Jobs :
              /\ Job!WellFormed(jobs'[i])
              /\ jobs'[i].attempt >= jobs[i].attempt
              /\ jobs'[i].status = "succeeded" <=> jobs[i].status = "succeeded"
    BY <2>1, <2>2, JobsPolled
  <2>4. \A i \in Jobs :
           i \in picked => /\ jobs'[i].attempt = jobs[i].attempt + 1
                           /\ jobs'[i].token = jobs[i].attempt + 1
    BY <2>1, <2>2, JobsPolled
  <2>5. \A i \in Jobs :
           i \notin picked => \A t : Job!HeldBy(jobs'[i], t) => Job!HeldBy(jobs[i], t)
    BY <2>1, <2>2, JobsPolled
  <2>6. QED
    BY <2>3, <2>4, <2>5
<1>4. pc[w] = "claim_job" /\ pc \in [Workers -> Steps] /\ pc'[w] \in {"decide", "claim_event"}
      /\ \A v \in Workers \ {w} : pc'[v] = pc[v]
  BY <1>1 DEF ClaimJob, IInv, TypeOK
<1>5. UNCHANGED <<records, decisions, outbox, ledger, facts, eventLease>>
  BY DEF ClaimJob
<1>6. jobLease' \in [Workers -> JobLeases]
  <2>1. \A j \in Jobs : jobs'[j].token \in 0..MaxJobAttempts
    BY <1>3 DEF Job!Row
  <2>2. QED
    BY <1>1, <2>1 DEF IInv, TypeOK, JobLeases
<1>7. JobSide'
  <2>1. CASE picked = {}
    <3>1. jobLease' = jobLease /\ pc'[w] = "claim_event"
      BY <1>1, <1>4, <2>1 DEF IInv, TypeOK
    <3>2. \A v \in Workers : \/ pc'[v] \notin Busy /\ jobLease'[v] = NoJob
                             \/ v # w /\ pc'[v] = pc[v] /\ pc[v] \in Busy
      BY <1>4, <3>1 DEF IInv, JobSide, Busy
    <3>3. QED
      BY <1>3, <1>4, <1>6, <2>1, <3>1, <3>2, JobSideKept DEF IInv, JobSide
  <2>2. ASSUME NEW j \in Jobs, picked = {j},
               jobLease' = [jobLease EXCEPT ![w] =
                   [job |-> j, token |-> jobs'[j].token, decision |-> None]],
               pc' = [pc EXCEPT ![w] = "decide"]
        PROVE  JobSide'
    <3>1. /\ pc'[w] = "decide" /\ jobLease'[w].job = j
          /\ jobLease'[w].token = jobs[j].attempt + 1
          /\ jobs'[j].attempt = jobs[j].attempt + 1
          /\ jobs'[j].token = jobs[j].attempt + 1
          /\ \A v \in Workers \ {w} : pc'[v] = pc[v] /\ jobLease'[v] = jobLease[v]
      BY <1>3, <2>2 DEF IInv, TypeOK
    <3>2. \A i \in Jobs : jobs[i].attempt \in Nat /\ jobs'[i].attempt \in Nat
      BY <1>3 DEF IInv, JobSide, Job!Row
    <3>3. \A v \in Workers :
            /\ pc'[v] \in Busy =>
                  /\ jobLease'[v].job \in Jobs
                  /\ jobLease'[v].token \in 1..jobs'[jobLease'[v].job].attempt
            /\ pc'[v] \notin Busy => jobLease'[v] = NoJob
            /\ pc'[v] = "persist_success" =>
                  jobLease'[v].decision \in DecisionsOf[jobLease'[v].job]
      BY <1>3, <3>1, <3>2 DEF IInv, JobSide, Busy
    <3>4. \A v \in Workers \ {w} : ~HoldsJob(v, j)'
      (* Its token is one the row had drawn before this claim. *)
      <4>1. ASSUME NEW v \in Workers \ {w}, HoldsJob(v, j)'
            PROVE  FALSE
        <5>1. jobLease[v].job = j /\ jobLease[v].token = jobs[j].attempt + 1
          BY <3>1, <4>1 DEF HoldsJob, Job!HeldBy
        <5>2. pc[v] \in Busy
          BY <5>1, PipelineAssumption DEF IInv, JobSide, NoJob, PipelineAssumption
        <5>3. jobLease[v].token \in 1..jobs[j].attempt
          BY <5>1, <5>2 DEF IInv, JobSide
        <5>4. QED
          BY <3>2, <5>1, <5>3
      <4>2. QED
        BY <4>1
    <3>5. \A i \in Jobs, v \in Workers : i # j /\ HoldsJob(v, i)' => HoldsJob(v, i)
      BY <1>3, <2>2, <3>1 DEF HoldsJob
    <3>6. QED
      BY <1>3, <1>6, <3>3, <3>4, <3>5 DEF IInv, JobSide
  <2>3. QED
    BY <1>1, <2>1, <2>2
<1>8. EventSide'
  BY <1>4, <1>5, EventSideUnchanged DEF IInv, Projecting
<1>9. TypeOK'
  BY <1>1, <1>3, <1>5, <1>6 DEF IInv, TypeOK, Steps
<1>10. SuccessIsBacked'
  BY <1>3, <1>5, SuccessIsBackedKept DEF IInv
<1>11. FactsInv' /\ LedgerInv'
  BY <1>4, <1>5 DEF IInv, FactsInv, LedgerInv
<1>12. QED
  BY <1>7, <1>8, <1>9, <1>10, <1>11 DEF IInv

LEMMA DecideStep ==
    ASSUME IInv, NEW w \in Workers, Decide(w)
    PROVE  IInv'
<1>1. /\ pc[w] = "decide" /\ pc'[w] \in {"persist_success", "persist_failure"}
      /\ pc' \in [Workers -> Steps]
      /\ \A v \in Workers \ {w} : pc'[v] = pc[v]
  BY DEF Decide, IInv, TypeOK, Steps
<1>2. UNCHANGED <<records, jobs, decisions, outbox, ledger, facts, eventLease>>
  BY DEF Decide, tables
<1>3. jobLease[w].job \in Jobs /\ DecisionsOf[jobLease[w].job] \subseteq Decisions
  BY <1>1, PipelineAssumption DEF IInv, JobSide, Busy, PipelineAssumption
<1>4. /\ jobLease' \in [Workers -> JobLeases]
      /\ \A v \in Workers : /\ jobLease'[v].job = jobLease[v].job
                            /\ jobLease'[v].token = jobLease[v].token
                            /\ v # w => jobLease'[v] = jobLease[v]
      /\ pc'[w] = "persist_success" =>
            jobLease'[w].decision \in DecisionsOf[jobLease[w].job]
  <2>1. CASE jobLease' = jobLease /\ pc'[w] = "persist_failure"
    BY <2>1 DEF IInv, TypeOK
  <2>2. ASSUME NEW d \in DecisionsOf[jobLease[w].job],
               jobLease' = [jobLease EXCEPT ![w].decision = d]
        PROVE  <1>4!1 /\ <1>4!2 /\ jobLease'[w].decision \in DecisionsOf[jobLease[w].job]
    <3>1. jobLease \in [Workers -> JobLeases] /\ d \in Decisions
      BY <1>3 DEF IInv, TypeOK
    <3>2. QED
      BY <2>2, <3>1 DEF JobLeases
  <2>3. QED
    BY <2>1, <2>2 DEF Decide, IInv, TypeOK
<1>5. JobSide'
  <2>1. \A v \in Workers :
           \/ pc'[v] \notin Busy /\ jobLease'[v] = NoJob
           \/ /\ pc[v] \in Busy /\ pc'[v] \in Busy
              /\ jobLease'[v].job = jobLease[v].job
              /\ jobLease'[v].token = jobLease[v].token
              /\ pc'[v] = "persist_success" =>
                    jobLease'[v].decision \in DecisionsOf[jobLease[v].job]
    BY <1>1, <1>4 DEF IInv, JobSide, Busy
  <2>2. \A j \in Jobs : jobs'[j].attempt >= jobs[j].attempt
    BY <1>2 DEF IInv, JobSide, Job!Row
  <2>3. QED
    BY <1>2, <1>4, <2>1, <2>2, JobSideKept DEF IInv, JobSide
<1>6. EventSide'
  BY <1>1, <1>2, EventSideUnchanged DEF IInv, Projecting
<1>7. TypeOK'
  BY <1>1, <1>2, <1>4 DEF IInv, TypeOK
<1>8. SuccessIsBacked' /\ FactsInv' /\ LedgerInv'
  BY <1>1, <1>2 DEF IInv, SuccessIsBacked, FactsInv, LedgerInv
<1>9. QED
  BY <1>5, <1>6, <1>7, <1>8 DEF IInv

(* The fence lets a worker through only to a row that is still running,    *)
(* and closing that row hands it to nobody.                                *)
LEMMA JobClosed ==
    ASSUME IInv, NEW j \in Jobs, NEW row,
           jobs[j].status = "running" /\ row \in {Job!Completed(jobs[j]), Job!Failed(jobs[j])},
           jobs' = [jobs EXCEPT ![j] = row]
    PROVE  /\ jobs' \in [Jobs -> Job!Row]
           /\ \A i \in Jobs : /\ Job!WellFormed(jobs'[i])
                              /\ jobs'[i].attempt >= jobs[i].attempt
                              /\ \A t : Job!HeldBy(jobs'[i], t) => Job!HeldBy(jobs[i], t)
<1>1. Job!WellFormed(row) /\ row.attempt = jobs[j].attempt /\ row.status # "running"
  BY JobRowSteps DEF IInv, JobSide
<1>2. row \in Job!Row /\ \A i \in Jobs : jobs[i].attempt \in Nat
  BY <1>1 DEF IInv, JobSide, Job!WellFormed, Job!Row
<1>3. QED
  BY <1>1, <1>2 DEF IInv, JobSide, Job!HeldBy

LEMMA PersistSuccessStep ==
    ASSUME IInv, NEW w \in Workers, PersistSuccess(w)
    PROVE  IInv'
<1> DEFINE j == jobLease[w].job
           d == jobLease[w].decision
<1>1. /\ pc[w] = "persist_success" /\ pc'[w] \in {"claim_event", "persist_failure"}
      /\ pc' \in [Workers -> Steps]
      /\ \A v \in Workers \ {w} : pc'[v] = pc[v]
  BY DEF PersistSuccess, IInv, TypeOK, Steps
<1>2. UNCHANGED <<records, ledger, facts, eventLease>>
  BY DEF PersistSuccess
<1>3. j \in Jobs /\ d \in DecisionsOf[j] /\ d \in Decisions
  BY <1>1, PipelineAssumption DEF IInv, JobSide, Busy, PipelineAssumption
<1>4. /\ jobLease' \in [Workers -> JobLeases]
      /\ \A v \in Workers : \/ pc'[v] \notin Busy /\ jobLease'[v] = NoJob
                            \/ /\ pc[v] \in Busy /\ pc'[v] \in Busy
                               /\ jobLease'[v].job = jobLease[v].job
                               /\ jobLease'[v].token = jobLease[v].token
                               /\ pc'[v] = "persist_success" =>
                                     jobLease'[v].decision \in DecisionsOf[jobLease[v].job]
  <2>1. NoJob \in JobLeases
    BY PipelineAssumption DEF PipelineAssumption, NoJob, JobLeases
  <2>2. \/ jobLease' = [jobLease EXCEPT ![w] = NoJob] /\ pc'[w] = "claim_event"
        \/ jobLease' = jobLease /\ pc'[w] = "persist_failure"
    BY DEF PersistSuccess, IInv, TypeOK
  <2>3. QED
    BY <1>1, <2>1, <2>2 DEF IInv, JobSide, Busy
<1>5. CASE UNCHANGED <<jobs, decisions, outbox>>
  <2>1. /\ jobs' \in [Jobs -> Job!Row]
        /\ \A i \in Jobs : /\ Job!WellFormed(jobs'[i])
                           /\ jobs'[i].attempt >= jobs[i].attempt
    BY <1>5 DEF IInv, JobSide, Job!Row
  <2>2. JobSide'
    BY <1>4, <1>5, <2>1, JobSideKept DEF IInv
  <2>3. EventSide'
    BY <1>1, <1>2, <1>5, EventSideUnchanged DEF IInv, Projecting
  <2>4. TypeOK'
    BY <1>1, <1>2, <1>4, <1>5 DEF IInv, TypeOK
  <2>5. SuccessIsBacked' /\ FactsInv' /\ LedgerInv'
    BY <1>1, <1>2, <1>5 DEF IInv, SuccessIsBacked, FactsInv, LedgerInv
  <2>6. QED
    BY <2>2, <2>3, <2>4, <2>5 DEF IInv
<1>6. CASE /\ Job!HeldBy(jobs[j], jobLease[w].token)
           /\ decisions' = [decisions EXCEPT ![d] = IF @ = None THEN j ELSE @]
           /\ outbox' = [outbox EXCEPT ![d] = IF Event!Exists(@) THEN @ ELSE Event!Fresh]
           /\ jobs' = [jobs EXCEPT ![j] = Job!Completed(@)]
  <2>1. jobs[j].status = "running"
    BY <1>6 DEF Job!HeldBy
  <2>2. JobSide'
    <3>1. /\ jobs' \in [Jobs -> Job!Row]
          /\ \A i \in Jobs : /\ Job!WellFormed(jobs'[i])
                             /\ jobs'[i].attempt >= jobs[i].attempt
                             /\ \A t : Job!HeldBy(jobs'[i], t) => Job!HeldBy(jobs[i], t)
      BY <1>3, <1>6, <2>1, JobClosed
    <3>2. QED
      BY <1>4, <3>1, JobSideKept DEF IInv
  <2>3. /\ Event!WellFormed(Event!Fresh) /\ Event!Fresh \in Event!Row
        /\ Event!Fresh.attempt = 0 /\ Event!Fresh.status = "pending"
    BY PipelineAssumption DEF PipelineAssumption, Event!WellFormed, Event!Row, Event!Fresh,
       Event!Waiting, Event!NoToken
  <2>4. \A e \in Decisions : /\ outbox[e].attempt \in Nat
                             /\ ~Event!Exists(outbox[e]) => outbox[e].attempt = 0
    BY DEF IInv, EventSide, Event!WellFormed, Event!Row, Event!Exists
  <2>5. /\ outbox' \in [Decisions -> Event!Row]
        /\ \A e \in Decisions :
              /\ Event!WellFormed(outbox'[e])
              /\ outbox'[e].attempt >= outbox[e].attempt
              /\ Event!Exists(outbox[e]) => outbox'[e] = outbox[e]
              /\ \A t : Event!HeldBy(outbox'[e], t) => Event!HeldBy(outbox[e], t)
              /\ outbox'[e].status = "published" <=> outbox[e].status = "published"
              /\ Event!Exists(outbox'[e]) <=> Event!Exists(outbox[e]) \/ e = d
    BY <1>3, <1>6, <2>3, <2>4 DEF IInv, EventSide, Event!HeldBy, Event!Exists
  <2>6. EventSide'
    <3>1. \A v \in Workers : /\ pc'[v] \in Projecting <=> pc[v] \in Projecting
                             /\ pc[v] \notin Projecting => eventLease[v] = NoEvent
      BY <1>1 DEF IInv, EventSide, Projecting
    <3>2. QED
      BY <1>2, <2>5, <3>1, EventSideKept DEF IInv, EventSide
  <2>7. TypeOK'
    <3>1. jobs' \in [Jobs -> Job!Row] /\ outbox' \in [Decisions -> Event!Row]
      BY <2>2, <2>6 DEF JobSide, EventSide
    <3>2. QED
      BY <1>1, <1>2, <1>3, <1>4, <1>6, <3>1 DEF IInv, TypeOK
  <2>8. SuccessIsBacked'
    <3>1. /\ jobs'[j].status = "succeeded"
          /\ \A i \in Jobs \ {j} : jobs'[i] = jobs[i]
          /\ decisions'[d] # None /\ decisions'[d] \in {decisions[d], j}
          /\ \A e \in Decisions \ {d} : decisions'[e] = decisions[e]
          /\ \A e \in Decisions : decisions[e] # None => decisions'[e] = decisions[e]
      BY <1>3, <1>6, <2>1, PipelineAssumption
         DEF IInv, TypeOK, Job!Completed, Job!Released, PipelineAssumption
    <3>2. DecisionsOf[j] \subseteq Decisions
          /\ \A i \in Jobs : DecisionsOf[i] \subseteq Decisions
      BY <1>3, PipelineAssumption DEF PipelineAssumption
    <3>3. \A e \in Decisions : decisions[e] # None => decisions[e] \in Jobs
      BY DEF IInv, TypeOK
    <3>4. \A i \in Jobs : jobs'[i].status = "succeeded" =>
             \E e \in DecisionsOf[i] : decisions'[e] # None
      BY <1>3, <3>1, <3>2 DEF IInv, SuccessIsBacked
    <3>5. \A e \in Decisions :
             /\ decisions'[e] # None => /\ jobs'[decisions'[e]].status = "succeeded"
                                        /\ Event!Exists(outbox'[e])
             /\ Event!Exists(outbox'[e]) => decisions'[e] # None
      BY <1>3, <2>5, <3>1, <3>3 DEF IInv, SuccessIsBacked
    <3>6. QED
      BY <3>4, <3>5 DEF SuccessIsBacked
  <2>9. FactsInv' /\ LedgerInv'
    <3>1. \A v \in Workers : pc'[v] = "acknowledge" => pc[v] = "acknowledge"
      BY <1>1
    <3>2. \A e \in facts : e \in Decisions
      BY DEF IInv, TypeOK
    <3>3. QED
      BY <1>2, <2>5, <3>1, <3>2 DEF IInv, FactsInv, LedgerInv
  <2>10. QED
    BY <2>2, <2>6, <2>7, <2>8, <2>9 DEF IInv
<1>7. QED
  BY <1>5, <1>6 DEF PersistSuccess

LEMMA PersistFailureStep ==
    ASSUME IInv, NEW w \in Workers, PersistFailure(w)
    PROVE  IInv'
<1> DEFINE j == jobLease[w].job
<1>1. /\ pc[w] = "persist_failure" /\ pc'[w] = "claim_event"
      /\ pc' \in [Workers -> Steps]
      /\ \A v \in Workers \ {w} : pc'[v] = pc[v]
  BY DEF PersistFailure, IInv, TypeOK, Steps
<1>2. UNCHANGED <<records, decisions, outbox, ledger, facts, eventLease>>
  BY DEF PersistFailure
<1>3. j \in Jobs
  BY <1>1 DEF IInv, JobSide, Busy
<1>4. /\ jobLease' \in [Workers -> JobLeases]
      /\ jobLease'[w] = NoJob
      /\ \A v \in Workers \ {w} : jobLease'[v] = jobLease[v]
  <2>1. NoJob \in JobLeases
    BY PipelineAssumption DEF PipelineAssumption, NoJob, JobLeases
  <2>2. QED
    BY <2>1 DEF PersistFailure, IInv, TypeOK
<1>5. /\ jobs' \in [Jobs -> Job!Row]
      /\ \A i \in Jobs : /\ Job!WellFormed(jobs'[i])
                         /\ jobs'[i].attempt >= jobs[i].attempt
                         /\ \A t : Job!HeldBy(jobs'[i], t) => Job!HeldBy(jobs[i], t)
      /\ \A i \in Jobs : jobs'[i].status = "succeeded" <=> jobs[i].status = "succeeded"
  <2>1. CASE jobs' = jobs
    <3>1. \A i \in Jobs : jobs'[i].attempt >= jobs[i].attempt
      BY <2>1 DEF IInv, JobSide, Job!Row
    <3>2. QED
      BY <2>1, <3>1 DEF IInv, JobSide
  <2>2. CASE /\ Job!HeldBy(jobs[j], jobLease[w].token)
             /\ jobs' = [jobs EXCEPT ![j] = Job!Failed(@)]
    <3>1. jobs[j].status = "running"
      BY <2>2 DEF Job!HeldBy
    <3>2. \A i \in Jobs : jobs'[i].status = "succeeded" <=> jobs[i].status = "succeeded"
      BY <1>3, <2>2, <3>1 DEF IInv, TypeOK, Job!Failed, Job!Released
    <3>3. QED
      BY <1>3, <2>2, <3>1, <3>2, JobClosed
  <2>3. QED
    BY <1>3, <2>1, <2>2 DEF PersistFailure, IInv, TypeOK
<1>6. JobSide'
  <2>1. \A v \in Workers : \/ pc'[v] \notin Busy /\ jobLease'[v] = NoJob
                           \/ /\ pc[v] \in Busy /\ pc'[v] \in Busy
                              /\ jobLease'[v].job = jobLease[v].job
                              /\ jobLease'[v].token = jobLease[v].token
                              /\ pc'[v] = "persist_success" =>
                                    jobLease'[v].decision \in DecisionsOf[jobLease[v].job]
    BY <1>1, <1>4 DEF IInv, JobSide, Busy
  <2>2. QED
    BY <1>4, <1>5, <2>1, JobSideKept DEF IInv
<1>7. EventSide'
  BY <1>1, <1>2, EventSideUnchanged DEF IInv, Projecting
<1>8. TypeOK'
  BY <1>1, <1>2, <1>4, <1>5 DEF IInv, TypeOK
<1>9. SuccessIsBacked'
  BY <1>2, <1>5, SuccessIsBackedKept DEF IInv
<1>10. FactsInv' /\ LedgerInv'
  BY <1>1, <1>2 DEF IInv, FactsInv, LedgerInv
<1>11. QED
  BY <1>6, <1>7, <1>8, <1>9, <1>10 DEF IInv

-----------------------------------------------------------------------------
(* The event half of drain_once. *)

LEMMA ClaimEventStep ==
    ASSUME IInv, NEW w \in Workers, ClaimEvent(w)
    PROVE  IInv'
<1>1. PICK free, picked :
        /\ outbox' = Event!Polled(outbox, free, picked)
        /\ \/ \E e \in Decisions :
                 /\ picked = {e} /\ Event!Claimable(outbox[e])
                 /\ eventLease' = [eventLease EXCEPT ![w] =
                        [event |-> e, token |-> outbox'[e].token, destination |-> None]]
                 /\ pc' = [pc EXCEPT ![w] = "project"]
           \/ /\ picked = {}
              /\ pc' = [pc EXCEPT ![w] = "claim_job"]
              /\ UNCHANGED eventLease
  BY DEF ClaimEvent
<1>2. \A i \in picked : i \in Decisions /\ Event!Claimable(outbox[i])
  BY <1>1
<1>3. /\ outbox' \in [Decisions -> Event!Row]
      /\ \A i \in Decisions :
            /\ Event!WellFormed(outbox'[i])
            /\ outbox'[i].attempt >= outbox[i].attempt
            /\ outbox'[i].status = "published" <=> outbox[i].status = "published"
            /\ Event!Exists(outbox'[i]) <=> Event!Exists(outbox[i])
            /\ i \in picked => /\ outbox'[i].attempt = outbox[i].attempt + 1
                               /\ outbox'[i].token = outbox[i].attempt + 1
            /\ i \notin picked =>
                  \A t : Event!HeldBy(outbox'[i], t) => Event!HeldBy(outbox[i], t)
  <2>1. /\ outbox \in [Decisions -> Event!Row]
        /\ \A i \in Decisions : Event!WellFormed(outbox[i])
    BY DEF IInv, EventSide
  <2>2. /\ outbox' = Event!Polled(outbox, free, picked)
        /\ \A i \in picked : Event!Claimable(outbox[i])
    BY <1>1, <1>2
  <2>3. /\ outbox' \in [Decisions -> Event!Row]
        /\ \A i \in Decisions :
              /\ Event!WellFormed(outbox'[i])
              /\ outbox'[i].attempt >= outbox[i].attempt
              /\ outbox'[i].status = "published" <=> outbox[i].status = "published"
              /\ Event!Exists(outbox'[i]) <=> Event!Exists(outbox[i])
    BY <2>1, <2>2, EventsPolled
  <2>4. \A i \in Decisions :
           i \in picked => /\ outbox'[i].attempt = outbox[i].attempt + 1
                           /\ outbox'[i].token = outbox[i].attempt + 1
    BY <2>1, <2>2, EventsPolled
  <2>5. \A i \in Decisions :
           i \notin picked => \A t : Event!HeldBy(outbox'[i], t) => Event!HeldBy(outbox[i], t)
    BY <2>1, <2>2, EventsPolled
  <2>6. QED
    BY <2>3, <2>4, <2>5
<1>4. /\ pc[w] = "claim_event" /\ pc \in [Workers -> Steps]
      /\ pc'[w] \in {"project", "claim_job"}
      /\ \A v \in Workers \ {w} : pc'[v] = pc[v]
  BY <1>1 DEF ClaimEvent, IInv, TypeOK
<1>5. UNCHANGED <<records, jobs, decisions, ledger, facts, jobLease>>
  BY DEF ClaimEvent
<1>6. /\ eventLease' \in [Workers -> EventLeases]
      /\ \A v \in Workers \ {w} : eventLease'[v] = eventLease[v]
  <2>1. \A e \in Decisions : outbox'[e].token \in 0..MaxEventAttempts
    BY <1>3 DEF Event!Row
  <2>2. QED
    BY <1>1, <2>1 DEF IInv, TypeOK, EventLeases
<1>7. EventSide'
  <2>1. CASE picked = {}
    <3>1. eventLease' = eventLease /\ pc'[w] = "claim_job"
      BY <1>1, <1>4, <2>1 DEF IInv, TypeOK
    <3>2. \A v \in Workers : \/ pc'[v] \notin Projecting /\ eventLease'[v] = NoEvent
                             \/ v # w /\ pc'[v] = pc[v] /\ pc[v] \in Projecting
      BY <1>4, <3>1 DEF IInv, EventSide, Projecting
    <3>3. QED
      BY <1>3, <1>4, <1>6, <2>1, <3>1, <3>2, EventSideKept DEF IInv, EventSide
  <2>2. ASSUME NEW e \in Decisions, picked = {e},
               eventLease' = [eventLease EXCEPT ![w] =
                   [event |-> e, token |-> outbox'[e].token, destination |-> None]],
               pc' = [pc EXCEPT ![w] = "project"], Event!Claimable(outbox[e])
        PROVE  EventSide'
    <3>1. /\ pc'[w] = "project" /\ eventLease'[w].event = e
          /\ eventLease'[w].token = outbox[e].attempt + 1
          /\ outbox'[e].attempt = outbox[e].attempt + 1
          /\ outbox'[e].token = outbox[e].attempt + 1
          /\ \A v \in Workers \ {w} : pc'[v] = pc[v] /\ eventLease'[v] = eventLease[v]
      BY <1>3, <2>2 DEF IInv, TypeOK
    <3>2. \A i \in Decisions : outbox[i].attempt \in Nat /\ outbox'[i].attempt \in Nat
      BY <1>3 DEF IInv, EventSide, Event!Row
    <3>3. Event!Exists(outbox'[e])
      BY <1>3, <2>2 DEF Event!Claimable, Event!Waiting, Event!Lapsed, Event!Exists
    <3>4. \A v \in Workers :
            /\ pc'[v] \in Projecting =>
                  /\ eventLease'[v].event \in Decisions
                  /\ eventLease'[v].token \in 1..outbox'[eventLease'[v].event].attempt
                  /\ Event!Exists(outbox'[eventLease'[v].event])
            /\ pc'[v] \notin Projecting => eventLease'[v] = NoEvent
      BY <1>3, <3>1, <3>2, <3>3 DEF IInv, EventSide, Projecting
    <3>5. \A v \in Workers \ {w} : ~HoldsEvent(v, e)'
      (* Its token is one the row had drawn before this claim. *)
      <4>1. ASSUME NEW v \in Workers \ {w}, HoldsEvent(v, e)'
            PROVE  FALSE
        <5>1. eventLease[v].event = e /\ eventLease[v].token = outbox[e].attempt + 1
          BY <3>1, <4>1 DEF HoldsEvent, Event!HeldBy
        <5>2. pc[v] \in Projecting
          BY <5>1, PipelineAssumption DEF IInv, EventSide, NoEvent, PipelineAssumption
        <5>3. eventLease[v].token \in 1..outbox[e].attempt
          BY <5>1, <5>2 DEF IInv, EventSide
        <5>4. QED
          BY <3>2, <5>1, <5>3
      <4>2. QED
        BY <4>1
    <3>6. \A i \in Decisions, v \in Workers : i # e /\ HoldsEvent(v, i)' => HoldsEvent(v, i)
      BY <1>3, <2>2, <3>1 DEF HoldsEvent
    <3>7. QED
      BY <1>3, <1>6, <3>4, <3>5, <3>6 DEF IInv, EventSide
  <2>3. QED
    BY <1>1, <2>1, <2>2
<1>8. JobSide'
  BY <1>4, <1>5, JobSideUnchanged DEF IInv, Busy
<1>9. TypeOK'
  BY <1>1, <1>3, <1>5, <1>6 DEF IInv, TypeOK, Steps
<1>10. SuccessIsBacked'
  BY <1>3, <1>5, SuccessIsBackedKept DEF IInv
<1>11. FactsInv' /\ LedgerInv'
  <2>1. \A v \in Workers : pc'[v] = "acknowledge" => v # w /\ pc[v] = "acknowledge"
    BY <1>4
  <2>2. \A e \in facts : e \in Decisions
    BY DEF IInv, TypeOK
  <2>3. QED
    BY <1>3, <1>5, <1>6, <2>1, <2>2 DEF IInv, FactsInv, LedgerInv
<1>12. QED
  BY <1>7, <1>8, <1>9, <1>10, <1>11 DEF IInv

LEMMA ProjectStep ==
    ASSUME IInv, NEW w \in Workers, Project(w)
    PROVE  IInv'
<1> DEFINE e == eventLease[w].event
<1>1. /\ pc[w] = "project" /\ pc'[w] \in {"acknowledge", "projection_failure"}
      /\ pc' \in [Workers -> Steps]
      /\ \A v \in Workers \ {w} : pc'[v] = pc[v]
  BY DEF Project, IInv, TypeOK, Steps
<1>2. UNCHANGED <<records, jobs, decisions, outbox, ledger, jobLease>>
  BY DEF Project, tables
<1>3. e \in Decisions /\ Event!Exists(outbox[e])
  BY <1>1 DEF IInv, EventSide, Projecting
<1>4. facts' \in {facts} \cup {facts \cup ({e} \cap Eligible)}
  BY DEF Project
<1>5. /\ eventLease' \in [Workers -> EventLeases]
      /\ \A v \in Workers : /\ eventLease'[v].event = eventLease[v].event
                            /\ eventLease'[v].token = eventLease[v].token
                            /\ v # w => eventLease'[v] = eventLease[v]
      /\ pc'[w] = "acknowledge" =>
            \/ eventLease'[w].destination = "clickhouse.signal_facts" /\ e \in facts'
            \/ eventLease'[w].destination = "skipped.uncalibrated" /\ e \notin Eligible
  <2>1. eventLease \in [Workers -> EventLeases] /\ pc \in [Workers -> Steps]
    BY DEF IInv, TypeOK
  <2>2. CASE eventLease' = eventLease /\ pc' = [pc EXCEPT ![w] = "projection_failure"]
    BY <2>1, <2>2
  <2>3. CASE /\ eventLease' = [eventLease EXCEPT ![w].destination = "clickhouse.signal_facts"]
             /\ e \in facts'
    BY <2>1, <2>3 DEF EventLeases, Destinations
  <2>4. CASE /\ eventLease' = [eventLease EXCEPT ![w].destination = "skipped.uncalibrated"]
             /\ e \notin Eligible
    BY <2>1, <2>4 DEF EventLeases, Destinations
  <2>5. QED
    BY <2>2, <2>3, <2>4 DEF Project
<1>6. EventSide'
  <2>1. \A v \in Workers : \/ pc'[v] \notin Projecting /\ eventLease'[v] = NoEvent
                           \/ /\ pc[v] \in Projecting /\ pc'[v] \in Projecting
                              /\ eventLease'[v].event = eventLease[v].event
                              /\ eventLease'[v].token = eventLease[v].token
    BY <1>1, <1>5 DEF IInv, EventSide, Projecting
  <2>2. /\ outbox' \in [Decisions -> Event!Row]
        /\ \A i \in Decisions : /\ Event!WellFormed(outbox'[i])
                                /\ outbox'[i].attempt >= outbox[i].attempt
    BY <1>2 DEF IInv, EventSide, Event!Row
  <2>3. QED
    BY <1>2, <1>5, <2>1, <2>2, EventSideKept DEF IInv
<1>7. JobSide'
  BY <1>1, <1>2, JobSideUnchanged DEF IInv, Busy
<1>8. TypeOK'
  BY <1>1, <1>2, <1>3, <1>4, <1>5 DEF IInv, TypeOK
<1>9. SuccessIsBacked'
  BY <1>2 DEF IInv, SuccessIsBacked
<1>10. FactsInv'
  BY <1>1, <1>2, <1>3, <1>4, <1>5 DEF IInv, FactsInv
<1>11. LedgerInv'
  BY <1>2, <1>4 DEF IInv, LedgerInv
<1>12. QED
  BY <1>6, <1>7, <1>8, <1>9, <1>10, <1>11 DEF IInv

LEMMA EventClosed ==
    ASSUME IInv, NEW e \in Decisions, NEW row,
           /\ outbox[e].status = "publishing"
           /\ row \in {Event!Completed(outbox[e]), Event!Failed(outbox[e])},
           outbox' = [outbox EXCEPT ![e] = row]
    PROVE  /\ outbox' \in [Decisions -> Event!Row]
           /\ \A i \in Decisions :
                /\ Event!WellFormed(outbox'[i])
                /\ outbox'[i].attempt >= outbox[i].attempt
                /\ Event!Exists(outbox'[i]) <=> Event!Exists(outbox[i])
                /\ \A t : Event!HeldBy(outbox'[i], t) => Event!HeldBy(outbox[i], t)
<1>1. /\ Event!WellFormed(row) /\ row.attempt = outbox[e].attempt
      /\ row.status \in {"published", "dead", "retry_wait"}
  BY EventRowSteps DEF IInv, EventSide
<1>2. row \in Event!Row /\ \A i \in Decisions : outbox[i].attempt \in Nat
  BY <1>1 DEF IInv, EventSide, Event!WellFormed, Event!Row
<1>3. QED
  BY <1>1, <1>2 DEF IInv, EventSide, Event!HeldBy, Event!Exists

(* A worker out of the projection steps has dropped its lease.             *)
LEMMA LeaseDropped ==
    ASSUME IInv, NEW w \in Workers,
           pc[w] \in Projecting,
           \A v \in Workers \ {w} : pc'[v] = pc[v],
           \/ /\ eventLease' = [eventLease EXCEPT ![w] = NoEvent]
              /\ pc'[w] = "claim_job"
           \/ /\ UNCHANGED eventLease
              /\ pc'[w] = "projection_failure"
    PROVE  /\ eventLease' \in [Workers -> EventLeases]
           /\ \A v \in Workers \ {w} : eventLease'[v] = eventLease[v]
           /\ \A v \in Workers : \/ pc'[v] \notin Projecting /\ eventLease'[v] = NoEvent
                                 \/ /\ pc[v] \in Projecting /\ pc'[v] \in Projecting
                                    /\ eventLease'[v].event = eventLease[v].event
                                    /\ eventLease'[v].token = eventLease[v].token
<1>1. NoEvent \in EventLeases
  BY PipelineAssumption DEF PipelineAssumption, NoEvent, EventLeases
<1>2. QED
  BY <1>1 DEF IInv, EventSide, Projecting

LEMMA AcknowledgeStep ==
    ASSUME IInv, NEW w \in Workers, Acknowledge(w)
    PROVE  IInv'
<1> DEFINE e == eventLease[w].event
<1>1. /\ pc[w] = "acknowledge" /\ pc'[w] \in {"claim_job", "projection_failure"}
      /\ pc' \in [Workers -> Steps]
      /\ \A v \in Workers \ {w} : pc'[v] = pc[v]
  BY DEF Acknowledge, IInv, TypeOK, Steps
<1>2. UNCHANGED <<records, jobs, decisions, facts, jobLease>>
  BY DEF Acknowledge
<1>3. e \in Decisions
  BY <1>1 DEF IInv, EventSide, Projecting
<1>4. /\ eventLease' \in [Workers -> EventLeases]
      /\ \A v \in Workers \ {w} : eventLease'[v] = eventLease[v]
      /\ \A v \in Workers : \/ pc'[v] \notin Projecting /\ eventLease'[v] = NoEvent
                            \/ /\ pc[v] \in Projecting /\ pc'[v] \in Projecting
                               /\ eventLease'[v].event = eventLease[v].event
                               /\ eventLease'[v].token = eventLease[v].token
  <2>1. \/ eventLease' = [eventLease EXCEPT ![w] = NoEvent] /\ pc'[w] = "claim_job"
        \/ UNCHANGED eventLease /\ pc'[w] = "projection_failure"
    BY DEF Acknowledge, IInv, TypeOK
  <2>2. pc[w] \in Projecting
    BY <1>1 DEF Projecting
  <2>3. QED
    BY <1>1, <2>1, <2>2, LeaseDropped
<1>5. JobSide'
  BY <1>1, <1>2, JobSideUnchanged DEF IInv, Busy
<1>6. \A v \in Workers : pc'[v] = "acknowledge" => v # w /\ pc[v] = "acknowledge"
  BY <1>1
<1>7. CASE UNCHANGED <<outbox, ledger>>
  <2>1. /\ outbox' \in [Decisions -> Event!Row]
        /\ \A i \in Decisions : /\ Event!WellFormed(outbox'[i])
                                /\ outbox'[i].attempt >= outbox[i].attempt
    BY <1>7 DEF IInv, EventSide, Event!Row
  <2>2. EventSide'
    BY <1>4, <1>7, <2>1, EventSideKept DEF IInv
  <2>3. TypeOK'
    BY <1>1, <1>2, <1>4, <1>7 DEF IInv, TypeOK
  <2>4. SuccessIsBacked' /\ FactsInv' /\ LedgerInv'
    BY <1>2, <1>4, <1>6, <1>7 DEF IInv, SuccessIsBacked, FactsInv, LedgerInv
  <2>5. QED
    BY <1>5, <2>2, <2>3, <2>4 DEF IInv
<1>8. CASE /\ Event!HeldBy(outbox[e], eventLease[w].token)
           /\ ledger' = [ledger EXCEPT ![e] =
                            IF @ = None THEN eventLease[w].destination ELSE @]
           /\ outbox' = [outbox EXCEPT ![e] = Event!Completed(@)]
  <2>1. outbox[e].status = "publishing"
    BY <1>8 DEF Event!HeldBy
  <2>2. /\ outbox' \in [Decisions -> Event!Row]
        /\ \A i \in Decisions :
             /\ Event!WellFormed(outbox'[i])
             /\ outbox'[i].attempt >= outbox[i].attempt
             /\ Event!Exists(outbox'[i]) <=> Event!Exists(outbox[i])
             /\ \A t : Event!HeldBy(outbox'[i], t) => Event!HeldBy(outbox[i], t)
    BY <1>3, <1>8, <2>1, EventClosed
  <2>3. EventSide'
    BY <1>4, <2>2, EventSideKept DEF IInv
  <2>4. /\ eventLease[w].destination \in Destinations
        /\ eventLease[w].destination = "clickhouse.signal_facts" => e \in facts
        /\ eventLease[w].destination = "skipped.uncalibrated" => e \notin Eligible
    BY <1>1 DEF IInv, FactsInv, Destinations
  <2>5. ledger[e] = None
    BY <1>3, <2>1 DEF IInv, LedgerInv
  <2>6. TypeOK'
    BY <1>1, <1>2, <1>4, <1>8, <2>2, <2>4 DEF IInv, TypeOK
  <2>7. SuccessIsBacked'
    BY <1>2, <2>2, SuccessIsBackedKept DEF IInv
  <2>8. FactsInv'
    <3>1. \A i \in facts : i \in Decisions
      BY DEF IInv, TypeOK
    <3>2. QED
      BY <1>2, <1>4, <1>6, <2>2, <3>1 DEF IInv, FactsInv
  <2>9. LedgerInv'
    <3>1. /\ ledger'[e] = eventLease[w].destination /\ ledger'[e] # None
          /\ outbox'[e].status = "published"
      BY <1>3, <1>8, <2>4, <2>5, PipelineAssumption
         DEF IInv, TypeOK, Event!Completed, Event!Released, PipelineAssumption
    <3>2. \A i \in Decisions \ {e} : ledger'[i] = ledger[i] /\ outbox'[i] = outbox[i]
      BY <1>3, <1>8 DEF IInv, TypeOK
    <3>3. QED
      BY <1>2, <2>4, <3>1, <3>2 DEF IInv, LedgerInv
  <2>10. QED
    BY <1>5, <2>3, <2>6, <2>7, <2>8, <2>9 DEF IInv
<1>9. QED
  BY <1>7, <1>8 DEF Acknowledge

LEMMA ProjectionFailureStep ==
    ASSUME IInv, NEW w \in Workers, ProjectionFailure(w)
    PROVE  IInv'
<1> DEFINE e == eventLease[w].event
<1>1. /\ pc[w] = "projection_failure" /\ pc'[w] = "claim_job"
      /\ pc' \in [Workers -> Steps]
      /\ \A v \in Workers \ {w} : pc'[v] = pc[v]
  BY DEF ProjectionFailure, IInv, TypeOK, Steps
<1>2. UNCHANGED <<records, jobs, decisions, ledger, facts, jobLease>>
  BY DEF ProjectionFailure
<1>3. e \in Decisions /\ pc[w] \in Projecting
  BY <1>1 DEF IInv, EventSide, Projecting
<1>4. /\ eventLease' \in [Workers -> EventLeases]
      /\ \A v \in Workers \ {w} : eventLease'[v] = eventLease[v]
      /\ \A v \in Workers : \/ pc'[v] \notin Projecting /\ eventLease'[v] = NoEvent
                            \/ /\ pc[v] \in Projecting /\ pc'[v] \in Projecting
                               /\ eventLease'[v].event = eventLease[v].event
                               /\ eventLease'[v].token = eventLease[v].token
  <2>1. eventLease' = [eventLease EXCEPT ![w] = NoEvent]
    BY DEF ProjectionFailure
  <2>2. QED
    BY <1>1, <1>3, <2>1, LeaseDropped
<1>5. /\ outbox' \in [Decisions -> Event!Row]
      /\ \A i \in Decisions :
           /\ Event!WellFormed(outbox'[i])
           /\ outbox'[i].attempt >= outbox[i].attempt
           /\ Event!Exists(outbox'[i]) <=> Event!Exists(outbox[i])
           /\ \A t : Event!HeldBy(outbox'[i], t) => Event!HeldBy(outbox[i], t)
      /\ \A i \in Decisions : outbox'[i].status = "published" <=> outbox[i].status = "published"
  <2>1. CASE outbox' = outbox
    <3>1. \A i \in Decisions : outbox'[i].attempt >= outbox[i].attempt
      BY <2>1 DEF IInv, EventSide, Event!Row
    <3>2. QED
      BY <2>1, <3>1 DEF IInv, EventSide
  <2>2. CASE /\ Event!HeldBy(outbox[e], eventLease[w].token)
             /\ outbox' = [outbox EXCEPT ![e] = Event!Failed(@)]
    <3>1. outbox[e].status = "publishing"
      BY <2>2 DEF Event!HeldBy
    <3>2. \A i \in Decisions : outbox'[i].status = "published" <=> outbox[i].status = "published"
      BY <1>3, <2>2, <3>1 DEF IInv, TypeOK, Event!Failed, Event!Released
    <3>3. QED
      BY <1>3, <2>2, <3>1, <3>2, EventClosed
  <2>3. QED
    BY <1>3, <2>1, <2>2 DEF ProjectionFailure, IInv, TypeOK
<1>6. EventSide'
  BY <1>4, <1>5, EventSideKept DEF IInv
<1>7. JobSide'
  BY <1>1, <1>2, JobSideUnchanged DEF IInv, Busy
<1>8. TypeOK'
  BY <1>1, <1>2, <1>4, <1>5 DEF IInv, TypeOK
<1>9. SuccessIsBacked'
  BY <1>2, <1>5, SuccessIsBackedKept DEF IInv
<1>10. FactsInv' /\ LedgerInv'
  <2>1. \A v \in Workers : pc'[v] = "acknowledge" => v # w /\ pc[v] = "acknowledge"
    BY <1>1
  <2>2. \A i \in facts : i \in Decisions
    BY DEF IInv, TypeOK
  <2>3. QED
    BY <1>2, <1>4, <1>5, <2>1, <2>2 DEF IInv, FactsInv, LedgerInv
<1>11. QED
  BY <1>6, <1>7, <1>8, <1>9, <1>10 DEF IInv

-----------------------------------------------------------------------------
(* The environment. *)

LEMMA CrashStep ==
    ASSUME IInv, NEW w \in Workers, Crash(w)
    PROVE  IInv'
<1>1. /\ pc'[w] = "claim_job" /\ pc' \in [Workers -> Steps]
      /\ \A v \in Workers \ {w} : pc'[v] = pc[v]
  BY DEF Crash, IInv, TypeOK, Steps
<1>2. UNCHANGED <<records, jobs, decisions, outbox, ledger, facts>>
  BY DEF Crash, tables
<1>3. /\ jobLease' \in [Workers -> JobLeases] /\ eventLease' \in [Workers -> EventLeases]
      /\ jobLease'[w] = NoJob /\ eventLease'[w] = NoEvent
      /\ \A v \in Workers \ {w} : jobLease'[v] = jobLease[v] /\ eventLease'[v] = eventLease[v]
  <2>1. NoJob \in JobLeases /\ NoEvent \in EventLeases
    BY PipelineAssumption DEF PipelineAssumption, NoJob, JobLeases, NoEvent, EventLeases
  <2>2. QED
    BY <2>1 DEF Crash, IInv, TypeOK
<1>4. JobSide'
  <2>1. \A v \in Workers : \/ pc'[v] \notin Busy /\ jobLease'[v] = NoJob
                           \/ /\ pc[v] \in Busy /\ pc'[v] \in Busy
                              /\ jobLease'[v].job = jobLease[v].job
                              /\ jobLease'[v].token = jobLease[v].token
                              /\ pc'[v] = "persist_success" =>
                                    jobLease'[v].decision \in DecisionsOf[jobLease[v].job]
    BY <1>1, <1>3 DEF IInv, JobSide, Busy
  <2>2. /\ jobs' \in [Jobs -> Job!Row]
        /\ \A i \in Jobs : /\ Job!WellFormed(jobs'[i])
                           /\ jobs'[i].attempt >= jobs[i].attempt
    BY <1>2 DEF IInv, JobSide, Job!Row
  <2>3. QED
    BY <1>2, <1>3, <2>1, <2>2, JobSideKept DEF IInv
<1>5. EventSide'
  <2>1. \A v \in Workers : \/ pc'[v] \notin Projecting /\ eventLease'[v] = NoEvent
                           \/ /\ pc[v] \in Projecting /\ pc'[v] \in Projecting
                              /\ eventLease'[v].event = eventLease[v].event
                              /\ eventLease'[v].token = eventLease[v].token
    BY <1>1, <1>3 DEF IInv, EventSide, Projecting
  <2>2. /\ outbox' \in [Decisions -> Event!Row]
        /\ \A i \in Decisions : /\ Event!WellFormed(outbox'[i])
                                /\ outbox'[i].attempt >= outbox[i].attempt
    BY <1>2 DEF IInv, EventSide, Event!Row
  <2>3. QED
    BY <1>2, <1>3, <2>1, <2>2, EventSideKept DEF IInv
<1>6. TypeOK'
  BY <1>1, <1>2, <1>3 DEF IInv, TypeOK
<1>7. SuccessIsBacked' /\ FactsInv' /\ LedgerInv'
  BY <1>1, <1>2, <1>3 DEF IInv, SuccessIsBacked, FactsInv, LedgerInv
<1>8. QED
  BY <1>4, <1>5, <1>6, <1>7 DEF IInv

LEMMA JobClockStep ==
    ASSUME IInv, NEW j \in Jobs, JobClock(j)
    PROVE  IInv'
<1>1. UNCHANGED <<records, decisions, outbox, ledger, facts, pc, jobLease, eventLease>>
  BY DEF JobClock, local
<1>2. /\ Job!WellFormed(Job!Ticked(jobs[j])) /\ Job!Ticked(jobs[j]) \in Job!Row
      /\ Job!Ticked(jobs[j]).attempt = jobs[j].attempt
      /\ Job!Ticked(jobs[j]).status = jobs[j].status
      /\ Job!Ticked(jobs[j]).token = jobs[j].token
  BY JobRowSteps DEF IInv, JobSide, Job!WellFormed
<1>3. /\ jobs' \in [Jobs -> Job!Row]
      /\ \A i \in Jobs : /\ Job!WellFormed(jobs'[i])
                         /\ jobs'[i].attempt >= jobs[i].attempt
                         /\ \A t : Job!HeldBy(jobs'[i], t) => Job!HeldBy(jobs[i], t)
      /\ \A i \in Jobs : jobs'[i].status = "succeeded" <=> jobs[i].status = "succeeded"
  <2>1. jobs' = [jobs EXCEPT ![j] = Job!Ticked(jobs[j])]
    BY DEF JobClock
  <2>2. \A i \in Jobs : jobs[i].attempt \in Nat /\ Job!WellFormed(jobs[i])
    BY DEF IInv, JobSide, Job!Row
  <2>3. QED
    BY <1>2, <2>1, <2>2 DEF IInv, TypeOK, Job!HeldBy
<1>4. JobSide'
  <2>1. \A v \in Workers : \/ pc'[v] \notin Busy /\ jobLease'[v] = NoJob
                           \/ /\ pc[v] \in Busy /\ pc'[v] \in Busy
                              /\ jobLease'[v].job = jobLease[v].job
                              /\ jobLease'[v].token = jobLease[v].token
                              /\ pc'[v] = "persist_success" =>
                                    jobLease'[v].decision \in DecisionsOf[jobLease[v].job]
    BY <1>1 DEF IInv, JobSide, Busy
  <2>2. jobLease' \in [Workers -> JobLeases]
    BY <1>1 DEF IInv, TypeOK
  <2>3. QED
    BY <1>3, <2>1, <2>2, JobSideKept DEF IInv
<1>5. EventSide'
  BY <1>1, EventSideUnchanged DEF IInv
<1>6. TypeOK'
  BY <1>1, <1>3 DEF IInv, TypeOK
<1>7. SuccessIsBacked'
  BY <1>1, <1>3, SuccessIsBackedKept DEF IInv
<1>8. FactsInv' /\ LedgerInv'
  BY <1>1 DEF IInv, FactsInv, LedgerInv
<1>9. QED
  BY <1>4, <1>5, <1>6, <1>7, <1>8 DEF IInv

LEMMA EventClockStep ==
    ASSUME IInv, NEW e \in Decisions, EventClock(e)
    PROVE  IInv'
<1>1. UNCHANGED <<records, jobs, decisions, ledger, facts, pc, jobLease, eventLease>>
  BY DEF EventClock, local
<1>2. /\ Event!WellFormed(Event!Ticked(outbox[e])) /\ Event!Ticked(outbox[e]) \in Event!Row
      /\ Event!Ticked(outbox[e]).attempt = outbox[e].attempt
      /\ Event!Ticked(outbox[e]).status = outbox[e].status
      /\ Event!Ticked(outbox[e]).token = outbox[e].token
  BY EventRowSteps DEF IInv, EventSide, Event!WellFormed
<1>3. /\ outbox' \in [Decisions -> Event!Row]
      /\ \A i \in Decisions : /\ Event!WellFormed(outbox'[i])
                              /\ outbox'[i].attempt >= outbox[i].attempt
                              /\ outbox'[i].status = outbox[i].status
                              /\ \A t : Event!HeldBy(outbox'[i], t) => Event!HeldBy(outbox[i], t)
  <2>1. outbox' = [outbox EXCEPT ![e] = Event!Ticked(outbox[e])]
    BY DEF EventClock
  <2>2. \A i \in Decisions : outbox[i].attempt \in Nat /\ Event!WellFormed(outbox[i])
    BY DEF IInv, EventSide, Event!Row
  <2>3. QED
    BY <1>2, <2>1, <2>2 DEF IInv, TypeOK, Event!HeldBy
<1>4. EventSide'
  <2>1. \A v \in Workers : \/ pc'[v] \notin Projecting /\ eventLease'[v] = NoEvent
                           \/ /\ pc[v] \in Projecting /\ pc'[v] \in Projecting
                              /\ eventLease'[v].event = eventLease[v].event
                              /\ eventLease'[v].token = eventLease[v].token
    BY <1>1 DEF IInv, EventSide
  <2>2. eventLease' \in [Workers -> EventLeases]
    BY <1>1 DEF IInv, TypeOK
  <2>3. \A i \in Decisions : Event!Exists(outbox[i]) => Event!Exists(outbox'[i])
    BY <1>3 DEF Event!Exists
  <2>4. QED
    BY <1>3, <2>1, <2>2, <2>3, EventSideKept DEF IInv
<1>5. JobSide'
  BY <1>1, JobSideUnchanged DEF IInv
<1>6. TypeOK'
  BY <1>1, <1>3 DEF IInv, TypeOK
<1>7. SuccessIsBacked'
  BY <1>1, <1>3, SuccessIsBackedKept DEF IInv, Event!Exists
<1>8. FactsInv' /\ LedgerInv'
  <2>1. \A i \in facts : i \in Decisions
    BY DEF IInv, TypeOK
  <2>2. QED
    BY <1>1, <1>3, <2>1 DEF IInv, FactsInv, LedgerInv, Event!Exists
<1>9. QED
  BY <1>4, <1>5, <1>6, <1>7, <1>8 DEF IInv

LEMMA StutteringStep ==
    ASSUME IInv, UNCHANGED vars
    PROVE  IInv'
BY DEF IInv, vars, tables, local, TypeOK, JobSide, EventSide, SuccessIsBacked, FactsInv,
   LedgerInv, HoldsJob, HoldsEvent

-----------------------------------------------------------------------------
(* The invariant and what follows from it. *)

LEMMA InitEstablishesIInv ==
    ASSUME Init
    PROVE  IInv
<1>0. MaxJobAttempts \in Nat /\ MaxEventAttempts \in Nat
      /\ None \notin Jobs /\ None \notin Decisions
  BY PipelineAssumption DEF PipelineAssumption
<1>1. /\ Job!WellFormed(Job!Absent) /\ Job!Absent \in Job!Row
      /\ ~Job!Exists(Job!Absent) /\ \A t : ~Job!HeldBy(Job!Absent, t)
      /\ Job!Absent.status = "absent"
  BY <1>0 DEF Job!WellFormed, Job!Row, Job!Absent, Job!Waiting, Job!NoToken, Job!Exists,
     Job!HeldBy
<1>2. /\ Event!WellFormed(Event!Absent) /\ Event!Absent \in Event!Row
      /\ ~Event!Exists(Event!Absent) /\ \A t : ~Event!HeldBy(Event!Absent, t)
      /\ Event!Absent.status = "absent"
  BY <1>0 DEF Event!WellFormed, Event!Row, Event!Absent, Event!Waiting, Event!NoToken,
     Event!Exists, Event!HeldBy
<1>3. NoJob \in JobLeases /\ NoEvent \in EventLeases
  BY <1>0 DEF NoJob, NoEvent, JobLeases, EventLeases
<1>4. TypeOK
  BY <1>1, <1>2, <1>3 DEF Init, TypeOK, Steps
<1>5. JobSide
  BY <1>1, <1>4 DEF Init, TypeOK, JobSide, Busy, HoldsJob
<1>6. EventSide
  BY <1>2, <1>4 DEF Init, TypeOK, EventSide, Projecting, HoldsEvent
<1>7. SuccessIsBacked /\ FactsInv /\ LedgerInv
  BY <1>1, <1>2, <1>0, PipelineAssumption
     DEF Init, SuccessIsBacked, FactsInv, LedgerInv, PipelineAssumption, Destinations
<1>8. QED
  BY <1>4, <1>5, <1>6, <1>7 DEF IInv

LEMMA NextPreservesIInv ==
    ASSUME IInv, [Next]_vars
    PROVE  IInv'
<1>1. ASSUME NEW j \in Jobs, NEW c \in Contents, EnqueueRecord(j, c)
      PROVE  IInv'
  BY <1>1, EnqueueRecordStep
<1>2. ASSUME NEW w \in Workers, DrainStep(w)
      PROVE  IInv'
  BY <1>2, ClaimJobStep, DecideStep, PersistSuccessStep, PersistFailureStep,
     ClaimEventStep, ProjectStep, AcknowledgeStep, ProjectionFailureStep DEF DrainStep
<1>3. ASSUME NEW w \in Workers, Crash(w)
      PROVE  IInv'
  BY <1>3, CrashStep
<1>4. ASSUME NEW j \in Jobs, JobClock(j)
      PROVE  IInv'
  BY <1>4, JobClockStep
<1>5. ASSUME NEW e \in Decisions, EventClock(e)
      PROVE  IInv'
  BY <1>5, EventClockStep
<1>6. CASE UNCHANGED vars
  BY <1>6, StutteringStep
<1>7. QED
  BY <1>1, <1>2, <1>3, <1>4, <1>5, <1>6 DEF Next

(* The inductive invariant holds in every reachable state, for any number  *)
(* of workers, jobs and decisions and any attempt limits.                  *)
THEOREM PipelineInvariant == Spec => []IInv
<1>1. Init => IInv
  BY InitEstablishesIInv
<1>2. IInv /\ [Next]_vars => IInv'
  BY NextPreservesIInv
<1>3. QED
  BY <1>1, <1>2, PTL DEF Spec

(* Every table and every worker's state keeps its type. *)
THEOREM TypesAreCorrect == Spec => []TypeOK
<1>1. IInv => TypeOK
  BY DEF IInv
<1>2. QED
  BY <1>1, PipelineInvariant, PTL

(* Fencing: of all the workers that still believe they own a job or an     *)
(* event, only one can commit for it (migration 004 and the fenced updates *)
(* of repository.py).                                                      *)
THEOREM OwnersAreUnique == Spec => []OneCurrentOwner
<1>1. IInv => OneCurrentOwner
  BY DEF IInv, JobSide, EventSide, OneCurrentOwner
<1>2. QED
  BY <1>1, PipelineInvariant, PTL

(* Neither a stale callback nor the reaper gives a row up early, and no    *)
(* row is left waiting that no poll would take.                            *)
THEOREM DeathsAreExhaustion == Spec => []DeadOnlyWhenExhausted
<1>1. IInv => DeadOnlyWhenExhausted
  BY DEF IInv, JobSide, EventSide, DeadOnlyWhenExhausted, Job!WellFormed, Event!WellFormed
<1>2. QED
  BY <1>1, PipelineInvariant, PTL

(* persist_success is all or nothing: job, decision and event agree.       *)
THEOREM SuccessesAreBacked == Spec => []SuccessIsBacked
<1>1. IInv => SuccessIsBacked
  BY DEF IInv
<1>2. QED
  BY <1>1, PipelineInvariant, PTL

(* The ledger has exactly the published events and tells the truth about   *)
(* where their facts are.                                                  *)
THEOREM LedgerTellsTheTruth == Spec => []LedgerIsTruthful
<1>1. IInv => LedgerIsTruthful
  BY DEF IInv, FactsInv, LedgerInv, LedgerIsTruthful
<1>2. QED
  BY <1>1, PipelineInvariant, PTL

-----------------------------------------------------------------------------
(***************************************************************************)
(* The operational pipeline implements PipelineContract: initial states    *)
(* map to initial states, and under the inductive invariant every step of  *)
(* the pipeline is a step of the contract or leaves its variables alone.   *)
(***************************************************************************)

(* What the refinement mapping shows of a row. *)
LEMMA JobOutcomes ==
    ASSUME NEW r \in Job!Row
    PROVE  /\ JobOutcome(r) = "none" <=> r.status = "absent"
           /\ JobOutcome(r) = "open" <=> r.status \in {"pending", "retry_wait", "running"}
           /\ r.status \in {"succeeded", "dead"} => JobOutcome(r) = r.status
BY DEF Job!Row, Job!Settled, JobOutcome

LEMMA EventOutcomes ==
    ASSUME NEW r \in Event!Row
    PROVE  /\ EventOutcome(r) = "none" <=> r.status = "absent"
           /\ EventOutcome(r) = "open" <=> r.status \in {"pending", "retry_wait", "publishing"}
           /\ r.status \in {"published", "dead"} => EventOutcome(r) = r.status
BY DEF Event!Row, Event!Settled, EventOutcome

(* A poll shows through the contract only as rows it gives up.             *)
LEMMA JobsGivenUp ==
    ASSUME NEW rows, rows \in [Jobs -> Job!Row],
           \A i \in Jobs : Job!WellFormed(rows[i]),
           NEW free, NEW picked, NEW after,
           after = Job!Polled(rows, free, picked),
           \A i \in picked : Job!Claimable(rows[i])
    PROVE  \A i \in Jobs :
              \/ JobOutcome(after[i]) = JobOutcome(rows[i])
              \/ JobOutcome(rows[i]) = "open" /\ JobOutcome(after[i]) = "dead"
<1>1. TAKE i \in Jobs
<1>2. after \in [Jobs -> Job!Row]
  BY JobsPolled
<1>3. Job!WellFormed(rows[i]) /\ rows[i] \in Job!Row /\ after[i] \in Job!Row
  BY <1>2
<1>4. CASE i \in picked
  <2>1. after[i].status = "running" /\ Job!Claimable(rows[i])
    BY <1>3, <1>4, JobRowSteps DEF Job!Polled
  <2>2. QED
    BY <1>3, <2>1, JobOutcomes DEF Job!Claimable, Job!Waiting, Job!Lapsed
<1>5. CASE i \notin picked /\ i \in free /\ Job!Exhausted(rows[i])
  <2>1. after[i].status = "dead"
    BY <1>3, <1>5, JobRowSteps DEF Job!Polled
  <2>2. QED
    BY <1>3, <1>5, <2>1, JobOutcomes DEF Job!Exhausted, Job!Waiting, Job!Lapsed
<1>6. CASE i \notin picked /\ ~(i \in free /\ Job!Exhausted(rows[i]))
  BY <1>6 DEF Job!Polled
<1>7. QED
  BY <1>4, <1>5, <1>6

LEMMA EventsGivenUp ==
    ASSUME NEW rows, rows \in [Decisions -> Event!Row],
           \A i \in Decisions : Event!WellFormed(rows[i]),
           NEW free, NEW picked, NEW after,
           after = Event!Polled(rows, free, picked),
           \A i \in picked : Event!Claimable(rows[i])
    PROVE  \A i \in Decisions :
              \/ EventOutcome(after[i]) = EventOutcome(rows[i])
              \/ EventOutcome(rows[i]) = "open" /\ EventOutcome(after[i]) = "dead"
<1>1. TAKE i \in Decisions
<1>2. after \in [Decisions -> Event!Row]
  BY EventsPolled
<1>3. Event!WellFormed(rows[i]) /\ rows[i] \in Event!Row /\ after[i] \in Event!Row
  BY <1>2
<1>4. CASE i \in picked
  <2>1. after[i].status = "publishing" /\ Event!Claimable(rows[i])
    BY <1>3, <1>4, EventRowSteps DEF Event!Polled
  <2>2. QED
    BY <1>3, <2>1, EventOutcomes DEF Event!Claimable, Event!Waiting, Event!Lapsed
<1>5. CASE i \notin picked /\ i \in free /\ Event!Exhausted(rows[i])
  <2>1. after[i].status = "dead"
    BY <1>3, <1>5, EventRowSteps DEF Event!Polled
  <2>2. QED
    BY <1>3, <1>5, <2>1, EventOutcomes DEF Event!Exhausted, Event!Waiting, Event!Lapsed
<1>6. CASE i \notin picked /\ ~(i \in free /\ Event!Exhausted(rows[i]))
  BY <1>6 DEF Event!Polled
<1>7. QED
  BY <1>4, <1>5, <1>6

-----------------------------------------------------------------------------
(* What is the same to the contract. *)
Unseen == UNCHANGED <<Outcome, decisions, Delivery, facts>>

LEMMA EnqueueRecordMaps ==
    ASSUME IInv, NEW j \in Jobs, NEW c \in Contents, EnqueueRecord(j, c)
    PROVE  Unseen \/ Contract!Accept(j)
<1>1. UNCHANGED <<decisions, outbox, facts>> /\ Delivery' = Delivery
  BY DEF EnqueueRecord, Delivery
<1>2. CASE Job!Exists(jobs[j])
  <2>1. jobs' = jobs
    BY <1>2 DEF EnqueueRecord, IInv, TypeOK
  <2>2. QED
    BY <1>1, <2>1 DEF Unseen, Outcome
<1>3. CASE ~Job!Exists(jobs[j])
  <2>1. jobs' = [jobs EXCEPT ![j] = Job!Fresh]
    BY <1>3 DEF EnqueueRecord
  <2>2. Job!Fresh \in Job!Row /\ Job!Fresh.status = "pending"
    BY PipelineAssumption DEF PipelineAssumption, Job!Row, Job!Fresh, Job!NoToken
  <2>3. JobOutcome(jobs[j]) = "none" /\ JobOutcome(Job!Fresh) = "open"
    BY <1>3, <2>2, JobOutcomes DEF IInv, TypeOK, Job!Exists
  <2>4. Outcome[j] = "none" /\ Outcome' = [Outcome EXCEPT ![j] = "open"]
    BY <2>1, <2>3 DEF Outcome, IInv, TypeOK
  <2>5. QED
    BY <1>1, <2>4 DEF Contract!Accept
<1>4. QED
  BY <1>2, <1>3

LEMMA ClaimJobMaps ==
    ASSUME IInv, NEW w \in Workers, ClaimJob(w)
    PROVE  \E S \in SUBSET Jobs : Contract!GiveUpJobs(S)
<1>1. PICK free, picked : /\ jobs' = Job!Polled(jobs, free, picked)
                          /\ \A i \in picked : i \in Jobs /\ Job!Claimable(jobs[i])
  <2>1. ASSUME NEW free, NEW c \in Jobs, Job!Claimable(jobs[c]),
               jobs' = Job!Polled(jobs, free, {c})
        PROVE  \E rows, picked : /\ jobs' = Job!Polled(jobs, rows, picked)
                                 /\ \A i \in picked : i \in Jobs /\ Job!Claimable(jobs[i])
    BY <2>1
  <2>2. ASSUME NEW free, jobs' = Job!Polled(jobs, free, {})
        PROVE  \E rows, picked : /\ jobs' = Job!Polled(jobs, rows, picked)
                                 /\ \A i \in picked : i \in Jobs /\ Job!Claimable(jobs[i])
    BY <2>2
  <2>3. QED
    BY <2>1, <2>2 DEF ClaimJob
<1>2. UNCHANGED <<decisions, outbox, facts>> /\ Delivery' = Delivery
  BY DEF ClaimJob, Delivery
<1> DEFINE S == {i \in Jobs : Outcome[i] = "open" /\ Outcome'[i] = "dead"}
<1>3. \A i \in Jobs : \/ JobOutcome(jobs'[i]) = JobOutcome(jobs[i])
                      \/ JobOutcome(jobs[i]) = "open" /\ JobOutcome(jobs'[i]) = "dead"
  <2>1. jobs \in [Jobs -> Job!Row] /\ \A i \in Jobs : Job!WellFormed(jobs[i])
    BY DEF IInv, JobSide
  <2>2. QED
    BY <1>1, <2>1, JobsGivenUp
<1>4. Outcome' = [i \in Jobs |-> IF i \in S THEN "dead" ELSE Outcome[i]]
  BY <1>3 DEF Outcome
<1>5. Contract!GiveUpJobs(S)
  BY <1>2, <1>4 DEF Contract!GiveUpJobs
<1>6. QED
  BY <1>5

LEMMA PersistSuccessMaps ==
    ASSUME IInv, NEW w \in Workers, PersistSuccess(w)
    PROVE  Unseen \/ \E j \in Jobs : \E d \in DecisionsOf[j] : Contract!Succeed(j, d)
<1> DEFINE j == jobLease[w].job
           d == jobLease[w].decision
<1>1. j \in Jobs /\ d \in DecisionsOf[j] /\ d \in Decisions
  BY PipelineAssumption DEF PersistSuccess, IInv, JobSide, Busy, PipelineAssumption
<1>2. UNCHANGED facts
  BY DEF PersistSuccess
<1>3. CASE UNCHANGED <<jobs, decisions, outbox>>
  BY <1>2, <1>3 DEF Unseen, Outcome, Delivery
<1>4. CASE /\ Job!HeldBy(jobs[j], jobLease[w].token)
           /\ decisions' = [decisions EXCEPT ![d] = IF @ = None THEN j ELSE @]
           /\ outbox' = [outbox EXCEPT ![d] = IF Event!Exists(@) THEN @ ELSE Event!Fresh]
           /\ jobs' = [jobs EXCEPT ![j] = Job!Completed(@)]
  <2>1. jobs[j].status = "running" /\ jobs[j] \in Job!Row /\ outbox[d] \in Event!Row
    BY <1>1, <1>4 DEF Job!HeldBy, IInv, TypeOK
  <2>2. Job!Completed(jobs[j]) \in Job!Row /\ Job!Completed(jobs[j]).status = "succeeded"
    BY <1>1, <2>1, JobRowSteps DEF IInv, JobSide, Job!WellFormed
  <2>3. Outcome[j] = "open" /\ Outcome' = [Outcome EXCEPT ![j] = "succeeded"]
    BY <1>1, <1>4, <2>1, <2>2, JobOutcomes DEF Outcome, IInv, TypeOK
  <2>4. \A other \in Decisions : decisions[other] # j
    (* A job with a decision has succeeded, and this one is still running. *)
    BY <1>1, <2>1, PipelineAssumption DEF IInv, SuccessIsBacked, PipelineAssumption
  <2>5. Delivery' = [Delivery EXCEPT ![d] = IF @ = "none" THEN "open" ELSE @]
    <3>1. Event!Fresh \in Event!Row /\ Event!Fresh.status = "pending"
      BY PipelineAssumption DEF PipelineAssumption, Event!Row, Event!Fresh, Event!NoToken
    <3>2. EventOutcome(Event!Fresh) = "open"
          /\ (EventOutcome(outbox[d]) = "none" <=> ~Event!Exists(outbox[d]))
      BY <2>1, <3>1, EventOutcomes DEF Event!Exists
    <3>3. QED
      BY <1>1, <1>4, <3>2 DEF Delivery, IInv, TypeOK
  <2>6. Contract!Succeed(j, d)
    BY <1>2, <1>4, <2>3, <2>4, <2>5 DEF Contract!Succeed
  <2>7. QED
    BY <1>1, <2>6
<1>5. QED
  BY <1>3, <1>4 DEF PersistSuccess

LEMMA PersistFailureMaps ==
    ASSUME IInv, NEW w \in Workers, PersistFailure(w)
    PROVE  Unseen \/ \E S \in SUBSET Jobs : Contract!GiveUpJobs(S)
<1> DEFINE j == jobLease[w].job
<1>1. j \in Jobs
  BY DEF PersistFailure, IInv, JobSide, Busy
<1>2. UNCHANGED <<decisions, outbox, facts>> /\ Delivery' = Delivery
  BY DEF PersistFailure, Delivery
<1>3. CASE ~Job!HeldBy(jobs[j], jobLease[w].token)
  <2>1. jobs' = jobs
    BY <1>1, <1>3 DEF PersistFailure, IInv, TypeOK
  <2>2. QED
    BY <1>2, <2>1 DEF Unseen, Outcome
<1>4. CASE Job!HeldBy(jobs[j], jobLease[w].token)
  <2>1. /\ jobs[j].status = "running" /\ jobs[j] \in Job!Row
        /\ jobs' = [jobs EXCEPT ![j] = Job!Failed(jobs[j])]
    BY <1>1, <1>4 DEF Job!HeldBy, PersistFailure, IInv, TypeOK
  <2>2. /\ Job!Failed(jobs[j]) \in Job!Row
        /\ Job!Failed(jobs[j]).status \in {"dead", "retry_wait"}
    BY <1>1, <2>1, JobRowSteps DEF IInv, JobSide, Job!WellFormed
  <2>3. /\ JobOutcome(jobs[j]) = "open"
        /\ JobOutcome(Job!Failed(jobs[j])) \in {"open", "dead"}
    BY <2>1, <2>2, JobOutcomes
  <2>4. CASE JobOutcome(Job!Failed(jobs[j])) = "open"
    BY <1>1, <1>2, <2>1, <2>3, <2>4 DEF Unseen, Outcome, IInv, TypeOK
  <2>5. CASE JobOutcome(Job!Failed(jobs[j])) = "dead"
    <3>1. /\ Outcome[j] = "open"
          /\ Outcome' = [i \in Jobs |-> IF i \in {j} THEN "dead" ELSE Outcome[i]]
      BY <1>1, <2>1, <2>3, <2>5 DEF Outcome, IInv, TypeOK
    <3>2. Contract!GiveUpJobs({j})
      BY <1>2, <3>1 DEF Contract!GiveUpJobs
    <3>3. QED
      BY <1>1, <3>2
  <2>6. QED
    BY <2>3, <2>4, <2>5
<1>5. QED
  BY <1>3, <1>4

LEMMA ClaimEventMaps ==
    ASSUME IInv, NEW w \in Workers, ClaimEvent(w)
    PROVE  \E S \in SUBSET Decisions : Contract!GiveUpEvents(S)
<1>1. PICK free, picked : /\ outbox' = Event!Polled(outbox, free, picked)
                          /\ \A i \in picked : i \in Decisions /\ Event!Claimable(outbox[i])
  <2>1. ASSUME NEW free, NEW c \in Decisions, Event!Claimable(outbox[c]),
               outbox' = Event!Polled(outbox, free, {c})
        PROVE  \E rows, picked : /\ outbox' = Event!Polled(outbox, rows, picked)
                                 /\ \A i \in picked : i \in Decisions /\ Event!Claimable(outbox[i])
    BY <2>1
  <2>2. ASSUME NEW free, outbox' = Event!Polled(outbox, free, {})
        PROVE  \E rows, picked : /\ outbox' = Event!Polled(outbox, rows, picked)
                                 /\ \A i \in picked : i \in Decisions /\ Event!Claimable(outbox[i])
    BY <2>2
  <2>3. QED
    BY <2>1, <2>2 DEF ClaimEvent
<1>2. UNCHANGED <<jobs, decisions, facts>> /\ Outcome' = Outcome
  BY DEF ClaimEvent, Outcome
<1> DEFINE S == {i \in Decisions : Delivery[i] = "open" /\ Delivery'[i] = "dead"}
<1>3. \A i \in Decisions :
         \/ EventOutcome(outbox'[i]) = EventOutcome(outbox[i])
         \/ EventOutcome(outbox[i]) = "open" /\ EventOutcome(outbox'[i]) = "dead"
  <2>1. outbox \in [Decisions -> Event!Row] /\ \A i \in Decisions : Event!WellFormed(outbox[i])
    BY DEF IInv, EventSide
  <2>2. QED
    BY <1>1, <2>1, EventsGivenUp
<1>4. Delivery' = [i \in Decisions |-> IF i \in S THEN "dead" ELSE Delivery[i]]
  BY <1>3 DEF Delivery
<1>5. Contract!GiveUpEvents(S)
  BY <1>2, <1>4 DEF Contract!GiveUpEvents
<1>6. QED
  BY <1>5

LEMMA ProjectMaps ==
    ASSUME IInv, NEW w \in Workers, Project(w)
    PROVE  Unseen \/ \E d \in Decisions : Contract!Insert(d)
<1> DEFINE e == eventLease[w].event
<1>1. e \in Decisions /\ outbox[e] \in Event!Row /\ Event!Exists(outbox[e])
  BY DEF Project, IInv, TypeOK, EventSide, Projecting
<1>2. UNCHANGED <<jobs, decisions, outbox, Outcome, Delivery>>
  BY DEF Project, tables, Outcome, Delivery
<1>3. Delivery[e] # "none"
  BY <1>1, EventOutcomes DEF Delivery, Event!Exists
<1>4. facts' = facts \/ (e \in Eligible /\ facts' = facts \cup {e})
  BY DEF Project
<1>5. CASE facts' = facts
  BY <1>2, <1>5 DEF Unseen
<1>6. CASE e \in Eligible /\ facts' = facts \cup {e}
  BY <1>1, <1>2, <1>3, <1>6 DEF Contract!Insert
<1>7. QED
  BY <1>4, <1>5, <1>6

LEMMA AcknowledgeMaps ==
    ASSUME IInv, NEW w \in Workers, Acknowledge(w)
    PROVE  Unseen \/ \E d \in Decisions : Contract!Publish(d)
<1> DEFINE e == eventLease[w].event
<1>1. pc[w] = "acknowledge" /\ e \in Decisions
  BY DEF Acknowledge, IInv, EventSide, Projecting
<1>2. UNCHANGED <<jobs, decisions, facts, Outcome>>
  BY DEF Acknowledge, Outcome
<1>3. CASE UNCHANGED outbox
  BY <1>2, <1>3 DEF Unseen, Delivery
<1>4. CASE /\ Event!HeldBy(outbox[e], eventLease[w].token)
           /\ outbox' = [outbox EXCEPT ![e] = Event!Completed(@)]
  <2>1. outbox[e].status = "publishing" /\ outbox[e] \in Event!Row
    BY <1>1, <1>4 DEF Event!HeldBy, IInv, TypeOK
  <2>2. /\ Event!Completed(outbox[e]) \in Event!Row
        /\ Event!Completed(outbox[e]).status = "published"
    BY <1>1, <2>1, EventRowSteps DEF IInv, EventSide, Event!WellFormed
  <2>3. Delivery[e] = "open" /\ Delivery' = [Delivery EXCEPT ![e] = "published"]
    BY <1>1, <1>4, <2>1, <2>2, EventOutcomes DEF Delivery, IInv, TypeOK
  <2>4. e \in Eligible => e \in facts
    BY <1>1 DEF IInv, FactsInv
  <2>5. QED
    BY <1>1, <1>2, <2>3, <2>4 DEF Contract!Publish
<1>5. QED
  BY <1>3, <1>4 DEF Acknowledge

LEMMA ProjectionFailureMaps ==
    ASSUME IInv, NEW w \in Workers, ProjectionFailure(w)
    PROVE  Unseen \/ \E S \in SUBSET Decisions : Contract!GiveUpEvents(S)
<1> DEFINE e == eventLease[w].event
<1>1. e \in Decisions
  BY DEF ProjectionFailure, IInv, EventSide, Projecting
<1>2. UNCHANGED <<jobs, decisions, facts, Outcome>>
  BY DEF ProjectionFailure, Outcome
<1>3. CASE ~Event!HeldBy(outbox[e], eventLease[w].token)
  <2>1. outbox' = outbox
    BY <1>1, <1>3 DEF ProjectionFailure, IInv, TypeOK
  <2>2. QED
    BY <1>2, <2>1 DEF Unseen, Delivery
<1>4. CASE Event!HeldBy(outbox[e], eventLease[w].token)
  <2>1. /\ outbox[e].status = "publishing" /\ outbox[e] \in Event!Row
        /\ outbox' = [outbox EXCEPT ![e] = Event!Failed(outbox[e])]
    BY <1>1, <1>4 DEF Event!HeldBy, ProjectionFailure, IInv, TypeOK
  <2>2. /\ Event!Failed(outbox[e]) \in Event!Row
        /\ Event!Failed(outbox[e]).status \in {"dead", "retry_wait"}
    BY <1>1, <2>1, EventRowSteps DEF IInv, EventSide, Event!WellFormed
  <2>3. /\ EventOutcome(outbox[e]) = "open"
        /\ EventOutcome(Event!Failed(outbox[e])) \in {"open", "dead"}
    BY <2>1, <2>2, EventOutcomes
  <2>4. CASE EventOutcome(Event!Failed(outbox[e])) = "open"
    BY <1>1, <1>2, <2>1, <2>3, <2>4 DEF Unseen, Delivery, IInv, TypeOK
  <2>5. CASE EventOutcome(Event!Failed(outbox[e])) = "dead"
    <3>1. /\ Delivery[e] = "open"
          /\ Delivery' = [i \in Decisions |-> IF i \in {e} THEN "dead" ELSE Delivery[i]]
      BY <1>1, <2>1, <2>3, <2>5 DEF Delivery, IInv, TypeOK
    <3>2. Contract!GiveUpEvents({e})
      BY <1>2, <3>1 DEF Contract!GiveUpEvents
    <3>3. QED
      BY <1>1, <3>2
  <2>6. QED
    BY <2>3, <2>4, <2>5
<1>5. QED
  BY <1>3, <1>4

LEMMA ClocksAreUnseen ==
    ASSUME IInv
    PROVE  /\ \A j \in Jobs : JobClock(j) => Unseen
           /\ \A e \in Decisions : EventClock(e) => Unseen
<1>1. ASSUME NEW j \in Jobs, JobClock(j)
      PROVE  Unseen
  <2>1. /\ jobs[j] \in Job!Row /\ Job!Ticked(jobs[j]) \in Job!Row
        /\ Job!Ticked(jobs[j]).status = jobs[j].status
    BY JobRowSteps DEF IInv, JobSide, Job!WellFormed
  <2>2. JobOutcome(Job!Ticked(jobs[j])) = JobOutcome(jobs[j])
    BY <2>1 DEF JobOutcome, Job!Settled
  <2>3. QED
    BY <1>1, <2>2 DEF JobClock, Unseen, Outcome, Delivery, IInv, TypeOK
<1>2. ASSUME NEW e \in Decisions, EventClock(e)
      PROVE  Unseen
  <2>1. /\ outbox[e] \in Event!Row /\ Event!Ticked(outbox[e]) \in Event!Row
        /\ Event!Ticked(outbox[e]).status = outbox[e].status
    BY EventRowSteps DEF IInv, EventSide, Event!WellFormed
  <2>2. EventOutcome(Event!Ticked(outbox[e])) = EventOutcome(outbox[e])
    BY <2>1 DEF EventOutcome, Event!Settled
  <2>3. QED
    BY <1>2, <2>2 DEF EventClock, Unseen, Outcome, Delivery, IInv, TypeOK
<1>3. QED
  BY <1>1, <1>2

-----------------------------------------------------------------------------
LEMMA InitMaps ==
    ASSUME Init
    PROVE  Contract!Init
<1>1. JobOutcome(Job!Absent) = "none" /\ EventOutcome(Event!Absent) = "none"
  <2>1. Job!Absent.status = "absent" /\ Event!Absent.status = "absent"
    BY DEF Job!Absent, Event!Absent
  <2>2. Job!Absent \in Job!Row /\ Event!Absent \in Event!Row
    BY PipelineAssumption DEF PipelineAssumption, Job!Absent, Event!Absent, Job!Row, Event!Row,
       Job!NoToken, Event!NoToken
  <2>3. QED
    BY <2>1, <2>2, JobOutcomes, EventOutcomes
<1>2. QED
  BY <1>1 DEF Init, Contract!Init, Outcome, Delivery

LEMMA StepMaps ==
    ASSUME IInv, [Next]_vars
    PROVE  [Contract!Next]_(Contract!promise)
<1>1. SUFFICES Unseen \/ Contract!Next
  BY DEF Unseen, Contract!promise
<1>2. ASSUME NEW j \in Jobs, NEW c \in Contents, EnqueueRecord(j, c)
      PROVE  Unseen \/ Contract!Next
  BY <1>2, EnqueueRecordMaps DEF Contract!Next
<1>3. ASSUME NEW w \in Workers, DrainStep(w)
      PROVE  Unseen \/ Contract!Next
  <2>1. CASE ClaimJob(w)
    BY <2>1, ClaimJobMaps DEF Contract!Next
  <2>2. CASE Decide(w)
    BY <2>2 DEF Decide, tables, Unseen, Outcome, Delivery
  <2>3. CASE PersistSuccess(w)
    BY <2>3, PersistSuccessMaps DEF Contract!Next
  <2>4. CASE PersistFailure(w)
    BY <2>4, PersistFailureMaps DEF Contract!Next
  <2>5. CASE ClaimEvent(w)
    BY <2>5, ClaimEventMaps DEF Contract!Next
  <2>6. CASE Project(w)
    BY <2>6, ProjectMaps DEF Contract!Next
  <2>7. CASE Acknowledge(w)
    BY <2>7, AcknowledgeMaps DEF Contract!Next
  <2>8. CASE ProjectionFailure(w)
    BY <2>8, ProjectionFailureMaps DEF Contract!Next
  <2>9. QED
    BY <1>3, <2>1, <2>2, <2>3, <2>4, <2>5, <2>6, <2>7, <2>8 DEF DrainStep
<1>4. ASSUME NEW w \in Workers, Crash(w)
      PROVE  Unseen
  BY <1>4 DEF Crash, tables, Unseen, Outcome, Delivery
<1>5. ASSUME NEW j \in Jobs, JobClock(j)
      PROVE  Unseen
  BY <1>5, ClocksAreUnseen
<1>6. ASSUME NEW e \in Decisions, EventClock(e)
      PROVE  Unseen
  BY <1>6, ClocksAreUnseen
<1>7. CASE UNCHANGED vars
  BY <1>7 DEF vars, tables, Unseen, Outcome, Delivery
<1>8. QED
  BY <1>2, <1>3, <1>4, <1>5, <1>6, <1>7 DEF Next

(* The pipeline implements its contract: whatever leases lapse, workers    *)
(* die or requests repeat, a job is settled once, a decision is written    *)
(* once with its event, and no event is published before its facts are in. *)
THEOREM PipelineImplementsContract == Spec => ImplementsContract
<1>1. Init => Contract!Init
  BY InitMaps
<1>2. IInv /\ [Next]_vars => [Contract!Next]_(Contract!promise)
  BY StepMaps
<1>3. QED
  BY <1>1, <1>2, PipelineInvariant, PTL DEF Spec, ImplementsContract, Contract!Spec
=============================================================================
