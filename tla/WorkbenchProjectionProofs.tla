---------------------- MODULE WorkbenchProjectionProofs ----------------------
(***************************************************************************)
(* Erasure and projection, for all datasets and events and every batch     *)
(* size and attempt limit. The erasure needs ~SlowServer: ClickHouse has   *)
(* executed or dropped an insert by the time its client times out. The     *)
(* argument: an insert that may still be executed is covered by a live     *)
(* lease, Check waits for live leases, and a deleting dataset gets no new  *)
(* ones; so nothing lands between Erase and Purge, or later.               *)
(***************************************************************************)
EXTENDS WorkbenchProjection, TLAPS

LeasedLive(e) == outbox[e].status = "publishing" /\ ~outbox[e].lapsed

(* The rows of the batch while its insert is under way, and after.         *)
BatchInv ==
    /\ batch # {} => pc \in {"insert", "ack", "nack"}
    /\ pc = "insert" => \A e \in batch : LeasedLive(e)
    /\ pc = "ack" => \A e \in batch : datasets[DatasetOf[e]] = "ready" => e \in facts

(* What the loop read of the datasets still holds between its statements. *)
PurgeInv ==
    /\ \A d \in todo : datasets[d] = "deleting"
    /\ pc \in {"erase", "purge"} =>
          /\ target \in Datasets \ todo
          /\ datasets[target] = "deleting"
          /\ \A e \in EventsOf(target) : ~LeasedLive(e)

DeletedInv ==
    \A e \in Events : datasets[DatasetOf[e]] = "deleted" => outbox[e].status = "purged"

(* A live lease covers every abandoned insert, and no batch has its event. *)
InflightInv == \A e \in inflight : LeasedLive(e) /\ e \notin batch

(* Facts that were erased stay erased. *)
ErasedInv ==
    /\ pc = "purge" => \A e \in EventsOf(target) : e \notin facts
    /\ ErasureIsComplete

IInv ==
    /\ TypeOK
    /\ BatchInv
    /\ PurgeInv
    /\ DeletedInv
    /\ PublishedIsProjected
    /\ ~SlowServer => InflightInv /\ ErasedInv

LEMMA StoreEventKeeps ==
    ASSUME IInv, NEW e \in Events, StoreEvent(e)
    PROVE  IInv'
<1>1. TypeOK'
    BY ProjectionAssumption DEF IInv, TypeOK, EventRow, Set, NoRow, StoreEvent, rows,
       clickhouse, loop
<1>2. BatchInv'
    BY DEF IInv, BatchInv, LeasedLive, StoreEvent, rows, clickhouse, loop
<1>3. PurgeInv'
    BY DEF IInv, PurgeInv, LeasedLive, Set, StoreEvent, rows, clickhouse, loop
<1>4. DeletedInv'
    BY DEF IInv, DeletedInv, StoreEvent, rows, clickhouse, loop
<1>5. PublishedIsProjected'
    BY DEF IInv, PublishedIsProjected, Set, StoreEvent, rows, clickhouse, loop
<1>6. ~SlowServer => InflightInv' /\ ErasedInv'
    BY DEF IInv, InflightInv, ErasedInv, ErasureIsComplete, LeasedLive, StoreEvent,
       rows, clickhouse, loop
<1>. QED
    BY <1>1, <1>2, <1>3, <1>4, <1>5, <1>6 DEF IInv

LEMMA ClassifyKeeps ==
    ASSUME IInv, NEW d \in Datasets, Classify(d)
    PROVE  IInv'
<1>1. TypeOK'
    BY DEF IInv, TypeOK, Classify, rows, clickhouse, loop
<1>2. BatchInv'
    BY DEF IInv, BatchInv, LeasedLive, Classify, rows, clickhouse, loop
<1>3. PurgeInv'
    BY DEF IInv, PurgeInv, LeasedLive, Classify, rows, clickhouse, loop
<1>4. DeletedInv'
    BY DEF IInv, DeletedInv, Classify, rows, clickhouse, loop
<1>5. PublishedIsProjected'
    BY DEF IInv, PublishedIsProjected, Classify, rows, clickhouse, loop
<1>6. ~SlowServer => InflightInv' /\ ErasedInv'
    BY DEF IInv, InflightInv, ErasedInv, ErasureIsComplete, LeasedLive, Classify, rows,
       clickhouse, loop
<1>. QED
    BY <1>1, <1>2, <1>3, <1>4, <1>5, <1>6 DEF IInv

LEMMA EndClassifyKeeps ==
    ASSUME IInv, NEW d \in Datasets, EndClassify(d)
    PROVE  IInv'
<1>1. TypeOK'
    BY DEF IInv, TypeOK, EndClassify, rows, clickhouse, loop
<1>2. BatchInv'
    BY DEF IInv, BatchInv, LeasedLive, EndClassify, rows, clickhouse, loop
<1>3. PurgeInv'
    BY DEF IInv, PurgeInv, LeasedLive, EndClassify, rows, clickhouse, loop
<1>4. DeletedInv'
    BY DEF IInv, DeletedInv, EndClassify, rows, clickhouse, loop
<1>5. PublishedIsProjected'
    BY DEF IInv, PublishedIsProjected, EndClassify, rows, clickhouse, loop
<1>6. ~SlowServer => InflightInv' /\ ErasedInv'
    BY DEF IInv, InflightInv, ErasedInv, ErasureIsComplete, LeasedLive, EndClassify,
       rows, clickhouse, loop
<1>. QED
    BY <1>1, <1>2, <1>3, <1>4, <1>5, <1>6 DEF IInv

LEMMA MarkDeleteKeeps ==
    ASSUME IInv, NEW d \in Datasets, MarkDelete(d)
    PROVE  IInv'
<1>1. TypeOK'
    BY DEF IInv, TypeOK, MarkDelete, rows, clickhouse, loop
<1>2. BatchInv'
    BY DEF IInv, BatchInv, LeasedLive, MarkDelete, rows, clickhouse, loop
<1>3. PurgeInv'
    BY DEF IInv, PurgeInv, LeasedLive, MarkDelete, rows, clickhouse, loop
<1>4. DeletedInv'
    BY DEF IInv, DeletedInv, MarkDelete, rows, clickhouse, loop
<1>5. PublishedIsProjected'
    BY DEF IInv, PublishedIsProjected, MarkDelete, rows, clickhouse, loop
<1>6. ~SlowServer => InflightInv' /\ ErasedInv'
    BY DEF IInv, InflightInv, ErasedInv, ErasureIsComplete, LeasedLive, MarkDelete,
       rows, clickhouse, loop
<1>. QED
    BY <1>1, <1>2, <1>3, <1>4, <1>5, <1>6 DEF IInv

LEMMA ScanKeeps ==
    ASSUME IInv, Scan
    PROVE  IInv'
<1>1. TypeOK'
    BY DEF IInv, TypeOK, Scan, rows, clickhouse, loop
<1>2. BatchInv'
    BY DEF IInv, BatchInv, Scan, rows, clickhouse, loop
<1>3. PurgeInv'
    BY DEF IInv, PurgeInv, Scan, rows, clickhouse, loop
<1>4. DeletedInv'
    BY DEF IInv, DeletedInv, Scan, rows, clickhouse, loop
<1>5. PublishedIsProjected'
    BY DEF IInv, PublishedIsProjected, Scan, rows, clickhouse, loop
<1>6. ~SlowServer => InflightInv' /\ ErasedInv'
    BY DEF IInv, InflightInv, ErasedInv, ErasureIsComplete, LeasedLive, Scan, rows,
       clickhouse, loop
<1>. QED
    BY <1>1, <1>2, <1>3, <1>4, <1>5, <1>6 DEF IInv

LEMMA CheckKeeps ==
    ASSUME IInv, NEW d \in Datasets, Check(d)
    PROVE  IInv'
<1>1. TypeOK'
    BY DEF IInv, TypeOK, Check, rows, clickhouse, loop
<1>2. BatchInv'
    BY DEF IInv, BatchInv, Check, rows, clickhouse, loop
<1>3. PurgeInv'
    BY DEF IInv, PurgeInv, LeasedLive, Check, Busy, rows, clickhouse, loop
<1>4. DeletedInv'
    BY DEF IInv, DeletedInv, Check, rows, clickhouse, loop
<1>5. PublishedIsProjected'
    BY DEF IInv, PublishedIsProjected, Check, rows, clickhouse, loop
<1>6. ~SlowServer => InflightInv' /\ ErasedInv'
    BY DEF IInv, InflightInv, ErasedInv, ErasureIsComplete, LeasedLive, Check, rows,
       clickhouse, loop
<1>. QED
    BY <1>1, <1>2, <1>3, <1>4, <1>5, <1>6 DEF IInv

LEMMA EraseKeeps ==
    ASSUME IInv, Erase
    PROVE  IInv'
<1>1. TypeOK'
    BY DEF IInv, TypeOK, Erase, rows, clickhouse, loop
<1>2. BatchInv'
    BY DEF IInv, BatchInv, Erase, rows, clickhouse, loop
<1>3. PurgeInv'
    BY DEF IInv, PurgeInv, LeasedLive, Erase, rows, clickhouse, loop
<1>4. DeletedInv'
    BY DEF IInv, DeletedInv, Erase, rows, clickhouse, loop
<1>5. PublishedIsProjected'
    BY DEF IInv, PurgeInv, PublishedIsProjected, EventsOf, Erase, rows, clickhouse, loop
<1>6. ~SlowServer => InflightInv' /\ ErasedInv'
    BY DEF IInv, InflightInv, ErasedInv, ErasureIsComplete, LeasedLive, Erase, rows,
       clickhouse, loop
<1>. QED
    BY <1>1, <1>2, <1>3, <1>4, <1>5, <1>6 DEF IInv

LEMMA EraseFailsKeeps ==
    ASSUME IInv, EraseFails
    PROVE  IInv'
<1>1. TypeOK'
    BY DEF IInv, TypeOK, EraseFails, rows, clickhouse, loop
<1>2. BatchInv'
    BY DEF IInv, BatchInv, EraseFails, rows, clickhouse, loop
<1>3. PurgeInv'
    BY DEF IInv, PurgeInv, EraseFails, rows, clickhouse, loop
<1>4. DeletedInv'
    BY DEF IInv, DeletedInv, EraseFails, rows, clickhouse, loop
<1>5. PublishedIsProjected'
    BY DEF IInv, PurgeInv, PublishedIsProjected, EventsOf, EraseFails, rows, clickhouse,
       loop
<1>6. ~SlowServer => InflightInv' /\ ErasedInv'
    BY DEF IInv, InflightInv, ErasedInv, ErasureIsComplete, LeasedLive, EraseFails,
       rows, clickhouse, loop
<1>. QED
    BY <1>1, <1>2, <1>3, <1>4, <1>5, <1>6 DEF IInv

LEMMA PurgeKeeps ==
    ASSUME IInv, Purge
    PROVE  IInv'
<1>1. TypeOK'
    BY ProjectionAssumption DEF IInv, TypeOK, EventRow, PurgeInv, Set, NoRow, Purge,
       rows, clickhouse, loop
<1>2. BatchInv'
    BY DEF IInv, BatchInv, Purge, rows, clickhouse, loop
<1>3. PurgeInv'
    BY DEF IInv, PurgeInv, Purge, rows, clickhouse, loop
<1>4. DeletedInv'
    BY DEF IInv, DeletedInv, EventsOf, Set, Purge, rows, clickhouse, loop
<1>5. PublishedIsProjected'
    BY DEF IInv, PublishedIsProjected, Set, Purge, rows, clickhouse, loop
<1>6. ~SlowServer => InflightInv' /\ ErasedInv'
    BY DEF IInv, TypeOK, InflightInv, PurgeInv, ErasedInv, ErasureIsComplete,
       LeasedLive, EventsOf, Purge, rows, clickhouse, loop
<1>. QED
    BY <1>1, <1>2, <1>3, <1>4, <1>5, <1>6 DEF IInv

LEMMA IdleKeeps ==
    ASSUME IInv, Idle
    PROVE  IInv'
<1>1. TypeOK'
    BY DEF IInv, TypeOK, Idle, rows, clickhouse, loop
<1>2. BatchInv'
    BY DEF IInv, BatchInv, Idle, rows, clickhouse, loop
<1>3. PurgeInv'
    BY DEF IInv, PurgeInv, Idle, rows, clickhouse, loop
<1>4. DeletedInv'
    BY DEF IInv, DeletedInv, Idle, rows, clickhouse, loop
<1>5. PublishedIsProjected'
    BY DEF IInv, PublishedIsProjected, Idle, rows, clickhouse, loop
<1>6. ~SlowServer => InflightInv' /\ ErasedInv'
    BY DEF IInv, InflightInv, ErasedInv, ErasureIsComplete, LeasedLive, Idle, rows,
       clickhouse, loop
<1>. QED
    BY <1>1, <1>2, <1>3, <1>4, <1>5, <1>6 DEF IInv

LEMMA ClaimKeeps ==
    ASSUME IInv, Claim
    PROVE  IInv'
<1>1. TypeOK'
    BY ProjectionAssumption DEF IInv, TypeOK, EventRow, Claim, Claimable, Ready, rows,
       clickhouse, loop
<1>2. BatchInv'
    BY DEF IInv, BatchInv, LeasedLive, Claim, Ready, rows, clickhouse, loop
<1>3. PurgeInv'
    BY DEF IInv, PurgeInv, Claim, rows, clickhouse, loop
<1>4. DeletedInv'
    BY DEF IInv, DeletedInv, Claim, Claimable, Ready, rows, clickhouse, loop
<1>5. PublishedIsProjected'
    BY DEF IInv, PublishedIsProjected, Claim, rows, clickhouse, loop
<1>6. ~SlowServer => InflightInv' /\ ErasedInv'
    BY DEF IInv, TypeOK, InflightInv, ErasedInv, ErasureIsComplete, LeasedLive, Claim,
       Claimable, Ready, rows, clickhouse, loop
<1>. QED
    BY <1>1, <1>2, <1>3, <1>4, <1>5, <1>6 DEF IInv

LEMMA InsertKeeps ==
    ASSUME IInv, Insert
    PROVE  IInv'
<1>1. TypeOK'
    BY DEF IInv, TypeOK, Insert, rows, clickhouse, loop
<1>2. BatchInv'
    BY DEF IInv, BatchInv, Insert, rows, clickhouse, loop
<1>3. PurgeInv'
    BY DEF IInv, PurgeInv, Insert, rows, clickhouse, loop
<1>4. DeletedInv'
    BY DEF IInv, DeletedInv, Insert, rows, clickhouse, loop
<1>5. PublishedIsProjected'
    BY DEF IInv, PublishedIsProjected, Insert, rows, clickhouse, loop
<1>6. ~SlowServer => InflightInv' /\ ErasedInv'
    BY DEF IInv, BatchInv, InflightInv, DeletedInv, ErasedInv, ErasureIsComplete,
       LeasedLive, Insert, rows, clickhouse, loop
<1>. QED
    BY <1>1, <1>2, <1>3, <1>4, <1>5, <1>6 DEF IInv

LEMMA InsertFailsKeeps ==
    ASSUME IInv, InsertFails
    PROVE  IInv'
<1>1. TypeOK'
    BY DEF IInv, TypeOK, InsertFails, rows, clickhouse, loop
<1>2. BatchInv'
    BY DEF IInv, BatchInv, InsertFails, rows, clickhouse, loop
<1>3. PurgeInv'
    BY DEF IInv, PurgeInv, InsertFails, rows, clickhouse, loop
<1>4. DeletedInv'
    BY DEF IInv, DeletedInv, InsertFails, rows, clickhouse, loop
<1>5. PublishedIsProjected'
    BY DEF IInv, PublishedIsProjected, InsertFails, rows, clickhouse, loop
<1>6. ~SlowServer => InflightInv' /\ ErasedInv'
    BY DEF IInv, BatchInv, InflightInv, DeletedInv, ErasedInv, ErasureIsComplete,
       LeasedLive, InsertFails, rows, clickhouse, loop
<1>. QED
    BY <1>1, <1>2, <1>3, <1>4, <1>5, <1>6 DEF IInv

LEMMA AcknowledgeKeeps ==
    ASSUME IInv, Acknowledge
    PROVE  IInv'
<1>1. TypeOK'
    BY DEF IInv, TypeOK, EventRow, Set, Acknowledge, Settle, rows, clickhouse, loop
<1>2. BatchInv'
    BY DEF IInv, BatchInv, Acknowledge, Settle, rows, clickhouse, loop
<1>3. PurgeInv'
    BY DEF IInv, PurgeInv, Acknowledge, Settle, rows, clickhouse, loop
<1>4. DeletedInv'
    BY DEF IInv, DeletedInv, Acknowledge, Settle, rows, clickhouse, loop
<1>5. PublishedIsProjected'
    BY DEF IInv, BatchInv, PublishedIsProjected, Acknowledge, Settle, rows, clickhouse, loop
<1>6. ~SlowServer => InflightInv' /\ ErasedInv'
    BY DEF IInv, TypeOK, InflightInv, ErasedInv, ErasureIsComplete, LeasedLive,
       Acknowledge, Settle, rows, clickhouse, loop
<1>. QED
    BY <1>1, <1>2, <1>3, <1>4, <1>5, <1>6 DEF IInv

LEMMA ReleaseKeeps ==
    ASSUME IInv, Release
    PROVE  IInv'
<1>1. TypeOK'
    BY DEF IInv, TypeOK, EventRow, Set, Release, Settle, rows, clickhouse, loop
<1>2. BatchInv'
    BY DEF IInv, BatchInv, Release, Settle, rows, clickhouse, loop
<1>3. PurgeInv'
    BY DEF IInv, PurgeInv, Release, Settle, rows, clickhouse, loop
<1>4. DeletedInv'
    BY DEF IInv, DeletedInv, Release, Settle, rows, clickhouse, loop
<1>5. PublishedIsProjected'
    BY DEF IInv, PublishedIsProjected, Set, Release, Settle, rows, clickhouse, loop
<1>6. ~SlowServer => InflightInv' /\ ErasedInv'
    BY DEF IInv, TypeOK, InflightInv, ErasedInv, ErasureIsComplete, LeasedLive, Release,
       Settle, rows, clickhouse, loop
<1>. QED
    BY <1>1, <1>2, <1>3, <1>4, <1>5, <1>6 DEF IInv

LEMMA CrashKeeps ==
    ASSUME IInv, Crash
    PROVE  IInv'
<1>1. TypeOK'
    BY DEF IInv, TypeOK, Crash, rows, clickhouse, loop
<1>2. BatchInv'
    BY DEF IInv, BatchInv, Crash, rows, clickhouse, loop
<1>3. PurgeInv'
    BY DEF IInv, PurgeInv, Crash, rows, clickhouse, loop
<1>4. DeletedInv'
    BY DEF IInv, DeletedInv, Crash, rows, clickhouse, loop
<1>5. PublishedIsProjected'
    BY DEF IInv, PublishedIsProjected, Crash, rows, clickhouse, loop
<1>6. ~SlowServer => InflightInv' /\ ErasedInv'
    BY DEF IInv, BatchInv, InflightInv, ErasedInv, ErasureIsComplete, LeasedLive, Crash,
       rows, clickhouse, loop
<1>. QED
    BY <1>1, <1>2, <1>3, <1>4, <1>5, <1>6 DEF IInv

LEMMA LandKeeps ==
    ASSUME IInv, NEW e \in Events, Land(e)
    PROVE  IInv'
<1>1. TypeOK'
    BY DEF IInv, TypeOK, Land, rows, clickhouse, loop
<1>2. BatchInv'
    BY DEF IInv, BatchInv, LeasedLive, Land, rows, clickhouse, loop
<1>3. PurgeInv'
    BY DEF IInv, PurgeInv, LeasedLive, Land, rows, clickhouse, loop
<1>4. DeletedInv'
    BY DEF IInv, DeletedInv, Land, rows, clickhouse, loop
<1>5. PublishedIsProjected'
    BY DEF IInv, PublishedIsProjected, Land, rows, clickhouse, loop
<1>6. ~SlowServer => InflightInv' /\ ErasedInv'
    BY DEF IInv, InflightInv, PurgeInv, DeletedInv, ErasedInv, ErasureIsComplete,
       LeasedLive, Land, rows, clickhouse, loop
<1>. QED
    BY <1>1, <1>2, <1>3, <1>4, <1>5, <1>6 DEF IInv

LEMMA EventClockKeeps ==
    ASSUME IInv, NEW e \in Events, EventClock(e)
    PROVE  IInv'
<1>1. TypeOK'
    BY DEF IInv, TypeOK, EventRow, EventClock, rows, clickhouse, loop
<1>2. BatchInv'
    BY DEF IInv, BatchInv, LeasedLive, EventClock, rows, clickhouse, loop
<1>3. PurgeInv'
    BY DEF IInv, PurgeInv, LeasedLive, EventClock, rows, clickhouse, loop
<1>4. DeletedInv'
    BY DEF IInv, DeletedInv, EventClock, rows, clickhouse, loop
<1>5. PublishedIsProjected'
    BY DEF IInv, PublishedIsProjected, EventClock, rows, clickhouse, loop
<1>6. ~SlowServer => InflightInv' /\ ErasedInv'
    BY DEF IInv, InflightInv, ErasedInv, ErasureIsComplete, LeasedLive, EventClock,
       rows, clickhouse, loop
<1>. QED
    BY <1>1, <1>2, <1>3, <1>4, <1>5, <1>6 DEF IInv

LEMMA InitHolds == Init => IInv
<1>. SUFFICES ASSUME Init PROVE IInv
    OBVIOUS
<1>1. TypeOK
    BY ProjectionAssumption DEF Init, TypeOK, EventRow, NoRow, ProjectionAssumption
<1>2. BatchInv /\ PurgeInv /\ InflightInv
    BY DEF Init, BatchInv, PurgeInv, InflightInv
<1>3. DeletedInv /\ ErasedInv
    BY ProjectionAssumption DEF Init, DeletedInv, ErasedInv, ErasureIsComplete,
       ProjectionAssumption
<1>4. PublishedIsProjected
    BY DEF Init, PublishedIsProjected, NoRow
<1>. QED
    BY <1>1, <1>2, <1>3, <1>4 DEF IInv

LEMMA StepHolds == IInv /\ [Next]_vars => IInv'
<1>. SUFFICES ASSUME IInv, [Next]_vars
              PROVE  IInv'
    OBVIOUS
<1>1. CASE Purging
    BY <1>1, ScanKeeps, CheckKeeps, EraseKeeps, EraseFailsKeeps, PurgeKeeps DEF Purging
<1>2. CASE Projecting
    BY <1>2, IdleKeeps, ClaimKeeps, InsertKeeps, InsertFailsKeeps, AcknowledgeKeeps,
       ReleaseKeeps DEF Projecting
<1>3. ASSUME NEW d \in Datasets, Classify(d) \/ EndClassify(d) \/ MarkDelete(d)
      PROVE  IInv'
    BY <1>3, ClassifyKeeps, EndClassifyKeeps, MarkDeleteKeeps
<1>4. ASSUME NEW e \in Events, StoreEvent(e) \/ Land(e) \/ EventClock(e)
      PROVE  IInv'
    BY <1>4, StoreEventKeeps, LandKeeps, EventClockKeeps
<1>5. CASE Crash
    BY <1>5, CrashKeeps
<1>6. CASE UNCHANGED vars
    BY <1>6 DEF vars, rows, clickhouse, loop, IInv, TypeOK, BatchInv, InflightInv, PurgeInv,
       DeletedInv, ErasedInv, ErasureIsComplete, PublishedIsProjected, LeasedLive, EventsOf
<1>. QED
    BY <1>1, <1>2, <1>3, <1>4, <1>5, <1>6 DEF Next

(* The inductive invariant holds throughout: what it says of rows and of   *)
(* the loop always, what it says of facts as long as no insert outlives    *)
(* its client's timeout.                                                   *)
THEOREM ProjectionInvariant == Spec => []IInv
<1>. QED
    BY InitHolds, StepHolds, PTL DEF Spec

(* A deleted dataset leaves no fact behind in ClickHouse, and none comes   *)
(* back, whatever crashes or fails between the statements.                 *)
THEOREM ErasuresAreComplete == ASSUME ~SlowServer PROVE Spec => []ErasureIsComplete
<1>1. IInv => ErasureIsComplete
    BY DEF IInv, ErasedInv
<1>. QED
    BY <1>1, ProjectionInvariant, PTL

(* A published event of a dataset that is there is in ClickHouse, even if  *)
(* inserts outlive their clients.                                          *)
THEOREM PublicationsAreProjected == Spec => []PublishedIsProjected
<1>1. IInv => PublishedIsProjected
    BY DEF IInv
<1>. QED
    BY <1>1, ProjectionInvariant, PTL

(* Statuses, attempts and the loop's variables keep their types: no event  *)
(* is tried more than MaxAttempts times.                                   *)
THEOREM ProjectionTypes == Spec => []TypeOK
<1>1. IInv => TypeOK
    BY DEF IInv
<1>. QED
    BY <1>1, ProjectionInvariant, PTL
=============================================================================
