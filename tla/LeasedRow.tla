------------------------------ MODULE LeasedRow ------------------------------
(***************************************************************************)
(* One row of a leased PostgreSQL queue and what one statement does to it. *)
(* feedback.processing_jobs and feedback.outbox_events follow the same     *)
(* protocol: migration 004 polls them with the same two CTEs and           *)
(* storage/repository.py closes them with the same fenced updates. Only    *)
(* the names of the leased and the completed status differ, so they are    *)
(* parameters here, and OperationalPipeline instantiates this module once  *)
(* per table. The module has no variables: each operator maps a row, or a  *)
(* table of rows, to the row or the table the statement leaves behind.     *)
(*                                                                         *)
(* Data abstractions. A row's clock column (leased_until of a leased row,  *)
(* available_at of a waiting one) is the boolean `elapsed': it has passed. *)
(* gen_random_uuid() is the number of the attempt it was drawn for: both   *)
(* are new with every claim of the row and never drawn twice for it.       *)
(***************************************************************************)
EXTENDS Naturals

CONSTANTS
    MaxAttempts,  \* the row's max_attempts column
    Leased,       \* 'running' for a job, 'publishing' for an event
    Done          \* 'succeeded' for a job, 'published' for an event

NoToken == 0      \* lease_token IS NULL

Row ==
    [status  : {"absent", "pending", "retry_wait", "dead", Leased, Done},
     attempt : 0..MaxAttempts,
     token   : 0..MaxAttempts,
     elapsed : BOOLEAN]

(* No such row has been inserted yet. *)
Absent == [status |-> "absent", attempt |-> 0, token |-> NoToken, elapsed |-> FALSE]

(* The column defaults: pending and available at once. *)
Fresh == [status |-> "pending", attempt |-> 0, token |-> NoToken, elapsed |-> TRUE]

Exists(r) == r.status # "absent"
Waiting(r) == r.status \in {"pending", "retry_wait"}
Lapsed(r) == r.status = Leased /\ r.elapsed
Settled(r) == r.status \in {"dead", Done}

(* The `exhausted' CTE: available_at is not looked at. *)
Exhausted(r) ==
    /\ r.attempt >= MaxAttempts
    /\ Waiting(r) \/ Lapsed(r)

(* Fault: reclaiming lapsed leases forgets the attempt limit. *)
ClaimableWithoutLimit(r) ==
    /\ r.attempt < MaxAttempts \/ Lapsed(r)
    /\ (Waiting(r) /\ r.elapsed) \/ Lapsed(r)

(* The `candidates' CTE. A leased row was available when it was claimed.   *)
Claimable(r) ==
    /\ r.attempt < MaxAttempts
    /\ (Waiting(r) /\ r.elapsed) \/ Lapsed(r)

(* The claiming update: one more attempt under a new token and lease. *)
Granted(r) ==
    [status |-> Leased, attempt |-> r.attempt + 1, token |-> r.attempt + 1, elapsed |-> FALSE]

(* Every way out of a lease clears leased_until, lease_owner, lease_token. *)
Released(r, status, elapsed) ==
    [status |-> status, attempt |-> r.attempt, token |-> NoToken, elapsed |-> elapsed]

(* Fault: the reaper is missing, as before migration 004. *)
NotReaped(r) == r

(* The `reaped' CTE: an exhausted row without a live owner is dead. *)
Reaped(r) == Released(r, "dead", r.elapsed)

(***************************************************************************)
(* One poll of the table: `free' are the rows whose locks the statement    *)
(* gets (FOR UPDATE SKIP LOCKED), `picked' the candidates under the LIMIT. *)
(***************************************************************************)
Polled(rows, free, picked) ==
    [i \in DOMAIN rows |->
        IF i \in picked THEN Granted(rows[i])
        ELSE IF i \in free /\ Exhausted(rows[i]) THEN Reaped(rows[i])
        ELSE rows[i]]

(* Fault: the fence compares the status alone. *)
HeldByAnyone(r, token) == r.status = Leased

(* WHERE status = <leased> AND lease_token = <token>; leased_until is not  *)
(* compared, so an owner whose lease has lapsed unclaimed still holds it.  *)
HeldBy(r, token) == r.status = Leased /\ r.token = token

Completed(r) == Released(r, Done, r.elapsed)

(* Fault: the callback gives up one attempt too early. *)
FailedEarly(r) ==
    Released(r, IF r.attempt + 1 >= MaxAttempts THEN "dead" ELSE "retry_wait", FALSE)

(* The failure callback: dead at the limit, otherwise wait for a backoff.  *)
Failed(r) ==
    Released(r, IF r.attempt >= MaxAttempts THEN "dead" ELSE "retry_wait", FALSE)

(* What every reachable row satisfies: exactly a leased row has a token,   *)
(* the one of its last attempt; a waiting row has an attempt left and a    *)
(* dead one has none.                                                      *)
WellFormed(r) ==
    /\ r \in Row
    /\ r.token = IF r.status = Leased THEN r.attempt ELSE NoToken
    /\ r.status = Leased => r.attempt # 0
    /\ r.status = "absent" => r.attempt = 0
    /\ Waiting(r) => r.attempt < MaxAttempts
    /\ r.status = "dead" => r.attempt = MaxAttempts

(* The row's clock column is in the future and may pass. *)
Ticking(r) == ~r.elapsed /\ r.status \in {Leased, "retry_wait"}
Ticked(r) == [r EXCEPT !.elapsed = TRUE]
=============================================================================
