---------------------------- MODULE WorkbenchRuns ----------------------------
(***************************************************************************)
(* Classification runs of the workbench: workbench/repository.py over the  *)
(* tables of migration 006. The owner creates, cancels, resumes and        *)
(* deletes through the API while the processing loop claims jobs,          *)
(* classifies records and stores results. A step is one transaction; the   *)
(* classification between claim and finish takes any time, so the owner's  *)
(* commands, the clock and crashes come between them.                      *)
(*                                                                         *)
(* Data abstractions. Records are positions in a dataset, the same in      *)
(* each. Runs are numbered in the order of created_at. A lease token is    *)
(* the number of the attempt it was drawn for. store_result inserts a      *)
(* result and its outbox event in one transaction and purge deletes both,  *)
(* so `results' stands for the pair; WorkbenchProjection has the events.   *)
(***************************************************************************)
EXTENDS Naturals, FiniteSets

CONSTANTS
    Workers,      \* processing loops
    Datasets,     \* imported datasets
    Records,      \* their records
    Sample,       \* the records sample_records selects
    MaxRuns,      \* bound: runs created
    MaxAttempts,  \* the attempt limit in claim, 3
    None

ASSUME RunsAssumption ==
    /\ Sample \subseteq Records
    /\ MaxRuns \in Nat
    /\ MaxAttempts \in Nat \ {0}
    /\ None \notin Datasets

Runs == 1..MaxRuns

VARIABLES
    datasets,  \* workbench.datasets: the status
    runs,      \* workbench.runs: status, dataset and whether a connection is used
    jobs,      \* workbench.jobs, by run and record
    results,   \* workbench.results with their outbox events
    lease      \* the job each loop is classifying, as claim returned it

tables == <<datasets, runs, jobs, results>>
vars == <<tables, lease>>

RunStates == {"none", "queued", "running", "paused", "completed", "cancelled", "purged"}
Run == [status : RunStates, dataset : Datasets \cup {None}, external : BOOLEAN]
NoRun == [status |-> "none", dataset |-> None, external |-> FALSE]

(* `lapsed': leased_until of a running job has passed. *)
Job ==
    [status : {"none", "pending", "running", "succeeded", "failed", "interrupted"},
     attempt : 0..MaxAttempts, token : 0..MaxAttempts, lapsed : BOOLEAN]
NoToken == 0

(* Fault: a job that is set back keeps the token of its last owner. *)
ClosedKeepingToken(job, status) ==
    [status |-> status, attempt |-> job.attempt, token |-> job.token, lapsed |-> FALSE]

(* A job without an owner. *)
Closed(job, status) ==
    [status |-> status, attempt |-> job.attempt, token |-> NoToken, lapsed |-> FALSE]
Granted(job) ==
    [status |-> "running", attempt |-> job.attempt + 1, token |-> job.attempt + 1,
     lapsed |-> FALSE]
NoJob == [status |-> "none", attempt |-> 0, token |-> NoToken, lapsed |-> FALSE]
Unstarted == Closed(NoJob, "pending")

Leases == [run : Runs \cup {0}, record : Records \cup {None}, token : 0..MaxAttempts]
NoLease == [run |-> 0, record |-> None, token |-> NoToken]

TypeOK ==
    /\ datasets \in [Datasets -> {"ready", "deleting", "deleted"}]
    /\ runs \in [Runs -> Run]
    /\ jobs \in [Runs -> [Records -> Job]]
    /\ results \subseteq Runs \X Records
    /\ lease \in [Workers -> Leases]

(* Datasets have been imported. *)
Init ==
    /\ datasets = [d \in Datasets |-> "ready"]
    /\ runs = [r \in Runs |-> NoRun]
    /\ jobs = [r \in Runs |-> [c \in Records |-> NoJob]]
    /\ results = {}
    /\ lease = [w \in Workers |-> NoLease]

Exists(r) == runs[r].status \notin {"none", "purged"}
Active(r) == runs[r].status \in {"queued", "running"}
Ready(r) == Exists(r) /\ datasets[runs[r].dataset] = "ready"
ResultsOf(r) == {c \in Records : <<r, c>> \in results}
WithStatus(r, status) == [runs EXCEPT ![r].status = status]

-----------------------------------------------------------------------------
(* The owner's commands *)

(* The next identity: a repeated idempotency key returns the run it made.  *)
NextRun(r) == runs[r].status = "none" /\ \A s \in 1..(r - 1) : runs[s].status # "none"

(* Fault: reusing a sample leaves its records to be classified again. *)
CreateRunRepeating(r, d, external, selected, sample) ==
    LET reused == IF sample = 0 THEN {} ELSE ResultsOf(sample)
    IN  /\ NextRun(r)
        /\ datasets[d] = "ready"
        /\ sample # 0 => /\ selected = Records
                         /\ runs[sample] = [status |-> "completed", dataset |-> d,
                                            external |-> external]
        /\ runs' = [runs EXCEPT ![r] =
               [status |-> "queued", dataset |-> d, external |-> external]]
        /\ jobs' = [jobs EXCEPT ![r] =
               [c \in Records |-> IF c \in selected THEN Unstarted ELSE NoJob]]
        /\ results' = results \cup ({r} \X reused)
        /\ UNCHANGED <<datasets, lease>>

(* Fault: a sample that is still active can be expanded. *)
CreateRunFromActive(r, d, external, selected, sample) ==
    LET reused == IF sample = 0 THEN {} ELSE ResultsOf(sample)
    IN  /\ NextRun(r)
        /\ datasets[d] = "ready"
        /\ sample # 0 => selected = Records /\ runs[sample].dataset = d
        /\ runs' = [runs EXCEPT ![r] =
               [status |-> "queued", dataset |-> d, external |-> external]]
        /\ jobs' = [jobs EXCEPT ![r] =
               [c \in Records |-> CASE c \in reused -> Closed(NoJob, "succeeded")
                                    [] c \in selected \ reused -> Unstarted
                                    [] OTHER -> NoJob]]
        /\ results' = results \cup ({r} \X reused)
        /\ UNCHANGED <<datasets, lease>>

(***************************************************************************)
(* create_run: one job for each selected record. A full run that names a   *)
(* completed run of the same configuration with at least one success takes *)
(* over its results; sample = 0 names none.                                *)
(***************************************************************************)
CreateRun(r, d, external, selected, sample) ==
    LET reused == IF sample = 0 THEN {} ELSE ResultsOf(sample)
    IN  /\ NextRun(r)
        /\ datasets[d] = "ready"
        /\ sample # 0 => /\ selected = Records
                         /\ runs[sample] = [status |-> "completed", dataset |-> d,
                                            external |-> external]
                         /\ \E c \in Records : jobs[sample][c].status = "succeeded"
        /\ runs' = [runs EXCEPT ![r] =
               [status |-> "queued", dataset |-> d, external |-> external]]
        /\ jobs' = [jobs EXCEPT ![r] =
               [c \in Records |-> CASE c \in reused -> Closed(NoJob, "succeeded")
                                    [] c \in selected \ reused -> Unstarted
                                    [] OTHER -> NoJob]]
        /\ results' = results \cup ({r} \X reused)
        /\ UNCHANGED <<datasets, lease>>

Cancel(r) ==
    /\ Ready(r)
    /\ runs[r].status \in {"queued", "running", "paused"}
    /\ runs' = WithStatus(r, "cancelled")
    /\ UNCHANGED <<datasets, jobs, results, lease>>

(* Fault: resuming does not look at the dataset. *)
ResumeWithdrawn(r) ==
    /\ runs[r].status \in {"cancelled", "paused"}
    /\ jobs' = [jobs EXCEPT ![r] = [c \in Records |->
           IF @[c].status \in {"running", "failed", "interrupted"}
           THEN Closed(@[c], "pending") ELSE @[c]]]
    /\ runs' = WithStatus(r, "queued")
    /\ UNCHANGED <<datasets, results, lease>>

(* Unfinished jobs lose their leases and wait again; attempts are kept.    *)
(* change_run also accepts status 'failed', which nothing sets.            *)
Resume(r) ==
    /\ Ready(r)
    /\ runs[r].status \in {"cancelled", "paused"}
    /\ jobs' = [jobs EXCEPT ![r] = [c \in Records |->
           IF @[c].status \in {"running", "failed", "interrupted"}
           THEN Closed(@[c], "pending") ELSE @[c]]]
    /\ runs' = WithStatus(r, "queued")
    /\ UNCHANGED <<datasets, results, lease>>

(* Removing a connection pauses the runs that use it. When the database is *)
(* out of reach it does not, and their jobs fail for want of a credential. *)
Disconnect ==
    /\ runs' = [r \in Runs |-> IF Active(r) /\ runs[r].external
                               THEN [runs[r] EXCEPT !.status = "paused"] ELSE runs[r]]
    /\ UNCHANGED <<datasets, jobs, results, lease>>

(* Fault: the runs of a dataset go on when its deletion is requested. *)
MarkDeleteOnly(d) ==
    /\ datasets[d] = "ready"
    /\ datasets' = [datasets EXCEPT ![d] = "deleting"]
    /\ UNCHANGED <<runs, jobs, results, lease>>

MarkDelete(d) ==
    /\ datasets[d] = "ready"
    /\ datasets' = [datasets EXCEPT ![d] = "deleting"]
    /\ runs' = [r \in Runs |-> IF Exists(r) /\ runs[r].dataset = d
                               THEN [runs[r] EXCEPT !.status = "cancelled"] ELSE runs[r]]
    /\ UNCHANGED <<jobs, results, lease>>

(* purge itself checks the status alone; WorkbenchProjection has its caller. *)
Purge(d) ==
    LET gone == {r \in Runs : Exists(r) /\ runs[r].dataset = d}
    IN  /\ datasets[d] = "deleting"
        /\ results' = {p \in results : p[1] \notin gone}
        /\ jobs' = [r \in Runs |-> IF r \in gone THEN [c \in Records |-> NoJob] ELSE jobs[r]]
        /\ runs' = [r \in Runs |-> IF r \in gone THEN [runs[r] EXCEPT !.status = "purged"]
                                   ELSE runs[r]]
        /\ datasets' = [datasets EXCEPT ![d] = "deleted"]
        /\ UNCHANGED lease

-----------------------------------------------------------------------------
(* The processing loop *)

(* Fault: the leases of dead loops are never noticed. *)
SweptNothing(r) == jobs[r]

(* A lapsed job is interrupted. *)
Swept(r) == [c \in Records |-> IF jobs[r][c].status = "running" /\ jobs[r][c].lapsed
                               THEN Closed(jobs[r][c], "interrupted") ELSE jobs[r][c]]

(* A pending job with its attempts used up has failed. *)
Limited(row) == [c \in Records |-> IF row[c].status = "pending" /\ row[c].attempt >= MaxAttempts
                                   THEN Closed(row[c], "failed") ELSE row[c]]

(* The oldest active run of a ready dataset that no transaction has locked. *)
Head(r, locked) ==
    LET claimable == {s \in Runs \ locked : Active(s) /\ Ready(s)}
    IN  r \in claimable /\ \A s \in claimable : r <= s

(* Fault: a run without a pending job is done. *)
ClaimCompletingEarly(w, r) ==
    LET row == Limited(Swept(r))
        pending == {c \in Records : row[c].status = "pending"}
    IN  /\ jobs' = [jobs EXCEPT ![r] = row]
        /\ pending = {}
        /\ runs' = WithStatus(r, "completed")
        /\ UNCHANGED lease

(* An interrupted job pauses its run: the owner decides about more usage.  *)
PauseInterrupted(w, r) ==
    /\ \E c \in Records : Swept(r)[c].status = "interrupted"
    /\ jobs' = [jobs EXCEPT ![r] = Swept(r)]
    /\ runs' = WithStatus(r, "paused")
    /\ UNCHANGED lease

ClaimPending(w, r) ==
    LET row == Limited(Swept(r))
    IN  /\ \A c \in Records : row[c].status # "interrupted"
        /\ \E c \in Records :
              /\ row[c].status = "pending"
              /\ jobs' = [jobs EXCEPT ![r] = [row EXCEPT ![c] = Granted(row[c])]]
              /\ lease' = [lease EXCEPT ![w] =
                     [run |-> r, record |-> c, token |-> Granted(row[c]).token]]
        /\ runs' = WithStatus(r, "running")

(* Nothing is pending: the run is completed unless a job is still running. *)
CompleteRun(w, r) ==
    LET row == Limited(Swept(r))
    IN  /\ \A c \in Records : row[c].status \notin {"pending", "interrupted"}
        /\ jobs' = [jobs EXCEPT ![r] = row]
        /\ runs' = IF \E c \in Records : row[c].status = "running"
                   THEN runs ELSE WithStatus(r, "completed")
        /\ UNCHANGED lease

Claim(w) ==
    /\ lease[w] = NoLease
    /\ \E locked \in SUBSET Runs, r \in Runs :
         /\ Head(r, locked)
         /\ PauseInterrupted(w, r) \/ ClaimPending(w, r) \/ CompleteRun(w, r)
    /\ UNCHANGED <<datasets, results>>

(* Fault: finish looks at the lease and not at the run. *)
MayCommitStopped(w) ==
    LET l == lease[w] IN jobs[l.run][l.record].token = l.token /\ ~jobs[l.run][l.record].lapsed

(* Fault: finish looks at the run and not at the token. *)
MayCommitUnfenced(w) ==
    LET l == lease[w] IN Active(l.run) /\ jobs[l.run][l.record].status # "none"

(* The checks of finish under the locks of the run and the job. *)
MayCommit(w) ==
    LET l == lease[w]
    IN  /\ jobs[l.run][l.record].token = l.token
        /\ Active(l.run)
        /\ ~jobs[l.run][l.record].lapsed

(***************************************************************************)
(* process_job ends in one of three ways: a result, a failure, or a        *)
(* provider failure that pauses the run. A second result for a job would   *)
(* violate the key of workbench.results, and the job fails instead. When   *)
(* the checks do not pass, or the rows have been purged, nothing is kept.  *)
(***************************************************************************)
Finish(w) ==
    LET r == lease[w].run
        c == lease[w].record
    IN  /\ lease[w] # NoLease
        /\ lease' = [lease EXCEPT ![w] = NoLease]
        /\ \/ /\ MayCommit(w)
              /\ \E outcome \in {"succeeded", "failed", "interrupted"} :
                   /\ outcome = "succeeded" => <<r, c>> \notin results
                   /\ results' = results \cup (IF outcome = "succeeded" THEN {<<r, c>>} ELSE {})
                   /\ jobs' = [jobs EXCEPT ![r][c] = Closed(@, outcome)]
                   /\ runs' = IF outcome = "interrupted" THEN WithStatus(r, "paused") ELSE runs
           \/ ~MayCommit(w) /\ UNCHANGED <<runs, jobs, results>>
        /\ UNCHANGED datasets

-----------------------------------------------------------------------------
(* The environment *)

(* The process dies, or an exception restarts its loop. *)
Crash(w) ==
    /\ lease[w] # NoLease
    /\ lease' = [lease EXCEPT ![w] = NoLease]
    /\ UNCHANGED tables

JobClock(r, c) ==
    /\ jobs[r][c].status = "running" /\ ~jobs[r][c].lapsed
    /\ jobs' = [jobs EXCEPT ![r][c].lapsed = TRUE]
    /\ UNCHANGED <<datasets, runs, results, lease>>

Owner ==
    \/ \E r \in Runs, d \in Datasets, external \in BOOLEAN, selected \in {Sample, Records},
          sample \in 0..MaxRuns : CreateRun(r, d, external, selected, sample)
    \/ \E r \in Runs : Cancel(r) \/ Resume(r)
    \/ Disconnect
    \/ \E d \in Datasets : MarkDelete(d)

Next ==
    \/ Owner
    \/ \E d \in Datasets : Purge(d)
    \/ \E w \in Workers : Claim(w) \/ Finish(w) \/ Crash(w)
    \/ \E r \in Runs, c \in Records : JobClock(r, c)

Spec == Init /\ [][Next]_vars

(***************************************************************************)
(* The loop runs for as long as its process, which is restarted; every     *)
(* classification ends (provider requests have deadlines) and time passes. *)
(* The loop reaches claim only through project_and_purge, which raises     *)
(* while ClickHouse cannot confirm a deletion: as long as a dataset waits  *)
(* for its purge, no claim is promised. Nothing is assumed of the owner,   *)
(* of providers or of crashes.                                             *)
(***************************************************************************)
PurgePending == \E d \in Datasets : datasets[d] = "deleting"

Fairness ==
    /\ \A w \in Workers : WF_vars(Claim(w) /\ ~PurgePending) /\ WF_vars(Finish(w))
    /\ \A r \in Runs, c \in Records : WF_vars(JobClock(r, c))

FairSpec == Spec /\ Fairness

-----------------------------------------------------------------------------
(* Properties *)

Holds(w, r, c) ==
    lease[w].run = r /\ lease[w].record = c /\ jobs[r][c].token = lease[w].token

(* However often a run is stopped, resumed and its jobs claimed again, at  *)
(* most one loop holds a job's token, and only while the job is running.   *)
OneHolder ==
    \A r \in Runs, c \in Records :
        /\ \A v, w \in Workers :
              lease[v] # NoLease /\ Holds(v, r, c) /\ Holds(w, r, c) => v = w
        /\ jobs[r][c].token # NoToken => jobs[r][c].status = "running"

(* A record has a result in a run exactly when its job succeeded: resuming *)
(* never classifies it again, a lost lease never leaves a result behind.   *)
ResultsMatchSuccess ==
    \A r \in Runs, c \in Records : <<r, c>> \in results <=> jobs[r][c].status = "succeeded"

(* A completed run has no open job, so its counts are final. *)
CompletedIsSettled ==
    \A r \in Runs : runs[r].status = "completed" =>
        \A c \in Records : jobs[r][c].status \in {"none", "succeeded", "failed"}

(* From the deletion request on a dataset has no active run, and once it   *)
(* is deleted no row is left of its runs.                                  *)
DeletionIsFinal ==
    \A r \in Runs : runs[r].status # "none" =>
        /\ datasets[runs[r].dataset] = "deleting" => runs[r].status = "cancelled"
        /\ datasets[runs[r].dataset] = "deleted" =>
              /\ runs[r].status = "purged"
              /\ \A c \in Records : jobs[r][c] = NoJob /\ <<r, c>> \notin results

(* An active run comes to a stop, completed or back in its owner's hands,  *)
(* however often it and older runs ahead of it are stopped and resumed,    *)
(* unless a purge is pending.                                              *)
RunsStop == \A r \in Runs : Active(r) ~> ~Active(r) \/ PurgePending

(* Leases, retries and crashes are invisible through the contract.         *)
Stage(r) ==
    LET status == runs[r].status
    IN  CASE ~Exists(r) -> status
          [] Exists(r) /\ ~Ready(r) -> "withdrawn"
          [] Ready(r) /\ Active(r) -> "active"
          [] Ready(r) /\ status = "completed" -> "completed"
          [] OTHER -> "stopped"

Stages == [r \in Runs |-> Stage(r)]
Contract == INSTANCE RunContract WITH stage <- Stages

ImplementsRunContract == Contract!Spec
=============================================================================
