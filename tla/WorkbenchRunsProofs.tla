------------------------- MODULE WorkbenchRunsProofs -------------------------
(***************************************************************************)
(* Fencing and retries of classification runs, for all loops, datasets,    *)
(* records and bounds. The argument: a running job's token is the number   *)
(* of its last attempt and attempts only grow, so a claim draws a token    *)
(* that no loop has held; a lease that was set back, swept or purged meets *)
(* another token at finish. Deleting cancels every run of the dataset, and *)
(* nothing revives a run of a dataset that is not ready.                   *)
(***************************************************************************)
EXTENDS WorkbenchRuns, TLAPS

(* Only a running job has an owner, the loop of its last attempt. *)
Owned(job) ==
    IF job.status = "running" THEN job.attempt > 0 /\ job.token = job.attempt
                              ELSE job.token = NoToken

JobInv == \A r \in Runs, c \in Records : Owned(jobs[r][c])

(* Rows exist for runs that were created, and go with their dataset. *)
RunInv ==
    \A r \in Runs :
        /\ runs[r].status = "none" => \A c \in Records : jobs[r][c] = NoJob
        /\ runs[r].status # "none" => runs[r].dataset \in Datasets
        /\ runs[r].status = "purged" => datasets[runs[r].dataset] = "deleted"

(* Attempts only grow while a lease is out. *)
LeaseInv ==
    \A w \in Workers : lease[w] # NoLease =>
        /\ lease[w].run \in Runs
        /\ lease[w].record \in Records
        /\ lease[w].token > 0
        /\ runs[lease[w].run].status # "none"
        /\ Exists(lease[w].run) =>
              lease[w].token <= jobs[lease[w].run][lease[w].record].attempt

IInv ==
    /\ TypeOK
    /\ JobInv
    /\ RunInv
    /\ LeaseInv
    /\ OneHolder
    /\ ResultsMatchSuccess
    /\ CompletedIsSettled
    /\ DeletionIsFinal

-----------------------------------------------------------------------------
(* Transactions on the jobs of one run *)

(* The jobs of r with some of them closed or set back. *)
RowOf(row, r) ==
    /\ row \in [Records -> Job]
    /\ \A c \in Records :
          /\ Owned(row[c])
          /\ row[c].attempt = jobs[r][c].attempt
          /\ row[c].status = "succeeded" <=> jobs[r][c].status = "succeeded"
          /\ row[c].token \in {NoToken, jobs[r][c].token}

Settled(row) == \A c \in Records : row[c].status \in {"none", "succeeded", "failed"}

(* Such a transaction, with a change of the run's status, keeps everything *)
(* but what the new status says of the jobs and of the dataset.            *)
LEMMA RewriteKeeps ==
    ASSUME IInv, NEW r \in Runs, Exists(r), NEW row, RowOf(row, r),
           NEW status \in RunStates \ {"none", "purged"},
           status = "completed" => Settled(row),
           datasets[runs[r].dataset] = "deleting" => status = "cancelled",
           jobs' = [jobs EXCEPT ![r] = row], runs' = WithStatus(r, status),
           UNCHANGED <<datasets, results, lease>>
    PROVE  IInv'
<1>1. TypeOK'
    BY DEF IInv, TypeOK, RowOf, WithStatus, Run
<1>2. /\ runs' \in [Runs -> Run]
      /\ runs'[r].status = status /\ runs'[r].dataset = runs[r].dataset
      /\ \A s \in Runs \ {r} : runs'[s] = runs[s]
    BY <1>1 DEF IInv, TypeOK, WithStatus, Run
<1>3. jobs'[r] = row /\ \A s \in Runs \ {r} : jobs'[s] = jobs[s]
    BY DEF IInv, TypeOK
<1>4. JobInv'
    BY <1>3 DEF IInv, JobInv, RowOf
<1>5. RunInv'
    BY <1>2, <1>3 DEF IInv, RunInv, Exists
<1>6. LeaseInv'
    BY <1>2, <1>3 DEF IInv, LeaseInv, RowOf, Exists
<1>7. OneHolder'
  <2>1. \A w \in Workers, s \in Runs, c \in Records :
           lease[w] # NoLease /\ Holds(w, s, c)' => Holds(w, s, c)
      BY <1>3 DEF IInv, RowOf, LeaseInv, Holds, NoToken
  <2>2. \A s \in Runs, c \in Records :
           jobs'[s][c].token # NoToken => jobs'[s][c].status = "running"
      BY <1>4 DEF JobInv, Owned
  <2>3. \A v, w \in Workers, s \in Runs, c \in Records :
           Holds(v, s, c)' /\ Holds(w, s, c)' /\ lease[v] # NoLease => lease[w] # NoLease
      BY DEF Holds, NoLease, Runs
  <2>. QED
      BY <2>1, <2>2, <2>3 DEF IInv, OneHolder
<1>8. ResultsMatchSuccess'
  <2>1. \A s \in Runs, c \in Records :
           jobs'[s][c].status = "succeeded" <=> jobs[s][c].status = "succeeded"
      BY <1>3 DEF RowOf
  <2>. QED
      BY <2>1 DEF IInv, ResultsMatchSuccess
<1>9. CompletedIsSettled'
    BY <1>2, <1>3 DEF IInv, CompletedIsSettled, Settled
<1>10. DeletionIsFinal'
    BY <1>2, <1>3 DEF IInv, DeletionIsFinal, Exists
<1>. QED
    BY <1>1, <1>4, <1>5, <1>6, <1>7, <1>8, <1>9, <1>10 DEF IInv

(* Leaving the jobs as they are is such a transaction. *)
LEMMA SameRow ==
    ASSUME IInv, NEW r \in Runs
    PROVE  RowOf(jobs[r], r) /\ jobs = [jobs EXCEPT ![r] = jobs[r]]
BY DEF IInv, TypeOK, JobInv, RowOf

(* Sweeping and the attempt limit are, and they leave no job pending that  *)
(* may not be claimed.                                                     *)
LEMMA SweptRow ==
    ASSUME IInv, NEW r \in Runs
    PROVE  /\ RowOf(Swept(r), r)
           /\ RowOf(Limited(Swept(r)), r)
           /\ \A c \in Records : Limited(Swept(r))[c].status = "pending" =>
                 Limited(Swept(r))[c].attempt < MaxAttempts
<1>. DEFINE row == Swept(r)
<1>. DEFINE limited == Limited(row)
<1>1. \A c \in Records : jobs[r][c] \in Job /\ Owned(jobs[r][c])
    BY DEF IInv, TypeOK, JobInv
<1>2. ASSUME NEW job \in Job, Owned(job),
             NEW status \in {"failed", "interrupted", "pending"}
      PROVE  /\ Closed(job, status) \in Job
             /\ Owned(Closed(job, status))
             /\ Closed(job, status).attempt = job.attempt
             /\ Closed(job, status).status = status
             /\ Closed(job, status).token = NoToken
    BY <1>2, RunsAssumption DEF Closed, Job, Owned, NoToken
<1>3. RowOf(row, r)
    BY <1>1, <1>2 DEF RowOf, Swept
<1>. HIDE DEF row
<1>4. \A c \in Records : row[c] \in Job /\ Owned(row[c])
    BY <1>3 DEF RowOf
<1>5. RowOf(limited, r)
    BY <1>2, <1>3, <1>4 DEF RowOf, Limited
<1>6. \A c \in Records : limited[c].status = "pending" => limited[c].attempt < MaxAttempts
  <2>1. \A c \in Records : row[c].attempt \in Nat
      BY <1>4, RunsAssumption DEF Job
  <2>. QED
      BY <2>1, <1>2, <1>4, RunsAssumption DEF Limited
<1>. QED
    BY <1>3, <1>5, <1>6 DEF row

-----------------------------------------------------------------------------
(* The actions *)

LEMMA CreateRunKeeps ==
    ASSUME IInv, NEW r \in Runs, NEW d \in Datasets, NEW external \in BOOLEAN,
           NEW selected \in {Sample, Records}, NEW sample \in 0..MaxRuns,
           CreateRun(r, d, external, selected, sample)
    PROVE  IInv'
<1>. DEFINE reused == IF sample = 0 THEN {} ELSE ResultsOf(sample)
<1>. DEFINE row == [c \in Records |-> CASE c \in reused -> Closed(NoJob, "succeeded")
                                       [] c \in selected \ reused -> Unstarted
                                       [] OTHER -> NoJob]
<1>1. /\ runs[r].status = "none" /\ datasets[d] = "ready"
      /\ runs' = [runs EXCEPT ![r] = [status |-> "queued", dataset |-> d, external |-> external]]
      /\ jobs' = [jobs EXCEPT ![r] = row]
      /\ results' = results \cup ({r} \X reused)
      /\ datasets' = datasets /\ lease' = lease
    BY DEF CreateRun, NextRun
<1>2. /\ runs'[r] = [status |-> "queued", dataset |-> d, external |-> external]
      /\ \A s \in Runs \ {r} : runs'[s] = runs[s]
      /\ jobs'[r] = row
      /\ \A s \in Runs \ {r} : jobs'[s] = jobs[s]
    BY <1>1 DEF IInv, TypeOK
<1>3. reused \subseteq Records
    BY DEF ResultsOf
<1>4. \A c \in Records : /\ row[c] \in Job /\ Owned(row[c]) /\ row[c].token = NoToken
                         /\ row[c].status = "succeeded" <=> c \in reused
    BY RunsAssumption DEF Closed, NoJob, Unstarted, NoToken, Job, Owned
<1>. HIDE DEF reused, row
<1>5. row \in [Records -> Job]
  <2>1. row = [c \in Records |-> row[c]]
      BY DEF row
  <2>. QED
      BY <2>1, <1>4
<1>6. TypeOK'
  <2>1. runs' \in [Runs -> Run]
      BY <1>1 DEF IInv, TypeOK, Run, RunStates
  <2>2. jobs' \in [Runs -> [Records -> Job]]
      BY <1>1, <1>5 DEF IInv, TypeOK
  <2>3. results' \subseteq Runs \X Records
      BY <1>1, <1>3 DEF IInv, TypeOK
  <2>. QED
      BY <1>1, <2>1, <2>2, <2>3 DEF IInv, TypeOK
<1>7. JobInv'
    BY <1>2, <1>4 DEF IInv, JobInv
<1>8. RunInv'
    BY <1>1, <1>2 DEF IInv, RunInv
<1>9. LeaseInv'
    BY <1>1, <1>2 DEF IInv, LeaseInv, Exists
<1>10. OneHolder'
  <2>1. \A w \in Workers, s \in Runs, c \in Records :
           lease[w] # NoLease /\ Holds(w, s, c)' => Holds(w, s, c)
      BY <1>1, <1>2 DEF IInv, LeaseInv, Holds
  <2>2. \A s \in Runs, c \in Records :
           jobs'[s][c].token # NoToken => jobs'[s][c].status = "running"
      BY <1>7 DEF JobInv, Owned
  <2>3. \A v, w \in Workers, s \in Runs, c \in Records :
           Holds(v, s, c)' /\ Holds(w, s, c)' /\ lease[v] # NoLease => lease[w] # NoLease
      BY <1>1 DEF Holds, NoLease, Runs
  <2>. QED
      BY <1>1, <2>1, <2>2, <2>3 DEF IInv, OneHolder
<1>11. ResultsMatchSuccess'
  <2>1. \A c \in Records : <<r, c>> \notin results
      BY <1>1 DEF IInv, RunInv, ResultsMatchSuccess, NoJob
  <2>2. \A s \in Runs, c \in Records :
           <<s, c>> \in results' <=> IF s = r THEN c \in reused ELSE <<s, c>> \in results
      BY <1>1, <2>1
  <2>3. \A c \in Records : jobs'[r][c].status = "succeeded" <=> c \in reused
      BY <1>2, <1>4
  <2>4. ASSUME NEW s \in Runs, NEW c \in Records
        PROVE  <<s, c>> \in results' <=> jobs'[s][c].status = "succeeded"
    <3>1. CASE s = r
        BY <3>1, <2>2, <2>3
    <3>2. CASE s # r
        BY <3>2, <1>2, <2>2 DEF IInv, ResultsMatchSuccess
    <3>. QED
        BY <3>1, <3>2
  <2>. QED
      BY <2>4 DEF ResultsMatchSuccess
<1>12. CompletedIsSettled'
    BY <1>2 DEF IInv, CompletedIsSettled
<1>13. DeletionIsFinal'
  <2>1. ASSUME NEW s \in Runs \ {r}, NEW c \in Records, <<s, c>> \in results'
        PROVE  <<s, c>> \in results
      BY <2>1, <1>1
  <2>. QED
      BY <1>1, <1>2, <2>1 DEF IInv, DeletionIsFinal
<1>. QED
    BY <1>6, <1>7, <1>8, <1>9, <1>10, <1>11, <1>12, <1>13 DEF IInv

LEMMA CancelKeeps ==
    ASSUME IInv, NEW r \in Runs, Cancel(r)
    PROVE  IInv'
<1>1. RowOf(jobs[r], r) /\ jobs = [jobs EXCEPT ![r] = jobs[r]]
    BY SameRow
<1>. HIDE DEF IInv
<1>. QED
    BY <1>1, RewriteKeeps DEF Cancel, Ready, RunStates

(* What change_run makes of the jobs of a stopped run. *)
LEMMA ResumedRow ==
    ASSUME IInv, NEW r \in Runs
    PROVE  RowOf([c \in Records |->
                     IF jobs[r][c].status \in {"running", "failed", "interrupted"}
                     THEN Closed(jobs[r][c], "pending") ELSE jobs[r][c]], r)
BY RunsAssumption DEF IInv, TypeOK, JobInv, RowOf, Closed, Job, Owned, NoToken

LEMMA ResumeKeeps ==
    ASSUME IInv, NEW r \in Runs, Resume(r)
    PROVE  IInv'
<1>. DEFINE row == [c \in Records |->
                       IF jobs[r][c].status \in {"running", "failed", "interrupted"}
                       THEN Closed(jobs[r][c], "pending") ELSE jobs[r][c]]
<1>1. RowOf(row, r)
    BY ResumedRow
<1>2. jobs' = [jobs EXCEPT ![r] = row]
    BY DEF Resume, IInv, TypeOK
<1>. HIDE DEF row
<1>. QED
    BY <1>1, <1>2, RewriteKeeps DEF Resume, Ready, RunStates

LEMMA PauseInterruptedKeeps ==
    ASSUME IInv, NEW w \in Workers, NEW r \in Runs, Active(r), Ready(r),
           PauseInterrupted(w, r), UNCHANGED <<datasets, results>>
    PROVE  IInv'
BY SweptRow, RewriteKeeps DEF PauseInterrupted, Ready, RunStates

LEMMA CompleteRunKeeps ==
    ASSUME IInv, NEW w \in Workers, NEW r \in Runs, Active(r), Ready(r),
           CompleteRun(w, r), UNCHANGED <<datasets, results>>
    PROVE  IInv'
<1>. DEFINE row == Limited(Swept(r))
<1>1. /\ RowOf(row, r)
      /\ jobs' = [jobs EXCEPT ![r] = row]
      /\ UNCHANGED <<datasets, results, lease>>
      /\ \A c \in Records : row[c].status \notin {"pending", "interrupted"}
      /\ runs' = IF \E c \in Records : row[c].status = "running"
                 THEN runs ELSE WithStatus(r, "completed")
    BY SweptRow DEF CompleteRun
<1>. HIDE DEF row
<1>2. CASE \E c \in Records : row[c].status = "running"
  <2>1. runs[r].status \in RunStates \ {"none", "purged", "completed"}
      BY DEF Active, RunStates
  <2>2. runs' = WithStatus(r, runs[r].status)
      BY <1>1, <1>2 DEF IInv, TypeOK, WithStatus, Run
  <2>. QED
      BY <1>1, <2>1, <2>2, RewriteKeeps DEF Ready
<1>3. CASE ~\E c \in Records : row[c].status = "running"
  <2>1. Settled(row)
      BY <1>1, <1>3 DEF RowOf, Job, Settled
  <2>. QED
      BY <1>1, <1>3, <2>1, RewriteKeeps DEF Ready, RunStates
<1>. QED
    BY <1>2, <1>3

LEMMA JobClockKeeps ==
    ASSUME IInv, NEW r \in Runs, NEW c \in Records, JobClock(r, c)
    PROVE  IInv'
<1>. DEFINE row == [jobs[r] EXCEPT ![c].lapsed = TRUE]
<1>1. jobs' = [jobs EXCEPT ![r] = row] /\ UNCHANGED <<datasets, runs, results, lease>>
    BY DEF JobClock, IInv, TypeOK
<1>2. RowOf(row, r)
  <2>1. jobs[r][c] \in Job /\ row[c] = [jobs[r][c] EXCEPT !.lapsed = TRUE]
      BY DEF IInv, TypeOK
  <2>2. row \in [Records -> Job]
      BY <2>1 DEF IInv, TypeOK, Job
  <2>. QED
      BY <2>1, <2>2 DEF IInv, TypeOK, JobInv, RowOf, Owned, Job
<1>. HIDE DEF row
<1>3. /\ runs[r].status \in RunStates \ {"none", "purged", "completed"}
      /\ Exists(r)
      /\ datasets[runs[r].dataset] = "deleting" => runs[r].status = "cancelled"
  <2>1. jobs[r][c].status = "running" /\ jobs[r][c] # NoJob
      BY DEF JobClock, NoJob
  <2>2. runs[r].status \in RunStates
      BY DEF IInv, TypeOK, Run
  <2>3. runs[r].status # "none"
      BY <2>1 DEF IInv, RunInv
  <2>4. runs[r].status # "purged"
      BY <2>1 DEF IInv, RunInv, DeletionIsFinal
  <2>5. runs[r].status # "completed"
      BY <2>1 DEF IInv, CompletedIsSettled
  <2>6. datasets[runs[r].dataset] = "deleting" => runs[r].status = "cancelled"
      BY <2>3 DEF IInv, DeletionIsFinal
  <2>. QED
      BY <2>2, <2>3, <2>4, <2>5, <2>6 DEF Exists
<1>4. runs' = WithStatus(r, runs[r].status)
    BY <1>1 DEF IInv, TypeOK, WithStatus, Run
<1>. QED
    BY <1>1, <1>2, <1>3, <1>4, RewriteKeeps

LEMMA DisconnectKeeps ==
    ASSUME IInv, Disconnect
    PROVE  IInv'
<1>1. ASSUME NEW r \in Runs
      PROVE  /\ runs'[r] \in Run /\ runs'[r].dataset = runs[r].dataset
             /\ \/ runs'[r].status = runs[r].status
                \/ Active(r) /\ runs'[r].status = "paused"
    BY DEF IInv, TypeOK, Disconnect, Run, RunStates
<1>2. runs' \in [Runs -> Run] /\ UNCHANGED <<datasets, jobs, results, lease>>
    BY <1>1 DEF Disconnect
<1>3. TypeOK'
    BY <1>2 DEF IInv, TypeOK
<1>4. JobInv' /\ ResultsMatchSuccess' /\ OneHolder'
    BY <1>2 DEF IInv, JobInv, ResultsMatchSuccess, OneHolder, Holds
<1>5. RunInv'
    BY <1>1, <1>2 DEF IInv, RunInv, Active
<1>6. LeaseInv'
    BY <1>1, <1>2 DEF IInv, LeaseInv, Exists, Active
<1>7. CompletedIsSettled'
    BY <1>1, <1>2 DEF IInv, CompletedIsSettled
<1>8. DeletionIsFinal'
  <2>1. ASSUME NEW r \in Runs, Active(r)
        PROVE  datasets[runs[r].dataset] \notin {"deleting", "deleted"}
      BY <2>1 DEF IInv, DeletionIsFinal, Active
  <2>. QED
      BY <1>1, <1>2, <2>1 DEF IInv, DeletionIsFinal, Active
<1>. QED
    BY <1>3, <1>4, <1>5, <1>6, <1>7, <1>8 DEF IInv

LEMMA MarkDeleteKeeps ==
    ASSUME IInv, NEW d \in Datasets, MarkDelete(d)
    PROVE  IInv'
<1>1. ASSUME NEW r \in Runs
      PROVE  /\ runs'[r] \in Run /\ runs'[r].dataset = runs[r].dataset
             /\ runs'[r].status = IF Exists(r) /\ runs[r].dataset = d
                                  THEN "cancelled" ELSE runs[r].status
    BY DEF IInv, TypeOK, MarkDelete, Run, RunStates
<1>2. /\ runs' \in [Runs -> Run]
      /\ datasets[d] = "ready" /\ datasets' = [datasets EXCEPT ![d] = "deleting"]
      /\ UNCHANGED <<jobs, results, lease>>
    BY <1>1 DEF MarkDelete
<1>3. TypeOK'
    BY <1>2 DEF IInv, TypeOK
<1>4. JobInv' /\ ResultsMatchSuccess' /\ OneHolder'
    BY <1>2 DEF IInv, JobInv, ResultsMatchSuccess, OneHolder, Holds
<1>5. RunInv'
    BY <1>1, <1>2 DEF IInv, TypeOK, RunInv, Exists
<1>6. LeaseInv'
    BY <1>1, <1>2 DEF IInv, LeaseInv, Exists
<1>7. CompletedIsSettled'
    BY <1>1, <1>2 DEF IInv, CompletedIsSettled
<1>8. DeletionIsFinal'
  <2>1. ASSUME NEW r \in Runs, runs'[r].status # "none"
        PROVE  /\ runs[r].status # "none" /\ runs[r].dataset \in Datasets
               /\ datasets'[runs[r].dataset] = IF runs[r].dataset = d THEN "deleting"
                                               ELSE datasets[runs[r].dataset]
      BY <2>1, <1>1, <1>2 DEF IInv, TypeOK, RunInv, Exists
  <2>2. ASSUME NEW r \in Runs, runs'[r].status # "none", runs[r].dataset = d
        PROVE  runs'[r].status = "cancelled"
      BY <2>1, <2>2, <1>1, <1>2 DEF IInv, RunInv, Exists
  <2>. QED
      BY <1>1, <1>2, <2>1, <2>2 DEF IInv, DeletionIsFinal
<1>. QED
    BY <1>3, <1>4, <1>5, <1>6, <1>7, <1>8 DEF IInv

LEMMA PurgeKeeps ==
    ASSUME IInv, NEW d \in Datasets, Purge(d)
    PROVE  IInv'
<1>. DEFINE gone == {r \in Runs : Exists(r) /\ runs[r].dataset = d}
<1>1. /\ datasets[d] = "deleting" /\ datasets' = [datasets EXCEPT ![d] = "deleted"]
      /\ results' = {p \in results : p[1] \notin gone}
      /\ jobs' = [r \in Runs |-> IF r \in gone THEN [c \in Records |-> NoJob] ELSE jobs[r]]
      /\ runs' = [r \in Runs |-> IF r \in gone THEN [runs[r] EXCEPT !.status = "purged"]
                                ELSE runs[r]]
      /\ UNCHANGED lease
    BY DEF Purge
<1>2. ASSUME NEW r \in Runs
      PROVE  /\ runs'[r] \in Run /\ runs'[r].dataset = runs[r].dataset
             /\ runs'[r].status = IF r \in gone THEN "purged" ELSE runs[r].status
             /\ \A c \in Records : jobs'[r][c] = IF r \in gone THEN NoJob ELSE jobs[r][c]
    BY <1>1 DEF IInv, TypeOK, Run, RunStates
<1>3. ASSUME NEW r \in Runs, NEW c \in Records
      PROVE  <<r, c>> \in results' <=> r \notin gone /\ <<r, c>> \in results
    BY <1>1
<1>4. \A r \in gone : Exists(r) /\ runs[r].dataset = d
    OBVIOUS
<1>5. \A r \in Runs \ gone : runs[r].dataset = d => runs[r].status \in {"none", "purged"}
    BY DEF Exists
<1>6. gone \subseteq Runs
    OBVIOUS
<1>. HIDE DEF gone
<1>7. NoJob \in Job
    BY RunsAssumption DEF NoJob, NoToken, Job
<1>8. TypeOK'
  <2>1. jobs' \in [Runs -> [Records -> Job]]
      BY <1>1, <1>7 DEF IInv, TypeOK
  <2>2. runs' \in [Runs -> Run]
      BY <1>1, <1>2
  <2>. QED
      BY <1>1, <2>1, <2>2 DEF IInv, TypeOK
<1>9. JobInv'
    BY <1>2 DEF IInv, JobInv, Owned, NoJob
<1>10. RunInv'
    BY <1>1, <1>2, <1>4, <1>5 DEF IInv, TypeOK, RunInv, Exists
<1>11. LeaseInv'
    BY <1>1, <1>2 DEF IInv, LeaseInv, Exists
<1>12. OneHolder'
  <2>1. \A w \in Workers, s \in Runs, c \in Records :
           lease[w] # NoLease /\ Holds(w, s, c)' => Holds(w, s, c)
      BY <1>1, <1>2 DEF IInv, TypeOK, LeaseInv, Leases, Holds, NoJob, NoToken
  <2>2. \A s \in Runs, c \in Records :
           jobs'[s][c].token # NoToken => jobs'[s][c].status = "running"
      BY <1>9 DEF JobInv, Owned
  <2>3. \A v, w \in Workers, s \in Runs, c \in Records :
           Holds(v, s, c)' /\ Holds(w, s, c)' /\ lease[v] # NoLease => lease[w] # NoLease
      BY <1>1 DEF Holds, NoLease, Runs
  <2>. QED
      BY <1>1, <2>1, <2>2, <2>3 DEF IInv, OneHolder
<1>13. ResultsMatchSuccess'
  <2>1. ASSUME NEW r \in Runs, NEW c \in Records
        PROVE  <<r, c>> \in results' <=> jobs'[r][c].status = "succeeded"
    <3>1. <<r, c>> \in results <=> jobs[r][c].status = "succeeded"
        BY DEF IInv, ResultsMatchSuccess
    <3>2. NoJob.status # "succeeded"
        BY DEF NoJob
    <3>. QED
        BY <3>1, <3>2, <1>2, <1>3
  <2>. QED
      BY <2>1 DEF ResultsMatchSuccess
<1>14. CompletedIsSettled'
    BY <1>2 DEF IInv, CompletedIsSettled
<1>15. DeletionIsFinal'
  <2>1. ASSUME NEW r \in Runs, runs'[r].status # "none"
        PROVE  /\ runs[r].status # "none" /\ runs[r].dataset \in Datasets
               /\ datasets'[runs[r].dataset] = IF runs[r].dataset = d THEN "deleted"
                                               ELSE datasets[runs[r].dataset]
      BY <2>1, <1>1, <1>2, <1>4 DEF IInv, TypeOK, RunInv, Exists
  <2>2. ASSUME NEW r \in Runs, runs'[r].status # "none", runs[r].dataset = d
        PROVE  r \in gone
    <3>1. runs[r].status # "purged"
        BY <2>2, <1>1 DEF IInv, RunInv
    <3>. QED
        BY <3>1, <2>1, <2>2, <1>5
  <2>3. ASSUME NEW r \in Runs, runs'[r].status # "none", runs[r].dataset = d
        PROVE  /\ runs'[r].status = "purged"
               /\ \A c \in Records : jobs'[r][c] = NoJob /\ <<r, c>> \notin results'
      BY <2>2, <2>3, <1>2, <1>3
  <2>4. ASSUME NEW r \in Runs, runs'[r].status # "none", runs[r].dataset # d
        PROVE  /\ r \notin gone /\ runs'[r].status = runs[r].status
               /\ \A c \in Records : /\ jobs'[r][c] = jobs[r][c]
                                     /\ <<r, c>> \in results' => <<r, c>> \in results
      BY <2>4, <1>2, <1>3, <1>4
  <2>. QED
      BY <1>2, <2>1, <2>3, <2>4 DEF IInv, DeletionIsFinal
<1>. QED
    BY <1>8, <1>9, <1>10, <1>11, <1>12, <1>13, <1>14, <1>15 DEF IInv

(* The token drawn for c is greater than any lease's token on c. *)
LEMMA ClaimPendingKeeps ==
    ASSUME IInv, NEW w \in Workers, NEW r \in Runs, lease[w] = NoLease, Active(r), Ready(r),
           ClaimPending(w, r), UNCHANGED <<datasets, results>>
    PROVE  IInv'
<1>. DEFINE row == Limited(Swept(r))
<1>1. PICK c \in Records :
          /\ row[c].status = "pending"
          /\ jobs' = [jobs EXCEPT ![r] = [row EXCEPT ![c] = Granted(row[c])]]
          /\ lease' = [lease EXCEPT ![w] =
                           [run |-> r, record |-> c, token |-> Granted(row[c]).token]]
    BY DEF ClaimPending
<1>2. RowOf(row, r) /\ row[c].attempt < MaxAttempts
    BY <1>1, SweptRow
<1>3. runs' = WithStatus(r, "running") /\ UNCHANGED <<datasets, results>>
    BY DEF ClaimPending
<1>. HIDE DEF row
<1>. DEFINE drawn == jobs[r][c].attempt + 1
<1>4. /\ row[c].attempt = jobs[r][c].attempt /\ jobs[r][c].attempt \in Nat
      /\ drawn \in 1..MaxAttempts
      /\ Granted(row[c]) = [status |-> "running", attempt |-> drawn, token |-> drawn,
                            lapsed |-> FALSE]
  <2>1. jobs[r][c] \in Job /\ row[c].attempt = jobs[r][c].attempt
      BY <1>2 DEF IInv, TypeOK, RowOf
  <2>. QED
      BY <2>1, <1>2, RunsAssumption DEF Job, Granted
<1>5. /\ jobs'[r][c] = [status |-> "running", attempt |-> drawn, token |-> drawn,
                        lapsed |-> FALSE]
      /\ \A k \in Records \ {c} : jobs'[r][k] = row[k]
      /\ \A s \in Runs \ {r} : jobs'[s] = jobs[s]
    BY <1>1, <1>2, <1>4 DEF IInv, TypeOK, RowOf
<1>6. /\ lease'[w] = [run |-> r, record |-> c, token |-> drawn]
      /\ \A v \in Workers \ {w} : lease'[v] = lease[v]
    BY <1>1, <1>4 DEF IInv, TypeOK
<1>7. /\ runs' \in [Runs -> Run]
      /\ runs'[r].status = "running" /\ runs'[r].dataset = runs[r].dataset
      /\ \A s \in Runs \ {r} : runs'[s] = runs[s]
    BY <1>3 DEF IInv, TypeOK, WithStatus, Run, RunStates
<1>8. datasets[runs[r].dataset] = "ready" /\ Exists(r)
    BY DEF Ready
<1>9. TypeOK'
  <2>1. jobs' \in [Runs -> [Records -> Job]]
    <3>1. Granted(row[c]) \in Job
        BY <1>4, RunsAssumption DEF Job
    <3>. QED
        BY <3>1, <1>1, <1>2 DEF IInv, TypeOK, RowOf
  <2>2. lease' \in [Workers -> Leases]
    <3>1. [run |-> r, record |-> c, token |-> Granted(row[c]).token] \in Leases
        BY <1>4, RunsAssumption DEF Leases
    <3>. QED
        BY <3>1, <1>1 DEF IInv, TypeOK
  <2>. QED
      BY <2>1, <2>2, <1>3, <1>7 DEF IInv, TypeOK
<1>10. JobInv'
    BY <1>2, <1>4, <1>5 DEF IInv, JobInv, RowOf, Owned
<1>11. RunInv'
    BY <1>3, <1>5, <1>7, <1>8 DEF IInv, RunInv, Exists
<1>12. ASSUME NEW v \in Workers \ {w}, lease[v] # NoLease
       PROVE  /\ lease[v].run \in Runs /\ lease[v].record \in Records /\ lease[v].token > 0
              /\ runs'[lease[v].run].status # "none"
              /\ runs'[lease[v].run].status # "purged" => Exists(lease[v].run)
              /\ lease[v].run = r => lease[v].token <= jobs[r][lease[v].record].attempt
    BY <1>12, <1>7, <1>8 DEF IInv, LeaseInv, Exists
<1>13. \A k \in Records : /\ jobs[r][k].attempt \in Nat
                          /\ jobs'[r][k].attempt \in Nat
                          /\ jobs[r][k].attempt <= jobs'[r][k].attempt
  <2>1. \A k \in Records : jobs[r][k].attempt \in Nat
      BY RunsAssumption DEF IInv, TypeOK, Job
  <2>. QED
      BY <2>1, <1>2, <1>4, <1>5 DEF RowOf
<1>14. \A v \in Workers : lease[v].token \in Nat
    BY RunsAssumption DEF IInv, TypeOK, Leases
<1>15. LeaseInv'
  <2>1. ASSUME NEW v \in Workers \ {w}, lease[v] # NoLease,
               runs'[lease[v].run].status # "purged"
        PROVE  lease[v].token <= jobs'[lease[v].run][lease[v].record].attempt
    <3>1. CASE lease[v].run = r
        BY <2>1, <3>1, <1>12, <1>13, <1>14
    <3>2. CASE lease[v].run # r
        BY <2>1, <3>2, <1>5, <1>12 DEF IInv, LeaseInv
    <3>. QED
        BY <3>1, <3>2
  <2>2. ASSUME NEW v \in Workers \ {w}, lease'[v] # NoLease
        PROVE  /\ lease'[v].run \in Runs
               /\ lease'[v].record \in Records
               /\ lease'[v].token > 0
               /\ runs'[lease'[v].run].status # "none"
               /\ runs'[lease'[v].run].status # "purged" =>
                     lease'[v].token <= jobs'[lease'[v].run][lease'[v].record].attempt
      BY <2>1, <2>2, <1>6, <1>12
  <2>3. /\ lease'[w].run = r /\ lease'[w].record = c /\ lease'[w].token = drawn
        /\ drawn > 0 /\ drawn <= jobs'[r][c].attempt /\ runs'[r].status # "none"
      BY <1>4, <1>5, <1>6, <1>7
  <2>. QED
      BY <2>2, <2>3 DEF LeaseInv, Exists
<1>16. OneHolder'
  <2>1. ASSUME NEW v \in Workers \ {w}, NEW s \in Runs, NEW k \in Records,
               lease[v] # NoLease, Holds(v, s, k)'
        PROVE  Holds(v, s, k) /\ (s # r \/ k # c)
    <3>1. lease[v].run = s /\ lease[v].record = k /\ jobs'[s][k].token = lease[v].token
        BY <2>1, <1>6 DEF Holds
    <3>2. CASE s # r
        BY <3>1, <3>2, <1>5 DEF Holds
    <3>3. CASE s = r
      <4>1. lease[v].token <= jobs[r][k].attempt /\ lease[v].token > 0
          BY <2>1, <3>1, <3>3, <1>12
      <4>2. k # c
          BY <4>1, <3>1, <3>3, <1>4, <1>5, <1>14
      <4>3. jobs'[r][k].token = jobs[r][k].token
          BY <4>1, <4>2, <3>1, <3>3, <1>2, <1>5 DEF RowOf, NoToken
      <4>. QED
          BY <4>2, <4>3, <3>1, <3>3 DEF Holds
    <3>. QED
        BY <3>2, <3>3
  <2>2. \A s \in Runs, k \in Records : Holds(w, s, k)' => s = r /\ k = c
      BY <1>6 DEF Holds
  <2>3. \A s \in Runs, k \in Records :
           jobs'[s][k].token # NoToken => jobs'[s][k].status = "running"
      BY <1>10 DEF JobInv, Owned
  <2>4. ASSUME NEW v \in Workers \ {w}, NEW s \in Runs, NEW k \in Records, Holds(v, s, k)'
        PROVE  lease[v] # NoLease
      BY <2>4, <1>6 DEF Holds, NoLease, Runs
  <2>5. ASSUME NEW u \in Workers, NEW v \in Workers, NEW s \in Runs, NEW k \in Records,
               Holds(u, s, k)', Holds(v, s, k)'
        PROVE  u = v
    <3>1. CASE u # w /\ v # w
        BY <2>1, <2>4, <2>5, <3>1 DEF IInv, OneHolder
    <3>2. CASE u = w \/ v = w
        BY <2>1, <2>2, <2>4, <2>5, <3>2
    <3>. QED
        BY <3>1, <3>2
  <2>. QED
      BY <2>3, <2>5 DEF OneHolder
<1>17. ResultsMatchSuccess'
  <2>1. row[c].status # "succeeded"
      BY <1>1
  <2>2. ASSUME NEW s \in Runs, NEW k \in Records
        PROVE  jobs'[s][k].status = "succeeded" <=> jobs[s][k].status = "succeeded"
      BY <2>1, <1>2, <1>5 DEF RowOf
  <2>. QED
      BY <2>2, <1>3 DEF IInv, ResultsMatchSuccess
<1>18. CompletedIsSettled'
    BY <1>5, <1>7 DEF IInv, CompletedIsSettled
<1>19. DeletionIsFinal'
    BY <1>3, <1>5, <1>7, <1>8 DEF IInv, DeletionIsFinal
<1>. QED
    BY <1>9, <1>10, <1>11, <1>15, <1>16, <1>17, <1>18, <1>19 DEF IInv

(* A lease that is given up holds nothing. *)
LEMMA ReleaseKeeps ==
    ASSUME IInv, NEW w \in Workers, lease' = [lease EXCEPT ![w] = NoLease], UNCHANGED tables
    PROVE  IInv'
<1>1. TypeOK'
    BY RunsAssumption DEF IInv, TypeOK, Leases, NoLease, NoToken, tables
<1>2. \A v \in Workers : lease'[v] \in {lease[v], NoLease}
    BY DEF IInv, TypeOK
<1>3. LeaseInv'
    BY <1>2 DEF IInv, LeaseInv, Exists, tables
<1>4. OneHolder'
    BY <1>2 DEF IInv, OneHolder, Holds, NoLease, Runs, tables
<1>5. JobInv' /\ RunInv' /\ ResultsMatchSuccess' /\ CompletedIsSettled' /\ DeletionIsFinal'
    BY DEF IInv, JobInv, RunInv, ResultsMatchSuccess, CompletedIsSettled, DeletionIsFinal,
       Exists, tables
<1>. QED
    BY <1>1, <1>3, <1>4, <1>5 DEF IInv

(* A result is stored only under the checks of finish. *)
LEMMA FinishKeeps ==
    ASSUME IInv, NEW w \in Workers, Finish(w)
    PROVE  IInv'
<1>. DEFINE r == lease[w].run
<1>. DEFINE c == lease[w].record
<1>1. /\ r \in Runs /\ c \in Records /\ lease[w].token > 0
      /\ lease' = [lease EXCEPT ![w] = NoLease] /\ UNCHANGED datasets
    BY DEF Finish, IInv, LeaseInv
<1>2. CASE ~MayCommit(w) /\ UNCHANGED <<runs, jobs, results>>
    BY <1>1, <1>2, ReleaseKeeps DEF tables
<1>3. ASSUME MayCommit(w), NEW outcome \in {"succeeded", "failed", "interrupted"},
             outcome = "succeeded" => <<r, c>> \notin results,
             results' = results \cup (IF outcome = "succeeded" THEN {<<r, c>>} ELSE {}),
             jobs' = [jobs EXCEPT ![r][c] = Closed(@, outcome)],
             runs' = IF outcome = "interrupted" THEN WithStatus(r, "paused") ELSE runs
      PROVE  IInv'
  <2>1. Active(r) /\ jobs[r][c].token = lease[w].token
      BY <1>3 DEF MayCommit
  <2>2. jobs[r][c] \in Job /\ jobs[r][c].status = "running"
      BY <1>1, <2>1 DEF IInv, TypeOK, OneHolder, NoToken
  <2>3. /\ Closed(jobs[r][c], outcome) \in Job
        /\ Owned(Closed(jobs[r][c], outcome))
        /\ Closed(jobs[r][c], outcome).status = outcome
        /\ Closed(jobs[r][c], outcome).token = NoToken
        /\ Closed(jobs[r][c], outcome).attempt = jobs[r][c].attempt
      BY <2>2, RunsAssumption DEF Closed, Job, Owned, NoToken
  <2>4. /\ jobs'[r][c] = Closed(jobs[r][c], outcome)
        /\ \A s \in Runs, k \in Records : s # r \/ k # c => jobs'[s][k] = jobs[s][k]
      BY <1>1, <1>3 DEF IInv, TypeOK
  <2>5. jobs' \in [Runs -> [Records -> Job]]
      BY <1>1, <1>3, <2>3 DEF IInv, TypeOK
  <2>6. /\ runs' \in [Runs -> Run]
        /\ \A s \in Runs : /\ runs'[s].dataset = runs[s].dataset
                           /\ runs'[s].status = IF s = r /\ outcome = "interrupted"
                                                THEN "paused" ELSE runs[s].status
      BY <1>1, <1>3 DEF IInv, TypeOK, WithStatus, Run, RunStates
  <2>7. datasets[runs[r].dataset] \notin {"deleting", "deleted"}
      BY <1>1, <2>1 DEF Active, IInv, DeletionIsFinal
  <2>8. \A s \in Runs, k \in Records :
           <<s, k>> \in results' <=>
               <<s, k>> \in results \/ (s = r /\ k = c /\ outcome = "succeeded")
      BY <1>3
  <2>9. \A v \in Workers : lease'[v] \in {lease[v], NoLease}
      BY <1>1 DEF IInv, TypeOK
  <2>10. TypeOK'
    <3>1. lease' \in [Workers -> Leases]
        BY <1>1, RunsAssumption DEF IInv, TypeOK, Leases, NoLease, NoToken
    <3>2. results' \subseteq Runs \X Records
        BY <1>1, <1>3 DEF IInv, TypeOK
    <3>. QED
        BY <1>1, <2>5, <2>6, <3>1, <3>2 DEF IInv, TypeOK
  <2>11. JobInv'
    <3>1. ASSUME NEW s \in Runs, NEW k \in Records
          PROVE  Owned(jobs'[s][k])
        BY <2>3, <2>4 DEF IInv, JobInv
    <3>. QED
        BY <3>1 DEF JobInv
  <2>12. RunInv'
      BY <1>1, <2>1, <2>4, <2>6 DEF IInv, RunInv, Active
  <2>13. ASSUME NEW s \in Runs, NEW k \in Records
         PROVE  jobs'[s][k].attempt = jobs[s][k].attempt
      BY <2>3, <2>4
  <2>14. LeaseInv'
    <3>1. ASSUME NEW v \in Workers, lease'[v] # NoLease
          PROVE  /\ lease'[v] = lease[v] /\ lease[v] # NoLease
                 /\ lease[v].run \in Runs /\ lease[v].record \in Records
                 /\ lease[v].token > 0 /\ runs[lease[v].run].status # "none"
                 /\ runs[lease[v].run].status # "purged" =>
                       lease[v].token <= jobs[lease[v].run][lease[v].record].attempt
        BY <3>1, <2>9 DEF IInv, LeaseInv, Exists
    <3>2. ASSUME NEW v \in Workers, lease'[v] # NoLease
          PROVE  /\ lease'[v].run \in Runs /\ lease'[v].record \in Records
                 /\ lease'[v].token > 0 /\ runs'[lease'[v].run].status # "none"
                 /\ runs'[lease'[v].run].status # "purged" =>
                       lease'[v].token <= jobs'[lease'[v].run][lease'[v].record].attempt
      <4>1. /\ lease'[v] = lease[v]
            /\ lease[v].run \in Runs /\ lease[v].record \in Records
          BY <3>1, <3>2
      <4>2. jobs'[lease[v].run][lease[v].record].attempt =
            jobs[lease[v].run][lease[v].record].attempt
          BY <4>1, <2>13
      <4>3. /\ runs'[lease[v].run].status = "none" <=> runs[lease[v].run].status = "none"
            /\ runs'[lease[v].run].status = "purged" <=> runs[lease[v].run].status = "purged"
          BY <4>1, <2>1, <2>6 DEF Active
      <4>. QED
          BY <4>1, <4>2, <4>3, <3>1, <3>2
    <3>. QED
        BY <3>2 DEF LeaseInv, Exists
  <2>15. OneHolder'
    <3>1. ASSUME NEW v \in Workers, NEW s \in Runs, NEW k \in Records, lease'[v] # NoLease,
                 Holds(v, s, k)'
          PROVE  Holds(v, s, k) /\ lease[v] # NoLease
      <4>1. /\ lease'[v] = lease[v] /\ lease[v].token > 0 /\ lease[v] # NoLease
            /\ lease[v].run = s /\ lease[v].record = k /\ jobs'[s][k].token = lease[v].token
          BY <3>1, <2>9 DEF IInv, LeaseInv, Holds
      <4>2. jobs'[s][k] = jobs[s][k]
          BY <4>1, <2>3, <2>4 DEF NoToken
      <4>. QED
          BY <4>1, <4>2 DEF Holds
    <3>2. \A s \in Runs, k \in Records :
             jobs'[s][k].token # NoToken => jobs'[s][k].status = "running"
        BY <2>11 DEF JobInv, Owned
    <3>3. ASSUME NEW v \in Workers, NEW s \in Runs, NEW k \in Records, Holds(v, s, k)'
          PROVE  lease'[v] # NoLease
        BY <3>3 DEF Holds, NoLease, Runs
    <3>. QED
        BY <3>1, <3>2, <3>3 DEF IInv, OneHolder
  <2>16. ResultsMatchSuccess'
    <3>1. ASSUME NEW s \in Runs, NEW k \in Records
          PROVE  <<s, k>> \in results' <=> jobs'[s][k].status = "succeeded"
      <4>1. CASE s = r /\ k = c
        <5>1. <<r, c>> \notin results
            BY <1>1, <2>2 DEF IInv, ResultsMatchSuccess
        <5>. QED
            BY <4>1, <5>1, <1>1, <2>3, <2>4, <2>8
      <4>2. CASE s # r \/ k # c
          BY <4>2, <2>4, <2>8 DEF IInv, ResultsMatchSuccess
      <4>. QED
          BY <4>1, <4>2
    <3>. QED
        BY <3>1 DEF ResultsMatchSuccess
  <2>17. CompletedIsSettled'
    <3>1. ASSUME NEW s \in Runs, NEW k \in Records, runs'[s].status = "completed"
          PROVE  jobs'[s][k] = jobs[s][k] /\ runs[s].status = "completed"
        BY <3>1, <2>1, <2>4, <2>6 DEF Active
    <3>. QED
        BY <3>1 DEF IInv, CompletedIsSettled
  <2>18. DeletionIsFinal'
    <3>1. ASSUME NEW s \in Runs, runs'[s].status # "none",
                 datasets[runs[s].dataset] \in {"deleting", "deleted"}
          PROVE  /\ s # r /\ runs'[s].status = runs[s].status
                 /\ \A k \in Records : /\ jobs'[s][k] = jobs[s][k]
                                       /\ <<s, k>> \in results' => <<s, k>> \in results
        BY <3>1, <2>4, <2>6, <2>7, <2>8
    <3>. QED
        BY <3>1, <1>1, <2>6 DEF IInv, DeletionIsFinal
  <2>. QED
      BY <2>10, <2>11, <2>12, <2>14, <2>15, <2>16, <2>17, <2>18 DEF IInv
<1>. QED
    BY <1>2, <1>3 DEF Finish

LEMMA CrashKeeps ==
    ASSUME IInv, NEW w \in Workers, Crash(w)
    PROVE  IInv'
BY ReleaseKeeps DEF Crash

LEMMA ClaimKeeps ==
    ASSUME IInv, NEW w \in Workers, Claim(w)
    PROVE  IInv'
<1>1. PICK r \in Runs :
          /\ Active(r) /\ Ready(r) /\ lease[w] = NoLease
          /\ PauseInterrupted(w, r) \/ ClaimPending(w, r) \/ CompleteRun(w, r)
          /\ UNCHANGED <<datasets, results>>
    BY DEF Claim, Head
<1>. QED
    BY <1>1, PauseInterruptedKeeps, ClaimPendingKeeps, CompleteRunKeeps

LEMMA StepKeeps ==
    ASSUME IInv, [Next]_vars
    PROVE  IInv'
<1>1. CASE UNCHANGED vars
    BY <1>1, SMT DEF vars, tables, IInv, TypeOK, JobInv, RunInv, LeaseInv, OneHolder, Holds,
       ResultsMatchSuccess, CompletedIsSettled, DeletionIsFinal, Exists
<1>2. CASE Owner
    BY <1>2, CreateRunKeeps, CancelKeeps, ResumeKeeps, DisconnectKeeps, MarkDeleteKeeps
    DEF Owner
<1>3. CASE \E d \in Datasets : Purge(d)
    BY <1>3, PurgeKeeps
<1>4. CASE \E w \in Workers : Claim(w) \/ Finish(w) \/ Crash(w)
    BY <1>4, ClaimKeeps, FinishKeeps, CrashKeeps
<1>5. CASE \E r \in Runs, c \in Records : JobClock(r, c)
    BY <1>5, JobClockKeeps
<1>. QED
    BY <1>1, <1>2, <1>3, <1>4, <1>5 DEF Next

LEMMA InitKeeps == Init => IInv
<1>. SUFFICES ASSUME Init PROVE IInv
    OBVIOUS
<1>1. NoRun \in Run /\ NoJob \in Job /\ NoLease \in Leases /\ Owned(NoJob)
    BY RunsAssumption DEF NoRun, Run, RunStates, NoJob, NoToken, Job, NoLease, Leases, Owned
<1>2. NoRun.status = "none" /\ NoJob.status = "none" /\ NoJob.token = NoToken
    BY DEF NoRun, NoJob
<1>3. TypeOK
    BY <1>1 DEF Init, TypeOK
<1>. QED
    BY <1>1, <1>2, <1>3, SMT DEF Init, IInv, JobInv, RunInv, LeaseInv, OneHolder,
       ResultsMatchSuccess, CompletedIsSettled, DeletionIsFinal

(* The strengthened invariant of runs, jobs, results and leases holds. *)
THEOREM IInvariant == Spec => []IInv
<1>1. Init => IInv
    BY InitKeeps
<1>2. IInv /\ [Next]_vars => IInv'
    BY StepKeeps
<1>. QED
    BY <1>1, <1>2, PTL DEF Spec

(* However often runs are stopped, resumed and claimed, at most one loop   *)
(* holds a job's token, and only while the job is running.                 *)
THEOREM HolderIsUnique == Spec => []OneHolder
<1>1. IInv => OneHolder
    BY DEF IInv
<1>. QED
    BY <1>1, IInvariant, PTL

(* A record has a result in a run exactly when its job succeeded.          *)
THEOREM ResultsAreOfSuccesses == Spec => []ResultsMatchSuccess
<1>1. IInv => ResultsMatchSuccess
    BY DEF IInv
<1>. QED
    BY <1>1, IInvariant, PTL

(* No job of a completed run is open.                                      *)
THEOREM CompletionIsSettled == Spec => []CompletedIsSettled
<1>1. IInv => CompletedIsSettled
    BY DEF IInv
<1>. QED
    BY <1>1, IInvariant, PTL

(* A dataset that is being deleted has no active run, a deleted one no     *)
(* rows.                                                                   *)
THEOREM DeletionStays == Spec => []DeletionIsFinal
<1>1. IInv => DeletionIsFinal
    BY DEF IInv
<1>. QED
    BY <1>1, IInvariant, PTL

(* Runs, jobs, results and leases keep their types.                        *)
THEOREM RunsAreTyped == Spec => []TypeOK
<1>1. IInv => TypeOK
    BY DEF IInv
<1>. QED
    BY <1>1, IInvariant, PTL
-----------------------------------------------------------------------------
(***************************************************************************)
(* Jobs, leases and loops implement the contract of classification runs:   *)
(* every transaction of WorkbenchRuns is a step of RunContract on the      *)
(* stages of the runs, or is not visible through it.                       *)
(***************************************************************************)

Unseen == UNCHANGED <<Stages, results>>

(* What a status looks like while the dataset is ready. *)
StageOf(status) ==
    CASE status \in {"queued", "running"} -> "active"
      [] status = "completed" -> "completed"
      [] OTHER -> "stopped"

LEMMA StageSame ==
    ASSUME NEW s \in Runs, runs'[s] = runs[s],
           datasets'[runs[s].dataset] = datasets[runs[s].dataset]
    PROVE  Stages'[s] = Stages[s]
BY DEF Stages, Stage, Ready, Exists, Active

LEMMA ReadyStage ==
    ASSUME NEW r \in Runs, Ready(r)
    PROVE  Stages[r] = StageOf(runs[r].status)
BY DEF Stages, Stage, StageOf, Ready, Exists, Active

(* Active runs are of ready datasets. *)
LEMMA ActiveIsReady ==
    ASSUME IInv, NEW r \in Runs, Active(r)
    PROVE  Ready(r)
BY DEF IInv, TypeOK, RunInv, DeletionIsFinal, Active, Ready, Exists

LEMMA StatusMaps ==
    ASSUME IInv, NEW r \in Runs, Ready(r), NEW status \in RunStates \ {"none", "purged"},
           runs' = WithStatus(r, status), UNCHANGED datasets
    PROVE  Stages' = [Stages EXCEPT ![r] = StageOf(status)]
<1>1. /\ runs'[r].status = status /\ runs'[r].dataset = runs[r].dataset
      /\ \A s \in Runs \ {r} : runs'[s] = runs[s]
    BY DEF IInv, TypeOK, WithStatus, Run
<1>2. Stages'[r] = StageOf(status)
    BY <1>1 DEF Stages, Stage, StageOf, Ready, Exists, Active
<1>3. \A s \in Runs \ {r} : Stages'[s] = Stages[s]
    BY <1>1, StageSame
<1>. QED
    BY <1>2, <1>3 DEF Stages

LEMMA StopMaps ==
    ASSUME IInv, NEW r \in Runs, Active(r), NEW status \in {"paused", "cancelled"},
           runs' = WithStatus(r, status), UNCHANGED <<datasets, results>>
    PROVE  Contract!Stop({r})
<1>1. Ready(r)
    BY ActiveIsReady
<1>2. Stages' = [Stages EXCEPT ![r] = "stopped"]
    BY <1>1, StatusMaps DEF StageOf, RunStates
<1>3. Stages[r] = "active"
    BY <1>1, ReadyStage DEF StageOf, Active
<1>. QED
    BY <1>2, <1>3 DEF Contract!Stop, Stages

LEMMA CreateRunMaps ==
    ASSUME IInv, NEW r \in Runs, NEW d \in Datasets, NEW external \in BOOLEAN,
           NEW selected \in {Sample, Records}, NEW sample \in 0..MaxRuns,
           CreateRun(r, d, external, selected, sample)
    PROVE  \E reused \in SUBSET Records : Contract!Start(r, reused)
<1>. DEFINE reused == IF sample = 0 THEN {} ELSE ResultsOf(sample)
<1>1. reused \in SUBSET Records
    BY DEF ResultsOf
<1>2. /\ runs[r].status = "none" /\ datasets[d] = "ready" /\ datasets' = datasets
      /\ runs'[r] = [status |-> "queued", dataset |-> d, external |-> external]
      /\ \A s \in Runs \ {r} : runs'[s] = runs[s]
      /\ results' = results \cup ({r} \X reused)
    BY DEF CreateRun, NextRun, IInv, TypeOK
<1>3. Stages[r] = "none"
    BY <1>2 DEF Stages, Stage, Ready, Exists
<1>4. Stages' = [Stages EXCEPT ![r] = "active"]
  <2>1. Stages'[r] = "active"
      BY <1>2 DEF Stages, Stage, Ready, Exists, Active
  <2>2. \A s \in Runs \ {r} : Stages'[s] = Stages[s]
      BY <1>2, StageSame
  <2>. QED
      BY <2>1, <2>2 DEF Stages
<1>5. reused # {} => \E s \in Runs : /\ Stages[s] = "completed"
                                     /\ reused = {c \in Records : <<s, c>> \in results}
  <2>1. SUFFICES ASSUME sample # 0
                 PROVE  \E s \in Runs : /\ Stages[s] = "completed"
                                        /\ reused = {c \in Records : <<s, c>> \in results}
      OBVIOUS
  <2>2. sample \in Runs /\ runs[sample].status = "completed" /\ runs[sample].dataset = d
      BY <2>1, RunsAssumption DEF CreateRun, Runs
  <2>3. Ready(sample)
      BY <1>2, <2>2 DEF Ready, Exists
  <2>4. Stages[sample] = "completed"
      BY <2>2, <2>3, ReadyStage DEF StageOf
  <2>. QED
      BY <2>1, <2>2, <2>4 DEF ResultsOf
<1>. QED
    BY <1>1, <1>2, <1>3, <1>4, <1>5 DEF Contract!Start

LEMMA CancelMaps ==
    ASSUME IInv, NEW r \in Runs, Cancel(r)
    PROVE  Unseen \/ Contract!Stop({r})
<1>1. CASE Active(r)
    BY <1>1, StopMaps DEF Cancel
<1>2. CASE ~Active(r)
  <2>1. Stages' = [Stages EXCEPT ![r] = "stopped"]
      BY StatusMaps DEF Cancel, StageOf, RunStates
  <2>2. Stages[r] = "stopped"
      BY <1>2, ReadyStage DEF Cancel, Active, StageOf
  <2>. QED
      BY <2>1, <2>2 DEF Unseen, Stages, Cancel
<1>. QED
    BY <1>1, <1>2

LEMMA ResumeMaps ==
    ASSUME IInv, NEW r \in Runs, Resume(r)
    PROVE  Contract!Resume(r)
<1>1. Stages[r] = "stopped"
    BY ReadyStage DEF Resume, StageOf
<1>2. Stages' = [Stages EXCEPT ![r] = "active"]
    BY StatusMaps DEF Resume, StageOf, RunStates
<1>. QED
    BY <1>1, <1>2 DEF Contract!Resume, Resume

LEMMA DisconnectMaps ==
    ASSUME IInv, Disconnect
    PROVE  \E S \in SUBSET Runs : Contract!Stop(S)
<1>. DEFINE S == {r \in Runs : Active(r) /\ runs[r].external}
<1>1. ASSUME NEW r \in S
      PROVE  Stages[r] = "active" /\ Stages'[r] = "stopped"
  <2>1. Ready(r) /\ Active(r) /\ r \in Runs
      BY ActiveIsReady
  <2>2. runs'[r].status = "paused" /\ runs'[r].dataset = runs[r].dataset /\ datasets' = datasets
      BY <2>1 DEF Disconnect, IInv, TypeOK, Run
  <2>. QED
      BY <2>1, <2>2, ReadyStage DEF Stages, Stage, StageOf, Ready, Exists, Active
<1>2. ASSUME NEW r \in Runs \ S
      PROVE  Stages'[r] = Stages[r]
    BY StageSame DEF Disconnect
<1>. HIDE DEF S
<1>3. S \in SUBSET Runs
    BY DEF S
<1>4. Contract!Stop(S)
    BY <1>1, <1>2, <1>3 DEF Contract!Stop, Stages, Disconnect
<1>. QED
    BY <1>3, <1>4

LEMMA MarkDeleteMaps ==
    ASSUME IInv, NEW d \in Datasets, MarkDelete(d)
    PROVE  \E S \in SUBSET Runs : Contract!Withdraw(S)
<1>. DEFINE S == {r \in Runs : Exists(r) /\ runs[r].dataset = d}
<1>1. ASSUME NEW r \in S
      PROVE  Stages[r] \in {"active", "stopped", "completed"} /\ Stages'[r] = "withdrawn"
  <2>1. r \in Runs /\ Ready(r)
      BY DEF Ready, MarkDelete
  <2>2. /\ runs'[r].status = "cancelled" /\ runs'[r].dataset = d
        /\ datasets'[d] = "deleting"
      BY <2>1 DEF MarkDelete, IInv, TypeOK, Run
  <2>. QED
      BY <2>1, <2>2, ReadyStage DEF Stages, Stage, StageOf, Ready, Exists
<1>2. ASSUME NEW r \in Runs \ S
      PROVE  Stages'[r] = Stages[r]
  <2>1. runs'[r] = runs[r]
      BY DEF MarkDelete
  <2>2. CASE Exists(r)
    <3>1. runs[r].dataset # d
        BY <2>2
    <3>2. datasets'[runs[r].dataset] = datasets[runs[r].dataset]
        BY <2>2, <3>1 DEF MarkDelete, IInv, TypeOK, RunInv, Exists
    <3>. QED
        BY <2>1, <3>2, StageSame
  <2>3. CASE ~Exists(r)
      BY <2>1, <2>3 DEF Stages, Stage, Ready, Exists
  <2>. QED
      BY <2>2, <2>3
<1>. HIDE DEF S
<1>3. S \in SUBSET Runs
    BY DEF S
<1>4. Contract!Withdraw(S)
    BY <1>1, <1>2, <1>3 DEF Contract!Withdraw, Stages, MarkDelete
<1>. QED
    BY <1>3, <1>4

LEMMA PurgeMaps ==
    ASSUME IInv, NEW d \in Datasets, Purge(d)
    PROVE  \E S \in SUBSET Runs : Contract!Purge(S)
<1>. DEFINE S == {r \in Runs : Exists(r) /\ runs[r].dataset = d}
<1>1. ASSUME NEW r \in S
      PROVE  Stages[r] = "withdrawn" /\ Stages'[r] = "purged"
  <2>1. runs'[r].status = "purged"
      BY DEF Purge, IInv, TypeOK, Run
  <2>. QED
      BY <2>1 DEF Purge, Stages, Stage, Ready, Exists
<1>2. ASSUME NEW r \in Runs \ S
      PROVE  Stages'[r] = Stages[r]
  <2>1. runs'[r] = runs[r]
      BY DEF Purge
  <2>2. CASE Exists(r)
    <3>1. runs[r].dataset # d
        BY <2>2
    <3>2. datasets'[runs[r].dataset] = datasets[runs[r].dataset]
        BY <2>2, <3>1 DEF Purge, IInv, TypeOK, RunInv, Exists
    <3>. QED
        BY <2>1, <3>2, StageSame
  <2>3. CASE ~Exists(r)
      BY <2>1, <2>3 DEF Stages, Stage, Ready, Exists
  <2>. QED
      BY <2>2, <2>3
<1>3. results' = {p \in results : p[1] \notin S}
    BY DEF Purge
<1>. HIDE DEF S
<1>4. S \in SUBSET Runs
    BY DEF S
<1>5. Contract!Purge(S)
    BY <1>1, <1>2, <1>3, <1>4 DEF Contract!Purge, Stages
<1>. QED
    BY <1>4, <1>5

LEMMA ClaimMaps ==
    ASSUME IInv, NEW w \in Workers, Claim(w)
    PROVE  Unseen \/ \E r \in Runs : Contract!Stop({r}) \/ Contract!Complete(r)
<1>1. PICK r \in Runs :
          /\ Active(r) /\ Ready(r)
          /\ PauseInterrupted(w, r) \/ ClaimPending(w, r) \/ CompleteRun(w, r)
          /\ UNCHANGED <<datasets, results>>
    BY DEF Claim, Head
<1>2. Stages[r] = "active"
    BY <1>1, ReadyStage DEF StageOf, Active
<1>3. CASE PauseInterrupted(w, r)
    BY <1>1, <1>3, StopMaps DEF PauseInterrupted
<1>4. CASE ClaimPending(w, r)
  <2>1. Stages' = [Stages EXCEPT ![r] = "active"]
      BY <1>1, <1>4, StatusMaps DEF ClaimPending, StageOf, RunStates
  <2>. QED
      BY <1>1, <1>2, <2>1 DEF Unseen, Stages
<1>5. CASE CompleteRun(w, r)
  <2>1. CASE runs' = runs
      BY <1>1, <2>1 DEF Unseen, Stages, Stage, Ready, Exists, Active
  <2>2. CASE runs' = WithStatus(r, "completed")
    <3>1. Stages' = [Stages EXCEPT ![r] = "completed"]
        BY <1>1, <2>2, StatusMaps DEF StageOf, RunStates
    <3>2. Contract!Complete(r)
        BY <1>1, <1>2, <3>1 DEF Contract!Complete
    <3>. QED
        BY <3>2
  <2>. QED
      BY <1>5, <2>1, <2>2 DEF CompleteRun
<1>. QED
    BY <1>1, <1>3, <1>4, <1>5

LEMMA FinishMaps ==
    ASSUME IInv, NEW w \in Workers, Finish(w)
    PROVE  Unseen \/ \E r \in Runs : \/ Contract!Stop({r})
                                     \/ \E c \in Records : Contract!Store(r, c)
<1>. DEFINE r == lease[w].run
<1>. DEFINE c == lease[w].record
<1>1. r \in Runs /\ c \in Records /\ UNCHANGED datasets
    BY DEF Finish, IInv, LeaseInv
<1>2. CASE UNCHANGED <<runs, jobs, results>>
    BY <1>1, <1>2 DEF Unseen, Stages, Stage, Ready, Exists, Active
<1>3. ASSUME MayCommit(w), NEW outcome \in {"succeeded", "failed", "interrupted"},
             outcome = "succeeded" => <<r, c>> \notin results,
             results' = results \cup (IF outcome = "succeeded" THEN {<<r, c>>} ELSE {}),
             runs' = IF outcome = "interrupted" THEN WithStatus(r, "paused") ELSE runs
      PROVE  Unseen \/ Contract!Stop({r}) \/ Contract!Store(r, c)
  <2>1. Active(r)
      BY <1>3 DEF MayCommit
  <2>2. CASE outcome = "interrupted"
      BY <1>1, <1>3, <2>1, <2>2, StopMaps
  <2>3. CASE outcome = "failed"
      BY <1>1, <1>3, <2>3 DEF Unseen, Stages, Stage, Ready, Exists, Active
  <2>4. CASE outcome = "succeeded"
    <3>1. Stages[r] = "active"
        BY <1>1, <2>1, ActiveIsReady, ReadyStage DEF StageOf, Active
    <3>2. Stages' = Stages
        BY <1>1, <1>3, <2>4 DEF Stages, Stage, Ready, Exists, Active
    <3>. QED
        BY <1>3, <2>4, <3>1, <3>2 DEF Contract!Store
  <2>. QED
      BY <2>2, <2>3, <2>4
<1>. QED
    BY <1>1, <1>2, <1>3 DEF Finish

LEMMA StepMaps ==
    ASSUME IInv, [Next]_vars
    PROVE  [Contract!Next]_(Contract!promise)
<1>1. SUFFICES Unseen \/ Contract!Next
    BY DEF Unseen, Contract!promise
<1>2. CASE UNCHANGED vars
    BY <1>2 DEF vars, tables, Unseen, Stages, Stage, Ready, Exists, Active
<1>3. ASSUME NEW r \in Runs, NEW d \in Datasets, NEW external \in BOOLEAN,
             NEW selected \in {Sample, Records}, NEW sample \in 0..MaxRuns,
             CreateRun(r, d, external, selected, sample)
      PROVE  Unseen \/ Contract!Next
    BY <1>3, CreateRunMaps DEF Contract!Next
<1>4. ASSUME NEW r \in Runs, Cancel(r) \/ Resume(r)
      PROVE  Unseen \/ Contract!Next
    BY <1>4, CancelMaps, ResumeMaps DEF Contract!Next
<1>5. CASE Disconnect
    BY <1>5, DisconnectMaps DEF Contract!Next
<1>6. ASSUME NEW d \in Datasets, MarkDelete(d)
      PROVE  Unseen \/ Contract!Next
    BY <1>6, MarkDeleteMaps DEF Contract!Next
<1>7. ASSUME NEW d \in Datasets, Purge(d)
      PROVE  Unseen \/ Contract!Next
    BY <1>7, PurgeMaps DEF Contract!Next
<1>8. ASSUME NEW w \in Workers, Claim(w)
      PROVE  Unseen \/ Contract!Next
    BY <1>8, ClaimMaps DEF Contract!Next
<1>9. ASSUME NEW w \in Workers, Finish(w)
      PROVE  Unseen \/ Contract!Next
    BY <1>9, FinishMaps DEF Contract!Next
<1>10. ASSUME NEW w \in Workers, Crash(w)
       PROVE  Unseen
    BY <1>10 DEF Crash, tables, Unseen, Stages, Stage, Ready, Exists, Active
<1>11. ASSUME NEW r \in Runs, NEW c \in Records, JobClock(r, c)
       PROVE  Unseen
    BY <1>11 DEF JobClock, Unseen, Stages, Stage, Ready, Exists, Active
<1>. QED
    BY <1>2, <1>3, <1>4, <1>5, <1>6, <1>7, <1>8, <1>9, <1>10, <1>11 DEF Next, Owner

LEMMA InitMaps == Init => Contract!Init
BY DEF Init, Contract!Init, Stages, Stage, Ready, Exists, NoRun

(* Leases, retries and crashes are invisible through the contract of runs: *)
(* results are added only to active runs and never change, a completed run *)
(* is final and a withdrawn one does not come back.                        *)
THEOREM RunsImplementContract == Spec => ImplementsRunContract
<1>1. Init => Contract!Init
    BY InitMaps
<1>2. IInv /\ [Next]_vars => [Contract!Next]_(Contract!promise)
    BY StepMaps
<1>. QED
    BY <1>1, <1>2, IInvariant, PTL DEF Spec, ImplementsRunContract, Contract!Spec
=============================================================================
