--------------------------- MODULE JobQueue_proof ---------------------------
(***************************************************************************)
(* Theorems about the queue, for any number of jobs, workers and people.   *)
(***************************************************************************)
EXTENDS JobQueue, TLAPS

\* Who is at a job has one, and who asked for something named a job.
References ==
    /\ started \in [Jobs -> BOOLEAN] /\ finished \in [Jobs -> BOOLEAN]
    /\ \A w \in Workers : at[w] # "idle" => doing[w] \in Jobs
    /\ asked \in [People -> [op : {"none", "retry", "cancel"}, j : Jobs \cup {NoJob}]]
    /\ \A p \in People : asked[p].op # "none" => asked[p].j \in Jobs

\* A row that was never queued has no times.
NothingBeforeTheQueue == \A j \in Jobs : status[j] = "none" => ~started[j] /\ ~finished[j]

\* A worker's job says it is running, unless somebody cancelled it under him.
RunningUnlessStopped ==
    \A w \in Workers : at[w] = "running" /\ doing[w] \notin stopped => status[doing[w]] = "running"

QueueInv ==
    /\ JobTypeOK
    /\ References
    /\ NothingBeforeTheQueue
    /\ RunningUnlessStopped
    /\ TwoWorkersNeedACancel

-----------------------------------------------------------------------------
LEMMA QueueInit == Init => QueueInv
BY MaxClaimsAssumption
   DEF Init, QueueInv, JobTypeOK, JobStatuses, Terminal, References, NothingAsked,
       NothingBeforeTheQueue, RunningUnlessStopped, TwoWorkersNeedACancel, Runs

\* A worker that leaves his job leaves the promises about the others standing.
LEMMA LeavingWorker ==
    ASSUME QueueInv, NEW w \in Workers, LeaveWorker(w), stopped' = stopped
    PROVE  /\ at' \in [Workers -> {"idle", "selected", "running"}]
           /\ doing' \in [Workers -> Jobs \cup {NoJob}]
           /\ \A v \in Workers : at'[v] # "idle" => v # w /\ at'[v] = at[v] /\ doing'[v] = doing[v]
           /\ TwoWorkersNeedACancel'
BY DEF QueueInv, JobTypeOK, LeaveWorker, TwoWorkersNeedACancel, Runs

LEMMA WorkerPreserves ==
    ASSUME QueueInv, NEW w \in Workers, WorkerStep(w)
    PROVE  QueueInv'
<1> USE DEF QueueInv, JobTypeOK, JobStatuses, Terminal, References, NothingBeforeTheQueue,
            RunningUnlessStopped, rows
<1>1. CASE \E j \in Jobs : Select(w, j) BY <1>1 DEF Select, TwoWorkersNeedACancel, Runs
<1>2. CASE Claim(w)
  <2>1. attempts' \in [Jobs -> 0..MaxClaims] BY <1>2, MaxClaimsAssumption DEF Claim
  <2>2. doing[w] \in Jobs /\ status[doing[w]] = "queued" BY <1>2 DEF Claim, StillQueued
  <2>3. TwoWorkersNeedACancel' BY <1>2, <2>2 DEF Claim, TwoWorkersNeedACancel, Runs
  <2> QED BY <1>2, <2>1, <2>2, <2>3 DEF Claim
<1>3. CASE LoseClaim(w) BY <1>3, LeavingWorker DEF LoseClaim
<1>4. CASE FinishJob(w)
  <2>1. doing[w] \in Jobs BY <1>4 DEF FinishJob
  <2>2. \A v \in Workers \ {w} : at[v] = "running" /\ doing[v] = doing[w] => doing[v] \in stopped
    BY <1>4, <2>1 DEF FinishJob, TwoWorkersNeedACancel, Runs
  <2> QED BY <1>4, <2>1, <2>2, LeavingWorker DEF FinishJob
<1>5. CASE Crash(w) BY <1>5, LeavingWorker DEF Crash
<1> QED BY <1>1, <1>2, <1>3, <1>4, <1>5 DEF WorkerStep

LEMMA PersonPreserves ==
    ASSUME QueueInv, NEW p \in People, PersonStep(p)
    PROVE  QueueInv'
<1> USE DEF QueueInv, JobTypeOK, JobStatuses, Terminal, References, NothingBeforeTheQueue,
            RunningUnlessStopped, rows, Answer, NothingAsked
<1>1. CASE \E j \in Jobs : AskRetry(p, j) \/ AskCancel(p, j)
  <2>1. PICK j \in Jobs, op \in {"retry", "cancel"} :
          asked' = [asked EXCEPT ![p] = [op |-> op, j |-> j]]
    BY <1>1 DEF AskRetry, AskCancel, Ask
  <2>2. UNCHANGED <<status, started, finished, attempts, at, doing, stopped>>
    BY <1>1 DEF AskRetry, AskCancel, Ask
  <2>3. References' BY <2>1, <2>2
  <2> QED BY <2>2, <2>3 DEF TwoWorkersNeedACancel, Runs
<1>2. CASE Retry(p)
  <2>1. asked[p].j \in Jobs /\ status[asked[p].j] \in {"failed", "cancelled"}
    BY <1>2 DEF Retry, Retryable
  <2> QED BY <1>2, <2>1 DEF Retry, StartAfterRetry, TwoWorkersNeedACancel, Runs
<1>3. CASE Cancel(p)
  <2>1. asked[p].j \in Jobs /\ status[asked[p].j] \in {"queued", "running"}
    BY <1>3 DEF Cancel, Cancellable
  <2>2. \A w \in Workers : at[w] = "running" /\ doing[w] = asked[p].j => doing[w] \in stopped'
    BY <1>3, <2>1 DEF Cancel, Runs
  <2>3. stopped \subseteq stopped' /\ stopped' \subseteq Jobs BY <1>3, <2>1 DEF Cancel
  <2>4. TwoWorkersNeedACancel' BY <1>3, <2>3 DEF Cancel, TwoWorkersNeedACancel, Runs
  <2> QED BY <1>3, <2>1, <2>2, <2>3, <2>4 DEF Cancel
<1>4. CASE MatchNothing(p) BY <1>4 DEF MatchNothing, TwoWorkersNeedACancel, Runs
<1> QED BY <1>1, <1>2, <1>3, <1>4 DEF PersonStep

LEMMA QueueStep == QueueInv /\ [Next]_vars => QueueInv'
<1> SUFFICES ASSUME QueueInv, [Next]_vars PROVE QueueInv' OBVIOUS
<1>1. CASE UNCHANGED vars
  BY <1>1 DEF vars, QueueInv, JobTypeOK, References, NothingBeforeTheQueue,
              RunningUnlessStopped, TwoWorkersNeedACancel, Runs
<1>2. CASE \E j \in Jobs : Enqueue(j)
  BY <1>2 DEF Enqueue, QueueInv, JobTypeOK, JobStatuses, Terminal, References,
              NothingBeforeTheQueue, RunningUnlessStopped, TwoWorkersNeedACancel, Runs
<1> QED BY <1>1, <1>2, WorkerPreserves, PersonPreserves DEF Next

LEMMA QueueAlways == Spec => []QueueInv
BY QueueInit, QueueStep, PTL DEF Spec

-----------------------------------------------------------------------------
\* No statement leaves a row that jobs_terminal_check refuses, and the types hold.
THEOREM QueueTypeCorrect == Spec => []JobTypeOK
BY QueueAlways, PTL DEF QueueInv

\* Two workers share a job only if it was cancelled under one (claimNextJob).
THEOREM SharingNeedsACancel == Spec => []TwoWorkersNeedACancel
BY QueueAlways, PTL DEF QueueInv

\* A success is overwritten only by a second worker still at a job that was
\* cancelled (finishJobRow writes by id).
THEOREM SuccessIsKept == Spec => SuccessStays
<1> DEFINE Kept == \A j \in Jobs : status[j] = "succeeded" /\ status'[j] # "succeeded" =>
                        j \in stopped /\ \E w \in Workers : Runs(w, j)
<1>1. QueueInv /\ [Next]_vars => [Kept]_vars
  <2> SUFFICES ASSUME QueueInv, Next, NEW j \in Jobs,
                      status[j] = "succeeded", status'[j] # "succeeded"
               PROVE  j \in stopped /\ \E w \in Workers : Runs(w, j)
    OBVIOUS
  <2> USE DEF QueueInv, JobTypeOK, References
  <2>1. PICK w \in Workers : at[w] = "running" /\ doing[w] = j
    <3>1. CASE \E i \in Jobs : Enqueue(i) BY <3>1 DEF Enqueue
    <3>2. CASE \E w \in Workers : WorkerStep(w)
      BY <3>2 DEF WorkerStep, Select, Claim, StillQueued, LoseClaim, FinishJob, Crash, rows
    <3>3. CASE \E p \in People : PersonStep(p)
      BY <3>3 DEF PersonStep, AskRetry, AskCancel, Ask, Retry, Retryable, Cancel, Cancellable,
                  MatchNothing, rows
    <3> QED BY <3>1, <3>2, <3>3 DEF Next
  <2> QED BY <2>1 DEF RunningUnlessStopped, Runs
<1> QED BY <1>1, QueueAlways, PTL DEF Spec, SuccessStays
=============================================================================
