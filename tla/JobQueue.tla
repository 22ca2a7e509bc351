------------------------------ MODULE JobQueue ------------------------------
(***************************************************************************)
(* The jobs table: workers that claim a queued job with a conditional      *)
(* update, run it outside any transaction and write the outcome, and       *)
(* people who retry or cancel what they last saw.                          *)
(*                                                                         *)
(* Which due job a worker selects is left open, and so is what its handler *)
(* does.  max_attempts is stored and never read, so it has no place here.  *)
(***************************************************************************)
EXTENDS Naturals

CONSTANTS
    Jobs,
    Workers,    \* callers of runNextJob
    People,     \* callers of the retry and cancel routes
    NoJob,
    MaxClaims   \* bound on how often one job is claimed

ASSUME NoJobAssumption == NoJob \notin Jobs
ASSUME MaxClaimsAssumption == MaxClaims \in Nat

VARIABLES
    status,     \* jobs.status; "none" before the job is queued
    started,    \* whether started_at is set
    finished,   \* whether finished_at is set
    attempts,
    at, doing,  \* how far a worker is, and with which job
    asked,      \* what a person has been shown to be possible
    stopped     \* history: jobs cancelled while a worker was running them

rows == <<status, started, finished, attempts>>
vars == <<status, started, finished, attempts, at, doing, asked, stopped>>

Terminal == {"succeeded", "failed", "cancelled"}
JobStatuses == Terminal \cup {"none", "queued", "running"}
NothingAsked == [op |-> "none", j |-> NoJob]

Runs(w, j) == at[w] = "running" /\ doing[w] = j

\* Mutation: the claim trusts the select before it.
ClaimSelected(j) == TRUE
StillQueued(j) == status[j] = "queued"

Retryable(j) == status[j] \in {"failed", "cancelled"}

\* Mutation: the cancelling update names the row and nothing else.
AnyRow(j) == TRUE
Cancellable(j) == status[j] \in {"queued", "running"}

\* Mutation: a retry leaves started_at as the last run set it.
StartKept(j) == started[j]
StartAfterRetry(j) == FALSE

-----------------------------------------------------------------------------
Init ==
    /\ status = [j \in Jobs |-> "none"]
    /\ started = [j \in Jobs |-> FALSE]
    /\ finished = [j \in Jobs |-> FALSE]
    /\ attempts = [j \in Jobs |-> 0]
    /\ at = [w \in Workers |-> "idle"]
    /\ doing = [w \in Workers |-> NoJob]
    /\ asked = [p \in People |-> NothingAsked]
    /\ stopped = {}

Enqueue(j) ==
    /\ status[j] = "none"
    /\ status' = [status EXCEPT ![j] = "queued"]
    /\ UNCHANGED <<started, finished, attempts, at, doing, asked, stopped>>

-----------------------------------------------------------------------------
(* runNextJob: claimNextJob selects, then updates the row if it is still   *)
(* queued; finishJobRow writes the outcome whatever the row says by then.  *)

Select(w, j) ==
    /\ at[w] = "idle"
    /\ status[j] = "queued"
    /\ at' = [at EXCEPT ![w] = "selected"]
    /\ doing' = [doing EXCEPT ![w] = j]
    /\ UNCHANGED <<rows, asked, stopped>>

Claim(w) ==
    LET j == doing[w] IN
    /\ at[w] = "selected"
    /\ StillQueued(j)
    /\ attempts[j] < MaxClaims
    /\ status' = [status EXCEPT ![j] = "running"]
    /\ started' = [started EXCEPT ![j] = TRUE]
    /\ attempts' = [attempts EXCEPT ![j] = @ + 1]
    /\ at' = [at EXCEPT ![w] = "running"]
    /\ UNCHANGED <<finished, doing, asked, stopped>>

LeaveWorker(w) ==
    /\ at' = [at EXCEPT ![w] = "idle"]
    /\ doing' = [doing EXCEPT ![w] = NoJob]

LoseClaim(w) ==
    /\ at[w] = "selected"
    /\ ~StillQueued(doing[w])
    /\ LeaveWorker(w)
    /\ UNCHANGED <<rows, asked, stopped>>

FinishJob(w) ==
    LET j == doing[w] IN
    /\ at[w] = "running"
    /\ \E outcome \in {"succeeded", "failed"} : status' = [status EXCEPT ![j] = outcome]
    /\ finished' = [finished EXCEPT ![j] = TRUE]
    /\ LeaveWorker(w)
    /\ UNCHANGED <<started, attempts, asked, stopped>>

\* The process dies: the row keeps saying what it said.
Crash(w) ==
    /\ at[w] \in {"selected", "running"}
    /\ LeaveWorker(w)
    /\ UNCHANGED <<rows, asked, stopped>>

-----------------------------------------------------------------------------
(* retryJob and cancelJob check the row, then update it in a statement of  *)
(* its own with a narrower condition.                                      *)

Ask(p, op, j) ==
    /\ asked[p] = NothingAsked
    /\ asked' = [asked EXCEPT ![p] = [op |-> op, j |-> j]]
    /\ UNCHANGED <<rows, at, doing, stopped>>

AskRetry(p, j) == Retryable(j) /\ Ask(p, "retry", j)
AskCancel(p, j) == status[j] \notin {"none", "succeeded"} /\ Ask(p, "cancel", j)

Answer(p) == asked' = [asked EXCEPT ![p] = NothingAsked]

Retry(p) ==
    LET j == asked[p].j IN
    /\ asked[p].op = "retry"
    /\ Retryable(j)
    /\ status' = [status EXCEPT ![j] = "queued"]
    /\ started' = [started EXCEPT ![j] = StartAfterRetry(j)]
    /\ finished' = [finished EXCEPT ![j] = FALSE]
    /\ Answer(p)
    /\ UNCHANGED <<attempts, at, doing, stopped>>

Cancel(p) ==
    LET j == asked[p].j IN
    /\ asked[p].op = "cancel"
    /\ Cancellable(j)
    /\ status' = [status EXCEPT ![j] = "cancelled"]
    /\ finished' = [finished EXCEPT ![j] = TRUE]
    /\ stopped' = stopped \cup {x \in {j} : \E w \in Workers : Runs(w, x)}
    /\ Answer(p)
    /\ UNCHANGED <<started, attempts, at, doing>>

\* The update matches nothing, and the row is returned as it is.
MatchNothing(p) ==
    LET j == asked[p].j IN
    /\ \/ asked[p].op = "retry" /\ ~Retryable(j)
       \/ asked[p].op = "cancel" /\ ~Cancellable(j)
    /\ Answer(p)
    /\ UNCHANGED <<rows, at, doing, stopped>>

-----------------------------------------------------------------------------
WorkerStep(w) ==
    \/ \E j \in Jobs : Select(w, j)
    \/ Claim(w)
    \/ LoseClaim(w)
    \/ FinishJob(w)
    \/ Crash(w)

PersonStep(p) ==
    \/ \E j \in Jobs : AskRetry(p, j) \/ AskCancel(p, j)
    \/ Retry(p)
    \/ Cancel(p)
    \/ MatchNothing(p)

Next ==
    \/ \E j \in Jobs : Enqueue(j)
    \/ \E w \in Workers : WorkerStep(w)
    \/ \E p \in People : PersonStep(p)

Spec == Init /\ [][Next]_vars

-----------------------------------------------------------------------------
(* Properties *)

\* Types, and jobs_terminal_check: no statement the code issues, in whatever order people and
\* workers issue them, leaves a row that the table's own constraint refuses.
JobTypeOK ==
    /\ status \in [Jobs -> JobStatuses]
    /\ attempts \in [Jobs -> 0..MaxClaims]
    /\ at \in [Workers -> {"idle", "selected", "running"}]
    /\ doing \in [Workers -> Jobs \cup {NoJob}]
    /\ stopped \subseteq Jobs
    /\ \A j \in Jobs :
        /\ finished[j] <=> status[j] \in Terminal
        /\ status[j] = "queued" => ~started[j]
        /\ status[j] = "running" => started[j]

\* "Two workers racing for the same row cannot both get it" (job-service.ts): two workers do the
\* same work only if somebody had cancelled the job under the first of them.
TwoWorkersNeedACancel ==
    \A v, w \in Workers, j \in Jobs : v # w /\ Runs(v, j) /\ Runs(w, j) => j \in stopped

\* "Cancelling it would misreport work that actually happened" (job-service.ts): a job that
\* succeeded keeps saying so, whoever cancels or retries what they saw earlier, unless a second
\* worker was still at it.
SuccessStays ==
    [][\A j \in Jobs : status[j] = "succeeded" /\ status'[j] # "succeeded" =>
            j \in stopped /\ \E w \in Workers : Runs(w, j)]_vars
=============================================================================
