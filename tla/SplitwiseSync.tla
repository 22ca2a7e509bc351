---------------------------- MODULE SplitwiseSync ----------------------------
(***************************************************************************)
(* Pushing an expense to Splitwise: the first sync, the repair of a row    *)
(* that is no longer in step, what other people do to the entry, and the   *)
(* comparison that marks a row drifted -- beside everything ExpenseLedger  *)
(* does to the same expense.                                               *)
(*                                                                         *)
(* A push reads the ledger outside any transaction, calls Splitwise, and   *)
(* only then opens the transaction that records the answer.  The call may  *)
(* be refused, or accepted with the answer lost (a timeout, a body without *)
(* an id, a crash before the commit).                                      *)
(***************************************************************************)
EXTENDS ExpenseLedger

VARIABLES
    remote,     \* the Splitwise entry a request created
    push,       \* what a push will ask of Splitwise
    crossed     \* history: the pushes of an expense begun while another was in flight

syncVars == <<state, kind, refunded, live, adj, row, lock, pc, job, rd, remote, push, crossed>>

Entry == [st: {"none", "standing", "deleted"}, e: Expenses, cost: Int, foreign: BOOLEAN]
Repairs == {"none", "create", "corrected", "withdrawn", "recreated"}
Push == [repair: Repairs, entry: Requests \cup {NoRequest}]

NoEntry == [st |-> "none", e |-> AnExpense, cost |-> 0, foreign |-> FALSE]
NoPush == [repair |-> "none", entry |-> NoRequest]

Pushing == {"sync", "resync"}
InFlightPush(r) == pc[r] \in {"reading", "open", "called"} /\ job[r].op \in Pushing
BeginsPush(op, e) ==
    crossed' = [crossed EXCEPT ![e] = IF \E q \in Requests : InFlightPush(q) /\ job[q].e = e
                                     THEN @ \cup {op} ELSE @]

Resyncable == {"stale", "drifted", "withdrawn", "externally_deleted"}

\* Mutation: a row that only drifted is taken to have nothing standing.
DriftedIsGone(st) == st \in {"withdrawn", "externally_deleted", "drifted"}
NothingStanding(st) == st \in {"withdrawn", "externally_deleted"}

\* Which repair a row needs, from its status and the net that was read.
RepairOf(st, net) ==
    CASE NothingStanding(st)             -> "recreated"
      [] ~NothingStanding(st) /\ net = 0 -> "withdrawn"
      [] OTHER                           -> "corrected"

\* Mutations: a row that says "synced" of a withdrawn entry, and one that names the repair.
AlwaysSynced(repair) == "synced"
NamedForRepair(repair) == repair
StatusAfter(repair) == IF repair = "withdrawn" THEN "withdrawn" ELSE "synced"

-----------------------------------------------------------------------------
SyncInit ==
    /\ Init
    /\ remote = [r \in Requests |-> NoEntry]
    /\ push = [r \in Requests |-> NoPush]
    /\ crossed = [e \in Expenses |-> {}]

\* syncExpenseToSplitwise: ready, and not linked yet.
\* Mutation: the check looks for a row in step instead of any row.
InStep(e) == \E i \in Requests : row[i].st = "synced" /\ row[i].e = e
AlreadyLinked(e) == \E i \in Requests : row[i].st # "none" /\ row[i].e = e

BeginSync(r, e) ==
    /\ state[e] = "ready_to_sync"
    /\ ~AlreadyLinked(e)
    /\ Read(r, "sync", e, NoRequest, "approved", {}, "reading")
    /\ push' = [push EXCEPT ![r] = [repair |-> "create", entry |-> r]]
    /\ BeginsPush("sync", e)
    /\ UNCHANGED <<lock, remote>>

\* resyncExpenseToSplitwise, of the row i: the expense first.
BeginResync(r, i) ==
    /\ row[i].st \in Resyncable
    /\ Read(r, "resync", row[i].e, i, "approved", {}, "reading")
    /\ BeginsPush("resync", row[i].e)
    /\ UNCHANGED <<lock, remote, push>>

\* requireCurrentAllocation, in a later statement than the amount.
ReadCurrent(r) ==
    /\ pc[r] = "reading"
    /\ live[job[r].e] # {}
    /\ rd' = [rd EXCEPT ![r].prev = live[job[r].e]]
    /\ pc' = [pc EXCEPT ![r] = "open"]
    /\ UNCHANGED <<ledgerVars, lock, job, remote, crossed>>

ReadShares(r) ==
    /\ job[r].op = "sync"
    /\ ReadCurrent(r)
    /\ UNCHANGED push

\* A re-sync reads its row again with the shares, and chooses the repair from it.
ReadRow(r) ==
    LET i == job[r].a
        repair == RepairOf(row[i].st, rd[r].net) IN
    /\ job[r].op = "resync"
    /\ row[i].st \in Resyncable
    /\ ~(repair = "recreated" /\ rd[r].net = 0)
    /\ ReadCurrent(r)
    /\ push' = [push EXCEPT ![r] = [repair |-> repair,
                                    entry |-> IF repair = "recreated" THEN r ELSE row[i].entry]]

\* The call, accepted: createExpense, updateExpense or deleteEntry.
Create(r) ==
    /\ push[r].repair \in {"create", "recreated"}
    /\ remote' = [remote EXCEPT ![r] = [st |-> "standing", e |-> job[r].e, cost |-> rd[r].net,
                                        foreign |-> FALSE]]

Correct(r) ==
    /\ push[r].repair = "corrected"
    /\ remote[push[r].entry].st = "standing"
    /\ remote' = [remote EXCEPT ![push[r].entry].cost = rd[r].net,
                                ![push[r].entry].foreign = FALSE]

Withdraw(r) ==
    /\ push[r].repair = "withdrawn"
    /\ remote[push[r].entry].st = "standing"
    /\ remote' = [remote EXCEPT ![push[r].entry].st = "deleted"]

CallSplitwise(r) ==
    /\ pc[r] = "open" /\ job[r].op \in Pushing
    /\ \/ Create(r)
       \/ Correct(r)
       \/ Withdraw(r)
    /\ pc' = [pc EXCEPT ![r] = "called"]
    /\ UNCHANGED <<ledgerVars, lock, job, rd, push, crossed>>

\* The answer is recorded.
Answered(r, op) == pc[r] = "called" /\ job[r].op = op

CommitSync(r) ==
    LET e == job[r].e IN
    /\ Answered(r, "sync")
    /\ LockFree(e)
    /\ row' = [row EXCEPT ![r] = [st |-> "synced", e |-> e, net |-> rd[r].net,
                                  entry |-> push[r].entry]]
    /\ state' = [state EXCEPT ![e] = "synced"]
    /\ push' = [push EXCEPT ![r] = NoPush]
    /\ Finish(r)
    /\ UNCHANGED <<kind, refunded, live, adj, remote, crossed>>

CommitResync(r) ==
    /\ Answered(r, "resync")
    /\ row' = [row EXCEPT ![job[r].a] = [st |-> StatusAfter(push[r].repair), e |-> job[r].e,
                                         net |-> rd[r].net, entry |-> push[r].entry]]
    /\ push' = [push EXCEPT ![r] = NoPush]
    /\ Finish(r)
    /\ UNCHANGED <<state, kind, refunded, live, adj, remote, crossed>>

\* The answer is lost, or the process dies before the commit: nothing is recorded here.
LoseAnswer(r) ==
    /\ pc[r] = "called"
    /\ push' = [push EXCEPT ![r] = NoPush]
    /\ Finish(r)
    /\ UNCHANGED <<ledgerVars, remote, crossed>>

-----------------------------------------------------------------------------
(* What other people do in Splitwise, and what reconciliation concludes    *)

EditEntry(i) ==
    /\ remote[i].st = "standing" /\ ~remote[i].foreign
    /\ remote' = [remote EXCEPT ![i].foreign = TRUE]
    /\ UNCHANGED <<vars, push, crossed>>

DeleteEntry(i) ==
    /\ remote[i].st = "standing"
    /\ remote' = [remote EXCEPT ![i].st = "deleted", ![i].foreign = TRUE]
    /\ UNCHANGED <<vars, push, crossed>>

\* detectSplitwiseDrift: the balance of the pair differs, for whatever reason, so every synced
\* row between the two goes drifted.
DetectDrift(e) ==
    /\ \E i \in Requests : row[i].st = "synced" /\ row[i].e = e
    /\ row' = [i \in Requests |->
                  IF row[i].st = "synced" /\ row[i].e = e
                  THEN [row[i] EXCEPT !.st = "drifted"] ELSE row[i]]
    /\ UNCHANGED <<state, kind, refunded, live, adj, lock, pc, job, rd, remote, push, crossed>>

-----------------------------------------------------------------------------
BeginPush(r) ==
    \/ \E e \in Expenses : BeginSync(r, e)
    \/ \E i \in Requests : BeginResync(r, i)

StepPush(r) ==
    \/ ReadShares(r)
    \/ ReadRow(r)
    \/ CallSplitwise(r)
    \/ CommitSync(r)
    \/ CommitResync(r)
    \/ LoseAnswer(r)

\* A rollback of the core also ends a push whose call was refused.
LedgerStep(r) ==
    /\ Begin(r) \/ Step(r)
    /\ push' = [push EXCEPT ![r] = NoPush]
    /\ UNCHANGED <<remote, crossed>>

SyncNext ==
    \/ \E r \in Requests : LedgerStep(r) \/ BeginPush(r) \/ StepPush(r)
    \/ \E i \in Requests : EditEntry(i) \/ DeleteEntry(i)
    \/ \E e \in Expenses : DetectDrift(e)

SyncSpec == SyncInit /\ [][SyncNext]_syncVars

-----------------------------------------------------------------------------
(* Properties *)

SyncTypeOK ==
    /\ TypeOK
    /\ remote \in [Requests -> Entry]
    /\ push \in [Requests -> Push]
    /\ crossed \in [Expenses -> SUBSET Pushing]

\* An expense in state "synced" has a link row, and an expense has two link rows only if a
\* first sync began while another push of it was in flight: the check for an existing row and
\* its insertion are a remote call apart and no index stands behind them, so nothing but that
\* race makes a second one, whatever answers are lost and however often people retry
\* (splitwise-service.ts:119-127).
OneLinkPerExpense ==
    \A e \in Expenses :
        /\ \A i, j \in Requests :
              row[i].st # "none" /\ row[j].st # "none" /\ row[i].e = e /\ row[j].e = e /\ i # j
                  => "sync" \in crossed[e]
        /\ state[e] = "synced" => AlreadyLinked(e)

\* A row that says "synced" names an entry that stands in Splitwise at the figure the row
\* recorded, and one that says "withdrawn" names an entry that is gone, unless other people
\* changed the entry or two pushes of the expense were in flight at once: whatever was lost,
\* retried, refunded or re-divided on the way.
RowTellsWhatStands ==
    \A i \in Requests : row[i].st \in {"synced", "withdrawn"} /\ crossed[row[i].e] = {} =>
        LET entry == remote[row[i].entry] IN
        /\ row[i].st = "withdrawn" => entry.st = "deleted"
        /\ row[i].st = "synced" /\ ~entry.foreign =>
              entry.st = "standing" /\ entry.cost = row[i].net

\* The rows do what SplitwiseLink promises, of which this is the refinement: until two pushes of
\* its expense are in flight at once, the status of a row moves only as lifecycle.ts draws, and a
\* repair names another entry only when nothing stands any more, so a correction never leaves
\* two (ADR-0055).
Link == INSTANCE SplitwiseLink WITH
    Links <- Requests, Nowhere <- NoRequest,
    of <- [i \in Requests |-> IF row[i].st = "none" THEN "none" ELSE "expense"],
    st <- [i \in Requests |-> row[i].st],
    entry <- [i \in Requests |-> row[i].entry],
    contested <- {i \in Requests : row[i].st # "none" /\ crossed[row[i].e] # {}}
RowsFollowTheLink == Link!Spec
=============================================================================
