---------------------------- MODULE ExpenseLedger ----------------------------
(***************************************************************************)
(* An approved expense and the units of work that change it: approving a   *)
(* split, recording, reversing and distributing a refund, correcting the   *)
(* kind, and moving the expense along its lifecycle.                       *)
(*                                                                         *)
(* Every unit of work is one READ COMMITTED transaction (runAudited), so a *)
(* request is modelled by the statements whose order the database lets     *)
(* another request come between: it reads, it may read again, it commits.  *)
(* All of its writes appear at its commit.  Three units of work first take *)
(* the row lock on the expense (select .. for update); another request     *)
(* that updates the row, or inserts a row whose foreign key is the         *)
(* expense, waits for that lock to be free.                                *)
(*                                                                         *)
(* Amounts are numbers of paise.  A split is abstracted to its total and   *)
(* to whether somebody other than the payer holds a share above zero.      *)
(***************************************************************************)
EXTENDS Integers, FiniteSets, Functions

CONSTANTS
    Expenses,   \* the expenses, all past approval
    Requests,   \* units of work; each runs once and lends its id to the rows it inserts
    NoRequest,  \* nobody holds the row lock
    Gross,      \* the immutable amount of an expense
    Targets     \* the states transitionExpense is asked for

ExpenseStates == {"proposed", "classified", "review_required", "approved", "allocated",
                  "ready_to_sync", "synced", "reconciled", "rejected"}

\* "shared" stands for the three relationship types that create a debt.
Kinds == {"personal", "gift", "shared"}
DebtCreating == {"shared"}

ASSUME ExpensesAssumption == Expenses # {}
ASSUME GrossAssumption == Gross \in Nat \ {0}
ASSUME NoRequestAssumption == NoRequest \notin Requests
ASSUME TargetsAssumption == Targets \subseteq ExpenseStates

VARIABLES
    state,      \* expenses.state
    kind,       \* expenses.relationship_type
    refunded,   \* the sum of the expense's adjustments that are not reversed
    live,       \* the allocations of the expense with superseded_at null
    adj,        \* the expense_adjustments row a request inserted
    row,        \* the splitwise_expenses row a request inserted
    lock,       \* who holds the row lock on the expense
    pc,         \* how far a request has come
    job,        \* what a request was asked to do
    rd          \* what a request has read

ledgerVars == <<state, kind, refunded, live, adj, row>>
vars == <<state, kind, refunded, live, adj, row, lock, pc, job, rd>>

-----------------------------------------------------------------------------
(* Types and null values *)

Ops == {"none", "allocate", "record", "reverse", "distribute", "correct", "transition",
        "sync", "resync"}
Allocation == [id: Requests \cup {NoRequest}, total: Int, others: BOOLEAN]
RowStates == {"none", "synced", "stale", "drifted", "withdrawn", "externally_deleted"}
Row == [st: RowStates, e: Expenses, net: Int, entry: Requests \cup {NoRequest}]
Adjustment == [st: {"none", "active", "reversed"}, e: Expenses, amount: Int,
               by: Requests \cup {NoRequest}]
Job == [op: Ops, e: Expenses, a: Requests \cup {NoRequest}, to: ExpenseStates]
Reading == [state: ExpenseStates, kind: Kinds, net: Int, prev: SUBSET Allocation]

AnExpense == CHOOSE e \in Expenses : TRUE
NoAdjustment == [st |-> "none", e |-> AnExpense, amount |-> 0, by |-> NoRequest]
NoRow == [st |-> "none", e |-> AnExpense, net |-> 0, entry |-> NoRequest]
NoJob == [op |-> "none", e |-> AnExpense, a |-> NoRequest, to |-> "approved"]
NothingRead == [state |-> "approved", kind |-> "gift", net |-> 0, prev |-> {}]

-----------------------------------------------------------------------------
(* The pure rules of src/domain *)

\* The units of work that take the row lock before they read.
Locking == {"record", "distribute", "correct"}

Allocatable == {"approved", "allocated", "ready_to_sync", "synced", "reconciled"}
Adjustable == {"approved", "allocated", "ready_to_sync", "synced", "reconciled"}
KindCorrectable == {"approved", "allocated"}

ExpenseTransitions ==
    [s \in ExpenseStates |->
        CASE s = "proposed"        -> {"classified"}
          [] s = "classified"      -> {"review_required", "approved", "rejected"}
          [] s = "review_required" -> {"approved", "rejected"}
          [] s = "approved"        -> {"allocated", "review_required"}
          [] s = "allocated"       -> {"ready_to_sync", "reconciled", "review_required"}
          [] s = "ready_to_sync"   -> {"synced", "review_required"}
          [] s = "synced"          -> {"reconciled", "review_required"}
          [] s = "reconciled"      -> {"review_required"}
          [] s = "rejected"        -> {}]

Net(e) == Gross - refunded[e]

\* Mutation: the gate's original wording, which looks at the beneficiaries only.
GateWithoutKind(k, allocs) == \E al \in allocs : al.others
CanEnterReadyToSync(k, allocs) ==
    /\ k \in DebtCreating
    /\ \E al \in allocs : al.others

\* Mutations: a split that forgets the state, and one that writes a state the schema lacks.
StateForgotten(s, read) == s
StateMisspelt(s, read) == IF read = "approved" THEN "divided" ELSE s
StateAfterAllocation(s, read) == IF read = "approved" THEN "allocated" ELSE s

\* validateAdjustmentTotal: what is still refundable of a net amount.
RefundFits(amount, net) == amount \in 1..net

\* What an adjustment takes off the net: listAdjustmentAmounts sums those not reversed.
\* Mutation: the sum forgets to leave the reversed ones out.
CountedAlways(a) == adj[a].amount
Counted(a) == IF adj[a].st = "active" THEN adj[a].amount ELSE 0

\* The partial unique index over allocations with superseded_at null: a commit that would
\* leave two current splits is refused.
OnlySupersedes(current, prev) == current \subseteq prev

-----------------------------------------------------------------------------
Init ==
    /\ state = [e \in Expenses |-> "approved"]
    /\ kind \in [Expenses -> Kinds]
    /\ refunded = [e \in Expenses |-> 0]
    /\ live = [e \in Expenses |-> {}]
    /\ adj = [r \in Requests |-> NoAdjustment]
    /\ row = [r \in Requests |-> NoRow]
    /\ lock = [e \in Expenses |-> NoRequest]
    /\ pc = [r \in Requests |-> "idle"]
    /\ job = [r \in Requests |-> NoJob]
    /\ rd = [r \in Requests |-> NothingRead]

-----------------------------------------------------------------------------
(* The steps a unit of work is made of *)

\* requireExpenseSnapshot, and the current allocation when prev already holds it.
Read(r, op, e, a, to, prev, next) ==
    /\ pc[r] = "idle"
    /\ pc' = [pc EXCEPT ![r] = next]
    /\ job' = [job EXCEPT ![r] = [op |-> op, e |-> e, a |-> a, to |-> to]]
    /\ rd' = [rd EXCEPT ![r] = [state |-> state[e], kind |-> kind[e],
                                net |-> Net(e), prev |-> prev]]
    /\ UNCHANGED ledgerVars

\* Mutation: without select .. for update.
NoRowLock(e) == TRUE
LockFree(e) == lock[e] = NoRequest

\* lockExpenseForAdjustment: wait for the row, hold it, then read.
LockAndRead(r, op, e) ==
    /\ LockFree(e)
    /\ lock' = [lock EXCEPT ![e] = r]
    /\ Read(r, op, e, NoRequest, "approved", live[e], "open")

Asked(r, op) == pc[r] = "open" /\ job[r].op = op

\* Commit or rollback: the request is over and whatever lock it held is released.
Finish(r) ==
    /\ pc' = [pc EXCEPT ![r] = "done"]
    /\ job' = [job EXCEPT ![r] = NoJob]
    /\ rd' = [rd EXCEPT ![r] = NothingRead]
    /\ lock' = [e \in Expenses |-> IF lock[e] = r THEN NoRequest ELSE lock[e]]

\* supersedeAllocation of the version that was read, then insertAllocationWithLines.
NewVersion(r, total, others) ==
    LET e == job[r].e IN
    /\ OnlySupersedes(live[e], rd[r].prev)
    /\ others => total > 0
    /\ live' = [live EXCEPT ![e] = (@ \ rd[r].prev)
                                   \cup {[id |-> r, total |-> total, others |-> others]}]

-----------------------------------------------------------------------------
(* approveAllocation: no lock; the expense is read first, the split it     *)
(* replaces in a later statement.                                          *)

BeginAllocate(r, e) ==
    /\ state[e] \in Allocatable
    /\ Read(r, "allocate", e, NoRequest, "approved", {}, "reading")
    /\ UNCHANGED lock

ReadAllocation(r) ==
    /\ pc[r] = "reading" /\ job[r].op \in {"allocate", "transition"}
    /\ LET e == job[r].e IN
       /\ job[r].to = "ready_to_sync" => CanEnterReadyToSync(rd[r].kind, live[e])
       /\ rd' = [rd EXCEPT ![r].prev = live[e]]
    /\ pc' = [pc EXCEPT ![r] = "open"]
    /\ UNCHANGED <<ledgerVars, lock, job>>

CommitAllocate(r) ==
    LET e == job[r].e IN
    /\ Asked(r, "allocate")
    /\ LockFree(e)
    /\ \E others \in BOOLEAN : NewVersion(r, rd[r].net, others)
    /\ state' = [state EXCEPT ![e] = StateAfterAllocation(@, rd[r].state)]
    /\ Finish(r)
    /\ UNCHANGED <<kind, refunded, adj, row>>

-----------------------------------------------------------------------------
(* recordExpenseAdjustment *)

BeginRecord(r, e) ==
    /\ state[e] \in Adjustable
    /\ LockAndRead(r, "record", e)

CommitRecord(r) ==
    LET e == job[r].e IN
    /\ Asked(r, "record")
    /\ \E amount \in 1..Gross :
        /\ RefundFits(amount, rd[r].net)
        /\ adj' = [adj EXCEPT ![r] = [st |-> "active", e |-> e, amount |-> amount,
                                      by |-> NoRequest]]
        /\ refunded' = [refunded EXCEPT ![e] = @ + amount]
    /\ Finish(r)
    /\ UNCHANGED <<state, kind, live, row>>

-----------------------------------------------------------------------------
(* reverseExpenseAdjustment: "not yet reversed" is checked before the      *)
(* transaction opens, and the stamp is an unconditional update.            *)

BeginReverse(r, a) ==
    /\ adj[a].st = "active"
    /\ Read(r, "reverse", adj[a].e, a, "approved", {}, "open")
    /\ UNCHANGED lock

CommitReverse(r) ==
    LET a == job[r].a IN
    /\ Asked(r, "reverse")
    /\ adj' = [adj EXCEPT ![a] = [@ EXCEPT !.st = "reversed", !.by = r]]
    /\ refunded' = [refunded EXCEPT ![adj[a].e] = @ - Counted(a)]
    /\ Finish(r)
    /\ UNCHANGED <<state, kind, live, row>>

-----------------------------------------------------------------------------
(* distributeAdjustment: a new version at the net that was read, and every *)
(* synced Splitwise row of the expense goes stale.  How the change reaches *)
(* each line is left open.                                                 *)

MarkStale(e) ==
    row' = [r \in Requests |->
                IF row[r].e = e /\ row[r].st = "synced"
                THEN [row[r] EXCEPT !.st = "stale"] ELSE row[r]]

BeginDistribute(r, e) ==
    /\ \E al \in live[e] : al.total # Net(e)
    /\ LockAndRead(r, "distribute", e)

CommitDistribute(r) ==
    /\ Asked(r, "distribute")
    /\ \E others \in BOOLEAN : NewVersion(r, rd[r].net, others)
    /\ MarkStale(job[r].e)
    /\ Finish(r)
    /\ UNCHANGED <<state, kind, refunded, adj>>

-----------------------------------------------------------------------------
(* correctExpenseKind: personal to a shared kind, completed by a split in  *)
(* which somebody else holds a share.                                      *)

BeginCorrect(r, e) ==
    /\ kind[e] = "personal"
    /\ state[e] \in KindCorrectable
    /\ \A i \in Requests : row[i].st = "none" \/ row[i].e # e
    /\ LockAndRead(r, "correct", e)

CommitCorrect(r) ==
    LET e == job[r].e IN
    /\ Asked(r, "correct")
    /\ NewVersion(r, rd[r].net, TRUE)
    /\ kind' = [kind EXCEPT ![e] = "shared"]
    /\ state' = [state EXCEPT ![e] = StateAfterAllocation(@, rd[r].state)]
    /\ Finish(r)
    /\ UNCHANGED <<refunded, adj, row>>

-----------------------------------------------------------------------------
(* transitionExpense: the state is read, checked against the table and     *)
(* written back unconditionally.                                           *)

BeginTransition(r, e, to) ==
    /\ to \in ExpenseTransitions[state[e]]
    /\ Read(r, "transition", e, NoRequest, to, {}, "reading")
    /\ UNCHANGED lock

CommitTransition(r) ==
    LET e == job[r].e IN
    /\ Asked(r, "transition")
    /\ LockFree(e)
    /\ state' = [state EXCEPT ![e] = job[r].to]
    /\ Finish(r)
    /\ UNCHANGED <<kind, refunded, live, adj, row>>

-----------------------------------------------------------------------------
\* A refusal, a crash or a lost connection: nothing the request wrote survives.
Rollback(r) ==
    /\ pc[r] \in {"reading", "open"}
    /\ Finish(r)
    /\ UNCHANGED ledgerVars

Begin(r) ==
    \/ \E e \in Expenses :
        \/ BeginAllocate(r, e)
        \/ BeginRecord(r, e)
        \/ BeginDistribute(r, e)
        \/ BeginCorrect(r, e)
        \/ \E to \in Targets : BeginTransition(r, e, to)
    \/ \E a \in Requests : BeginReverse(r, a)

Step(r) ==
    \/ ReadAllocation(r)
    \/ CommitAllocate(r)
    \/ CommitRecord(r)
    \/ CommitReverse(r)
    \/ CommitDistribute(r)
    \/ CommitCorrect(r)
    \/ CommitTransition(r)
    \/ Rollback(r)

Next == \E r \in Requests : Begin(r) \/ Step(r)

Spec == Init /\ [][Next]_vars

-----------------------------------------------------------------------------
(* Properties *)

\* Every variable holds what its column or its statement can hold.
TypeOK ==
    /\ state \in [Expenses -> ExpenseStates]
    /\ kind \in [Expenses -> Kinds]
    /\ refunded \in [Expenses -> Int]
    /\ live \in [Expenses -> SUBSET Allocation]
    /\ adj \in [Requests -> Adjustment]
    /\ row \in [Requests -> Row]
    /\ lock \in [Expenses -> Requests \cup {NoRequest}]
    /\ pc \in [Requests -> {"idle", "reading", "open", "called", "done"}]
    /\ job \in [Requests -> Job]
    /\ \A r \in Requests : job[r].op = "reverse" => job[r].a \in Requests
    /\ rd \in [Requests -> Reading]

\* An expense is never refunded for more than it cost, however many refunds are recorded and
\* reversed at once (invariant 8; the reason recordExpenseAdjustment locks before it reads).
NetNonNegative == \A e \in Expenses : Net(e) >= 0

\* The running sum the refund ceiling is checked against is the sum of the adjustments that
\* are still active, also when two people reverse the same adjustment at once.
Amounts == [a \in Requests |-> adj[a].amount]
Active(e) == {a \in Requests : adj[a].st = "active" /\ adj[a].e = e}
RefundedIsSumOfActive ==
    \A e \in Expenses : refunded[e] = SumFunctionOnSet(Amounts, Active(e))

\* What a unit of work read under the row lock still holds when it commits: nobody else has the
\* lock, the net it read was not refunded away (a reversal may have raised it), and an expense
\* whose kind is being corrected is still a personal one open to correction.
LockedReadingsHold ==
    \A r \in Requests :
        pc[r] = "open" /\ job[r].op \in Locking =>
            LET e == job[r].e IN
            /\ lock[e] = r
            /\ rd[r].net <= Net(e)
            /\ job[r].op = "correct" => kind[e] = "personal" /\ state[e] \in KindCorrectable

\* The state and the split agree: an expense is "approved" exactly while nobody has divided
\* it, whatever stale state a racing approval, correction or transition wrote back.
AllocationMatchesState ==
    \A e \in Expenses : (state[e] = "approved") <=> (live[e] = {})

\* Only an expense of a kind that creates a debt is ever ready for, or in, Splitwise: the gate
\* read the kind before the write, and the kind may be corrected in between.
ReadyOnlyWithDebt ==
    \A e \in Expenses : state[e] \in {"ready_to_sync", "synced"} => kind[e] \in DebtCreating

\* When a distribution or a correction commits, the split it leaves asks for no more than the
\* expense's net at that moment: no refund recorded since the read is left out of it.
CommitsSplit(r, ops, e) ==
    /\ pc[r] = "open" /\ pc'[r] = "done"
    /\ job[r].op \in ops /\ job[r].e = e
    /\ live'[e] # live[e]
NeverOverstates(r, e) ==
    CommitsSplit(r, {"distribute", "correct"}, e) => \A al \in live'[e] : al.total <= Net(e)'
LockedSplitNeverOverstates ==
    [][\A r \in Requests, e \in Expenses : NeverOverstates(r, e)]_vars

\* A kind changes only from personal, only while the expense is still open to correction, and
\* only together with a split that names somebody else (ADR-0073), whatever ran meanwhile.
CompleteKindChange(e) ==
    kind'[e] # kind[e] =>
        /\ kind[e] = "personal"
        /\ state[e] \in KindCorrectable
        /\ \E al \in live'[e] : al.others /\ al.total <= Net(e)
KindChangeIsComplete == [][\A e \in Expenses : CompleteKindChange(e)]_vars
=============================================================================
