------------------------ MODULE ExpenseLedger_proof ------------------------
(***************************************************************************)
(* Theorems about ExpenseLedger, for any number of expenses and requests,  *)
(* any amount and any set of requested states.                             *)
(***************************************************************************)
EXTENDS ExpenseLedger, FiniteSetTheorems, WellFoundedInduction, TLAPS

-----------------------------------------------------------------------------
(* Types *)

\* The null values are typed.
LEMMA NullTypes ==
    /\ AnExpense \in Expenses
    /\ NoAdjustment \in Adjustment
    /\ NoRow \in Row
    /\ NoJob \in Job
    /\ NothingRead \in Reading
<1>1. AnExpense \in Expenses BY ExpensesAssumption DEF AnExpense
<1>2. NothingRead \in Reading
  <2>1. {} \in SUBSET Allocation OBVIOUS
  <2> QED BY <2>1 DEF NothingRead, Reading, ExpenseStates, Kinds
<1> QED BY <1>1, <1>2
        DEF NoAdjustment, Adjustment, NoRow, Row, RowStates, NoJob, Job, Ops, ExpenseStates

\* What a request reads is typed, and the read changes nothing else.
LEMMA ReadTypes ==
    ASSUME TypeOK, NEW r \in Requests, NEW op \in Ops, NEW e \in Expenses,
           NEW a \in Requests \cup {NoRequest}, NEW to \in ExpenseStates,
           NEW prev \in SUBSET Allocation, NEW next \in {"reading", "open"},
           Read(r, op, e, a, to, prev, next), op = "reverse" => a \in Requests,
           lock' \in [Expenses -> Requests \cup {NoRequest}]
    PROVE  TypeOK'
<1>1. Net(e) \in Int BY GrossAssumption DEF TypeOK, Net
<1>2. [op |-> op, e |-> e, a |-> a, to |-> to] \in Job BY DEF Job
<1>3. [state |-> state[e], kind |-> kind[e], net |-> Net(e), prev |-> prev] \in Reading
  BY <1>1 DEF Reading, TypeOK
<1> QED BY <1>2, <1>3 DEF TypeOK, Read, ledgerVars

\* The end of a request is typed.
LEMMA FinishTypes ==
    ASSUME TypeOK, NEW r \in Requests, Finish(r)
    PROVE  /\ pc' \in [Requests -> {"idle", "reading", "open", "called", "done"}]
           /\ job' \in [Requests -> Job]
           /\ \A q \in Requests : job'[q].op = "reverse" => job'[q].a \in Requests
           /\ rd' \in [Requests -> Reading]
           /\ lock' \in [Expenses -> Requests \cup {NoRequest}]
BY NullTypes DEF TypeOK, Finish, NoJob

\* A new version of a split is typed.
LEMMA NewVersionTypes ==
    ASSUME TypeOK, NEW r \in Requests, NEW others \in BOOLEAN,
           NewVersion(r, rd[r].net, others)
    PROVE  live' \in [Expenses -> SUBSET Allocation]
<1>1. job[r].e \in Expenses /\ rd[r].net \in Int BY DEF TypeOK, Job, Reading
<1>2. [id |-> r, total |-> rd[r].net, others |-> others] \in Allocation
  BY <1>1 DEF Allocation
<1>3. (live[job[r].e] \ rd[r].prev)
        \cup {[id |-> r, total |-> rd[r].net, others |-> others]} \in SUBSET Allocation
  BY <1>1, <1>2 DEF TypeOK
<1> QED BY <1>1, <1>3 DEF NewVersion, TypeOK

LEMMA TypeInit == Init => TypeOK
<1> SUFFICES ASSUME Init PROVE TypeOK OBVIOUS
<1>1. \A e \in Expenses : {} \in SUBSET Allocation OBVIOUS
<1> QED BY <1>1, NullTypes DEF Init, TypeOK, ExpenseStates, NoJob

LEMMA TypeStep == TypeOK /\ [Next]_vars => TypeOK'
<1> SUFFICES ASSUME TypeOK, [Next]_vars PROVE TypeOK' OBVIOUS
<1>1. CASE UNCHANGED vars BY <1>1 DEF vars, TypeOK
<1>2. ASSUME NEW r \in Requests, Begin(r) PROVE TypeOK'
  <2>1. ASSUME NEW e \in Expenses, BeginAllocate(r, e) PROVE TypeOK'
    <3>1. {} \in SUBSET Allocation OBVIOUS
    <3> QED BY <2>1, <3>1, ReadTypes DEF BeginAllocate, Ops, ExpenseStates, TypeOK
  <2>2. ASSUME NEW op \in Locking, NEW e \in Expenses, LockAndRead(r, op, e) PROVE TypeOK'
    <3>1. live[e] \in SUBSET Allocation BY DEF TypeOK
    <3>2. lock' \in [Expenses -> Requests \cup {NoRequest}] BY <2>2 DEF LockAndRead, TypeOK
    <3>3. op \in Ops /\ op # "reverse" /\ "approved" \in ExpenseStates
      BY DEF Locking, Ops, ExpenseStates
    <3>4. Read(r, op, e, NoRequest, "approved", live[e], "open") BY <2>2 DEF LockAndRead
    <3> HIDE DEF Locking
    <3> QED BY <3>1, <3>2, <3>3, <3>4, ReadTypes
  <2>3. ASSUME NEW e \in Expenses, NEW to \in Targets, BeginTransition(r, e, to)
        PROVE  TypeOK'
    <3>1. {} \in SUBSET Allocation /\ to \in ExpenseStates BY TargetsAssumption
    <3>2. lock' \in [Expenses -> Requests \cup {NoRequest}]
      BY <2>3 DEF BeginTransition, TypeOK
    <3> QED BY <2>3, <3>1, <3>2, ReadTypes DEF BeginTransition, Ops
  <2>4. ASSUME NEW a \in Requests, BeginReverse(r, a) PROVE TypeOK'
    <3>1. {} \in SUBSET Allocation OBVIOUS
    <3>2. adj[a].e \in Expenses BY DEF TypeOK, Adjustment
    <3>3. lock' \in [Expenses -> Requests \cup {NoRequest}] BY <2>4 DEF BeginReverse, TypeOK
    <3> QED BY <2>4, <3>1, <3>2, <3>3, ReadTypes DEF BeginReverse, Ops, ExpenseStates
  <2> QED BY <1>2, <2>1, <2>2, <2>3, <2>4
          DEF Begin, BeginRecord, BeginDistribute, BeginCorrect, Locking
<1>3. ASSUME NEW r \in Requests, Step(r) PROVE TypeOK'
  <2>0. /\ job[r] \in Job /\ job[r].e \in Expenses /\ rd[r] \in Reading
        /\ rd[r].net \in Int /\ job[r].to \in ExpenseStates
    BY DEF TypeOK, Job, Reading
  <2>1. CASE ReadAllocation(r)
    <3>1. live[job[r].e] \in SUBSET Allocation BY <2>0 DEF TypeOK
    <3>2. [rd[r] EXCEPT !.prev = live[job[r].e]] \in Reading BY <2>0, <3>1 DEF Reading
    <3> QED BY <2>1, <3>2 DEF ReadAllocation, TypeOK, ledgerVars
  <2>2. ASSUME NEW s \in ExpenseStates PROVE StateAfterAllocation(s, rd[r].state) \in ExpenseStates
    BY DEF StateAfterAllocation, ExpenseStates
  <2>3. CASE CommitAllocate(r)
    <3>1. PICK others \in BOOLEAN : NewVersion(r, rd[r].net, others)
      BY <2>3 DEF CommitAllocate
    <3>2. live' \in [Expenses -> SUBSET Allocation] BY <3>1, NewVersionTypes
    <3>3. state' \in [Expenses -> ExpenseStates]
      BY <2>0, <2>2, <2>3 DEF CommitAllocate, TypeOK
    <3> QED BY <2>3, <3>2, <3>3, FinishTypes DEF CommitAllocate, TypeOK
  <2>4. CASE CommitRecord(r)
    <3>1. PICK amount \in 1..Gross :
            /\ adj' = [adj EXCEPT ![r] = [st |-> "active", e |-> job[r].e, amount |-> amount,
                                          by |-> NoRequest]]
            /\ refunded' = [refunded EXCEPT ![job[r].e] = @ + amount]
      BY <2>4 DEF CommitRecord
    <3>2. amount \in Int BY GrossAssumption
    <3>3. adj' \in [Requests -> Adjustment] BY <2>0, <3>1, <3>2 DEF TypeOK, Adjustment
    <3>4. refunded' \in [Expenses -> Int] BY <2>0, <3>1, <3>2 DEF TypeOK
    <3> QED BY <2>4, <3>3, <3>4, FinishTypes DEF CommitRecord, TypeOK
  <2>5. CASE CommitReverse(r)
    <3> DEFINE a == job[r].a
    <3>0. a \in Requests BY <2>5 DEF CommitReverse, Asked, TypeOK
    <3>1. adj[a] \in Adjustment /\ Counted(a) \in Int /\ adj[a].e \in Expenses
      BY <3>0 DEF TypeOK, Adjustment, Counted
    <3>2. [adj[a] EXCEPT !.st = "reversed", !.by = r] \in Adjustment
      BY <3>1 DEF Adjustment
    <3>3. adj' = [adj EXCEPT ![a] = [adj[a] EXCEPT !.st = "reversed", !.by = r]]
      BY <2>5 DEF CommitReverse
    <3>4. refunded' = [refunded EXCEPT ![adj[a].e] = refunded[adj[a].e] - Counted(a)]
      BY <2>5 DEF CommitReverse
    <3> HIDE DEF a
    <3>5. adj' \in [Requests -> Adjustment] BY <3>0, <3>2, <3>3 DEF TypeOK
    <3>6. refunded' \in [Expenses -> Int]
      BY <3>1, <3>4 DEF TypeOK
    <3> QED BY <2>5, <3>5, <3>6, FinishTypes DEF CommitReverse, TypeOK
  <2>6. CASE CommitDistribute(r)
    <3>1. PICK others \in BOOLEAN : NewVersion(r, rd[r].net, others)
      BY <2>6 DEF CommitDistribute
    <3>2. live' \in [Expenses -> SUBSET Allocation] BY <3>1, NewVersionTypes
    <3>3. row' \in [Requests -> Row]
      BY <2>6 DEF CommitDistribute, MarkStale, TypeOK, Row, RowStates
    <3> QED BY <2>6, <3>2, <3>3, FinishTypes DEF CommitDistribute, TypeOK
  <2>7. CASE CommitCorrect(r)
    <3>1. live' \in [Expenses -> SUBSET Allocation]
      BY <2>7, NewVersionTypes DEF CommitCorrect
    <3>2. state' \in [Expenses -> ExpenseStates]
      BY <2>0, <2>2, <2>7 DEF CommitCorrect, TypeOK
    <3>3. kind' \in [Expenses -> Kinds] BY <2>7 DEF CommitCorrect, TypeOK, Kinds
    <3> QED BY <2>7, <3>1, <3>2, <3>3, FinishTypes DEF CommitCorrect, TypeOK
  <2>8. CASE CommitTransition(r)
    <3>1. state' \in [Expenses -> ExpenseStates]
      BY <2>0, <2>8 DEF CommitTransition, TypeOK
    <3> QED BY <2>8, <3>1, FinishTypes DEF CommitTransition, TypeOK
  <2>9. CASE Rollback(r) BY <2>9, FinishTypes DEF Rollback, ledgerVars, TypeOK
  <2> QED BY <1>3, <2>1, <2>3, <2>4, <2>5, <2>6, <2>7, <2>8, <2>9 DEF Step
<1> QED BY <1>1, <1>2, <1>3 DEF Next

\* Every variable keeps its type.
THEOREM TypeCorrect == Spec => []TypeOK
BY TypeInit, TypeStep, PTL DEF Spec

-----------------------------------------------------------------------------
(* What the beginning and the end of a request do                          *)

\* How a beginning looks to the other requests: it read the expense e, and if its operation
\* is a locking one it took the free lock on e.
Opens(r, op, e, to, next) ==
    /\ \E a \in Requests \cup {NoRequest}, prev \in SUBSET Allocation :
           Read(r, op, e, a, to, prev, next)
    /\ \/ op \in Locking /\ next = "open" /\ LockFree(e) /\ lock' = [lock EXCEPT ![e] = r]
       \/ op \notin Locking /\ lock' = lock
    /\ op = "correct" => kind[e] = "personal" /\ state[e] \in KindCorrectable
    /\ op = "distribute" => live[e] # {}
    /\ op = "transition" => next = "reading" /\ to \in ExpenseTransitions[state[e]] \cap Targets
    /\ op # "transition" => to = "approved"

LEMMA BeginOpens ==
    ASSUME TypeOK, NEW r \in Requests, Begin(r)
    PROVE  \E op \in Ops, e \in Expenses, to \in ExpenseStates, next \in {"reading", "open"} :
               Opens(r, op, e, to, next)
<1>0. {} \in SUBSET Allocation /\ "approved" \in ExpenseStates BY DEF ExpenseStates
<1>1. ASSUME NEW e \in Expenses, BeginAllocate(r, e)
      PROVE  Opens(r, "allocate", e, "approved", "reading")
  BY <1>0, <1>1 DEF BeginAllocate, Opens, Locking
<1>2. ASSUME NEW op \in Locking, NEW e \in Expenses, LockAndRead(r, op, e),
             op = "correct" => kind[e] = "personal" /\ state[e] \in KindCorrectable,
             op = "distribute" => live[e] # {}
      PROVE  Opens(r, op, e, "approved", "open")
  <2>1. live[e] \in SUBSET Allocation BY DEF TypeOK
  <2>2. op # "transition" BY DEF Locking
  <2> QED BY <1>2, <2>1, <2>2 DEF LockAndRead, Opens
<1>3. ASSUME NEW e \in Expenses, BeginRecord(r, e)
      PROVE  Opens(r, "record", e, "approved", "open")
  BY <1>2, <1>3 DEF BeginRecord, Locking
<1>4. ASSUME NEW e \in Expenses, BeginDistribute(r, e)
      PROVE  Opens(r, "distribute", e, "approved", "open")
  BY <1>2, <1>4 DEF BeginDistribute, Locking
<1>5. ASSUME NEW e \in Expenses, BeginCorrect(r, e)
      PROVE  Opens(r, "correct", e, "approved", "open")
  BY <1>2, <1>5 DEF BeginCorrect, Locking
<1>6. ASSUME NEW e \in Expenses, NEW to \in Targets, BeginTransition(r, e, to)
      PROVE  Opens(r, "transition", e, to, "reading")
  BY <1>0, <1>6 DEF BeginTransition, Opens, Locking
<1>7. ASSUME NEW a \in Requests, BeginReverse(r, a)
      PROVE  Opens(r, "reverse", adj[a].e, "approved", "open") /\ adj[a].e \in Expenses
  BY <1>0, <1>7 DEF BeginReverse, Opens, Locking, TypeOK, Adjustment
<1> QED
  <2>1. CASE \E e \in Expenses : BeginAllocate(r, e) BY <1>0, <1>1, <2>1 DEF Ops
  <2>2. CASE \E e \in Expenses : BeginRecord(r, e) BY <1>0, <1>3, <2>2 DEF Ops
  <2>3. CASE \E e \in Expenses : BeginDistribute(r, e) BY <1>0, <1>4, <2>3 DEF Ops
  <2>4. CASE \E e \in Expenses : BeginCorrect(r, e) BY <1>0, <1>5, <2>4 DEF Ops
  <2>5. CASE \E e \in Expenses, to \in Targets : BeginTransition(r, e, to)
    BY <1>6, <2>5, TargetsAssumption DEF Ops
  <2>6. CASE \E a \in Requests : BeginReverse(r, a) BY <1>0, <1>7, <2>6 DEF Ops
  <2> QED BY <2>1, <2>2, <2>3, <2>4, <2>5, <2>6 DEF Begin

\* A beginning leaves every other request, and every lock another one holds, alone.
LEMMA OpensLeavesOthers ==
    ASSUME TypeOK, NEW r \in Requests, NEW op \in Ops, NEW e \in Expenses,
           NEW to \in ExpenseStates, NEW next \in {"reading", "open"},
           Opens(r, op, e, to, next),
           NEW q \in Requests, q # r
    PROVE  /\ pc'[q] = pc[q] /\ job'[q] = job[q] /\ rd'[q] = rd[q]
           /\ \A d \in Expenses : lock[d] = q => lock'[d] = q
BY NoRequestAssumption DEF TypeOK, Opens, Read, LockFree

\* So does the end of one.
LEMMA FinishLeavesOthers ==
    ASSUME TypeOK, NEW r \in Requests, Finish(r), NEW q \in Requests, pc'[q] # "done"
    PROVE  /\ q # r
           /\ pc'[q] = pc[q] /\ job'[q] = job[q] /\ rd'[q] = rd[q]
           /\ \A d \in Expenses : lock[d] = q => lock'[d] = q
BY DEF TypeOK, Finish

-----------------------------------------------------------------------------
(* Refunds                                                                 *)
(*                                                                         *)
(* NetNonNegative is not inductive: a refund is checked against the net    *)
(* that was read.  LockedReadingsHold says why that reading is still good, *)
(* and needs that what a reversal gives back is not negative.              *)

AmountsNonNegative == \A a \in Requests : adj[a].amount >= 0

\* Only an unlocked operation reads twice.
ReadsTwice == \A q \in Requests : pc[q] = "reading" => job[q].op \notin Locking

RefundInv ==
    TypeOK /\ AmountsNonNegative /\ NetNonNegative /\ ReadsTwice /\ LockedReadingsHold

\* LockedReadingsHold for one request.
Holds(q) ==
    pc[q] = "open" /\ job[q].op \in Locking =>
        /\ lock[job[q].e] = q
        /\ rd[q].net <= Net(job[q].e)
        /\ job[q].op = "correct" =>
               kind[job[q].e] = "personal" /\ state[job[q].e] \in KindCorrectable

LEMMA HoldsIsLockedReadingsHold == LockedReadingsHold <=> \A q \in Requests : Holds(q)
BY DEF LockedReadingsHold, Holds

\* A step that leaves q alone, lowers no net, and changes state and kind only of expenses
\* whose lock q does not hold, keeps what q read good.
LEMMA HoldsStable ==
    ASSUME TypeOK, NEW q \in Requests, Holds(q),
           pc'[q] = pc[q], job'[q] = job[q], rd'[q] = rd[q],
           \A d \in Expenses : lock[d] = q => /\ lock'[d] = q
                                             /\ refunded'[d] <= refunded[d]
                                             /\ state'[d] = state[d] /\ kind'[d] = kind[d],
           refunded' \in [Expenses -> Int]
    PROVE  Holds(q)'
<1> DEFINE e == job[q].e
<1>1. e \in Expenses /\ rd[q].net \in Int /\ refunded[e] \in Int /\ refunded'[e] \in Int
  BY DEF TypeOK, Job, Reading
<1>2. SUFFICES ASSUME pc[q] = "open", job[q].op \in Locking
               PROVE  /\ lock'[e] = q
                      /\ rd[q].net <= Gross - refunded'[e]
                      /\ job[q].op = "correct" =>
                             kind'[e] = "personal" /\ state'[e] \in KindCorrectable
  BY DEF Holds, Net
<1>3. lock[e] = q /\ rd[q].net <= Gross - refunded[e] BY <1>2 DEF Holds, Net
<1>4. /\ lock'[e] = q /\ refunded'[e] <= refunded[e]
      /\ state'[e] = state[e] /\ kind'[e] = kind[e]
  BY <1>1, <1>3
<1>5. rd[q].net <= Gross - refunded'[e] BY <1>1, <1>3, <1>4, GrossAssumption
<1> QED BY <1>2, <1>4, <1>5 DEF Holds

LEMMA RefundInit == Init => RefundInv
<1> SUFFICES ASSUME Init PROVE RefundInv OBVIOUS
<1>1. \A a \in Requests : adj[a].amount >= 0 BY DEF Init, NoAdjustment
<1>2. NetNonNegative BY GrossAssumption DEF Init, NetNonNegative, Net
<1>3. LockedReadingsHold /\ ReadsTwice BY DEF Init, LockedReadingsHold, ReadsTwice
<1> QED BY <1>1, <1>2, <1>3, TypeInit DEF RefundInv, AmountsNonNegative

LEMMA RefundStep == RefundInv /\ [Next]_vars => RefundInv'
<1> SUFFICES ASSUME RefundInv, [Next]_vars PROVE RefundInv' OBVIOUS
<1>0. TypeOK /\ TypeOK' BY TypeStep DEF RefundInv
<1>a. refunded \in [Expenses -> Int] /\ refunded' \in [Expenses -> Int] BY <1>0 DEF TypeOK
<1>h. \A q \in Requests : Holds(q) BY HoldsIsLockedReadingsHold DEF RefundInv
<1>h1. ASSUME \A q \in Requests : Holds(q)' PROVE LockedReadingsHold'
  BY <1>h1 DEF LockedReadingsHold, Holds
<1>u. ASSUME UNCHANGED <<adj, refunded>> PROVE AmountsNonNegative' /\ NetNonNegative'
  BY <1>u DEF RefundInv, AmountsNonNegative, NetNonNegative, Net
<1>1. CASE UNCHANGED vars
  BY <1>0, <1>1, <1>u DEF vars, RefundInv, ReadsTwice, LockedReadingsHold, Net
<1>2. ASSUME NEW r \in Requests, Begin(r) PROVE RefundInv'
  <2>1. PICK op \in Ops, e \in Expenses, to \in ExpenseStates, next \in {"reading", "open"} :
            Opens(r, op, e, to, next)
    BY <1>0, <1>2, BeginOpens
  <2>2. UNCHANGED ledgerVars BY <2>1 DEF Opens, Read
  <2>3. ASSUME NEW q \in Requests, q # r PROVE Holds(q)'
    <3>1. /\ pc'[q] = pc[q] /\ job'[q] = job[q] /\ rd'[q] = rd[q]
          /\ \A d \in Expenses : lock[d] = q => lock'[d] = q
      BY <1>0, <2>1, <2>3, OpensLeavesOthers
    <3>2. Holds(q) BY <1>h
    <3>3. \A d \in Expenses : refunded[d] <= refunded[d] BY <1>a
    <3> QED BY <1>0, <1>a, <2>2, <3>1, <3>2, <3>3, HoldsStable DEF ledgerVars
  <2>4. Holds(r)'
    <3>1. /\ job'[r].op = op /\ job'[r].e = e /\ rd'[r].net = Net(e)
          /\ op \in Locking => lock'[e] = r
      BY <1>0, <2>1 DEF Opens, Read, TypeOK
    <3>2. Net(e) \in Int /\ Net(e) <= Net(e)
      BY <1>a, GrossAssumption DEF Net
    <3>3. op = "correct" => kind[e] = "personal" /\ state[e] \in KindCorrectable
      BY <2>1 DEF Opens
    <3> QED BY <2>2, <3>1, <3>2, <3>3 DEF Holds, ledgerVars, Net
  <2>5. \A q \in Requests : Holds(q)' BY <2>3, <2>4
  <2>6. ReadsTwice' BY <1>0, <2>1 DEF RefundInv, ReadsTwice, Opens, Read, TypeOK
  <2> QED BY <1>0, <1>u, <1>h1, <2>2, <2>5, <2>6 DEF RefundInv, ledgerVars
<1>3. ASSUME NEW r \in Requests, Step(r) PROVE RefundInv'
  <2> DEFINE e == job[r].e
  <2>0. e \in Expenses /\ rd[r].net \in Int BY <1>0 DEF TypeOK, Job, Reading
  <2>1. CASE ReadAllocation(r)
    <3>1. /\ UNCHANGED <<ledgerVars, lock, job>> /\ job[r].op \notin Locking
          /\ \A q \in Requests : q # r => pc'[q] = pc[q] /\ rd'[q] = rd[q]
      BY <1>0, <2>1 DEF ReadAllocation, RefundInv, ReadsTwice, TypeOK
    <3>2. ASSUME NEW q \in Requests PROVE Holds(q)'
      <4>1. CASE q = r BY <3>1, <4>1 DEF Holds
      <4>2. CASE q # r
        <5>1. UNCHANGED <<state, kind, refunded, lock>> BY <3>1 DEF ledgerVars
        <5>2. Holds(q) BY <1>h
        <5> QED BY <3>1, <4>2, <5>1, <5>2 DEF Holds, Net
      <4> QED BY <4>1, <4>2
    <3>3. ReadsTwice' BY <1>0, <2>1, <3>1 DEF ReadAllocation, RefundInv, ReadsTwice, TypeOK
    <3> QED BY <1>0, <1>u, <1>h1, <3>1, <3>2, <3>3 DEF RefundInv, ledgerVars
  <2>2. ASSUME Finish(r),
               \A d \in Expenses : \/ /\ refunded'[d] <= refunded[d]
                                      /\ state'[d] = state[d] /\ kind'[d] = kind[d]
                                   \/ lock[d] \in {r, NoRequest}
        PROVE  LockedReadingsHold' /\ ReadsTwice'
    <3>1. ASSUME NEW q \in Requests PROVE Holds(q)'
      <4>1. CASE pc'[q] = "done" BY <4>1 DEF Holds
      <4>2. CASE pc'[q] # "done"
        <5>1. /\ q # r /\ pc'[q] = pc[q] /\ job'[q] = job[q] /\ rd'[q] = rd[q]
              /\ \A d \in Expenses : lock[d] = q => lock'[d] = q
          BY <1>0, <2>2, <4>2, FinishLeavesOthers
        <5>2. \A d \in Expenses : lock[d] = q => lock[d] \notin {r, NoRequest}
          BY <5>1, NoRequestAssumption
        <5> QED BY <1>0, <1>a, <1>h, <2>2, <5>1, <5>2, HoldsStable
      <4> QED BY <4>1, <4>2
    <3>2. ReadsTwice' BY <1>0, <2>2 DEF Finish, RefundInv, ReadsTwice, TypeOK
    <3> QED BY <1>h1, <3>1, <3>2
  <2>s. \A d \in Expenses : refunded[d] <= refunded[d] BY <1>a
  <2>3. CASE CommitAllocate(r)
    <3>1. /\ Finish(r) /\ UNCHANGED <<kind, refunded, adj>>
          /\ lock[e] = NoRequest
          /\ \A d \in Expenses : d # e => state'[d] = state[d]
      BY <1>0, <2>3 DEF CommitAllocate, LockFree, TypeOK
    <3>2. LockedReadingsHold' /\ ReadsTwice' BY <2>2, <2>s, <3>1
    <3> QED BY <1>0, <1>u, <3>1, <3>2 DEF RefundInv
  <2>4. CASE CommitRecord(r)
    <3>1. PICK amount \in 1..Gross :
            /\ RefundFits(amount, rd[r].net)
            /\ adj' = [adj EXCEPT ![r] = [st |-> "active", e |-> e, amount |-> amount,
                                          by |-> NoRequest]]
            /\ refunded' = [refunded EXCEPT ![e] = @ + amount]
      BY <2>4 DEF CommitRecord
    <3>2. amount \in Int /\ amount >= 0 /\ amount <= rd[r].net
      BY <2>0, <3>1, GrossAssumption DEF RefundFits
    <3>3. rd[r].net <= Net(e) /\ lock[e] = r
      BY <1>h, <2>4 DEF Holds, CommitRecord, Asked, Locking
    <3>4. Finish(r) /\ UNCHANGED <<state, kind>> BY <2>4 DEF CommitRecord
    <3>5. \A d \in Expenses : d # e => refunded'[d] <= refunded[d]
      BY <1>a, <3>1
    <3>6. LockedReadingsHold' /\ ReadsTwice' BY <2>2, <3>3, <3>4, <3>5
    <3>7. NetNonNegative'
      <4>1. Gross - (refunded[e] + amount) >= 0
        BY <1>a, <2>0, <3>2, <3>3, GrossAssumption DEF Net
      <4> QED BY <1>a, <2>0, <3>1, <4>1 DEF RefundInv, NetNonNegative, Net
    <3>8. AmountsNonNegative'
      BY <1>0, <3>1, <3>2 DEF RefundInv, AmountsNonNegative, TypeOK
    <3> QED BY <1>0, <3>6, <3>7, <3>8 DEF RefundInv
  <2>5. CASE CommitReverse(r)
    <3> DEFINE a == job[r].a
    <3>0. a \in Requests BY <1>0, <2>5 DEF CommitReverse, Asked, TypeOK
    <3>1. /\ adj[a] \in Adjustment /\ adj[a].e \in Expenses
          /\ Counted(a) \in Int /\ Counted(a) >= 0
      BY <1>0, <3>0 DEF RefundInv, AmountsNonNegative, TypeOK, Adjustment, Counted
    <3>2. adj' = [adj EXCEPT ![a] = [adj[a] EXCEPT !.st = "reversed", !.by = r]]
      BY <2>5 DEF CommitReverse
    <3>3. refunded' = [refunded EXCEPT ![adj[a].e] = refunded[adj[a].e] - Counted(a)]
      BY <2>5 DEF CommitReverse
    <3>4. Finish(r) /\ UNCHANGED <<state, kind>> BY <2>5 DEF CommitReverse
    <3> HIDE DEF a
    <3>5. \A d \in Expenses : refunded'[d] <= refunded[d] BY <1>a, <3>1, <3>3
    <3>6. LockedReadingsHold' /\ ReadsTwice' BY <2>2, <3>4, <3>5
    <3>7. NetNonNegative'
      BY <1>a, <3>5, GrossAssumption DEF RefundInv, NetNonNegative, Net
    <3>8. [adj[a] EXCEPT !.st = "reversed", !.by = r].amount = adj[a].amount
      BY <3>1 DEF Adjustment
    <3>9. AmountsNonNegative'
      BY <1>0, <3>0, <3>2, <3>8 DEF RefundInv, AmountsNonNegative, TypeOK
    <3> QED BY <1>0, <3>6, <3>7, <3>9 DEF RefundInv
  <2>6. CASE CommitDistribute(r)
    <3>1. Finish(r) /\ UNCHANGED <<state, kind, refunded, adj>> BY <2>6 DEF CommitDistribute
    <3>2. LockedReadingsHold' /\ ReadsTwice' BY <2>2, <2>s, <3>1
    <3> QED BY <1>0, <1>u, <3>1, <3>2 DEF RefundInv
  <2>7. CASE CommitCorrect(r)
    <3>1. /\ Finish(r) /\ UNCHANGED <<refunded, adj>>
          /\ \A d \in Expenses : d # e => state'[d] = state[d] /\ kind'[d] = kind[d]
      BY <1>0, <2>7 DEF CommitCorrect, TypeOK
    <3>2. lock[e] = r BY <1>h, <2>7 DEF Holds, CommitCorrect, Asked, Locking
    <3>3. LockedReadingsHold' /\ ReadsTwice' BY <2>2, <2>s, <3>1, <3>2
    <3> QED BY <1>0, <1>u, <3>1, <3>3 DEF RefundInv
  <2>8. CASE CommitTransition(r)
    <3>1. /\ Finish(r) /\ UNCHANGED <<kind, refunded, adj>>
          /\ lock[e] = NoRequest
          /\ \A d \in Expenses : d # e => state'[d] = state[d]
      BY <1>0, <2>8 DEF CommitTransition, LockFree, TypeOK
    <3>2. LockedReadingsHold' /\ ReadsTwice' BY <2>2, <2>s, <3>1
    <3> QED BY <1>0, <1>u, <3>1, <3>2 DEF RefundInv
  <2>9. CASE Rollback(r)
    <3>1. Finish(r) /\ UNCHANGED <<state, kind, refunded, adj>>
      BY <2>9 DEF Rollback, ledgerVars
    <3>2. LockedReadingsHold' /\ ReadsTwice' BY <2>2, <2>s, <3>1
    <3> QED BY <1>0, <1>u, <3>1, <3>2 DEF RefundInv
  <2> QED BY <1>3, <2>1, <2>3, <2>4, <2>5, <2>6, <2>7, <2>8, <2>9 DEF Step
<1> QED BY <1>1, <1>2, <1>3 DEF Next

\* An expense is never refunded below zero, for any number of requests.
THEOREM NetStaysNonNegative == Spec => []NetNonNegative
<1>1. RefundInv => NetNonNegative BY DEF RefundInv
<1> QED BY <1>1, RefundInit, RefundStep, PTL DEF Spec

\* What was read under the row lock still holds at the commit.
THEOREM LockProtectsReadings == Spec => []LockedReadingsHold
<1>1. RefundInv => LockedReadingsHold BY DEF RefundInv
<1> QED BY <1>1, RefundInit, RefundStep, PTL DEF Spec

-----------------------------------------------------------------------------
(* Splits                                                                  *)

\* What a step may do to the state and the split of an expense, and to the kind.
LEMMA StateSteps ==
    ASSUME TypeOK, NEW r \in Requests, Step(r)
    PROVE  \/ UNCHANGED <<state, live, kind>>
           \/ /\ Finish(r) /\ job[r].op \in {"allocate", "correct"} /\ pc[r] = "open"
              /\ state' = [state EXCEPT ![job[r].e] = StateAfterAllocation(@, rd[r].state)]
              /\ \A d \in Expenses : d # job[r].e => live'[d] = live[d]
              /\ live'[job[r].e] # {}
              /\ \A d \in Expenses : kind'[d] \in {kind[d], "shared"}
           \/ /\ Finish(r) /\ job[r].op = "distribute" /\ pc[r] = "open"
              /\ \A d \in Expenses : d # job[r].e => live'[d] = live[d]
              /\ live'[job[r].e] # {}
              /\ UNCHANGED <<state, kind>>
           \/ /\ Finish(r) /\ job[r].op = "transition" /\ pc[r] = "open"
              /\ state' = [state EXCEPT ![job[r].e] = job[r].to]
              /\ UNCHANGED <<live, kind>>
<1>0. job[r].e \in Expenses BY DEF TypeOK, Job
<1>1. ASSUME NEW total, NEW others, NewVersion(r, total, others)
      PROVE  /\ \A d \in Expenses : d # job[r].e => live'[d] = live[d]
             /\ live'[job[r].e] # {}
  BY <1>0, <1>1 DEF NewVersion, TypeOK
<1>2. CASE CommitAllocate(r) BY <1>1, <1>2 DEF CommitAllocate, Asked
<1>3. CASE CommitDistribute(r) BY <1>1, <1>3 DEF CommitDistribute, Asked
<1>4. CASE CommitCorrect(r) BY <1>1, <1>4 DEF CommitCorrect, Asked, TypeOK
<1>5. CASE CommitTransition(r) BY <1>5 DEF CommitTransition, Asked
<1> QED BY <1>2, <1>3, <1>4, <1>5
        DEF Step, ReadAllocation, CommitRecord, CommitReverse, Rollback, ledgerVars

\* The state and the split agree because no request that read another state can find the
\* expense approved again, so the state it writes back is never one without a split.
InFlight(q) == pc[q] \in {"reading", "open"}
NotApprovedAgain ==
    \A q \in Requests : InFlight(q) =>
        /\ rd[q].state # "approved" => state[job[q].e] # "approved"
        /\ job[q].op \in {"distribute", "transition"} => rd[q].state # "approved"
        /\ job[q].op = "transition" => job[q].to # "approved"

SplitInv == TypeOK /\ NotApprovedAgain /\ AllocationMatchesState

\* The requested states an expense can only be in once it is divided.
DividedTargets == Targets \subseteq {"ready_to_sync", "synced", "reconciled"}

LEMMA SplitInit == Init => SplitInv
BY TypeInit DEF Init, SplitInv, NotApprovedAgain, InFlight, AllocationMatchesState

LEMMA SplitStep == DividedTargets /\ SplitInv /\ [Next]_vars => SplitInv'
<1> SUFFICES ASSUME DividedTargets, SplitInv, [Next]_vars PROVE SplitInv' OBVIOUS
<1>0. TypeOK /\ TypeOK' BY TypeStep DEF SplitInv
<1>1. CASE UNCHANGED vars
  BY <1>0, <1>1 DEF vars, SplitInv, NotApprovedAgain, InFlight, AllocationMatchesState
<1>2. ASSUME NEW r \in Requests, Begin(r) PROVE SplitInv'
  <2>1. PICK op \in Ops, e \in Expenses, to \in ExpenseStates, next \in {"reading", "open"} :
            Opens(r, op, e, to, next)
    BY <1>0, <1>2, BeginOpens
  <2>2. UNCHANGED <<state, live>> BY <2>1 DEF Opens, Read, ledgerVars
  <2>3. /\ job'[r].op = op /\ job'[r].e = e /\ job'[r].to = to /\ rd'[r].state = state[e]
    BY <1>0, <2>1 DEF Opens, Read, TypeOK
  <2>4. op \in {"distribute", "transition"} => state[e] # "approved"
    BY <2>1 DEF Opens, SplitInv, AllocationMatchesState, DividedTargets, ExpenseTransitions,
                ExpenseStates
  <2>5. op = "transition" => to # "approved" BY <2>1 DEF Opens, DividedTargets
  <2>6. NotApprovedAgain'
    <3> SUFFICES ASSUME NEW q \in Requests, InFlight(q)'
                 PROVE  /\ rd'[q].state # "approved" => state'[job'[q].e] # "approved"
                        /\ job'[q].op \in {"distribute", "transition"}
                               => rd'[q].state # "approved"
                        /\ job'[q].op = "transition" => job'[q].to # "approved"
      BY DEF NotApprovedAgain
    <3>1. CASE q = r BY <2>2, <2>3, <2>4, <2>5, <3>1
    <3>2. CASE q # r
      <4>1. pc'[q] = pc[q] /\ job'[q] = job[q] /\ rd'[q] = rd[q]
        BY <1>0, <2>1, <3>2, OpensLeavesOthers
      <4> QED BY <2>2, <4>1 DEF SplitInv, NotApprovedAgain, InFlight
    <3> QED BY <3>1, <3>2
  <2> QED BY <1>0, <2>2, <2>6 DEF SplitInv, AllocationMatchesState
<1>3. ASSUME NEW r \in Requests, Step(r) PROVE SplitInv'
  <2> DEFINE e == job[r].e
  <2>0. e \in Expenses BY <1>0 DEF TypeOK, Job
  <2>a. ASSUME NEW s \in ExpenseStates, s # "approved" PROVE
            StateAfterAllocation(s, rd[r].state) # "approved"
    BY <2>a DEF StateAfterAllocation
  <2>1. CASE UNCHANGED <<state, live, kind>> /\ ~Finish(r)
    <3>1. ReadAllocation(r)
      BY <1>3, <2>1 DEF Step, CommitAllocate, CommitRecord, CommitReverse, CommitDistribute,
                        CommitCorrect, CommitTransition, Rollback
    <3>2. NotApprovedAgain'
      BY <1>0, <2>1, <3>1 DEF ReadAllocation, SplitInv, NotApprovedAgain, InFlight, TypeOK,
                              Reading
    <3> QED BY <1>0, <2>1, <3>2 DEF SplitInv, AllocationMatchesState
  <2>2. ASSUME Finish(r), \A d \in Expenses : state[d] # "approved" => state'[d] # "approved"
        PROVE  NotApprovedAgain'
    <3> SUFFICES ASSUME NEW q \in Requests, InFlight(q)'
                 PROVE  /\ rd'[q].state # "approved" => state'[job'[q].e] # "approved"
                        /\ job'[q].op \in {"distribute", "transition"}
                               => rd'[q].state # "approved"
                        /\ job'[q].op = "transition" => job'[q].to # "approved"
      BY DEF NotApprovedAgain
    <3>1. pc'[q] = pc[q] /\ job'[q] = job[q] /\ rd'[q] = rd[q]
      BY <1>0, <2>2, FinishLeavesOthers DEF InFlight
    <3>2. job[q].e \in Expenses BY <1>0 DEF TypeOK, Job
    <3> QED BY <2>2, <3>1, <3>2 DEF SplitInv, NotApprovedAgain, InFlight
  <2>3. CASE UNCHANGED <<state, live, kind>> /\ Finish(r)
    BY <1>0, <2>2, <2>3 DEF SplitInv, AllocationMatchesState
  <2>4. CASE /\ Finish(r) /\ job[r].op \in {"allocate", "correct"} /\ pc[r] = "open"
             /\ state' = [state EXCEPT ![e] = StateAfterAllocation(@, rd[r].state)]
             /\ \A d \in Expenses : d # e => live'[d] = live[d]
             /\ live'[e] # {}
    <3>1. \A d \in Expenses : d # e => state'[d] = state[d] BY <1>0, <2>4 DEF TypeOK
    <3>2. state'[e] = StateAfterAllocation(state[e], rd[r].state)
      BY <1>0, <2>0, <2>4 DEF TypeOK
    <3>3. state'[e] # "approved"
      BY <1>0, <2>4, <3>2 DEF StateAfterAllocation, SplitInv, NotApprovedAgain, InFlight
    <3>4. NotApprovedAgain' BY <2>2, <2>4, <3>1, <3>3
    <3> QED BY <1>0, <2>4, <3>1, <3>3, <3>4 DEF SplitInv, AllocationMatchesState
  <2>5. CASE /\ Finish(r) /\ job[r].op = "distribute" /\ pc[r] = "open"
             /\ \A d \in Expenses : d # e => live'[d] = live[d]
             /\ live'[e] # {}
             /\ UNCHANGED state
    <3>1. state[e] # "approved" BY <2>5 DEF SplitInv, NotApprovedAgain, InFlight
    <3>2. NotApprovedAgain' BY <2>2, <2>5
    <3> QED BY <1>0, <2>5, <3>1, <3>2 DEF SplitInv, AllocationMatchesState
  <2>6. CASE /\ Finish(r) /\ job[r].op = "transition" /\ pc[r] = "open"
             /\ state' = [state EXCEPT ![e] = job[r].to]
             /\ UNCHANGED live
    <3>1. state[e] # "approved" /\ job[r].to # "approved"
      BY <2>6 DEF SplitInv, NotApprovedAgain, InFlight
    <3>2. \A d \in Expenses : state'[d] = IF d = e THEN job[r].to ELSE state[d]
      BY <1>0, <2>6 DEF TypeOK
    <3>3. NotApprovedAgain' BY <2>2, <2>6, <3>1, <3>2
    <3> QED BY <1>0, <2>6, <3>1, <3>2, <3>3 DEF SplitInv, AllocationMatchesState
  <2> HIDE DEF e
  <2> QED BY <1>0, <1>3, <2>1, <2>3, <2>4, <2>5, <2>6, StateSteps DEF e
<1> QED BY <1>1, <1>2, <1>3 DEF Next

\* The state and the split agree as long as transitions are asked only for later states, as
\* the one route that asks for any does.
THEOREM StateAgreesWithSplit ==
    ASSUME DividedTargets PROVE Spec => []AllocationMatchesState
<1>1. SplitInv /\ [Next]_vars => SplitInv' BY SplitStep
<1>2. SplitInv => AllocationMatchesState BY DEF SplitInv
<1> QED BY <1>1, <1>2, SplitInit, PTL DEF Spec

-----------------------------------------------------------------------------
(* Kinds                                                                   *)

\* A kind read as debt-creating stays so, and a request that may still move an expense to a
\* Splitwise state read such a kind.
DebtReadingHolds(q) ==
    InFlight(q) =>
        /\ rd[q].kind \in DebtCreating => kind[job[q].e] \in DebtCreating
        /\ job[q].op = "transition" /\ job[q].to = "synced" => rd[q].kind \in DebtCreating
        /\ job[q].op = "transition" /\ job[q].to = "ready_to_sync" /\ pc[q] = "open"
               => rd[q].kind \in DebtCreating

DebtInv == TypeOK /\ (\A q \in Requests : DebtReadingHolds(q)) /\ ReadyOnlyWithDebt

LEMMA DebtInit == Init => DebtInv
BY TypeInit DEF Init, DebtInv, DebtReadingHolds, InFlight, ReadyOnlyWithDebt

LEMMA DebtStep == DebtInv /\ [Next]_vars => DebtInv'
<1> SUFFICES ASSUME DebtInv, [Next]_vars PROVE DebtInv' OBVIOUS
<1>0. TypeOK /\ TypeOK' BY TypeStep DEF DebtInv
<1>1. CASE UNCHANGED vars
  BY <1>0, <1>1 DEF vars, DebtInv, DebtReadingHolds, InFlight, ReadyOnlyWithDebt
<1>2. ASSUME NEW q \in Requests, pc'[q] = pc[q], job'[q] = job[q], rd'[q] = rd[q],
             \A d \in Expenses : kind'[d] \in {kind[d], "shared"}
      PROVE  DebtReadingHolds(q)'
  <2>1. job[q].e \in Expenses BY <1>0 DEF TypeOK, Job
  <2>2. DebtReadingHolds(q) BY DEF DebtInv
  <2> QED BY <1>2, <2>1, <2>2 DEF DebtReadingHolds, InFlight, DebtCreating
<1>3. ASSUME NEW r \in Requests, Begin(r) PROVE DebtInv'
  <2>1. PICK op \in Ops, e \in Expenses, to \in ExpenseStates, next \in {"reading", "open"} :
            Opens(r, op, e, to, next)
    BY <1>0, <1>3, BeginOpens
  <2>2. UNCHANGED <<state, kind>> BY <2>1 DEF Opens, Read, ledgerVars
  <2>3. /\ job'[r].op = op /\ job'[r].e = e /\ job'[r].to = to /\ rd'[r].kind = kind[e]
        /\ pc'[r] = next
    BY <1>0, <2>1 DEF Opens, Read, TypeOK
  <2>4. op = "transition" => next = "reading" BY <2>1 DEF Opens
  <2>5. op = "transition" /\ to = "synced" => state[e] = "ready_to_sync"
    BY <1>0, <2>1 DEF Opens, ExpenseTransitions, ExpenseStates, TypeOK
  <2>6. op = "transition" /\ to = "synced" => kind[e] \in DebtCreating
    BY <2>5 DEF DebtInv, ReadyOnlyWithDebt
  <2>7. DebtReadingHolds(r)' BY <2>2, <2>3, <2>4, <2>6 DEF DebtReadingHolds
  <2>8. ASSUME NEW q \in Requests, q # r PROVE DebtReadingHolds(q)'
    BY <1>0, <1>2, <2>1, <2>2, <2>8, OpensLeavesOthers
  <2> QED BY <1>0, <2>2, <2>7, <2>8 DEF DebtInv, ReadyOnlyWithDebt
<1>4. ASSUME NEW r \in Requests, Step(r) PROVE DebtInv'
  <2> DEFINE e == job[r].e
  <2>0. e \in Expenses BY <1>0 DEF TypeOK, Job
  <2>1. ASSUME ReadAllocation(r) PROVE DebtInv'
    <3>1. UNCHANGED <<state, kind, job>>
      BY <2>1 DEF ReadAllocation, ledgerVars
    <3>2. /\ pc[r] = "reading" /\ pc'[r] = "open" /\ rd'[r].kind = rd[r].kind
          /\ job[r].to = "ready_to_sync" => rd[r].kind \in DebtCreating
          /\ \A q \in Requests : q # r => pc'[q] = pc[q] /\ rd'[q] = rd[q]
      BY <1>0, <2>1 DEF ReadAllocation, CanEnterReadyToSync, TypeOK, Reading
    <3>3. DebtReadingHolds(r)' BY <3>1, <3>2 DEF DebtInv, DebtReadingHolds, InFlight
    <3>4. ASSUME NEW q \in Requests, q # r PROVE DebtReadingHolds(q)'
      BY <1>2, <3>1, <3>2, <3>4
    <3> QED BY <1>0, <3>1, <3>3, <3>4 DEF DebtInv, ReadyOnlyWithDebt
  <2>2. ASSUME Finish(r), \A d \in Expenses : kind'[d] \in {kind[d], "shared"}
        PROVE  \A q \in Requests : DebtReadingHolds(q)'
    <3> SUFFICES ASSUME NEW q \in Requests, InFlight(q)' PROVE DebtReadingHolds(q)'
      BY DEF DebtReadingHolds
    <3> QED BY <1>0, <1>2, <2>2, FinishLeavesOthers DEF InFlight
  <2>3. CASE UNCHANGED <<state, live, kind>>
    <3>1. CASE Finish(r) BY <1>0, <2>2, <2>3, <3>1 DEF DebtInv, ReadyOnlyWithDebt
    <3>2. CASE ~Finish(r)
      BY <1>4, <2>1, <3>2 DEF Step, CommitAllocate, CommitRecord, CommitReverse,
                              CommitDistribute, CommitCorrect, CommitTransition, Rollback
    <3> QED BY <3>1, <3>2
  <2>4. CASE /\ Finish(r) /\ job[r].op \in {"allocate", "correct"} /\ pc[r] = "open"
             /\ state' = [state EXCEPT ![e] = StateAfterAllocation(@, rd[r].state)]
             /\ \A d \in Expenses : kind'[d] \in {kind[d], "shared"}
    <3>1. \A d \in Expenses : state'[d] \in {state[d], "allocated"}
      BY <1>0, <2>4 DEF TypeOK, StateAfterAllocation
    <3> QED BY <1>0, <2>2, <2>4, <3>1 DEF DebtInv, ReadyOnlyWithDebt, DebtCreating
  <2>5. CASE /\ Finish(r) /\ UNCHANGED <<state, kind>>
    BY <1>0, <2>2, <2>5 DEF DebtInv, ReadyOnlyWithDebt
  <2>6. CASE /\ Finish(r) /\ job[r].op = "transition" /\ pc[r] = "open"
             /\ state' = [state EXCEPT ![e] = job[r].to]
             /\ UNCHANGED kind
    <3>1. \A d \in Expenses : state'[d] = IF d = e THEN job[r].to ELSE state[d]
      BY <1>0, <2>6 DEF TypeOK
    <3>2. job[r].to \in {"ready_to_sync", "synced"} => kind[e] \in DebtCreating
      BY <2>6 DEF DebtInv, DebtReadingHolds, InFlight
    <3> QED BY <1>0, <2>2, <2>6, <3>1, <3>2 DEF DebtInv, ReadyOnlyWithDebt
  <2> HIDE DEF e
  <2> QED BY <1>0, <1>4, <2>3, <2>4, <2>5, <2>6, StateSteps DEF e
<1> QED BY <1>1, <1>3, <1>4 DEF Next

\* No gift and no personal expense is ever ready for Splitwise, whatever states are asked for.
THEOREM OnlyDebtsAreReady == Spec => []ReadyOnlyWithDebt
<1>1. DebtInv => ReadyOnlyWithDebt BY DEF DebtInv
<1> QED BY <1>1, DebtInit, DebtStep, PTL DEF Spec

-----------------------------------------------------------------------------
(* What a step may never do                                                *)

\* A kind changes only as a whole correction.
THEOREM KindChangesAreComplete == Spec => KindChangeIsComplete
<1>1. RefundInv /\ [Next]_vars => [\A e \in Expenses : CompleteKindChange(e)]_vars
  <2> SUFFICES ASSUME RefundInv, Next, NEW d \in Expenses PROVE CompleteKindChange(d)
    OBVIOUS
  <2>1. TypeOK BY DEF RefundInv
  <2>2. CASE UNCHANGED kind BY <2>2 DEF CompleteKindChange
  <2>3. ASSUME NEW r \in Requests, CommitCorrect(r) PROVE CompleteKindChange(d)
    <3> DEFINE new == [id |-> r, total |-> rd[r].net, others |-> TRUE]
    <3>1. /\ pc[r] = "open" /\ job[r].op = "correct" /\ NewVersion(r, rd[r].net, TRUE)
          /\ kind' = [kind EXCEPT ![job[r].e] = "shared"]
      BY <2>3 DEF CommitCorrect, Asked
    <3>2. /\ kind[job[r].e] = "personal" /\ state[job[r].e] \in KindCorrectable
          /\ rd[r].net <= Net(job[r].e)
      BY <3>1 DEF RefundInv, LockedReadingsHold, Locking
    <3>3. CASE d = job[r].e
      <4>1. new \in live'[d] BY <2>1, <3>1, <3>3 DEF NewVersion, TypeOK
      <4>2. new.others /\ new.total = rd[r].net OBVIOUS
      <4> HIDE DEF new
      <4> QED BY <3>2, <3>3, <4>1, <4>2 DEF CompleteKindChange
    <3>4. CASE d # job[r].e BY <2>1, <3>1, <3>4 DEF TypeOK, CompleteKindChange
    <3> QED BY <3>3, <3>4
  <2>4. ASSUME NEW r \in Requests, Begin(r) PROVE UNCHANGED kind
    BY <2>1, <2>4, BeginOpens DEF Opens, Read, ledgerVars
  <2> QED BY <2>2, <2>3, <2>4
          DEF Next, Step, ReadAllocation, CommitAllocate, CommitRecord, CommitReverse,
              CommitDistribute, CommitTransition, Rollback, ledgerVars
<1> QED BY <1>1, RefundInit, RefundStep, PTL DEF Spec, KindChangeIsComplete

\* A split committed under the row lock asks for no more than the expense still costs.
THEOREM LockedSplitsNeverOverstate == Spec => LockedSplitNeverOverstates
<1>1. RefundInv /\ [Next]_vars => 
                  [\A r \in Requests, e \in Expenses : NeverOverstates(r, e)]_vars
  <2> SUFFICES ASSUME RefundInv, Next, NEW q \in Requests, NEW e \in Expenses,
                      CommitsSplit(q, {"distribute", "correct"}, e), NEW al \in live'[e]
               PROVE  al.total <= Gross - refunded'[e]
    BY DEF NeverOverstates, Net
  <2>0. /\ pc[q] = "open" /\ pc'[q] = "done" /\ job[q].op \in {"distribute", "correct"}
        /\ job[q].e = e /\ live'[e] # live[e]
    BY DEF CommitsSplit
  <2>1. TypeOK BY DEF RefundInv
  <2>2. rd[q].net <= Net(e) BY <2>0 DEF RefundInv, LockedReadingsHold, Locking
  <2>3. \A r \in Requests : ~Begin(r)
    <3> SUFFICES ASSUME NEW r \in Requests, Begin(r) PROVE FALSE OBVIOUS
    <3> QED BY <2>0, <2>1, BeginOpens DEF Opens, Read, ledgerVars
  <2>4. Step(q)
    <3>1. PICK r \in Requests : Step(r) BY <2>3 DEF Next
    <3>2. CASE r # q
      BY <2>0, <2>1, <3>1, <3>2
         DEF Step, ReadAllocation, CommitAllocate, CommitRecord, CommitReverse,
             CommitDistribute, CommitCorrect, CommitTransition, Rollback, Finish, TypeOK
    <3> QED BY <3>1, <3>2
  <2>5. CommitDistribute(q) \/ CommitCorrect(q)
    BY <2>0, <2>4 DEF Step, ReadAllocation, CommitAllocate, CommitRecord, CommitReverse,
                CommitTransition, Rollback, Asked, ledgerVars
  <2>6. \E others \in BOOLEAN : NewVersion(q, rd[q].net, others)
    BY <2>5 DEF CommitDistribute, CommitCorrect
  <2>7. al.total = rd[q].net
    <3>1. PICK others \in BOOLEAN : NewVersion(q, rd[q].net, others) BY <2>6
    <3> DEFINE new == [id |-> q, total |-> rd[q].net, others |-> others]
    <3>2. new.total = rd[q].net OBVIOUS
    <3>3. /\ live[e] \ rd[q].prev = {}
          /\ live' = [live EXCEPT ![e] = (live[e] \ rd[q].prev) \cup {new}]
      BY <2>0, <3>1 DEF NewVersion, OnlySupersedes
    <3> HIDE DEF new
    <3>4. live'[e] = {new} BY <2>1, <3>3 DEF TypeOK
    <3> QED BY <3>2, <3>4
  <2>8. UNCHANGED refunded BY <2>5 DEF CommitDistribute, CommitCorrect
  <2> QED BY <2>2, <2>7, <2>8 DEF Net
<1> QED BY <1>1, RefundInit, RefundStep, PTL DEF Spec, LockedSplitNeverOverstates

-----------------------------------------------------------------------------
(* Induction over a finite set, with the facts it proves given as a set.   *)

\* Among subsets of a finite set there is one that contains no other of them.
LEMMA LeastSubset ==
  ASSUME NEW S, IsFiniteSet(S), NEW C, C \subseteq SUBSET S, C # {}
  PROVE  \E T \in C : \A U \in C : ~(U \subseteq T /\ U # T)
<1>1. IsWellFoundedOn(StrictSubsetOrdering(S), FiniteSubsetsOf(S))
  BY FS_StrictSubsetOrderingWellFounded
<1>2. FiniteSubsetsOf(S) = SUBSET S
  BY FS_FiniteSubsetsOfFinite
<1>3. \E T \in C : \A U \in C : <<U, T>> \notin StrictSubsetOrdering(S)
  BY <1>1, <1>2, WFMin
<1> QED BY <1>3 DEF StrictSubsetOrdering

\* What holds of the empty set and of a set with one element more holds of all.
LEMMA OneByOne ==
  ASSUME NEW S, IsFiniteSet(S), NEW C, {} \in C,
         \A T \in SUBSET S : \A x \in S \ T : T \in C => T \cup {x} \in C
  PROVE  S \in C
<1> DEFINE D == {T \in SUBSET S : T \notin C}
<1>1. SUFFICES ASSUME S \notin C PROVE FALSE
  OBVIOUS
<1>2. PICK T \in D : \A U \in D : ~(U \subseteq T /\ U # T)
  <2>1. D \subseteq SUBSET S /\ D # {}
    BY <1>1
  <2> HIDE DEF D
  <2> QED BY <2>1, LeastSubset
<1>3. PICK x \in T : TRUE
  OBVIOUS
<1>4. T \ {x} \in C
  BY <1>2, <1>3
<1>5. T = (T \ {x}) \cup {x} /\ x \in S \ (T \ {x}) /\ T \ {x} \in SUBSET S
  BY <1>3
<1> QED BY <1>4, <1>5

-----------------------------------------------------------------------------
(* Sums: the fold of the community modules, one element at a time.         *)

Over(S, f) == SumFunctionOnSet(f, S)

Pick(s) == CHOOSE x \in s : TRUE
Unfolds(it, S, f) ==
    it = [s \in SUBSET S |-> IF s = {} THEN 0 ELSE f[Pick(s)] + it[s \ {Pick(s)}]]
Unfolding(S, f) == CHOOSE it : Unfolds(it, S, f)

LEMMA PickIn == ASSUME NEW s, s # {} PROVE Pick(s) \in s
  BY DEF Pick

LEMMA OverUnfolding == ASSUME NEW S, NEW f PROVE Over(S, f) = Unfolding(S, f)[S]
  BY Zenon DEF Over, SumFunctionOnSet, FoldFunctionOnSet, MapThenFoldSet, Unfolding, Unfolds, Pick

LEMMA UnfoldsAgree ==
  ASSUME NEW f, NEW T, IsFiniteSet(T), NEW U, U \subseteq T,
         NEW g, Unfolds(g, T, f), NEW h, Unfolds(h, U, f)
  PROVE  g[U] = h[U]
<1> DEFINE C == {W \in SUBSET U : g[W] # h[W]}
<1>1. SUFFICES ASSUME C # {} PROVE FALSE
  OBVIOUS
<1>2. IsFiniteSet(U)
  BY FS_Subset
<1>3. PICK W \in C : \A V \in C : ~(V \subseteq W /\ V # W)
  <2> HIDE DEF C
  <2>1. C \subseteq SUBSET U
    BY DEF C
  <2> QED BY <1>1, <1>2, <2>1, LeastSubset
<1>4. W \in SUBSET U /\ W \in SUBSET T /\ g[W] # h[W]
  OBVIOUS
<1>5. W # {}
  BY <1>4, {} \in SUBSET U, {} \in SUBSET T DEF Unfolds
<1>6. Pick(W) \in W
  BY <1>5, PickIn
<1> DEFINE V == W \ {Pick(W)}
<1>7. V \in SUBSET U /\ V \in SUBSET T /\ V # W /\ V \subseteq W
  BY <1>4, <1>6
<1>8. g[V] = h[V]
  BY <1>3, <1>7
<1>9. g[W] = f[Pick(W)] + g[V] /\ h[W] = f[Pick(W)] + h[V]
  BY <1>4, <1>5 DEF Unfolds
<1> QED BY <1>4, <1>8, <1>9

LEMMA UnfoldingExists ==
  ASSUME NEW S, IsFiniteSet(S), NEW f
  PROVE  Unfolds(Unfolding(S, f), S, f)
<1> DEFINE C == {T \in SUBSET S : ~ \E g : Unfolds(g, T, f)}
<1>1. SUFFICES C = {}
  <2>1. ASSUME C = {} PROVE \E g : Unfolds(g, S, f)
    BY <2>1
  <2> QED BY <2>1 DEF Unfolding
<1>2. SUFFICES ASSUME C # {} PROVE FALSE
  OBVIOUS
<1>3. PICK T \in C : \A U \in C : ~(U \subseteq T /\ U # T)
  <2> HIDE DEF C
  <2>1. C \subseteq SUBSET S
    BY DEF C
  <2> QED BY <1>2, <2>1, LeastSubset
<1>4. T \in SUBSET S /\ ~ \E g : Unfolds(g, T, f)
  OBVIOUS
<1>5. ASSUME NEW U \in SUBSET T, U # T PROVE Unfolds(Unfolding(U, f), U, f)
  <2>1. U \in SUBSET S /\ U \notin C
    BY <1>3, <1>4, <1>5
  <2>2. \E g : Unfolds(g, U, f)
    BY <2>1
  <2> QED BY <2>2 DEF Unfolding
<1> DEFINE sub(s) == Unfolding(s \ {Pick(s)}, f)[s \ {Pick(s)}]
           g == [s \in SUBSET T |-> IF s = {} THEN 0 ELSE f[Pick(s)] + sub(s)]
<1>6. ASSUME NEW s \in SUBSET T, s # {} PROVE g[s \ {Pick(s)}] = sub(s)
  <2> DEFINE W == s \ {Pick(s)}
  <2>1. Pick(s) \in s
    BY <1>6, PickIn
  <2>2. W \in SUBSET T /\ W # T
    BY <2>1
  <2>3. Unfolds(Unfolding(W, f), W, f)
    BY <2>2, <1>5
  <2>4. CASE W = {}
    <3>1. g[W] = 0
      BY <2>4
    <3>2. Unfolding(W, f)[W] = 0
      BY <2>3, <2>4, W \in SUBSET W DEF Unfolds
    <3> QED BY <3>1, <3>2
  <2>5. CASE W # {}
    <3> DEFINE V == W \ {Pick(W)}
    <3>1. Pick(W) \in W
      BY <2>5, PickIn
    <3>2. g[W] = f[Pick(W)] + Unfolding(V, f)[V]
      BY <2>2, <2>5
    <3>3. Unfolding(W, f)[W] = f[Pick(W)] + Unfolding(W, f)[V]
      BY <2>3, <2>5, W \in SUBSET W DEF Unfolds
    <3>4. V \in SUBSET T /\ V # T /\ V \subseteq W
      BY <3>1, <2>2
    <3>5. Unfolds(Unfolding(V, f), V, f)
      BY <3>4, <1>5
    <3>6. IsFiniteSet(W)
      BY <1>4, <2>2, FS_Subset
    <3> HIDE DEF V, W, g
    <3>7. Unfolding(W, f)[V] = Unfolding(V, f)[V]
      BY <3>4, <3>5, <3>6, <2>3, UnfoldsAgree
    <3> QED BY <3>2, <3>3, <3>7 DEF W
  <2> QED BY <2>4, <2>5
<1>7. \A s \in SUBSET T : s # {} => g[s] = f[Pick(s)] + g[s \ {Pick(s)}]
  BY <1>6
<1>8. g = [s \in SUBSET T |-> IF s = {} THEN 0 ELSE f[Pick(s)] + g[s \ {Pick(s)}]]
  BY <1>6
<1>9. Unfolds(g, T, f)
  BY <1>8 DEF Unfolds
<1> QED BY <1>9, <1>4

LEMMA SumEmpty == \A f : Over({}, f) = 0
<1> TAKE f
<1>1. Unfolds(Unfolding({}, f), {}, f)
  BY UnfoldingExists, FS_EmptySet
<1> QED BY <1>1, OverUnfolding, {} \in SUBSET {} DEF Unfolds

LEMMA SumPick ==
  ASSUME NEW S, IsFiniteSet(S), S # {}, NEW f
  PROVE  Over(S, f) = f[Pick(S)] + Over(S \ {Pick(S)}, f)
<1> DEFINE U == S \ {Pick(S)}
<1>1. IsFiniteSet(U) /\ U \subseteq S
  BY FS_Subset
<1>2. Unfolds(Unfolding(S, f), S, f) /\ Unfolds(Unfolding(U, f), U, f)
  BY <1>1, UnfoldingExists
<1>3. Unfolding(S, f)[S] = f[Pick(S)] + Unfolding(S, f)[U]
  BY <1>2, S \in SUBSET S DEF Unfolds
<1>4. Unfolding(S, f)[U] = Unfolding(U, f)[U]
  <2> HIDE DEF U
  <2> QED BY <1>1, <1>2, UnfoldsAgree
<1> QED BY <1>3, <1>4, OverUnfolding

LEMMA SumType ==
  ASSUME NEW S, IsFiniteSet(S), NEW f, \A x \in S : f[x] \in Int
  PROVE  Over(S, f) \in Int
<1> DEFINE C == {T \in SUBSET S : Over(T, f) \notin Int}
<1>1. SUFFICES ASSUME C # {} PROVE FALSE
  OBVIOUS
<1>2. PICK T \in C : \A U \in C : ~(U \subseteq T /\ U # T)
  <2>1. C \subseteq SUBSET S
    OBVIOUS
  <2> HIDE DEF C
  <2> QED BY <1>1, <2>1, LeastSubset
<1>3. T # {}
  BY SumEmpty
<1>4. Pick(T) \in T /\ IsFiniteSet(T)
  BY <1>3, PickIn, FS_Subset
<1>5. Over(T \ {Pick(T)}, f) \in Int
  BY <1>2, <1>4
<1> QED BY <1>3, <1>4, <1>5, SumPick

\* Any element may be taken out first: the sum does not depend on the choice.
LEMMA SumRemove ==
  ASSUME NEW S, IsFiniteSet(S), NEW f, \A x \in S : f[x] \in Int
  PROVE  \A y \in S : Over(S, f) = f[y] + Over(S \ {y}, f)
<1> DEFINE C == {T \in SUBSET S : ~ \A y \in T : Over(T, f) = f[y] + Over(T \ {y}, f)}
<1>1. SUFFICES ASSUME C # {} PROVE FALSE
  OBVIOUS
<1>2. PICK T \in C : \A U \in C : ~(U \subseteq T /\ U # T)
  <2>1. C \subseteq SUBSET S
    OBVIOUS
  <2> HIDE DEF C
  <2> QED BY <1>1, <2>1, LeastSubset
<1>3. PICK y \in T : Over(T, f) # f[y] + Over(T \ {y}, f)
  OBVIOUS
<1> DEFINE p == Pick(T)
<1>4. p \in T /\ IsFiniteSet(T) /\ IsFiniteSet(T \ {p}) /\ IsFiniteSet((T \ {p}) \ {y})
  BY <1>3, PickIn, FS_Subset
<1>5. Over(T, f) = f[p] + Over(T \ {p}, f)
  BY <1>3, <1>4, SumPick
<1>6. p # y
  BY <1>3, <1>5
<1>7. Over(T \ {p}, f) = f[y] + Over((T \ {p}) \ {y}, f)
  BY <1>2, <1>4, <1>6
<1>8. Over(T \ {y}, f) = f[p] + Over((T \ {y}) \ {p}, f)
  BY <1>2, <1>3, <1>4, <1>6
<1>9. (T \ {y}) \ {p} = (T \ {p}) \ {y}
  OBVIOUS
<1>10. Over((T \ {p}) \ {y}, f) \in Int /\ f[p] \in Int /\ f[y] \in Int
  BY <1>4, SumType
<1>11. Over(T \ {y}, f) = f[p] + Over((T \ {p}) \ {y}, f)
  BY <1>8, <1>9
<1> HIDE DEF p, C
<1> QED BY <1>3, <1>5, <1>7, <1>10, <1>11

\* A sum over one element more.
LEMMA SumAdd ==
  ASSUME NEW T, IsFiniteSet(T), NEW x, x \notin T, NEW f, \A y \in T \cup {x} : f[y] \in Int
  PROVE  Over(T \cup {x}, f) = f[x] + Over(T, f)
<1>1. IsFiniteSet(T \cup {x}) /\ (T \cup {x}) \ {x} = T
  BY FS_AddElement
<1> QED BY <1>1, SumRemove

LEMMA SumSame ==
  ASSUME NEW S, IsFiniteSet(S), NEW f, NEW g, \A x \in S : f[x] \in Int /\ g[x] = f[x]
  PROVE  Over(S, g) = Over(S, f)
<1> DEFINE C == {T \in SUBSET S : Over(T, g) = Over(T, f)}
<1>1. {} \in C
  BY SumEmpty
<1>2. ASSUME NEW T \in SUBSET S, NEW x \in S \ T, T \in C PROVE T \cup {x} \in C
  <2>1. IsFiniteSet(T)
    BY FS_Subset
  <2>2. Over(T \cup {x}, f) = f[x] + Over(T, f) /\ Over(T \cup {x}, g) = g[x] + Over(T, g)
    BY <2>1, SumAdd
  <2> QED BY <1>2, <2>2
<1> HIDE DEF C
<1>3. S \in C
  BY <1>1, <1>2, OneByOne
<1> QED BY <1>3 DEF C

-----------------------------------------------------------------------------
(* The refunded sum                                                        *)
(*                                                                         *)
(* RefundedIsSumOfActive is not inductive.  A refund adds a row to the sum *)
(* only if the request's row is not in it yet, so a request that is not    *)
(* over has no active adjustment; and there may be any number of requests, *)
(* of which finitely many have recorded a refund at a time.                *)

RecordsAtItsEnd == \A r \in Requests : pc[r] # "done" => adj[r].st # "active"
FinitelyManyActive == \A e \in Expenses : IsFiniteSet(Active(e))

SumInv == TypeOK /\ RecordsAtItsEnd /\ FinitelyManyActive /\ RefundedIsSumOfActive

LEMMA SumInit == Init => SumInv
<1> SUFFICES ASSUME Init PROVE SumInv OBVIOUS
<1>1. TypeOK BY TypeInit
<1>2. ASSUME NEW r \in Requests PROVE adj[r].st = "none" BY DEF Init, NoAdjustment
<1>3. ASSUME NEW e \in Expenses PROVE Active(e) = {} /\ refunded[e] = 0
  BY <1>2 DEF Active, Init
<1>4. ASSUME NEW e \in Expenses PROVE refunded[e] = SumFunctionOnSet(Amounts, Active(e))
  BY <1>3, SumEmpty DEF Over
<1>5. FinitelyManyActive BY <1>3, FS_EmptySet DEF FinitelyManyActive
<1> QED BY <1>1, <1>2, <1>4, <1>5 DEF SumInv, RecordsAtItsEnd, RefundedIsSumOfActive

\* A step that writes no adjustment and reopens no request.
LEMMA SumStays ==
    ASSUME SumInv, TypeOK', UNCHANGED <<adj, refunded>>,
           \A r \in Requests : pc[r] = "done" => pc'[r] = "done"
    PROVE  SumInv'
<1>1. \A e : Active(e)' = Active(e) BY DEF Active
<1>2. Amounts' = Amounts BY DEF Amounts
<1> QED BY <1>1, <1>2 DEF SumInv, RecordsAtItsEnd, FinitelyManyActive, RefundedIsSumOfActive

\* A refund is one row more, of its amount.
LEMMA SumOfRecord ==
    ASSUME SumInv, TypeOK', NEW r \in Requests, CommitRecord(r)
    PROVE  SumInv'
<1> DEFINE e == job[r].e
<1>0. TypeOK BY DEF SumInv
<1>1. PICK amount \in 1..Gross :
        /\ adj' = [adj EXCEPT ![r] = [st |-> "active", e |-> e, amount |-> amount,
                                      by |-> NoRequest]]
        /\ refunded' = [refunded EXCEPT ![e] = @ + amount]
  BY DEF CommitRecord
<1>2. /\ e \in Expenses /\ amount \in Int
      /\ pc[r] # "done" /\ pc'[r] = "done" /\ \A q \in Requests : q # r => pc'[q] = pc[q]
  BY <1>0, GrossAssumption DEF TypeOK, Job, CommitRecord, Asked, Finish
<1> HIDE DEF e
<1>3. adj[r].st # "active" BY <1>2 DEF SumInv, RecordsAtItsEnd
<1>4. /\ adj'[r].st = "active" /\ adj'[r].e = e /\ adj'[r].amount = amount
      /\ \A q \in Requests : q # r => adj'[q] = adj[q]
  BY <1>0, <1>1 DEF TypeOK
<1>5. ASSUME NEW q \in Requests PROVE Amounts'[q] \in Int /\ (q # r => Amounts'[q] = Amounts[q])
  BY <1>4 DEF Amounts, TypeOK, Adjustment
<1>6. RecordsAtItsEnd' BY <1>2, <1>4 DEF SumInv, RecordsAtItsEnd
<1>7. ASSUME NEW d \in Expenses
      PROVE  IsFiniteSet(Active(d)') /\ refunded'[d] = SumFunctionOnSet(Amounts', Active(d)')
  <2>1. r \notin Active(d) /\ Active(d) \subseteq Requests /\ IsFiniteSet(Active(d))
    BY <1>3, <1>7 DEF Active, SumInv, FinitelyManyActive
  <2>2. refunded[d] = Over(Active(d), Amounts)
    BY <1>7 DEF SumInv, RefundedIsSumOfActive, Over
  <2>3. Over(Active(d), Amounts') = Over(Active(d), Amounts)
    <3>1. \A q \in Active(d) : Amounts[q] \in Int /\ Amounts'[q] = Amounts[q]
      BY <1>5, <2>1
    <3> QED BY <2>1, <3>1, SumSame
  <2>4. CASE d # e
    <3>1. Active(d)' = Active(d) BY <1>3, <1>4, <2>4 DEF Active
    <3>2. refunded'[d] = refunded[d] BY <1>0, <1>1, <1>2, <1>7, <2>4 DEF TypeOK
    <3> QED BY <2>1, <2>2, <2>3, <3>1, <3>2 DEF Over
  <2>5. CASE d = e
    <3>1. Active(d)' = Active(d) \cup {r} BY <1>3, <1>4, <2>5 DEF Active
    <3>2. refunded'[d] = refunded[d] + amount BY <1>0, <1>1, <1>2, <2>5 DEF TypeOK
    <3>3. \A q \in Active(d) \cup {r} : Amounts'[q] \in Int BY <1>5, <2>1
    <3>4. Over(Active(d) \cup {r}, Amounts') = Amounts'[r] + Over(Active(d), Amounts')
      BY <2>1, <3>3, SumAdd
    <3>5. Amounts'[r] = amount BY <1>4 DEF Amounts
    <3>6. Over(Active(d), Amounts) \in Int
      BY <1>0, <1>7, <2>2 DEF TypeOK
    <3>7. IsFiniteSet(Active(d)') BY <2>1, <3>1, FS_AddElement
    <3>8. refunded'[d] = Over(Active(d)', Amounts')
      BY <1>2, <2>2, <2>3, <3>1, <3>2, <3>4, <3>5, <3>6
    <3> QED BY <3>7, <3>8 DEF Over
  <2> QED BY <2>4, <2>5
<1> QED BY <1>6, <1>7 DEF SumInv, FinitelyManyActive, RefundedIsSumOfActive

\* A reversal takes its row out of the sum, and nothing if the row is no longer in it: two
\* people who reverse the same adjustment give its amount back once.
LEMMA SumOfReverse ==
    ASSUME SumInv, TypeOK', NEW r \in Requests, CommitReverse(r)
    PROVE  SumInv'
<1> DEFINE a == job[r].a
<1>0. TypeOK BY DEF SumInv
<1>1. /\ a \in Requests /\ adj[a].e \in Expenses /\ adj[a].amount \in Int
  <2>1. a \in Requests BY <1>0 DEF CommitReverse, Asked, TypeOK
  <2> QED BY <1>0, <2>1 DEF TypeOK, Adjustment
<1>2. /\ adj' = [adj EXCEPT ![a] = [adj[a] EXCEPT !.st = "reversed", !.by = r]]
      /\ refunded' = [refunded EXCEPT ![adj[a].e] = refunded[adj[a].e] - Counted(a)]
  BY DEF CommitReverse
<1>3. \A q \in Requests : pc[q] = "done" => pc'[q] = "done"
  BY <1>0 DEF CommitReverse, Finish, TypeOK
<1> HIDE DEF a
<1>4. /\ adj'[a].st = "reversed" /\ adj'[a].e = adj[a].e /\ adj'[a].amount = adj[a].amount
      /\ \A q \in Requests : q # a => adj'[q] = adj[q]
  <2>1. adj'[a] = [adj[a] EXCEPT !.st = "reversed", !.by = r] BY <1>0, <1>1, <1>2 DEF TypeOK
  <2>2. adj[a] \in Adjustment BY <1>0, <1>1 DEF TypeOK
  <2>3. \A q \in Requests : q # a => adj'[q] = adj[q] BY <1>0, <1>2 DEF TypeOK
  <2> QED BY <2>1, <2>2, <2>3 DEF Adjustment
<1>5. Amounts' = Amounts BY <1>4 DEF Amounts
<1>6. \A q \in Requests : Amounts[q] \in Int BY <1>0 DEF Amounts, TypeOK, Adjustment
<1>7. RecordsAtItsEnd' BY <1>3, <1>4 DEF SumInv, RecordsAtItsEnd
<1>8. ASSUME NEW d \in Expenses
      PROVE  IsFiniteSet(Active(d)') /\ refunded'[d] = SumFunctionOnSet(Amounts', Active(d)')
  <2>1. Active(d) \subseteq Requests /\ IsFiniteSet(Active(d))
    BY <1>8 DEF Active, SumInv, FinitelyManyActive
  <2>2. refunded[d] = Over(Active(d), Amounts)
    BY <1>8 DEF SumInv, RefundedIsSumOfActive, Over
  <2>3. refunded[d] \in Int BY <1>0, <1>8 DEF TypeOK
  <2>4. CASE a \notin Active(d)
    <3>1. Active(d)' = Active(d) BY <1>4, <2>4 DEF Active
    <3>2. refunded'[d] = refunded[d]
      <4>1. CASE adj[a].e # d BY <1>0, <1>1, <1>2, <1>8, <4>1 DEF TypeOK
      <4>2. CASE adj[a].e = d
        <5>1. Counted(a) = 0 BY <1>1, <2>4, <4>2 DEF Active, Counted
        <5> QED BY <1>0, <1>1, <1>2, <2>3, <4>2, <5>1 DEF TypeOK
      <4> QED BY <4>1, <4>2
    <3> QED BY <1>5, <2>1, <2>2, <3>1, <3>2 DEF Over
  <2>5. CASE a \in Active(d)
    <3>1. adj[a].e = d /\ adj[a].st = "active" BY <2>5 DEF Active
    <3>2. Active(d)' = Active(d) \ {a} BY <1>4 DEF Active
    <3>3. refunded'[d] = refunded[d] - adj[a].amount
      <4>1. Counted(a) = adj[a].amount BY <3>1 DEF Counted
      <4> QED BY <1>0, <1>2, <1>8, <3>1, <4>1 DEF TypeOK
    <3>4. Over(Active(d), Amounts) = Amounts[a] + Over(Active(d) \ {a}, Amounts)
      <4>1. \A q \in Active(d) : Amounts[q] \in Int BY <1>6, <2>1
      <4> QED BY <2>1, <2>5, <4>1, SumRemove
    <3>5. Amounts[a] = adj[a].amount BY <1>1 DEF Amounts
    <3>6. IsFiniteSet(Active(d) \ {a}) BY <2>1, FS_RemoveElement
    <3>7. Over(Active(d) \ {a}, Amounts) \in Int BY <1>6, <2>1, <3>6, SumType
    <3>8. refunded'[d] = Over(Active(d) \ {a}, Amounts)
      BY <1>1, <2>2, <3>3, <3>4, <3>5, <3>7
    <3> QED BY <1>5, <3>2, <3>6, <3>8 DEF Over
  <2> QED BY <2>4, <2>5
<1> QED BY <1>7, <1>8 DEF SumInv, FinitelyManyActive, RefundedIsSumOfActive

LEMMA SumStep == SumInv /\ [Next]_vars => SumInv'
<1> SUFFICES ASSUME SumInv, [Next]_vars PROVE SumInv' OBVIOUS
<1>1. TypeOK /\ TypeOK' BY TypeStep DEF SumInv
<1>2. CASE UNCHANGED vars BY <1>1, <1>2, SumStays DEF vars
<1>3. ASSUME NEW r \in Requests, Begin(r) PROVE SumInv'
  <2>1. UNCHANGED ledgerVars /\ \A q \in Requests : pc[q] = "done" => pc'[q] = "done"
    BY <1>1, <1>3, BeginOpens DEF Opens, Read, TypeOK
  <2> QED BY <1>1, <2>1, SumStays DEF ledgerVars
<1>4. ASSUME NEW r \in Requests, Step(r) PROVE SumInv'
  <2>1. CASE CommitRecord(r) BY <1>1, <2>1, SumOfRecord
  <2>2. CASE CommitReverse(r) BY <1>1, <2>2, SumOfReverse
  <2>3. CASE ~CommitRecord(r) /\ ~CommitReverse(r)
    <3>1. UNCHANGED <<adj, refunded>>
      BY <1>4, <2>3 DEF Step, ReadAllocation, CommitAllocate, CommitDistribute, CommitCorrect,
                        CommitTransition, Rollback, ledgerVars
    <3>2. \A q \in Requests : pc[q] = "done" => pc'[q] = "done"
      BY <1>1, <1>4, <2>3 DEF Step, ReadAllocation, CommitAllocate, CommitDistribute,
                              CommitCorrect, CommitTransition, Rollback, Finish, TypeOK
    <3> QED BY <1>1, <3>1, <3>2, SumStays
  <2> QED BY <2>1, <2>2, <2>3
<1> QED BY <1>2, <1>3, <1>4 DEF Next

\* What the refund ceiling is checked against is the sum of the adjustments still active, for
\* any number of refunds and reversals, also when two people reverse the same one at once.
THEOREM RefundedAddsUp == Spec => []RefundedIsSumOfActive
<1>1. SumInv => RefundedIsSumOfActive BY DEF SumInv
<1> QED BY <1>1, SumInit, SumStep, PTL DEF Spec
=============================================================================
