------------------------- MODULE SplitwiseSync_proof -------------------------
(***************************************************************************)
(* Theorems about pushing to Splitwise, for any number of expenses and     *)
(* requests and however their pushes overlap: what two pushes in flight at *)
(* once can spoil is confined to their own expense, and of every other     *)
(* expense there is one link, the rows say what stands, and they do what   *)
(* SplitwiseLink promises.                                                 *)
(***************************************************************************)
EXTENDS SplitwiseSync, ExpenseLedger_proof

\* What is true of every row and push, crossed or not.  A row is recorded by a request that is
\* over, and names an entry of its own expense that a request that is over made.
RowsAreRecorded ==
    \A i \in Requests : row[i].st # "none" =>
        /\ pc[i] = "done"
        /\ row[i].entry \in Requests /\ pc[row[i].entry] = "done"
        /\ remote[row[i].entry].e = row[i].e

\* A push makes an entry of its own, or corrects one of its expense that a row had named.
OwnEntry(r) == push[r].repair \in {"create", "recreated"} /\ push[r].entry = r
NamedEntry(r) ==
    /\ push[r].repair \in {"corrected", "withdrawn"}
    /\ push[r].entry \in Requests /\ pc[push[r].entry] = "done"
    /\ remote[push[r].entry].e = job[r].e

PushKnown(r) ==
    /\ job[r].op = "sync" => OwnEntry(r)
    /\ job[r].op = "resync" =>
          /\ job[r].a \in Requests
          /\ row[job[r].a].st # "none" /\ row[job[r].a].e = job[r].e
          /\ pc[r] \in {"open", "called"} => OwnEntry(r) \/ NamedEntry(r)
    /\ pc[r] = "called" => remote[push[r].entry].e = job[r].e

PushesKnown == \A r \in Requests : InFlightPush(r) => PushKnown(r)

\* The pushes of an expense that did not cross are in flight one at a time; first syncs alone
\* are as long as no first sync crossed.
PushesAlone ==
    \A q, r \in Requests :
        InFlightPush(q) /\ InFlightPush(r) /\ job[q].e = job[r].e /\ crossed[job[r].e] = {}
            => q = r
FirstsAlone ==
    \A q, r \in Requests :
        /\ InFlightPush(q) /\ InFlightPush(r) /\ job[q].e = job[r].e
        /\ job[q].op = "sync" /\ job[r].op = "sync" /\ "sync" \notin crossed[job[r].e]
        => q = r

\* The first sync of an expense finds no link, and nobody makes one before it is over.
FirstsUnlinked ==
    \A r \in Requests :
        InFlightPush(r) /\ job[r].op = "sync" /\ "sync" \notin crossed[job[r].e]
            => ~AlreadyLinked(job[r].e)

\* A repair still fits the row it was chosen for.
RepairFits(r) ==
    LET i == job[r].a IN
    /\ row[i].st \in Resyncable
    /\ pc[r] \in {"open", "called"} =>
          IF NothingStanding(row[i].st)
            THEN push[r].repair = "recreated" /\ push[r].entry = r
            ELSE push[r].repair \in {"corrected", "withdrawn"} /\ push[r].entry = row[i].entry
RepairsFit ==
    \A r \in Requests :
        InFlightPush(r) /\ job[r].op = "resync" /\ crossed[job[r].e] = {} => RepairFits(r)

\* Until it is recorded, what Splitwise accepted stands unless other people change it.
Accepted(r) ==
    LET entry == remote[push[r].entry] IN
    IF push[r].repair = "withdrawn" THEN entry.st = "deleted"
    ELSE entry.foreign \/ (entry.st = "standing" /\ entry.cost = rd[r].net)
AnswersStand ==
    \A r \in Requests :
        InFlightPush(r) /\ pc[r] = "called" /\ crossed[job[r].e] = {} => Accepted(r)

OneRowPerExpense ==
    \A i, j \in Requests :
        row[i].st # "none" /\ row[j].st # "none" /\ row[i].e = row[j].e
        /\ "sync" \notin crossed[row[i].e] => i = j

\* A move under way is one that was asked for.
MovesAsAsked ==
    \A r \in Requests : pc[r] \in {"reading", "open"} /\ job[r].op = "transition"
                          => job[r].to \in Targets

SyncInv ==
    /\ SyncTypeOK /\ MovesAsAsked
    /\ RowsAreRecorded /\ PushesKnown
    /\ PushesAlone /\ FirstsAlone /\ FirstsUnlinked /\ OneRowPerExpense
    /\ RepairsFit /\ AnswersStand /\ RowTellsWhatStands

-----------------------------------------------------------------------------
(* What each kind of step does to the rows, the pushes and the entries     *)

\* The other requests do not notice.
OthersStay(r) ==
    \A q \in Requests \ {r} :
        pc'[q] = pc[q] /\ job'[q] = job[q] /\ rd'[q] = rd[q] /\ push'[q] = push[q]

\* Some rows that said "synced" now say something else, and nothing else of any row changes.
OutOfStep(to) ==
    \A i \in Requests :
        \/ row'[i] = row[i]
        \/ row[i].st = "synced" /\ row'[i] = [row[i] EXCEPT !.st = to]

LEMMA FinishEnds ==
    ASSUME TypeOK, NEW r \in Requests, Finish(r)
    PROVE  /\ pc'[r] = "done"
           /\ \A q \in Requests \ {r} : pc'[q] = pc[q] /\ job'[q] = job[q] /\ rd'[q] = rd[q]
BY DEF Finish, TypeOK

\* A unit of work of the ledger touches no entry and no push but the one it gives up, and marks
\* synced rows stale at most.
LEMMA LedgerStepEffect ==
    ASSUME SyncTypeOK, MovesAsAsked, NEW r \in Requests, LedgerStep(r)
    PROVE  /\ SyncTypeOK' /\ MovesAsAsked'
           /\ OthersStay(r)
           /\ ~InFlightPush(r)'
           /\ pc[r] \in {"idle", "reading", "open"}
           /\ OutOfStep("stale")
           /\ remote' = remote /\ crossed' = crossed
           /\ \A e \in Expenses : "synced" \notin Targets /\ state'[e] = "synced"
                                      => state[e] = "synced"
<1> USE DEF SyncTypeOK
<1>1. TypeOK /\ TypeOK'
  <2>1. Next BY DEF LedgerStep, Next
  <2> QED BY <2>1, TypeStep
<1>2. /\ remote' = remote /\ crossed' = crossed
      /\ push' = [push EXCEPT ![r] = NoPush]
  BY DEF LedgerStep
<1>3. NoPush \in Push BY DEF NoPush, Push, Repairs
<1>4. SyncTypeOK' BY <1>1, <1>2, <1>3
<1>5. CASE Begin(r)
  <2>1. PICK op \in Ops, e \in Expenses, to \in ExpenseStates, next \in {"reading", "open"} :
            Opens(r, op, e, to, next)
    BY <1>1, <1>5, BeginOpens
  <2>2. pc[r] = "idle" /\ row' = row /\ state' = state
    BY <2>1 DEF Opens, Read, ledgerVars
  <2>3. OthersStay(r) BY <1>1, <1>2, <2>1 DEF Opens, Read, TypeOK, OthersStay
  <2>4. job'[r].op \notin Pushing
    BY <1>1, <1>5 DEF Begin, BeginAllocate, BeginRecord, BeginDistribute, BeginCorrect,
                      BeginTransition, BeginReverse, LockAndRead, Read, TypeOK, Pushing
  <2>5. job'[r].op = "transition" => job'[r].to \in Targets
    BY <1>1, <2>1 DEF Opens, Read, TypeOK
  <2>6. MovesAsAsked' BY <2>3, <2>5 DEF MovesAsAsked, OthersStay
  <2> QED BY <1>2, <1>4, <2>2, <2>3, <2>4, <2>6 DEF InFlightPush, OutOfStep
<1>6. CASE Step(r)
  <2>1. CASE ReadAllocation(r)
    BY <1>1, <1>2, <1>4, <2>1
       DEF ReadAllocation, ledgerVars, TypeOK, OthersStay, InFlightPush, Pushing, OutOfStep,
           MovesAsAsked
  <2>2. CASE ~ReadAllocation(r)
    <3>1. Finish(r) /\ pc[r] \in {"reading", "open"}
      BY <1>6, <2>2 DEF Step, CommitAllocate, CommitRecord, CommitReverse, CommitDistribute,
                        CommitCorrect, CommitTransition, Rollback, Asked
    <3>2. OthersStay(r) /\ ~InFlightPush(r)'
      BY <1>1, <1>2, <3>1, FinishEnds DEF SyncTypeOK, OthersStay, InFlightPush
    <3>3. OutOfStep("stale")
      <4>1. CASE CommitDistribute(r)
        BY <1>1, <4>1 DEF CommitDistribute, MarkStale, OutOfStep
      <4>2. CASE ~CommitDistribute(r)
        <5>1. row' = row
          BY <1>6, <2>2, <4>2 DEF Step, CommitAllocate, CommitRecord, CommitReverse,
                                  CommitCorrect, CommitTransition, Rollback, ledgerVars
        <5> QED BY <5>1 DEF OutOfStep
      <4> QED BY <4>1, <4>2
    <3>4. ASSUME NEW e \in Expenses, "synced" \notin Targets, state'[e] = "synced"
          PROVE  state[e] = "synced"
      <4>1. CASE CommitAllocate(r) \/ CommitCorrect(r)
        BY <1>1, <3>4, <4>1 DEF CommitAllocate, CommitCorrect, StateAfterAllocation, TypeOK
      <4>2. CASE CommitTransition(r)
        BY <1>1, <3>4, <4>2 DEF CommitTransition, Asked, TypeOK, MovesAsAsked
      <4>3. CASE ~CommitAllocate(r) /\ ~CommitCorrect(r) /\ ~CommitTransition(r)
        BY <1>6, <2>2, <3>4, <4>3 DEF Step, CommitRecord, CommitReverse, CommitDistribute,
                                      Rollback, ledgerVars
      <4> QED BY <4>1, <4>2, <4>3
    <3>5. MovesAsAsked' BY <1>1, <3>1, <3>2, FinishEnds DEF MovesAsAsked, OthersStay
    <3> QED BY <1>2, <1>4, <3>1, <3>2, <3>3, <3>4, <3>5
  <2> QED BY <2>1, <2>2
<1> QED BY <1>5, <1>6 DEF LedgerStep

-----------------------------------------------------------------------------
(* Steps that only mark rows                                               *)

\* A row that is marked names the entry and the expense it named.
LEMMA MarkedRows ==
    ASSUME SyncTypeOK, NEW to \in {"stale", "drifted"}, OutOfStep(to), NEW i \in Requests
    PROVE  /\ row'[i].e = row[i].e /\ row'[i].entry = row[i].entry /\ row'[i].net = row[i].net
           /\ row'[i].st = "none" <=> row[i].st = "none"
           /\ row'[i].st \in {row[i].st, to}
           /\ row[i].st # "synced" => row'[i].st = row[i].st
<1>1. row[i] \in Row BY DEF SyncTypeOK, TypeOK
<1> QED BY <1>1 DEF OutOfStep, Row

\* Rows stay with their expense, what crossed stays crossed, what is over stays over, and only
\* the actor of a step makes an entry.
RowsStay ==
    \A i \in Requests : row[i].st # "none" => row'[i].st # "none" /\ row'[i].e = row[i].e
CrossingsStay == \A e \in Expenses : crossed[e] \subseteq crossed'[e]
EntriesStay(r) ==
    \A k \in Requests : k # r \/ pc[r] = "done" => remote'[k].e = remote[k].e

\* Whatever starts no push, moves no push on and touches no entry keeps every promise.
LEMMA MarkingPreserves ==
    ASSUME SyncInv, NEW to \in {"stale", "drifted"}, OutOfStep(to), remote' = remote,
           crossed' = crossed, SyncTypeOK', MovesAsAsked',
           \A q \in Requests : InFlightPush(q)' =>
               InFlightPush(q) /\ pc'[q] = pc[q] /\ job'[q] = job[q] /\ rd'[q] = rd[q]
                               /\ push'[q] = push[q],
           \A q \in Requests : pc[q] = "done" => pc'[q] = "done"
    PROVE  SyncInv'
<1>0. SyncTypeOK BY DEF SyncInv
<1>1. \A i \in Requests :
           /\ row'[i].e = row[i].e /\ row'[i].entry = row[i].entry /\ row'[i].net = row[i].net
           /\ row'[i].st = "none" <=> row[i].st = "none"
           /\ row'[i].st \in {row[i].st, to}
           /\ row[i].st # "synced" => row'[i].st = row[i].st
  BY <1>0, MarkedRows
<1>2. PushesAlone' BY DEF SyncInv, PushesAlone
<1>3. FirstsAlone' BY DEF SyncInv, FirstsAlone
<1>4. RowsAreRecorded' BY <1>1 DEF SyncInv, RowsAreRecorded
<1>5. PushesKnown'
  <2> SUFFICES ASSUME NEW q \in Requests, InFlightPush(q)' PROVE PushKnown(q)'
    BY DEF PushesKnown
  <2>1. PushKnown(q) BY DEF SyncInv, PushesKnown
  <2>2. NamedEntry(q) => NamedEntry(q)' BY DEF NamedEntry
  <2>3. OwnEntry(q) => OwnEntry(q)' BY DEF OwnEntry
  <2> QED BY <1>1, <2>1, <2>2, <2>3 DEF PushKnown
<1>6. FirstsUnlinked' BY <1>1 DEF SyncInv, FirstsUnlinked, AlreadyLinked
<1>7. OneRowPerExpense' BY <1>1 DEF SyncInv, OneRowPerExpense
<1>8. RepairsFit'
  <2> SUFFICES ASSUME NEW q \in Requests, InFlightPush(q)', job'[q].op = "resync",
                      crossed'[job'[q].e] = {}
               PROVE  RepairFits(q)'
    BY DEF RepairsFit
  <2>1. RepairFits(q) /\ job[q].a \in Requests
    BY DEF SyncInv, RepairsFit, PushesKnown, PushKnown
  <2> QED BY <1>1, <2>1 DEF RepairFits, Resyncable, NothingStanding
<1>9. AnswersStand' BY DEF SyncInv, AnswersStand, Accepted
<1>10. RowTellsWhatStands' BY <1>1 DEF SyncInv, RowTellsWhatStands
<1> QED BY <1>2, <1>3, <1>4, <1>5, <1>6, <1>7, <1>8, <1>9, <1>10 DEF SyncInv

LEMMA LedgerStepPreserves ==
    ASSUME SyncInv, NEW r \in Requests, LedgerStep(r) PROVE SyncInv'
<1>1. /\ SyncTypeOK' /\ MovesAsAsked' /\ OthersStay(r) /\ ~InFlightPush(r)'
      /\ pc[r] # "done" /\ OutOfStep("stale") /\ remote' = remote /\ crossed' = crossed
  BY LedgerStepEffect DEF SyncInv
<1>2. \A q \in Requests : InFlightPush(q)' =>
          InFlightPush(q) /\ pc'[q] = pc[q] /\ job'[q] = job[q] /\ rd'[q] = rd[q]
                          /\ push'[q] = push[q]
  BY <1>1 DEF OthersStay, InFlightPush
<1>3. \A q \in Requests : pc[q] = "done" => pc'[q] = "done" BY <1>1 DEF OthersStay
<1> QED BY <1>1, <1>2, <1>3, MarkingPreserves

LEMMA DriftPreserves ==
    ASSUME SyncInv, NEW e \in Expenses, DetectDrift(e)
    PROVE  SyncInv' /\ OutOfStep("drifted") /\ crossed' = crossed
<1> USE DEF DetectDrift
<1>0. SyncTypeOK BY DEF SyncInv
<1>1. OutOfStep("drifted") BY DEF OutOfStep
<1>2. SyncTypeOK' BY <1>0 DEF SyncTypeOK, TypeOK, Row, RowStates
<1>3. MovesAsAsked' BY DEF SyncInv, MovesAsAsked
<1> QED BY <1>1, <1>2, <1>3, MarkingPreserves DEF InFlightPush

\* An answer that is lost leaves rows and entries as they are.
LEMMA LosePreserves ==
    ASSUME SyncInv, NEW r \in Requests, LoseAnswer(r)
    PROVE  SyncInv' /\ row' = row /\ crossed' = crossed
<1> USE DEF LoseAnswer, ledgerVars
<1>0. SyncTypeOK BY DEF SyncInv
<1>1. /\ pc'[r] = "done"
      /\ \A q \in Requests \ {r} : pc'[q] = pc[q] /\ job'[q] = job[q] /\ rd'[q] = rd[q]
                                  /\ push'[q] = push[q]
  BY <1>0, FinishEnds DEF SyncTypeOK
<1>2. SyncTypeOK' BY <1>0, FinishTypes DEF SyncTypeOK, TypeOK, NoPush, Push, Repairs
<1>3. MovesAsAsked' BY <1>1 DEF SyncInv, MovesAsAsked
<1>4. OutOfStep("stale") BY DEF OutOfStep
<1>5. \A q \in Requests : InFlightPush(q)' =>
          InFlightPush(q) /\ pc'[q] = pc[q] /\ job'[q] = job[q] /\ rd'[q] = rd[q]
                          /\ push'[q] = push[q]
  BY <1>1 DEF InFlightPush
<1>6. \A q \in Requests : pc[q] = "done" => pc'[q] = "done" BY <1>1
<1> QED BY <1>1, <1>2, <1>3, <1>4, <1>5, <1>6, MarkingPreserves

-----------------------------------------------------------------------------
(* Other people                                                            *)

LEMMA OtherPeopleEffect ==
    ASSUME SyncInv, NEW k \in Requests, EditEntry(k) \/ DeleteEntry(k)
    PROVE  /\ UNCHANGED <<vars, push, crossed>>
           /\ remote' \in [Requests -> Entry]
           /\ \A i \in Requests :
                 /\ remote'[i].e = remote[i].e
                 /\ \/ remote'[i] = remote[i]
                    \/ remote'[i].foreign
                       /\ (remote[i].st = "deleted" => remote'[i].st = "deleted")
<1>1. remote \in [Requests -> Entry] /\ remote[k] \in Entry BY DEF SyncInv, SyncTypeOK
<1>2. CASE EditEntry(k)
  <2> DEFINE edited == [remote[k] EXCEPT !.foreign = TRUE]
  <2>1. edited \in Entry /\ edited.foreign /\ edited.st = remote[k].st /\ edited.e = remote[k].e
    BY <1>1 DEF Entry
  <2>2. remote' = [remote EXCEPT ![k] = edited] BY <1>2 DEF EditEntry
  <2> HIDE DEF edited
  <2>3. \A i \in Requests : remote'[i] = IF i = k THEN edited ELSE remote[i] BY <1>1, <2>2
  <2>4. UNCHANGED <<vars, push, crossed>> BY <1>2 DEF EditEntry
  <2> QED BY <1>1, <2>1, <2>2, <2>3, <2>4
<1>3. CASE DeleteEntry(k)
  <2> DEFINE gone == [remote[k] EXCEPT !.st = "deleted", !.foreign = TRUE]
  <2>1. gone \in Entry /\ gone.st = "deleted" /\ gone.foreign /\ gone.e = remote[k].e
    BY <1>1 DEF Entry
  <2>2. remote' = [remote EXCEPT ![k].st = "deleted", ![k].foreign = TRUE]
    BY <1>3 DEF DeleteEntry
  <2>3. \A i \in Requests : remote'[i] = IF i = k THEN gone ELSE remote[i] BY <1>1, <2>2
  <2>4. DOMAIN remote' = Requests /\ remote' = [i \in Requests |-> remote'[i]] BY <1>1, <2>2
  <2> HIDE DEF gone
  <2>5. remote' \in [Requests -> Entry] BY <1>1, <2>1, <2>3, <2>4
  <2>6. UNCHANGED <<vars, push, crossed>> BY <1>3 DEF DeleteEntry
  <2> QED BY <1>1, <2>1, <2>3, <2>5, <2>6
<1> QED BY <1>2, <1>3

LEMMA OtherPeoplePreserve ==
    ASSUME SyncInv, NEW k \in Requests, EditEntry(k) \/ DeleteEntry(k)
    PROVE  SyncInv' /\ row' = row /\ crossed' = crossed
<1>1. /\ UNCHANGED <<vars, push, crossed>>
      /\ remote' \in [Requests -> Entry]
      /\ \A i \in Requests :
            /\ remote'[i].e = remote[i].e
            /\ \/ remote'[i] = remote[i]
               \/ remote'[i].foreign /\ (remote[i].st = "deleted" => remote'[i].st = "deleted")
  BY OtherPeopleEffect
<1>2. /\ row' = row /\ pc' = pc /\ job' = job /\ rd' = rd /\ push' = push /\ crossed' = crossed
      /\ state' = state
  BY <1>1 DEF vars
<1>3. SyncTypeOK' BY <1>1 DEF SyncInv, vars, SyncTypeOK, TypeOK
<1>4. MovesAsAsked' /\ PushesAlone' /\ FirstsAlone' /\ OneRowPerExpense'
  BY <1>2 DEF SyncInv, MovesAsAsked, PushesAlone, FirstsAlone, InFlightPush, OneRowPerExpense
<1>5. FirstsUnlinked' /\ RepairsFit'
  BY <1>2 DEF SyncInv, FirstsUnlinked, AlreadyLinked, RepairsFit, RepairFits, InFlightPush
<1>6. RowsAreRecorded' BY <1>1, <1>2 DEF SyncInv, RowsAreRecorded
<1>7. PushesKnown' /\ AnswersStand'
  <2> SUFFICES ASSUME NEW q \in Requests, InFlightPush(q)
               PROVE  /\ PushKnown(q)'
                      /\ pc[q] = "called" /\ crossed[job[q].e] = {} => Accepted(q)'
    BY <1>2 DEF PushesKnown, AnswersStand, InFlightPush
  <2>1. PushKnown(q) BY DEF SyncInv, PushesKnown
  <2>2. NamedEntry(q) => NamedEntry(q)' BY <1>1, <1>2 DEF NamedEntry
  <2>3. OwnEntry(q) => OwnEntry(q)' BY <1>2 DEF OwnEntry
  <2>4. pc[q] = "called" => push[q].entry \in Requests
    BY <2>1 DEF InFlightPush, Pushing, PushKnown, OwnEntry, NamedEntry
  <2>5. PushKnown(q)' BY <1>1, <1>2, <2>1, <2>2, <2>3, <2>4 DEF PushKnown
  <2>6. ASSUME pc[q] = "called", crossed[job[q].e] = {} PROVE Accepted(q)'
    <3>1. Accepted(q) BY <2>6 DEF SyncInv, AnswersStand
    <3> QED BY <1>1, <1>2, <2>4, <2>6, <3>1 DEF Accepted
  <2> QED BY <2>5, <2>6
<1>8. RowTellsWhatStands'
  <2> SUFFICES ASSUME NEW i \in Requests, row[i].st \in {"synced", "withdrawn"},
                      crossed[row[i].e] = {}
               PROVE  /\ row[i].st = "withdrawn" => remote'[row[i].entry].st = "deleted"
                      /\ row[i].st = "synced" /\ ~remote'[row[i].entry].foreign =>
                            /\ remote'[row[i].entry].st = "standing"
                            /\ remote'[row[i].entry].cost = row[i].net
    BY <1>2 DEF RowTellsWhatStands
  <2>1. row[i].entry \in Requests BY DEF SyncInv, RowsAreRecorded
  <2> QED BY <1>1, <2>1 DEF SyncInv, RowTellsWhatStands
<1> QED BY <1>2, <1>3, <1>4, <1>5, <1>6, <1>7, <1>8 DEF SyncInv

-----------------------------------------------------------------------------
(* The steps of a push                                                     *)

\* Pushes of an expense are alone until one begins that finds another: that one is a crossing.
LEMMA AloneStep ==
    ASSUME SyncInv, NEW r \in Requests, OthersStay(r), CrossingsStay, job'[r].e \in Expenses,
           InFlightPush(r)' =>
               \/ InFlightPush(r) /\ job'[r] = job[r]
               \/ ~InFlightPush(r) /\ BeginsPush(job'[r].op, job'[r].e)
    PROVE  PushesAlone' /\ FirstsAlone'
<1>0. /\ \A q \in Requests : job[q].e \in Expenses
      /\ DOMAIN crossed = Expenses /\ \A e \in Expenses : crossed[e] \in SUBSET Pushing
  BY DEF SyncInv, SyncTypeOK, TypeOK, Job
<1>1. \A q \in Requests \ {r} : job'[q] = job[q] /\ (InFlightPush(q)' <=> InFlightPush(q))
  BY DEF OthersStay, InFlightPush
<1>2. ASSUME NEW q \in Requests \ {r}, InFlightPush(q), InFlightPush(r)',
             job[q].e = job'[r].e
      PROVE  /\ crossed'[job'[r].e] # {}
             /\ job[q].op = "sync" /\ job'[r].op = "sync" => "sync" \in crossed'[job'[r].e]
  <2>1. CASE InFlightPush(r) /\ job'[r] = job[r]
    <3>1. crossed[job[r].e] # {} BY <1>2, <2>1 DEF SyncInv, PushesAlone
    <3>2. job[q].op = "sync" /\ job[r].op = "sync" => "sync" \in crossed[job[r].e]
      BY <1>2, <2>1 DEF SyncInv, FirstsAlone
    <3> QED BY <1>0, <2>1, <3>1, <3>2 DEF CrossingsStay
  <2>2. CASE BeginsPush(job'[r].op, job'[r].e)
    <3>1. crossed'[job'[r].e] = crossed[job'[r].e] \cup {job'[r].op}
      BY <1>0, <1>2, <2>2 DEF BeginsPush
    <3> QED BY <3>1
  <2> QED BY <1>2, <2>1, <2>2
<1>3. ASSUME NEW e \in Expenses, crossed'[e] = {} PROVE crossed[e] = {}
  BY <1>3 DEF CrossingsStay
<1>4. ASSUME NEW e \in Expenses, "sync" \notin crossed'[e] PROVE "sync" \notin crossed[e]
  BY <1>4 DEF CrossingsStay
<1>5. PushesAlone'
  <2> SUFFICES ASSUME NEW p \in Requests, NEW q \in Requests, InFlightPush(p)', InFlightPush(q)',
                      job'[p].e = job'[q].e, crossed'[job'[q].e] = {}
               PROVE  p = q
    BY DEF PushesAlone
  <2>1. CASE p # r /\ q # r
    BY <1>0, <1>1, <1>3, <2>1 DEF SyncInv, PushesAlone
  <2>2. CASE p = r \/ q = r BY <1>1, <1>2, <2>2
  <2> QED BY <2>1, <2>2
<1>6. FirstsAlone'
  <2> SUFFICES ASSUME NEW p \in Requests, NEW q \in Requests, InFlightPush(p)', InFlightPush(q)',
                      job'[p].e = job'[q].e, job'[p].op = "sync", job'[q].op = "sync",
                      "sync" \notin crossed'[job'[q].e]
               PROVE  p = q
    BY DEF FirstsAlone
  <2>1. CASE p # r /\ q # r
    BY <1>0, <1>1, <1>4, <2>1 DEF SyncInv, FirstsAlone
  <2>2. CASE p = r \/ q = r BY <1>1, <1>2, <2>2
  <2> QED BY <2>1, <2>2
<1> QED BY <1>5, <1>6

\* What is known of the other pushes stays known.
LEMMA OthersKnown ==
    ASSUME SyncInv, NEW r \in Requests, OthersStay(r), RowsStay, EntriesStay(r), pc[r] # "done",
           NEW q \in Requests \ {r}, InFlightPush(q)'
    PROVE  InFlightPush(q) /\ PushKnown(q) /\ PushKnown(q)'
<1>1. pc'[q] = pc[q] /\ job'[q] = job[q] /\ push'[q] = push[q] /\ InFlightPush(q)
  BY DEF OthersStay, InFlightPush
<1>2. PushKnown(q) BY <1>1 DEF SyncInv, PushesKnown
<1>3. \A k \in Requests : pc[k] = "done" => k # r /\ pc'[k] = "done" /\ remote'[k].e = remote[k].e
  BY DEF OthersStay, EntriesStay
<1>4. NamedEntry(q) => NamedEntry(q)' BY <1>1, <1>3 DEF NamedEntry
<1>5. OwnEntry(q) => OwnEntry(q)' BY <1>1 DEF OwnEntry
<1>6. pc[q] = "called" => remote'[push[q].entry].e = remote[push[q].entry].e
  <2>1. pc[q] = "called" => OwnEntry(q) \/ NamedEntry(q)
    BY <1>1, <1>2 DEF InFlightPush, Pushing, PushKnown
  <2> QED BY <1>3, <2>1 DEF OwnEntry, NamedEntry, EntriesStay
<1> QED BY <1>1, <1>2, <1>4, <1>5, <1>6 DEF PushKnown, RowsStay

\* What is left to show of a step of the push r that changes no row.
LEMMA PushStepPreserves ==
    ASSUME SyncInv, NEW r \in Requests, SyncTypeOK', OthersStay(r), row' = row,
           CrossingsStay, EntriesStay(r), pc[r] # "done", job'[r].op \in Pushing,
           InFlightPush(r)' =>
               \/ InFlightPush(r) /\ job'[r] = job[r]
               \/ ~InFlightPush(r) /\ BeginsPush(job'[r].op, job'[r].e),
           PushKnown(r)',
           job'[r].op = "sync" /\ "sync" \notin crossed'[job'[r].e] => ~AlreadyLinked(job'[r].e),
           job'[r].op = "resync" /\ crossed'[job'[r].e] = {} => RepairFits(r)',
           pc'[r] = "called" /\ crossed'[job'[r].e] = {} => Accepted(r)',
           \A q \in Requests \ {r} :
               InFlightPush(q) /\ pc[q] = "called" /\ crossed[job[q].e] = {} => Accepted(q)',
           RowTellsWhatStands'
    PROVE  SyncInv'
<1>0. /\ job'[r].e \in Expenses
      /\ \A q \in Requests : job[q].e \in Expenses
      /\ \A i \in Requests : row[i].e \in Expenses
  BY DEF SyncInv, SyncTypeOK, TypeOK, Job, Row
<1>1. PushesAlone' /\ FirstsAlone' BY <1>0, AloneStep
<1>2. MovesAsAsked' BY DEF SyncInv, MovesAsAsked, OthersStay, Pushing
<1>3. RowsAreRecorded' BY DEF SyncInv, RowsAreRecorded, OthersStay, EntriesStay
<1>4. RowsStay BY DEF RowsStay
<1>5. PushesKnown' BY <1>4, OthersKnown DEF PushesKnown
<1>6. OneRowPerExpense' BY <1>0 DEF SyncInv, OneRowPerExpense, CrossingsStay
<1>7. \A q \in Requests \ {r} : InFlightPush(q)' =>
          /\ InFlightPush(q) /\ pc'[q] = pc[q] /\ job'[q] = job[q] /\ push'[q] = push[q]
          /\ crossed[job[q].e] \subseteq crossed'[job'[q].e]
  BY <1>0 DEF OthersStay, InFlightPush, CrossingsStay
<1>8. FirstsUnlinked'
  <2> SUFFICES ASSUME NEW q \in Requests, InFlightPush(q)', job'[q].op = "sync",
                      "sync" \notin crossed'[job'[q].e]
               PROVE  ~AlreadyLinked(job'[q].e)
    BY DEF FirstsUnlinked, AlreadyLinked
  <2>1. CASE q = r BY <2>1
  <2>2. CASE q # r BY <1>7, <2>2 DEF SyncInv, FirstsUnlinked
  <2> QED BY <2>1, <2>2
<1>9. RepairsFit'
  <2> SUFFICES ASSUME NEW q \in Requests, InFlightPush(q)', job'[q].op = "resync",
                      crossed'[job'[q].e] = {}
               PROVE  RepairFits(q)'
    BY DEF RepairsFit
  <2>1. CASE q = r BY <2>1
  <2>2. CASE q # r
    <3>1. RepairFits(q) BY <1>7, <2>2 DEF SyncInv, RepairsFit
    <3> QED BY <1>7, <2>2, <3>1 DEF RepairFits
  <2> QED BY <2>1, <2>2
<1>10. AnswersStand' BY <1>7 DEF AnswersStand
<1> QED BY <1>1, <1>2, <1>3, <1>5, <1>6, <1>8, <1>9, <1>10 DEF SyncInv

LEMMA BeginPushPreserves ==
    ASSUME SyncInv, NEW r \in Requests, BeginPush(r)
    PROVE  SyncInv' /\ row' = row /\ CrossingsStay
<1>0. /\ SyncTypeOK /\ TypeOK /\ {} \in SUBSET Allocation /\ "approved" \in ExpenseStates
      /\ crossed \in [Expenses -> SUBSET Pushing]
  BY DEF SyncInv, SyncTypeOK, ExpenseStates
<1>1. ASSUME NEW op \in Pushing, NEW e \in Expenses, BeginsPush(op, e)
      PROVE  CrossingsStay /\ crossed' \in [Expenses -> SUBSET Pushing]
  BY <1>0, <1>1 DEF BeginsPush, CrossingsStay
<1>2. ASSUME NEW e \in Expenses, BeginSync(r, e) PROVE SyncInv' /\ row' = row /\ CrossingsStay
  <2>1. TypeOK'
    <3>1. lock' \in [Expenses -> Requests \cup {NoRequest}] BY <1>0, <1>2 DEF BeginSync, TypeOK
    <3> QED BY <1>0, <1>2, <3>1, ReadTypes DEF BeginSync, Ops
  <2>2. [repair |-> "create", entry |-> r] \in Push BY DEF Push, Repairs
  <2>3. CrossingsStay /\ crossed' \in [Expenses -> SUBSET Pushing]
    BY <1>1, <1>2 DEF BeginSync, Pushing
  <2>4. SyncTypeOK' BY <1>0, <1>2, <2>1, <2>2, <2>3 DEF BeginSync, SyncTypeOK
  <2>5. /\ row' = row /\ remote' = remote /\ OthersStay(r) /\ pc[r] = "idle"
        /\ pc'[r] = "reading" /\ job'[r].op = "sync" /\ job'[r].e = e
        /\ push'[r] = [repair |-> "create", entry |-> r]
    BY <1>0, <1>2 DEF BeginSync, Read, ledgerVars, OthersStay, SyncTypeOK, TypeOK
  <2>6. ~InFlightPush(r) /\ BeginsPush(job'[r].op, job'[r].e) /\ ~AlreadyLinked(job'[r].e)
    BY <1>2, <2>5 DEF InFlightPush, BeginSync
  <2>7. PushKnown(r)' BY <2>5 DEF PushKnown, OwnEntry
  <2>8. \A q \in Requests \ {r} :
            InFlightPush(q) /\ pc[q] = "called" /\ crossed[job[q].e] = {} => Accepted(q)'
    BY <2>5 DEF SyncInv, AnswersStand, Accepted, OthersStay
  <2>9. RowTellsWhatStands'
    BY <1>0, <2>3, <2>5 DEF SyncInv, TypeOK, Row, RowTellsWhatStands, CrossingsStay
  <2>10. EntriesStay(r) BY <2>5 DEF EntriesStay
  <2> QED BY <2>3, <2>4, <2>5, <2>6, <2>7, <2>8, <2>9, <2>10, PushStepPreserves DEF Pushing
<1>3. ASSUME NEW i \in Requests, BeginResync(r, i) PROVE SyncInv' /\ row' = row /\ CrossingsStay
  <2>1. row[i].e \in Expenses BY <1>0 DEF TypeOK, Row
  <2>2. TypeOK'
    <3>1. lock' \in [Expenses -> Requests \cup {NoRequest}] BY <1>0, <1>3 DEF BeginResync, TypeOK
    <3> QED BY <1>0, <1>3, <2>1, <3>1, ReadTypes DEF BeginResync, Ops
  <2>3. CrossingsStay /\ crossed' \in [Expenses -> SUBSET Pushing]
    BY <1>1, <1>3, <2>1 DEF BeginResync, Pushing
  <2>4. SyncTypeOK' BY <1>0, <1>3, <2>2, <2>3 DEF BeginResync, SyncTypeOK
  <2>5. /\ row' = row /\ remote' = remote /\ OthersStay(r) /\ pc[r] = "idle"
        /\ pc'[r] = "reading" /\ job'[r].op = "resync" /\ job'[r].e = row[i].e
        /\ job'[r].a = i /\ row[i].st \in Resyncable
    BY <1>0, <1>3 DEF BeginResync, Read, ledgerVars, OthersStay, SyncTypeOK, TypeOK
  <2>6. ~InFlightPush(r) /\ BeginsPush(job'[r].op, job'[r].e)
    BY <1>3, <2>5 DEF InFlightPush, BeginResync
  <2>7. PushKnown(r)' BY <2>5 DEF PushKnown, Resyncable
  <2>8. RepairFits(r)' BY <2>5 DEF RepairFits
  <2>9. \A q \in Requests \ {r} :
            InFlightPush(q) /\ pc[q] = "called" /\ crossed[job[q].e] = {} => Accepted(q)'
    BY <2>5 DEF SyncInv, AnswersStand, Accepted, OthersStay
  <2>10. RowTellsWhatStands'
    BY <1>0, <2>3, <2>5 DEF SyncInv, TypeOK, Row, RowTellsWhatStands, CrossingsStay
  <2>11. EntriesStay(r) BY <2>5 DEF EntriesStay
  <2> QED BY <2>3, <2>4, <2>5, <2>6, <2>7, <2>8, <2>9, <2>10, <2>11, PushStepPreserves
          DEF Pushing
<1> QED BY <1>2, <1>3 DEF BeginPush

LEMMA ReadingPreserves ==
    ASSUME SyncInv, NEW r \in Requests, ReadShares(r) \/ ReadRow(r)
    PROVE  SyncInv' /\ row' = row /\ crossed' = crossed
<1>0. SyncTypeOK /\ TypeOK /\ rd[r] \in Reading /\ job[r] \in Job /\ job[r].e \in Expenses
      /\ rd[r].net \in Int
  BY DEF SyncInv, SyncTypeOK, TypeOK, Job, Reading
<1>1. ReadCurrent(r) /\ job[r].op \in Pushing BY DEF ReadShares, ReadRow, Pushing
<1>2. /\ row' = row /\ remote' = remote /\ job' = job /\ crossed' = crossed
      /\ pc[r] = "reading" /\ pc'[r] = "open"
      /\ \A q \in Requests \ {r} : pc'[q] = pc[q] /\ rd'[q] = rd[q]
  BY <1>0, <1>1 DEF ReadCurrent, ledgerVars, TypeOK
<1>3. InFlightPush(r) BY <1>1, <1>2 DEF InFlightPush
<1>4. PushKnown(r) BY <1>3 DEF SyncInv, PushesKnown
<1>5. TypeOK'
  <2>1. live[job[r].e] \in SUBSET Allocation BY <1>0 DEF TypeOK
  <2>2. [rd[r] EXCEPT !.prev = live[job[r].e]] \in Reading BY <1>0, <2>1 DEF Reading
  <2> QED BY <1>0, <1>1, <2>2 DEF ReadCurrent, ledgerVars, TypeOK
<1>6. RowTellsWhatStands' BY <1>2 DEF SyncInv, RowTellsWhatStands
<1>7. CrossingsStay /\ EntriesStay(r) BY <1>2 DEF CrossingsStay, EntriesStay
<1>8. OthersStay(r) => \A q \in Requests \ {r} :
          InFlightPush(q) /\ pc[q] = "called" /\ crossed[job[q].e] = {} => Accepted(q)'
  BY <1>2 DEF SyncInv, AnswersStand, Accepted, OthersStay
<1>9. CASE ReadShares(r)
  <2>1. push' = push /\ job[r].op = "sync" BY <1>9 DEF ReadShares
  <2>2. SyncTypeOK' BY <1>0, <1>2, <1>5, <2>1 DEF SyncTypeOK
  <2>3. PushKnown(r)' BY <1>2, <1>4, <2>1 DEF PushKnown, OwnEntry
  <2>4. "sync" \notin crossed[job[r].e] => ~AlreadyLinked(job[r].e)
    BY <1>3, <2>1 DEF SyncInv, FirstsUnlinked
  <2>5. OthersStay(r) BY <1>2, <2>1 DEF OthersStay
  <2> QED BY <1>1, <1>2, <1>3, <1>6, <1>7, <1>8, <2>1, <2>2, <2>3, <2>4, <2>5, PushStepPreserves
<1>10. CASE ReadRow(r)
  <2> DEFINE i == job[r].a
             repair == RepairOf(row[i].st, rd[r].net)
             p == [repair |-> repair, entry |-> IF repair = "recreated" THEN r ELSE row[i].entry]
  <2>0. job[r].op = "resync" /\ push' = [push EXCEPT ![r] = p] /\ row[i].st \in Resyncable
    BY <1>10 DEF ReadRow
  <2>1. i \in Requests /\ row[i].st # "none" /\ row[i].e = job[r].e
    BY <1>4, <2>0 DEF PushKnown
  <2>2. /\ row[i].entry \in Requests /\ pc[row[i].entry] = "done"
        /\ remote[row[i].entry].e = job[r].e
    BY <2>1 DEF SyncInv, RowsAreRecorded
  <2>3. repair \in IF NothingStanding(row[i].st) THEN {"recreated"} ELSE {"corrected", "withdrawn"}
    BY DEF RepairOf
  <2>4. p \in Push BY <2>2, <2>3 DEF Push, Repairs
  <2>5. SyncTypeOK' BY <1>0, <1>2, <1>5, <2>0, <2>4 DEF SyncTypeOK
  <2>6. push'[r] = p /\ OthersStay(r) BY <1>0, <1>2, <2>0 DEF OthersStay, SyncTypeOK
  <2>7. IF NothingStanding(row[i].st) THEN p.repair = "recreated" /\ p.entry = r
        ELSE p.repair \in {"corrected", "withdrawn"} /\ p.entry = row[i].entry
    BY <2>3
  <2> HIDE DEF p
  <2>8. RepairFits(r)' BY <1>2, <2>0, <2>6, <2>7 DEF RepairFits
  <2>9. PushKnown(r)'
    <3>1. CASE NothingStanding(row[i].st)
      <4>1. OwnEntry(r)' BY <2>6, <2>7, <3>1 DEF OwnEntry
      <4> QED BY <1>2, <2>0, <2>1, <4>1 DEF PushKnown
    <3>2. CASE ~NothingStanding(row[i].st)
      <4>1. pc[r] # "done" /\ row[i].entry # r BY <1>2, <2>2
      <4>2. NamedEntry(r)' BY <1>2, <2>2, <2>6, <2>7, <3>2, <4>1 DEF NamedEntry
      <4> QED BY <1>2, <2>0, <2>1, <4>2 DEF PushKnown
    <3> QED BY <3>1, <3>2
  <2> QED BY <1>1, <1>2, <1>3, <1>6, <1>7, <1>8, <2>0, <2>5, <2>6, <2>8, <2>9, PushStepPreserves
<1> QED BY <1>9, <1>10

\* The entry that a push asks about is not the entry of another push that may not cross it, nor
\* of a row in step.
LEMMA EntriesApart ==
    ASSUME SyncInv, NEW r \in Requests, InFlightPush(r), pc[r] = "open"
    PROVE  /\ \A q \in Requests \ {r} :
                 InFlightPush(q) /\ pc[q] = "called" /\ crossed[job[q].e] = {}
                     => push[q].entry \in Requests /\ push[q].entry # push[r].entry
           /\ \A j \in Requests :
                 row[j].st \in {"synced", "withdrawn"} /\ crossed[row[j].e] = {}
                     => row[j].entry \in Requests /\ row[j].entry # push[r].entry
<1>1. OwnEntry(r) \/ NamedEntry(r)
  BY DEF SyncInv, PushesKnown, PushKnown, InFlightPush, Pushing
<1>2. ASSUME NEW q \in Requests \ {r}, InFlightPush(q), pc[q] = "called",
             crossed[job[q].e] = {}
      PROVE  push[q].entry \in Requests /\ push[q].entry # push[r].entry
  <2>1. OwnEntry(q) \/ NamedEntry(q)
    BY <1>2 DEF SyncInv, PushesKnown, PushKnown, InFlightPush, Pushing
  <2>2. job[q].e # job[r].e BY <1>2 DEF SyncInv, PushesAlone
  <2> QED BY <1>1, <1>2, <2>1, <2>2 DEF OwnEntry, NamedEntry
<1>3. ASSUME NEW j \in Requests, row[j].st \in {"synced", "withdrawn"}, crossed[row[j].e] = {}
      PROVE  row[j].entry \in Requests /\ row[j].entry # push[r].entry
  <2>1. /\ row[j].entry \in Requests /\ pc[row[j].entry] = "done"
        /\ remote[row[j].entry].e = row[j].e
    BY <1>3 DEF SyncInv, RowsAreRecorded
  <2>2. CASE OwnEntry(r) BY <2>1, <2>2 DEF OwnEntry
  <2>3. ASSUME NamedEntry(r), row[j].entry = push[r].entry PROVE FALSE
    <3>1. job[r].e = row[j].e BY <2>1, <2>3 DEF NamedEntry
    <3>2. job[r].op = "resync"
      BY <2>3 DEF SyncInv, PushesKnown, PushKnown, OwnEntry, NamedEntry, InFlightPush, Pushing
    <3>3. job[r].a \in Requests /\ row[job[r].a].st # "none" /\ row[job[r].a].e = job[r].e
      BY <3>2 DEF SyncInv, PushesKnown, PushKnown
    <3>4. RepairFits(r) BY <1>3, <3>1, <3>2 DEF SyncInv, RepairsFit
    <3>5. j = job[r].a BY <1>3, <3>1, <3>3 DEF SyncInv, OneRowPerExpense
    <3> QED BY <1>3, <2>3, <3>4, <3>5 DEF RepairFits, NamedEntry, NothingStanding, Resyncable
  <2> QED BY <1>1, <2>1, <2>2, <2>3
<1> QED BY <1>2, <1>3

LEMMA CallPreserves ==
    ASSUME SyncInv, NEW r \in Requests, CallSplitwise(r)
    PROVE  SyncInv' /\ row' = row /\ crossed' = crossed
<1>0. /\ SyncTypeOK /\ TypeOK /\ rd[r] \in Reading /\ job[r] \in Job /\ job[r].e \in Expenses
      /\ rd[r].net \in Int /\ remote \in [Requests -> Entry]
  BY DEF SyncInv, SyncTypeOK, TypeOK, Job, Reading
<1>1. /\ row' = row /\ rd' = rd /\ push' = push /\ job' = job /\ crossed' = crossed
      /\ pc[r] = "open" /\ pc'[r] = "called" /\ job[r].op \in Pushing /\ OthersStay(r)
  BY <1>0 DEF CallSplitwise, ledgerVars, TypeOK, OthersStay
<1>2. InFlightPush(r) BY <1>1 DEF InFlightPush
<1>3. PushKnown(r) BY <1>2 DEF SyncInv, PushesKnown
<1>4. OwnEntry(r) \/ NamedEntry(r) BY <1>1, <1>3 DEF PushKnown, Pushing
<1>5. TypeOK' BY <1>0 DEF CallSplitwise, ledgerVars, TypeOK
<1> DEFINE k == push[r].entry
\* It is enough that the entry asked about is as it was asked, and the others as they were.
<1>6. ASSUME SyncTypeOK', Accepted(r)', k \in Requests, remote'[k].e = job[r].e,
             k = r \/ remote'[k].e = remote[k].e,
             \A j \in Requests \ {k} : remote'[j] = remote[j]
      PROVE  SyncInv' /\ row' = row /\ crossed' = crossed
  <2>1. RowTellsWhatStands'
    <3> SUFFICES ASSUME NEW j \in Requests, row[j].st \in {"synced", "withdrawn"},
                        crossed[row[j].e] = {}
                 PROVE  remote'[row[j].entry] = remote[row[j].entry]
      BY <1>1 DEF SyncInv, RowTellsWhatStands
    <3> QED BY <1>1, <1>2, <1>6, EntriesApart
  <2>2. \A q \in Requests \ {r} :
            InFlightPush(q) /\ pc[q] = "called" /\ crossed[job[q].e] = {} => Accepted(q)'
    <3> SUFFICES ASSUME NEW q \in Requests \ {r}, InFlightPush(q), pc[q] = "called",
                        crossed[job[q].e] = {}
                 PROVE  Accepted(q)'
      OBVIOUS
    <3>1. remote'[push[q].entry] = remote[push[q].entry] BY <1>1, <1>2, <1>6, EntriesApart
    <3>2. Accepted(q) BY DEF SyncInv, AnswersStand
    <3> QED BY <1>1, <3>1, <3>2 DEF Accepted
  <2>3. CrossingsStay /\ EntriesStay(r) BY <1>1, <1>4, <1>6 DEF CrossingsStay, EntriesStay
  <2>4. PushKnown(r)'
    <3>1. OwnEntry(r) => OwnEntry(r)' BY <1>1 DEF OwnEntry
    <3>2. NamedEntry(r) => NamedEntry(r)'
      <4> SUFFICES ASSUME NamedEntry(r) PROVE NamedEntry(r)' OBVIOUS
      <4>1. k # r /\ pc'[k] = "done" BY <1>1 DEF NamedEntry, OthersStay
      <4> QED BY <1>1, <1>6, <4>1 DEF NamedEntry
    <3> QED BY <1>1, <1>3, <1>4, <1>6, <3>1, <3>2 DEF PushKnown
  <2>5. job[r].op = "sync" /\ "sync" \notin crossed[job[r].e] => ~AlreadyLinked(job[r].e)
    BY <1>2 DEF SyncInv, FirstsUnlinked
  <2>6. job[r].op = "resync" /\ crossed[job[r].e] = {} => RepairFits(r)'
    <3> SUFFICES ASSUME job[r].op = "resync", crossed[job[r].e] = {} PROVE RepairFits(r)'
      OBVIOUS
    <3>1. RepairFits(r) BY <1>2 DEF SyncInv, RepairsFit
    <3> QED BY <1>1, <3>1 DEF RepairFits
  <2> QED BY <1>1, <1>2, <1>6, <2>1, <2>2, <2>3, <2>4, <2>5, <2>6, PushStepPreserves
<1>7. CASE Create(r)
  <2> DEFINE made == [st |-> "standing", e |-> job[r].e, cost |-> rd[r].net, foreign |-> FALSE]
  <2>1. remote' = [remote EXCEPT ![r] = made] BY <1>7 DEF Create
  <2>2. made \in Entry /\ made.e = job[r].e BY <1>0 DEF Entry
  <2>3. k = r /\ push[r].repair # "withdrawn" BY <1>4, <1>7 DEF Create, OwnEntry, NamedEntry
  <2>4. SyncTypeOK' BY <1>0, <1>1, <1>5, <2>1, <2>2 DEF SyncTypeOK
  <2>5. Accepted(r)' BY <1>0, <1>1, <2>1, <2>3 DEF Accepted
  <2>6. /\ remote'[r] = made /\ \A j \in Requests \ {r} : remote'[j] = remote[j]
    BY <1>0, <2>1
  <2> HIDE DEF made
  <2> QED BY <1>6, <2>2, <2>3, <2>4, <2>5, <2>6
<1>8. CASE Correct(r) \/ Withdraw(r)
  <2> DEFINE done == IF push[r].repair = "corrected"
                     THEN [remote[k] EXCEPT !.cost = rd[r].net, !.foreign = FALSE]
                     ELSE [remote[k] EXCEPT !.st = "deleted"]
  <2>1. push[r].repair \in {"corrected", "withdrawn"} /\ remote[k].st = "standing"
    BY <1>8 DEF Correct, Withdraw
  <2>2. k \in Requests /\ remote[k].e = job[r].e BY <1>4, <2>1 DEF OwnEntry, NamedEntry
  <2>3. remote[k] \in Entry BY <1>0, <2>2
  <2>4. done \in Entry /\ done.e = remote[k].e BY <1>0, <2>3 DEF Entry
  <2>5. /\ DOMAIN remote' = Requests /\ remote' = [j \in Requests |-> remote'[j]]
        /\ \A j \in Requests : remote'[j] = IF j = k THEN done ELSE remote[j]
    <3>1. CASE Correct(r)
      <4>1. remote' = [remote EXCEPT ![k].cost = rd[r].net, ![k].foreign = FALSE]
            /\ push[r].repair = "corrected"
        BY <3>1 DEF Correct
      <4> QED BY <1>0, <2>2, <4>1
    <3>2. CASE Withdraw(r)
      <4>1. remote' = [remote EXCEPT ![k].st = "deleted"] /\ push[r].repair = "withdrawn"
        BY <3>2 DEF Withdraw
      <4> QED BY <1>0, <2>2, <4>1
    <3> QED BY <1>8, <3>1, <3>2
  <2>6. IF push[r].repair = "withdrawn" THEN done.st = "deleted"
        ELSE done.st = "standing" /\ done.cost = rd[r].net
    BY <2>1, <2>3 DEF Entry
  <2> HIDE DEF done
  <2>7. remote' \in [Requests -> Entry] BY <1>0, <2>4, <2>5
  <2>8. SyncTypeOK' BY <1>0, <1>1, <1>5, <2>7 DEF SyncTypeOK
  <2>9. Accepted(r)' BY <1>1, <2>2, <2>5, <2>6 DEF Accepted
  <2> QED BY <1>6, <2>2, <2>4, <2>5, <2>8, <2>9
<1> QED BY <1>7, <1>8 DEF CallSplitwise

\* A push that is recorded: what is known of the others, and of itself.
LEMMA RecordedPush ==
    ASSUME SyncInv, NEW r \in Requests, NEW op \in Pushing, Answered(r, op), Finish(r),
           push' = [push EXCEPT ![r] = NoPush], remote' = remote, crossed' = crossed, RowsStay
    PROVE  /\ pc'[r] = "done" /\ OthersStay(r) /\ pc[r] = "called" /\ job[r].op = op
           /\ \A q \in Requests : pc[q] = "done" => pc'[q] = "done"
           /\ \A q \in Requests : InFlightPush(q)' => q # r /\ InFlightPush(q)
           /\ MovesAsAsked' /\ PushesKnown' /\ PushesAlone' /\ FirstsAlone' /\ AnswersStand'
           /\ InFlightPush(r) /\ PushKnown(r)
           /\ crossed[job[r].e] = {} => Accepted(r)
           /\ push' \in [Requests -> Push]
<1>0. SyncTypeOK /\ TypeOK BY DEF SyncInv, SyncTypeOK
<1>1. InFlightPush(r) /\ pc[r] = "called" /\ job[r].op = op BY DEF Answered, InFlightPush
<1>2. pc'[r] = "done" /\ OthersStay(r)
  BY <1>0, FinishEnds DEF SyncTypeOK, OthersStay
<1>3. \A q \in Requests : InFlightPush(q)' => q # r /\ InFlightPush(q)
  BY <1>2 DEF OthersStay, InFlightPush
<1>4. MovesAsAsked' BY <1>2 DEF SyncInv, MovesAsAsked, OthersStay
<1>5. NoPush \in Push BY DEF NoPush, Push, Repairs
<1>6. EntriesStay(r) BY DEF EntriesStay
<1>7. PushesKnown' BY <1>1, <1>2, <1>3, <1>6, OthersKnown DEF PushesKnown
<1>8. PushesAlone' /\ FirstsAlone'
  BY <1>2, <1>3 DEF SyncInv, PushesAlone, FirstsAlone, OthersStay
<1>9. AnswersStand' BY <1>2, <1>3 DEF SyncInv, AnswersStand, Accepted, OthersStay
<1>10. PushKnown(r) /\ (crossed[job[r].e] = {} => Accepted(r))
  BY <1>1 DEF SyncInv, PushesKnown, AnswersStand
<1>11. push' \in [Requests -> Push] BY <1>0, <1>5 DEF SyncTypeOK
<1>12. \A q \in Requests : pc[q] = "done" => pc'[q] = "done" BY <1>1, <1>2 DEF OthersStay
<1> QED BY <1>1, <1>2, <1>3, <1>4, <1>7, <1>8, <1>9, <1>10, <1>11, <1>12

LEMMA CommitSyncPreserves ==
    ASSUME SyncInv, NEW r \in Requests, CommitSync(r)
    PROVE  /\ SyncInv' /\ RowsStay /\ crossed' = crossed
           /\ row[r].st = "none" /\ row'[r].st = "synced" /\ row'[r].entry = r
           /\ row'[r].e = job[r].e
           /\ \A j \in Requests \ {r} : row'[j] = row[j]
           /\ \A j \in Requests : row[j].st # "none" => row[j].entry # r
<1>0. SyncTypeOK /\ TypeOK /\ rd[r].net \in Int /\ job[r].e \in Expenses
  BY DEF SyncInv, SyncTypeOK, TypeOK, Job, Reading
<1>1. /\ pc[r] = "called" /\ job[r].op = "sync" /\ InFlightPush(r) /\ remote' = remote
      /\ crossed' = crossed
  BY DEF CommitSync, Answered, InFlightPush, Pushing
<1>2. push[r].repair = "create" \/ push[r].repair = "recreated"
  BY <1>1 DEF SyncInv, PushesKnown, PushKnown, OwnEntry
<1>3. push[r].entry = r BY <1>1 DEF SyncInv, PushesKnown, PushKnown, OwnEntry
<1> DEFINE new == [st |-> "synced", e |-> job[r].e, net |-> rd[r].net, entry |-> r]
<1>4. row' = [row EXCEPT ![r] = new] BY <1>3 DEF CommitSync
<1>5. new \in Row BY <1>0 DEF Row, RowStates
<1>6. row[r].st = "none" /\ \A j \in Requests : row[j].st # "none" => row[j].entry # r
  BY <1>1 DEF SyncInv, RowsAreRecorded
<1>7. row'[r] = new /\ \A j \in Requests \ {r} : row'[j] = row[j] BY <1>0, <1>4 DEF TypeOK
<1>8. new.st = "synced" /\ new.e = job[r].e /\ new.net = rd[r].net /\ new.entry = r OBVIOUS
<1> HIDE DEF new
<1>9. RowsStay BY <1>6, <1>7 DEF RowsStay
<1>10. /\ pc'[r] = "done" /\ OthersStay(r)
       /\ \A q \in Requests : pc[q] = "done" => pc'[q] = "done"
       /\ \A q \in Requests : InFlightPush(q)' => q # r /\ InFlightPush(q)
       /\ MovesAsAsked' /\ PushesKnown' /\ PushesAlone' /\ FirstsAlone' /\ AnswersStand'
       /\ PushKnown(r)
       /\ crossed[job[r].e] = {} => Accepted(r)
       /\ push' \in [Requests -> Push]
  BY <1>9, RecordedPush DEF CommitSync, Pushing
<1>11. SyncTypeOK'
  <2>1. row' \in [Requests -> Row] BY <1>0, <1>4, <1>5 DEF TypeOK
  <2>2. state' \in [Expenses -> ExpenseStates] BY <1>0 DEF CommitSync, TypeOK, ExpenseStates
  <2>3. TypeOK' BY <1>0, <2>1, <2>2, FinishTypes DEF CommitSync, TypeOK
  <2> QED BY <1>0, <1>1, <1>10, <2>3 DEF SyncTypeOK
<1>12. "sync" \notin crossed[job[r].e] => ~AlreadyLinked(job[r].e)
  BY <1>1 DEF SyncInv, FirstsUnlinked
<1>13. RowsAreRecorded'
  <2>1. remote[r].e = job[r].e BY <1>1, <1>3, <1>10 DEF PushKnown
  <2> QED BY <1>1, <1>7, <1>8, <1>10, <2>1 DEF SyncInv, RowsAreRecorded
<1>14. OneRowPerExpense'
  BY <1>1, <1>7, <1>8, <1>12 DEF SyncInv, OneRowPerExpense, AlreadyLinked
<1>15. FirstsUnlinked'
  <2> SUFFICES ASSUME NEW q \in Requests, InFlightPush(q)', job'[q].op = "sync",
                      "sync" \notin crossed'[job'[q].e]
               PROVE  ~\E h \in Requests : row'[h].st # "none" /\ row'[h].e = job'[q].e
    BY DEF FirstsUnlinked, AlreadyLinked
  <2>1. q # r /\ InFlightPush(q) /\ job'[q] = job[q] BY <1>10 DEF OthersStay
  <2>2. ~AlreadyLinked(job[q].e) BY <1>1, <2>1 DEF SyncInv, FirstsUnlinked
  <2>3. job[q].e # job[r].e BY <1>1, <2>1 DEF SyncInv, FirstsAlone
  <2> QED BY <1>7, <1>8, <2>1, <2>2, <2>3 DEF AlreadyLinked
<1>16. RepairsFit'
  <2> SUFFICES ASSUME NEW q \in Requests, InFlightPush(q)', job'[q].op = "resync",
                      crossed'[job'[q].e] = {}
               PROVE  RepairFits(q)'
    BY DEF RepairsFit
  <2>1. /\ q # r /\ InFlightPush(q) /\ pc'[q] = pc[q] /\ job'[q] = job[q] /\ push'[q] = push[q]
    BY <1>10 DEF OthersStay
  <2>2. RepairFits(q) /\ job[q].a \in Requests /\ row[job[q].a].st # "none"
    BY <1>1, <2>1 DEF SyncInv, RepairsFit, PushesKnown, PushKnown
  <2>3. row'[job[q].a] = row[job[q].a] BY <1>6, <1>7, <2>2
  <2> QED BY <2>1, <2>2, <2>3 DEF RepairFits
<1>17. RowTellsWhatStands'
  <2>1. crossed[job[r].e] = {} =>
            remote[r].foreign \/ (remote[r].st = "standing" /\ remote[r].cost = rd[r].net)
    BY <1>2, <1>3, <1>10 DEF Accepted
  <2> QED BY <1>1, <1>7, <1>8, <2>1 DEF SyncInv, RowTellsWhatStands
<1>18. SyncInv'
  BY <1>10, <1>11, <1>13, <1>14, <1>15, <1>16, <1>17 DEF SyncInv
<1> QED BY <1>1, <1>6, <1>7, <1>8, <1>9, <1>18

LEMMA CommitResyncPreserves ==
    ASSUME SyncInv, NEW r \in Requests, CommitResync(r)
    PROVE  /\ SyncInv' /\ RowsStay /\ crossed' = crossed
           /\ \E i \in Requests :
                 /\ row[i].st # "none" /\ row'[i].e = row[i].e
                 /\ \A j \in Requests \ {i} : row'[j] = row[j]
                 /\ row'[i].st \in {"synced", "withdrawn"}
                 /\ crossed[row[i].e] = {} =>
                       /\ row[i].st \in Resyncable
                       /\ IF NothingStanding(row[i].st)
                            THEN /\ row'[i].st = "synced"
                                 /\ \A j \in Requests : row[j].st # "none" => row'[i].entry # row[j].entry
                            ELSE row'[i].entry = row[i].entry
<1>0. SyncTypeOK /\ TypeOK /\ rd[r].net \in Int /\ job[r].e \in Expenses /\ push[r] \in Push
  BY DEF SyncInv, SyncTypeOK, TypeOK, Job, Reading
<1>1. /\ pc[r] = "called" /\ job[r].op = "resync" /\ InFlightPush(r) /\ remote' = remote
      /\ crossed' = crossed
  BY DEF CommitResync, Answered, InFlightPush, Pushing
<1> DEFINE i == job[r].a
           p == push[r]
           new == [st |-> StatusAfter(p.repair), e |-> job[r].e, net |-> rd[r].net, entry |-> p.entry]
<1>2. row' = [row EXCEPT ![i] = new] BY DEF CommitResync
<1>3. i \in Requests /\ row[i].st # "none" /\ row[i].e = job[r].e
  BY <1>1 DEF SyncInv, PushesKnown, PushKnown
<1>4. new.st = (IF p.repair = "withdrawn" THEN "withdrawn" ELSE "synced")
  BY DEF StatusAfter
<1>5. new \in Row BY <1>0, <1>4 DEF Row, RowStates, Push
<1>6. row'[i] = new /\ \A j \in Requests \ {i} : row'[j] = row[j]
  BY <1>0, <1>2, <1>3 DEF TypeOK
<1>7. new.entry = p.entry /\ new.e = row[i].e /\ new.net = rd[r].net BY <1>3
<1>8. new.st \in {"synced", "withdrawn"} BY <1>4
<1> HIDE DEF new
<1>9. RowsStay BY <1>3, <1>6, <1>7, <1>8 DEF RowsStay
<1>10. /\ pc'[r] = "done" /\ OthersStay(r)
       /\ \A q \in Requests : pc[q] = "done" => pc'[q] = "done"
       /\ \A q \in Requests : InFlightPush(q)' => q # r /\ InFlightPush(q)
       /\ MovesAsAsked' /\ PushesKnown' /\ PushesAlone' /\ FirstsAlone' /\ AnswersStand'
       /\ PushKnown(r)
       /\ crossed[job[r].e] = {} => Accepted(r)
       /\ push' \in [Requests -> Push]
  BY <1>9, RecordedPush DEF CommitResync, Pushing
<1>11. SyncTypeOK'
  <2>1. row' \in [Requests -> Row] BY <1>0, <1>2, <1>5 DEF TypeOK
  <2>2. TypeOK' BY <1>0, <2>1, FinishTypes DEF CommitResync, TypeOK
  <2> QED BY <1>0, <1>1, <1>10, <2>2 DEF SyncTypeOK
<1>12. \A j \in Requests : row[j].st # "none" => row[j].entry \in Requests \ {r}
  BY <1>1 DEF SyncInv, RowsAreRecorded
<1>13. /\ p.entry \in Requests /\ pc'[p.entry] = "done"
       /\ remote[p.entry].e = row[i].e
  <2>1. OwnEntry(r) \/ NamedEntry(r) BY <1>1, <1>10 DEF PushKnown
  <2> QED BY <1>1, <1>3, <1>10, <2>1 DEF PushKnown, OwnEntry, NamedEntry
<1>14. crossed[row[i].e] = {} =>
           /\ row[i].st \in Resyncable
           /\ IF NothingStanding(row[i].st) THEN p.repair = "recreated" /\ p.entry = r
              ELSE p.repair \in {"corrected", "withdrawn"} /\ p.entry = row[i].entry
  <2> SUFFICES ASSUME crossed[row[i].e] = {}
               PROVE  /\ row[i].st \in Resyncable
                      /\ IF NothingStanding(row[i].st) THEN p.repair = "recreated" /\ p.entry = r
                         ELSE p.repair \in {"corrected", "withdrawn"} /\ p.entry = row[i].entry
    OBVIOUS
  <2>1. RepairFits(r) BY <1>1, <1>3 DEF SyncInv, RepairsFit
  <2> QED BY <1>1, <2>1 DEF RepairFits
<1>15. IF p.repair = "withdrawn" THEN crossed[row[i].e] = {} => remote[p.entry].st = "deleted"
       ELSE crossed[row[i].e] = {} =>
               remote[p.entry].foreign
               \/ (remote[p.entry].st = "standing" /\ remote[p.entry].cost = rd[r].net)
  BY <1>3, <1>10 DEF Accepted
<1> HIDE DEF p, i
<1>16. RowsAreRecorded'
  <2> SUFFICES ASSUME NEW h \in Requests, row'[h].st # "none"
               PROVE  /\ pc'[h] = "done"
                      /\ row'[h].entry \in Requests /\ pc'[row'[h].entry] = "done"
                      /\ remote'[row'[h].entry].e = row'[h].e
    BY DEF RowsAreRecorded
  <2>1. CASE h = i
    <3>1. pc'[i] = "done" BY <1>3, <1>10 DEF SyncInv, RowsAreRecorded
    <3> QED BY <1>1, <1>6, <1>7, <1>13, <2>1, <3>1
  <2>2. CASE h # i BY <1>1, <1>6, <1>10, <2>2 DEF SyncInv, RowsAreRecorded
  <2> QED BY <2>1, <2>2
<1>17. OneRowPerExpense'
  BY <1>1, <1>3, <1>6, <1>7 DEF SyncInv, OneRowPerExpense
<1>18. FirstsUnlinked'
  <2> SUFFICES ASSUME NEW q \in Requests, InFlightPush(q)', job'[q].op = "sync",
                      "sync" \notin crossed'[job'[q].e]
               PROVE  ~\E h \in Requests : row'[h].st # "none" /\ row'[h].e = job'[q].e
    BY DEF FirstsUnlinked, AlreadyLinked
  <2>1. InFlightPush(q) /\ job'[q] = job[q] BY <1>10 DEF OthersStay
  <2>2. ~AlreadyLinked(job[q].e) BY <1>1, <2>1 DEF SyncInv, FirstsUnlinked
  <2> QED BY <1>3, <1>6, <1>7, <2>1, <2>2 DEF AlreadyLinked
<1>19. RepairsFit'
  <2> SUFFICES ASSUME NEW q \in Requests, InFlightPush(q)', job'[q].op = "resync",
                      crossed'[job'[q].e] = {}
               PROVE  RepairFits(q)'
    BY DEF RepairsFit
  <2>1. /\ q # r /\ InFlightPush(q) /\ pc'[q] = pc[q] /\ job'[q] = job[q] /\ push'[q] = push[q]
    BY <1>10 DEF OthersStay
  <2>2. /\ RepairFits(q) /\ job[q].a \in Requests
        /\ row[job[q].a].e = job[q].e
    BY <1>1, <2>1 DEF SyncInv, RepairsFit, PushesKnown, PushKnown
  <2>3. job[q].e # job[r].e BY <1>1, <2>1 DEF SyncInv, PushesAlone
  <2>4. row'[job[q].a] = row[job[q].a] BY <1>3, <1>6, <2>2, <2>3
  <2> QED BY <2>1, <2>2, <2>4 DEF RepairFits
<1>20. RowTellsWhatStands'
  <2> SUFFICES ASSUME NEW h \in Requests, row'[h].st \in {"synced", "withdrawn"},
                      crossed[row'[h].e] = {}
               PROVE  LET entry == remote[row'[h].entry] IN
                      /\ row'[h].st = "withdrawn" => entry.st = "deleted"
                      /\ row'[h].st = "synced" /\ ~entry.foreign =>
                            entry.st = "standing" /\ entry.cost = row'[h].net
    BY <1>1 DEF RowTellsWhatStands
  <2>1. CASE h = i
    <3>1. /\ row'[h].st = (IF p.repair = "withdrawn" THEN "withdrawn" ELSE "synced")
          /\ row'[h].e = row[i].e /\ row'[h].net = rd[r].net /\ row'[h].entry = p.entry
      BY <1>4, <1>6, <1>7, <2>1
    <3> QED BY <1>15, <3>1
  <2>2. CASE h # i BY <1>6, <2>2 DEF SyncInv, RowTellsWhatStands
  <2> QED BY <2>1, <2>2
<1>21. crossed[row[i].e] = {} =>
           /\ row[i].st \in Resyncable
           /\ IF NothingStanding(row[i].st)
                THEN /\ row'[i].st = "synced"
                     /\ \A j \in Requests : row[j].st # "none" => row'[i].entry # row[j].entry
                ELSE row'[i].entry = row[i].entry
  BY <1>4, <1>6, <1>7, <1>12, <1>14
<1>22. SyncInv'
  BY <1>10, <1>11, <1>16, <1>17, <1>18, <1>19, <1>20 DEF SyncInv
<1>23. row'[i].e = row[i].e /\ row'[i].st \in {"synced", "withdrawn"} BY <1>6, <1>7, <1>8
<1> QED BY <1>1, <1>3, <1>6, <1>9, <1>21, <1>22, <1>23

-----------------------------------------------------------------------------
LEMMA SyncInvInit == SyncInit => SyncInv
<1> SUFFICES ASSUME SyncInit PROVE SyncInv OBVIOUS
<1>1. NoEntry \in Entry BY NullTypes DEF NoEntry, Entry
<1>2. NoPush \in Push BY DEF NoPush, Push, Repairs
<1>3. SyncTypeOK BY <1>1, <1>2, TypeInit DEF SyncInit, SyncTypeOK
<1>4. \A r \in Requests : pc[r] = "idle" /\ row[r].st = "none"
  BY DEF SyncInit, Init, NoRow
<1> QED BY <1>3, <1>4
        DEF SyncInv, MovesAsAsked, InFlightPush, RowsAreRecorded, PushesKnown, PushesAlone,
            FirstsAlone, FirstsUnlinked, OneRowPerExpense, RepairsFit, AnswersStand,
            RowTellsWhatStands

\* The kinds of step, for what follows.
LEMMA SyncSteps ==
    ASSUME SyncInv, [SyncNext]_syncVars
    PROVE  \/ UNCHANGED syncVars
           \/ \E r \in Requests :
                 \/ LedgerStep(r) \/ BeginPush(r) \/ ReadShares(r) \/ ReadRow(r)
                 \/ CallSplitwise(r) \/ CommitSync(r) \/ CommitResync(r) \/ LoseAnswer(r)
                 \/ EditEntry(r) \/ DeleteEntry(r)
           \/ \E e \in Expenses : DetectDrift(e)
BY DEF SyncNext, StepPush

LEMMA SyncInvStep == SyncInv /\ [SyncNext]_syncVars => SyncInv'
<1> SUFFICES ASSUME SyncInv, [SyncNext]_syncVars PROVE SyncInv' OBVIOUS
<1>1. CASE UNCHANGED syncVars
  <2> USE <1>1 DEF syncVars
  <2>1. SyncTypeOK' /\ MovesAsAsked' BY DEF SyncInv, SyncTypeOK, TypeOK, MovesAsAsked
  <2>2. RowsAreRecorded' /\ OneRowPerExpense' /\ RowTellsWhatStands'
    BY DEF SyncInv, RowsAreRecorded, OneRowPerExpense, RowTellsWhatStands
  <2>3. PushesKnown'
    BY DEF SyncInv, PushesKnown, InFlightPush, PushKnown, OwnEntry, NamedEntry
  <2>4. PushesAlone' /\ FirstsAlone'
    BY DEF SyncInv, PushesAlone, FirstsAlone, InFlightPush
  <2>5. FirstsUnlinked' BY DEF SyncInv, FirstsUnlinked, InFlightPush, AlreadyLinked
  <2>6. RepairsFit' /\ AnswersStand'
    BY DEF SyncInv, RepairsFit, RepairFits, AnswersStand, Accepted, InFlightPush
  <2> QED BY <2>1, <2>2, <2>3, <2>4, <2>5, <2>6 DEF SyncInv
<1> QED BY <1>1, SyncSteps, LedgerStepPreserves, BeginPushPreserves, ReadingPreserves,
           CallPreserves, CommitSyncPreserves, CommitResyncPreserves, LosePreserves,
           OtherPeoplePreserve, DriftPreserves

LEMMA SyncInvAlways == SyncSpec => []SyncInv
<1>1. SyncInv /\ [SyncNext]_syncVars => SyncInv' BY SyncInvStep
<1> QED BY <1>1, SyncInvInit, PTL DEF SyncSpec

-----------------------------------------------------------------------------
\* Requests, entries and rows keep their types.
THEOREM SyncTypeCorrect == SyncSpec => []SyncTypeOK
BY SyncInvAlways, PTL DEF SyncInv

\* A synced or withdrawn row says what stands in Splitwise, through lost answers, repairs and
\* what other people do, for every expense of which no push began while another was in flight
\* (resyncExpenseToSplitwise): the pushes of other expenses may overlap as they like.
THEOREM RowsTellWhatStands == SyncSpec => []RowTellsWhatStands
BY SyncInvAlways, PTL DEF SyncInv

\* An expense has two links only if a first sync of it began while another was in flight, and
\* has one once it is synced, when nothing but a push makes an expense synced, as the one route
\* that moves expenses by hand ensures.
THEOREM LinksAreUnique ==
    ASSUME "synced" \notin Targets
    PROVE  SyncSpec => []OneLinkPerExpense
<1> DEFINE Linked == \A e \in Expenses : state[e] = "synced" => AlreadyLinked(e)
<1>1. SyncInit => Linked BY DEF SyncInit, Init
<1>2. SyncInv /\ Linked /\ [SyncNext]_syncVars => Linked'
  <2> SUFFICES ASSUME SyncInv, Linked, [SyncNext]_syncVars, NEW e \in Expenses,
                      state'[e] = "synced"
               PROVE  AlreadyLinked(e)'
    OBVIOUS
  <2>0. SyncTypeOK /\ TypeOK /\ MovesAsAsked BY DEF SyncInv, SyncTypeOK
  \* It is enough that rows stay with their expense.
  <2>1. ASSUME state[e] = "synced",
               \A i \in Requests : row[i].st # "none" => row'[i].st # "none" /\ row'[i].e = row[i].e
        PROVE  AlreadyLinked(e)'
    BY <2>1 DEF AlreadyLinked
  <2>2. ASSUME NEW to \in {"stale", "drifted"}, OutOfStep(to), state[e] = "synced"
        PROVE  AlreadyLinked(e)'
    BY <2>0, <2>1, <2>2, MarkedRows
  <2>3. CASE UNCHANGED syncVars BY <2>1, <2>3 DEF syncVars
  <2>4. ASSUME NEW r \in Requests, LedgerStep(r) PROVE AlreadyLinked(e)'
    BY <2>0, <2>2, <2>4, LedgerStepEffect
  <2>5. ASSUME NEW r \in Requests,
               \/ BeginPush(r) \/ ReadShares(r) \/ ReadRow(r) \/ CallSplitwise(r)
               \/ LoseAnswer(r) \/ EditEntry(r) \/ DeleteEntry(r)
        PROVE  AlreadyLinked(e)'
    <3>1. row' = row /\ state' = state
      BY <2>5 DEF BeginPush, BeginSync, BeginResync, Read, ReadShares, ReadRow, ReadCurrent,
                  CallSplitwise, LoseAnswer, EditEntry, DeleteEntry, ledgerVars, vars
    <3> QED BY <2>1, <3>1
  <2>6. ASSUME NEW r \in Requests, CommitSync(r) PROVE AlreadyLinked(e)'
    <3>1. /\ row[r].st = "none" /\ row'[r].st = "synced" /\ row'[r].e = job[r].e
          /\ \A j \in Requests \ {r} : row'[j] = row[j]
      BY <2>6, CommitSyncPreserves
    <3>2. CASE e = job[r].e BY <3>1, <3>2 DEF AlreadyLinked
    <3>3. CASE e # job[r].e
      <4>1. state[e] = "synced" BY <2>0, <2>6, <3>3 DEF CommitSync, TypeOK
      <4> QED BY <2>1, <3>1, <4>1
    <3> QED BY <3>2, <3>3
  <2>7. ASSUME NEW r \in Requests, CommitResync(r) PROVE AlreadyLinked(e)'
    <3>1. state[e] = "synced" BY <2>7 DEF CommitResync
    <3>2. RowsStay BY <2>7, CommitResyncPreserves
    <3> QED BY <2>1, <3>1, <3>2 DEF RowsStay
  <2>8. ASSUME NEW d \in Expenses, DetectDrift(d) PROVE AlreadyLinked(e)'
    <3>1. state[e] = "synced" BY <2>8 DEF DetectDrift
    <3> QED BY <2>2, <2>8, <3>1, DriftPreserves
  <2> QED BY <2>3, <2>4, <2>5, <2>6, <2>7, <2>8, SyncSteps
<1>3. SyncInv /\ Linked => OneLinkPerExpense
  BY DEF SyncInv, OneRowPerExpense, OneLinkPerExpense
<1> QED BY <1>1, <1>2, <1>3, SyncInvAlways, PTL DEF SyncSpec

-----------------------------------------------------------------------------
(* The rows implement SplitwiseLink                                        *)

LEMMA LinkInit == SyncInit => Link!Init
<1> SUFFICES ASSUME SyncInit PROVE Link!Init OBVIOUS
<1>1. \A i \in Requests : row[i].st = "none" /\ row[i].entry = NoRequest
  BY DEF SyncInit, Init, NoRow
<1> QED BY <1>1 DEF Link!Init

\* Every step keeps rows with their expense, and what crossed crossed.
LEMMA RowsAndCrossingsStay ==
    ASSUME SyncInv, [SyncNext]_syncVars PROVE RowsStay /\ CrossingsStay
<1>0. SyncTypeOK BY DEF SyncInv
<1>1. ASSUME row' = row PROVE RowsStay BY <1>1 DEF RowsStay
<1>2. ASSUME crossed' = crossed PROVE CrossingsStay BY <1>2 DEF CrossingsStay
<1>3. ASSUME NEW to \in {"stale", "drifted"}, OutOfStep(to) PROVE RowsStay
  BY <1>0, <1>3, MarkedRows DEF RowsStay
<1>4. CASE UNCHANGED syncVars BY <1>1, <1>2, <1>4 DEF syncVars
<1>5. ASSUME NEW r \in Requests, LedgerStep(r) PROVE RowsStay /\ CrossingsStay
  BY <1>2, <1>3, <1>5, LedgerStepEffect DEF SyncInv
<1>6. ASSUME NEW r \in Requests, BeginPush(r) PROVE RowsStay /\ CrossingsStay
  BY <1>1, <1>6, BeginPushPreserves
<1>7. ASSUME NEW r \in Requests,
             \/ ReadShares(r) \/ ReadRow(r) \/ CallSplitwise(r)
             \/ LoseAnswer(r) \/ EditEntry(r) \/ DeleteEntry(r)
      PROVE  RowsStay /\ CrossingsStay
  BY <1>1, <1>2, <1>7, ReadingPreserves, CallPreserves, LosePreserves, OtherPeoplePreserve
<1>8. ASSUME NEW r \in Requests, CommitSync(r) \/ CommitResync(r)
      PROVE  RowsStay /\ CrossingsStay
  BY <1>2, <1>8, CommitSyncPreserves, CommitResyncPreserves
<1>9. ASSUME NEW e \in Expenses, DetectDrift(e) PROVE RowsStay /\ CrossingsStay
  BY <1>2, <1>3, <1>9, DriftPreserves
<1> QED BY <1>4, <1>5, <1>6, <1>7, <1>8, <1>9, SyncSteps

LEMMA LinkStep == SyncInv /\ [SyncNext]_syncVars => [Link!Next]_Link!linkVars
<1> SUFFICES ASSUME SyncInv, [SyncNext]_syncVars PROVE Link!Next OBVIOUS
<1>0. SyncTypeOK /\ \A i \in Requests : row[i].e \in Expenses
  BY DEF SyncInv, SyncTypeOK, TypeOK, Row
<1> DEFINE Contested == {i \in Requests : row[i].st # "none" /\ crossed[row[i].e] # {}}
<1>1. RowsStay /\ CrossingsStay BY RowsAndCrossingsStay
<1>2. Contested \subseteq Contested' BY <1>0, <1>1 DEF RowsStay, CrossingsStay
<1>3. ASSUME \A l \in Requests \ Contested' : Link!Unchanged(l) \/ Link!Appears(l) \/ Link!Moves(l)
      PROVE  Link!Next
  BY <1>2, <1>3 DEF Link!Next
<1> HIDE DEF Contested
\* A row that stays as it is.
<1>4. ASSUME NEW l \in Requests, row'[l] = row[l] PROVE Link!Unchanged(l)
  BY <1>4 DEF Link!Unchanged
<1>5. ASSUME row' = row PROVE Link!Next BY <1>3, <1>4, <1>5
<1>6. CASE UNCHANGED syncVars BY <1>5, <1>6 DEF syncVars
<1>7. ASSUME NEW to \in {"stale", "drifted"}, OutOfStep(to) PROVE Link!Next
  <2> SUFFICES ASSUME NEW l \in Requests PROVE Link!Unchanged(l) \/ Link!Moves(l)
    BY <1>3
  <2>1. CASE row'[l] = row[l] BY <1>4, <2>1
  <2>2. CASE row'[l] # row[l]
    <3>1. row[l].st = "synced" /\ row'[l].st = to /\ row'[l].entry = row[l].entry
      <4>1. row[l] \in Row BY <1>0 DEF SyncTypeOK, TypeOK
      <4> QED BY <1>7, <2>2, <4>1 DEF OutOfStep, Row
    <3> QED BY <3>1 DEF Link!Moves, Link!Transitions, Link!NothingStands
  <2> QED BY <2>1, <2>2
<1>8. ASSUME NEW r \in Requests, CommitSync(r) PROVE Link!Next
  <2> SUFFICES ASSUME NEW l \in Requests PROVE Link!Unchanged(l) \/ Link!Appears(l)
    BY <1>3
  <2>1. /\ row[r].st = "none" /\ row'[r].st = "synced" /\ row'[r].entry = r
        /\ \A j \in Requests \ {r} : row'[j] = row[j]
        /\ \A j \in Requests : row[j].st # "none" => row[j].entry # r
    BY <1>8, CommitSyncPreserves
  <2>2. CASE l = r BY <2>1, <2>2 DEF Link!Appears
  <2> QED BY <1>4, <2>1, <2>2
<1>9. ASSUME NEW r \in Requests, CommitResync(r) PROVE Link!Next
  <2> SUFFICES ASSUME NEW l \in Requests, l \notin Contested'
               PROVE  Link!Unchanged(l) \/ Link!Moves(l)
    BY <1>3
  <2>1. PICK i \in Requests :
           /\ row[i].st # "none" /\ row'[i].e = row[i].e
           /\ \A j \in Requests \ {i} : row'[j] = row[j]
           /\ row'[i].st \in {"synced", "withdrawn"}
           /\ crossed[row[i].e] = {} =>
                 /\ row[i].st \in Resyncable
                 /\ IF NothingStanding(row[i].st)
                      THEN /\ row'[i].st = "synced"
                           /\ \A j \in Requests : row[j].st # "none" => row'[i].entry # row[j].entry
                      ELSE row'[i].entry = row[i].entry
    BY <1>9, CommitResyncPreserves
  <2>2. CASE l = i
    <3>1. crossed' = crossed BY <1>9, CommitResyncPreserves
    <3>2. crossed[row[i].e] = {} BY <2>1, <2>2, <3>1 DEF Contested
    <3> QED BY <2>1, <2>2, <3>2
            DEF Link!Moves, Link!Transitions, Link!NothingStands, NothingStanding, Resyncable
  <2> QED BY <1>4, <2>1, <2>2
<1>10. ASSUME NEW r \in Requests, LedgerStep(r) PROVE OutOfStep("stale")
  BY <1>10, LedgerStepEffect DEF SyncInv
<1>11. ASSUME NEW r \in Requests,
              \/ BeginPush(r) \/ ReadShares(r) \/ ReadRow(r) \/ CallSplitwise(r)
              \/ LoseAnswer(r) \/ EditEntry(r) \/ DeleteEntry(r)
       PROVE  row' = row
  BY <1>11, BeginPushPreserves, ReadingPreserves, CallPreserves, LosePreserves,
     OtherPeoplePreserve
<1> QED BY <1>5, <1>6, <1>7, <1>8, <1>9, <1>10, <1>11, DriftPreserves, SyncSteps

\* First syncs, re-syncs and drift detection implement SplitwiseLink: until two pushes of its
\* expense overlap, the status of a row moves only as lifecycle.ts draws, and a repair names
\* another entry only when nothing stands any more.
THEOREM SyncImplementsLink == SyncSpec => RowsFollowTheLink
<1>1. SyncInv /\ [SyncNext]_syncVars => [Link!Next]_Link!linkVars BY LinkStep
<1> QED BY <1>1, LinkInit, SyncInvAlways, PTL DEF SyncSpec, RowsFollowTheLink, Link!Spec
=============================================================================
