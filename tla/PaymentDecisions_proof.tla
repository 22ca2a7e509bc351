------------------------ MODULE PaymentDecisions_proof ------------------------
(***************************************************************************)
(* Theorems about what makes a payment count, for any number of payments,  *)
(* requests and classes and any amount.                                    *)
(***************************************************************************)
EXTENDS PaymentDecisions, TLAPS

\* A request that has not committed has inserted nothing.
Uninserted == \A r \in Requests : pc[r] # "done" => inf[r].st = "none" /\ exp[r] = "none"

\* An undecided proposal points at the expense inserted with it, or at none.
PendingOwns == \A i \in Requests : inf[i].st = "pending" => inf[i].rec \in {i, NoRequest}

\* What a request was asked fits the inference it is about, and keeps fitting it.
JobsFit ==
    \A r \in Requests :
        /\ job[r].rec \in {job[r].i, NoRequest}
        /\ job[r].i # NoRequest => inf[job[r].i].st # "none"
        /\ job[r].op \in {"reject", "accept"} => job[r].i \in Requests
        /\ job[r].op = "reclassify" /\ pc[r] = "open" => job[r].i \in Requests
        /\ job[r].op = "accept" => job[r].p = inf[job[r].i].p

\* Whoever declines an expense holds its inference, and nobody approved it meanwhile.
DeclinersHold ==
    \A r \in Requests : pc[r] = "declining" /\ job[r].rec # NoRequest =>
        /\ held[job[r].rec] = r
        /\ exp[job[r].rec] \in {"derived", "rejected"}

\* Whoever counts a payment holds its class, and nobody else approved the expense it read.
CountersHold ==
    \A r \in Requests : pc[r] = "counting" =>
        /\ class[ClassOf[job[r].p]] = r
        /\ job[r].rec # NoRequest => /\ job[r].op = "accept"
                                     /\ exp[job[r].rec] \in {"derived", "rejected"}

DecisionInv ==
    /\ TypeOK
    /\ Uninserted
    /\ PendingOwns
    /\ JobsFit
    /\ DeclinersHold
    /\ CountersHold

-----------------------------------------------------------------------------
LEMMA NoJobIsTyped ==
    /\ NoInference \in [st : Statuses, p : Payments, kind : ProposalKinds, rec : RequestOrNone]
    /\ NoJob \in [op : Ops, p : Payments, i : RequestOrNone, kind : ProposalKinds,
                  rec : RequestOrNone, canonical : Payments \cup {NoPayment}]
<1>1. AnyPayment \in Payments BY PaymentsAssumption DEF AnyPayment
<1> QED BY <1>1 DEF NoInference, NoJob, Statuses, ProposalKinds, RequestOrNone, Ops

LEMMA DecisionInit == Init => DecisionInv
<1> SUFFICES ASSUME Init PROVE DecisionInv OBVIOUS
<1>1. TypeOK
  BY NoJobIsTyped DEF Init, TypeOK, ExpenseStates, RequestOrNone
<1>2. Uninserted /\ PendingOwns /\ JobsFit /\ DeclinersHold /\ CountersHold
  BY DEF Init, Uninserted, PendingOwns, JobsFit, DeclinersHold, CountersHold, NoInference, NoJob
<1> QED BY <1>1, <1>2 DEF DecisionInv

\* What a request that begins looks like: it reads, and may take the lock of one class.
Opens(r, j, next) ==
    /\ Begin(r, j, next)
    /\ j \in [op : Ops, p : Payments, i : RequestOrNone, kind : ProposalKinds,
              rec : RequestOrNone, canonical : Payments \cup {NoPayment}]
    /\ next \in {"open", "declining", "counting"}
    /\ next \in {"declining", "counting"} => j.rec = NoRequest
    /\ held' = held
    /\ IF next = "counting"
       THEN ClassFree(j.p) /\ MayBeCounted(j.p) /\ class' = [class EXCEPT ![ClassOf[j.p]] = r]
       ELSE class' = class
    /\ j.rec \in {j.i, NoRequest}
    /\ j.i # NoRequest => inf[j.i].st # "none"
    /\ j.op \in {"reject", "accept"} => j.i \in Requests
    /\ j.op = "reclassify" /\ next = "open" => j.i \in Requests
    /\ j.op = "accept" => j.p = inf[j.i].p

LEMMA StartsOpen ==
    ASSUME DecisionInv, NEW r \in Requests, Start(r)
    PROVE  \E j, next : Opens(r, j, next)
<1> USE DEF Opens, NoJob
<1>1. ASSUME NEW p \in Payments, BeginClassify(r, p) PROVE \E j, next : Opens(r, j, next)
  <2> DEFINE j == [NoJob EXCEPT !.op = "classify", !.p = p]
  <2>1. Opens(r, j, "open") BY <1>1, NoJobIsTyped DEF BeginClassify, Ops
  <2> QED BY <2>1
<1>2. ASSUME NEW p \in Payments, BeginReclassify(r, p) PROVE \E j, next : Opens(r, j, next)
  <2> DEFINE i == latest[p]
             j1 == [NoJob EXCEPT !.op = "reclassify", !.p = p, !.i = i, !.rec = inf[i].rec]
             j2 == [NoJob EXCEPT !.op = "reclassify", !.p = p]
  <2>1. i \in Requests /\ inf[i].rec \in RequestOrNone
    BY <1>2 DEF BeginReclassify, DecisionInv, TypeOK, RequestOrNone
  <2>2. CASE inf[i].st = "pending"
    <3>1. inf[i].rec \in {i, NoRequest} BY <2>1, <2>2 DEF DecisionInv, PendingOwns
    <3>2. Begin(r, j1, "open") /\ held' = held /\ class' = class
      BY <1>2, <2>2 DEF BeginReclassify
    <3>3. Opens(r, j1, "open") BY <2>1, <2>2, <3>1, <3>2, NoJobIsTyped DEF Ops, RequestOrNone
    <3> QED BY <3>3
  <2>3. CASE inf[i].st # "pending"
    <3>2. Begin(r, j2, "declining") /\ held' = held /\ class' = class
      BY <1>2, <2>3 DEF BeginReclassify
    <3>3. Opens(r, j2, "declining") BY <3>2, NoJobIsTyped DEF Ops
    <3> QED BY <3>3
  <2> QED BY <2>2, <2>3
<1>3. ASSUME NEW p \in Payments, NEW op \in {"settle", "fund"}, BeginByHand(r, op, p)
      PROVE  \E j, next : Opens(r, j, next)
  <2> DEFINE j == [NoJob EXCEPT !.op = op, !.p = p]
  <2>1. Opens(r, j, "counting") BY <1>3, NoJobIsTyped DEF BeginByHand, Ops
  <2> QED BY <2>1
<1>4. ASSUME NEW p \in Payments, NEW q \in Payments, BeginConfirm(r, p, q)
      PROVE  \E j, next : Opens(r, j, next)
  <2>1. PICK canonical \in Payments :
          Begin(r, [NoJob EXCEPT !.op = "confirm", !.p = p, !.canonical = canonical], "open")
    BY <1>4 DEF BeginConfirm
  <2> DEFINE j == [NoJob EXCEPT !.op = "confirm", !.p = p, !.canonical = canonical]
  <2>2. Opens(r, j, "open") BY <1>4, <2>1, NoJobIsTyped DEF BeginConfirm, Ops
  <2> QED BY <2>2
<1>5. ASSUME NEW i \in Requests, inf[i].st = "pending"
      PROVE  inf[i].rec \in {i, NoRequest} /\ inf[i].p \in Payments
  BY <1>5 DEF DecisionInv, TypeOK, PendingOwns
<1>6. ASSUME NEW i \in Requests, BeginReject(r, i) PROVE \E j, next : Opens(r, j, next)
  <2> DEFINE j == [NoJob EXCEPT !.op = "reject", !.p = inf[i].p, !.i = i, !.rec = inf[i].rec]
  <2>1. Opens(r, j, "open") BY <1>5, <1>6, NoJobIsTyped DEF BeginReject, Ops, RequestOrNone
  <2> QED BY <2>1
<1>7. ASSUME NEW i \in Requests, NEW kind \in ProposalKinds, BeginAccept(r, i, kind)
      PROVE  \E j, next : Opens(r, j, next)
  <2> DEFINE j == [NoJob EXCEPT !.op = "accept", !.p = inf[i].p, !.i = i, !.kind = kind,
                                !.rec = inf[i].rec]
  <2>1. Opens(r, j, "open") BY <1>5, <1>7, NoJobIsTyped DEF BeginAccept, Ops, RequestOrNone
  <2> QED BY <2>1
<1> HIDE DEF Opens
<1> QED BY <1>1, <1>2, <1>3, <1>4, <1>6, <1>7 DEF Start

LEMMA OpensPreserves ==
    ASSUME DecisionInv, NEW r \in Requests, NEW j, NEW next, Opens(r, j, next)
    PROVE  DecisionInv'
<1> USE DEF Opens, Begin, ledger, DecisionInv
<1>1. TypeOK'
  <2>1. class' \in [Classes -> RequestOrNone]
    BY DEF TypeOK, Classes, RequestOrNone
  <2>2. pc' \in [Requests -> {"idle", "open", "declining", "counting", "done"}] BY DEF TypeOK
  <2> QED BY <2>1, <2>2 DEF TypeOK
<1>2. \A x \in Requests : /\ job'[x] = IF x = r THEN j ELSE job[x]
                         /\ pc'[x] = IF x = r THEN next ELSE pc[x]
  BY DEF TypeOK
<1>3. Uninserted' BY <1>2 DEF Uninserted
<1>4. PendingOwns' BY DEF PendingOwns
<1>5. JobsFit' BY <1>2 DEF JobsFit
<1>6. DeclinersHold' BY <1>2 DEF DeclinersHold
<1>7. CountersHold'
  <2> SUFFICES ASSUME NEW x \in Requests, pc'[x] = "counting"
               PROVE  /\ class'[ClassOf[job'[x].p]] = x
                      /\ job'[x].rec # NoRequest =>
                           /\ job'[x].op = "accept"
                           /\ exp[job'[x].rec] \in {"derived", "rejected"}
    BY DEF CountersHold
  <2>1. \A p \in Payments : ClassOf[p] \in Classes BY DEF Classes
  <2>2. CASE x = r BY <1>2, <2>1, <2>2 DEF TypeOK
  <2>3. CASE x # r
    <3>1. class[ClassOf[job[x].p]] = x /\ job[x].p \in Payments
      BY <1>2, <2>3 DEF CountersHold, TypeOK
    <3>2. class'[ClassOf[job[x].p]] = x
      BY <2>1, <3>1, RequestsAssumption DEF TypeOK, ClassFree
    <3> QED BY <1>2, <2>3, <3>2 DEF CountersHold
  <2> QED BY <2>2, <2>3
<1> QED BY <1>1, <1>3, <1>4, <1>5, <1>6, <1>7

\* A request that ends takes its locks with it and leaves the others theirs.
LEMMA FinishedIsOver ==
    ASSUME DecisionInv, NEW r \in Requests, Finish(r)
    PROVE  /\ pc' \in [Requests -> {"idle", "open", "declining", "counting", "done"}]
           /\ job' \in [Requests -> [op : Ops, p : Payments, i : RequestOrNone,
                         kind : ProposalKinds, rec : RequestOrNone,
                         canonical : Payments \cup {NoPayment}]]
           /\ class' \in [Classes -> RequestOrNone]
           /\ held' \in [Requests -> RequestOrNone]
           /\ pc'[r] = "done" /\ job'[r] = NoJob
           /\ \A x \in Requests \ {r} : pc'[x] = pc[x] /\ job'[x] = job[x]
           /\ \A x \in Requests \ {r}, c \in Classes : class[c] = x => class'[c] = x
           /\ \A x \in Requests \ {r}, i \in Requests : held[i] = x => held'[i] = x
<1> USE DEF DecisionInv, TypeOK, Finish
<1>1. class' \in [Classes -> RequestOrNone] /\ held' \in [Requests -> RequestOrNone]
  BY DEF RequestOrNone
<1>2. job' \in [Requests -> [op : Ops, p : Payments, i : RequestOrNone, kind : ProposalKinds,
                            rec : RequestOrNone, canonical : Payments \cup {NoPayment}]]
  BY NoJobIsTyped
<1> QED BY <1>1, <1>2

\* What a commit must keep for the promises of the requests that are still under way.
LEMMA CommitPreserves ==
    ASSUME DecisionInv, NEW r \in Requests, Finish(r), TypeOK',
           \A x \in Requests \ {r} : pc[x] # "done" => inf'[x].st = "none" /\ exp'[x] = "none",
           \A i \in Requests : inf'[i].st = "pending" => inf'[i].rec \in {i, NoRequest},
           \A i \in Requests : inf[i].st # "none" => inf'[i].st # "none" /\ inf'[i].p = inf[i].p,
           \A x \in Requests \ {r} :
               /\ pc[x] \in {"declining", "counting"}
               /\ job[x].rec # NoRequest
               => exp'[job[x].rec] \in {"derived", "rejected"}
    PROVE  DecisionInv'
<1> USE FinishedIsOver
<1>1. Uninserted' BY DEF Uninserted
<1>2. PendingOwns' BY DEF PendingOwns
<1>3. JobsFit'
  <2> SUFFICES ASSUME NEW x \in Requests
               PROVE  /\ job'[x].rec \in {job'[x].i, NoRequest}
                      /\ job'[x].i # NoRequest => inf'[job'[x].i].st # "none"
                      /\ job'[x].op \in {"reject", "accept"} => job'[x].i \in Requests
                      /\ job'[x].op = "reclassify" /\ pc'[x] = "open" => job'[x].i \in Requests
                      /\ job'[x].op = "accept" => job'[x].p = inf'[job'[x].i].p
    BY DEF JobsFit
  <2>1. CASE x = r BY <2>1 DEF NoJob
  <2>2. CASE x # r
    <3>1. job[x].i \in RequestOrNone BY DEF DecisionInv, TypeOK
    <3> QED BY <2>2, <3>1, RequestsAssumption DEF DecisionInv, JobsFit, RequestOrNone
  <2> QED BY <2>1, <2>2
<1>4. DeclinersHold'
  <2> SUFFICES ASSUME NEW x \in Requests \ {r}, pc[x] = "declining", job[x].rec # NoRequest
               PROVE  held'[job[x].rec] = x /\ exp'[job[x].rec] \in {"derived", "rejected"}
    BY DEF DeclinersHold
  <2>1. job[x].rec \in Requests BY DEF DecisionInv, TypeOK, RequestOrNone
  <2> QED BY <2>1 DEF DecisionInv, DeclinersHold
<1>5. CountersHold'
  <2> SUFFICES ASSUME NEW x \in Requests \ {r}, pc[x] = "counting"
               PROVE  /\ class'[ClassOf[job[x].p]] = x
                      /\ job[x].rec # NoRequest =>
                           /\ job[x].op = "accept"
                           /\ exp'[job[x].rec] \in {"derived", "rejected"}
    BY DEF CountersHold
  <2>1. ClassOf[job[x].p] \in Classes BY DEF DecisionInv, TypeOK, Classes
  <2> QED BY <2>1 DEF DecisionInv, CountersHold
<1> QED BY <1>1, <1>2, <1>3, <1>4, <1>5 DEF DecisionInv

\* The expenses other requests have read exist already, and so are not the one r inserts.
LEMMA ReadExpensesExist ==
    ASSUME DecisionInv, NEW r \in Requests, pc[r] # "done", NEW x \in Requests,
           pc[x] \in {"declining", "counting"}, job[x].rec # NoRequest
    PROVE  /\ job[x].rec \in Requests \ {r} /\ job[x].rec = job[x].i
           /\ exp[job[x].rec] \in {"derived", "rejected"}
<1>1. job[x].rec \in Requests BY DEF DecisionInv, TypeOK, RequestOrNone
<1>2. exp[job[x].rec] \in {"derived", "rejected"}
  BY DEF DecisionInv, DeclinersHold, CountersHold
<1>3. job[x].rec # r BY <1>2 DEF DecisionInv, Uninserted
<1> QED BY <1>1, <1>2, <1>3 DEF DecisionInv, JobsFit

LEMMA ClassifyPreserves ==
    ASSUME DecisionInv, NEW r \in Requests, CommitClassify(r)
    PROVE  DecisionInv'
<1>0. Finish(r) /\ pc[r] # "done" /\ job[r].p \in Payments
  BY DEF CommitClassify, Asked, DecisionInv, TypeOK
<1>1. PICK kind \in ProposalKinds : /\ inf' = [inf EXCEPT ![r] = Proposed(r, job[r].p, kind)]
                                   /\ exp' = [exp EXCEPT ![r] = DerivedFor(kind)]
  BY DEF CommitClassify
<1>2. TypeOK'
  BY <1>0, <1>1, FinishedIsOver
     DEF CommitClassify, DecisionInv, TypeOK, Proposed, DerivedFor, Statuses, RequestOrNone,
         ExpenseStates
<1>3. \A x \in Requests \ {r} : inf'[x] = inf[x] /\ exp'[x] = exp[x]
  BY <1>1 DEF DecisionInv, TypeOK
<1>4. inf'[r] = Proposed(r, job[r].p, kind) /\ inf[r].st = "none"
  BY <1>0, <1>1 DEF DecisionInv, TypeOK, Uninserted
<1>5. \A i \in Requests : inf'[i].st = "pending" => inf'[i].rec \in {i, NoRequest}
  BY <1>3, <1>4 DEF DecisionInv, PendingOwns, Proposed
<1>6. \A x \in Requests \ {r} : pc[x] # "done" => inf'[x].st = "none" /\ exp'[x] = "none"
  BY <1>3 DEF DecisionInv, Uninserted
<1>7. \A i \in Requests : inf[i].st # "none" => inf'[i].st # "none" /\ inf'[i].p = inf[i].p
  BY <1>3, <1>4
<1>8. \A x \in Requests \ {r} :
        pc[x] \in {"declining", "counting"} /\ job[x].rec # NoRequest
        => exp'[job[x].rec] \in {"derived", "rejected"}
  BY <1>0, <1>3, ReadExpensesExist
<1> QED BY <1>0, <1>2, <1>5, <1>6, <1>7, <1>8, CommitPreserves

LEMMA ReclassifyPreserves ==
    ASSUME DecisionInv, NEW r \in Requests, CommitReclassify(r)
    PROVE  DecisionInv'
<1> DEFINE i == job[r].i
<1>0. Finish(r) /\ pc[r] # "done" /\ job[r].p \in Payments
  BY DEF CommitReclassify, Asked, DecisionInv, TypeOK
<1>1. PICK kind \in ProposalKinds :
        /\ inf' = [x \in Requests |-> CASE x = r -> Proposed(r, job[r].p, kind)
                                        [] x = i -> [inf[x] EXCEPT !.st = "superseded"]
                                        [] OTHER -> inf[x]]
        /\ exp' = [Declined(job[r].rec) EXCEPT ![r] = DerivedFor(kind)]
  BY DEF CommitReclassify
<1>2. /\ inf'[r] = Proposed(r, job[r].p, kind) /\ inf[r].st = "none" /\ i # r
      /\ \A x \in Requests \ {r} :
          inf'[x] = IF x = i THEN [inf[x] EXCEPT !.st = "superseded"] ELSE inf[x]
  BY <1>0, <1>1, RequestsAssumption DEF DecisionInv, TypeOK, Uninserted, JobsFit
<1>3. /\ exp' \in [Requests -> ExpenseStates]
      /\ \A x \in Requests \ {r} :
          exp'[x] = IF x = job[r].rec THEN "rejected" ELSE exp[x]
  BY <1>1 DEF Declined, DerivedFor, DecisionInv, TypeOK, ExpenseStates
<1>4. inf' \in [Requests -> [st : Statuses, p : Payments, kind : ProposalKinds,
                             rec : RequestOrNone]]
  BY <1>0, <1>1 DEF DecisionInv, TypeOK, Proposed, Statuses, RequestOrNone
<1>5. TypeOK'
  BY <1>0, <1>3, <1>4, FinishedIsOver
     DEF CommitReclassify, DecisionInv, TypeOK, RequestOrNone
<1>6. \A x \in Requests \ {r} :
         /\ inf'[x].st = IF x = i THEN "superseded" ELSE inf[x].st
         /\ inf'[x].p = inf[x].p /\ inf'[x].rec = inf[x].rec
  <2> SUFFICES ASSUME NEW x \in Requests \ {r}
               PROVE  /\ inf'[x].st = IF x = i THEN "superseded" ELSE inf[x].st
                      /\ inf'[x].p = inf[x].p /\ inf'[x].rec = inf[x].rec
    OBVIOUS
  <2>1. inf[x] \in [st : Statuses, p : Payments, kind : ProposalKinds, rec : RequestOrNone]
    BY DEF DecisionInv, TypeOK
  <2>2. inf'[x] = IF x = i THEN [inf[x] EXCEPT !.st = "superseded"] ELSE inf[x] BY <1>2
  <2> QED BY <2>1, <2>2
<1>7. \A x \in Requests : inf'[x].st = "pending" => inf'[x].rec \in {x, NoRequest}
  BY <1>2, <1>6 DEF DecisionInv, PendingOwns, Proposed
<1>8. \A x \in Requests \ {r} : pc[x] # "done" => inf'[x].st = "none" /\ exp'[x] = "none"
  <2> SUFFICES ASSUME NEW x \in Requests \ {r}, pc[x] # "done"
               PROVE  inf'[x].st = "none" /\ exp'[x] = "none"
    OBVIOUS
  <2>1. inf[x].st = "none" /\ exp[x] = "none" BY DEF DecisionInv, Uninserted
  <2>2. x # i BY <2>1, RequestsAssumption DEF DecisionInv, JobsFit
  <2>3. x # job[r].rec BY <2>2, RequestsAssumption DEF DecisionInv, JobsFit
  <2> QED BY <1>2, <1>3, <2>1, <2>2, <2>3
<1>9. \A x \in Requests : inf[x].st # "none" => inf'[x].st # "none" /\ inf'[x].p = inf[x].p
  BY <1>2, <1>6
<1>10. \A x \in Requests \ {r} :
        pc[x] \in {"declining", "counting"} /\ job[x].rec # NoRequest
        => exp'[job[x].rec] \in {"derived", "rejected"}
  BY <1>0, <1>3, ReadExpensesExist
<1> QED BY <1>0, <1>5, <1>7, <1>8, <1>9, <1>10, CommitPreserves

LEMMA RejectPreserves ==
    ASSUME DecisionInv, NEW r \in Requests, CommitReject(r)
    PROVE  DecisionInv'
<1> DEFINE i == job[r].i
<1>0. Finish(r) /\ pc[r] # "done" /\ i \in Requests /\ inf[i].st # "none"
  BY RequestsAssumption DEF CommitReject, Asked, DecisionInv, JobsFit
<1>1. \A x \in Requests : inf'[x] = IF x = i THEN [inf[x] EXCEPT !.st = "rejected"] ELSE inf[x]
  BY <1>0 DEF CommitReject, DecisionInv, TypeOK
<1>2. \A x \in Requests : exp'[x] = IF x = job[r].rec THEN "rejected" ELSE exp[x]
  BY DEF CommitReject, Declined
<1>3. \A x \in Requests :
        /\ inf'[x].st = IF x = i THEN "rejected" ELSE inf[x].st
        /\ inf'[x].p = inf[x].p /\ inf'[x].rec = inf[x].rec
  <2> SUFFICES ASSUME NEW x \in Requests
               PROVE  /\ inf'[x].st = IF x = i THEN "rejected" ELSE inf[x].st
                      /\ inf'[x].p = inf[x].p /\ inf'[x].rec = inf[x].rec
    OBVIOUS
  <2>1. inf[x] \in [st : Statuses, p : Payments, kind : ProposalKinds, rec : RequestOrNone]
    BY DEF DecisionInv, TypeOK
  <2>2. inf'[x] = IF x = i THEN [inf[x] EXCEPT !.st = "rejected"] ELSE inf[x] BY <1>1
  <2> QED BY <2>1, <2>2
<1>4. TypeOK'
  <2>1. inf' \in [Requests -> [st : Statuses, p : Payments, kind : ProposalKinds,
                             rec : RequestOrNone]]
    BY <1>0 DEF CommitReject, DecisionInv, TypeOK, Statuses
  <2>2. exp' \in [Requests -> ExpenseStates]
    BY DEF CommitReject, Declined, DecisionInv, TypeOK, ExpenseStates
  <2> QED BY <1>0, <2>1, <2>2, FinishedIsOver DEF CommitReject, DecisionInv, TypeOK
<1>5. \A x \in Requests : inf'[x].st = "pending" => inf'[x].rec \in {x, NoRequest}
  BY <1>3 DEF DecisionInv, PendingOwns
<1>6. \A x \in Requests \ {r} : pc[x] # "done" => inf'[x].st = "none" /\ exp'[x] = "none"
  <2> SUFFICES ASSUME NEW x \in Requests \ {r}, pc[x] # "done"
               PROVE  inf'[x].st = "none" /\ exp'[x] = "none"
    OBVIOUS
  <2>1. inf[x].st = "none" /\ exp[x] = "none" BY DEF DecisionInv, Uninserted
  <2>2. x # i /\ x # job[r].rec BY <1>0, <2>1, RequestsAssumption DEF DecisionInv, JobsFit
  <2> QED BY <1>1, <1>2, <2>1, <2>2
<1>7. \A x \in Requests : inf[x].st # "none" => inf'[x].st # "none" /\ inf'[x].p = inf[x].p
  BY <1>3
<1>8. \A x \in Requests \ {r} :
        pc[x] \in {"declining", "counting"} /\ job[x].rec # NoRequest
        => exp'[job[x].rec] \in {"derived", "rejected"}
  BY <1>0, <1>2, ReadExpensesExist
<1> QED BY <1>0, <1>4, <1>5, <1>6, <1>7, <1>8, CommitPreserves

\* The two acceptances of one proposal are about one payment, and so about one class.
LEMMA OneAcceptanceAtATime ==
    ASSUME DecisionInv, NEW r \in Requests, NEW x \in Requests \ {r}, Asked(r, "accept", "counting"),
           pc[x] = "counting", job[x].rec # NoRequest
    PROVE  job[r].rec # job[x].rec
<1> SUFFICES ASSUME job[r].rec = job[x].rec PROVE FALSE
  OBVIOUS
<1>1. job[x].op = "accept" BY DEF DecisionInv, CountersHold
<1>2. job[r].i = job[x].i BY DEF DecisionInv, JobsFit
<1>3. job[r].p = job[x].p BY <1>1, <1>2 DEF Asked, DecisionInv, JobsFit
<1> QED BY <1>3 DEF Asked, DecisionInv, CountersHold

\* What an acceptance does to the expenses: it approves one that is its own, or declines one.
LEMMA AcceptedExpense ==
    ASSUME DecisionInv, NEW r \in Requests, CommitAccept(r)
    PROVE  /\ exp' \in [Requests -> ExpenseStates]
           /\ \A x \in Requests \ {r} : x # job[r].rec => exp'[x] = exp[x]
           /\ job[r].rec # NoRequest => exp'[job[r].rec] \in {"approved", "rejected"}
           /\ job[r].rec # NoRequest => exp'[r] = exp[r]
<1> DEFINE rec == job[r].rec
           e == IF rec = NoRequest THEN r ELSE rec
<1>0. rec \in RequestOrNone /\ exp \in [Requests -> ExpenseStates] BY DEF DecisionInv, TypeOK
<1>1. e \in Requests BY <1>0 DEF RequestOrNone
<1>2. rec # NoRequest => rec # r
  BY <1>0, ReadExpensesExist DEF CommitAccept, Asked
<1>3. CASE exp' = [exp EXCEPT ![e] = "approved"]
  BY <1>0, <1>1, <1>2, <1>3 DEF ExpenseStates
<1>4. CASE exp' = Declined(rec)
  BY <1>0, <1>1, <1>2, <1>4 DEF Declined, ExpenseStates, RequestOrNone
<1> QED BY <1>3, <1>4 DEF CommitAccept

LEMMA AcceptPreserves ==
    ASSUME DecisionInv, NEW r \in Requests, CommitAccept(r)
    PROVE  DecisionInv'
<1> DEFINE i == job[r].i
           p == job[r].p
           new == [st |-> "accepted", p |-> p, kind |-> job[r].kind,
                   rec |-> RecordAfter(job[r].kind, job[r].rec, r)]
<1>0. /\ Finish(r) /\ Asked(r, "accept", "counting") /\ pc[r] # "done"
      /\ i \in Requests /\ inf[i].st # "none" /\ inf[i].p = p
  BY RequestsAssumption DEF CommitAccept, Asked, DecisionInv, JobsFit
<1>1. /\ p \in Payments /\ job[r].kind \in ProposalKinds /\ job[r].rec \in RequestOrNone
  BY DEF DecisionInv, TypeOK
<1>2. new \in [st : Statuses, p : Payments, kind : ProposalKinds, rec : RequestOrNone]
  BY <1>1 DEF Statuses, RecordAfter, RequestOrNone
<1>3. inf' = [inf EXCEPT ![i] = new] BY DEF CommitAccept
<1>4. \A x \in Requests : inf'[x] = IF x = i THEN new ELSE inf[x]
  BY <1>0, <1>3 DEF DecisionInv, TypeOK
<1>5. TypeOK'
  <2>1. inf' \in [Requests -> [st : Statuses, p : Payments, kind : ProposalKinds,
                              rec : RequestOrNone]]
    BY <1>2, <1>3 DEF DecisionInv, TypeOK
  <2>2. spent' \in [Payments -> Nat]
    BY <1>1, AmountAssumption DEF CommitAccept, DecisionInv, TypeOK
  <2>3. links' \subseteq [p : Payments, e : Requests] /\ settled' \subseteq Payments
    BY <1>1 DEF CommitAccept, DecisionInv, TypeOK, RequestOrNone
  <2>4. pay' \in [Payments -> {"normalized", "linked", "ignored"}]
    BY <1>1 DEF CommitAccept, DecisionInv, TypeOK
  <2> QED BY <1>0, <2>1, <2>2, <2>3, <2>4, FinishedIsOver, AcceptedExpense
          DEF CommitAccept, DecisionInv, TypeOK
<1>6. \A x \in Requests : inf'[x].st = "pending" => inf'[x].rec \in {x, NoRequest}
  BY <1>4 DEF DecisionInv, PendingOwns
<1>7. \A x \in Requests \ {r} : pc[x] # "done" => inf'[x].st = "none" /\ exp'[x] = "none"
  <2> SUFFICES ASSUME NEW x \in Requests \ {r}, pc[x] # "done"
               PROVE  inf'[x].st = "none" /\ exp'[x] = "none"
    OBVIOUS
  <2>1. inf[x].st = "none" /\ exp[x] = "none" BY DEF DecisionInv, Uninserted
  <2>2. x # i /\ x # job[r].rec BY <1>0, <2>1, RequestsAssumption DEF DecisionInv, JobsFit
  <2> QED BY <1>4, <2>1, <2>2, AcceptedExpense
<1>8. \A x \in Requests : inf[x].st # "none" => inf'[x].st # "none" /\ inf'[x].p = inf[x].p
  BY <1>0, <1>4
<1>9. ASSUME NEW x \in Requests \ {r}, pc[x] \in {"declining", "counting"}, job[x].rec # NoRequest
      PROVE  exp'[job[x].rec] \in {"derived", "rejected"}
  <2>1. /\ job[x].rec \in Requests \ {r} /\ job[x].rec = job[x].i
        /\ exp[job[x].rec] \in {"derived", "rejected"}
    BY <1>0, <1>9, ReadExpensesExist
  <2>2. CASE pc[x] = "counting"
    BY <1>0, <1>9, <2>1, <2>2, OneAcceptanceAtATime, AcceptedExpense
  <2>3. CASE pc[x] = "declining"
    <3>1. held[job[x].rec] = x BY <1>9, <2>3 DEF DecisionInv, DeclinersHold
    <3>2. held[i] = NoRequest BY <1>0 DEF CommitAccept, InferenceFree
    <3>3. job[x].rec # job[r].rec
      BY <2>1, <3>1, <3>2, RequestsAssumption DEF DecisionInv, JobsFit
    <3> QED BY <2>1, <3>3, AcceptedExpense
  <2> QED BY <1>9, <2>2, <2>3
<1> QED BY <1>0, <1>5, <1>6, <1>7, <1>8, <1>9, CommitPreserves

\* A commit that leaves the inferences alone, and the expenses of everybody else.
LEMMA ByHandPreserves ==
    ASSUME DecisionInv, NEW r \in Requests, CommitSettle(r) \/ CommitFund(r)
    PROVE  DecisionInv'
<1> DEFINE p == job[r].p
<1>0. Finish(r) /\ pc[r] # "done" /\ p \in Payments
  BY DEF CommitSettle, CommitFund, Asked, DecisionInv, TypeOK
<1>1. inf' = inf /\ \A x \in Requests \ {r} : exp'[x] = exp[x]
  BY DEF CommitSettle, CommitFund, DecisionInv, TypeOK
<1>2. TypeOK'
  <2>1. spent' \in [Payments -> Nat]
    BY <1>0 DEF CommitSettle, CommitFund, Fits, DecisionInv, TypeOK
  <2>2. exp' \in [Requests -> ExpenseStates]
    <3>1. CASE exp' = exp BY <3>1 DEF DecisionInv, TypeOK
    <3>2. ASSUME NEW st \in {"derived", "approved"}, exp' = [exp EXCEPT ![r] = st]
          PROVE  exp' \in [Requests -> ExpenseStates]
      BY <3>2 DEF DecisionInv, TypeOK, ExpenseStates
    <3> QED BY <3>1, <3>2 DEF CommitSettle, CommitFund
  <2>3. links' \subseteq [p : Payments, e : Requests] /\ settled' \subseteq Payments
    <3>1. CASE CommitSettle(r) BY <1>0, <3>1 DEF CommitSettle, DecisionInv, TypeOK
    <3>2. CASE CommitFund(r)
      <4>1. \A e \in Requests : [p |-> p, e |-> e] \in [p : Payments, e : Requests]
        BY <1>0
      <4>2. PICK e \in Requests : links' = links \cup {[p |-> p, e |-> e]}
        BY <3>2 DEF CommitFund
      <4>3. settled' = settled BY <3>2 DEF CommitFund
      <4> QED BY <4>1, <4>2, <4>3 DEF DecisionInv, TypeOK
    <3> QED BY <3>1, <3>2
  <2>4. pay' \in [Payments -> {"normalized", "linked", "ignored"}]
    BY DEF CommitSettle, CommitFund, DecisionInv, TypeOK
  <2> QED BY <1>0, <2>1, <2>2, <2>3, <2>4, FinishedIsOver
          DEF CommitSettle, CommitFund, DecisionInv, TypeOK
<1>3. \A x \in Requests \ {r} : pc[x] # "done" => inf'[x].st = "none" /\ exp'[x] = "none"
  BY <1>1 DEF DecisionInv, Uninserted
<1>4. \A x \in Requests : inf'[x].st = "pending" => inf'[x].rec \in {x, NoRequest}
  BY <1>1 DEF DecisionInv, PendingOwns
<1>5. \A x \in Requests : inf[x].st # "none" => inf'[x].st # "none" /\ inf'[x].p = inf[x].p
  BY <1>1
<1>6. \A x \in Requests \ {r} :
        pc[x] \in {"declining", "counting"} /\ job[x].rec # NoRequest
        => exp'[job[x].rec] \in {"derived", "rejected"}
  BY <1>0, <1>1, ReadExpensesExist
<1> QED BY <1>0, <1>2, <1>3, <1>4, <1>5, <1>6, CommitPreserves

LEMMA ConfirmOrRollbackPreserves ==
    ASSUME DecisionInv, NEW r \in Requests, CommitConfirm(r) \/ Rollback(r)
    PROVE  DecisionInv'
<1>0. Finish(r) /\ pc[r] # "done" /\ inf' = inf /\ exp' = exp
  BY DEF CommitConfirm, Rollback, Asked, ledger
<1>2. TypeOK'
  <2>1. CASE CommitConfirm(r)
    BY <1>0, <2>1, FinishedIsOver DEF CommitConfirm, DecisionInv, TypeOK
  <2>2. CASE Rollback(r)
    BY <1>0, <2>2, FinishedIsOver DEF Rollback, ledger, DecisionInv, TypeOK
  <2> QED BY <2>1, <2>2
<1>3. \A x \in Requests \ {r} : pc[x] # "done" => inf'[x].st = "none" /\ exp'[x] = "none"
  BY <1>0 DEF DecisionInv, Uninserted
<1>4. \A x \in Requests : inf'[x].st = "pending" => inf'[x].rec \in {x, NoRequest}
  BY <1>0 DEF DecisionInv, PendingOwns
<1>5. \A x \in Requests \ {r} :
        pc[x] \in {"declining", "counting"} /\ job[x].rec # NoRequest
        => exp'[job[x].rec] \in {"derived", "rejected"}
  BY <1>0, ReadExpensesExist
<1> QED BY <1>0, <1>2, <1>3, <1>4, <1>5, CommitPreserves

LEMMA DeclinePreserves ==
    ASSUME DecisionInv, NEW r \in Requests, Decline(r)
    PROVE  DecisionInv'
<1> USE DEF DecisionInv, Decline, ledger
<1>1. TypeOK' BY DEF TypeOK, RequestOrNone
<1>2. \A x \in Requests : pc'[x] = IF x = r THEN "declining" ELSE pc[x] BY DEF TypeOK
<1>3. Uninserted' BY <1>2 DEF Uninserted
<1>4. PendingOwns' BY DEF PendingOwns
<1>5. JobsFit' BY <1>2 DEF JobsFit
<1>6. DeclinersHold'
  <2> SUFFICES ASSUME NEW x \in Requests, pc'[x] = "declining", job[x].rec # NoRequest
               PROVE  held'[job[x].rec] = x /\ exp[job[x].rec] \in {"derived", "rejected"}
    BY DEF DeclinersHold
  <2>1. job[x].rec \in Requests /\ job[x].rec = job[x].i
    BY DEF TypeOK, RequestOrNone, JobsFit
  <2>2. CASE x = r BY <2>1, <2>2 DEF TypeOK, Declinable
  <2>3. CASE x # r
    <3>1. held[job[x].rec] = x /\ exp[job[x].rec] \in {"derived", "rejected"}
      BY <1>2, <2>3 DEF DeclinersHold
    <3>2. job[x].rec # job[r].i BY <2>1, <3>1, RequestsAssumption DEF InferenceFree
    <3> QED BY <2>1, <3>1, <3>2 DEF TypeOK
  <2> QED BY <2>2, <2>3
<1>7. CountersHold' BY <1>2 DEF CountersHold
<1> QED BY <1>1, <1>3, <1>4, <1>5, <1>6, <1>7

LEMMA TakeClassPreserves ==
    ASSUME DecisionInv, NEW r \in Requests, TakeClass(r)
    PROVE  DecisionInv'
<1> USE DEF DecisionInv, TakeClass, Asked, ledger
<1>0. \A x \in Requests : ClassOf[job[x].p] \in Classes BY DEF TypeOK, Classes
<1>1. TypeOK' BY DEF TypeOK, RequestOrNone
<1>2. \A x \in Requests : pc'[x] = IF x = r THEN "counting" ELSE pc[x] BY DEF TypeOK
<1>3. Uninserted' BY <1>2 DEF Uninserted
<1>4. PendingOwns' BY DEF PendingOwns
<1>5. JobsFit' BY <1>2 DEF JobsFit
<1>6. DeclinersHold' BY <1>2 DEF DeclinersHold
<1>7. CountersHold'
  <2> SUFFICES ASSUME NEW x \in Requests, pc'[x] = "counting"
               PROVE  /\ class'[ClassOf[job[x].p]] = x
                      /\ job[x].rec # NoRequest => /\ job[x].op = "accept"
                                                   /\ exp[job[x].rec] \in {"derived", "rejected"}
    BY DEF CountersHold
  <2>1. CASE x = r BY <1>0, <2>1 DEF TypeOK, Declinable, RequestOrNone
  <2>2. CASE x # r
    BY <1>0, <1>2, <2>2, RequestsAssumption DEF CountersHold, ClassFree, TypeOK
  <2> QED BY <2>1, <2>2
<1> QED BY <1>1, <1>3, <1>4, <1>5, <1>6, <1>7

LEMMA StandingStillPreserves ==
    ASSUME DecisionInv,
           UNCHANGED vars \/ \E pair \in Lookalikes : Dismiss(pair)
    PROVE  DecisionInv'
<1>1. UNCHANGED <<pay, dupOf, inf, latest, exp, links, settled, spent, class, held, pc, job>>
  BY DEF Dismiss, vars
<1>2. dismissed' \subseteq Lookalikes BY DEF Dismiss, vars, DecisionInv, TypeOK
<1> QED BY <1>1, <1>2 DEF DecisionInv, TypeOK, Uninserted, PendingOwns, JobsFit, DeclinersHold,
                          CountersHold

LEMMA DecisionStep == DecisionInv /\ [Next]_vars => DecisionInv'
<1> SUFFICES ASSUME DecisionInv, [Next]_vars PROVE DecisionInv'
  OBVIOUS
<1>1. ASSUME NEW r \in Requests, Start(r) PROVE DecisionInv'
  BY <1>1, StartsOpen, OpensPreserves
<1>2. ASSUME NEW r \in Requests, Step(r) PROVE DecisionInv'
  BY <1>2, ClassifyPreserves, ReclassifyPreserves, DeclinePreserves, RejectPreserves,
     TakeClassPreserves, AcceptPreserves, ByHandPreserves, ConfirmOrRollbackPreserves DEF Step
<1> QED BY <1>1, <1>2, StandingStillPreserves DEF Next

LEMMA DecisionInvHolds == Spec => []DecisionInv
BY DecisionInit, DecisionStep, PTL DEF Spec

\* Every variable keeps its type.
THEOREM DecisionTypeCorrect == Spec => []TypeOK
<1>1. DecisionInv => TypeOK BY DEF DecisionInv
<1> QED BY <1>1, DecisionInvHolds, PTL

-----------------------------------------------------------------------------
LEMMA BudgetStep == DecisionInv /\ WithinBudget /\ [Next]_vars => WithinBudget'
<1> SUFFICES ASSUME DecisionInv, WithinBudget, [Next]_vars PROVE WithinBudget'
  OBVIOUS
<1> USE DEF WithinBudget
<1>1. ASSUME NEW r \in Requests, NEW amount \in Nat, Fits(job[r].p, amount),
             spent' = [spent EXCEPT ![job[r].p] = @ + amount]
      PROVE  WithinBudget'
  BY <1>1, AmountAssumption DEF Fits, DecisionInv, TypeOK
<1>2. ASSUME NEW r \in Requests, CommitAccept(r) \/ CommitSettle(r) \/ CommitFund(r)
      PROVE  WithinBudget'
  BY <1>1, <1>2, AmountAssumption DEF CommitAccept, CommitSettle, CommitFund
<1>3. ASSUME NEW r \in Requests, Start(r) PROVE WithinBudget'
  BY <1>3, StartsOpen DEF Opens, Begin, ledger
<1>4. ASSUME NEW r \in Requests, Step(r), ~(CommitAccept(r) \/ CommitSettle(r) \/ CommitFund(r))
      PROVE  WithinBudget'
  BY <1>4 DEF Step, CommitClassify, CommitReclassify, Decline, CommitReject, TakeClass,
              CommitConfirm, Rollback, ledger
<1> QED BY <1>2, <1>3, <1>4 DEF Next, Dismiss, vars

\* A payment never explains more money than it moved.
THEOREM BudgetIsKept == Spec => []WithinBudget
<1>1. Init => WithinBudget BY AmountAssumption DEF Init, WithinBudget
<1> QED BY <1>1, BudgetStep, DecisionInvHolds, PTL DEF Spec

-----------------------------------------------------------------------------
\* No step takes an approval back.
LEMMA ApprovalStep ==
    ASSUME DecisionInv, [Next]_vars, NEW x \in Requests, exp[x] = "approved"
    PROVE  exp'[x] = "approved"
<1>1. ASSUME NEW r \in Requests, Start(r) PROVE exp'[x] = "approved"
  BY <1>1, StartsOpen DEF Opens, Begin, ledger
<1>2. ASSUME NEW r \in Requests, pc[r] # "done" PROVE r # x
  BY <1>2 DEF DecisionInv, Uninserted
<1>3. ASSUME NEW r \in Requests, pc[r] \in {"declining", "counting"} PROVE job[r].rec # x
  BY <1>3, RequestsAssumption DEF DecisionInv, DeclinersHold, CountersHold
<1>4. ASSUME NEW r \in Requests, CommitClassify(r) PROVE exp'[x] = "approved"
  BY <1>2, <1>4 DEF CommitClassify, Asked, DecisionInv, TypeOK
<1>5. ASSUME NEW r \in Requests, CommitReclassify(r) \/ CommitReject(r)
      PROVE  exp'[x] = "approved"
  BY <1>2, <1>3, <1>5 DEF CommitReclassify, CommitReject, Asked, Declined, DecisionInv, TypeOK
<1>6. ASSUME NEW r \in Requests, CommitAccept(r) PROVE exp'[x] = "approved"
  BY <1>2, <1>3, <1>6, AcceptedExpense DEF CommitAccept, Asked
<1>7. ASSUME NEW r \in Requests, CommitFund(r) PROVE exp'[x] = "approved"
  <2>1. pc[r] # "done" BY <1>7 DEF CommitFund, Asked
  <2>2. exp' = exp \/ \E st \in {"derived", "approved"} : exp' = [exp EXCEPT ![r] = st]
    BY <1>7 DEF CommitFund
  <2> QED BY <1>2, <2>1, <2>2 DEF DecisionInv, TypeOK
<1>8. ASSUME NEW r \in Requests, Step(r),
             ~(\/ CommitClassify(r) \/ CommitReclassify(r) \/ CommitReject(r)
               \/ CommitAccept(r) \/ CommitFund(r))
      PROVE  exp'[x] = "approved"
  BY <1>8 DEF Step, Decline, TakeClass, CommitSettle, CommitConfirm, Rollback, ledger
<1>9. CASE UNCHANGED vars \/ \E pair \in Lookalikes : Dismiss(pair)
  BY <1>9 DEF vars, Dismiss
<1> QED BY <1>1, <1>4, <1>5, <1>6, <1>7, <1>8, <1>9 DEF Next

\* An expense that was approved stays approved, whatever a rejection, a re-classification or an
\* acceptance had read before.
THEOREM ApprovalsAreFinal == Spec => ApprovedNeverRejected
<1>1. DecisionInv /\ [Next]_vars =>
        [\A e \in Requests : exp[e] = "approved" => exp'[e] = "approved"]_vars
  BY ApprovalStep
<1> QED BY <1>1, DecisionInvHolds, PTL DEF Spec, ApprovedNeverRejected

-----------------------------------------------------------------------------
\* What is drawn on a payment is never taken away, and it never stops being explained.
LEMMA DrawnStaysDrawn ==
    ASSUME DecisionInv, [Next]_vars
    PROVE  /\ links \subseteq links' /\ settled \subseteq settled'
           /\ \A p \in Payments : pay[p] = "linked" => pay'[p] = "linked"
<1>1. ASSUME NEW r \in Requests, Start(r)
      PROVE  links' = links /\ settled' = settled /\ pay' = pay
  BY <1>1, StartsOpen DEF Opens, Begin, ledger
<1>2. ASSUME NEW r \in Requests, CommitAccept(r) \/ CommitSettle(r) \/ CommitFund(r)
      PROVE  /\ links \subseteq links' /\ settled \subseteq settled'
             /\ \A p \in Payments : pay[p] = "linked" => pay'[p] = "linked"
  BY <1>2 DEF CommitAccept, CommitSettle, CommitFund, DecisionInv, TypeOK
<1>3. ASSUME NEW r \in Requests, CommitConfirm(r)
      PROVE  /\ links \subseteq links' /\ settled \subseteq settled'
             /\ \A p \in Payments : pay[p] = "linked" => pay'[p] = "linked"
  BY <1>3 DEF CommitConfirm, MayBeDiscarded, DecisionInv, TypeOK
<1>4. ASSUME NEW r \in Requests, Step(r),
             ~(CommitAccept(r) \/ CommitSettle(r) \/ CommitFund(r) \/ CommitConfirm(r))
      PROVE  links' = links /\ settled' = settled /\ pay' = pay
  BY <1>4 DEF Step, CommitClassify, CommitReclassify, Decline, CommitReject, TakeClass,
              Rollback, ledger
<1>5. CASE UNCHANGED vars \/ \E pair \in Lookalikes : Dismiss(pair)
  BY <1>5 DEF vars, Dismiss
<1> QED BY <1>1, <1>2, <1>3, <1>4, <1>5 DEF Next

LEMMA AcceptedStep == DecisionInv /\ AcceptedStands /\ [Next]_vars => AcceptedStands'
<1> SUFFICES ASSUME DecisionInv, AcceptedStands, [Next]_vars,
                    NEW i \in Requests, inf'[i].st = "accepted"
             PROVE  /\ pay'[inf'[i].p] = "linked"
                    /\ IF inf'[i].kind = "settlement" THEN inf'[i].p \in settled'
                       ELSE /\ inf'[i].rec # NoRequest
                            /\ exp'[inf'[i].rec] = "approved"
                            /\ [p |-> inf'[i].p, e |-> inf'[i].rec] \in links'
  BY DEF AcceptedStands
<1> DEFINE Stands ==
        /\ pay'[inf'[i].p] = "linked"
        /\ IF inf'[i].kind = "settlement" THEN inf'[i].p \in settled'
           ELSE /\ inf'[i].rec # NoRequest
                /\ exp'[inf'[i].rec] = "approved"
                /\ [p |-> inf'[i].p, e |-> inf'[i].rec] \in links'
<1>1. CASE inf'[i] = inf[i]
  <2>1. inf[i].p \in Payments /\ (inf[i].rec # NoRequest => inf[i].rec \in Requests)
    BY DEF DecisionInv, TypeOK, RequestOrNone
  <2>2. inf[i].rec \in Requests /\ exp[inf[i].rec] = "approved" => exp'[inf[i].rec] = "approved"
    BY ApprovalStep
  <2> QED BY <1>1, <2>1, <2>2, DrawnStaysDrawn DEF AcceptedStands
<1>2. ASSUME NEW r \in Requests, CommitAccept(r), inf'[i] # inf[i] PROVE Stands
  <2> DEFINE p == job[r].p
             rec == job[r].rec
             kind == job[r].kind
             e == IF rec = NoRequest THEN r ELSE rec
  <2>1. /\ p \in Payments /\ kind \in ProposalKinds /\ e \in Requests
        /\ job[r].i \in Requests
    BY <1>2 DEF CommitAccept, Asked, DecisionInv, TypeOK, RequestOrNone, JobsFit
  <2>2. inf'[i] = [st |-> "accepted", p |-> p, kind |-> kind, rec |-> RecordAfter(kind, rec, r)]
    BY <1>2, <2>1 DEF CommitAccept, DecisionInv, TypeOK
  <2>3. pay'[p] = "linked" BY <1>2, <2>1 DEF CommitAccept, DecisionInv, TypeOK
  <2>4. CASE kind = "settlement"
    <3>1. p \in settled' BY <1>2, <2>4 DEF CommitAccept
    <3> QED BY <2>2, <2>3, <2>4, <3>1
  <2>5. CASE kind = "expense"
    <3>1. exp'[e] = "approved" /\ [p |-> p, e |-> e] \in links'
      BY <1>2, <2>1, <2>5 DEF CommitAccept, DecisionInv, TypeOK
    <3>2. RecordAfter(kind, rec, r) = e BY <2>5 DEF RecordAfter
    <3>3. e # NoRequest BY <2>1, RequestsAssumption
    <3> QED BY <2>2, <2>3, <2>5, <3>1, <3>2, <3>3
  <2> QED BY <2>1, <2>4, <2>5 DEF ProposalKinds
<1>3. ASSUME NEW r \in Requests, Step(r), ~CommitAccept(r) PROVE inf'[i] = inf[i]
  <2>1. CASE CommitClassify(r) BY <2>1 DEF CommitClassify, Proposed, DecisionInv, TypeOK
  <2>2. CASE CommitReclassify(r)
    <3>1. inf'[i] = inf[i] \/ inf'[i].st \in {"pending", "superseded"}
      BY <2>2 DEF CommitReclassify, Proposed, DecisionInv, TypeOK
    <3> QED BY <3>1
  <2>3. CASE CommitReject(r)
    <3>1. inf'[i] = inf[i] \/ inf'[i].st = "rejected"
      BY <2>3 DEF CommitReject, DecisionInv, TypeOK
    <3> QED BY <3>1
  <2> QED BY <1>3, <2>1, <2>2, <2>3
          DEF Step, Decline, TakeClass, CommitSettle, CommitFund, CommitConfirm, Rollback, ledger
<1>4. ASSUME NEW r \in Requests, Start(r) PROVE inf'[i] = inf[i]
  BY <1>4, StartsOpen DEF Opens, Begin, ledger
<1>5. CASE UNCHANGED vars \/ \E pair \in Lookalikes : Dismiss(pair)
  BY <1>1, <1>5 DEF vars, Dismiss
<1> QED BY <1>1, <1>2, <1>3, <1>4, <1>5 DEF Next

\* Behind every accepted proposal stands what it produced, however its decision interleaved.
THEOREM AcceptancesStand == Spec => []AcceptedStands
<1>1. Init => AcceptedStands BY DEF Init, AcceptedStands, NoInference
<1> QED BY <1>1, AcceptedStep, DecisionInvHolds, PTL DEF Spec

-----------------------------------------------------------------------------
(* The expense a proposal brought is read with it, and is no longer        *)
(* declinable once the proposal is accepted.                               *)

\* Whoever read a proposal read the expense it brought; while he declines or counts,
\* nobody else accepts it.
ReadersHold ==
    \A r \in Requests : job[r].i \in Requests /\ exp[job[r].i] # "none" =>
        /\ job[r].rec = job[r].i
        /\ pc[r] \in {"declining", "counting"} => inf[job[r].i].st # "accepted"

FinalInv ==
    /\ \A i \in Requests : exp[i] # "none" =>
         /\ inf[i].st = "pending" => inf[i].rec = i
         /\ inf[i].st = "accepted" => exp[i] # "derived"
    /\ ReadersHold

\* A proposal brought an expense when it was made or never.
LEMMA BroughtAtOnce ==
    ASSUME DecisionInv, [Next]_vars, NEW i \in Requests, inf[i].st # "none"
    PROVE  /\ exp'[i] # "none" => exp[i] # "none"
           /\ exp'[i] = "derived" => exp[i] = "derived"
<1> DEFINE Kept == /\ exp'[i] # "none" => exp[i] # "none"
                   /\ exp'[i] = "derived" => exp[i] = "derived"
<1>1. \A r \in Requests : pc[r] # "done" => r # i
  BY DEF DecisionInv, Uninserted
<1>2. ASSUME NEW r \in Requests, Start(r) PROVE exp' = exp
  BY <1>2, StartsOpen DEF Opens, Begin, ledger
<1>3. ASSUME NEW r \in Requests, CommitClassify(r) PROVE Kept
  BY <1>1, <1>3 DEF CommitClassify, Asked, DecisionInv, TypeOK
<1>4. ASSUME NEW r \in Requests, CommitReclassify(r) \/ CommitReject(r) PROVE Kept
  <2>1. r # i /\ pc[r] = "declining"
    BY <1>1, <1>4 DEF CommitReclassify, CommitReject, Asked
  <2>2. exp'[i] = Declined(job[r].rec)[i]
    BY <1>4, <2>1 DEF CommitReclassify, CommitReject, Declined
  <2>3. CASE i = job[r].rec
    BY <2>1, <2>2, <2>3, RequestsAssumption DEF Declined, DecisionInv, DeclinersHold
  <2>4. CASE i # job[r].rec
    BY <2>2, <2>4 DEF Declined
  <2> QED BY <2>3, <2>4
<1>5. ASSUME NEW r \in Requests, CommitAccept(r) PROVE Kept
  <2>1. r # i /\ pc[r] = "counting" BY <1>1, <1>5 DEF CommitAccept, Asked
  <2>2. CASE i = job[r].rec
    <3>1. exp[i] \in {"derived", "rejected"}
      BY <2>1, <2>2, RequestsAssumption DEF DecisionInv, CountersHold
    <3>2. exp'[i] \in {"approved", "rejected"}
      BY <1>5, <2>2, RequestsAssumption, AcceptedExpense
    <3> QED BY <3>1, <3>2
  <2>3. CASE i # job[r].rec
    BY <1>5, <2>1, <2>3, AcceptedExpense
  <2> QED BY <2>2, <2>3
<1>6. ASSUME NEW r \in Requests, CommitFund(r) PROVE Kept
  <2>1. pc[r] # "done" BY <1>6 DEF CommitFund, Asked
  <2>2. exp' = exp \/ \E st \in {"derived", "approved"} : exp' = [exp EXCEPT ![r] = st]
    BY <1>6 DEF CommitFund
  <2> QED BY <1>1, <2>1, <2>2 DEF DecisionInv, TypeOK
<1>7. ASSUME NEW r \in Requests, Step(r),
             ~(\/ CommitClassify(r) \/ CommitReclassify(r) \/ CommitReject(r)
               \/ CommitAccept(r) \/ CommitFund(r))
      PROVE  exp' = exp
  BY <1>7 DEF Step, Decline, TakeClass, CommitSettle, CommitConfirm, Rollback, ledger
<1>8. CASE UNCHANGED vars \/ \E pair \in Lookalikes : Dismiss(pair)
  BY <1>8 DEF vars, Dismiss
<1> QED BY <1>2, <1>3, <1>4, <1>5, <1>6, <1>7, <1>8 DEF Next

\* A request that begins reads a pending proposal, or none.
LEMMA StartsRead ==
    ASSUME NEW r \in Requests, Start(r)
    PROVE  \E j, next : /\ Begin(r, j, next)
                        /\ j.i \in Requests => /\ inf[j.i].st = "pending"
                                               /\ j.rec = inf[j.i].rec /\ next = "open"
<1> USE RequestsAssumption DEF NoJob
<1>1. ASSUME NEW p \in Payments, BeginClassify(r, p)
      PROVE  \E j, next : Begin(r, j, next) /\ j.i \notin Requests
  <2>1. [NoJob EXCEPT !.op = "classify", !.p = p].i \notin Requests OBVIOUS
  <2> QED BY <1>1, <2>1 DEF BeginClassify
<1>2. ASSUME NEW p \in Payments, BeginReclassify(r, p)
      PROVE  \E j, next : /\ Begin(r, j, next)
                          /\ j.i \in Requests => /\ inf[j.i].st = "pending"
                                                 /\ j.rec = inf[j.i].rec /\ next = "open"
  <2> DEFINE i == latest[p]
             j1 == [NoJob EXCEPT !.op = "reclassify", !.p = p, !.i = i, !.rec = inf[i].rec]
             j2 == [NoJob EXCEPT !.op = "reclassify", !.p = p]
  <2>1. CASE inf[i].st = "pending"
    <3>1. j1.i = i /\ j1.rec = inf[i].rec OBVIOUS
    <3>2. Begin(r, j1, "open") BY <1>2, <2>1 DEF BeginReclassify
    <3> HIDE DEF j1
    <3> QED BY <2>1, <3>1, <3>2
  <2>2. CASE inf[i].st # "pending"
    <3>1. j2.i \notin Requests OBVIOUS
    <3>2. Begin(r, j2, "declining") BY <1>2, <2>2 DEF BeginReclassify
    <3> HIDE DEF j2
    <3> QED BY <3>1, <3>2
  <2> QED BY <2>1, <2>2
<1>3. ASSUME NEW p \in Payments, NEW op \in {"settle", "fund"}, BeginByHand(r, op, p)
      PROVE  \E j, next : Begin(r, j, next) /\ j.i \notin Requests
  <2>1. [NoJob EXCEPT !.op = op, !.p = p].i \notin Requests OBVIOUS
  <2> QED BY <1>3, <2>1 DEF BeginByHand
<1>4. ASSUME NEW p \in Payments, NEW q \in Payments, BeginConfirm(r, p, q)
      PROVE  \E j, next : Begin(r, j, next) /\ j.i \notin Requests
  <2>1. PICK canonical \in Payments :
          Begin(r, [NoJob EXCEPT !.op = "confirm", !.p = p, !.canonical = canonical], "open")
    BY <1>4 DEF BeginConfirm
  <2>2. [NoJob EXCEPT !.op = "confirm", !.p = p, !.canonical = canonical].i \notin Requests OBVIOUS
  <2> QED BY <2>1, <2>2
<1>5. ASSUME NEW i \in Requests, BeginReject(r, i)
      PROVE  \E j, next : /\ Begin(r, j, next)
                          /\ inf[j.i].st = "pending" /\ j.rec = inf[j.i].rec /\ next = "open"
  <2> DEFINE j == [NoJob EXCEPT !.op = "reject", !.p = inf[i].p, !.i = i, !.rec = inf[i].rec]
  <2>1. j.i = i /\ j.rec = inf[i].rec OBVIOUS
  <2>2. Begin(r, j, "open") /\ inf[i].st = "pending" BY <1>5 DEF BeginReject
  <2> HIDE DEF j
  <2> QED BY <2>1, <2>2
<1>6. ASSUME NEW i \in Requests, NEW kind \in ProposalKinds, BeginAccept(r, i, kind)
      PROVE  \E j, next : /\ Begin(r, j, next)
                          /\ inf[j.i].st = "pending" /\ j.rec = inf[j.i].rec /\ next = "open"
  <2> DEFINE j == [NoJob EXCEPT !.op = "accept", !.p = inf[i].p, !.i = i, !.kind = kind,
                                !.rec = inf[i].rec]
  <2>1. j.i = i /\ j.rec = inf[i].rec OBVIOUS
  <2>2. Begin(r, j, "open") /\ inf[i].st = "pending" BY <1>6 DEF BeginAccept
  <2> HIDE DEF j
  <2> QED BY <2>1, <2>2
<1> QED BY <1>1, <1>2, <1>3, <1>4, <1>5, <1>6 DEF Start

\* Who writes a proposal that is there: whoever counts it, or declines it.
LEMMA WhoWrites ==
    ASSUME DecisionInv, [Next]_vars, NEW i \in Requests, inf[i].st # "none", inf'[i] # inf[i]
    PROVE  \E r \in Requests :
             /\ job[r].i = i
             /\ \/ CommitAccept(r)
                \/ pc[r] = "declining" /\ inf'[i].st \in {"superseded", "rejected"}
<1> DEFINE Written == \E r \in Requests :
             /\ job[r].i = i
             /\ \/ CommitAccept(r)
                \/ pc[r] = "declining" /\ inf'[i].st \in {"superseded", "rejected"}
<1>1. \A r \in Requests : pc[r] # "done" => r # i
  BY DEF DecisionInv, Uninserted
<1>2. ASSUME NEW r \in Requests, Start(r) PROVE FALSE
  BY <1>2, StartsOpen DEF Opens, Begin, ledger
<1>3. ASSUME NEW r \in Requests, CommitAccept(r) PROVE Written
  <2>1. inf'[i] = inf[i] \/ job[r].i = i
    BY <1>3 DEF CommitAccept, DecisionInv, TypeOK
  <2> QED BY <1>3, <2>1
<1>4. ASSUME NEW r \in Requests, CommitClassify(r) PROVE FALSE
  BY <1>1, <1>4 DEF CommitClassify, Asked, DecisionInv, TypeOK
<1>5. ASSUME NEW r \in Requests, CommitReclassify(r) PROVE Written
  <2>1. r # i /\ pc[r] = "declining" BY <1>1, <1>5 DEF CommitReclassify, Asked
  <2>2. job[r].i = i /\ inf'[i].st = "superseded"
    BY <1>5, <2>1 DEF CommitReclassify, DecisionInv, TypeOK
  <2> QED BY <2>1, <2>2
<1>6. ASSUME NEW r \in Requests, CommitReject(r) PROVE Written
  <2>1. pc[r] = "declining" BY <1>6 DEF CommitReject, Asked
  <2>2. job[r].i = i /\ inf'[i].st = "rejected"
    BY <1>6 DEF CommitReject, DecisionInv, TypeOK
  <2> QED BY <2>1, <2>2
<1>7. ASSUME NEW r \in Requests, Step(r),
             ~(CommitAccept(r) \/ CommitClassify(r) \/ CommitReclassify(r) \/ CommitReject(r))
      PROVE  FALSE
  BY <1>7 DEF Step, Decline, TakeClass, CommitSettle, CommitFund, CommitConfirm, Rollback, ledger
<1>8. CASE UNCHANGED vars \/ \E pair \in Lookalikes : Dismiss(pair)
  BY <1>8 DEF vars, Dismiss
<1> QED BY <1>2, <1>3, <1>4, <1>5, <1>6, <1>7, <1>8 DEF Next

\* Neither finds it accepted.
LEMMA AcceptanceStep ==
    ASSUME DecisionInv, FinalInv, [Next]_vars, NEW i \in Requests,
           inf[i].st = "accepted", exp[i] # "none"
    PROVE  inf'[i] = inf[i]
<1> SUFFICES ASSUME inf'[i] # inf[i] PROVE FALSE OBVIOUS
<1>1. PICK r \in Requests : job[r].i = i /\ (CommitAccept(r) \/ pc[r] = "declining")
  BY WhoWrites
<1>2. pc[r] \in {"declining", "counting"} BY <1>1 DEF CommitAccept, Asked
<1> QED BY <1>1, <1>2 DEF FinalInv, ReadersHold

\* A proposal that is accepted was read with its expense, which leaves "derived" with it.
LEMMA ProposalsFinal ==
    ASSUME DecisionInv, FinalInv, [Next]_vars, NEW i \in Requests, exp'[i] # "none"
    PROVE  /\ inf'[i].st = "pending" => inf'[i].rec = i
           /\ inf'[i].st = "accepted" => exp'[i] # "derived"
<1>1. CASE inf[i].st # "none"
  <2>1. exp[i] # "none" /\ (exp'[i] = "derived" => exp[i] = "derived")
    BY <1>1, BroughtAtOnce
  <2>2. CASE inf'[i] = inf[i]
    BY <2>1, <2>2 DEF FinalInv
  <2>3. CASE inf'[i] # inf[i]
    <3>1. PICK r \in Requests :
             /\ job[r].i = i
             /\ \/ CommitAccept(r)
                \/ pc[r] = "declining" /\ inf'[i].st \in {"superseded", "rejected"}
      BY <1>1, <2>3, WhoWrites
    <3>2. CASE CommitAccept(r)
      <4>1. job[r].rec = i BY <2>1, <3>1 DEF FinalInv, ReadersHold
      <4>2. exp'[i] \in {"approved", "rejected"}
        BY <3>2, <4>1, RequestsAssumption, AcceptedExpense
      <4>3. inf'[i].st = "accepted"
        BY <3>1, <3>2 DEF CommitAccept, DecisionInv, TypeOK
      <4> QED BY <4>2, <4>3
    <3> QED BY <3>1, <3>2
  <2> QED BY <2>2, <2>3
<1>2. CASE inf[i].st = "none"
  <2>1. ASSUME NEW r \in Requests, CommitClassify(r) \/ CommitReclassify(r), r = i
        PROVE  inf'[i].st = "pending" /\ inf'[i].rec = i
    <3>1. PICK kind \in ProposalKinds :
            inf'[i] = Proposed(i, job[i].p, kind) /\ exp'[i] = DerivedFor(kind)
      <4>1. CASE CommitClassify(i)
        <5>1. PICK kind \in ProposalKinds : /\ inf' = [inf EXCEPT ![i] = Proposed(i, job[i].p, kind)]
                                            /\ exp' = [exp EXCEPT ![i] = DerivedFor(kind)]
          BY <4>1 DEF CommitClassify
        <5>2. inf'[i] = Proposed(i, job[i].p, kind) /\ exp'[i] = DerivedFor(kind)
          BY <5>1 DEF DecisionInv, TypeOK
        <5> QED BY <5>2
      <4>2. CASE CommitReclassify(i)
        <5>1. PICK kind \in ProposalKinds :
                /\ inf' = [x \in Requests |-> CASE x = i -> Proposed(i, job[i].p, kind)
                                                [] x = job[i].i -> [inf[x] EXCEPT !.st = "superseded"]
                                                [] OTHER -> inf[x]]
                /\ exp' = [Declined(job[i].rec) EXCEPT ![i] = DerivedFor(kind)]
          BY <4>2 DEF CommitReclassify
        <5>2. exp'[i] = DerivedFor(kind)
          BY <5>1 DEF Declined
        <5>3. i # job[i].i
          BY <1>2, RequestsAssumption DEF DecisionInv, JobsFit
        <5>4. inf'[i] = Proposed(i, job[i].p, kind)
          BY <5>1, <5>3
        <5> QED BY <5>2, <5>4
      <4> QED BY <2>1, <4>1, <4>2
    <3>2. kind = "expense" BY <3>1 DEF DerivedFor
    <3> QED BY <3>1, <3>2 DEF Proposed
  <2>2. ASSUME NEW r \in Requests, CommitClassify(r) \/ CommitReclassify(r), r # i
        PROVE  inf'[i].st \in {"none", "superseded"}
    BY <1>2, <2>2 DEF CommitClassify, CommitReclassify, DecisionInv, TypeOK
  <2>3. ASSUME NEW r \in Requests, CommitReject(r) \/ CommitAccept(r)
        PROVE  inf'[i] = inf[i]
    <3>1. job[r].i \in Requests /\ inf[job[r].i].st # "none"
      BY <2>3, RequestsAssumption DEF CommitReject, CommitAccept, Asked, DecisionInv, JobsFit
    <3>2. job[r].i # i BY <1>2, <3>1
    <3> QED BY <2>3, <3>2 DEF CommitReject, CommitAccept, DecisionInv, TypeOK
  <2>4. ASSUME NEW r \in Requests, Step(r),
               ~(CommitAccept(r) \/ CommitClassify(r) \/ CommitReclassify(r) \/ CommitReject(r))
        PROVE  inf' = inf
    BY <2>4 DEF Step, Decline, TakeClass, CommitSettle, CommitFund, CommitConfirm, Rollback, ledger
  <2>5. ASSUME NEW r \in Requests, Start(r) PROVE inf' = inf
    BY <2>5, StartsOpen DEF Opens, Begin, ledger
  <2>6. CASE UNCHANGED vars \/ \E pair \in Lookalikes : Dismiss(pair)
    BY <1>2, <2>6 DEF vars, Dismiss
  <2> QED BY <1>2, <2>1, <2>2, <2>3, <2>4, <2>5, <2>6 DEF Next
<1> QED BY <1>1, <1>2

\* A request goes on with what it read, or is over, or has only begun to read.
LEMMA ReadersMove ==
    ASSUME DecisionInv, [Next]_vars, NEW r \in Requests, job'[r].i \in Requests
    PROVE  \/ job'[r] = job[r] /\ (pc'[r] = pc[r] \/ (pc[r] = "open" /\ inf' = inf /\ Declinable(job[r].rec)))
           \/ /\ inf[job'[r].i].st = "pending" /\ job'[r].rec = inf[job'[r].i].rec
              /\ pc'[r] = "open"
<1> DEFINE Moved == \/ job'[r] = job[r] /\ (pc'[r] = pc[r] \/ (pc[r] = "open" /\ inf' = inf /\ Declinable(job[r].rec)))
                    \/ /\ inf[job'[r].i].st = "pending" /\ job'[r].rec = inf[job'[r].i].rec
                       /\ pc'[r] = "open"
<1>1. ASSUME NEW x \in Requests, Start(x) PROVE Moved
  <2>1. PICK j, next : /\ Begin(x, j, next)
                       /\ j.i \in Requests => /\ inf[j.i].st = "pending"
                                              /\ j.rec = inf[j.i].rec /\ next = "open"
    BY <1>1, StartsRead
  <2>2. x # r => job'[r] = job[r] /\ pc'[r] = pc[r]
    BY <2>1 DEF Begin, DecisionInv, TypeOK
  <2>3. x = r => job'[r] = j /\ pc'[r] = next
    BY <2>1 DEF Begin, DecisionInv, TypeOK
  <2> QED BY <2>1, <2>2, <2>3
<1>2. ASSUME NEW x \in Requests, Finish(x) PROVE Moved
  <2>1. NoJob.i \notin Requests BY RequestsAssumption DEF NoJob
  <2>2. x # r => job'[r] = job[r] /\ pc'[r] = pc[r]
    BY <1>2 DEF Finish, DecisionInv, TypeOK
  <2>3. x = r => job'[r] = NoJob
    BY <1>2 DEF Finish, DecisionInv, TypeOK
  <2> QED BY <2>1, <2>2, <2>3
<1>3. ASSUME NEW x \in Requests, Decline(x) \/ TakeClass(x) PROVE Moved
  <2>1. /\ job' = job /\ inf' = inf /\ pc[x] = "open" /\ Declinable(job[x].rec)
        /\ x # r => pc'[r] = pc[r]
    BY <1>3 DEF Decline, TakeClass, Asked, ledger, DecisionInv, TypeOK
  <2> QED BY <2>1
<1>4. ASSUME NEW x \in Requests, Step(x), ~(Decline(x) \/ TakeClass(x)) PROVE Finish(x)
  BY <1>4 DEF Step, CommitClassify, CommitReclassify, CommitReject, CommitAccept, CommitSettle,
              CommitFund, CommitConfirm, Rollback
<1>5. CASE UNCHANGED vars \/ \E pair \in Lookalikes : Dismiss(pair)
  BY <1>5 DEF vars, Dismiss
<1> QED BY <1>1, <1>2, <1>3, <1>4, <1>5 DEF Next

\* Nobody accepts what somebody else declines or counts.
LEMMA ReadersStayAlone ==
    ASSUME DecisionInv, FinalInv, [Next]_vars, NEW r \in Requests,
           job[r].i \in Requests, exp[job[r].i] # "none",
           pc[r] \in {"declining", "counting"}, pc'[r] = pc[r]
    PROVE  inf'[job[r].i].st # "accepted"
<1> DEFINE i == job[r].i
<1>1. inf[i].st # "accepted" /\ inf[i].st # "none" /\ job[r].rec = i /\ i # NoRequest
  BY RequestsAssumption DEF FinalInv, ReadersHold, DecisionInv, JobsFit
<1> SUFFICES ASSUME inf'[i].st = "accepted" PROVE FALSE OBVIOUS
<1>2. PICK x \in Requests : job[x].i = i /\ CommitAccept(x)
  <2>1. inf'[i] # inf[i] BY <1>1
  <2> QED BY <1>1, <2>1, WhoWrites
<1>3. x # r
  BY <1>2 DEF CommitAccept, Asked, Finish, DecisionInv, TypeOK
<1>4. CASE pc[r] = "declining"
  <2>1. held[i] = r BY <1>1, <1>4 DEF DecisionInv, DeclinersHold
  <2>2. held[i] = NoRequest BY <1>2 DEF CommitAccept, InferenceFree
  <2> QED BY <2>1, <2>2, RequestsAssumption
<1>5. CASE pc[r] = "counting"
  <2>1. Asked(r, "accept", "counting") /\ Asked(x, "accept", "counting")
    BY <1>1, <1>2, <1>5 DEF Asked, DecisionInv, CountersHold, CommitAccept
  <2>2. job[r].p = inf[i].p /\ job[x].p = inf[i].p
    BY <1>2, <2>1 DEF Asked, DecisionInv, JobsFit
  <2>3. class[ClassOf[job[r].p]] = r /\ class[ClassOf[job[x].p]] = x
    BY <2>1 DEF Asked, DecisionInv, CountersHold
  <2> QED BY <1>3, <2>2, <2>3
<1> QED BY <1>4, <1>5

LEMMA FinalStep == DecisionInv /\ FinalInv /\ [Next]_vars => FinalInv'
<1> SUFFICES ASSUME DecisionInv, FinalInv, [Next]_vars PROVE FinalInv' OBVIOUS
<1>1. ASSUME NEW r \in Requests, job'[r].i \in Requests, exp'[job'[r].i] # "none"
      PROVE  /\ job'[r].rec = job'[r].i
             /\ pc'[r] \in {"declining", "counting"} => inf'[job'[r].i].st # "accepted"
  <2> DEFINE i == job'[r].i
  <2>1. CASE /\ inf[i].st = "pending" /\ job'[r].rec = inf[i].rec
             /\ pc'[r] = "open"
    <3>1. exp[i] # "none" BY <1>1, <2>1, BroughtAtOnce
    <3> QED BY <1>1, <2>1, <3>1 DEF FinalInv
  <2>2. CASE job'[r] = job[r] /\ (pc'[r] = pc[r] \/ (pc[r] = "open" /\ inf' = inf /\ Declinable(job[r].rec)))
    <3>1. i \in Requests /\ inf[i].st # "none"
      BY <1>1, <2>2, RequestsAssumption DEF DecisionInv, JobsFit
    <3>2. exp[i] # "none" BY <1>1, <3>1, BroughtAtOnce
    <3>3. job[r].rec = i BY <1>1, <2>2, <3>2 DEF FinalInv, ReadersHold
    <3>4. CASE pc'[r] = pc[r]
      BY <1>1, <2>2, <3>2, <3>3, <3>4, ReadersStayAlone
    <3>5. CASE inf' = inf /\ Declinable(job[r].rec)
      <4>1. exp[i] = "derived" BY <3>1, <3>3, <3>5 DEF Declinable
      <4> QED BY <2>2, <3>1, <3>2, <3>3, <3>5, <4>1 DEF FinalInv
    <3> QED BY <2>2, <3>4, <3>5
  <2> QED BY <1>1, <2>1, <2>2, ReadersMove
<1> QED BY <1>1, ProposalsFinal DEF FinalInv, ReadersHold

\* The acceptance of a proposal that brought an expense is never written over by a decision or
\* a re-run that had found it pending.
THEOREM AcceptancesAreKept == Spec => AcceptanceIsFinal
<1>1. Init => FinalInv
  BY RequestsAssumption DEF Init, FinalInv, ReadersHold, NoJob
<1>2. DecisionInv /\ FinalInv /\ [Next]_vars =>
        [\A i \in Requests : inf[i].st = "accepted" /\ exp[i] # "none" => inf'[i] = inf[i]]_vars
  BY AcceptanceStep
<1> QED BY <1>1, <1>2, FinalStep, DecisionInvHolds, PTL DEF Spec, AcceptanceIsFinal

-----------------------------------------------------------------------------
(* Inside one class.  Whoever counts has the only counting lock there is,  *)
(* so what he found out under it still holds when he commits.  The expense *)
(* he read may have been rejected meanwhile and his commit revives it; so  *)
(* the invariant counts that expense's links as claims already.            *)

SingleClass == \A p, q \in Payments : ClassOf[p] = ClassOf[q]

\* p counts, or would if expense e were not rejected.
CountsIf(p, e) ==
    \/ pay[p] = "linked"
    \/ \E l \in links : l.p = p /\ (l.e = e \/ exp[l.e] # "rejected")
    \/ p \in settled

LinksAreToExpenses == \A l \in links : exp[l.e] # "none"

\* What whoever counts p found out, with the expense e he is going to approve.
MayCommit(p, e) ==
    /\ pay[p] # "ignored"
    /\ \A q \in Payments : {p, q} \in Lookalikes \ dismissed => ~CountsIf(q, e)
    /\ \A a \in Payments : pay[a] = "ignored" => ~CountsIf(a, e)
    /\ \A a, b \in Payments :
          {a, b} \in Lookalikes \ dismissed => ~(CountsIf(a, e) /\ CountsIf(b, e))

CountersMayCommit == \A r \in Requests : pc[r] = "counting" => MayCommit(job[r].p, job[r].rec)

CountingInv ==
    /\ LinksAreToExpenses
    /\ PairCountedOnce
    /\ DiscardedNeverCounts
    /\ CountersMayCommit

LEMMA OneCounter ==
    ASSUME SingleClass, DecisionInv, NEW r \in Requests, NEW x \in Requests,
           pc[r] = "counting", pc[x] = "counting"
    PROVE  r = x
<1>1. job[r].p \in Payments /\ job[x].p \in Payments BY DEF DecisionInv, TypeOK
<1>2. ClassOf[job[r].p] = ClassOf[job[x].p] BY <1>1 DEF SingleClass
<1> QED BY <1>2 DEF DecisionInv, CountersHold

LEMMA NobodyCounts ==
    ASSUME SingleClass, DecisionInv, NEW p \in Payments, ClassFree(p), NEW x \in Requests
    PROVE  pc[x] # "counting"
<1>1. job[x].p \in Payments BY DEF DecisionInv, TypeOK
<1>2. ClassOf[job[x].p] = ClassOf[p] BY <1>1 DEF SingleClass
<1> QED BY <1>2, RequestsAssumption DEF DecisionInv, CountersHold, ClassFree

\* A step by which no payment comes to count.
LEMMA NothingNewCounts ==
    ASSUME CountingInv, links' = links, settled' = settled, pay' = pay,
           dismissed \subseteq dismissed',
           \A l \in links : exp[l.e] = "rejected" => exp'[l.e] = "rejected",
           \A l \in links : exp'[l.e] # "none",
           \A x \in Requests : pc'[x] = "counting" => pc[x] = "counting" /\ job'[x] = job[x]
    PROVE  CountingInv'
<1>1. \A p \in Payments : \A e : CountsIf(p, e)' => CountsIf(p, e) BY DEF CountsIf
<1>2. \A p \in Payments : Claimed(p)' => Claimed(p) BY DEF Claimed
<1>3. LinksAreToExpenses' BY DEF LinksAreToExpenses
<1>4. PairCountedOnce' BY <1>2 DEF CountingInv, PairCountedOnce
<1>5. DiscardedNeverCounts' BY <1>2 DEF CountingInv, DiscardedNeverCounts
<1>6. CountersMayCommit'
  <2> SUFFICES ASSUME NEW r \in Requests, pc'[r] = "counting"
               PROVE  MayCommit(job[r].p, job[r].rec)'
    BY DEF CountersMayCommit
  <2>1. job'[r] = job[r] /\ MayCommit(job[r].p, job[r].rec)
    BY DEF CountingInv, CountersMayCommit
  <2> QED BY <1>1, <2>1 DEF MayCommit
<1> QED BY <1>3, <1>4, <1>5, <1>6 DEF CountingInv

\* The lock is taken: what is read under it is what a commit needs.
LEMMA ReadingsSuffice ==
    ASSUME DecisionInv, CountingInv, NEW p \in Payments, MayBeCounted(p),
           NEW rec \in RequestOrNone, Declinable(rec)
    PROVE  MayCommit(p, rec)
<1>1. \A a \in Payments : CountsIf(a, rec) <=> Claimed(a)
  <2>1. \A l \in links : l.e = rec => exp[l.e] # "rejected"
    BY RequestsAssumption DEF DecisionInv, TypeOK, Declinable, RequestOrNone
  <2> QED BY <2>1 DEF CountsIf, Claimed
<1>2. \A q \in Payments : {p, q} \in Lookalikes \ dismissed => ~Claimed(q)
  BY DEF CountingInv, PairCountedOnce, DiscardedNeverCounts, MayBeCounted
<1> QED BY <1>1, <1>2 DEF MayCommit, MayBeCounted, CountingInv, PairCountedOnce,
                          DiscardedNeverCounts

LEMMA CounterStarts ==
    ASSUME SingleClass, DecisionInv, CountingInv, NEW r \in Requests,
           UNCHANGED ledger, NEW p \in Payments, ClassFree(p), MayBeCounted(p),
           NEW rec \in RequestOrNone, Declinable(rec),
           job'[r].p = p, job'[r].rec = rec,
           \A x \in Requests \ {r} : pc'[x] = pc[x]
    PROVE  CountingInv'
<1>1. LinksAreToExpenses' /\ PairCountedOnce' /\ DiscardedNeverCounts'
  BY DEF ledger, CountingInv, LinksAreToExpenses, PairCountedOnce, DiscardedNeverCounts, Claimed
<1>2. MayCommit(p, rec) BY ReadingsSuffice
<1>3. CountersMayCommit'
  <2> SUFFICES ASSUME NEW x \in Requests, pc'[x] = "counting"
               PROVE  MayCommit(job[x].p, job[x].rec)'
    BY DEF CountersMayCommit
  <2>1. x = r BY NobodyCounts
  <2> QED BY <1>2, <2>1 DEF MayCommit, CountsIf, ledger
<1> QED BY <1>1, <1>3 DEF CountingInv

\* The commit of whoever counts p: p comes to count, and what he is going to approve.
LEMMA CounterCommits ==
    ASSUME SingleClass, DecisionInv, CountingInv, NEW r \in Requests, pc[r] = "counting",
           Finish(r), dismissed' = dismissed,
           \A a \in Payments : Claimed(a)' => a = job[r].p \/ CountsIf(a, job[r].rec),
           \A a \in Payments : pay'[a] = "ignored" => pay[a] = "ignored",
           LinksAreToExpenses'
    PROVE  CountingInv'
<1> DEFINE p == job[r].p
<1>1. p \in Payments BY DEF DecisionInv, TypeOK
<1>2. MayCommit(p, job[r].rec) BY DEF CountingInv, CountersMayCommit
<1>3. {p, p} \notin Lookalikes BY <1>1, LookalikesAssumption
<1>4. PairCountedOnce'
  <2> SUFFICES ASSUME NEW a \in Payments, NEW b \in Payments,
                      {a, b} \in Lookalikes \ dismissed, Claimed(a)', Claimed(b)'
               PROVE  FALSE
    BY DEF PairCountedOnce
  <2>1. CASE a = p /\ b = p BY <1>3, <2>1
  <2>2. CASE a = p /\ b # p BY <1>2, <2>2 DEF MayCommit
  <2>3. CASE a # p /\ b = p
    <3>1. {p, a} \in Lookalikes \ dismissed
      <4>1. {p, a} = {a, b} BY <2>3
      <4> QED BY <4>1
    <3> QED BY <1>2, <2>3, <3>1 DEF MayCommit
  <2>4. CASE a # p /\ b # p BY <1>2, <2>4 DEF MayCommit
  <2> QED BY <2>1, <2>2, <2>3, <2>4
<1>5. DiscardedNeverCounts' BY <1>2 DEF DiscardedNeverCounts, MayCommit
<1>6. \A x \in Requests : pc'[x] # "counting"
  BY FinishedIsOver, OneCounter
<1>7. CountersMayCommit' BY <1>6 DEF CountersMayCommit
<1> QED BY <1>4, <1>5, <1>7 DEF CountingInv

\* A link is to an expense that was inserted: not to one of a request still under way.
LEMMA LinksAreToOthers ==
    ASSUME DecisionInv, CountingInv, NEW r \in Requests, pc[r] # "done", NEW l \in links
    PROVE  l.e \in Requests \ {r} /\ exp[l.e] # "none"
BY DEF DecisionInv, TypeOK, Uninserted, CountingInv, LinksAreToExpenses

LEMMA OpeningCounts ==
    ASSUME SingleClass, DecisionInv, CountingInv, NEW r \in Requests,
           NEW j, NEW next, Opens(r, j, next)
    PROVE  CountingInv'
<1> USE DEF Opens, Begin
<1>1. job'[r] = j /\ pc'[r] = next
  /\ \A x \in Requests \ {r} : pc'[x] = pc[x] /\ job'[x] = job[x]
  BY DEF DecisionInv, TypeOK
<1>2. CASE next = "counting"
  <2>1. j.p \in Payments /\ j.rec = NoRequest BY <1>2
  <2>2. Declinable(j.rec) BY <2>1, RequestsAssumption DEF Declinable
  <2> QED BY <1>1, <1>2, <2>1, <2>2, CounterStarts DEF RequestOrNone
<1>3. CASE next # "counting"
  <2>1. \A x \in Requests : pc'[x] = "counting" => pc[x] = "counting" /\ job'[x] = job[x]
    BY <1>1, <1>3
  <2>2. \A l \in links : exp[l.e] # "none" BY DEF CountingInv, LinksAreToExpenses
  <2> QED BY <2>1, <2>2, NothingNewCounts DEF ledger
<1> QED BY <1>2, <1>3

LEMMA DerivingCounts ==
    ASSUME DecisionInv, CountingInv, NEW r \in Requests,
           \/ CommitClassify(r) \/ CommitReclassify(r) \/ CommitReject(r) \/ Rollback(r)
    PROVE  CountingInv'
<1>0. /\ Finish(r) /\ pc[r] # "done"
      /\ links' = links /\ settled' = settled /\ pay' = pay /\ dismissed' = dismissed
  BY DEF CommitClassify, CommitReclassify, CommitReject, Rollback, Asked, ledger
<1>1. \A x \in Requests : pc'[x] = "counting" => pc[x] = "counting" /\ job'[x] = job[x]
  BY <1>0, FinishedIsOver
<1>2. \A x \in Requests \ {r} : exp'[x] = exp[x] \/ exp'[x] = "rejected"
  <2>1. CASE CommitClassify(r) BY <2>1 DEF CommitClassify, DecisionInv, TypeOK
  <2>2. CASE CommitReclassify(r) BY <2>2 DEF CommitReclassify, Declined, DecisionInv, TypeOK
  <2>3. CASE CommitReject(r) BY <2>3 DEF CommitReject, Declined
  <2>4. CASE Rollback(r) BY <2>4 DEF Rollback, ledger
  <2> QED BY <2>1, <2>2, <2>3, <2>4
<1>3. \A l \in links : /\ exp[l.e] = "rejected" => exp'[l.e] = "rejected"
                       /\ exp'[l.e] # "none"
  BY <1>0, <1>2, LinksAreToOthers
<1> QED BY <1>0, <1>1, <1>3, NothingNewCounts

LEMMA AcceptingCounts ==
    ASSUME SingleClass, DecisionInv, CountingInv, NEW r \in Requests, CommitAccept(r)
    PROVE  CountingInv'
<1> DEFINE p == job[r].p
           rec == job[r].rec
           e == IF rec = NoRequest THEN r ELSE rec
<1>0. /\ Finish(r) /\ pc[r] = "counting" /\ dismissed' = dismissed
      /\ pay' = [pay EXCEPT ![p] = "linked"] /\ p \in Payments
      /\ rec \in RequestOrNone
      /\ settled' \subseteq settled \cup {p} /\ links' \subseteq links \cup {[p |-> p, e |-> e]}
  BY DEF CommitAccept, Asked, DecisionInv, TypeOK
<1>1. \A l \in links : l.e \in Requests \ {r} /\ exp[l.e] # "none" BY <1>0, LinksAreToOthers
<1>2. \A l \in links : exp'[l.e] = exp[l.e] \/ (l.e = rec /\ exp'[l.e] \in {"approved", "rejected"})
  BY <1>1, RequestsAssumption, AcceptedExpense
<1>3. \A a \in Payments : Claimed(a)' => a = p \/ CountsIf(a, rec)
  BY <1>0, <1>2 DEF Claimed, CountsIf, DecisionInv, TypeOK
<1>4. \A a \in Payments : pay'[a] = "ignored" => pay[a] = "ignored"
  BY <1>0 DEF DecisionInv, TypeOK
<1>5. LinksAreToExpenses'
  <2>1. links' = links \/ exp'[e] # "none"
    BY <1>0, AcceptedExpense DEF CommitAccept, DecisionInv, TypeOK, RequestOrNone
  <2> QED BY <1>0, <1>1, <1>2, <2>1 DEF LinksAreToExpenses
<1> QED BY <1>0, <1>3, <1>4, <1>5, CounterCommits

LEMMA ByHandCounts ==
    ASSUME SingleClass, DecisionInv, CountingInv, NEW r \in Requests,
           CommitSettle(r) \/ CommitFund(r)
    PROVE  CountingInv'
<1> DEFINE p == job[r].p
           rec == job[r].rec
<1>0. /\ Finish(r) /\ pc[r] = "counting" /\ dismissed' = dismissed /\ p \in Payments
      /\ settled' \subseteq settled \cup {p}
  BY DEF CommitSettle, CommitFund, Asked, DecisionInv, TypeOK
<1>1. \A a \in Payments : pay'[a] = pay[a] \/ (a = p /\ pay'[a] = "linked")
  BY DEF CommitSettle, CommitFund, DecisionInv, TypeOK
<1>2. \A l \in links : l.e \in Requests \ {r} /\ exp[l.e] # "none" BY <1>0, LinksAreToOthers
<1>3. \A x \in Requests \ {r} : exp'[x] = exp[x]
  BY DEF CommitSettle, CommitFund, DecisionInv, TypeOK
<1>4. ASSUME NEW l \in links'
      PROVE  \/ l \in links /\ exp'[l.e] = exp[l.e]
             \/ l.p = p /\ exp'[l.e] # "none"
  <2>1. ASSUME l \in links PROVE exp'[l.e] = exp[l.e]
    <3>1. l.e \in Requests \ {r} BY <1>2, <2>1
    <3> QED BY <1>3, <3>1
  <2>2. ASSUME NEW e \in Requests, exp'[e] # "none", links' = links \cup {[p |-> p, e |-> e]}
        PROVE  l \in links \/ (l.p = p /\ exp'[l.e] # "none")
    BY <2>2
  <2>3. CASE CommitSettle(r) BY <2>1, <2>3 DEF CommitSettle
  <2>4. ASSUME NEW st \in {"derived", "approved"}, exp' = [exp EXCEPT ![r] = st],
               links' = links \cup {[p |-> p, e |-> r]}
        PROVE  l \in links \/ (l.p = p /\ exp'[l.e] # "none")
    BY <2>2, <2>4 DEF DecisionInv, TypeOK
  <2>5. ASSUME NEW e \in Requests, exp[e] # "none", links' = links \cup {[p |-> p, e |-> e]},
               exp' = exp
        PROVE  l \in links \/ (l.p = p /\ exp'[l.e] # "none")
    BY <2>2, <2>5
  <2> QED BY <2>1, <2>3, <2>4, <2>5 DEF CommitFund
<1>5. \A a \in Payments : Claimed(a)' => a = p \/ CountsIf(a, rec)
  <2> SUFFICES ASSUME NEW a \in Payments, Claimed(a)', a # p PROVE CountsIf(a, rec)
    OBVIOUS
  <2>1. CASE pay'[a] = "linked" BY <1>1, <2>1 DEF CountsIf
  <2>2. CASE a \in settled' BY <1>0, <2>2 DEF CountsIf
  <2>3. CASE \E l \in links' : l.p = a /\ exp'[l.e] # "rejected" BY <1>4, <2>3 DEF CountsIf
  <2> QED BY <2>1, <2>2, <2>3 DEF Claimed
<1>6. \A a \in Payments : pay'[a] = "ignored" => pay[a] = "ignored" BY <1>1
<1>7. LinksAreToExpenses' BY <1>2, <1>4 DEF LinksAreToExpenses
<1> QED BY <1>0, <1>5, <1>6, <1>7, CounterCommits

LEMMA ConfirmingCounts ==
    ASSUME SingleClass, DecisionInv, CountingInv, NEW r \in Requests, CommitConfirm(r)
    PROVE  CountingInv'
<1> DEFINE p == job[r].p
<1>0. /\ Finish(r) /\ p \in Payments /\ ClassFree(p) /\ ~Claimed(p)
      /\ \A a \in Payments : pay'[a] = IF a = p THEN "ignored" ELSE pay[a]
      /\ UNCHANGED <<dismissed, exp, links, settled>>
  BY DEF CommitConfirm, Asked, MayBeDiscarded, DecisionInv, TypeOK
<1>1. \A a \in Payments : Claimed(a)' => Claimed(a) BY <1>0 DEF Claimed
<1>2. PairCountedOnce' BY <1>0, <1>1 DEF CountingInv, PairCountedOnce
<1>3. DiscardedNeverCounts' BY <1>0, <1>1 DEF CountingInv, DiscardedNeverCounts
<1>4. \A x \in Requests : pc'[x] # "counting" BY <1>0, NobodyCounts, FinishedIsOver
<1> QED BY <1>0, <1>2, <1>3, <1>4 DEF CountingInv, LinksAreToExpenses, CountersMayCommit

LEMMA TakingCounts ==
    ASSUME SingleClass, DecisionInv, CountingInv, NEW r \in Requests, TakeClass(r)
    PROVE  CountingInv'
<1>1. job[r].p \in Payments /\ job[r].rec \in RequestOrNone BY DEF DecisionInv, TypeOK
<1>2. /\ ClassFree(job[r].p) /\ MayBeCounted(job[r].p) /\ Declinable(job[r].rec)
      /\ UNCHANGED ledger /\ job' = job /\ \A x \in Requests \ {r} : pc'[x] = pc[x]
  BY DEF TakeClass, DecisionInv, TypeOK
<1> QED BY <1>1, <1>2, CounterStarts

LEMMA DecliningCounts ==
    ASSUME DecisionInv, CountingInv,
           \/ \E r \in Requests : Decline(r)
           \/ \E pair \in Lookalikes : Dismiss(pair)
           \/ UNCHANGED vars
    PROVE  CountingInv'
<1>1. /\ UNCHANGED <<links, settled, pay, exp, job>> /\ dismissed \subseteq dismissed'
      /\ \A x \in Requests : pc'[x] = "counting" => pc[x] = "counting"
  BY DEF Decline, Dismiss, vars, ledger, DecisionInv, TypeOK
<1>2. \A l \in links : exp[l.e] # "none" BY DEF CountingInv, LinksAreToExpenses
<1> QED BY <1>1, <1>2, NothingNewCounts

LEMMA CountingStep ==
    ASSUME SingleClass
    PROVE  DecisionInv /\ CountingInv /\ [Next]_vars => CountingInv'
<1> SUFFICES ASSUME DecisionInv, CountingInv, [Next]_vars PROVE CountingInv'
  OBVIOUS
<1>1. ASSUME NEW r \in Requests, Start(r) PROVE CountingInv'
  BY <1>1, StartsOpen, OpeningCounts
<1>2. ASSUME NEW r \in Requests, Step(r) PROVE CountingInv'
  BY <1>2, DerivingCounts, AcceptingCounts, ByHandCounts, ConfirmingCounts, TakingCounts,
     DecliningCounts DEF Step
<1> QED BY <1>1, <1>2, DecliningCounts DEF Next

LEMMA CountingInvHolds ==
    ASSUME SingleClass
    PROVE  Spec => []CountingInv
<1>1. Init => CountingInv
  BY DEF Init, CountingInv, LinksAreToExpenses, PairCountedOnce, DiscardedNeverCounts, Claimed,
         CountersMayCommit
<1> QED BY <1>1, CountingStep, DecisionInvHolds, PTL DEF Spec

\* Inside one class, of two payments that may be one movement at most one counts.
THEOREM PairsAreCountedOnce ==
    ASSUME SingleClass
    PROVE  Spec => []PairCountedOnce
<1>1. CountingInv => PairCountedOnce BY DEF CountingInv
<1> QED BY <1>1, CountingInvHolds, PTL

\* Inside one class, a payment discarded as a duplicate explains nothing.
THEOREM DiscardedExplainNothing ==
    ASSUME SingleClass
    PROVE  Spec => []DiscardedNeverCounts
<1>1. CountingInv => DiscardedNeverCounts BY DEF CountingInv
<1> QED BY <1>1, CountingInvHolds, PTL

=============================================================================
