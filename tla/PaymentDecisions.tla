-------------------------- MODULE PaymentDecisions --------------------------
(***************************************************************************)
(* What makes a payment count: proposals about it and the decisions that   *)
(* accept, reject or replace them, settlements and funding links entered   *)
(* by hand, and the questions whether two payments are one movement.       *)
(*                                                                         *)
(* A class is one amount and one direction: the duplicate rule pairs       *)
(* payments inside a class only, and every counting act takes the class's  *)
(* advisory lock.  A request is split where the database, or the model     *)
(* that is asked, lets another request come between: what it reads before  *)
(* its transaction opens, what it reads inside it, and the commit at which *)
(* all its writes appear.                                                  *)
(***************************************************************************)
EXTENDS Integers, FiniteSets

CONSTANTS
    Payments,
    ClassOf,    \* paymentClassLockKey: the class a payment belongs to
    Lookalikes, \* the pairs domain.isPossibleDuplicate accepts
    Amount,     \* what each of them moved
    Requests,   \* units of work; each runs once and lends its id to the rows it inserts
    NoRequest,
    NoPayment

ASSUME PaymentsAssumption == Payments # {} /\ NoPayment \notin Payments
ASSUME RequestsAssumption == NoRequest \notin Requests
ASSUME AmountAssumption == Amount \in Nat \ {0}
ASSUME ClassAssumption == ClassOf = [p \in Payments |-> ClassOf[p]]
ASSUME LookalikesAssumption ==
    \A pair \in Lookalikes : \E p, q \in Payments : /\ p # q /\ pair = {p, q}
                                                    /\ ClassOf[p] = ClassOf[q]

VARIABLES
    pay,        \* payments.state
    dupOf,      \* the canonical payment an ignored one names
    dismissed,  \* pairs recorded as two real movements
    inf,        \* the ai_inferences row a request inserted
    latest,     \* the newest inference about a payment
    exp,        \* the state of the expense a request inserted
    links,      \* payment_expense_links
    settled,    \* payments a settlement draws on
    spent,      \* links and settlements drawn on a payment, added up
    class,      \* who holds the advisory lock of a class
    held,       \* who holds the row lock of an inference
    pc,         \* how far a request is
    job         \* what it was asked, and what it has read

ledger == <<pay, dupOf, dismissed, inf, latest, exp, links, settled, spent>>
vars == <<pay, dupOf, dismissed, inf, latest, exp, links, settled, spent,
          class, held, pc, job>>

Classes == {ClassOf[p] : p \in Payments}
RequestOrNone == Requests \cup {NoRequest}
AnyPayment == CHOOSE p \in Payments : TRUE

\* "derived" stands for proposed, classified and review_required; "approved" for what follows.
ExpenseStates == {"none", "derived", "approved", "rejected"}
\* "accepted" stands for accepted and modified.
Statuses == {"none", "pending", "accepted", "rejected", "superseded"}
ProposalKinds == {"expense", "settlement"}
Ops == {"none", "classify", "reclassify", "reject", "accept", "settle", "fund", "confirm"}

NoInference == [st |-> "none", p |-> AnyPayment, kind |-> "expense", rec |-> NoRequest]
NoJob == [op |-> "none", p |-> AnyPayment, i |-> NoRequest, kind |-> "expense",
          rec |-> NoRequest, canonical |-> NoPayment]

-----------------------------------------------------------------------------
(* The rules *)

\* listClaimedPaymentIds.
Claimed(p) ==
    \/ pay[p] = "linked"
    \/ \E l \in links : l.p = p /\ exp[l.e] # "rejected"
    \/ p \in settled

\* assertPaymentMayBeCounted: the twins are those not discarded.
MayBeCounted(p) ==
    /\ pay[p] # "ignored"
    /\ Claimed(p) \/ \A q \in Payments :
          {p, q} \in Lookalikes \ dismissed /\ pay[q] # "ignored" => ~Claimed(q)

\* validatePaymentExplanationBudget: links and settlements share one budget.
\* Mutation: a link or a settlement is only compared with the payment itself.
FitsAlone(p, amount) == amount \in 1..Amount
Fits(p, amount) == amount \in 1..Amount /\ spent[p] + amount <= Amount

\* Mutation: only the lifecycle is consulted before a copy is discarded.
NotLinked(p) == pay[p] = "normalized"
MayBeDiscarded(p) == pay[p] = "normalized" /\ ~Claimed(p)

\* resolveCanonicalPayment: back along duplicate_of while the payment is itself a copy.
Canonical(from) ==
    LET walk[seen \in SUBSET Payments] ==
            [p \in Payments |->
                IF pay[p] = "ignored" /\ dupOf[p] \notin seen \cup {NoPayment}
                THEN walk[seen \cup {dupOf[p]}][dupOf[p]]
                ELSE p]
    IN walk[{from}][from]

\* Mutation: the inference row is written last, after the expense was read.
WrittenLast(i) == TRUE
InferenceFree(i) == \A x \in Requests : x = i => held[x] = NoRequest

\* Mutation: without pg_advisory_xact_lock.
NoClassLock(p) == TRUE
ClassFree(p) == class[ClassOf[p]] = NoRequest

\* The record an accepted proposal ends up pointing at: the expense classification made, the one
\* this decision made, or a settlement.
\* Mutation: an expense made by the decision is not attached.
RecordUnattached(kind, rec, r) == IF kind = "settlement" THEN NoRequest ELSE rec
RecordAfter(kind, rec, r) ==
    CASE kind = "settlement" -> NoRequest
      [] kind = "expense" /\ rec # NoRequest -> rec
      [] OTHER -> r

-----------------------------------------------------------------------------
Init ==
    /\ pay = [p \in Payments |-> "normalized"]
    /\ dupOf = [p \in Payments |-> NoPayment]
    /\ dismissed = {}
    /\ inf = [r \in Requests |-> NoInference]
    /\ latest = [p \in Payments |-> NoRequest]
    /\ exp = [r \in Requests |-> "none"]
    /\ links = {}
    /\ settled = {}
    /\ spent = [p \in Payments |-> 0]
    /\ class = [c \in Classes |-> NoRequest]
    /\ held = [r \in Requests |-> NoRequest]
    /\ pc = [r \in Requests |-> "idle"]
    /\ job = [r \in Requests |-> NoJob]

-----------------------------------------------------------------------------
(* The steps a unit of work is made of *)

Begin(r, j, next) ==
    /\ pc[r] = "idle"
    /\ pc' = [pc EXCEPT ![r] = next]
    /\ job' = [job EXCEPT ![r] = j]
    /\ UNCHANGED ledger

Asked(r, op, at) == pc[r] = at /\ job[r].op = op

\* Commit or rollback: the request is over and releases its locks.
Finish(r) ==
    /\ pc' = [pc EXCEPT ![r] = "done"]
    /\ job' = [job EXCEPT ![r] = NoJob]
    /\ class' = [c \in Classes |-> IF class[c] = r THEN NoRequest ELSE class[c]]
    /\ held' = [i \in Requests |-> IF held[i] = r THEN NoRequest ELSE held[i]]

\* What storing a proposal writes: the inference, and a derived expense behind an expense one.
Proposed(r, p, kind) ==
    [st |-> "pending", p |-> p, kind |-> kind,
     rec |-> IF kind = "expense" THEN r ELSE NoRequest]
\* Mutation: written in a state the table does not know.
DerivedMisspelt(kind) == IF kind = "expense" THEN "pending" ELSE "none"
DerivedFor(kind) == IF kind = "expense" THEN "derived" ELSE "none"

\* declineDerivedExpense, given the expense the inference pointed at when it was read.
Declined(e) == [x \in Requests |-> IF x = e THEN "rejected" ELSE exp[x]]
\* Mutation: whatever the expense has become.
AnyExpense(rec) == TRUE
Declinable(rec) == \A e \in Requests : e = rec => exp[e] = "derived"

-----------------------------------------------------------------------------
(* Asking: classifyPayment, reclassifyPayment *)

BeginClassify(r, p) ==
    /\ pay[p] = "normalized"
    /\ latest[p] = NoRequest
    /\ Begin(r, [NoJob EXCEPT !.op = "classify", !.p = p], "open")
    /\ UNCHANGED <<class, held>>

CommitClassify(r) ==
    /\ Asked(r, "classify", "open")
    /\ \E kind \in ProposalKinds :
        /\ inf' = [inf EXCEPT ![r] = Proposed(r, job[r].p, kind)]
        /\ exp' = [exp EXCEPT ![r] = DerivedFor(kind)]
    /\ latest' = [latest EXCEPT ![job[r].p] = r]
    /\ Finish(r)
    /\ UNCHANGED <<pay, dupOf, dismissed, links, settled, spent>>

\* Only an undecided proposal is replaced; the model is asked before the transaction opens.
BeginReclassify(r, p) ==
    LET i == latest[p] IN
    /\ pay[p] = "normalized"
    /\ i # NoRequest /\ inf[i].st # "accepted"
    /\ IF inf[i].st = "pending"
       THEN Begin(r, [NoJob EXCEPT !.op = "reclassify", !.p = p, !.i = i,
                                   !.rec = inf[i].rec], "open")
       ELSE Begin(r, [NoJob EXCEPT !.op = "reclassify", !.p = p], "declining")
    /\ UNCHANGED <<class, held>>

CommitReclassify(r) ==
    LET i == job[r].i IN
    /\ Asked(r, "reclassify", "declining")
    /\ \E kind \in ProposalKinds :
        /\ inf' = [x \in Requests |-> CASE x = r -> Proposed(r, job[r].p, kind)
                                        [] x = i -> [inf[x] EXCEPT !.st = "superseded"]
                                        [] OTHER -> inf[x]]
        /\ exp' = [Declined(job[r].rec) EXCEPT ![r] = DerivedFor(kind)]
    /\ latest' = [latest EXCEPT ![job[r].p] = r]
    /\ Finish(r)
    /\ UNCHANGED <<pay, dupOf, dismissed, links, settled, spent>>

-----------------------------------------------------------------------------
(* Deciding: decideInference reads the inference, and checks that it is    *)
(* pending, before its transaction opens.                                  *)

BeginReject(r, i) ==
    /\ inf[i].st = "pending"
    /\ Begin(r, [NoJob EXCEPT !.op = "reject", !.p = inf[i].p, !.i = i,
                              !.rec = inf[i].rec], "open")
    /\ UNCHANGED <<class, held>>

\* recordAiInferenceDecision writes the inference row, and so holds it, before the expense is
\* read and found still declinable.
Decline(r) ==
    LET i == job[r].i IN
    /\ pc[r] = "open" /\ job[r].op \in {"reject", "reclassify"}
    /\ InferenceFree(i)
    /\ Declinable(job[r].rec)
    /\ held' = [held EXCEPT ![i] = r]
    /\ pc' = [pc EXCEPT ![r] = "declining"]
    /\ UNCHANGED <<ledger, class, job>>

CommitReject(r) ==
    /\ Asked(r, "reject", "declining")
    /\ inf' = [inf EXCEPT ![job[r].i].st = "rejected"]
    /\ exp' = Declined(job[r].rec)
    /\ Finish(r)
    /\ UNCHANGED <<pay, dupOf, dismissed, latest, links, settled, spent>>

BeginAccept(r, i, kind) ==
    /\ inf[i].st = "pending"
    /\ Begin(r, [NoJob EXCEPT !.op = "accept", !.p = inf[i].p, !.i = i, !.kind = kind,
                              !.rec = inf[i].rec], "open")
    /\ UNCHANGED <<class, held>>

\* lockPaymentClasses, then every read that follows it.
TakeClass(r) ==
    /\ Asked(r, "accept", "open")
    /\ ClassFree(job[r].p)
    /\ MayBeCounted(job[r].p)
    /\ Declinable(job[r].rec)
    /\ class' = [class EXCEPT ![ClassOf[job[r].p]] = r]
    /\ pc' = [pc EXCEPT ![r] = "counting"]
    /\ UNCHANGED <<ledger, held, job>>

\* The expense is approved, or declined in favour of a settlement, whatever it has become since
\* it was read; the inference row is written last.
CommitAccept(r) ==
    LET p == job[r].p
        i == job[r].i
        kind == job[r].kind
        rec == job[r].rec
        e == IF rec = NoRequest THEN r ELSE rec IN
    /\ Asked(r, "accept", "counting")
    /\ InferenceFree(i)
    /\ Fits(p, Amount)
    /\ spent' = [spent EXCEPT ![p] = @ + Amount]
    /\ \/ /\ kind = "expense"
          /\ exp' = [exp EXCEPT ![e] = "approved"]
          /\ links' = links \cup {[p |-> p, e |-> e]}
          /\ UNCHANGED settled
       \/ /\ kind = "settlement"
          /\ exp' = Declined(rec)
          /\ settled' = settled \cup {p}
          /\ UNCHANGED links
    /\ pay' = [pay EXCEPT ![p] = "linked"]
    /\ inf' = [inf EXCEPT ![i] = [st |-> "accepted", p |-> p, kind |-> kind,
                                  rec |-> RecordAfter(kind, rec, r)]]
    /\ Finish(r)
    /\ UNCHANGED <<dupOf, dismissed, latest>>

-----------------------------------------------------------------------------
(* Counting by hand: recordSettlement, createExpense, linkPaymentToExpense *)

BeginByHand(r, op, p) ==
    /\ ClassFree(p)
    /\ MayBeCounted(p)
    /\ class' = [class EXCEPT ![ClassOf[p]] = r]
    /\ Begin(r, [NoJob EXCEPT !.op = op, !.p = p], "counting")
    /\ UNCHANGED held

CommitSettle(r) ==
    LET p == job[r].p IN
    /\ Asked(r, "settle", "counting")
    /\ \E amount \in 1..Amount :
        /\ Fits(p, amount)
        /\ spent' = [spent EXCEPT ![p] = @ + amount]
    /\ settled' = settled \cup {p}
    /\ pay' = [pay EXCEPT ![p] = "linked"]
    /\ Finish(r)
    /\ UNCHANGED <<dupOf, dismissed, inf, latest, exp, links>>

\* A new expense, approved or only proposed, or one that exists already, in whatever state.
CommitFund(r) ==
    LET p == job[r].p IN
    /\ Asked(r, "fund", "counting")
    /\ \E amount \in 1..Amount :
        /\ Fits(p, amount)
        /\ spent' = [spent EXCEPT ![p] = @ + amount]
    /\ \/ \E st \in {"derived", "approved"} :
            /\ exp' = [exp EXCEPT ![r] = st]
            /\ links' = links \cup {[p |-> p, e |-> r]}
       \/ \E e \in Requests :
            /\ exp[e] # "none"
            /\ [p |-> p, e |-> e] \notin links
            /\ links' = links \cup {[p |-> p, e |-> e]}
            /\ UNCHANGED exp
    /\ Finish(r)
    /\ UNCHANGED <<pay, dupOf, dismissed, inf, latest, settled>>

-----------------------------------------------------------------------------
(* Possible duplicates *)

\* confirmPossibleDuplicate: the canonical payment is found before the transaction opens.
BeginConfirm(r, p, q) ==
    /\ {p, q} \in Lookalikes
    /\ \E canonical \in Payments \ {p} :
        /\ canonical = Canonical(q)
        /\ Begin(r, [NoJob EXCEPT !.op = "confirm", !.p = p, !.canonical = canonical], "open")
    /\ UNCHANGED <<class, held>>

\* The lock, the second read of the payment and the write.
CommitConfirm(r) ==
    LET p == job[r].p IN
    /\ Asked(r, "confirm", "open")
    /\ ClassFree(p)
    /\ MayBeDiscarded(p)
    /\ pay' = [pay EXCEPT ![p] = "ignored"]
    /\ dupOf' = [dupOf EXCEPT ![p] = job[r].canonical]
    /\ Finish(r)
    /\ UNCHANGED <<dismissed, inf, latest, exp, links, settled, spent>>

\* dismissPossibleDuplicate records the decision and nothing else.
Dismiss(pair) ==
    /\ pair \notin dismissed
    /\ dismissed' = dismissed \cup {pair}
    /\ UNCHANGED <<pay, dupOf, inf, latest, exp, links, settled, spent,
                   class, held, pc, job>>

-----------------------------------------------------------------------------
\* A refusal, a deadlock victim, a crash: nothing the request wrote survives.
Rollback(r) ==
    /\ pc[r] \in {"open", "declining", "counting"}
    /\ Finish(r)
    /\ UNCHANGED ledger

Start(r) ==
    \/ \E p \in Payments :
        \/ BeginClassify(r, p)
        \/ BeginReclassify(r, p)
        \/ \E op \in {"settle", "fund"} : BeginByHand(r, op, p)
        \/ \E q \in Payments : BeginConfirm(r, p, q)
    \/ \E i \in Requests :
        \/ BeginReject(r, i)
        \/ \E kind \in ProposalKinds : BeginAccept(r, i, kind)

Step(r) ==
    \/ CommitClassify(r)
    \/ CommitReclassify(r)
    \/ Decline(r)
    \/ CommitReject(r)
    \/ TakeClass(r)
    \/ CommitAccept(r)
    \/ CommitSettle(r)
    \/ CommitFund(r)
    \/ CommitConfirm(r)
    \/ Rollback(r)

Next ==
    \/ \E r \in Requests : Start(r) \/ Step(r)
    \/ \E pair \in Lookalikes : Dismiss(pair)

Spec == Init /\ [][Next]_vars

-----------------------------------------------------------------------------
(* Properties *)

TypeOK ==
    /\ pay \in [Payments -> {"normalized", "linked", "ignored"}]
    /\ dupOf \in [Payments -> Payments \cup {NoPayment}]
    /\ dismissed \subseteq Lookalikes
    /\ inf \in [Requests -> [st : Statuses, p : Payments, kind : ProposalKinds,
                             rec : RequestOrNone]]
    /\ latest \in [Payments -> RequestOrNone]
    /\ exp \in [Requests -> ExpenseStates]
    /\ links \subseteq [p : Payments, e : Requests]
    /\ settled \subseteq Payments
    /\ spent \in [Payments -> Nat]
    /\ class \in [Classes -> RequestOrNone]
    /\ held \in [Requests -> RequestOrNone]
    /\ pc \in [Requests -> {"idle", "open", "declining", "counting", "done"}]
    /\ job \in [Requests -> [op : Ops, p : Payments, i : RequestOrNone, kind : ProposalKinds,
                             rec : RequestOrNone, canonical : Payments \cup {NoPayment}]]

\* A payment never explains more money than it moved, through however many decisions,
\* settlements and funding links at once (ADR-0007).
WithinBudget == \A p \in Payments : spent[p] <= Amount

\* Of two payments that may be one movement, and that nobody has said are two, at most one
\* counts: two decisions on the two halves cannot both pass (invariant 10, ADR-0071).  It holds
\* inside one class; a decision about a payment of another class can break it.
PairCountedOnce ==
    \A p, q \in Payments :
        {p, q} \in Lookalikes \ dismissed => ~(Claimed(p) /\ Claimed(q))

\* A payment discarded as a duplicate explains nothing: no decision, link or settlement that was
\* under way when it was discarded lands on it afterwards, and none that counts is discarded.
\* This too holds inside one class.
DiscardedNeverCounts == \A p \in Payments : pay[p] = "ignored" => ~Claimed(p)

\* Behind every accepted proposal stands what it produced: an approved expense the payment is
\* linked to, or a settlement of the payment -- and the payment is explained.
AcceptedStands ==
    \A i \in Requests : inf[i].st = "accepted" =>
        /\ pay[inf[i].p] = "linked"
        /\ IF inf[i].kind = "settlement" THEN inf[i].p \in settled
           ELSE /\ inf[i].rec # NoRequest
                /\ exp[inf[i].rec] = "approved"
                /\ [p |-> inf[i].p, e |-> inf[i].rec] \in links

\* "an expense that was ever `approved` can never be rejected" (lifecycle.ts), also when a
\* rejection or a re-classification read the proposal before it was accepted.
ApprovedNeverRejected ==
    [][\A e \in Requests : exp[e] = "approved" => exp'[e] = "approved"]_vars

\* The acceptance of a proposal that brought an expense is never written over, by a rejection, a
\* re-run or another acceptance that found the proposal pending before
\* (inference-decision-service.ts:141): the expense it brought stops them.  A proposal without
\* one has nothing that does.
AcceptanceIsFinal ==
    [][\A i \in Requests : inf[i].st = "accepted" /\ exp[i] # "none" => inf'[i] = inf[i]]_vars
=============================================================================
