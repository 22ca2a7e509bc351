----------------------- MODULE SplitwiseRemoteChanges -----------------------
(***************************************************************************)
(* What other people change in Splitwise arrives as proposals (ADR-0056).  *)
(* A discovery run lists a friend's entries, compares them with the links  *)
(* this ledger holds and reconciles the differences with the changes on    *)
(* record; a person accepts or rejects a change; accepting writes one      *)
(* bounded thing.  Beside them the ledger moves, and pushes correct,       *)
(* withdraw and create entries (SplitwiseSync has those in full).          *)
(*                                                                         *)
(* One user and one friend; a split of an expense, the payload of a push   *)
(* and an entry of Splitwise are abstracted to their total and to whether  *)
(* the friend takes part.  A run and a decision are READ COMMITTED         *)
(* transactions; each block of statements that reads is a step, and so is  *)
(* the block that writes.  Splitwise and other people are external.        *)
(***************************************************************************)
EXTENDS Naturals, FiniteSets, Sequences, SequencesExt

CONSTANTS
    Expenses, Settlements,  \* the records of this ledger
    Nobody,                 \* no record
    Amounts,                \* figures an entry may show
    Worth,                  \* what each record is worth at first
    Runs, Decisions, Pushes,
    MaxEntries,             \* bound on the entries Splitwise ever holds
    MaxMoves, MaxEdits      \* bounds on the moves of the ledger and of other people

ASSUME RecordsAssumption == Expenses \cap Settlements = {} /\ Nobody \notin Expenses \cup Settlements
ASSUME AmountsAssumption ==
    /\ Amounts \subseteq Nat \ {0} /\ Worth \in [Expenses \cup Settlements -> Amounts]
    /\ MaxEntries \in Nat /\ MaxMoves \in Nat /\ MaxEdits \in Nat

VARIABLES
    mapped,     \* whether the friend's Splitwise account is mapped to a person
    net,        \* what this ledger says a record is worth
    within,     \* the expenses whose current allocation names the friend
    links,      \* splitwise_expenses and splitwise_settlements rows, in order
    remote,     \* the entries of Splitwise, in order
    changes,    \* splitwise_remote_changes rows, in order
    run, decision, push,
    moves, edits,  \* count towards MaxMoves and MaxEdits
    clean,      \* history: runs during which nothing else moved
    omitted,    \* history: the entries that stood and left the friend out when a run listed
    contested   \* history: changes and records that two pieces of work had in hand at once

records == <<mapped, net, within, links, remote, moves, edits>>
history == <<clean, omitted, contested>>
vars == <<records, changes, run, decision, push, history>>

Records == Expenses \cup Settlements
KindOf(l) == IF l \in Expenses THEN "expense" ELSE "payment"

NoLocal == [st |-> "none", own |-> 0, net |-> 0]
IdleRun == [pc |-> "idle", paired |-> FALSE, views |-> {}, seen |-> <<>>, complete |-> FALSE, known |-> {}, drafts |-> {}]
IdleDecision == [pc |-> "idle", c |-> 0, accept |-> FALSE, target |-> Nobody]
IdlePush == [pc |-> "idle", l |-> Nobody, row |-> 0, entry |-> 0, st |-> "none", sent |-> 0]

Disturb == clean' = [d \in Runs |-> FALSE]
Standing(x) == x \in DOMAIN remote /\ ~remote[x].deleted

\* A settlement is between the user and the friend; an expense names the friend or not.
Names(l) == l \in Settlements \/ l \in within

\* What the work in hand is about: the change a decision decides, and the record that an
\* adoption or a first sync gives a link.
Taken(subjects) == contested' = contested \cup (subjects \cap
    ({<<"change", decision[k].c>> : k \in {m \in Decisions : decision[m].pc = "checked"}}
     \cup {<<"record", decision[k].target>> : k \in {m \in Decisions : decision[m].pc = "checked"}}
     \cup {<<"record", push[p].l>> : p \in {q \in Pushes : push[q].pc = "called" /\ push[q].row = 0}}))

-----------------------------------------------------------------------------
(* Comparing: the pure part.  A listing is a function from entry ids.      *)

\* assertsALiveEntry and assertsALiveSettlement.
LiveStatus(l) == {"synced", "drifted"} \cup IF l \in Expenses THEN {"stale"} ELSE {}
Live(views) == {v \in views : v.st \in LiveStatus(v.l)}

View(i) == [row |-> i, l |-> links[i].l, st |-> links[i].st, entry |-> links[i].entry,
            sent |-> links[i].sent, snap |-> links[i].snap, net |-> net[links[i].l]]
ViewsOf(ls) == {View(i) : i \in {j \in DOMAIN links : links[j].l \in ls}}

\* buildLinkedExpenseViews: of the rows that were read, those whose current allocation or whose
\* snapshot names the friend.  Mutation: the snapshot is not looked at.
NamedNow(v) == Names(v.l)
Participates(v) == Names(v.l) \/ v.snap

\* The payload that was sent, or the ledger's own figure for an adopted link.
Ours(v) == IF v.l \in Expenses /\ v.sent # 0 THEN v.sent ELSE v.net

\* Mutation: an entry that a partial listing does not show counts as gone.
AbsentIsGone(x, seen, complete) == x \notin DOMAIN seen \/ seen[x].deleted
Gone(x, seen, complete) ==
    IF x \in DOMAIN seen THEN seen[x].deleted ELSE complete

Draft(kind, ext, v, loc, rem) ==
    [kind |-> kind, ext |-> ext, l |-> v.l, row |-> v.row, loc |-> loc, rem |-> rem]
NoView == [l |-> Nobody, row |-> 0]
Snapshot(x, seen) == IF x \in DOMAIN seen THEN {<<x, seen[x]>>} ELSE {}

DeletedDrafts(views, seen, complete) ==
    {Draft("deleted", v.entry, v, [st |-> v.st, own |-> 0, net |-> v.net], Snapshot(v.entry, seen)) :
        v \in {w \in Live(views) : Gone(w.entry, seen, complete)}}

ChangedDrafts(views, seen) ==
    {Draft("changed", v.entry, v, [st |-> v.st, own |-> Ours(v), net |-> v.net], Snapshot(v.entry, seen)) :
        v \in {w \in Live(views) : /\ w.entry \in DOMAIN seen /\ ~seen[w.entry].deleted
                                   /\ seen[w.entry].amount # Ours(w)}}

Unlinked(views, seen) ==
    {x \in DOMAIN seen : ~seen[x].deleted /\ \A v \in Live(views) : v.entry # x}
UnlinkedDrafts(views, seen) ==
    {Draft("unlinked", x, NoView, NoLocal, Snapshot(x, seen)) : x \in Unlinked(views, seen)}

\* Two unlinked entries or more that cannot be told apart.
DuplicateDrafts(views, seen) ==
    LET alike(x) == {y \in Unlinked(views, seen) : seen[y] = seen[x]}
        first(x) == CHOOSE y \in alike(x) : \A z \in alike(x) : y <= z IN
    {Draft("duplicate", first(x), NoView, NoLocal, UNION {Snapshot(y, seen) : y \in alike(x)}) :
        x \in {y \in Unlinked(views, seen) : Cardinality(alike(y)) > 1}}

Discover(views, seen, complete) ==
    DeletedDrafts(views, seen, complete) \cup ChangedDrafts(views, seen)
        \cup UnlinkedDrafts(views, seen) \cup DuplicateDrafts(views, seen)

UnmappedDraft == Draft("unmapped", 0, NoView, NoLocal, {})

Fingerprint(c) == <<c.kind, c.ext>>

\* The digest: their side, and what this ledger held.
SameComparison(c, d) == c.loc = d.loc /\ c.rem = d.rem

Current == {i \in DOMAIN changes : changes[i].current}

-----------------------------------------------------------------------------
Init ==
    /\ mapped \in BOOLEAN /\ within \in SUBSET Expenses
    /\ net = Worth
    /\ links = <<>> /\ remote = <<>> /\ changes = <<>>
    /\ run = [d \in Runs |-> IdleRun]
    /\ decision = [k \in Decisions |-> IdleDecision]
    /\ push = [p \in Pushes |-> IdlePush]
    /\ moves = 0 /\ edits = 0
    /\ clean = [d \in Runs |-> FALSE] /\ omitted = [d \in Runs |-> {}] /\ contested = {}

(* Discovery.                                                              *)

\* The friends list, the mapped people and the expense links are read.  (A run
\* that cannot read the friends list writes nothing but its own row.)
BeginRun(d) ==
    /\ run[d].pc = "idle"
    /\ run' = [run EXCEPT ![d] = [IdleRun EXCEPT !.pc = IF mapped THEN "begun" ELSE "listed",
                                                 !.paired = mapped,
                                                 !.views = ViewsOf(Expenses)]]
    /\ clean' = [clean EXCEPT ![d] = TRUE]
    /\ UNCHANGED <<records, changes, decision, push, omitted, contested>>

\* readPairEntries: the entries that name the friend (friend_id), of which a complete listing
\* has every one that stands and any other a part.  A deleted entry may be listed as such or
\* be absent.
ListEntries(d) ==
    /\ run[d].pc = "begun"
    /\ \E ids \in SUBSET {x \in DOMAIN remote : remote[x].friend}, complete \in BOOLEAN :
         /\ complete => \A x \in DOMAIN remote : Standing(x) /\ remote[x].friend => x \in ids
         /\ run' = [run EXCEPT ![d].pc = "listed", ![d].complete = complete,
                               ![d].seen = [x \in ids |-> remote[x]]]
    /\ omitted' = [omitted EXCEPT ![d] = {x \in DOMAIN remote : Standing(x) /\ ~remote[x].friend}]
    /\ UNCHANGED <<records, changes, decision, push, clean, contested>>

\* The current allocations, the settlement links and then the changes on record are read, and
\* compared.
Compare(d) ==
    LET r == run[d]
        views == {v \in r.views : Participates(v)} \cup ViewsOf(Settlements)
        drafts == IF r.paired THEN Discover(views, r.seen, r.complete) ELSE {UnmappedDraft} IN
    /\ r.pc = "listed"
    /\ run' = [run EXCEPT ![d] = [r EXCEPT !.pc = "compared", !.known = Current, !.drafts = drafts,
                                          !.views = {}, !.seen = <<>>]]
    /\ UNCHANGED <<records, changes, decision, push, history>>

\* canRetire.  Mutation: a pair that was read at all may retire its changes.
RetiredByAnyRead(c, r) == c.kind = "unmapped" \/ r.paired
CanRetire(c, r) == c.kind = "unmapped" \/ (r.paired /\ r.complete)

\* The drafts that no change on record, as the run read them, already says.
Fresh(r) == {f \in r.drafts : \A i \in r.known :
                Fingerprint(changes[i]) = Fingerprint(f) => ~SameComparison(changes[i], f)}
Superseded(r) ==
    {i \in r.known :
        \/ \E f \in Fresh(r) : Fingerprint(f) = Fingerprint(changes[i])
        \/ CanRetire(changes[i], r) /\ \A f \in r.drafts : Fingerprint(f) # Fingerprint(changes[i])}

\* splitwise_remote_changes_current_idx.  Mutation: there is no such index.
NoIndex(r) == FALSE
Collides(r) ==
    \E f \in Fresh(r), i \in Current \ r.known : Fingerprint(changes[i]) = Fingerprint(f)

Proposed(f) ==
    [kind |-> f.kind, ext |-> f.ext, l |-> f.l, row |-> f.row, loc |-> f.loc, rem |-> f.rem,
     status |-> "proposed", current |-> TRUE, applied |-> 0]

\* reconcileChanges; a unique violation rolls the whole run back.
Reconcile(d) ==
    LET r == run[d] IN
    /\ run[d].pc = "compared"
    /\ changes' = IF Collides(r) THEN changes ELSE
          [i \in DOMAIN changes |-> IF i \in Superseded(r) THEN [changes[i] EXCEPT !.current = FALSE]
                                                           ELSE changes[i]]
              \o SetToSeq({Proposed(f) : f \in Fresh(r)})
    /\ run' = [run EXCEPT ![d] = [IdleRun EXCEPT !.pc = "done"]]
    /\ Disturb
    /\ omitted' = [omitted EXCEPT ![d] = {}]
    /\ UNCHANGED <<records, decision, push, contested>>

-----------------------------------------------------------------------------
(* Deciding.                                                               *)

\* Mutation: what was decided before may be decided again.
AnyCurrent(c) == changes[c].current
Undecided(c) == changes[c].current /\ changes[c].status = "proposed"

\* Mutation: only the entry has to be free.
EntryFree(c, l) == \A i \in DOMAIN links : KindOf(links[i].l) = KindOf(l) => links[i].entry # changes[c].ext
BothFree(c, l) == EntryFree(c, l) /\ \A i \in DOMAIN links : links[i].l # l

\* What accepting needs: a free record of the entry's kind, or a link of the
\* record whose status still asserts an entry.
Acceptable(c, target) ==
    CASE changes[c].kind = "unlinked" ->
            /\ target \in Records
            /\ \A s \in changes[c].rem : s[2].kind = KindOf(target)
            /\ BothFree(c, target)
      [] changes[c].kind = "deleted" ->
            /\ target = Nobody
            /\ \E i \in DOMAIN links : links[i].l = changes[c].l /\ links[i].st \in LiveStatus(links[i].l)
      [] changes[c].kind \in {"changed", "unmapped"} -> target = Nobody
      [] changes[c].kind = "duplicate" -> FALSE

\* decideSplitwiseRemoteChange: the change is read and checked.
BeginDecision(k, c, accept, target) ==
    /\ decision[k].pc = "idle"
    /\ Undecided(c)
    /\ IF accept THEN Acceptable(c, target) ELSE target = Nobody
    /\ decision' = [decision EXCEPT ![k] = [pc |-> "checked", c |-> c, accept |-> accept, target |-> target]]
    /\ Taken({<<"change", c>>, <<"record", target>>})
    /\ UNCHANGED <<records, changes, run, push, clean, omitted>>

\* The decision is written by id, whatever the row says by then.
Decide(k, status, applied) ==
    /\ changes' = [changes EXCEPT ![decision[k].c].status = status, ![decision[k].c].applied = @ + applied]
    /\ decision' = [decision EXCEPT ![k] = [IdleDecision EXCEPT !.pc = "done"]]

Reject(k) ==
    /\ decision[k].pc = "checked" /\ ~decision[k].accept
    /\ Decide(k, "rejected", 0)
    /\ UNCHANGED <<records, run, push, history>>

\* recordDrift and recordExternalDeletion: the row the change names, by id.
MarkLink(k, kind, st) ==
    LET c == changes[decision[k].c] IN
    /\ decision[k].pc = "checked" /\ decision[k].accept /\ c.kind = kind
    /\ links' = [links EXCEPT ![c.row].st = st]
    /\ Decide(k, "accepted", 1)
    /\ Disturb
    /\ UNCHANGED <<mapped, net, within, remote, moves, edits, run, push, omitted, contested>>

AcceptDrift(k) == MarkLink(k, "changed", "drifted")
AcceptDeletion(k) == MarkLink(k, "deleted", "externally_deleted")

\* splitwise_expenses_external_unique and its twin for settlements.
Claimed(l, x) == \E i \in DOMAIN links : KindOf(links[i].l) = KindOf(l) /\ links[i].entry = x

\* adoptExpenseLink and adoptSettlementLink; the unique index may refuse the row.
AcceptAdoption(k) ==
    LET c == changes[decision[k].c] IN
    /\ decision[k].pc = "checked" /\ decision[k].accept /\ c.kind = "unlinked"
    /\ IF Claimed(decision[k].target, c.ext)
         THEN decision' = [decision EXCEPT ![k] = [IdleDecision EXCEPT !.pc = "done"]] /\ UNCHANGED <<links, changes, clean>>
         ELSE /\ links' = Append(links, [l |-> decision[k].target, st |-> "drifted", entry |-> c.ext, sent |-> 0,
                                      snap |-> FALSE])
              /\ Decide(k, "accepted", 1)
              /\ Disturb
    /\ UNCHANGED <<mapped, net, within, remote, moves, edits, run, push, omitted, contested>>

\* mapPerson.
AcceptMapping(k) ==
    /\ decision[k].pc = "checked" /\ decision[k].accept /\ changes[decision[k].c].kind = "unmapped"
    /\ mapped' = TRUE
    /\ Decide(k, "accepted", 1)
    /\ Disturb
    /\ UNCHANGED <<net, within, links, remote, moves, edits, run, push, omitted, contested>>

-----------------------------------------------------------------------------
(* Pushes and the world.                                                   *)

\* A push asks something of Splitwise, which does it.  Everybody that it names has to be mapped.
Call(p, l, i, entry, st) ==
    /\ push[p].pc = "idle" /\ (Names(l) => mapped)
    /\ push' = [push EXCEPT ![p] = [pc |-> "called", l |-> l, row |-> i, entry |-> entry, st |-> st,
                                    sent |-> net[l], snap |-> Names(l)]]
    /\ Taken(IF i = 0 THEN {<<"record", l>>} ELSE {})
    /\ Disturb
    /\ UNCHANGED <<mapped, net, within, links, moves, edits, changes, run, decision, omitted>>

CreateEntry(p, l, i) ==
    /\ net[l] # 0 /\ Len(remote) < MaxEntries
    /\ remote' = Append(remote, [kind |-> KindOf(l), amount |-> net[l], friend |-> Names(l),
                                  deleted |-> FALSE])
    /\ Call(p, l, i, Len(remote) + 1, "synced")

\* syncExpenseToSplitwise and syncSettlementToSplitwise.
FirstSync(p, l) ==
    /\ \A i \in DOMAIN links : links[i].l # l
    /\ CreateEntry(p, l, 0)

Recreate(p, i) ==
    /\ links[i].st \in {"withdrawn", "externally_deleted"}
    /\ CreateEntry(p, links[i].l, i)

\* What a repair of a row with an entry behind it starts from.
Repairable(i) ==
    /\ links[i].st = "drifted" \/ (links[i].st = "stale" /\ links[i].l \in Expenses)
    /\ Standing(links[i].entry)

Correct(p, i) ==
    /\ Repairable(i) /\ net[links[i].l] # 0
    /\ remote' = [remote EXCEPT ![links[i].entry].amount = net[links[i].l],
                                ![links[i].entry].friend = Names(links[i].l)]
    /\ Call(p, links[i].l, i, links[i].entry, "synced")

Withdraw(p, i) ==
    /\ Repairable(i) /\ net[links[i].l] = 0
    /\ remote' = [remote EXCEPT ![links[i].entry].deleted = TRUE]
    /\ Call(p, links[i].l, i, links[i].entry, "withdrawn")

\* The answer is recorded, unless it is lost or the unique index refuses it.
RecordPush(p) ==
    LET q == push[p]
        link == [l |-> q.l, st |-> q.st, entry |-> q.entry, sent |-> q.sent, snap |-> q.snap]
        others == DOMAIN links \ {q.row} IN
    /\ q.pc = "called"
    /\ \A i \in others : KindOf(links[i].l) = KindOf(q.l) => links[i].entry # q.entry
    /\ links' = IF q.row = 0 THEN Append(links, link) ELSE [links EXCEPT ![q.row] = link]
    /\ push' = [push EXCEPT ![p] = [IdlePush EXCEPT !.pc = "done"]]
    /\ Disturb
    /\ UNCHANGED <<mapped, net, within, remote, moves, edits, changes, run, decision, omitted, contested>>

LosePush(p) ==
    /\ push[p].pc = "called"
    /\ push' = [push EXCEPT ![p] = [IdlePush EXCEPT !.pc = "done"]]
    /\ UNCHANGED <<records, changes, run, decision, history>>

\* A refund, its reversal, or its distribution: the net moves and a row that was
\* in step goes stale.
MoveLedger(e, n) ==
    /\ n # net[e] /\ moves < MaxMoves
    /\ moves' = moves + 1
    /\ net' = [net EXCEPT ![e] = n]
    /\ links' = [i \in DOMAIN links |-> IF links[i].l = e /\ links[i].st = "synced"
                                        THEN [links[i] EXCEPT !.st = "stale"] ELSE links[i]]
    /\ Disturb
    /\ UNCHANGED <<mapped, within, remote, edits, changes, run, decision, push, omitted, contested>>

\* A new split of an expense brings the friend in or leaves the friend out; the row stays as it is.
Redivide(e) ==
    /\ moves < MaxMoves
    /\ moves' = moves + 1
    /\ within' = IF e \in within THEN within \ {e} ELSE within \cup {e}
    /\ Disturb
    /\ UNCHANGED <<mapped, net, links, remote, edits, changes, run, decision, push, omitted, contested>>

\* Other people.
ChangeRemote(entries) ==
    /\ edits < MaxEdits
    /\ edits' = edits + 1
    /\ remote' = entries
    /\ Disturb
    /\ UNCHANGED <<mapped, net, within, links, moves, changes, run, decision, push, omitted, contested>>

OthersAdd(kind, n) ==
    /\ Len(remote) < MaxEntries
    /\ ChangeRemote(Append(remote, [kind |-> kind, amount |-> n, friend |-> TRUE, deleted |-> FALSE]))
OthersEdit(x, n, friend) ==
    /\ Standing(x) /\ (remote[x].amount # n \/ remote[x].friend # friend)
    /\ remote[x].kind = "payment" => friend
    /\ ChangeRemote([remote EXCEPT ![x].amount = n, ![x].friend = friend])
OthersDelete(x) ==
    /\ Standing(x)
    /\ ChangeRemote([remote EXCEPT ![x].deleted = TRUE])

Next ==
    \/ \E d \in Runs : BeginRun(d) \/ ListEntries(d) \/ Compare(d) \/ Reconcile(d)
    \/ \E k \in Decisions :
         \/ \E c \in DOMAIN changes, accept \in BOOLEAN, target \in Records \cup {Nobody} :
              BeginDecision(k, c, accept, target)
         \/ Reject(k) \/ AcceptDrift(k) \/ AcceptDeletion(k) \/ AcceptAdoption(k) \/ AcceptMapping(k)
    \/ \E p \in Pushes :
         \/ \E l \in Records : FirstSync(p, l)
         \/ \E i \in DOMAIN links : Recreate(p, i) \/ Correct(p, i) \/ Withdraw(p, i)
         \/ RecordPush(p) \/ LosePush(p)
    \/ \E e \in Expenses : Redivide(e) \/ \E n \in Amounts \cup {0} : MoveLedger(e, n)
    \/ \E x \in DOMAIN remote :
         OthersDelete(x) \/ \E n \in Amounts, friend \in BOOLEAN : OthersEdit(x, n, friend)
    \/ \E kind \in {"expense", "payment"}, n \in Amounts : OthersAdd(kind, n)

Spec == Init /\ [][Next]_vars

-----------------------------------------------------------------------------
Statuses == {"synced", "drifted", "stale", "withdrawn", "externally_deleted"}

RemoteTypeOK ==
    /\ mapped \in BOOLEAN /\ net \in [Records -> Amounts \cup {0}] /\ within \in SUBSET Expenses
    /\ \A i \in DOMAIN links :
         /\ links[i].l \in Records /\ links[i].entry \in DOMAIN remote
         /\ links[i].st \in IF links[i].l \in Expenses THEN Statuses ELSE Statuses \ {"stale", "withdrawn"}
         /\ remote[links[i].entry].kind = KindOf(links[i].l)
    /\ \A i, j \in DOMAIN links : links[i].entry = links[j].entry => i = j
    /\ \A x \in DOMAIN remote : remote[x].kind = "payment" => remote[x].friend
    /\ \A i, j \in Current : Fingerprint(changes[i]) = Fingerprint(changes[j]) => i = j
    /\ \A c \in DOMAIN changes : changes[c].status \in {"proposed", "accepted", "rejected"}

\* A run finds an expense's entry gone only if it is deleted or left the friend out when the
\* run listed: whatever part of the listing it saw, and whatever pushes, adoptions and new
\* splits came between its three reads (splitwise-remote-change.ts:13-16).
AbsenceIsExplained ==
    \A d \in Runs : run[d].pc = "compared" =>
        \A f \in run[d].drafts : f.kind = "deleted" /\ f.l \in Expenses =>
            remote[f.ext].deleted \/ f.ext \in omitted[d]

\* Violated by the code.  An entry whose deletion is proposed "is gone", in the words of the
\* change (splitwise-remote-change.ts:394-398): a row that a new split made a view of the
\* friend names an entry that stands and that the friend's listing never had.
ExpenseDeletionsAreReal ==
    \A c \in DOMAIN changes :
        changes[c].kind = "deleted" /\ changes[c].l \in Expenses => remote[changes[c].ext].deleted

\* The same of a settlement's, which "is gone" in the words of the change
\* (splitwise-remote-change.ts:478).
SettlementDeletionsAreReal ==
    \A c \in DOMAIN changes :
        changes[c].kind = "deleted" /\ changes[c].l \in Settlements => remote[changes[c].ext].deleted

\* A record has one link, however adoptions, first syncs and re-created entries follow each
\* other, unless two adoptions or first syncs of it were in hand at once: nothing but that race
\* makes a second one (splitwise-remote-change-service.ts:593-601).
OneLinkPerRecord ==
    \A i, j \in DOMAIN links :
        links[i].l = links[j].l /\ <<"record", links[i].l>> \notin contested => i = j

\* The effect of a change was applied once if the change is accepted and never otherwise,
\* unless two decisions of it were in hand at once (splitwise-remote-change-service.ts:300-306).
EffectHasItsDecision ==
    \A c \in DOMAIN changes : <<"change", c>> \notin contested =>
        changes[c].applied = IF changes[c].status = "accepted" THEN 1 ELSE 0

\* What is true of the pair, by kind and entry, whoever reads it: entries that are gone or
\* show another figure behind rows that concern the friend, and entries that nothing claims.
LiveRows == {i \in DOMAIN links : links[i].st \in LiveStatus(links[i].l)}
Concerns(i) == Names(links[i].l) \/ links[i].snap
Shown(x) == Standing(x) /\ remote[x].friend
Unclaimed == {x \in DOMAIN remote : Shown(x) /\ \A i \in LiveRows : links[i].entry # x}
PairTruth ==
    {<<"deleted", links[i].entry>> : i \in {j \in LiveRows : Concerns(j) /\ ~Standing(links[j].entry)}}
    \cup {<<"changed", links[i].entry>> : i \in {j \in LiveRows :
             Concerns(j) /\ Shown(links[j].entry) /\ remote[links[j].entry].amount # Ours(View(j))}}
    \cup {<<"unlinked", x>> : x \in Unclaimed}
    \cup {<<"duplicate", x>> : x \in {y \in Unclaimed :
             /\ \E z \in Unclaimed : z # y /\ remote[z] = remote[y]
             /\ \A z \in Unclaimed : remote[z] = remote[y] => y <= z}}
Truth == IF mapped THEN PairTruth ELSE {Fingerprint(UnmappedDraft)}
CurrentPrints == {Fingerprint(changes[i]) : i \in Current}

\* Every entry that stands behind a live row names the friend exactly if the row concerns the
\* friend: no split, and no edit of other people, moved one without the other.
InStep ==
    \A i \in LiveRows : Standing(links[i].entry) => (Concerns(i) <=> remote[links[i].entry].friend)

\* A run during which nothing else moved keeps the true changes that are current, and after a
\* complete one every difference is current: what was missed, decided, superseded or retired
\* before does not matter.  As long as splits and entries agree on who takes part, nothing else
\* is.  (Otherwise a claimed entry may pass for the first of a set of duplicates.)
RunsConvergeOnTheTruth ==
    [][\A d \in Runs :
         run[d].pc = "compared" /\ run'[d].pc = "done" /\ clean[d] =>
             /\ ~run[d].complete => Truth \cap CurrentPrints \subseteq CurrentPrints'
             /\ run[d].complete \/ ~mapped =>
                    {t \in Truth : t[1] # "duplicate"} \subseteq CurrentPrints'
             /\ (run[d].complete /\ InStep) \/ ~mapped => CurrentPrints' = Truth \cup
                    IF mapped THEN {} ELSE CurrentPrints \ {Fingerprint(UnmappedDraft)}]_vars
=============================================================================
