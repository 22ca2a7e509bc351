--------------------- MODULE SplitwiseRemoteChanges_proof ---------------------
(***************************************************************************)
(* Proofs about SplitwiseRemoteChanges, for any number of records, runs,   *)
(* decisions, pushes and entries.  What a run read is old when it is used: *)
(* the invariant says of every stage what is still true of it whatever the *)
(* others did since, and what more is true when nothing else moved.        *)
(***************************************************************************)
EXTENDS SplitwiseRemoteChanges, FiniteSetTheorems, TLAPS

-----------------------------------------------------------------------------
(* The inductive invariant *)

Kinds == {"deleted", "changed", "unlinked", "duplicate", "unmapped"}
StatusesOf(l) == IF l \in Expenses THEN Statuses ELSE Statuses \ {"stale", "withdrawn"}
Figures == Amounts \cup {0}

Entry == [kind : {"expense", "payment"}, amount : Figures, friend : BOOLEAN, deleted : BOOLEAN]
LinkRow == [l : Records, st : Statuses, entry : Nat, sent : Figures, snap : BOOLEAN]

\* The ledger, its links and Splitwise.
RecordsOK ==
    /\ mapped \in BOOLEAN /\ net \in [Records -> Figures] /\ within \in SUBSET Expenses
    /\ \A s \in Settlements : net[s] # 0
    /\ remote \in Seq(Entry) /\ links \in Seq(LinkRow)
    /\ \A x \in DOMAIN remote : remote[x].kind = "payment" => remote[x].friend

LinksOK ==
    /\ \A i \in DOMAIN links :
         /\ links[i].entry \in DOMAIN remote
         /\ links[i].st \in StatusesOf(links[i].l)
         /\ remote[links[i].entry].kind = KindOf(links[i].l)
    /\ \A i, j \in DOMAIN links : links[i].entry = links[j].entry => i = j

\* What a push asked for is still of the entry and of the row it goes to.
PushOK(q) ==
    q.pc = "called" =>
        /\ q.l \in Records /\ q.sent \in Figures /\ q.snap \in BOOLEAN
        /\ q.entry \in DOMAIN remote /\ remote[q.entry].kind = KindOf(q.l)
        /\ q.row = 0 \/ (q.row \in DOMAIN links /\ links[q.row].l = q.l)
        /\ q.st \in {"synced"} \cup IF q.l \in Expenses THEN {"withdrawn"} ELSE {}

\* A view taken earlier: its row and its entry are there, the status may be old.
ViewOK(v) ==
    /\ v.row \in DOMAIN links /\ v.l = links[v.row].l
    /\ v.entry \in DOMAIN remote /\ remote[v.entry].kind = KindOf(v.l)

SeenOK(seen) ==
    \A x \in DOMAIN seen :
        /\ x \in DOMAIN remote /\ seen[x].kind = remote[x].kind
        /\ seen[x].deleted => remote[x].deleted

\* What a change says of its entry and of its row, whenever it is read.
DraftOK(f) ==
    /\ f.kind \in Kinds
    /\ f.kind \in {"deleted", "changed"} =>
           f.row \in DOMAIN links /\ f.l = links[f.row].l
    /\ f.kind = "deleted" => f.ext \in DOMAIN remote
    /\ f.kind = "unlinked" =>
           /\ f.ext \in DOMAIN remote
           /\ \E s \in f.rem : s[2].kind = remote[f.ext].kind
    /\ f.kind = "unmapped" => f.ext = 0

OnePerPrint(fs) == \A f, g \in fs : Fingerprint(f) = Fingerprint(g) => f = g

RunShape(r) ==
    r = [pc |-> r.pc, paired |-> r.paired, views |-> r.views, seen |-> r.seen,
         complete |-> r.complete, known |-> r.known, drafts |-> r.drafts]

\* An entry is away: deleted, or one of those that left the friend out.
Away(x, o) == remote[x].deleted \/ x \in o

RunOK(r, o) ==
    /\ RunShape(r)
    /\ r.pc \in {"idle", "begun", "listed", "compared", "done"}
    /\ r.paired \in BOOLEAN /\ r.complete \in BOOLEAN
    /\ IsFiniteSet(r.views) /\ IsFiniteSet(DOMAIN r.seen) /\ IsFiniteSet(r.drafts)
    /\ \A v \in r.views : ViewOK(v) /\ v.l \in Expenses
    /\ \A v, w \in r.views : v.entry = w.entry => v = w
    /\ SeenOK(r.seen)
    /\ r.pc = "begun" => r.paired /\ r.complete = FALSE /\ r.drafts = {}
    /\ \A v \in r.views : r.complete /\ v.entry \notin DOMAIN r.seen => Away(v.entry, o)
    /\ \A f \in r.drafts : DraftOK(f)
    /\ \A f \in r.drafts : f.kind = "deleted" /\ f.l \in Expenses => Away(f.ext, o)
    /\ OnePerPrint(r.drafts)
    /\ r.known \subseteq DOMAIN changes

ChangeShape(c) ==
    c = [kind |-> c.kind, ext |-> c.ext, l |-> c.l, row |-> c.row, loc |-> c.loc, rem |-> c.rem,
         status |-> c.status, current |-> c.current, applied |-> c.applied]

ChangesOK ==
    /\ changes = [i \in 1 .. Len(changes) |-> changes[i]] /\ Len(changes) \in Nat
    /\ \A i \in DOMAIN changes :
         /\ ChangeShape(changes[i]) /\ DraftOK(changes[i])
         /\ changes[i].status \in {"proposed", "accepted", "rejected"}
         /\ changes[i].current \in BOOLEAN /\ changes[i].applied \in Nat
    /\ \A i, j \in Current : Fingerprint(changes[i]) = Fingerprint(changes[j]) => i = j

DecisionOK(g) ==
    /\ g = [pc |-> g.pc, c |-> g.c, accept |-> g.accept, target |-> g.target]
    /\ g.pc = "checked" =>
         /\ g.c \in DOMAIN changes
         /\ g.accept /\ changes[g.c].kind = "unlinked" =>
                g.target \in Records /\ remote[changes[g.c].ext].kind = KindOf(g.target)

RemoteInv ==
    /\ RecordsOK /\ LinksOK /\ ChangesOK
    /\ push = [p \in Pushes |-> push[p]] /\ \A p \in Pushes : PushOK(push[p])
    /\ run = [d \in Runs |-> run[d]] /\ \A d \in Runs : RunOK(run[d], omitted[d])
    /\ omitted = [d \in Runs |-> omitted[d]]
    /\ decision = [k \in Decisions |-> decision[k]] /\ \A k \in Decisions : DecisionOK(decision[k])

\* Every difference but the duplicates is there and, while rows and entries are in
\* step, nothing else is.
SaysTheTruth(prints) ==
    /\ {t \in Truth : t[1] # "duplicate"} \subseteq prints
    /\ InStep => prints = Truth

\* What a run read is what stands, as long as nothing else moved.
CleanOK(d) ==
    clean[d] =>
        LET r == run[d] IN
        /\ r.pc \in {"begun", "listed", "compared"} => r.paired = mapped
        /\ r.pc \in {"begun", "listed"} => r.views = ViewsOf(Expenses)
        /\ r.pc = "listed" /\ r.paired =>
             /\ \A x \in DOMAIN r.seen : x \in DOMAIN remote /\ remote[x].friend /\ r.seen[x] = remote[x]
             /\ r.complete => \A x \in DOMAIN remote : Shown(x) => x \in DOMAIN r.seen
        /\ r.pc = "compared" =>
             /\ r.known = Current
             /\ r.paired => \A f \in r.drafts : f.kind # "unmapped"
             /\ r.paired /\ r.complete => SaysTheTruth({Fingerprint(f) : f \in r.drafts})
             /\ ~r.paired => r.drafts = {UnmappedDraft}

CleanInv == clean \in [Runs -> BOOLEAN] /\ \A d \in Runs : CleanOK(d)

\* Two decisions of one change, and two adoptions or first syncs of one record, are
\* contested; what the others found is still so.
Checked(k) == decision[k].pc = "checked"
Opens(p) == push[p].pc = "called" /\ push[p].row = 0
Free(l) == \A i \in DOMAIN links : links[i].l # l

Apart ==
    /\ \A k, m \in Decisions : Checked(k) /\ Checked(m) /\ k # m =>
         /\ decision[k].c = decision[m].c => <<"change", decision[k].c>> \in contested
         /\ decision[k].target = decision[m].target => <<"record", decision[k].target>> \in contested
    /\ \A p, q \in Pushes : Opens(p) /\ Opens(q) /\ p # q =>
         (push[p].l = push[q].l => <<"record", push[p].l>> \in contested)
    /\ \A k \in Decisions, p \in Pushes : Checked(k) /\ Opens(p) =>
         (decision[k].target = push[p].l => <<"record", push[p].l>> \in contested)

Found ==
    /\ \A k \in Decisions : Checked(k) =>
         /\ <<"change", decision[k].c>> \notin contested => changes[decision[k].c].status = "proposed"
         /\ decision[k].accept /\ changes[decision[k].c].kind = "unlinked"
                /\ <<"record", decision[k].target>> \notin contested => Free(decision[k].target)
    /\ \A p \in Pushes : Opens(p) /\ <<"record", push[p].l>> \notin contested => Free(push[p].l)

WorkInv == OneLinkPerRecord /\ EffectHasItsDecision /\ Apart /\ Found

-----------------------------------------------------------------------------
(* Sequences and finite sets *)

\* The image of a finite set is finite.
LEMMA FiniteImage ==
  ASSUME NEW S, IsFiniteSet(S), NEW f, f = [x \in S |-> f[x]]
  PROVE  IsFiniteSet({f[x] : x \in S})
<1> DEFINE T == {f[x] : x \in S}
<1>1. f \in [S -> T]
  <2>1. \A x \in S : f[x] \in T
    OBVIOUS
  <2> QED BY <2>1
<1>2. f \in Surjection(S, T)
  BY <1>1 DEF Surjection
<1> QED BY <1>2, FS_Surjection

\* One sequence after another, place by place.
LEMMA Concatenation ==
  ASSUME NEW m \in Nat, NEW n \in Nat, NEW s, NEW t,
         s = [i \in 1 .. m |-> s[i]], t = [i \in 1 .. n |-> t[i]]
  PROVE  /\ Len(s) = m /\ Len(t) = n
         /\ Len(s \o t) = m + n /\ DOMAIN (s \o t) = 1 .. (m + n)
         /\ s \o t = [i \in 1 .. Len(s \o t) |-> (s \o t)[i]]
         /\ \A i \in 1 .. m : (s \o t)[i] = s[i]
         /\ \A i \in 1 .. n : (s \o t)[m + i] = t[i]
         /\ \A i \in DOMAIN (s \o t) :
                i \in 1 .. m \/ (i - m \in 1 .. n /\ (s \o t)[i] = t[i - m])
<1> DEFINE S == {s[i] : i \in 1 .. m} \cup {t[i] : i \in 1 .. n}
<1>1. s \in [1 .. m -> S] /\ t \in [1 .. n -> S]
  <2>1. \A i \in 1 .. m : s[i] \in S
    OBVIOUS
  <2>2. \A i \in 1 .. n : t[i] \in S
    OBVIOUS
  <2> HIDE DEF S
  <2> QED BY <2>1, <2>2
<1> HIDE DEF S
<1>2. s \in Seq(S) /\ t \in Seq(S) /\ Len(s) = m /\ Len(t) = n
  BY <1>1
<1>3. s \o t \in Seq(S) /\ Len(s \o t) = m + n
  BY <1>2
<1> DEFINE u == s \o t
<1>4. DOMAIN u = 1 .. (m + n) /\ u = [i \in 1 .. Len(u) |-> u[i]]
  <2> HIDE DEF u
  <2> QED BY <1>3 DEF u
<1>5. \A i \in 1 .. m : u[i] = s[i]
  BY <1>2
<1>6. \A i \in 1 .. n : u[m + i] = t[i]
  BY <1>2
<1>7. \A i \in 1 .. (m + n) : i \in 1 .. m \/ (i - m \in 1 .. n /\ m + (i - m) = i)
  OBVIOUS
<1> QED BY <1>2, <1>3, <1>4, <1>5, <1>6, <1>7

\* SetToSeq lists every element of a finite set once.
LEMMA Listing ==
  ASSUME NEW S, IsFiniteSet(S)
  PROVE  /\ Cardinality(S) \in Nat
         /\ SetToSeq(S) \in [1 .. Cardinality(S) -> S]
         /\ \A i, j \in 1 .. Cardinality(S) : SetToSeq(S)[i] = SetToSeq(S)[j] => i = j
         /\ \A x \in S : \E i \in 1 .. Cardinality(S) : SetToSeq(S)[i] = x
<1> DEFINE n == Cardinality(S)
<1>1. n \in Nat /\ ExistsBijection(1 .. n, S)
  BY FS_CardinalityType
<1>2. \E f \in [1 .. n -> S] : IsInjective(f)
  BY <1>1 DEF ExistsBijection, Bijection, Injection
<1>3. SetToSeq(S) \in [1 .. n -> S] /\ IsInjective(SetToSeq(S))
  BY <1>2 DEF SetToSeq
<1> DEFINE f == SetToSeq(S)
<1>4. \A i, j \in 1 .. n : f[i] = f[j] => i = j
  BY <1>3 DEF IsInjective
<1>5. \A x \in S : \E i \in 1 .. n : f[i] = x
  <2>1. f \in Injection(1 .. n, S)
    BY <1>3 DEF Injection
  <2>2. IsFiniteSet(1 .. n) /\ Cardinality(1 .. n) = n
    BY <1>1, FS_Interval
  <2>3. f \in Surjection(1 .. n, S)
    <3> HIDE DEF f
    <3> QED BY <2>1, <2>2, FS_Injection
  <2> HIDE DEF f, n
  <2> QED BY <2>3 DEF Surjection
<1> QED BY <1>1, <1>3, <1>4, <1>5

-----------------------------------------------------------------------------
(* What no step takes back *)

\* Rows keep their record; entries stay, keep their kind and stay deleted.
Grows ==
    /\ \A i \in DOMAIN links : i \in DOMAIN links' /\ links'[i].l = links[i].l
    /\ \A x \in DOMAIN remote :
         /\ x \in DOMAIN remote' /\ remote'[x].kind = remote[x].kind
         /\ remote[x].deleted => remote'[x].deleted

\* A change keeps its comparison.
Persist ==
    \A i \in DOMAIN changes :
        /\ i \in DOMAIN changes'
        /\ changes'[i].kind = changes[i].kind /\ changes'[i].ext = changes[i].ext
        /\ changes'[i].l = changes[i].l /\ changes'[i].row = changes[i].row
        /\ changes'[i].loc = changes[i].loc /\ changes'[i].rem = changes[i].rem

\* A run that is left alone may rely on what it read as before.
LEMMA RunKept ==
  ASSUME Grows, Persist, NEW d \in Runs, RunOK(run[d], omitted[d]), run'[d] = run[d], omitted'[d] = omitted[d]
  PROVE  RunOK(run[d], omitted[d])'
<1> DEFINE r == run[d]
<1>1. RunOK(r, omitted[d])
  OBVIOUS
<1>2. \A v \in r.views : ViewOK(v)' /\ v.l \in Expenses
  <2> TAKE v \in r.views
  <2>1. ViewOK(v) /\ v.l \in Expenses
    BY <1>1 DEF RunOK
  <2> QED BY <2>1 DEF ViewOK, Grows
<1>3. SeenOK(run[d].seen)'
  BY <1>1 DEF SeenOK, Grows, RunOK
<1>4. \A v \in r.views : r.complete /\ v.entry \notin DOMAIN r.seen => Away(v.entry, omitted[d])'
  <2> TAKE v \in r.views
  <2>1. /\ v.entry \in DOMAIN remote
        /\ r.complete /\ v.entry \notin DOMAIN r.seen => Away(v.entry, omitted[d])
    BY <1>1 DEF RunOK, ViewOK
  <2> QED BY <2>1 DEF Grows, Away
<1>5. \A f \in r.drafts :
        DraftOK(f)' /\ (f.kind = "deleted" /\ f.l \in Expenses => Away(f.ext, omitted[d])')
  <2> TAKE f \in r.drafts
  <2>1. DraftOK(f) /\ (f.kind = "deleted" /\ f.l \in Expenses => Away(f.ext, omitted[d]))
    BY <1>1 DEF RunOK
  <2> QED BY <2>1 DEF DraftOK, Grows, Away
<1>6. r.known \subseteq DOMAIN changes'
  BY <1>1 DEF RunOK, Persist
<1> QED BY <1>1, <1>2, <1>3, <1>4, <1>5, <1>6 DEF RunOK, RunShape, OnePerPrint

\* A push that was called still fits its row and its entry.
LEMMA PushKept ==
  ASSUME Grows, NEW p \in Pushes, PushOK(push[p]), push'[p] = push[p]
  PROVE  PushOK(push[p])'
BY DEF PushOK, Grows

\* A decision that was checked still fits its change.
LEMMA DecisionKept ==
  ASSUME Grows, Persist, ChangesOK, NEW k \in Decisions,
         DecisionOK(decision[k]), decision'[k] = decision[k]
  PROVE  DecisionOK(decision[k])'
<1> DEFINE g == decision[k]
<1>1. CASE g.pc # "checked"
  BY <1>1 DEF DecisionOK
<1>2. CASE g.pc = "checked"
  <2>1. g.c \in DOMAIN changes /\ DraftOK(changes[g.c])
    BY <1>2 DEF DecisionOK, ChangesOK
  <2> QED BY <1>2, <2>1 DEF DecisionOK, Persist, Grows, DraftOK
<1> QED BY <1>1, <1>2

\* Changes still say what is so when only the world grew.
LEMMA ChangesKept ==
  ASSUME Grows, ChangesOK, UNCHANGED changes
  PROVE  ChangesOK'
<1>1. \A i \in DOMAIN changes : DraftOK(changes[i])'
  <2> TAKE i \in DOMAIN changes
  <2>1. DraftOK(changes[i])
    BY DEF ChangesOK
  <2> QED BY <2>1 DEF DraftOK, Grows
<1> QED BY <1>1 DEF ChangesOK, Current, ChangeShape

\* A step that leaves the changes and the requests alone.
LEMMA WorldMoves ==
  ASSUME RemoteInv, Grows, RecordsOK', LinksOK', UNCHANGED <<changes, run, decision, omitted>>
  PROVE  /\ ChangesOK' /\ omitted' = [d \in Runs |-> omitted'[d]]
         /\ run' = [d \in Runs |-> run'[d]] /\ \A d \in Runs : RunOK(run[d], omitted[d])'
         /\ decision' = [k \in Decisions |-> decision'[k]]
         /\ \A k \in Decisions : DecisionOK(decision[k])'
<1>1. Persist
  BY DEF Persist
<1>2. ChangesOK'
  BY ChangesKept DEF RemoteInv
<1>3. \A d \in Runs : RunOK(run[d], omitted[d])'
  BY <1>1, RunKept DEF RemoteInv
<1>4. \A k \in Decisions : DecisionOK(decision[k])'
  BY <1>1, DecisionKept DEF RemoteInv
<1> QED BY <1>2, <1>3, <1>4 DEF RemoteInv

-----------------------------------------------------------------------------
(* What the steps do to the ledger, its links and Splitwise *)

\* Nothing of the ledger or of Splitwise moved.
LEMMA RecordsStand ==
  ASSUME RecordsOK, LinksOK, UNCHANGED records
  PROVE  RecordsOK' /\ LinksOK' /\ Grows
BY DEF records, RecordsOK, LinksOK, Grows, StatusesOf, KindOf

\* One row gets a status of its record.
LEMMA RowMarked ==
  ASSUME RecordsOK, LinksOK, NEW i \in DOMAIN links, NEW st \in StatusesOf(links[i].l),
         links' = [links EXCEPT ![i].st = st], UNCHANGED <<mapped, net, within, remote>>
  PROVE  RecordsOK' /\ LinksOK' /\ Grows
<1>1. links \in Seq(LinkRow) /\ links[i] \in LinkRow /\ st \in Statuses
  BY DEF RecordsOK, StatusesOf, Statuses
<1>2. links' \in Seq(LinkRow) /\ DOMAIN links' = DOMAIN links
  <2> DEFINE row == [links[i] EXCEPT !.st = st]
  <2>1. row \in LinkRow
    BY <1>1 DEF LinkRow
  <2>2. links' = [links EXCEPT ![i] = row]
    OBVIOUS
  <2> HIDE DEF row
  <2> QED BY <1>1, <2>1, <2>2
<1>3. \A j \in DOMAIN links :
        /\ links'[j].l = links[j].l /\ links'[j].entry = links[j].entry
        /\ links'[j].st = IF j = i THEN st ELSE links[j].st
  BY <1>1 DEF LinkRow
<1>4. RecordsOK' /\ Grows
  BY <1>2, <1>3 DEF RecordsOK, Grows
<1>5. LinksOK'
  BY <1>2, <1>3 DEF LinksOK, StatusesOf, KindOf
<1> QED BY <1>4, <1>5

\* A row is added for an entry that no row of its kind has.
LEMMA RowAdded ==
  ASSUME RecordsOK, LinksOK, NEW row \in LinkRow,
         row.entry \in DOMAIN remote, remote[row.entry].kind = KindOf(row.l),
         row.st \in StatusesOf(row.l), ~Claimed(row.l, row.entry),
         links' = Append(links, row), UNCHANGED <<mapped, net, within, remote>>
  PROVE  RecordsOK' /\ LinksOK' /\ Grows
<1>1. links \in Seq(LinkRow)
  BY DEF RecordsOK
<1> DEFINE n == Len(links)
<1>2. /\ n \in Nat /\ DOMAIN links = 1 .. n
      /\ links' \in Seq(LinkRow) /\ DOMAIN links' = 1 .. (n + 1)
      /\ links'[n + 1] = row /\ \A j \in 1 .. n : links'[j] = links[j]
  BY <1>1
<1> HIDE DEF n
<1>3. RecordsOK' /\ Grows
  BY <1>2 DEF RecordsOK, Grows
<1>4. \A j \in 1 .. n : links[j].entry # row.entry
  BY <1>2 DEF LinksOK, Claimed
<1>5. \A j \in 1 .. (n + 1) : j \in 1 .. n \/ j = n + 1
  BY <1>2
<1>6. LinksOK'
  <2>1. \A j \in DOMAIN links' :
          /\ links'[j].entry \in DOMAIN remote
          /\ links'[j].st \in StatusesOf(links'[j].l)
          /\ remote[links'[j].entry].kind = KindOf(links'[j].l)
    BY <1>2, <1>5 DEF LinksOK
  <2>2. ASSUME NEW i \in DOMAIN links', NEW j \in DOMAIN links', links'[i].entry = links'[j].entry
        PROVE  i = j
    BY <1>2, <1>4, <1>5, <2>2 DEF LinksOK
  <2> QED BY <2>1, <2>2 DEF LinksOK, StatusesOf, KindOf
<1> QED BY <1>3, <1>6

\* A row is overwritten by one of its record, for an entry that no other row has.
LEMMA RowReplaced ==
  ASSUME RecordsOK, LinksOK, NEW i \in DOMAIN links, NEW row \in LinkRow, row.l = links[i].l,
         row.entry \in DOMAIN remote, remote[row.entry].kind = KindOf(row.l),
         row.st \in StatusesOf(row.l),
         \A j \in DOMAIN links \ {i} : KindOf(links[j].l) = KindOf(row.l) => links[j].entry # row.entry,
         links' = [links EXCEPT ![i] = row], UNCHANGED <<mapped, net, within, remote>>
  PROVE  RecordsOK' /\ LinksOK' /\ Grows
<1>1. links \in Seq(LinkRow)
  BY DEF RecordsOK
<1>2. /\ links' \in Seq(LinkRow) /\ DOMAIN links' = DOMAIN links
      /\ links'[i] = row /\ \A j \in DOMAIN links : j # i => links'[j] = links[j]
  BY <1>1
<1>3. RecordsOK' /\ Grows
  BY <1>2 DEF RecordsOK, Grows
<1>4. \A j \in DOMAIN links : j # i => links[j].entry # row.entry
  BY DEF LinksOK
<1>5. LinksOK'
  <2>1. \A j \in DOMAIN links' :
          /\ links'[j].entry \in DOMAIN remote
          /\ links'[j].st \in StatusesOf(links'[j].l)
          /\ remote[links'[j].entry].kind = KindOf(links'[j].l)
    BY <1>2 DEF LinksOK
  <2>2. ASSUME NEW h \in DOMAIN links', NEW j \in DOMAIN links', links'[h].entry = links'[j].entry
        PROVE  h = j
    BY <1>2, <1>4, <2>2 DEF LinksOK
  <2> QED BY <2>1, <2>2 DEF LinksOK, StatusesOf, KindOf
<1> QED BY <1>3, <1>5

\* Splitwise gets an entry more.
LEMMA EntryAdded ==
  ASSUME RecordsOK, LinksOK, NEW e \in Entry, remote' = Append(remote, e),
         e.kind = "payment" => e.friend,
         UNCHANGED <<mapped, net, within, links>>
  PROVE  /\ RecordsOK' /\ LinksOK' /\ Grows
         /\ Len(remote) + 1 \in DOMAIN remote' /\ remote'[Len(remote) + 1] = e
<1>1. remote \in Seq(Entry)
  BY DEF RecordsOK
<1> DEFINE n == Len(remote)
<1>2. /\ n \in Nat /\ DOMAIN remote = 1 .. n
      /\ remote' \in Seq(Entry) /\ DOMAIN remote' = 1 .. (n + 1)
      /\ remote'[n + 1] = e /\ \A x \in 1 .. n : remote'[x] = remote[x]
  BY <1>1
<1> HIDE DEF n
<1>3. RecordsOK' /\ Grows
  BY <1>2 DEF RecordsOK, Grows
<1>4. LinksOK'
  BY <1>2 DEF LinksOK, StatusesOf, KindOf
<1>5. n + 1 \in DOMAIN remote'
  BY <1>2
<1> QED BY <1>2, <1>3, <1>4, <1>5 DEF n

\* An entry is edited or deleted.
LEMMA EntryChanged ==
  ASSUME RecordsOK, LinksOK, NEW x \in DOMAIN remote, NEW e \in Entry,
         e.kind = remote[x].kind, remote[x].deleted => e.deleted,
         e.kind = "payment" => e.friend,
         remote' = [remote EXCEPT ![x] = e],
         UNCHANGED <<mapped, net, within, links>>
  PROVE  RecordsOK' /\ LinksOK' /\ Grows
<1>1. remote \in Seq(Entry)
  BY DEF RecordsOK
<1>2. /\ remote' \in Seq(Entry) /\ DOMAIN remote' = DOMAIN remote
      /\ remote'[x] = e /\ \A y \in DOMAIN remote : y # x => remote'[y] = remote[y]
  BY <1>1
<1>3. RecordsOK' /\ Grows
  BY <1>2 DEF RecordsOK, Grows
<1>4. LinksOK'
  BY <1>2 DEF LinksOK, StatusesOf, KindOf
<1> QED BY <1>3, <1>4

LEMMA EntryIs ==
  ASSUME RecordsOK, NEW x \in DOMAIN remote
  PROVE  remote[x] \in Entry /\ (remote[x].kind = "payment" => remote[x].friend)
<1>1. remote \in Seq(Entry) /\ (remote[x].kind = "payment" => remote[x].friend)
  BY DEF RecordsOK
<1>2. remote[x] \in Entry
  BY <1>1
<1> QED BY <1>1, <1>2

\* The same of an edit of the figure and of who takes part, and of a deletion.
LEMMA Edited ==
  ASSUME RecordsOK, LinksOK, NEW x \in DOMAIN remote,
         \/ \E n \in Figures, b \in BOOLEAN :
              /\ remote' = [remote EXCEPT ![x].amount = n, ![x].friend = b]
              /\ remote[x].kind = "payment" => b
         \/ remote' = [remote EXCEPT ![x].deleted = TRUE],
         UNCHANGED <<mapped, net, within, links>>
  PROVE  RecordsOK' /\ LinksOK' /\ Grows
<1>1. remote[x] \in Entry /\ (remote[x].kind = "payment" => remote[x].friend)
  BY EntryIs
<1>2. ASSUME NEW n \in Figures, NEW b \in BOOLEAN, remote[x].kind = "payment" => b,
             remote' = [remote EXCEPT ![x].amount = n, ![x].friend = b]
      PROVE  RecordsOK' /\ LinksOK' /\ Grows
  <2> DEFINE e == [[remote[x] EXCEPT !.amount = n] EXCEPT !.friend = b]
  <2>1. /\ e \in Entry /\ e.kind = remote[x].kind /\ e.deleted = remote[x].deleted
        /\ e.kind = "payment" => e.friend
    BY <1>1, <1>2 DEF Entry
  <2>2. remote' = [remote EXCEPT ![x] = e]
    BY <1>2
  <2> HIDE DEF e
  <2> QED BY <2>1, <2>2, EntryChanged
<1>3. CASE remote' = [remote EXCEPT ![x].deleted = TRUE]
  <2> DEFINE e == [remote[x] EXCEPT !.deleted = TRUE]
  <2>1. e \in Entry /\ e.kind = remote[x].kind /\ e.deleted /\ (e.kind = "payment" => e.friend)
    BY <1>1 DEF Entry
  <2>2. remote' = [remote EXCEPT ![x] = e]
    BY <1>3
  <2> HIDE DEF e
  <2> QED BY <2>1, <2>2, EntryChanged
<1> QED BY <1>2, <1>3

\* The ledger moves, or other people do.
LEMMA MoveLedgerStep ==
  ASSUME RemoteInv, NEW e \in Expenses, NEW n \in Figures, MoveLedger(e, n)
  PROVE  RemoteInv'
<1>1. RecordsOK /\ LinksOK
  BY DEF RemoteInv
<1>2. links \in Seq(LinkRow)
  BY <1>1 DEF RecordsOK
<1>3. /\ links' \in Seq(LinkRow) /\ DOMAIN links' = DOMAIN links
      /\ \A i \in DOMAIN links :
           /\ links'[i].l = links[i].l /\ links'[i].entry = links[i].entry
           /\ links'[i].st = links[i].st \/ (links[i].l \in Expenses /\ links'[i].st = "stale")
  <2>1. \A i \in DOMAIN links :
          /\ links'[i] \in LinkRow
          /\ links'[i].l = links[i].l /\ links'[i].entry = links[i].entry
          /\ links'[i].st = links[i].st \/ (links[i].l \in Expenses /\ links'[i].st = "stale")
    <3> TAKE i \in DOMAIN links
    <3>1. links[i] \in LinkRow
      BY <1>2
    <3>2. CASE links[i].l = e /\ links[i].st = "synced"
      <4>1. links'[i] = [links[i] EXCEPT !.st = "stale"]
        BY <3>2 DEF MoveLedger
      <4> QED BY <3>1, <3>2, <4>1 DEF LinkRow, Statuses
    <3>3. CASE ~(links[i].l = e /\ links[i].st = "synced")
      <4>1. links'[i] = links[i]
        BY <3>3 DEF MoveLedger
      <4> QED BY <3>1, <4>1
    <3> QED BY <3>2, <3>3
  <2>2. DOMAIN links' = DOMAIN links /\ links' = [i \in DOMAIN links |-> links'[i]]
    BY DEF MoveLedger
  <2>3. links' \in [1 .. Len(links) -> LinkRow] /\ Len(links) \in Nat
    BY <1>2, <2>1, <2>2
  <2> QED BY <2>1, <2>2, <2>3
<1>4. /\ net' \in [Records -> Figures] /\ \A s \in Settlements : net'[s] # 0
      /\ UNCHANGED <<mapped, within, remote>>
  BY <1>1, RecordsAssumption DEF MoveLedger, RecordsOK, Records
<1>5. RecordsOK' /\ Grows
  BY <1>1, <1>3, <1>4 DEF RecordsOK, Grows
<1>6. LinksOK'
  BY <1>1, <1>3, <1>4 DEF LinksOK, StatusesOf, Statuses, KindOf
<1>7. UNCHANGED <<changes, run, decision, push, omitted>>
  BY DEF MoveLedger
<1> QED BY <1>5, <1>6, <1>7, WorldMoves, PushKept DEF RemoteInv

\* An expense is split anew.
LEMMA RedivideStep ==
  ASSUME RemoteInv, NEW e \in Expenses, Redivide(e)
  PROVE  RemoteInv'
<1>1. RecordsOK /\ LinksOK /\ UNCHANGED <<mapped, net, links, remote>> /\ within' \in SUBSET Expenses
  BY DEF RemoteInv, Redivide, RecordsOK
<1>2. RecordsOK' /\ LinksOK' /\ Grows
  BY <1>1 DEF RecordsOK, LinksOK, Grows, StatusesOf, KindOf
<1>3. UNCHANGED <<changes, run, decision, push, omitted>>
  BY DEF Redivide
<1> QED BY <1>2, <1>3, WorldMoves, PushKept DEF RemoteInv

LEMMA ChangeRemoteStep ==
  ASSUME RemoteInv, NEW entries, ChangeRemote(entries), RecordsOK', LinksOK', Grows
  PROVE  RemoteInv'
<1>1. UNCHANGED <<changes, run, decision, push, omitted>>
  BY DEF ChangeRemote
<1> QED BY <1>1, WorldMoves, PushKept DEF RemoteInv

\* Other people delete, edit and add entries.
LEMMA OthersStep ==
  ASSUME RemoteInv,
         \/ \E x \in DOMAIN remote :
              OthersDelete(x) \/ \E n \in Amounts, friend \in BOOLEAN : OthersEdit(x, n, friend)
         \/ \E kind \in {"expense", "payment"}, n \in Amounts : OthersAdd(kind, n)
  PROVE  RemoteInv'
<1>1. RecordsOK /\ LinksOK
  BY DEF RemoteInv
<1>2. ASSUME NEW x \in DOMAIN remote, OthersDelete(x)
      PROVE  RemoteInv'
  <2>1. /\ remote' = [remote EXCEPT ![x].deleted = TRUE]
        /\ UNCHANGED <<mapped, net, within, links>>
    BY <1>1, <1>2 DEF OthersDelete, ChangeRemote, RecordsOK
  <2>2. RecordsOK' /\ LinksOK' /\ Grows
    BY <1>1, <2>1, Edited
  <2> QED BY <1>2, <2>2, ChangeRemoteStep DEF OthersDelete
<1>3. ASSUME NEW x \in DOMAIN remote, NEW n \in Amounts, NEW friend \in BOOLEAN, OthersEdit(x, n, friend)
      PROVE  RemoteInv'
  <2>1. /\ remote' = [remote EXCEPT ![x].amount = n, ![x].friend = friend] /\ n \in Figures
        /\ remote[x].kind = "payment" => friend
        /\ UNCHANGED <<mapped, net, within, links>>
    BY <1>1, <1>3 DEF OthersEdit, ChangeRemote, RecordsOK, Figures
  <2>2. RecordsOK' /\ LinksOK' /\ Grows
    BY <1>1, <2>1, Edited
  <2> QED BY <1>3, <2>2, ChangeRemoteStep DEF OthersEdit
<1>4. ASSUME NEW kind \in {"expense", "payment"}, NEW n \in Amounts, OthersAdd(kind, n)
      PROVE  RemoteInv'
  <2> DEFINE e == [kind |-> kind, amount |-> n, friend |-> TRUE, deleted |-> FALSE]
  <2>1. e \in Entry /\ e.friend
    BY DEF Entry, Figures
  <2>2. /\ remote' = Append(remote, e)
        /\ UNCHANGED <<mapped, net, within, links>>
    BY <1>1, <1>4 DEF OthersAdd, ChangeRemote, RecordsOK
  <2>3. RecordsOK' /\ LinksOK' /\ Grows
    <3> HIDE DEF e
    <3> QED BY <1>1, <2>1, <2>2, EntryAdded
  <2> QED BY <1>4, <2>3, ChangeRemoteStep DEF OthersAdd
<1> QED BY <1>2, <1>3, <1>4

\* A push asks for something.
LEMMA CallStep ==
  ASSUME RemoteInv, NEW p \in Pushes, NEW l \in Records, NEW i, NEW entry, NEW st,
         Call(p, l, i, entry, st), RecordsOK', LinksOK', Grows,
         entry \in DOMAIN remote', remote'[entry].kind = KindOf(l),
         i = 0 \/ (i \in DOMAIN links /\ links[i].l = l),
         st \in {"synced"} \cup IF l \in Expenses THEN {"withdrawn"} ELSE {}
  PROVE  RemoteInv'
<1> DEFINE q == [pc |-> "called", l |-> l, row |-> i, entry |-> entry, st |-> st, sent |-> net[l],
                 snap |-> Names(l)]
<1>1. /\ push' = [push EXCEPT ![p] = q] /\ UNCHANGED <<changes, run, decision, links, omitted>>
      /\ push = [o \in Pushes |-> push[o]]
  BY DEF Call, RemoteInv
<1>2. net[l] \in Figures /\ Names(l) \in BOOLEAN
  BY DEF RemoteInv, RecordsOK, Names
<1>3. \A o \in Pushes : PushOK(push[o])'
  <2> TAKE o \in Pushes
  <2>1. CASE o = p
    <3>1. push'[o] = q
      BY <1>1, <2>1
    <3> QED BY <1>1, <1>2, <3>1 DEF PushOK, KindOf
  <2>2. CASE o # p
    <3>1. push'[o] = push[o] /\ PushOK(push[o])
      BY <1>1, <2>2 DEF RemoteInv
    <3> QED BY <3>1, PushKept
  <2> QED BY <2>1, <2>2
<1>4. push' = [o \in Pushes |-> push'[o]]
  <2> HIDE DEF q
  <2> QED BY <1>1
<1>5. UNCHANGED <<changes, run, decision, omitted>>
  BY <1>1
<1> QED BY <1>3, <1>4, <1>5, WorldMoves DEF RemoteInv

\* A push creates an entry for a record.
LEMMA CreateEntryStep ==
  ASSUME RemoteInv, NEW p \in Pushes, NEW l \in Records, NEW i, CreateEntry(p, l, i),
         i = 0 \/ (i \in DOMAIN links /\ links[i].l = l)
  PROVE  RemoteInv'
<1> DEFINE e == [kind |-> KindOf(l), amount |-> net[l], friend |-> Names(l), deleted |-> FALSE]
<1>1. RecordsOK /\ LinksOK
  BY DEF RemoteInv
<1>2. e \in Entry /\ e.kind = KindOf(l) /\ (e.kind = "payment" => e.friend)
  <2>1. Names(l) \in BOOLEAN /\ (KindOf(l) = "payment" => Names(l))
    BY DEF Names, KindOf, Records
  <2> QED BY <1>1, <2>1 DEF RecordsOK, Entry, KindOf
<1>3. /\ remote' = Append(remote, e) /\ UNCHANGED <<mapped, net, within, links>>
      /\ Call(p, l, i, Len(remote) + 1, "synced")
  BY <1>1 DEF CreateEntry, Call, RecordsOK
<1> HIDE DEF e
<1>4. /\ RecordsOK' /\ LinksOK' /\ Grows
      /\ Len(remote) + 1 \in DOMAIN remote' /\ remote'[Len(remote) + 1] = e
  BY <1>1, <1>2, <1>3, EntryAdded
<1> DEFINE x == Len(remote) + 1
<1>5. Call(p, l, i, x, "synced") /\ x \in DOMAIN remote' /\ remote'[x].kind = KindOf(l)
  BY <1>2, <1>3, <1>4
<1> HIDE DEF x
<1>6. "synced" \in {"synced"} \cup IF l \in Expenses THEN {"withdrawn"} ELSE {}
  OBVIOUS
<1> QED BY <1>4, <1>5, <1>6, CallStep

\* First syncs, re-created entries, corrections and withdrawals.
LEMMA PushBegins ==
  ASSUME RemoteInv, NEW p \in Pushes,
         \/ \E l \in Records : FirstSync(p, l)
         \/ \E i \in DOMAIN links : Recreate(p, i) \/ Correct(p, i) \/ Withdraw(p, i)
  PROVE  RemoteInv'
<1>1. RecordsOK /\ LinksOK
  BY DEF RemoteInv
<1>2. \A i \in DOMAIN links : links[i].l \in Records /\ links[i].entry \in DOMAIN remote
                                /\ remote[links[i].entry].kind = KindOf(links[i].l)
  <2>1. \A i \in DOMAIN links : links[i] \in LinkRow
    BY <1>1 DEF RecordsOK
  <2> QED BY <1>1, <2>1 DEF LinksOK, LinkRow
<1>3. ASSUME NEW l \in Records, FirstSync(p, l)
      PROVE  RemoteInv'
  BY <1>3, CreateEntryStep DEF FirstSync
<1>4. ASSUME NEW i \in DOMAIN links, Recreate(p, i)
      PROVE  RemoteInv'
  <2>1. CreateEntry(p, links[i].l, i)
    BY <1>4 DEF Recreate
  <2> QED BY <1>2, <2>1, CreateEntryStep
<1>5. ASSUME NEW i \in DOMAIN links, Correct(p, i)
      PROVE  RemoteInv'
  <2> DEFINE l == links[i].l
             x == links[i].entry
  <2>1. /\ remote' = [remote EXCEPT ![x].amount = net[l], ![x].friend = Names(l)]
        /\ Call(p, l, i, x, "synced") /\ UNCHANGED <<mapped, net, within, links>>
    BY <1>1, <1>5 DEF Correct, Call, RecordsOK
  <2>2. /\ net[l] \in Figures /\ l \in Records /\ x \in DOMAIN remote
        /\ Names(l) \in BOOLEAN /\ (remote[x].kind = "payment" => Names(l))
    BY <1>1, <1>2 DEF RecordsOK, Names, KindOf, Records
  <2>3. RecordsOK' /\ LinksOK' /\ Grows
    <3> HIDE DEF l, x
    <3> QED BY <1>1, <2>1, <2>2, Edited
  <2>4. x \in DOMAIN remote' /\ remote'[x].kind = KindOf(l)
    BY <1>2, <2>3 DEF Grows
  <2>5. i \in DOMAIN links /\ links[i].l = l
    OBVIOUS
  <2>6. "synced" \in {"synced"} \cup IF l \in Expenses THEN {"withdrawn"} ELSE {}
    OBVIOUS
  <2> HIDE DEF l, x
  <2> QED BY <2>1, <2>2, <2>3, <2>4, <2>5, <2>6, CallStep
<1>6. ASSUME NEW i \in DOMAIN links, Withdraw(p, i)
      PROVE  RemoteInv'
  <2> DEFINE l == links[i].l
             x == links[i].entry
  <2>1. /\ remote' = [remote EXCEPT ![x].deleted = TRUE] /\ net[l] = 0
        /\ Call(p, l, i, x, "withdrawn") /\ UNCHANGED <<mapped, net, within, links>>
    BY <1>1, <1>6 DEF Withdraw, Call, RecordsOK
  <2>2. l \in Records /\ x \in DOMAIN remote
    BY <1>1, <1>2 DEF RecordsOK
  <2>3. RecordsOK' /\ LinksOK' /\ Grows
    <3> HIDE DEF l, x
    <3> QED BY <1>1, <2>1, <2>2, Edited
  <2>4. x \in DOMAIN remote' /\ remote'[x].kind = KindOf(l)
    BY <1>2, <2>3 DEF Grows
  <2>5. i \in DOMAIN links /\ links[i].l = l
    OBVIOUS
  <2>6. "withdrawn" \in {"synced"} \cup IF l \in Expenses THEN {"withdrawn"} ELSE {}
    BY <1>1, <2>1, <2>2 DEF RecordsOK, Records
  <2> HIDE DEF l, x
  <2> QED BY <2>1, <2>2, <2>3, <2>4, <2>5, <2>6, CallStep
<1> QED BY <1>3, <1>4, <1>5, <1>6

\* The answer is recorded or lost.
LEMMA PushEnds ==
  ASSUME RemoteInv, NEW p \in Pushes, RecordPush(p) \/ LosePush(p)
  PROVE  RemoteInv'
<1>1. RecordsOK /\ LinksOK /\ PushOK(push[p]) /\ push[p].pc = "called"
  BY DEF RemoteInv, RecordPush, LosePush
<1>2. RecordsOK' /\ LinksOK' /\ Grows
  <2>1. CASE LosePush(p)
    BY <1>1, <2>1, RecordsStand DEF LosePush
  <2>2. CASE RecordPush(p)
    <3> DEFINE q == push[p]
               row == [l |-> q.l, st |-> q.st, entry |-> q.entry, sent |-> q.sent, snap |-> q.snap]
    <3>1. /\ row \in LinkRow
          /\ row.entry \in DOMAIN remote /\ remote[row.entry].kind = KindOf(row.l)
          /\ row.st \in StatusesOf(row.l)
      <4>1. remote \in Seq(Entry)
        BY <1>1 DEF RecordsOK
      <4> QED BY <1>1, <4>1 DEF PushOK, LinkRow, StatusesOf, Statuses
    <3>2. UNCHANGED <<mapped, net, within, remote>>
      BY <2>2 DEF RecordPush
    <3>3. \A i \in DOMAIN links \ {q.row} : KindOf(links[i].l) = KindOf(row.l) => links[i].entry # row.entry
      BY <2>2 DEF RecordPush
    <3>4. CASE q.row = 0
      <4>1. links' = Append(links, row)
        BY <2>2, <3>4 DEF RecordPush
      <4>2. 0 \notin DOMAIN links
        BY <1>1 DEF RecordsOK
      <4>3. ~Claimed(row.l, row.entry)
        BY <3>3, <3>4, <4>2 DEF Claimed
      <4> HIDE DEF row
      <4> QED BY <1>1, <3>1, <3>2, <4>1, <4>3, RowAdded
    <3>5. CASE q.row # 0
      <4>1. q.row \in DOMAIN links /\ links[q.row].l = row.l
        BY <1>1, <3>5 DEF PushOK
      <4>2. links' = [links EXCEPT ![q.row] = row]
        BY <2>2, <3>5 DEF RecordPush
      <4> DEFINE i == q.row
      <4>3. /\ i \in DOMAIN links /\ row.l = links[i].l /\ links' = [links EXCEPT ![i] = row]
            /\ \A j \in DOMAIN links \ {i} : KindOf(links[j].l) = KindOf(row.l) => links[j].entry # row.entry
        BY <3>3, <4>1, <4>2
      <4> HIDE DEF row, i
      <4> QED BY <1>1, <3>1, <3>2, <4>3, RowReplaced
    <3> QED BY <3>4, <3>5
  <2> QED BY <2>1, <2>2
<1>3. /\ push' = [push EXCEPT ![p] = [IdlePush EXCEPT !.pc = "done"]]
      /\ push = [o \in Pushes |-> push[o]] /\ UNCHANGED <<changes, run, decision, omitted>>
  BY DEF RecordPush, LosePush, RemoteInv, history
<1>4. \A o \in Pushes : PushOK(push[o])'
  <2> TAKE o \in Pushes
  <2>1. CASE o = p
    <3>1. push'[o].pc = "done"
      BY <1>3, <2>1 DEF IdlePush
    <3> QED BY <3>1 DEF PushOK
  <2>2. CASE o # p
    <3>1. push'[o] = push[o] /\ PushOK(push[o])
      BY <1>3, <2>2 DEF RemoteInv
    <3> QED BY <1>2, <3>1, PushKept
  <2> QED BY <2>1, <2>2
<1>5. push' = [o \in Pushes |-> push'[o]]
  BY <1>3
<1> QED BY <1>2, <1>3, <1>4, <1>5, WorldMoves DEF RemoteInv

-----------------------------------------------------------------------------
(* Decisions *)

\* One decision moves on, and the changes stay or keep their comparison.
LEMMA DecisionMoves ==
  ASSUME RemoteInv, RecordsOK', LinksOK', Grows, Persist, ChangesOK', NEW k \in Decisions, NEW g,
         decision' = [decision EXCEPT ![k] = g], DecisionOK(decision[k])',
         UNCHANGED <<run, push, omitted>>
  PROVE  RemoteInv'
<1>1. \A d \in Runs : RunOK(run[d], omitted[d])'
  BY RunKept DEF RemoteInv
<1>2. \A p \in Pushes : PushOK(push[p])'
  BY PushKept DEF RemoteInv
<1>3. \A m \in Decisions : DecisionOK(decision[m])'
  <2> TAKE m \in Decisions
  <2>1. CASE m = k
    BY <2>1
  <2>2. CASE m # k
    <3>1. decision'[m] = decision[m] /\ DecisionOK(decision[m]) /\ ChangesOK
      BY <2>2 DEF RemoteInv
    <3> QED BY <3>1, DecisionKept
  <2> QED BY <2>1, <2>2
<1>4. decision' = [m \in Decisions |-> decision'[m]]
  BY DEF RemoteInv
<1> QED BY <1>1, <1>2, <1>3, <1>4 DEF RemoteInv

\* A decision that ended says nothing more.
LEMMA DecisionIsOver ==
  ASSUME RemoteInv, NEW k \in Decisions,
         decision' = [decision EXCEPT ![k] = [IdleDecision EXCEPT !.pc = "done"]]
  PROVE  DecisionOK(decision[k])'
<1>1. decision'[k] = [IdleDecision EXCEPT !.pc = "done"]
  BY DEF RemoteInv
<1> DEFINE g == decision'[k]
<1>2. g.pc = "done" /\ g = [pc |-> g.pc, c |-> g.c, accept |-> g.accept, target |-> g.target]
  BY <1>1 DEF IdleDecision
<1> QED BY <1>2 DEF DecisionOK

\* Only the status and the count of one change are written.
LEMMA DecideWrites ==
  ASSUME ChangesOK, NEW k \in Decisions, decision[k].c \in DOMAIN changes,
         NEW status, NEW applied, Decide(k, status, applied)
  PROVE  /\ DOMAIN changes' = DOMAIN changes
         /\ changes' = [i \in DOMAIN changes |-> changes'[i]]
         /\ \A i \in DOMAIN changes : i # decision[k].c => changes'[i] = changes[i]
         /\ LET a == changes[decision[k].c]
                b == changes'[decision[k].c] IN
              b = [kind |-> a.kind, ext |-> a.ext, l |-> a.l, row |-> a.row, loc |-> a.loc, rem |-> a.rem,
                   status |-> status, current |-> a.current, applied |-> a.applied + applied]
<1> DEFINE c == decision[k].c
           a == changes[c]
<1>1. ChangeShape(a) /\ changes = [i \in DOMAIN changes |-> changes[i]]
  BY DEF ChangesOK
<1>2. changes' = [changes EXCEPT ![c].status = status, ![c].applied = @ + applied]
  BY DEF Decide
<1>3. changes'[c] = [[a EXCEPT !.status = status] EXCEPT !.applied = @ + applied]
  BY <1>1, <1>2
<1> DEFINE s == [a EXCEPT !.status = status]
<1>4. s = [kind |-> a.kind, ext |-> a.ext, l |-> a.l, row |-> a.row, loc |-> a.loc, rem |-> a.rem,
           status |-> status, current |-> a.current, applied |-> a.applied]
  <2> HIDE DEF a
  <2> QED BY <1>1 DEF ChangeShape
<1>5. changes'[c] = [s EXCEPT !.applied = s.applied + applied]
  BY <1>3
<1>6. [s EXCEPT !.applied = s.applied + applied]
        = [kind |-> a.kind, ext |-> a.ext, l |-> a.l, row |-> a.row, loc |-> a.loc, rem |-> a.rem,
           status |-> status, current |-> a.current, applied |-> a.applied + applied]
  <2> HIDE DEF a, s
  <2> QED BY <1>4
<1>7. /\ DOMAIN changes' = DOMAIN changes
      /\ changes' = [i \in DOMAIN changes |-> changes'[i]]
      /\ \A i \in DOMAIN changes : i # c => changes'[i] = changes[i]
  BY <1>1, <1>2
<1> HIDE DEF s
<1> QED BY <1>5, <1>6, <1>7

\* A decision leaves every comparison and what is current as they were.
LEMMA DecideKeepsChanges ==
  ASSUME ChangesOK, Grows, NEW k \in Decisions, decision[k].c \in DOMAIN changes,
         NEW status \in {"proposed", "accepted", "rejected"}, NEW applied \in Nat,
         Decide(k, status, applied)
  PROVE  /\ ChangesOK' /\ Persist
         /\ \A i \in DOMAIN changes : changes'[i].current = changes[i].current
<1> DEFINE c == decision[k].c
           a == changes[c]
           b == changes'[c]
<1>1. /\ DOMAIN changes' = DOMAIN changes
      /\ changes' = [i \in DOMAIN changes |-> changes'[i]]
      /\ \A i \in DOMAIN changes : i # c => changes'[i] = changes[i]
      /\ b = [kind |-> a.kind, ext |-> a.ext, l |-> a.l, row |-> a.row, loc |-> a.loc, rem |-> a.rem,
              status |-> status, current |-> a.current, applied |-> a.applied + applied]
  BY DecideWrites
<1>2. /\ b.kind = a.kind /\ b.ext = a.ext /\ b.l = a.l /\ b.row = a.row /\ b.loc = a.loc
      /\ b.rem = a.rem /\ b.status = status /\ b.current = a.current /\ b.applied = a.applied + applied
      /\ ChangeShape(b)
  <2> HIDE DEF a, b
  <2> QED BY <1>1 DEF ChangeShape
<1>3. \A i \in DOMAIN changes :
        /\ changes'[i].kind = changes[i].kind /\ changes'[i].ext = changes[i].ext
        /\ changes'[i].l = changes[i].l /\ changes'[i].row = changes[i].row
        /\ changes'[i].loc = changes[i].loc /\ changes'[i].rem = changes[i].rem
        /\ changes'[i].current = changes[i].current /\ ChangeShape(changes'[i])
        /\ changes'[i].status \in {"proposed", "accepted", "rejected"} /\ changes'[i].applied \in Nat
  <2> TAKE i \in DOMAIN changes
  <2>1. CASE i = c
    <3>1. a.applied \in Nat
      BY DEF ChangesOK
    <3> QED BY <1>2, <2>1, <3>1
  <2>2. CASE i # c
    BY <1>1, <2>2 DEF ChangesOK
  <2> QED BY <2>1, <2>2
<1>4. \A i \in DOMAIN changes : DraftOK(changes[i])'
  <2> TAKE i \in DOMAIN changes
  <2>1. DraftOK(changes[i])
    BY DEF ChangesOK
  <2> QED BY <1>3, <2>1 DEF DraftOK, Grows
<1>5. /\ DOMAIN changes = 1 .. Len(changes) /\ Len(changes) \in Nat
      /\ changes' = [i \in 1 .. Len(changes) |-> changes'[i]]
  BY <1>1 DEF ChangesOK
<1>6. Len(changes') = Len(changes)
  BY <1>5, Concatenation
<1>7. Current' = Current /\ \A i, j \in Current' : Fingerprint(changes[i])' = Fingerprint(changes[j])' => i = j
  <2>1. Current' = Current /\ Current \subseteq DOMAIN changes
    BY <1>1, <1>3 DEF Current
  <2> QED BY <1>3, <2>1 DEF Fingerprint, ChangesOK
<1> QED BY <1>1, <1>3, <1>4, <1>5, <1>6, <1>7 DEF ChangesOK, Persist

\* What a decision checks of the entry holds of it for good: entries keep their kind.
LEMMA BeginDecisionStep ==
  ASSUME RemoteInv, NEW k \in Decisions, NEW c \in DOMAIN changes, NEW accept \in BOOLEAN,
         NEW target \in Records \cup {Nobody}, BeginDecision(k, c, accept, target)
  PROVE  RemoteInv'
<1> DEFINE g == [pc |-> "checked", c |-> c, accept |-> accept, target |-> target]
<1>1. /\ decision' = [decision EXCEPT ![k] = g] /\ UNCHANGED <<records, changes, run, push, omitted>>
      /\ decision = [m \in Decisions |-> decision[m]]
  BY DEF BeginDecision, RemoteInv
<1>2. RecordsOK' /\ LinksOK' /\ Grows /\ ChangesOK' /\ Persist
  <2>1. RecordsOK /\ LinksOK /\ ChangesOK
    BY DEF RemoteInv
  <2>2. RecordsOK' /\ LinksOK' /\ Grows
    BY <1>1, <2>1, RecordsStand
  <2> QED BY <1>1, <2>1, <2>2, ChangesKept DEF Persist
<1>3. DecisionOK(decision[k])'
  <2>1. decision'[k] = g
    BY <1>1
  <2>2. accept /\ changes[c].kind = "unlinked" =>
           target \in Records /\ remote[changes[c].ext].kind = KindOf(target)
    <3>1. SUFFICES ASSUME accept, changes[c].kind = "unlinked"
                   PROVE  target \in Records /\ remote[changes[c].ext].kind = KindOf(target)
      OBVIOUS
    <3>2. target \in Records /\ \A s \in changes[c].rem : s[2].kind = KindOf(target)
      BY <3>1 DEF BeginDecision, Acceptable
    <3>3. DraftOK(changes[c])
      BY DEF RemoteInv, ChangesOK
    <3>4. PICK s \in changes[c].rem : s[2].kind = remote[changes[c].ext].kind
      BY <3>1, <3>3 DEF DraftOK
    <3> QED BY <3>2, <3>4
  <2> QED BY <1>1, <2>1, <2>2 DEF DecisionOK, records, KindOf
<1> HIDE DEF g
<1> QED BY <1>1, <1>2, <1>3, DecisionMoves

\* Rejections, and what accepting writes.
LEMMA DecisionEnds ==
  ASSUME RemoteInv, NEW k \in Decisions,
         Reject(k) \/ AcceptDrift(k) \/ AcceptDeletion(k) \/ AcceptAdoption(k) \/ AcceptMapping(k)
  PROVE  RemoteInv'
<1> DEFINE c == decision[k].c
           t == decision[k].target
<1>1. /\ RecordsOK /\ LinksOK /\ ChangesOK /\ DecisionOK(decision[k])
      /\ decision[k].pc = "checked" /\ UNCHANGED <<run, push, omitted>>
  BY DEF RemoteInv, Reject, AcceptDrift, AcceptDeletion, MarkLink, AcceptAdoption, AcceptMapping, history
<1>2. c \in DOMAIN changes /\ DraftOK(changes[c])
  BY <1>1 DEF DecisionOK, ChangesOK
<1>3. ASSUME NEW status \in {"proposed", "accepted", "rejected"}, NEW applied \in Nat,
             Decide(k, status, applied), RecordsOK', LinksOK', Grows
      PROVE  RemoteInv'
  <2>1. ChangesOK' /\ Persist
    BY <1>1, <1>2, <1>3, DecideKeepsChanges
  <2>2. decision' = [decision EXCEPT ![k] = [IdleDecision EXCEPT !.pc = "done"]]
    BY <1>3 DEF Decide
  <2> QED BY <1>1, <1>3, <2>1, <2>2, DecisionIsOver, DecisionMoves
<1>4. CASE Reject(k)
  <2>1. Decide(k, "rejected", 0) /\ UNCHANGED records
    BY <1>4 DEF Reject
  <2> QED BY <1>1, <1>3, <2>1, RecordsStand
<1>5. ASSUME NEW kind \in {"changed", "deleted"}, NEW st \in {"drifted", "externally_deleted"},
             MarkLink(k, kind, st)
      PROVE  RemoteInv'
  <2> DEFINE i == changes[c].row
  <2>1. /\ Decide(k, "accepted", 1) /\ changes[c].kind = kind
        /\ links' = [links EXCEPT ![i].st = st] /\ UNCHANGED <<mapped, net, within, remote>>
    BY <1>5 DEF MarkLink
  <2>2. i \in DOMAIN links /\ st \in StatusesOf(links[i].l)
    BY <1>2, <2>1 DEF DraftOK, StatusesOf, Statuses
  <2> HIDE DEF i
  <2>3. RecordsOK' /\ LinksOK' /\ Grows
    BY <1>1, <2>1, <2>2, RowMarked
  <2> QED BY <1>3, <2>1, <2>3
<1>6. CASE AcceptAdoption(k)
  <2> DEFINE row == [l |-> t, st |-> "drifted", entry |-> changes[c].ext, sent |-> 0,
                  snap |-> FALSE]
  <2>1. decision[k].accept /\ changes[c].kind = "unlinked" /\ UNCHANGED <<mapped, net, within, remote>>
    BY <1>6 DEF AcceptAdoption
  <2>2. CASE Claimed(t, changes[c].ext)
    <3>1. /\ decision' = [decision EXCEPT ![k] = [IdleDecision EXCEPT !.pc = "done"]]
          /\ UNCHANGED <<links, changes>> /\ UNCHANGED <<moves, edits>>
      BY <1>6, <2>2 DEF AcceptAdoption
    <3>2. RecordsOK' /\ LinksOK' /\ Grows
      BY <1>1, <2>1, <3>1, RecordsStand DEF records
    <3>3. ChangesOK' /\ Persist
      BY <1>1, <3>1, <3>2, ChangesKept DEF Persist
    <3> QED BY <1>1, <3>1, <3>2, <3>3, DecisionIsOver, DecisionMoves
  <2>3. CASE ~Claimed(t, changes[c].ext)
    <3>1. Decide(k, "accepted", 1) /\ links' = Append(links, row)
      BY <1>6, <2>3 DEF AcceptAdoption
    <3>2. /\ row \in LinkRow /\ row.entry \in DOMAIN remote
          /\ remote[row.entry].kind = KindOf(row.l) /\ row.st \in StatusesOf(row.l)
      <4>1. t \in Records /\ remote[changes[c].ext].kind = KindOf(t)
        BY <1>1, <2>1 DEF DecisionOK
      <4>2. changes[c].ext \in DOMAIN remote /\ changes[c].ext \in Nat
        BY <1>1, <1>2, <2>1 DEF DraftOK, RecordsOK
      <4> QED BY <4>1, <4>2 DEF LinkRow, StatusesOf, Statuses, Figures
    <3>3. ~Claimed(row.l, row.entry)
      BY <2>3
    <3> HIDE DEF row
    <3>4. RecordsOK' /\ LinksOK' /\ Grows
      BY <1>1, <2>1, <3>1, <3>2, <3>3, RowAdded
    <3> QED BY <1>3, <3>1, <3>4
  <2> QED BY <2>2, <2>3
<1>7. CASE AcceptMapping(k)
  <2>1. Decide(k, "accepted", 1) /\ mapped' = TRUE /\ UNCHANGED <<net, within, links, remote>>
    BY <1>7 DEF AcceptMapping
  <2>2. RecordsOK' /\ LinksOK' /\ Grows
    BY <1>1, <2>1 DEF RecordsOK, LinksOK, Grows, StatusesOf, KindOf
  <2> QED BY <1>3, <2>1, <2>2
<1> QED BY <1>4, <1>5, <1>6, <1>7 DEF AcceptDrift, AcceptDeletion

-----------------------------------------------------------------------------
(* Runs: what is read and compared *)

\* Views are finitely many and no two are of one entry.
LEMMA ViewsAre ==
  ASSUME RecordsOK, LinksOK, NEW ls
  PROVE  /\ IsFiniteSet(ViewsOf(ls))
         /\ \A v \in ViewsOf(ls) :
              /\ ViewOK(v) /\ v.l \in ls /\ v.l \in Records
              /\ v.row \in DOMAIN links /\ v = View(v.row) /\ links[v.row].l \in ls
         /\ \A v, w \in ViewsOf(ls) : v.entry = w.entry => v = w
<1> DEFINE S == {j \in DOMAIN links : links[j].l \in ls}
<1>1. links \in Seq(LinkRow) /\ S \in SUBSET (1 .. Len(links)) /\ Len(links) \in Nat
  BY DEF RecordsOK
<1>2. IsFiniteSet(S)
  BY <1>1, FS_Interval, FS_Subset
<1>3. ViewsOf(ls) = {View(i) : i \in S}
  BY DEF ViewsOf
<1>4. IsFiniteSet(ViewsOf(ls))
  <2> DEFINE f == [i \in S |-> View(i)]
  <2>1. f = [i \in S |-> f[i]] /\ ViewsOf(ls) = {f[i] : i \in S}
    BY <1>3
  <2> HIDE DEF f, S
  <2> QED BY <1>2, <2>1, FiniteImage
<1>5. \A i \in DOMAIN links :
        LET v == View(i) IN
        v.row = i /\ v.l = links[i].l /\ v.entry = links[i].entry /\ ViewOK(v) /\ v.l \in Records
  <2> TAKE i \in DOMAIN links
  <2>1. links[i] \in LinkRow
    BY <1>1
  <2> QED BY <2>1 DEF View, ViewOK, LinksOK, LinkRow
<1>6. \A v \in ViewsOf(ls) :
        /\ ViewOK(v) /\ v.l \in ls /\ v.l \in Records
        /\ v.row \in DOMAIN links /\ v = View(v.row) /\ links[v.row].l \in ls
        /\ v.entry = links[v.row].entry
  <2> TAKE v \in ViewsOf(ls)
  <2>1. PICK i \in S : v = View(i)
    BY <1>3
  <2> QED BY <1>5, <2>1
<1>7. ASSUME NEW v \in ViewsOf(ls), NEW w \in ViewsOf(ls), v.entry = w.entry
      PROVE  v = w
  <2>1. v.row = w.row
    BY <1>6, <1>7 DEF LinksOK
  <2> QED BY <1>6, <2>1
<1> QED BY <1>4, <1>6, <1>7

\* One run moves on and nothing else does.
LEMMA RunMoves ==
  ASSUME RemoteInv, NEW d \in Runs, NEW g, run' = [run EXCEPT ![d] = g], RunOK(run[d], omitted[d])',
         omitted' = [e \in Runs |-> omitted'[e]], \A e \in Runs : e # d => omitted'[e] = omitted[e],
         UNCHANGED <<records, changes, decision, push>>
  PROVE  RemoteInv'
<1>1. RecordsOK' /\ LinksOK' /\ Grows /\ Persist
  BY RecordsStand DEF RemoteInv, Persist
<1>2. ChangesOK'
  BY <1>1, ChangesKept DEF RemoteInv
<1>3. \A k \in Decisions : DecisionOK(decision[k])'
  BY <1>1, DecisionKept DEF RemoteInv
<1>4. \A p \in Pushes : PushOK(push[p])'
  BY <1>1, PushKept DEF RemoteInv
<1>5. \A e \in Runs : RunOK(run[e], omitted[e])'
  <2> TAKE e \in Runs
  <2>1. CASE e = d
    BY <2>1
  <2>2. CASE e # d
    <3>1. run'[e] = run[e] /\ RunOK(run[e], omitted[e]) /\ omitted'[e] = omitted[e]
      BY <2>2 DEF RemoteInv
    <3> QED BY <1>1, <3>1, RunKept
  <2> QED BY <2>1, <2>2
<1> QED BY <1>1, <1>2, <1>3, <1>4, <1>5 DEF RemoteInv

LEMMA BeginRunStep ==
  ASSUME RemoteInv, NEW d \in Runs, BeginRun(d)
  PROVE  RemoteInv'
<1> DEFINE pc == IF mapped THEN "begun" ELSE "listed"
           views == ViewsOf(Expenses)
           g == [IdleRun EXCEPT !.pc = pc, !.paired = mapped, !.views = views]
<1>1. /\ run' = [run EXCEPT ![d] = g] /\ UNCHANGED <<records, changes, decision, push>>
      /\ run = [e \in Runs |-> run[e]] /\ RecordsOK /\ LinksOK
      /\ UNCHANGED omitted /\ omitted = [e \in Runs |-> omitted[e]]
  BY DEF BeginRun, RemoteInv
<1>2. /\ g.pc = (IF mapped THEN "begun" ELSE "listed") /\ g.paired = mapped /\ g.views = ViewsOf(Expenses)
      /\ g.seen = <<>> /\ g.complete = FALSE /\ g.known = {} /\ g.drafts = {} /\ RunShape(g)
  <2>1. g = [pc |-> pc, paired |-> mapped, views |-> views, seen |-> <<>>,
             complete |-> FALSE, known |-> {}, drafts |-> {}]
    <3>1. ASSUME NEW i, i = IdleRun, NEW j, j = [i EXCEPT !.pc = pc, !.paired = mapped, !.views = views]
          PROVE  j = [pc |-> pc, paired |-> mapped, views |-> views, seen |-> <<>>,
                      complete |-> FALSE, known |-> {}, drafts |-> {}]
      <4> HIDE DEF pc, views
      <4> QED BY <3>1 DEF IdleRun
    <3> HIDE DEF pc, views
    <3> QED BY <3>1
  <2> HIDE DEF g, pc, views
  <2>2. /\ g.pc = pc /\ g.paired = mapped /\ g.views = views
        /\ g.seen = <<>> /\ g.complete = FALSE /\ g.known = {} /\ g.drafts = {} /\ RunShape(g)
    BY <2>1 DEF RunShape
  <2> QED BY <2>2 DEF pc, views
<1>3. run'[d] = g
  BY <1>1
<1>4. IsFiniteSet({}) /\ DOMAIN g.seen = {} /\ mapped \in BOOLEAN
  <2> HIDE DEF g
  <2> QED BY <1>1, <1>2, FS_EmptySet DEF RecordsOK
<1> HIDE DEF g
<1>5. \A v \in ViewsOf(Expenses) : ViewOK(v)' /\ v.l \in Expenses
  <2> TAKE v \in ViewsOf(Expenses)
  <2>1. ViewOK(v) /\ v.l \in Expenses
    BY <1>1, ViewsAre
  <2> QED BY <1>1, <2>1 DEF ViewOK, records
<1>6. /\ IsFiniteSet(ViewsOf(Expenses))
      /\ \A v, w \in ViewsOf(Expenses) : v.entry = w.entry => v = w
  BY <1>1, ViewsAre
<1>7. RunOK(run[d], omitted[d])'
  BY <1>2, <1>3, <1>4, <1>5, <1>6 DEF RunOK, SeenOK, OnePerPrint
<1> QED BY <1>1, <1>7, RunMoves

LEMMA ListEntriesStep ==
  ASSUME RemoteInv, NEW d \in Runs, ListEntries(d)
  PROVE  RemoteInv'
<1> DEFINE r == run[d]
<1>1. RunOK(r, omitted[d]) /\ r.pc = "begun" /\ RecordsOK /\ LinksOK /\ run = [e \in Runs |-> run[e]]
      /\ omitted = [e \in Runs |-> omitted[e]]
  BY DEF ListEntries, RemoteInv
<1>2. PICK ids \in SUBSET {x \in DOMAIN remote : remote[x].friend}, complete \in BOOLEAN :
        /\ complete => \A x \in DOMAIN remote : Standing(x) /\ remote[x].friend => x \in ids
        /\ run' = [run EXCEPT ![d].pc = "listed", ![d].complete = complete,
                              ![d].seen = [x \in ids |-> remote[x]]]
  BY DEF ListEntries
<1> DEFINE seen == [x \in ids |-> remote[x]]
           g == run'[d]
<1>3. g = [[[r EXCEPT !.pc = "listed"] EXCEPT !.complete = complete] EXCEPT !.seen = seen]
  BY <1>1, <1>2
<1>4. /\ g.pc = "listed" /\ g.complete = complete /\ g.seen = seen /\ g.paired = r.paired
      /\ g.views = r.views /\ g.known = r.known /\ g.drafts = r.drafts /\ RunShape(g)
  <2>1. RunShape(r)
    BY <1>1 DEF RunOK
  <2> HIDE DEF r, seen, g
  <2> QED BY <1>3, <2>1 DEF RunShape
<1>5. /\ UNCHANGED <<records, changes, decision, push>>
      /\ omitted' = [omitted EXCEPT ![d] = {x \in DOMAIN remote : Standing(x) /\ ~remote[x].friend}]
  BY DEF ListEntries
<1>12. /\ omitted'[d] = {x \in DOMAIN remote : Standing(x) /\ ~remote[x].friend}
       /\ omitted' = [e \in Runs |-> omitted'[e]] /\ \A e \in Runs : e # d => omitted'[e] = omitted[e]
  BY <1>1, <1>5
<1>6. IsFiniteSet(DOMAIN seen)
  <2>1. ids \in SUBSET (1 .. Len(remote)) /\ Len(remote) \in Nat
    BY <1>1 DEF RecordsOK
  <2> QED BY <2>1, FS_Interval, FS_Subset
<1>7. \A x \in DOMAIN seen : x \in DOMAIN remote /\ seen[x] = remote[x]
  OBVIOUS
<1>8. \A v \in r.views :
        /\ ViewOK(v)' /\ v.l \in Expenses
        /\ complete /\ v.entry \notin DOMAIN seen => Away(v.entry, omitted[d])'
  <2> TAKE v \in r.views
  <2>1. ViewOK(v) /\ v.l \in Expenses
    BY <1>1 DEF RunOK
  <2>2. complete /\ v.entry \notin DOMAIN seen => remote[v.entry].deleted \/ v.entry \in omitted'[d]
    BY <1>2, <1>12, <2>1 DEF ViewOK, Standing
  <2> QED BY <1>5, <2>1, <2>2 DEF ViewOK, records, Away
<1>9. r.drafts = {}
  BY <1>1 DEF RunOK
<1>10. RunOK(run[d], omitted[d])'
  <2>1. SeenOK(run[d].seen)'
    <3>1. run'[d].seen = seen
      BY <1>4
    <3> HIDE DEF seen
    <3> QED BY <1>5, <1>7, <3>1 DEF SeenOK, records
  <2> HIDE DEF seen, g
  <2>2. /\ RunShape(g) /\ g.paired \in BOOLEAN /\ g.complete \in BOOLEAN
        /\ IsFiniteSet(g.views) /\ IsFiniteSet(DOMAIN g.seen) /\ IsFiniteSet(g.drafts)
        /\ \A v, w \in g.views : v.entry = w.entry => v = w
        /\ \A f, h \in g.drafts : Fingerprint(f) = Fingerprint(h) => f = h
        /\ g.known \subseteq DOMAIN changes' /\ g.pc = "listed"
    BY <1>1, <1>4, <1>5, <1>6 DEF RunOK, OnePerPrint
  <2>3. /\ \A v \in g.views : ViewOK(v)' /\ v.l \in Expenses
        /\ \A v \in g.views : g.complete /\ v.entry \notin DOMAIN g.seen => Away(v.entry, omitted[d])'
        /\ g.drafts = {}
    BY <1>4, <1>8, <1>9
  <2>4. g = run'[d]
    BY DEF g
  <2> HIDE DEF r
  <2> QED BY <2>1, <2>2, <2>3, <2>4 DEF RunOK, OnePerPrint, RunShape, Fingerprint
<1>11. run' = [run EXCEPT ![d] = g]
  BY <1>1, <1>2
<1> HIDE DEF g
<1> QED BY <1>5, <1>10, <1>11, <1>12, RunMoves

\* A set of entries has a first one.
LEMMA FirstOf ==
  ASSUME NEW S \in SUBSET Nat, S # {}
  PROVE  \E x \in S : \A y \in S : x <= y
<1>1. PICK x \in S : \A y \in S : <<y, x>> \notin OpToRel(<, Nat)
  BY NatLessThanWellFounded, WFMin
<1>2. \A y \in S : ~(y < x)
  BY <1>1 DEF OpToRel
<1> QED BY <1>2

LEMMA DraftFields ==
  ASSUME NEW kind, NEW ext, NEW v, NEW loc, NEW rem, NEW f, f = Draft(kind, ext, v, loc, rem)
  PROVE  f.kind = kind /\ f.ext = ext /\ f.l = v.l /\ f.row = v.row /\ f.loc = loc /\ f.rem = rem
BY DEF Draft

\* What is compared: views of rows that are there, a listing of entries that are.
Comparable(views, seen, complete, o) ==
    /\ IsFiniteSet(views) /\ IsFiniteSet(DOMAIN seen)
    /\ \A v \in views : ViewOK(v)
    /\ \A v, w \in views : v.entry = w.entry => v = w
    /\ SeenOK(seen)
    /\ \A v \in views : v.l \in Expenses /\ complete /\ v.entry \notin DOMAIN seen
                            => Away(v.entry, o)

\* The entries that cannot be told from one, and the first of them.
Alike(x, views, seen) == {y \in Unlinked(views, seen) : seen[y] = seen[x]}
First(x, views, seen) == CHOOSE y \in Alike(x, views, seen) : \A z \in Alike(x, views, seen) : y <= z

\* The first of the entries that look alike is one of them.
LEMMA FirstIsAlike ==
  ASSUME RecordsOK, NEW views, NEW seen, SeenOK(seen), NEW x \in Unlinked(views, seen)
  PROVE  /\ First(x, views, seen) \in DOMAIN seen
         /\ seen[First(x, views, seen)] = seen[x]
<1> DEFINE S == Alike(x, views, seen)
<1>1. S \in SUBSET Nat /\ x \in S
  <2>1. DOMAIN seen \subseteq DOMAIN remote /\ DOMAIN remote \subseteq Nat
    BY DEF SeenOK, RecordsOK
  <2> QED BY <2>1 DEF Alike, Unlinked
<1> HIDE DEF S
<1>2. \E y \in S : \A z \in S : y <= z
  BY <1>1, FirstOf
<1>3. First(x, views, seen) = CHOOSE y \in S : \A z \in S : y <= z
  BY DEF First, S
<1>4. First(x, views, seen) \in S
  BY <1>2, <1>3
<1> QED BY <1>4 DEF S, Alike, Unlinked

\* The drafts of duplicates, with the entries that look alike by name.
LEMMA DuplicatesAre ==
  ASSUME NEW views, NEW seen
  PROVE  DuplicateDrafts(views, seen) =
           {Draft("duplicate", First(x, views, seen), NoView, NoLocal,
                  UNION {Snapshot(y, seen) : y \in Alike(x, views, seen)}) :
              x \in {y \in Unlinked(views, seen) : Cardinality(Alike(y, views, seen)) > 1}}
BY DEF DuplicateDrafts, First, Alike

\* A deletion is of a row that is there and, of an expense, of an entry that is gone.
LEMMA DeletedDraftsOK ==
  ASSUME NEW views, NEW seen, NEW complete \in BOOLEAN, NEW o,
         Comparable(views, seen, complete, o)
  PROVE  LET S == DeletedDrafts(views, seen, complete) IN
         /\ IsFiniteSet(S) /\ OnePerPrint(S)
         /\ \A f \in S : f.kind = "deleted" /\ DraftOK(f) /\ (f.l \in Expenses => Away(f.ext, o))
<1> DEFINE S == DeletedDrafts(views, seen, complete)
           V == {w \in Live(views) : Gone(w.entry, seen, complete)}
           F(v) == Draft("deleted", v.entry, v, [st |-> v.st, own |-> 0, net |-> v.net], Snapshot(v.entry, seen))
           f == [v \in V |-> F(v)]
<1>1. V \in SUBSET views /\ \A v \in V : Gone(v.entry, seen, complete)
  BY DEF Live
<1>2. \A v \in V : LET a == F(v) IN a.kind = "deleted" /\ a.ext = v.entry /\ a.l = v.l /\ a.row = v.row
  BY DraftFields
<1>3. S = {F(v) : v \in V}
  BY DEF DeletedDrafts
<1>4. f = [v \in V |-> f[v]] /\ S = {f[v] : v \in V} /\ \A v \in V : f[v] = F(v)
  BY <1>3
<1> HIDE DEF F, f, V, S
<1>5. IsFiniteSet(S)
  <2>1. IsFiniteSet(V)
    BY <1>1, FS_Subset DEF Comparable
  <2> QED BY <1>4, <2>1, FiniteImage
<1>6. \A a \in S : \E v \in V : a = F(v)
  BY <1>3
<1>7. ASSUME NEW a \in S, NEW b \in S, Fingerprint(a) = Fingerprint(b)
      PROVE  a = b
  <2>1. PICK v \in V : a = F(v)
    BY <1>6
  <2>2. PICK w \in V : b = F(w)
    BY <1>6
  <2>3. v.entry = w.entry
    BY <1>2, <1>7, <2>1, <2>2 DEF Fingerprint
  <2>4. v = w
    BY <1>1, <2>3 DEF Comparable
  <2> QED BY <2>1, <2>2, <2>4
<1>8. ASSUME NEW a \in S
      PROVE  a.kind = "deleted" /\ DraftOK(a) /\ (a.l \in Expenses => Away(a.ext, o))
  <2>1. PICK v \in V : a = F(v)
    BY <1>6
  <2>2. a.kind = "deleted" /\ a.ext = v.entry /\ a.l = v.l /\ a.row = v.row
    BY <1>2, <2>1
  <2>3. /\ ViewOK(v) /\ SeenOK(seen) /\ Gone(v.entry, seen, complete)
        /\ v.l \in Expenses /\ complete /\ v.entry \notin DOMAIN seen => Away(v.entry, o)
    BY <1>1 DEF Comparable
  <2>4. v.entry \in DOMAIN remote /\ (v.l \in Expenses => Away(v.entry, o))
    BY <2>3 DEF ViewOK, SeenOK, Gone, Away
  <2> QED BY <2>2, <2>3, <2>4 DEF DraftOK, Kinds, ViewOK
<1> QED BY <1>5, <1>7, <1>8 DEF OnePerPrint, S

\* A difference of figures is of a row that is there.
LEMMA ChangedDraftsOK ==
  ASSUME NEW views, NEW seen, NEW complete \in BOOLEAN, NEW o,
         Comparable(views, seen, complete, o)
  PROVE  LET S == ChangedDrafts(views, seen) IN
         /\ IsFiniteSet(S) /\ OnePerPrint(S)
         /\ \A f \in S : f.kind = "changed" /\ DraftOK(f)
<1> DEFINE S == ChangedDrafts(views, seen)
           V == {w \in Live(views) : /\ w.entry \in DOMAIN seen /\ ~seen[w.entry].deleted
                                     /\ seen[w.entry].amount # Ours(w)}
           F(v) == Draft("changed", v.entry, v, [st |-> v.st, own |-> Ours(v), net |-> v.net], Snapshot(v.entry, seen))
           f == [v \in V |-> F(v)]
<1>1. V \in SUBSET views
  BY DEF Live
<1>2. \A v \in V : LET a == F(v) IN a.kind = "changed" /\ a.ext = v.entry /\ a.l = v.l /\ a.row = v.row
  BY DraftFields
<1>3. S = {F(v) : v \in V}
  BY DEF ChangedDrafts
<1>4. f = [v \in V |-> f[v]] /\ S = {f[v] : v \in V} /\ \A v \in V : f[v] = F(v)
  BY <1>3
<1> HIDE DEF F, f, V, S
<1>5. IsFiniteSet(S)
  <2>1. IsFiniteSet(V)
    BY <1>1, FS_Subset DEF Comparable
  <2> QED BY <1>4, <2>1, FiniteImage
<1>6. \A a \in S : \E v \in V : a = F(v)
  BY <1>3
<1>7. ASSUME NEW a \in S, NEW b \in S, Fingerprint(a) = Fingerprint(b)
      PROVE  a = b
  <2>1. PICK v \in V : a = F(v)
    BY <1>6
  <2>2. PICK w \in V : b = F(w)
    BY <1>6
  <2>3. v.entry = w.entry
    BY <1>2, <1>7, <2>1, <2>2 DEF Fingerprint
  <2>4. v = w
    BY <1>1, <2>3 DEF Comparable
  <2> QED BY <2>1, <2>2, <2>4
<1>8. ASSUME NEW a \in S
      PROVE  a.kind = "changed" /\ DraftOK(a)
  <2>1. PICK v \in V : a = F(v)
    BY <1>6
  <2>2. a.kind = "changed" /\ a.l = v.l /\ a.row = v.row
    BY <1>2, <2>1
  <2>3. ViewOK(v)
    BY <1>1 DEF Comparable
  <2> QED BY <2>2, <2>3 DEF DraftOK, Kinds, ViewOK
<1> QED BY <1>5, <1>7, <1>8 DEF OnePerPrint, S

\* An entry without a link is there, of the kind it was seen as.
LEMMA UnlinkedDraftsOK ==
  ASSUME NEW views, NEW seen, NEW complete \in BOOLEAN, NEW o,
         Comparable(views, seen, complete, o)
  PROVE  LET S == UnlinkedDrafts(views, seen) IN
         /\ IsFiniteSet(S) /\ OnePerPrint(S)
         /\ \A f \in S : f.kind = "unlinked" /\ DraftOK(f)
<1> DEFINE S == UnlinkedDrafts(views, seen)
           V == Unlinked(views, seen)
           F(x) == Draft("unlinked", x, NoView, NoLocal, Snapshot(x, seen))
           f == [x \in V |-> F(x)]
<1>1. V \in SUBSET DOMAIN seen
  BY DEF Unlinked
<1>2. \A x \in V : LET a == F(x) IN a.kind = "unlinked" /\ a.ext = x /\ a.rem = Snapshot(x, seen)
  BY DraftFields
<1>3. S = {F(x) : x \in V}
  BY DEF UnlinkedDrafts
<1>4. f = [x \in V |-> f[x]] /\ S = {f[x] : x \in V} /\ \A x \in V : f[x] = F(x)
  BY <1>3
<1> HIDE DEF F, f, V, S
<1>5. IsFiniteSet(S)
  <2>1. IsFiniteSet(V)
    BY <1>1, FS_Subset DEF Comparable
  <2> QED BY <1>4, <2>1, FiniteImage
<1>6. \A a \in S : \E x \in V : a = F(x)
  BY <1>3
<1>7. ASSUME NEW a \in S, NEW b \in S, Fingerprint(a) = Fingerprint(b)
      PROVE  a = b
  BY <1>2, <1>6, <1>7 DEF Fingerprint
<1>8. ASSUME NEW a \in S
      PROVE  a.kind = "unlinked" /\ DraftOK(a)
  <2>1. PICK x \in V : a = F(x)
    BY <1>6
  <2>2. a.kind = "unlinked" /\ a.ext = x /\ a.rem = {<<x, seen[x]>>}
    BY <1>1, <1>2, <2>1 DEF Snapshot
  <2>3. x \in DOMAIN remote /\ seen[x].kind = remote[x].kind
    BY <1>1 DEF Comparable, SeenOK
  <2>4. <<x, seen[x]>>[2] = seen[x]
    OBVIOUS
  <2> QED BY <2>2, <2>3, <2>4 DEF DraftOK, Kinds
<1> QED BY <1>5, <1>7, <1>8 DEF OnePerPrint, S

\* Entries that look alike make one draft, whichever of them is asked.
LEMMA DuplicateDraftsOK ==
  ASSUME RecordsOK, NEW views, NEW seen, NEW complete \in BOOLEAN, NEW o,
         Comparable(views, seen, complete, o)
  PROVE  LET S == DuplicateDrafts(views, seen) IN
         /\ IsFiniteSet(S) /\ OnePerPrint(S)
         /\ \A f \in S : f.kind = "duplicate" /\ DraftOK(f)
<1> DEFINE S == DuplicateDrafts(views, seen)
           V == {y \in Unlinked(views, seen) : Cardinality(Alike(y, views, seen)) > 1}
           F(x) == Draft("duplicate", First(x, views, seen), NoView, NoLocal,
                         UNION {Snapshot(y, seen) : y \in Alike(x, views, seen)})
           f == [x \in V |-> F(x)]
<1>1. V \in SUBSET DOMAIN seen /\ V \subseteq Unlinked(views, seen)
  BY DEF Unlinked
<1>2. \A x \in V : LET a == F(x) IN a.kind = "duplicate" /\ a.ext = First(x, views, seen)
  BY DraftFields
<1>3. S = {F(x) : x \in V}
  BY DuplicatesAre
<1>4. f = [x \in V |-> f[x]] /\ S = {f[x] : x \in V} /\ \A x \in V : f[x] = F(x)
  BY <1>3
<1>5. \A x, y \in V : Alike(x, views, seen) = Alike(y, views, seen) => F(x) = F(y)
  BY DEF First
<1> HIDE DEF F, f, V, S
<1>6. IsFiniteSet(S)
  <2>1. IsFiniteSet(V)
    BY <1>1, FS_Subset DEF Comparable
  <2> QED BY <1>4, <2>1, FiniteImage
<1>7. \A a \in S : \E x \in V : a = F(x)
  BY <1>3
<1>8. ASSUME NEW a \in S, NEW b \in S, Fingerprint(a) = Fingerprint(b)
      PROVE  a = b
  <2>1. PICK x \in V : a = F(x)
    BY <1>7
  <2>2. PICK y \in V : b = F(y)
    BY <1>7
  <2>3. First(x, views, seen) = First(y, views, seen)
    BY <1>2, <1>8, <2>1, <2>2 DEF Fingerprint
  <2>4. seen[x] = seen[y]
    BY <1>1, <2>3, FirstIsAlike DEF Comparable
  <2>5. Alike(x, views, seen) = Alike(y, views, seen)
    BY <2>4 DEF Alike
  <2> QED BY <1>5, <2>1, <2>2, <2>5
<1>9. ASSUME NEW a \in S
      PROVE  a.kind = "duplicate" /\ DraftOK(a)
  <2>1. a.kind = "duplicate"
    BY <1>2, <1>7
  <2> QED BY <2>1 DEF DraftOK, Kinds
<1> QED BY <1>6, <1>8, <1>9 DEF OnePerPrint, S

\* All drafts together: of each kind and entry there is one.
LEMMA DiscoverOK ==
  ASSUME RecordsOK, NEW views, NEW seen, NEW complete \in BOOLEAN, NEW o,
         Comparable(views, seen, complete, o)
  PROVE  LET S == Discover(views, seen, complete) IN
         /\ IsFiniteSet(S) /\ OnePerPrint(S)
         /\ \A f \in S : DraftOK(f) /\ f.kind # "unmapped"
         /\ \A f \in S : f.kind = "deleted" /\ f.l \in Expenses => Away(f.ext, o)
<1> DEFINE A == DeletedDrafts(views, seen, complete)
           B == ChangedDrafts(views, seen)
           C == UnlinkedDrafts(views, seen)
           D == DuplicateDrafts(views, seen)
<1>1. /\ IsFiniteSet(A) /\ OnePerPrint(A) /\ \A f \in A : f.kind = "deleted" /\ DraftOK(f)
      /\ \A f \in A : f.l \in Expenses => Away(f.ext, o)
  BY DeletedDraftsOK
<1>2. IsFiniteSet(B) /\ OnePerPrint(B) /\ \A f \in B : f.kind = "changed" /\ DraftOK(f)
  BY ChangedDraftsOK
<1>3. IsFiniteSet(C) /\ OnePerPrint(C) /\ \A f \in C : f.kind = "unlinked" /\ DraftOK(f)
  BY UnlinkedDraftsOK
<1>4. IsFiniteSet(D) /\ OnePerPrint(D) /\ \A f \in D : f.kind = "duplicate" /\ DraftOK(f)
  BY DuplicateDraftsOK
<1>5. Discover(views, seen, complete) = ((A \cup B) \cup C) \cup D
  BY DEF Discover
<1> HIDE DEF A, B, C, D
<1>6. IsFiniteSet(((A \cup B) \cup C) \cup D)
  BY <1>1, <1>2, <1>3, <1>4, FS_Union
<1>7. OnePerPrint(((A \cup B) \cup C) \cup D)
  <2> SUFFICES ASSUME NEW f \in ((A \cup B) \cup C) \cup D, NEW g \in ((A \cup B) \cup C) \cup D,
                      Fingerprint(f) = Fingerprint(g)
               PROVE  f = g
    BY DEF OnePerPrint
  <2>1. f.kind = g.kind
    BY DEF Fingerprint
  <2> QED BY <1>1, <1>2, <1>3, <1>4, <2>1 DEF OnePerPrint
<1> QED BY <1>1, <1>2, <1>3, <1>4, <1>5, <1>6, <1>7

LEMMA UnmappedDraftOK ==
  /\ IsFiniteSet({UnmappedDraft}) /\ OnePerPrint({UnmappedDraft})
  /\ UnmappedDraft.kind = "unmapped" /\ UnmappedDraft.ext = 0
  /\ \A f \in {UnmappedDraft} : DraftOK(f)
<1>1. UnmappedDraft.kind = "unmapped" /\ UnmappedDraft.ext = 0
  BY DraftFields DEF UnmappedDraft
<1> QED BY <1>1, FS_Singleton DEF OnePerPrint, DraftOK, Kinds

\* What a run compares: some of the views it took of the expenses and those it
\* takes of the settlements now.
LEMMA RunComparable ==
  ASSUME RecordsOK, LinksOK, NEW r, NEW o, RunOK(r, o), NEW V \in SUBSET r.views
  PROVE  Comparable(V \cup ViewsOf(Settlements), r.seen, r.complete, o)
<1> DEFINE W == ViewsOf(Settlements)
<1>1. /\ IsFiniteSet(W) /\ \A v \in W : ViewOK(v) /\ v.l \in Settlements
      /\ \A v, w \in W : v.entry = w.entry => v = w
  BY ViewsAre
<1> HIDE DEF W
<1>2. \A v \in V : ViewOK(v) /\ v.l \in Expenses
  BY DEF RunOK
<1>3. IsFiniteSet(V \cup W)
  BY <1>1, FS_Union, FS_Subset DEF RunOK
<1>4. \A v, w \in V \cup W : v.entry = w.entry => v = w
  <2> TAKE v, w \in V \cup W
  <2>1. \A x \in V, y \in W : x.entry # y.entry
    <3> TAKE x \in V, y \in W
    <3>1. ViewOK(x) /\ ViewOK(y) /\ x.l \in Expenses /\ y.l \notin Expenses
      BY <1>1, <1>2, RecordsAssumption
    <3> QED BY <3>1 DEF ViewOK, KindOf
  <2> QED BY <1>1, <2>1 DEF RunOK
<1>5. \A v \in V \cup W :
        v.l \in Expenses /\ r.complete /\ v.entry \notin DOMAIN r.seen => Away(v.entry, o)
  BY <1>1, RecordsAssumption DEF RunOK
<1>6. IsFiniteSet(DOMAIN r.seen) /\ SeenOK(r.seen)
  BY DEF RunOK
<1> QED BY <1>1, <1>2, <1>3, <1>4, <1>5, <1>6 DEF Comparable, W

LEMMA CompareStep ==
  ASSUME RemoteInv, NEW d \in Runs, Compare(d)
  PROVE  RemoteInv'
<1> DEFINE r == run[d]
           V == {v \in r.views : Participates(v)}
           drafts == IF r.paired THEN Discover(V \cup ViewsOf(Settlements), r.seen, r.complete)
                                 ELSE {UnmappedDraft}
           g == run'[d]
           o == omitted[d]
<1>1. /\ RunOK(r, o) /\ RecordsOK /\ LinksOK /\ run = [e \in Runs |-> run[e]]
      /\ UNCHANGED <<records, changes, decision, push, omitted>> /\ omitted = [e \in Runs |-> omitted[e]]
  BY DEF Compare, RemoteInv, history
<1>2. run' = [run EXCEPT ![d] = [r EXCEPT !.pc = "compared", !.known = Current, !.drafts = drafts,
                                          !.views = {}, !.seen = <<>>]]
  BY DEF Compare
<1>3. /\ IsFiniteSet(drafts) /\ OnePerPrint(drafts) /\ \A f \in drafts : DraftOK(f)
      /\ \A f \in drafts : f.kind = "deleted" /\ f.l \in Expenses => Away(f.ext, o)
  <2>1. CASE r.paired
    <3>1. Comparable(V \cup ViewsOf(Settlements), r.seen, r.complete, o) /\ r.complete \in BOOLEAN
      <4>1. V \in SUBSET r.views
        OBVIOUS
      <4> HIDE DEF V, o, r
      <4> QED BY <1>1, <4>1, RunComparable DEF RunOK
    <3> HIDE DEF V, o
    <3> QED BY <1>1, <2>1, <3>1, DiscoverOK
  <2>2. CASE ~r.paired
    BY <2>2, UnmappedDraftOK
  <2> QED BY <2>1, <2>2
<1> HIDE DEF drafts
<1>4. /\ g.pc = "compared" /\ g.complete = r.complete /\ g.seen = <<>> /\ g.paired = r.paired
      /\ g.views = {} /\ g.known = Current /\ g.drafts = drafts /\ RunShape(g)
  <2>1. RunShape(r)
    BY <1>1 DEF RunOK
  <2>2. g = [r EXCEPT !.pc = "compared", !.known = Current, !.drafts = drafts, !.views = {}, !.seen = <<>>]
    BY <1>1, <1>2
  <2> HIDE DEF r, g
  <2> QED BY <2>1, <2>2 DEF RunShape
<1>5. \A f \in drafts :
        DraftOK(f)' /\ (f.kind = "deleted" /\ f.l \in Expenses => Away(f.ext, omitted[d])')
  <2> TAKE f \in drafts
  <2>1. DraftOK(f) /\ (f.kind = "deleted" /\ f.l \in Expenses => Away(f.ext, o))
    BY <1>3
  <2> QED BY <1>1, <2>1 DEF DraftOK, records, Away
<1>6. RunOK(run[d], omitted[d])'
  <2>1. /\ g.paired \in BOOLEAN /\ g.complete \in BOOLEAN
        /\ \A f, h \in drafts : Fingerprint(f) = Fingerprint(h) => f = h
        /\ Current \subseteq DOMAIN changes'
    BY <1>1, <1>3, <1>4 DEF RunOK, OnePerPrint, Current
  <2>2. IsFiniteSet({}) /\ DOMAIN <<>> = {}
    BY FS_EmptySet
  <2>3. g = run'[d]
    BY DEF g
  <2> HIDE DEF g, r
  <2> QED BY <1>3, <1>4, <1>5, <2>1, <2>2, <2>3 DEF RunOK, SeenOK, OnePerPrint, RunShape, Fingerprint
<1>7. run' = [run EXCEPT ![d] = g]
  BY <1>1, <1>2
<1> HIDE DEF g
<1> QED BY <1>1, <1>6, <1>7, RunMoves

-----------------------------------------------------------------------------
(* Runs: what is written *)

\* A draft is proposed with its comparison.
LEMMA ProposedFields ==
  ASSUME NEW f, NEW c, c = Proposed(f)
  PROVE  /\ c.kind = f.kind /\ c.ext = f.ext /\ c.l = f.l /\ c.row = f.row /\ c.loc = f.loc
         /\ c.rem = f.rem /\ c.status = "proposed" /\ c.applied = 0
         /\ c.current = TRUE /\ c.current \in BOOLEAN
         /\ ChangeShape(c) /\ Fingerprint(c) = Fingerprint(f)
<1>1. c = [kind |-> f.kind, ext |-> f.ext, l |-> f.l, row |-> f.row, loc |-> f.loc, rem |-> f.rem,
           status |-> "proposed", current |-> TRUE, applied |-> 0]
  BY DEF Proposed
<1> QED BY <1>1 DEF ChangeShape, Fingerprint

\* A change is retired by what supersedes it and is otherwise as it was.
Retired(i, r) == IF i \in Superseded(r) THEN [changes[i] EXCEPT !.current = FALSE] ELSE changes[i]

LEMMA RetiredFields ==
  ASSUME ChangesOK, NEW i \in DOMAIN changes, NEW r, NEW c, c = Retired(i, r)
  PROVE  /\ c.kind = changes[i].kind /\ c.ext = changes[i].ext /\ c.l = changes[i].l
         /\ c.row = changes[i].row /\ c.loc = changes[i].loc /\ c.rem = changes[i].rem
         /\ c.status = changes[i].status /\ c.applied = changes[i].applied
         /\ c.current = (changes[i].current /\ i \notin Superseded(r))
         /\ ChangeShape(c) /\ Fingerprint(c) = Fingerprint(changes[i])
<1>1. ChangeShape(changes[i]) /\ changes[i].current \in BOOLEAN
  BY DEF ChangesOK
<1>2. CASE i \in Superseded(r)
  <2>1. c = [changes[i] EXCEPT !.current = FALSE]
    BY <1>2 DEF Retired
  <2>2. /\ c.kind = changes[i].kind /\ c.ext = changes[i].ext /\ c.l = changes[i].l
        /\ c.row = changes[i].row /\ c.loc = changes[i].loc /\ c.rem = changes[i].rem
        /\ c.status = changes[i].status /\ c.applied = changes[i].applied
        /\ c.current = FALSE /\ ChangeShape(c)
    BY <1>1, <2>1 DEF ChangeShape
  <2> QED BY <1>2, <2>2 DEF Fingerprint
<1>3. CASE i \notin Superseded(r)
  BY <1>1, <1>3 DEF Retired, Fingerprint
<1> QED BY <1>2, <1>3

\* The rows a run leaves: those on record, retired or not, and one new one per
\* fresh draft.
Left(r) ==
    /\ Len(changes) \in Nat /\ Len(changes') \in Nat /\ Len(changes) <= Len(changes')
    /\ changes' = [i \in 1 .. Len(changes') |-> changes'[i]]
    /\ \A i \in 1 .. Len(changes) : changes'[i] = Retired(i, r)
    /\ \A i \in DOMAIN changes' : i \in 1 .. Len(changes) \/ \E f \in Fresh(r) : changes'[i] = Proposed(f)
    /\ \A f \in Fresh(r) : \E i \in DOMAIN changes' : i \notin 1 .. Len(changes) /\ changes'[i] = Proposed(f)
    /\ \A i, j \in DOMAIN changes' \ 1 .. Len(changes) : changes'[i] = changes'[j] => i = j

\* That is what a run writes, unless it collides.
LEMMA ReconcileLeaves ==
  ASSUME ChangesOK, NEW d \in Runs, IsFiniteSet(run[d].drafts), Reconcile(d), ~Collides(run[d])
  PROVE  Left(run[d])
<1> DEFINE r == run[d]
           F == Fresh(r)
           S == {Proposed(f) : f \in F}
           m == Len(changes)
           n == Cardinality(S)
           s == [i \in DOMAIN changes |-> Retired(i, r)]
           t == SetToSeq(S)
<1>1. changes' = s \o t
  BY DEF Reconcile, Retired
<1>2. m \in Nat /\ DOMAIN changes = 1 .. m
  BY DEF ChangesOK
<1>3. IsFiniteSet(S)
  <2>1. F \in SUBSET r.drafts
    BY DEF Fresh
  <2> DEFINE h == [f \in F |-> Proposed(f)]
  <2>2. h = [f \in F |-> h[f]] /\ S = {h[f] : f \in F}
    OBVIOUS
  <2> HIDE DEF h, S, F
  <2>3. IsFiniteSet(F)
    BY <2>1, FS_Subset
  <2> QED BY <2>2, <2>3, FiniteImage
<1>4. /\ n \in Nat /\ t \in [1 .. n -> S]
      /\ \A i, j \in 1 .. n : t[i] = t[j] => i = j
      /\ \A x \in S : \E i \in 1 .. n : t[i] = x
  <2> HIDE DEF S
  <2> QED BY <1>3, Listing
<1>5. /\ s = [i \in 1 .. m |-> s[i]] /\ t = [i \in 1 .. n |-> t[i]]
      /\ \A i \in 1 .. m : s[i] = Retired(i, r)
  BY <1>2, <1>4
<1>6. \A x \in S : \E f \in F : x = Proposed(f)
  OBVIOUS
<1>7. \A f \in F : Proposed(f) \in S
  OBVIOUS
<1> DEFINE u == changes'
<1> HIDE DEF s, t, m, n, S, F, u
<1>8. /\ u = [i \in 1 .. Len(u) |-> u[i]] /\ Len(u) = m + n /\ DOMAIN u = 1 .. (m + n)
      /\ \A i \in 1 .. m : u[i] = s[i]
      /\ \A i \in 1 .. n : u[m + i] = t[i]
      /\ \A i \in DOMAIN u : i \in 1 .. m \/ (i - m \in 1 .. n /\ u[i] = t[i - m])
  BY <1>1, <1>2, <1>4, <1>5, Concatenation DEF u
<1>9. \A i \in DOMAIN u : i \in 1 .. m \/ \E f \in F : u[i] = Proposed(f)
  BY <1>4, <1>6, <1>8
<1>10. ASSUME NEW f \in F
       PROVE  \E i \in DOMAIN u : i \notin 1 .. m /\ u[i] = Proposed(f)
  <2>1. PICK i \in 1 .. n : t[i] = Proposed(f)
    BY <1>4, <1>7
  <2>2. m + i \in DOMAIN u /\ m + i \notin 1 .. m /\ u[m + i] = Proposed(f)
    BY <1>2, <1>4, <1>8, <2>1
  <2> QED BY <2>2
<1>11. ASSUME NEW i \in DOMAIN u \ 1 .. m, NEW j \in DOMAIN u \ 1 .. m, u[i] = u[j]
       PROVE  i = j
  <2>1. i - m \in 1 .. n /\ j - m \in 1 .. n /\ t[i - m] = t[j - m]
    BY <1>8, <1>11
  <2>2. i - m = j - m
    BY <1>4, <2>1
  <2> QED BY <1>2, <1>4, <1>8, <2>2
<1>12. m <= Len(u) /\ Len(u) \in Nat
  BY <1>2, <1>4, <1>8
<1> QED BY <1>2, <1>5, <1>8, <1>9, <1>10, <1>11, <1>12 DEF Left, u, m, F

\* Of each kind and entry one change at most stays current.
LEMMA ReconcileKeepsChanges ==
  ASSUME ChangesOK, NEW d \in Runs, RunOK(run[d], omitted[d]), Reconcile(d), ~Collides(run[d]),
         UNCHANGED records
  PROVE  ChangesOK' /\ Persist
<1> DEFINE r == run[d]
           m == Len(changes)
           old == 1 .. m
<1>1. Left(r)
  BY ReconcileLeaves DEF RunOK
<1>2. DOMAIN changes = old /\ old \subseteq DOMAIN changes' /\ DOMAIN changes' = 1 .. Len(changes')
  BY <1>1 DEF Left, ChangesOK
<1>3. \A i \in old : changes'[i] = Retired(i, r)
  BY <1>1 DEF Left
<1>4. \A i \in old :
        LET c == changes'[i]
            a == changes[i] IN
        /\ c.kind = a.kind /\ c.ext = a.ext /\ c.l = a.l /\ c.row = a.row /\ c.loc = a.loc /\ c.rem = a.rem
        /\ c.status = a.status /\ c.applied = a.applied
        /\ c.current = (a.current /\ i \notin Superseded(r))
        /\ ChangeShape(c) /\ Fingerprint(c) = Fingerprint(a)
  BY <1>2, <1>3, RetiredFields
<1>5. \A i \in DOMAIN changes' : i \in old \/ \E f \in Fresh(r) : changes'[i] = Proposed(f)
  BY <1>1 DEF Left
<1>6. \A f \in Fresh(r) : f \in r.drafts /\ DraftOK(f)
  BY DEF Fresh, RunOK
<1>7. \A i \in DOMAIN changes' \ old : \E f \in Fresh(r) :
        LET c == changes'[i] IN
        /\ c.kind = f.kind /\ c.ext = f.ext /\ c.l = f.l /\ c.row = f.row /\ c.loc = f.loc
        /\ c.rem = f.rem /\ c.status = "proposed" /\ c.applied = 0
        /\ c.current = TRUE /\ c.current \in BOOLEAN
        /\ ChangeShape(c) /\ Fingerprint(c) = Fingerprint(f) /\ c = Proposed(f)
  BY <1>5, ProposedFields
<1> HIDE DEF r, old
<1>8. Persist
  BY <1>2, <1>4 DEF Persist
<1>9. \A i \in DOMAIN changes' : DraftOK(changes[i])'
  <2> TAKE i \in DOMAIN changes'
  <2>1. CASE i \in old
    <3>1. DraftOK(changes[i])
      BY <1>2, <2>1 DEF ChangesOK
    <3> QED BY <1>4, <2>1, <3>1 DEF DraftOK, records
  <2>2. CASE i \notin old
    <3>1. PICK f \in Fresh(r) :
            LET c == changes'[i] IN
            c.kind = f.kind /\ c.ext = f.ext /\ c.l = f.l /\ c.row = f.row /\ c.rem = f.rem
      BY <1>7, <2>2
    <3>2. DraftOK(f)
      BY <1>6
    <3> QED BY <3>1, <3>2 DEF DraftOK, records
  <2> QED BY <2>1, <2>2
<1>10. \A i \in DOMAIN changes' :
         /\ ChangeShape(changes'[i]) /\ changes'[i].status \in {"proposed", "accepted", "rejected"}
         /\ changes'[i].current \in BOOLEAN /\ changes'[i].applied \in Nat
  <2> TAKE i \in DOMAIN changes'
  <2>1. CASE i \in old
    <3>1. i \in DOMAIN changes
      BY <1>2, <2>1
    <3>2. /\ changes[i].status \in {"proposed", "accepted", "rejected"}
          /\ changes[i].current \in BOOLEAN /\ changes[i].applied \in Nat
      BY <3>1 DEF ChangesOK
    <3>3. ChangeShape(changes'[i]) /\ changes'[i].status = changes[i].status
          /\ changes'[i].applied = changes[i].applied /\ changes'[i].current \in BOOLEAN
      BY <1>4, <2>1, <3>2
    <3> QED BY <3>2, <3>3
  <2>2. CASE i \notin old
    <3>1. /\ ChangeShape(changes'[i]) /\ changes'[i].status = "proposed"
          /\ changes'[i].current \in BOOLEAN /\ changes'[i].applied = 0
      BY <1>7, <2>2
    <3> QED BY <3>1
  <2> QED BY <2>1, <2>2
<1>11. ASSUME NEW i \in DOMAIN changes', NEW j \in DOMAIN changes',
              changes'[i].current, changes'[j].current,
              Fingerprint(changes'[i]) = Fingerprint(changes'[j])
       PROVE  i = j
  <2>1. \A h \in old : changes'[h].current =>
          h \in Current /\ h \notin Superseded(r) /\ Fingerprint(changes[h]) = Fingerprint(changes'[h])
    BY <1>2, <1>4 DEF Current
  <2>2. \A h \in old, f \in Fresh(r) : changes'[h].current => Fingerprint(f) # Fingerprint(changes'[h])
    <3> SUFFICES ASSUME NEW h \in old, NEW f \in Fresh(r), changes'[h].current,
                        Fingerprint(f) = Fingerprint(changes'[h])
                 PROVE  FALSE
      OBVIOUS
    <3>1. /\ h \in Current /\ h \notin Superseded(r)
          /\ Fingerprint(f) = Fingerprint(changes[h])
      BY <2>1
    <3>2. CASE h \in r.known
      BY <3>1, <3>2 DEF Superseded
    <3>3. CASE h \notin r.known
      BY <3>1, <3>3 DEF Collides, r
    <3> QED BY <3>2, <3>3
  <2>3. CASE i \in old /\ j \in old
    BY <1>11, <2>1, <2>3 DEF ChangesOK
  <2>4. CASE i \in old /\ j \notin old
    BY <1>7, <1>11, <2>2, <2>4
  <2>5. CASE i \notin old /\ j \in old
    BY <1>7, <1>11, <2>2, <2>5
  <2>6. CASE i \notin old /\ j \notin old
    <3>1. PICK f \in Fresh(r) : changes'[i] = Proposed(f) /\ Fingerprint(changes'[i]) = Fingerprint(f)
      BY <1>7, <2>6
    <3>2. PICK g \in Fresh(r) : changes'[j] = Proposed(g) /\ Fingerprint(changes'[j]) = Fingerprint(g)
      BY <1>7, <2>6
    <3>3. f = g
      BY <1>6, <1>11, <3>1, <3>2 DEF RunOK, OnePerPrint, r
    <3> QED BY <1>1, <2>6, <3>1, <3>2, <3>3 DEF Left, old
  <2> QED BY <2>3, <2>4, <2>5, <2>6
<1>12. changes' = [i \in 1 .. Len(changes') |-> changes'[i]] /\ Len(changes') \in Nat
  BY <1>1 DEF Left
<1>13. \A i, j \in Current' : Fingerprint(changes'[i]) = Fingerprint(changes'[j]) => i = j
  BY <1>11 DEF Current
<1> QED BY <1>8, <1>9, <1>10, <1>12, <1>13 DEF ChangesOK, Fingerprint

LEMMA ReconcileStep ==
  ASSUME RemoteInv, NEW d \in Runs, Reconcile(d)
  PROVE  RemoteInv'
<1>1. /\ RunOK(run[d], omitted[d]) /\ ChangesOK /\ UNCHANGED <<records, decision, push>>
      /\ omitted' = [omitted EXCEPT ![d] = {}] /\ omitted = [e \in Runs |-> omitted[e]]
      /\ run' = [run EXCEPT ![d] = [IdleRun EXCEPT !.pc = "done"]] /\ run = [e \in Runs |-> run[e]]
  BY DEF RemoteInv, Reconcile
<1>2. RecordsOK' /\ LinksOK' /\ Grows
  BY <1>1, RecordsStand DEF RemoteInv
<1>3. ChangesOK' /\ Persist
  <2>1. CASE Collides(run[d])
    <3>1. UNCHANGED changes
      BY <2>1 DEF Reconcile
    <3> QED BY <1>1, <1>2, <3>1, ChangesKept DEF Persist
  <2>2. CASE ~Collides(run[d])
    BY <1>1, <2>2, ReconcileKeepsChanges
  <2> QED BY <2>1, <2>2
<1>4. \A k \in Decisions : DecisionOK(decision[k])'
  BY <1>1, <1>2, <1>3, DecisionKept DEF RemoteInv
<1>5. \A p \in Pushes : PushOK(push[p])'
  BY <1>1, <1>2, PushKept DEF RemoteInv
<1>6. RunOK(run[d], omitted[d])'
  <2> DEFINE g == run'[d]
  <2>1. /\ g.pc = "done" /\ g.paired = FALSE /\ g.views = {} /\ g.seen = <<>>
        /\ g.complete = FALSE /\ g.known = {} /\ g.drafts = {} /\ RunShape(g)
    <3>1. g = [IdleRun EXCEPT !.pc = "done"]
      BY <1>1
    <3> HIDE DEF g
    <3> QED BY <3>1 DEF IdleRun, RunShape
  <2>2. IsFiniteSet({}) /\ DOMAIN <<>> = {}
    BY FS_EmptySet
  <2>3. g = run'[d]
    OBVIOUS
  <2> HIDE DEF g
  <2> QED BY <2>1, <2>2, <2>3 DEF RunOK, SeenOK, OnePerPrint, RunShape
<1>7. \A e \in Runs : RunOK(run[e], omitted[e])'
  <2> TAKE e \in Runs
  <2>1. CASE e = d
    BY <1>6, <2>1
  <2>2. CASE e # d
    <3>1. run'[e] = run[e] /\ RunOK(run[e], omitted[e]) /\ omitted'[e] = omitted[e]
      BY <1>1, <2>2 DEF RemoteInv
    <3> QED BY <1>2, <1>3, <3>1, RunKept
  <2> QED BY <2>1, <2>2
<1>8. run' = [e \in Runs |-> run'[e]] /\ push' = [p \in Pushes |-> push'[p]]
      /\ decision' = [k \in Decisions |-> decision'[k]] /\ omitted' = [e \in Runs |-> omitted'[e]]
  BY <1>1 DEF RemoteInv
<1> QED BY <1>2, <1>3, <1>4, <1>5, <1>7, <1>8 DEF RemoteInv

-----------------------------------------------------------------------------
(* The invariant holds *)

LEMMA RemoteInit ==
  ASSUME Init
  PROVE  RemoteInv
<1>1. RecordsOK
  <2>1. Worth \in [Records -> Figures] /\ \A s \in Settlements : Worth[s] # 0
    BY AmountsAssumption DEF Records, Figures
  <2> QED BY <2>1 DEF Init, RecordsOK
<1>2. LinksOK /\ ChangesOK
  BY DEF Init, LinksOK, ChangesOK, Current
<1>3. \A d \in Runs : RunOK(run[d], omitted[d])
  <2> TAKE d \in Runs
  <2> DEFINE g == run[d]
  <2>1. /\ g.pc = "idle" /\ g.paired = FALSE /\ g.views = {} /\ g.seen = <<>>
        /\ g.complete = FALSE /\ g.known = {} /\ g.drafts = {} /\ RunShape(g)
    <3>1. g = IdleRun
      BY DEF Init
    <3> HIDE DEF g
    <3> QED BY <3>1 DEF IdleRun, RunShape
  <2>2. IsFiniteSet({}) /\ DOMAIN <<>> = {}
    BY FS_EmptySet
  <2> HIDE DEF g
  <2>3. RunOK(g, omitted[d])
    BY <2>1, <2>2 DEF RunOK, SeenOK, OnePerPrint
  <2> QED BY <2>3 DEF g
<1>4. \A p \in Pushes : PushOK(push[p])
  BY DEF Init, PushOK, IdlePush
<1>5. \A k \in Decisions : DecisionOK(decision[k])
  <2> TAKE k \in Decisions
  <2>1. decision[k] = IdleDecision
    BY DEF Init
  <2> QED BY <2>1 DEF DecisionOK, IdleDecision
<1>6. run = [d \in Runs |-> run[d]] /\ push = [p \in Pushes |-> push[p]]
      /\ decision = [k \in Decisions |-> decision[k]] /\ omitted = [d \in Runs |-> omitted[d]]
  BY DEF Init
<1> QED BY <1>1, <1>2, <1>3, <1>4, <1>5, <1>6 DEF RemoteInv

LEMMA RemoteStutter ==
  ASSUME RemoteInv, UNCHANGED vars
  PROVE  RemoteInv'
<1>1. UNCHANGED <<records, changes, run, decision, push, omitted>>
  BY DEF vars, history
<1>2. RecordsOK' /\ LinksOK' /\ Grows
  BY <1>1, RecordsStand DEF RemoteInv
<1> QED BY <1>1, <1>2, WorldMoves, PushKept DEF RemoteInv

LEMMA RemoteNext ==
  ASSUME RemoteInv, Next
  PROVE  RemoteInv'
<1>1. ASSUME NEW d \in Runs, BeginRun(d) \/ ListEntries(d) \/ Compare(d) \/ Reconcile(d)
      PROVE  RemoteInv'
  BY <1>1, BeginRunStep, ListEntriesStep, CompareStep, ReconcileStep
<1>2. ASSUME NEW k \in Decisions,
             \/ \E c \in DOMAIN changes, accept \in BOOLEAN, target \in Records \cup {Nobody} :
                  BeginDecision(k, c, accept, target)
             \/ Reject(k) \/ AcceptDrift(k) \/ AcceptDeletion(k) \/ AcceptAdoption(k) \/ AcceptMapping(k)
      PROVE  RemoteInv'
  BY <1>2, BeginDecisionStep, DecisionEnds
<1>3. ASSUME NEW p \in Pushes,
             \/ \E l \in Records : FirstSync(p, l)
             \/ \E i \in DOMAIN links : Recreate(p, i) \/ Correct(p, i) \/ Withdraw(p, i)
             \/ RecordPush(p) \/ LosePush(p)
      PROVE  RemoteInv'
  BY <1>3, PushBegins, PushEnds
<1>4. ASSUME NEW e \in Expenses, Redivide(e) \/ \E n \in Amounts \cup {0} : MoveLedger(e, n)
      PROVE  RemoteInv'
  BY <1>4, MoveLedgerStep, RedivideStep DEF Figures
<1>5. ASSUME \/ \E x \in DOMAIN remote :
                  OthersDelete(x) \/ \E n \in Amounts, friend \in BOOLEAN : OthersEdit(x, n, friend)
             \/ \E kind \in {"expense", "payment"}, n \in Amounts : OthersAdd(kind, n)
      PROVE  RemoteInv'
  BY <1>5, OthersStep
<1> QED BY <1>1, <1>2, <1>3, <1>4, <1>5 DEF Next

\* The inductive invariant holds throughout.
LEMMA RemoteInvHolds == Spec => []RemoteInv
BY RemoteInit, RemoteNext, RemoteStutter, PTL DEF Spec

\* Whatever runs, decisions, pushes and other people do at once: a link keeps to
\* an entry of its kind that no other link has, in a status its record may have,
\* and of each kind of difference of an entry one change at most is current
\* (splitwise_expenses_external_unique, splitwise_remote_changes_current_idx).
THEOREM RemoteTypeCorrect == Spec => []RemoteTypeOK
<1>1. ASSUME RemoteInv
      PROVE  RemoteTypeOK
  <2>1. \A i \in DOMAIN links : links[i] \in LinkRow
    BY <1>1 DEF RemoteInv, RecordsOK
  <2> QED BY <1>1, <2>1
          DEF RemoteInv, RecordsOK, LinksOK, ChangesOK, RemoteTypeOK, LinkRow, StatusesOf, Figures
<1> QED BY <1>1, RemoteInvHolds, PTL

\* What a run is about to say of an expense's entry, that it is gone, is so: it is
\* deleted, or it left the friend out when the run listed.  A partial listing
\* does not make it up, and neither do pushes, adoptions, new splits and other
\* people that made what the run read old before it was compared.
THEOREM AbsencesAreExplained == Spec => []AbsenceIsExplained
<1>1. ASSUME RemoteInv
      PROVE  AbsenceIsExplained
  <2>1. \A d \in Runs : RunOK(run[d], omitted[d])
    BY <1>1 DEF RemoteInv
  <2> QED BY <2>1 DEF RunOK, Away, AbsenceIsExplained
<1> QED BY <1>1, RemoteInvHolds, PTL

-----------------------------------------------------------------------------
(* Work in hand *)

SameLinks ==
    DOMAIN links' = DOMAIN links /\ \A i \in DOMAIN links : links'[i].l = links[i].l

\* Changes keep their decision; new ones have none.
SameDecisions ==
    /\ \A i \in DOMAIN changes :
         /\ i \in DOMAIN changes' /\ changes'[i].kind = changes[i].kind
         /\ changes'[i].status = changes[i].status /\ changes'[i].applied = changes[i].applied
    /\ \A i \in DOMAIN changes' \ DOMAIN changes :
         changes'[i].status = "proposed" /\ changes'[i].applied = 0

\* A record that had no link has none.
StaysFree(l) == Free(l) => Free(l)'

LEMMA SameRows ==
  ASSUME WorkInv, SameLinks, UNCHANGED contested
  PROVE  OneLinkPerRecord' /\ \A l : StaysFree(l)
BY DEF WorkInv, OneLinkPerRecord, SameLinks, StaysFree, Free

LEMMA SameEffects ==
  ASSUME WorkInv, SameDecisions, UNCHANGED contested
  PROVE  EffectHasItsDecision'
<1> SUFFICES ASSUME NEW i \in DOMAIN changes', <<"change", i>> \notin contested
             PROVE  changes'[i].applied = IF changes'[i].status = "accepted" THEN 1 ELSE 0
  BY DEF EffectHasItsDecision
<1>1. CASE i \in DOMAIN changes
  BY <1>1 DEF WorkInv, EffectHasItsDecision, SameDecisions
<1>2. CASE i \notin DOMAIN changes
  BY <1>2 DEF SameDecisions
<1> QED BY <1>1, <1>2

\* No work is taken in hand: what is still in hand keeps what it found, unless it is contested.
LEMMA NothingTaken ==
  ASSUME RemoteInv, WorkInv, UNCHANGED contested, OneLinkPerRecord', EffectHasItsDecision',
         \A k \in Decisions : decision'[k].pc = "checked" =>
            /\ decision'[k] = decision[k]
            /\ changes'[decision[k].c].kind = changes[decision[k].c].kind
            /\ <<"change", decision[k].c>> \notin contested =>
                   changes'[decision[k].c].status = changes[decision[k].c].status
            /\ decision[k].accept /\ changes[decision[k].c].kind = "unlinked"
                   /\ <<"record", decision[k].target>> \notin contested => StaysFree(decision[k].target),
         \A p \in Pushes : push'[p].pc = "called" =>
            /\ push'[p] = push[p]
            /\ push[p].row = 0 /\ <<"record", push[p].l>> \notin contested => StaysFree(push[p].l)
  PROVE  WorkInv'
<1>1. \A k \in Decisions : decision'[k].pc = "checked" => decision'[k] = decision[k] /\ Checked(k)
  BY DEF Checked
<1>2. \A p \in Pushes : push'[p].pc = "called" /\ push'[p].row = 0 => push'[p] = push[p] /\ Opens(p)
  BY DEF Opens
<1>3. Apart'
  BY <1>1, <1>2 DEF WorkInv, Apart, Checked, Opens
<1>4. ASSUME NEW k \in Decisions, Checked(k)'
      PROVE  /\ <<"change", decision'[k].c>> \notin contested' => changes'[decision'[k].c].status = "proposed"
             /\ decision'[k].accept /\ changes'[decision'[k].c].kind = "unlinked"
                    /\ <<"record", decision'[k].target>> \notin contested' => Free(decision[k].target)'
  <2>1. decision'[k] = decision[k] /\ Checked(k)
    BY <1>1, <1>4 DEF Checked
  <2>2. /\ <<"change", decision[k].c>> \notin contested => changes[decision[k].c].status = "proposed"
        /\ decision[k].accept /\ changes[decision[k].c].kind = "unlinked"
               /\ <<"record", decision[k].target>> \notin contested => Free(decision[k].target)
    BY <2>1 DEF WorkInv, Found
  <2>3. decision'[k].pc = "checked"
    BY <1>4 DEF Checked
  <2> QED BY <2>1, <2>2, <2>3 DEF StaysFree, Free
<1>5. ASSUME NEW p \in Pushes, Opens(p)', <<"record", push'[p].l>> \notin contested'
      PROVE  Free(push[p].l)'
  <2>1. push'[p] = push[p] /\ Opens(p) /\ push'[p].pc = "called"
    BY <1>2, <1>5 DEF Opens
  <2>2. Free(push[p].l)
    BY <1>5, <2>1 DEF WorkInv, Found
  <2> QED BY <1>5, <2>1, <2>2 DEF StaysFree, Free, Opens
<1>6. Found'
  BY <1>4, <1>5 DEF Found
<1> QED BY <1>3, <1>6 DEF WorkInv

\* No work begins or ends.
LEMMA WorkStill ==
  ASSUME RemoteInv, WorkInv, SameLinks, SameDecisions, UNCHANGED <<decision, push, contested>>
  PROVE  WorkInv'
<1>1. OneLinkPerRecord' /\ EffectHasItsDecision' /\ \A l : StaysFree(l)
  BY SameRows, SameEffects
<1>2. \A k \in Decisions : decision[k].pc = "checked" => decision[k].c \in DOMAIN changes
  BY DEF RemoteInv, DecisionOK
<1>3. \A k \in Decisions : decision'[k].pc = "checked" =>
        /\ decision'[k] = decision[k]
        /\ changes'[decision[k].c].kind = changes[decision[k].c].kind
        /\ changes'[decision[k].c].status = changes[decision[k].c].status
  BY <1>2 DEF SameDecisions
<1> QED BY <1>1, <1>3, NothingTaken

\* A row is added for a record: it had none, or is contested.
LEMMA OneMoreRecord ==
  ASSUME RemoteInv, WorkInv, UNCHANGED contested, NEW row \in LinkRow, links' = Append(links, row),
         <<"record", row.l>> \notin contested => Free(row.l)
  PROVE  OneLinkPerRecord' /\ \A l : l # row.l => StaysFree(l)
<1>1. links \in Seq(LinkRow)
  BY DEF RemoteInv, RecordsOK
<1> DEFINE n == Len(links)
<1>2. /\ n \in Nat /\ DOMAIN links = 1 .. n /\ DOMAIN links' = 1 .. (n + 1)
      /\ links'[n + 1] = row /\ \A j \in 1 .. n : links'[j] = links[j]
  BY <1>1
<1> HIDE DEF n
<1>3. \A j \in 1 .. (n + 1) : j \in 1 .. n \/ j = n + 1
  BY <1>2
<1>4. OneLinkPerRecord'
  <2> SUFFICES ASSUME NEW i \in 1 .. (n + 1), NEW j \in 1 .. (n + 1), links'[i].l = links'[j].l,
                      <<"record", links'[i].l>> \notin contested
               PROVE  i = j
    BY <1>2 DEF OneLinkPerRecord
  <2>1. CASE links'[i].l = row.l
    <3>1. \A h \in 1 .. n : links[h].l # row.l
      BY <1>2, <2>1 DEF Free
    <3> QED BY <1>2, <1>3, <2>1, <3>1
  <2>2. CASE links'[i].l # row.l
    <3>1. i \in 1 .. n /\ j \in 1 .. n
      BY <1>2, <1>3, <2>2
    <3> QED BY <1>2, <3>1 DEF WorkInv, OneLinkPerRecord
  <2> QED BY <2>1, <2>2
<1>5. \A l : l # row.l => StaysFree(l)
  BY <1>2, <1>3 DEF StaysFree, Free
<1> QED BY <1>4, <1>5

\* Runs and the world do no such work.
LEMMA RunsAndWorldWork ==
  ASSUME RemoteInv, WorkInv,
         \/ \E d \in Runs : BeginRun(d) \/ ListEntries(d) \/ Compare(d) \/ Reconcile(d)
         \/ \E e \in Expenses : Redivide(e) \/ \E n \in Amounts \cup {0} : MoveLedger(e, n)
         \/ \E x \in DOMAIN remote :
              OthersDelete(x) \/ \E n \in Amounts, friend \in BOOLEAN : OthersEdit(x, n, friend)
         \/ \E kind \in {"expense", "payment"}, n \in Amounts : OthersAdd(kind, n)
         \/ UNCHANGED vars
  PROVE  WorkInv'
<1>1. ASSUME UNCHANGED <<links, changes, decision, push, contested>>
      PROVE  WorkInv'
  <2>1. SameLinks /\ SameDecisions
    BY <1>1 DEF SameLinks, SameDecisions
  <2> QED BY <1>1, <2>1, WorkStill
<1>2. ASSUME NEW d \in Runs, BeginRun(d) \/ ListEntries(d) \/ Compare(d)
      PROVE  WorkInv'
  BY <1>1, <1>2 DEF BeginRun, ListEntries, Compare, records, history
<1>3. ASSUME NEW d \in Runs, Reconcile(d)
      PROVE  WorkInv'
  <2>1. UNCHANGED <<links, decision, push, contested>>
    BY <1>3 DEF Reconcile, records
  <2>2. CASE Collides(run[d])
    BY <1>1, <1>3, <2>1, <2>2 DEF Reconcile
  <2>3. CASE ~Collides(run[d])
    <3>1. ChangesOK /\ IsFiniteSet(run[d].drafts)
      BY DEF RemoteInv, RunOK
    <3>2. Left(run[d])
      BY <1>3, <2>3, <3>1, ReconcileLeaves
    <3>3. \A i \in DOMAIN changes :
            /\ i \in DOMAIN changes' /\ changes'[i].kind = changes[i].kind
            /\ changes'[i].status = changes[i].status /\ changes'[i].applied = changes[i].applied
      <4> TAKE i \in DOMAIN changes
      <4>1. i \in DOMAIN changes' /\ changes'[i] = Retired(i, run[d])
        BY <3>1, <3>2 DEF Left, ChangesOK
      <4> QED BY <3>1, <4>1, RetiredFields
    <3>4. \A i \in DOMAIN changes' \ DOMAIN changes :
            changes'[i].status = "proposed" /\ changes'[i].applied = 0
      <4> TAKE i \in DOMAIN changes' \ DOMAIN changes
      <4>1. PICK f \in Fresh(run[d]) : changes'[i] = Proposed(f)
        BY <3>1, <3>2 DEF Left, ChangesOK
      <4> DEFINE a == changes'[i]
      <4>2. a = Proposed(f)
        BY <4>1
      <4> HIDE DEF a
      <4>3. a.status = "proposed" /\ a.applied = 0
        BY <4>2, ProposedFields
      <4> QED BY <4>3 DEF a
    <3>5. SameLinks /\ SameDecisions
      BY <2>1, <3>3, <3>4 DEF SameLinks, SameDecisions
    <3> QED BY <2>1, <3>5, WorkStill
  <2> QED BY <2>2, <2>3
<1>4. ASSUME NEW e \in Expenses, NEW n \in Amounts \cup {0}, MoveLedger(e, n)
      PROVE  WorkInv'
  <2>1. \A i \in DOMAIN links : links[i] \in LinkRow
    BY DEF RemoteInv, RecordsOK
  <2>2. \A i \in DOMAIN links : links'[i].l = links[i].l
    <3> TAKE i \in DOMAIN links
    <3>1. CASE links[i].l = e /\ links[i].st = "synced"
      <4>1. links'[i] = [links[i] EXCEPT !.st = "stale"]
        BY <1>4, <3>1 DEF MoveLedger
      <4> QED BY <2>1, <4>1 DEF LinkRow
    <3>2. CASE ~(links[i].l = e /\ links[i].st = "synced")
      BY <1>4, <3>2 DEF MoveLedger
    <3> QED BY <3>1, <3>2
  <2>3. SameLinks /\ SameDecisions /\ UNCHANGED <<decision, push, contested>>
    BY <1>4, <2>2 DEF SameLinks, SameDecisions, MoveLedger
  <2> QED BY <2>3, WorkStill
<1>8. ASSUME NEW e \in Expenses, Redivide(e)
      PROVE  WorkInv'
  BY <1>1, <1>8 DEF Redivide
<1>5. ASSUME NEW x \in DOMAIN remote,
             OthersDelete(x) \/ \E n \in Amounts, friend \in BOOLEAN : OthersEdit(x, n, friend)
      PROVE  WorkInv'
  BY <1>1, <1>5 DEF OthersDelete, OthersEdit, ChangeRemote
<1>6. ASSUME NEW kind \in {"expense", "payment"}, NEW n \in Amounts, OthersAdd(kind, n)
      PROVE  WorkInv'
  BY <1>1, <1>6 DEF OthersAdd, ChangeRemote
<1>7. CASE UNCHANGED vars
  BY <1>1, <1>7 DEF vars, records, history
<1> QED BY <1>2, <1>3, <1>4, <1>5, <1>6, <1>7, <1>8

\* What work is taken in hand twice is contested from then on.
LEMMA TakenTwice ==
  ASSUME NEW S, Taken(S)
  PROVE  /\ contested \subseteq contested'
         /\ \A m \in Decisions : Checked(m) =>
              /\ <<"change", decision[m].c>> \in S => <<"change", decision[m].c>> \in contested'
              /\ <<"record", decision[m].target>> \in S => <<"record", decision[m].target>> \in contested'
         /\ \A q \in Pushes : Opens(q) /\ <<"record", push[q].l>> \in S => <<"record", push[q].l>> \in contested'
BY DEF Taken, Checked, Opens

LEMMA DecisionsWork ==
  ASSUME RemoteInv, WorkInv, NEW k \in Decisions,
         \/ \E c \in DOMAIN changes, accept \in BOOLEAN, target \in Records \cup {Nobody} :
              BeginDecision(k, c, accept, target)
         \/ Reject(k) \/ AcceptDrift(k) \/ AcceptDeletion(k) \/ AcceptAdoption(k) \/ AcceptMapping(k)
  PROVE  WorkInv'
<1>1. decision = [m \in Decisions |-> decision[m]] /\ DecisionOK(decision[k])
  BY DEF RemoteInv
<1>2. ASSUME NEW c \in DOMAIN changes, NEW accept \in BOOLEAN, NEW target \in Records \cup {Nobody},
             BeginDecision(k, c, accept, target)
      PROVE  WorkInv'
  <2> DEFINE g == [pc |-> "checked", c |-> c, accept |-> accept, target |-> target]
             S == {<<"change", c>>, <<"record", target>>}
  <2>1. /\ decision' = [decision EXCEPT ![k] = g] /\ UNCHANGED <<links, changes, push>>
        /\ Undecided(c) /\ (accept => Acceptable(c, target)) /\ Taken(S) /\ ~Checked(k)
    BY <1>2 DEF BeginDecision, records, Checked
  <2>2. /\ contested \subseteq contested'
        /\ \A m \in Decisions : Checked(m) =>
             /\ decision[m].c = c => <<"change", c>> \in contested'
             /\ decision[m].target = target => <<"record", target>> \in contested'
        /\ \A q \in Pushes : Opens(q) /\ push[q].l = target => <<"record", target>> \in contested'
    BY <2>1, TakenTwice
  <2>3. decision'[k] = g /\ g.c = c /\ g.accept = accept /\ g.target = target
    BY <1>1, <2>1
  <2>4. \A m \in Decisions : m # k => decision'[m] = decision[m]
    BY <1>1, <2>1
  <2>5. changes[c].status = "proposed"
    BY <2>1 DEF Undecided
  <2>6. accept /\ changes[c].kind = "unlinked" => Free(target)
    BY <2>1 DEF Acceptable, BothFree, Free
  <2>7. OneLinkPerRecord' /\ EffectHasItsDecision'
    BY <2>1, <2>2 DEF WorkInv, OneLinkPerRecord, EffectHasItsDecision
  <2> HIDE DEF g, S
  <2>8. Apart'
    <3>1. ASSUME NEW m \in Decisions, NEW n \in Decisions, Checked(m)', Checked(n)', m # n
          PROVE  /\ decision'[m].c = decision'[n].c => <<"change", decision'[m].c>> \in contested'
                 /\ decision'[m].target = decision'[n].target => <<"record", decision'[m].target>> \in contested'
      <4>1. CASE m = k
        BY <2>2, <2>3, <2>4, <3>1, <4>1 DEF Checked
      <4>2. CASE n = k
        BY <2>2, <2>3, <2>4, <3>1, <4>2 DEF Checked
      <4>3. CASE m # k /\ n # k
        BY <2>2, <2>4, <3>1, <4>3 DEF Checked, WorkInv, Apart
      <4> QED BY <4>1, <4>2, <4>3
    <3>2. \A p, q \in Pushes : Opens(p)' /\ Opens(q)' /\ p # q =>
            (push'[p].l = push'[q].l => <<"record", push'[p].l>> \in contested')
      BY <2>1, <2>2 DEF WorkInv, Apart, Opens
    <3>3. ASSUME NEW m \in Decisions, NEW p \in Pushes, Checked(m)', Opens(p)', decision'[m].target = push'[p].l
          PROVE  <<"record", push'[p].l>> \in contested'
      <4>1. CASE m = k
        BY <2>1, <2>2, <2>3, <3>3, <4>1 DEF Opens
      <4>2. CASE m # k
        BY <2>1, <2>2, <2>4, <3>3, <4>2 DEF Checked, Opens, WorkInv, Apart
      <4> QED BY <4>1, <4>2
    <3> QED BY <3>1, <3>2, <3>3 DEF Apart
  <2>9. Found'
    <3>1. ASSUME NEW m \in Decisions, Checked(m)'
          PROVE  /\ <<"change", decision'[m].c>> \notin contested' => changes'[decision'[m].c].status = "proposed"
                 /\ decision'[m].accept /\ changes'[decision'[m].c].kind = "unlinked"
                        /\ <<"record", decision'[m].target>> \notin contested' => Free(decision[m].target)'
      <4>1. CASE m = k
        BY <2>1, <2>3, <2>5, <2>6, <4>1 DEF Free
      <4>2. CASE m # k
        <5>1. decision'[m] = decision[m] /\ Checked(m)
          BY <2>4, <3>1, <4>2 DEF Checked
        <5> QED BY <2>1, <2>2, <5>1 DEF WorkInv, Found, Free
      <4> QED BY <4>1, <4>2
    <3>2. ASSUME NEW p \in Pushes, Opens(p)', <<"record", push'[p].l>> \notin contested'
          PROVE  Free(push[p].l)'
      BY <2>1, <2>2, <3>2 DEF WorkInv, Found, Free, Opens
    <3> QED BY <3>1, <3>2 DEF Found
  <2> QED BY <2>7, <2>8, <2>9 DEF WorkInv
<1>3. ASSUME Checked(k), UNCHANGED <<push, contested>>,
             decision' = [decision EXCEPT ![k] = [IdleDecision EXCEPT !.pc = "done"]],
             OneLinkPerRecord', EffectHasItsDecision',
             \A i \in DOMAIN changes : changes'[i].kind = changes[i].kind
                                       /\ (i # decision[k].c => changes'[i].status = changes[i].status),
             \A l : l # decision[k].target => StaysFree(l)
      PROVE  WorkInv'
  <2>1. \A m \in Decisions : decision'[m].pc = "checked" => m # k /\ decision'[m] = decision[m] /\ Checked(m)
    BY <1>1, <1>3 DEF IdleDecision, Checked
  <2>2. \A m \in Decisions : Checked(m) => decision[m].c \in DOMAIN changes
    BY DEF RemoteInv, DecisionOK, Checked
  <2>3. \A m \in Decisions : Checked(m) /\ m # k =>
          /\ <<"change", decision[m].c>> \notin contested => decision[m].c # decision[k].c
          /\ <<"record", decision[m].target>> \notin contested => decision[m].target # decision[k].target
    BY <1>3 DEF WorkInv, Apart
  <2>4. \A p \in Pushes : Opens(p) /\ <<"record", push[p].l>> \notin contested => push[p].l # decision[k].target
    BY <1>3 DEF WorkInv, Apart
  <2>5. ASSUME NEW m \in Decisions, decision'[m].pc = "checked"
        PROVE  /\ decision'[m] = decision[m]
               /\ changes'[decision[m].c].kind = changes[decision[m].c].kind
               /\ <<"change", decision[m].c>> \notin contested =>
                      changes'[decision[m].c].status = changes[decision[m].c].status
               /\ decision[m].accept /\ changes[decision[m].c].kind = "unlinked"
                      /\ <<"record", decision[m].target>> \notin contested => StaysFree(decision[m].target)
    BY <1>3, <2>1, <2>2, <2>3, <2>5
  <2>6. ASSUME NEW p \in Pushes, push'[p].pc = "called"
        PROVE  /\ push'[p] = push[p]
               /\ push[p].row = 0 /\ <<"record", push[p].l>> \notin contested => StaysFree(push[p].l)
    BY <1>3, <2>4, <2>6 DEF Opens
  <2> QED BY <1>3, <2>5, <2>6, NothingTaken
<1>4. ASSUME Checked(k), NEW status, NEW n \in Nat, UNCHANGED <<push, contested>>,
             Decide(k, status, n), n = IF status = "accepted" THEN 1 ELSE 0, OneLinkPerRecord',
             \A l : l # decision[k].target => StaysFree(l)
      PROVE  WorkInv'
  <2> DEFINE c == decision[k].c
             a == changes[c]
             b == changes'[c]
  <2>1. c \in DOMAIN changes /\ ChangesOK
    BY <1>1, <1>4 DEF RemoteInv, DecisionOK, Checked
  <2>2. /\ DOMAIN changes' = DOMAIN changes
        /\ \A i \in DOMAIN changes : i # c => changes'[i] = changes[i]
        /\ b = [kind |-> a.kind, ext |-> a.ext, l |-> a.l, row |-> a.row, loc |-> a.loc, rem |-> a.rem,
                status |-> status, current |-> a.current, applied |-> a.applied + n]
    BY <1>4, <2>1, DecideWrites
  <2>3. b.status = status /\ b.applied = a.applied + n /\ b.kind = a.kind
    <3> HIDE DEF a, b
    <3> QED BY <2>2
  <2>4. <<"change", c>> \notin contested => b.applied = IF b.status = "accepted" THEN 1 ELSE 0
    <3>1. SUFFICES ASSUME <<"change", c>> \notin contested
                   PROVE  b.applied = IF b.status = "accepted" THEN 1 ELSE 0
      OBVIOUS
    <3>2. a.applied = 0
      BY <1>4, <2>1, <3>1 DEF WorkInv, Found, EffectHasItsDecision
    <3> HIDE DEF a, b
    <3> QED BY <1>4, <2>3, <3>2
  <2>5. EffectHasItsDecision'
    <3> SUFFICES ASSUME NEW i \in DOMAIN changes', <<"change", i>> \notin contested'
                 PROVE  changes'[i].applied = IF changes'[i].status = "accepted" THEN 1 ELSE 0
      BY DEF EffectHasItsDecision
    <3>1. CASE i = c
      BY <1>4, <2>4, <3>1
    <3>2. CASE i # c
      BY <1>4, <2>2, <3>2 DEF WorkInv, EffectHasItsDecision
    <3> QED BY <3>1, <3>2
  <2>6. \A i \in DOMAIN changes : changes'[i].kind = changes[i].kind
                                  /\ (i # c => changes'[i].status = changes[i].status)
    BY <2>2, <2>3
  <2> QED BY <1>3, <1>4, <2>5, <2>6 DEF Decide
<1>5. CASE Reject(k)
  <2>1. /\ Decide(k, "rejected", 0) /\ UNCHANGED <<push, links, contested>> /\ Checked(k)
    BY <1>5 DEF Reject, records, history, Checked
  <2>2. OneLinkPerRecord' /\ \A l : StaysFree(l)
    BY <2>1, SameRows DEF SameLinks
  <2> QED BY <1>4, <2>1, <2>2
<1>6. ASSUME NEW kind \in {"changed", "deleted"}, NEW st, MarkLink(k, kind, st)
      PROVE  WorkInv'
  <2> DEFINE c == decision[k].c
             i == changes[c].row
  <2>1. /\ Decide(k, "accepted", 1) /\ UNCHANGED <<push, contested>> /\ Checked(k)
        /\ changes[c].kind = kind /\ links' = [links EXCEPT ![i].st = st]
    BY <1>6 DEF MarkLink, Checked
  <2>2. \A j \in DOMAIN links : links[j] \in LinkRow
    BY DEF RemoteInv, RecordsOK
  <2> HIDE DEF i
  <2>3. SameLinks
    BY <2>1, <2>2 DEF SameLinks, LinkRow
  <2>4. OneLinkPerRecord' /\ \A l : StaysFree(l)
    BY <2>1, <2>3, SameRows
  <2> QED BY <1>4, <2>1, <2>4
<1>7. CASE AcceptAdoption(k)
  <2> DEFINE c == decision[k].c
             t == decision[k].target
             row == [l |-> t, st |-> "drifted", entry |-> changes[c].ext, sent |-> 0, snap |-> FALSE]
  <2>1. /\ Checked(k) /\ decision[k].accept /\ changes[c].kind = "unlinked"
        /\ UNCHANGED <<push, contested>>
    BY <1>7 DEF AcceptAdoption, Checked
  <2>2. CASE Claimed(t, changes[c].ext)
    <3>1. /\ decision' = [decision EXCEPT ![k] = [IdleDecision EXCEPT !.pc = "done"]]
          /\ UNCHANGED <<links, changes>>
      BY <1>7, <2>2 DEF AcceptAdoption
    <3>2. OneLinkPerRecord' /\ EffectHasItsDecision' /\ \A l : StaysFree(l)
      BY <2>1, <3>1 DEF WorkInv, OneLinkPerRecord, EffectHasItsDecision, StaysFree, Free
    <3> QED BY <1>3, <2>1, <3>1, <3>2
  <2>3. CASE ~Claimed(t, changes[c].ext)
    <3>1. Decide(k, "accepted", 1) /\ links' = Append(links, row)
      BY <1>7, <2>3 DEF AcceptAdoption
    <3>2. row \in LinkRow /\ row.l = t
      <4>1. t \in Records /\ c \in DOMAIN changes
        BY <1>1, <2>1 DEF DecisionOK, Checked
      <4>2. DraftOK(changes[c]) /\ remote \in Seq(Entry)
        BY <4>1 DEF RemoteInv, ChangesOK, RecordsOK
      <4> QED BY <2>1, <4>1, <4>2 DEF DraftOK, LinkRow, Statuses, Figures
    <3>3. <<"record", t>> \notin contested => Free(t)
      BY <2>1 DEF WorkInv, Found
    <3> HIDE DEF row
    <3>4. OneLinkPerRecord' /\ \A l : l # t => StaysFree(l)
      BY <2>1, <3>1, <3>2, <3>3, OneMoreRecord
    <3> QED BY <1>4, <2>1, <3>1, <3>4
  <2> QED BY <2>2, <2>3
<1>8. CASE AcceptMapping(k)
  <2>1. /\ Decide(k, "accepted", 1) /\ UNCHANGED <<push, links, contested>> /\ Checked(k)
    BY <1>8 DEF AcceptMapping, Checked
  <2>2. OneLinkPerRecord' /\ \A l : StaysFree(l)
    BY <2>1, SameRows DEF SameLinks
  <2> QED BY <1>4, <2>1, <2>2
<1> QED BY <1>2, <1>5, <1>6, <1>7, <1>8 DEF AcceptDrift, AcceptDeletion

LEMMA PushesWork ==
  ASSUME RemoteInv, WorkInv, NEW p \in Pushes,
         \/ \E l \in Records : FirstSync(p, l)
         \/ \E i \in DOMAIN links : Recreate(p, i) \/ Correct(p, i) \/ Withdraw(p, i)
         \/ RecordPush(p) \/ LosePush(p)
  PROVE  WorkInv'
<1>1. push = [o \in Pushes |-> push[o]] /\ PushOK(push[p]) /\ links \in Seq(LinkRow)
  BY DEF RemoteInv, RecordsOK
<1>2. ASSUME NEW l, NEW i, NEW entry, NEW st, Call(p, l, i, entry, st), i = 0 => Free(l)
      PROVE  WorkInv'
  <2> DEFINE q == [pc |-> "called", l |-> l, row |-> i, entry |-> entry, st |-> st, sent |-> net[l],
                   snap |-> Names(l)]
             S == IF i = 0 THEN {<<"record", l>>} ELSE {}
  <2>1. /\ push' = [push EXCEPT ![p] = q] /\ UNCHANGED <<links, changes, decision>>
        /\ Taken(S) /\ ~Opens(p)
    BY <1>2 DEF Call, Opens
  <2>2. /\ contested \subseteq contested'
        /\ i = 0 => \A m \in Decisions : Checked(m) /\ decision[m].target = l => <<"record", l>> \in contested'
        /\ i = 0 => \A o \in Pushes : Opens(o) /\ push[o].l = l => <<"record", l>> \in contested'
    BY <2>1, TakenTwice
  <2>3. push'[p] = q /\ q.row = i /\ q.l = l
    BY <1>1, <2>1
  <2>4. \A o \in Pushes : o # p => push'[o] = push[o]
    BY <1>1, <2>1
  <2>5. OneLinkPerRecord' /\ EffectHasItsDecision'
    BY <2>1, <2>2 DEF WorkInv, OneLinkPerRecord, EffectHasItsDecision
  <2> HIDE DEF q, S
  <2>6. \A o \in Pushes : Opens(o)' => \/ o = p /\ i = 0 /\ push'[o].l = l
                                       \/ o # p /\ Opens(o) /\ push'[o] = push[o]
    BY <2>3, <2>4 DEF Opens
  <2>7. Apart'
    <3>1. \A k, m \in Decisions : Checked(k)' /\ Checked(m)' /\ k # m =>
            /\ decision'[k].c = decision'[m].c => <<"change", decision'[k].c>> \in contested'
            /\ decision'[k].target = decision'[m].target => <<"record", decision'[k].target>> \in contested'
      BY <2>1, <2>2 DEF WorkInv, Apart, Checked
    <3>2. ASSUME NEW o \in Pushes, NEW n \in Pushes, Opens(o)', Opens(n)', o # n, push'[o].l = push'[n].l
          PROVE  <<"record", push'[o].l>> \in contested'
      <4>1. CASE o = p
        BY <2>2, <2>6, <3>2, <4>1
      <4>2. CASE n = p
        BY <2>2, <2>6, <3>2, <4>2
      <4>3. CASE o # p /\ n # p
        BY <2>2, <2>6, <3>2, <4>3 DEF WorkInv, Apart
      <4> QED BY <4>1, <4>2, <4>3
    <3>3. ASSUME NEW k \in Decisions, NEW o \in Pushes, Checked(k)', Opens(o)', decision'[k].target = push'[o].l
          PROVE  <<"record", push'[o].l>> \in contested'
      <4>1. decision'[k] = decision[k] /\ Checked(k)
        BY <2>1, <3>3 DEF Checked
      <4>2. CASE o = p
        BY <2>2, <2>6, <3>3, <4>1, <4>2
      <4>3. CASE o # p
        BY <2>2, <2>6, <3>3, <4>1, <4>3 DEF WorkInv, Apart
      <4> QED BY <4>2, <4>3
    <3> QED BY <3>1, <3>2, <3>3 DEF Apart
  <2>8. Found'
    <3>1. \A k \in Decisions : Checked(k)' =>
            /\ <<"change", decision'[k].c>> \notin contested' => changes'[decision'[k].c].status = "proposed"
            /\ decision'[k].accept /\ changes'[decision'[k].c].kind = "unlinked"
                   /\ <<"record", decision'[k].target>> \notin contested' => Free(decision[k].target)'
      BY <2>1, <2>2 DEF WorkInv, Found, Free, Checked
    <3>2. ASSUME NEW o \in Pushes, Opens(o)', <<"record", push'[o].l>> \notin contested'
          PROVE  Free(push[o].l)'
      <4>1. CASE o = p
        BY <1>2, <2>1, <2>6, <3>2, <4>1 DEF Free
      <4>2. CASE o # p
        BY <2>1, <2>2, <2>6, <3>2, <4>2 DEF WorkInv, Found, Free
      <4> QED BY <4>1, <4>2
    <3> QED BY <3>1, <3>2 DEF Found
  <2> QED BY <2>5, <2>7, <2>8 DEF WorkInv
<1>3. ASSUME NEW l \in Records, FirstSync(p, l)
      PROVE  WorkInv'
  BY <1>2, <1>3 DEF FirstSync, CreateEntry, Free
<1>4. ASSUME NEW i \in DOMAIN links, Recreate(p, i) \/ Correct(p, i) \/ Withdraw(p, i)
      PROVE  WorkInv'
  <2>1. i # 0
    BY <1>1
  <2> QED BY <1>2, <1>4, <2>1 DEF Recreate, CreateEntry, Correct, Withdraw
<1>5. ASSUME RecordPush(p) \/ LosePush(p)
      PROVE  WorkInv'
  <2>1. /\ push[p].pc = "called" /\ UNCHANGED <<changes, decision, contested>>
        /\ push' = [push EXCEPT ![p] = [IdlePush EXCEPT !.pc = "done"]]
    BY <1>5 DEF RecordPush, LosePush, history
  <2>2. \A o \in Pushes : push'[o].pc = "called" => o # p /\ push'[o] = push[o]
    BY <1>1, <2>1 DEF IdlePush
  <2>3. EffectHasItsDecision'
    BY <2>1 DEF WorkInv, EffectHasItsDecision
  <2>4. ASSUME OneLinkPerRecord', \A l : ~(Opens(p) /\ l = push[p].l) => StaysFree(l)
        PROVE  WorkInv'
    <3>1. ASSUME NEW k \in Decisions, decision'[k].pc = "checked"
          PROVE  /\ decision'[k] = decision[k]
                 /\ changes'[decision[k].c].kind = changes[decision[k].c].kind
                 /\ <<"change", decision[k].c>> \notin contested =>
                        changes'[decision[k].c].status = changes[decision[k].c].status
                 /\ decision[k].accept /\ changes[decision[k].c].kind = "unlinked"
                        /\ <<"record", decision[k].target>> \notin contested => StaysFree(decision[k].target)
      <4>1. Checked(k)
        BY <2>1, <3>1 DEF Checked
      <4>2. Opens(p) /\ decision[k].target = push[p].l => <<"record", decision[k].target>> \in contested
        BY <4>1 DEF WorkInv, Apart
      <4> QED BY <2>1, <2>4, <4>2
    <3>2. ASSUME NEW o \in Pushes, push'[o].pc = "called"
          PROVE  /\ push'[o] = push[o]
                 /\ push[o].row = 0 /\ <<"record", push[o].l>> \notin contested => StaysFree(push[o].l)
      <4>1. o # p /\ push'[o] = push[o]
        BY <2>2, <3>2
      <4>2. push[o].row = 0 /\ Opens(p) /\ push[o].l = push[p].l => <<"record", push[o].l>> \in contested
        BY <3>2, <4>1 DEF WorkInv, Apart, Opens
      <4> QED BY <2>4, <4>1, <4>2
    <3> QED BY <2>1, <2>3, <2>4, <3>1, <3>2, NothingTaken
  <2>5. ASSUME SameLinks
        PROVE  WorkInv'
    BY <2>1, <2>4, <2>5, SameRows
  <2>6. CASE LosePush(p)
    BY <2>5, <2>6 DEF LosePush, records, SameLinks
  <2>7. CASE RecordPush(p)
    <3> DEFINE q == push[p]
               row == [l |-> q.l, st |-> q.st, entry |-> q.entry, sent |-> q.sent, snap |-> q.snap]
    <3>1. row \in LinkRow /\ row.l = q.l
      <4>1. remote \in Seq(Entry)
        BY DEF RemoteInv, RecordsOK
      <4> QED BY <1>1, <2>1, <4>1 DEF PushOK, LinkRow, Statuses
    <3>2. CASE q.row = 0
      <4>1. Opens(p) /\ links' = Append(links, row) /\ (<<"record", q.l>> \notin contested => Free(q.l))
        BY <2>1, <2>7, <3>2 DEF RecordPush, WorkInv, Found, Opens
      <4>2. OneLinkPerRecord' /\ \A l : l # q.l => StaysFree(l)
        <5> HIDE DEF row
        <5> QED BY <2>1, <3>1, <4>1, OneMoreRecord
      <4> QED BY <2>4, <4>1, <4>2
    <3>3. CASE q.row # 0
      <4>1. /\ links' = [links EXCEPT ![q.row] = row]
            /\ q.row \in DOMAIN links /\ links[q.row].l = q.l
        BY <1>1, <2>1, <2>7, <3>3 DEF RecordPush, PushOK
      <4>2. DOMAIN links' = DOMAIN links
        BY <4>1
      <4>3. \A j \in DOMAIN links : links'[j] = IF j = q.row THEN row ELSE links[j]
        <5> HIDE DEF row, q
        <5> QED BY <4>1
      <4>4. \A j \in DOMAIN links : links'[j].l = links[j].l
        <5> HIDE DEF row, q
        <5> QED BY <3>1, <4>1, <4>3
      <4>5. SameLinks
        <5> HIDE DEF row, q
        <5> QED BY <4>2, <4>4 DEF SameLinks
      <4> HIDE DEF row, q
      <4> QED BY <2>5, <4>5
    <3> QED BY <3>2, <3>3
  <2> QED BY <1>5, <2>6, <2>7
<1> QED BY <1>3, <1>4, <1>5

LEMMA WorkNext ==
  ASSUME RemoteInv, WorkInv, [Next]_vars
  PROVE  WorkInv'
<1>1. CASE Next
  BY <1>1, RunsAndWorldWork, DecisionsWork, PushesWork DEF Next
<1>2. CASE UNCHANGED vars
  BY <1>2, RunsAndWorldWork
<1> QED BY <1>1, <1>2

\* And so does this one.
LEMMA WorkInvHolds == Spec => []WorkInv
<1>1. Init => WorkInv
  BY DEF Init, WorkInv, Apart, Found, Checked, Opens, OneLinkPerRecord, EffectHasItsDecision,
         IdleDecision, IdlePush
<1>2. RemoteInv /\ WorkInv /\ [Next]_vars => WorkInv'
  BY WorkNext
<1> QED BY <1>1, <1>2, RemoteInvHolds, PTL DEF Spec

\* Adoptions, first syncs and re-created entries of any number of decisions and
\* pushes, overlapping as they may, give a record a second link only if two
\* adoptions or first syncs of that record were in hand at once.
THEOREM OneLinkEach == Spec => []OneLinkPerRecord
<1>1. WorkInv => OneLinkPerRecord
  BY DEF WorkInv
<1> QED BY <1>1, WorkInvHolds, PTL

\* The effect of a change is applied once if it is accepted and never otherwise,
\* whatever decisions of other changes, runs and pushes overlap: only two
\* decisions of that change in hand at once undo it.
THEOREM DecisionsApplyOnce == Spec => []EffectHasItsDecision
<1>1. WorkInv => EffectHasItsDecision
  BY DEF WorkInv
<1> QED BY <1>1, WorkInvHolds, PTL

-----------------------------------------------------------------------------
(* When nothing else moves *)

\* What a comparison is about: each kind of difference by its entry.
LEMMA PrintsAre ==
  ASSUME NEW views, NEW seen, NEW complete
  PROVE  {Fingerprint(f) : f \in Discover(views, seen, complete)} =
           {<<"deleted", v.entry>> : v \in {w \in Live(views) : Gone(w.entry, seen, complete)}}
           \cup {<<"changed", v.entry>> : v \in {w \in Live(views) :
                    /\ w.entry \in DOMAIN seen /\ ~seen[w.entry].deleted
                    /\ seen[w.entry].amount # Ours(w)}}
           \cup {<<"unlinked", x>> : x \in Unlinked(views, seen)}
           \cup {<<"duplicate", First(x, views, seen)>> :
                    x \in {y \in Unlinked(views, seen) : Cardinality(Alike(y, views, seen)) > 1}}
<1> DEFINE VA == {w \in Live(views) : Gone(w.entry, seen, complete)}
           VB == {w \in Live(views) : /\ w.entry \in DOMAIN seen /\ ~seen[w.entry].deleted
                                      /\ seen[w.entry].amount # Ours(w)}
           VC == Unlinked(views, seen)
           VD == {y \in Unlinked(views, seen) : Cardinality(Alike(y, views, seen)) > 1}
           FA(v) == Draft("deleted", v.entry, v, [st |-> v.st, own |-> 0, net |-> v.net], Snapshot(v.entry, seen))
           FB(v) == Draft("changed", v.entry, v, [st |-> v.st, own |-> Ours(v), net |-> v.net], Snapshot(v.entry, seen))
           FC(x) == Draft("unlinked", x, NoView, NoLocal, Snapshot(x, seen))
           FD(x) == Draft("duplicate", First(x, views, seen), NoView, NoLocal,
                          UNION {Snapshot(y, seen) : y \in Alike(x, views, seen)})
           D == Discover(views, seen, complete)
<1>1. D = (({FA(v) : v \in VA} \cup {FB(v) : v \in VB}) \cup {FC(x) : x \in VC}) \cup {FD(x) : x \in VD}
  BY DuplicatesAre DEF Discover, DeletedDrafts, ChangedDrafts, UnlinkedDrafts
<1>2. /\ \A v : Fingerprint(FA(v)) = <<"deleted", v.entry>>
      /\ \A v : Fingerprint(FB(v)) = <<"changed", v.entry>>
      /\ \A x : Fingerprint(FC(x)) = <<"unlinked", x>>
      /\ \A x : Fingerprint(FD(x)) = <<"duplicate", First(x, views, seen)>>
  BY DraftFields DEF Fingerprint
<1> HIDE DEF VA, VB, VC, VD, FA, FB, FC, FD, D
<1>3. {Fingerprint(f) : f \in D} =
        (({<<"deleted", v.entry>> : v \in VA} \cup {<<"changed", v.entry>> : v \in VB})
         \cup {<<"unlinked", x>> : x \in VC}) \cup {<<"duplicate", First(x, views, seen)>> : x \in VD}
  <2>1. \A f \in D : \/ \E v \in VA : Fingerprint(f) = <<"deleted", v.entry>>
                     \/ \E v \in VB : Fingerprint(f) = <<"changed", v.entry>>
                     \/ \E x \in VC : Fingerprint(f) = <<"unlinked", x>>
                     \/ \E x \in VD : Fingerprint(f) = <<"duplicate", First(x, views, seen)>>
    BY <1>1, <1>2
  <2>2. /\ \A v \in VA : FA(v) \in D
        /\ \A v \in VB : FB(v) \in D
        /\ \A x \in VC : FC(x) \in D
        /\ \A x \in VD : FD(x) \in D
    BY <1>1
  <2>3. /\ \A v \in VA : \E f \in D : Fingerprint(f) = <<"deleted", v.entry>>
        /\ \A v \in VB : \E f \in D : Fingerprint(f) = <<"changed", v.entry>>
        /\ \A x \in VC : \E f \in D : Fingerprint(f) = <<"unlinked", x>>
        /\ \A x \in VD : \E f \in D : Fingerprint(f) = <<"duplicate", First(x, views, seen)>>
    BY <1>2, <2>2
  <2> QED BY <2>1, <2>3
<1> QED BY <1>3 DEF VA, VB, VC, VD, D

\* Every entry that stands and names the friend is listed, as it stands.
Complete(seen) ==
    /\ \A x \in DOMAIN seen : x \in DOMAIN remote /\ remote[x].friend /\ seen[x] = remote[x]
    /\ \A x \in DOMAIN remote : Shown(x) => x \in DOMAIN seen

\* The views of the friend that are compared.
Compared == {v \in ViewsOf(Expenses) : Participates(v)} \cup ViewsOf(Settlements)

\* They are those of the rows that concern the friend.
LEMMA RowsOfViews ==
  ASSUME RecordsOK
  PROVE  /\ \A v \in Live(Compared) : \E i \in LiveRows :
              Concerns(i) /\ v = View(i) /\ v.entry = links[i].entry
         /\ \A i \in LiveRows : Concerns(i) => View(i) \in Live(Compared) /\ View(i).entry = links[i].entry
<1>1. \A i : LET v == View(i) IN v.l = links[i].l /\ v.st = links[i].st /\ v.entry = links[i].entry /\ v.snap = links[i].snap
  BY DEF View
<1>2. ASSUME NEW v \in Live(Compared)
      PROVE  \E i \in LiveRows : Concerns(i) /\ v = View(i) /\ v.entry = links[i].entry
  <2>1. v \in Compared /\ v.st \in LiveStatus(v.l)
    BY <1>2 DEF Live
  <2>2. CASE v \in ViewsOf(Expenses) /\ Participates(v)
    <3>1. PICK i \in DOMAIN links : v = View(i)
      BY <2>2 DEF ViewsOf
    <3>2. i \in LiveRows /\ Concerns(i)
      BY <1>1, <2>1, <2>2, <3>1 DEF LiveRows, Concerns, Participates
    <3> QED BY <1>1, <3>1, <3>2
  <2>3. CASE v \in ViewsOf(Settlements)
    <3>1. PICK i \in DOMAIN links : v = View(i) /\ links[i].l \in Settlements
      BY <2>3 DEF ViewsOf
    <3>2. i \in LiveRows /\ Concerns(i)
      BY <1>1, <2>1, <3>1 DEF LiveRows, Concerns, Names
    <3> QED BY <1>1, <3>1, <3>2
  <2> QED BY <2>1, <2>2, <2>3 DEF Compared
<1>3. ASSUME NEW i \in LiveRows, Concerns(i)
      PROVE  View(i) \in Live(Compared)
  <2>1. i \in DOMAIN links /\ links[i].st \in LiveStatus(links[i].l)
    BY DEF LiveRows
  <2>2. links[i].l \in Records
    <3>1. links[i] \in LinkRow
      BY <2>1 DEF RecordsOK
    <3> QED BY <3>1 DEF LinkRow
  <2>3. View(i) \in Compared
    <3>1. CASE links[i].l \in Expenses
      <4>1. View(i) \in ViewsOf(Expenses)
        BY <2>1, <3>1 DEF ViewsOf
      <4>2. Participates(View(i))
        BY <1>1, <1>3 DEF Concerns, Participates
      <4> QED BY <4>1, <4>2 DEF Compared
    <3>2. CASE links[i].l \in Settlements
      <4>1. View(i) \in ViewsOf(Settlements)
        BY <2>1, <3>2 DEF ViewsOf
      <4> QED BY <4>1 DEF Compared
    <3> QED BY <2>2, <3>1, <3>2 DEF Records
  <2> QED BY <1>1, <2>1, <2>3 DEF Live
<1> QED BY <1>1, <1>2, <1>3

\* The first of several entries that look alike is one that has another like it and none before it.
LEMMA FirstOfSeveral ==
  ASSUME RecordsOK, NEW views, NEW seen, SeenOK(seen), \A x \in DOMAIN seen : seen[x] = remote[x],
         NEW U, U = Unlinked(views, seen)
  PROVE  {<<"duplicate", First(x, views, seen)>> : x \in {y \in U : Cardinality(Alike(y, views, seen)) > 1}}
           = {<<"duplicate", x>> : x \in {y \in U :
                /\ \E z \in U : z # y /\ remote[z] = remote[y]
                /\ \A z \in U : remote[z] = remote[y] => y <= z}}
<1> DEFINE Several == {y \in U : Cardinality(Alike(y, views, seen)) > 1}
           Heads == {y \in U : /\ \E z \in U : z # y /\ remote[z] = remote[y]
                               /\ \A z \in U : remote[z] = remote[y] => y <= z}
<1>1. /\ U \in SUBSET Nat
      /\ \A x \in U : Alike(x, views, seen) = {y \in U : remote[y] = remote[x]}
      /\ \A x \in U : IsFiniteSet(Alike(x, views, seen))
  <2>1. U \subseteq DOMAIN seen /\ DOMAIN seen \subseteq DOMAIN remote
    BY DEF Unlinked, SeenOK
  <2>2. DOMAIN remote = 1 .. Len(remote) /\ Len(remote) \in Nat
    BY DEF RecordsOK
  <2>3. \A x \in U : Alike(x, views, seen) = {y \in U : remote[y] = remote[x]}
    BY <2>1 DEF Alike
  <2>4. IsFiniteSet(U)
    <3>1. IsFiniteSet(1 .. Len(remote))
      BY <2>2, FS_Interval
    <3>2. U \in SUBSET (1 .. Len(remote))
      BY <2>1, <2>2
    <3> QED BY <3>1, <3>2, FS_Subset
  <2>5. \A x \in U : IsFiniteSet(Alike(x, views, seen))
    BY <2>3, <2>4, FS_Subset
  <2>6. U \in SUBSET Nat
    BY <2>1, <2>2
  <2> QED BY <2>3, <2>5, <2>6
<1>2. ASSUME NEW x \in U
      PROVE  LET f == First(x, views, seen) IN
             /\ f \in U /\ remote[f] = remote[x]
             /\ \A z \in U : remote[z] = remote[x] => f <= z
  <2> DEFINE S == Alike(x, views, seen)
  <2>1. S \in SUBSET Nat /\ x \in S /\ S = {y \in U : remote[y] = remote[x]}
    BY <1>1
  <2> HIDE DEF S
  <2>2. \E y \in S : \A z \in S : y <= z
    BY <2>1, FirstOf
  <2>3. First(x, views, seen) = CHOOSE y \in S : \A z \in S : y <= z
    BY DEF First, S
  <2>4. First(x, views, seen) \in S /\ \A z \in S : First(x, views, seen) <= z
    BY <2>2, <2>3
  <2> QED BY <2>1, <2>4
<1>3. ASSUME NEW x \in Several
      PROVE  First(x, views, seen) \in Heads
  <2> DEFINE f == First(x, views, seen)
  <2>1. x \in U /\ Cardinality(Alike(x, views, seen)) > 1
    OBVIOUS
  <2>2. f \in U /\ remote[f] = remote[x] /\ \A z \in U : remote[z] = remote[x] => f <= z
    BY <1>2, <2>1
  <2> HIDE DEF f
  <2>3. \E z \in U : z # f /\ remote[z] = remote[f]
    <3>1. SUFFICES ASSUME \A z \in U : remote[z] = remote[f] => z = f
                   PROVE  FALSE
      OBVIOUS
    <3>2. Alike(x, views, seen) = {f}
      BY <1>1, <2>1, <2>2, <3>1
    <3>3. Cardinality({f}) = 1
      BY FS_Singleton
    <3> QED BY <2>1, <3>2, <3>3
  <2>4. f \in Heads
    BY <2>2, <2>3
  <2> QED BY <2>4 DEF f
<1>4. ASSUME NEW y \in Heads
      PROVE  y \in Several /\ First(y, views, seen) = y
  <2>1. y \in U /\ \A z \in U : remote[z] = remote[y] => y <= z
    OBVIOUS
  <2>2. PICK z \in U : z # y /\ remote[z] = remote[y]
    OBVIOUS
  <2>3. Cardinality({y, z}) = 2
    <3>1. IsFiniteSet({y}) /\ Cardinality({y}) = 1
      BY FS_Singleton
    <3>2. z \notin {y}
      BY <2>2
    <3>3. Cardinality({y} \cup {z}) = Cardinality({y}) + 1
      BY <3>1, <3>2, FS_AddElement
    <3>4. {y, z} = {y} \cup {z}
      OBVIOUS
    <3> QED BY <3>1, <3>3, <3>4
  <2>4. {y, z} \in SUBSET Alike(y, views, seen)
    BY <1>1, <2>1, <2>2
  <2>5. Cardinality(Alike(y, views, seen)) \in Nat /\ 2 <= Cardinality(Alike(y, views, seen))
    BY <1>1, <2>1, <2>3, <2>4, FS_Subset, FS_CardinalityType
  <2>6. y \in Several
    BY <2>1, <2>5
  <2> DEFINE f == First(y, views, seen)
  <2>7. f \in U /\ remote[f] = remote[y] /\ f <= y
    BY <1>2, <2>1
  <2> HIDE DEF f
  <2>8. f \in Nat /\ y \in Nat /\ y <= f
    BY <1>1, <2>1, <2>7
  <2>9. f = y
    BY <2>7, <2>8
  <2> QED BY <2>6, <2>9 DEF f
<1> HIDE DEF Several, Heads
<1>5. {<<"duplicate", First(x, views, seen)>> : x \in Several} = {<<"duplicate", x>> : x \in Heads}
  BY <1>3, <1>4
<1> QED BY <1>5 DEF Several, Heads

\* A complete listing shows the differences that a look at the pair would.
LEMMA TruthIsSeen ==
  ASSUME RecordsOK, LinksOK, mapped, NEW seen, Complete(seen)
  PROVE  SaysTheTruth({Fingerprint(f) : f \in Discover(Compared, seen, TRUE)})
<1> DEFINE prints == {Fingerprint(f) : f \in Discover(Compared, seen, TRUE)}
           G == {w \in Live(Compared) : Gone(w.entry, seen, TRUE)}
           H == {w \in Live(Compared) : /\ w.entry \in DOMAIN seen /\ ~seen[w.entry].deleted
                                        /\ seen[w.entry].amount # Ours(w)}
           A == {<<"deleted", v.entry>> : v \in G}
           B == {<<"changed", v.entry>> : v \in H}
           U == Unlinked(Compared, seen)
           C == {<<"unlinked", x>> : x \in U}
           D == {<<"duplicate", First(x, Compared, seen)>> :
                   x \in {y \in U : Cardinality(Alike(y, Compared, seen)) > 1}}
           I == {j \in LiveRows : Concerns(j) /\ ~Standing(links[j].entry)}
           J == {j \in LiveRows : Concerns(j) /\ Shown(links[j].entry)
                                  /\ remote[links[j].entry].amount # Ours(View(j))}
           TA == {<<"deleted", links[i].entry>> : i \in I}
           TB == {<<"changed", links[i].entry>> : i \in J}
           TC == {<<"unlinked", x>> : x \in Unclaimed}
           TD == {<<"duplicate", x>> : x \in {y \in Unclaimed :
                    /\ \E z \in Unclaimed : z # y /\ remote[z] = remote[y]
                    /\ \A z \in Unclaimed : remote[z] = remote[y] => y <= z}}
<1>1. prints = A \cup B \cup C \cup D
  BY PrintsAre
<1>2. Truth = TA \cup TB \cup TC \cup TD
  BY DEF Truth, PairTruth
<1>3. /\ \A v \in Live(Compared) : \E i \in LiveRows : Concerns(i) /\ v = View(i) /\ v.entry = links[i].entry
      /\ \A i \in LiveRows : Concerns(i) => View(i) \in Live(Compared) /\ View(i).entry = links[i].entry
  BY RowsOfViews
<1>4. \A i \in LiveRows : links[i].entry \in DOMAIN remote
  BY DEF LiveRows, LinksOK
<1>5. /\ \A x \in DOMAIN seen : x \in DOMAIN remote /\ remote[x].friend /\ seen[x] = remote[x]
      /\ \A x \in DOMAIN remote : Shown(x) <=> x \in DOMAIN seen /\ ~seen[x].deleted
  BY DEF Complete, Shown, Standing
<1>6. \A x \in DOMAIN remote : ~Standing(x) => Gone(x, seen, TRUE)
  BY <1>5 DEF Gone, Standing
<1>7. TA \subseteq A
  <2>1. \A i \in I : \E v \in G : v.entry = links[i].entry
    BY <1>3, <1>4, <1>6
  <2> HIDE DEF G, I
  <2> QED BY <2>1
<1>8. TB = B
  <2>1. \A i \in J : \E v \in H : v.entry = links[i].entry
    <3> TAKE i \in J
    <3>1. /\ View(i) \in Live(Compared) /\ View(i).entry = links[i].entry
          /\ links[i].entry \in DOMAIN remote /\ Shown(links[i].entry)
          /\ remote[links[i].entry].amount # Ours(View(i))
      BY <1>3, <1>4
    <3>2. View(i) \in H
      BY <1>5, <3>1
    <3> QED BY <3>1, <3>2
  <2>2. \A v \in H : \E i \in J : v.entry = links[i].entry
    <3> TAKE v \in H
    <3>1. PICK i \in LiveRows : Concerns(i) /\ v = View(i) /\ v.entry = links[i].entry
      BY <1>3
    <3>2. links[i].entry \in DOMAIN seen /\ ~seen[links[i].entry].deleted
          /\ seen[links[i].entry].amount # Ours(View(i))
      BY <3>1
    <3>3. i \in J
      BY <1>4, <1>5, <3>1, <3>2
    <3> QED BY <3>1, <3>3
  <2> HIDE DEF H, J
  <2> QED BY <2>1, <2>2
<1>9. Unclaimed \subseteq U
  <2>1. \A x \in Unclaimed : x \in DOMAIN seen /\ ~seen[x].deleted /\ \A i \in LiveRows : links[i].entry # x
    BY <1>5 DEF Unclaimed
  <2> QED BY <1>3, <2>1 DEF Unlinked
<1>10. \A t \in TD : t[1] = "duplicate"
  OBVIOUS
<1>11. ASSUME InStep
       PROVE  A \subseteq TA
  <2>1. \A v \in G : \E i \in I : v.entry = links[i].entry
    <3> TAKE v \in G
    <3>1. PICK i \in LiveRows : Concerns(i) /\ v = View(i) /\ v.entry = links[i].entry
      BY <1>3
    <3>2. Gone(links[i].entry, seen, TRUE)
      BY <3>1
    <3>3. Standing(links[i].entry) => Shown(links[i].entry)
      BY <1>11, <3>1 DEF InStep, Shown
    <3>4. ~Standing(links[i].entry)
      BY <1>4, <1>5, <3>2, <3>3 DEF Gone
    <3>5. i \in I
      BY <3>1, <3>4
    <3> QED BY <3>1, <3>5
  <2> HIDE DEF G, I
  <2> QED BY <2>1
<1>12. ASSUME InStep
       PROVE  U = Unclaimed
  <2>1. ASSUME NEW x \in U
        PROVE  x \in Unclaimed
    <3>1. x \in DOMAIN remote /\ Shown(x) /\ \A v \in Live(Compared) : v.entry # x
      BY <1>5, <2>1 DEF Unlinked
    <3>2. ASSUME NEW i \in LiveRows, links[i].entry = x
          PROVE  FALSE
      <4>1. Concerns(i)
        BY <1>12, <3>1, <3>2 DEF InStep, Shown
      <4> QED BY <1>3, <3>1, <3>2, <4>1
    <3> QED BY <3>1, <3>2 DEF Unclaimed
  <2> QED BY <1>9, <2>1
<1>13. ASSUME InStep
       PROVE  D = TD
  <2>1. SeenOK(seen) /\ \A x \in DOMAIN seen : seen[x] = remote[x]
    BY <1>5 DEF SeenOK
  <2>2. U = Unclaimed
    BY <1>12, <1>13
  <2>3. Unclaimed = Unlinked(Compared, seen)
    BY <2>2
  <2>4. {<<"duplicate", First(x, Compared, seen)>> :
           x \in {y \in Unclaimed : Cardinality(Alike(y, Compared, seen)) > 1}} = TD
    BY <2>1, <2>3, FirstOfSeveral
  <2> QED BY <2>2, <2>4
<1> HIDE DEF prints, A, B, C, D, TA, TB, TD
<1>14. TC \subseteq C
  BY <1>9 DEF C
<1>15. {t \in Truth : t[1] # "duplicate"} \subseteq prints
  <2> HIDE DEF TC
  <2> QED BY <1>1, <1>2, <1>7, <1>8, <1>10, <1>14
<1>16. InStep => prints = Truth
  <2>1. InStep => C = TC
    BY <1>12 DEF C
  <2> HIDE DEF TC
  <2> QED BY <1>1, <1>2, <1>7, <1>8, <1>11, <1>13, <2>1
<1> QED BY <1>15, <1>16 DEF SaysTheTruth, prints

\* What is read and compared depends on these alone.
LEMMA SameTruth ==
  ASSUME UNCHANGED <<mapped, net, within, links, remote>>
  PROVE  /\ Truth' = Truth /\ (InStep' <=> InStep)
         /\ \A ls : ViewsOf(ls)' = ViewsOf(ls)
         /\ \A x : Shown(x)' <=> Shown(x)
<1>1. \A i : View(i)' = View(i)
  BY DEF View
<1>2. \A ls : ViewsOf(ls)' = ViewsOf(ls)
  BY <1>1 DEF ViewsOf
<1>3. LiveRows' = LiveRows
  BY DEF LiveRows
<1>4. \A i : Concerns(i)' <=> Concerns(i)
  BY DEF Concerns, Names
<1>5. /\ \A x : Standing(x)' <=> Standing(x)
      /\ \A x : Shown(x)' <=> Shown(x)
  BY DEF Standing, Shown
<1>6. Unclaimed' = Unclaimed
  BY <1>3, <1>5 DEF Unclaimed
<1>7. InStep' <=> InStep
  BY <1>3, <1>4, <1>5 DEF InStep
<1>8. PairTruth' = PairTruth
  <2> DEFINE I == {j \in LiveRows : Concerns(j) /\ ~Standing(links[j].entry)}
             J == {j \in LiveRows : Concerns(j) /\ Shown(links[j].entry)
                                    /\ remote[links[j].entry].amount # Ours(View(j))}
             K == {y \in Unclaimed : /\ \E z \in Unclaimed : z # y /\ remote[z] = remote[y]
                                     /\ \A z \in Unclaimed : remote[z] = remote[y] => y <= z}
  <2>1. I' = I
    BY <1>3, <1>4, <1>5
  <2>2. J' = J
    <3>1. \A v : Ours(v)' = Ours(v)
      BY DEF Ours
    <3> QED BY <1>1, <1>3, <1>4, <1>5, <3>1
  <2>3. K' = K
    BY <1>6
  <2>4. PairTruth = {<<"deleted", links[i].entry>> : i \in I} \cup {<<"changed", links[i].entry>> : i \in J}
                      \cup {<<"unlinked", x>> : x \in Unclaimed} \cup {<<"duplicate", x>> : x \in K}
    BY DEF PairTruth
  <2>5. PairTruth' = {<<"deleted", links'[i].entry>> : i \in I'} \cup {<<"changed", links'[i].entry>> : i \in J'}
                      \cup {<<"unlinked", x>> : x \in Unclaimed'} \cup {<<"duplicate", x>> : x \in K'}
    BY DEF PairTruth
  <2> HIDE DEF I, J, K
  <2> QED BY <1>6, <2>1, <2>2, <2>3, <2>4, <2>5
<1> QED BY <1>2, <1>5, <1>7, <1>8 DEF Truth

\* A clean run stays so while the records and the current changes stand.
LEMMA CleanKept ==
  ASSUME NEW d \in Runs, CleanOK(d), UNCHANGED <<mapped, net, within, links, remote>>,
         Current' = Current, run'[d] = run[d], clean'[d] = clean[d]
  PROVE  CleanOK(d)'
<1>1. ViewsOf(Expenses)' = ViewsOf(Expenses) /\ \A x : Shown(x)' <=> Shown(x)
  BY SameTruth
<1>2. \A prints : SaysTheTruth(prints)' <=> SaysTheTruth(prints)
  BY SameTruth DEF SaysTheTruth
<1> QED BY <1>1, <1>2 DEF CleanOK

\* A step that disturbs leaves no run clean; one that does not moves nothing.
LEMMA NothingIsClean ==
  ASSUME Disturb
  PROVE  CleanInv'
<1>1. \A d \in Runs : clean'[d] = FALSE
  BY DEF Disturb
<1> QED BY <1>1 DEF CleanInv, CleanOK, Disturb

LEMMA NothingMoves ==
  ASSUME CleanInv, UNCHANGED <<mapped, net, within, links, remote, run, clean>>, Current' = Current
  PROVE  CleanInv'
BY CleanKept DEF CleanInv

LEMMA BeginRunClean ==
  ASSUME RemoteInv, CleanInv, NEW d \in Runs, BeginRun(d)
  PROVE  CleanInv'
<1> DEFINE r == run'[d]
<1>1. /\ UNCHANGED <<mapped, net, within, links, remote, changes>> /\ mapped \in BOOLEAN
      /\ clean' = [clean EXCEPT ![d] = TRUE] /\ clean \in [Runs -> BOOLEAN]
      /\ run = [e \in Runs |-> run[e]]
      /\ run' = [run EXCEPT ![d] = [IdleRun EXCEPT !.pc = IF mapped THEN "begun" ELSE "listed",
                                                   !.paired = mapped, !.views = ViewsOf(Expenses)]]
  BY DEF BeginRun, records, RemoteInv, RecordsOK, CleanInv
<1>2. r = [IdleRun EXCEPT !.pc = IF mapped THEN "begun" ELSE "listed",
                          !.paired = mapped, !.views = ViewsOf(Expenses)]
  BY <1>1
<1>3. r.pc = (IF mapped THEN "begun" ELSE "listed") /\ r.paired = mapped /\ r.views = ViewsOf(Expenses)
  <2> HIDE DEF r
  <2> QED BY <1>2 DEF IdleRun
<1>4. ViewsOf(Expenses)' = ViewsOf(Expenses) /\ Current' = Current
  BY <1>1, SameTruth DEF Current
<1>5. CleanOK(d)'
  <2>1. /\ r.pc \in {"begun", "listed", "compared"} => r.paired = mapped'
        /\ r.pc \in {"begun", "listed"} => r.views = ViewsOf(Expenses)'
        /\ ~(r.pc = "listed" /\ r.paired) /\ r.pc # "compared"
    <3> HIDE DEF r
    <3> QED BY <1>1, <1>3, <1>4
  <2> QED BY <2>1 DEF CleanOK
<1>6. \A e \in Runs : CleanOK(e)'
  <2> TAKE e \in Runs
  <2>1. CASE e = d
    BY <1>5, <2>1
  <2>2. CASE e # d
    <3>1. run'[e] = run[e] /\ clean'[e] = clean[e] /\ CleanOK(e)
      BY <1>1, <2>2 DEF CleanInv
    <3> QED BY <1>1, <1>4, <3>1, CleanKept
  <2> QED BY <2>1, <2>2
<1>7. clean' \in [Runs -> BOOLEAN]
  BY <1>1
<1> QED BY <1>6, <1>7 DEF CleanInv

\* One run reads on.
LEMMA OneReads ==
  ASSUME CleanInv, NEW d \in Runs, NEW g, run = [e \in Runs |-> run[e]],
         run' = [run EXCEPT ![d] = g], CleanOK(d)',
         UNCHANGED <<mapped, net, within, links, remote, changes, clean>>
  PROVE  CleanInv'
<1>1. Current' = Current
  BY DEF Current
<1>2. \A e \in Runs : CleanOK(e)'
  <2> TAKE e \in Runs
  <2>1. CASE e = d
    BY <2>1
  <2>2. CASE e # d
    <3>1. run'[e] = run[e] /\ clean'[e] = clean[e] /\ CleanOK(e)
      BY <2>2 DEF CleanInv
    <3> QED BY <1>1, <3>1, CleanKept
  <2> QED BY <2>1, <2>2
<1> QED BY <1>2 DEF CleanInv

LEMMA ListEntriesClean ==
  ASSUME RemoteInv, CleanInv, NEW d \in Runs, ListEntries(d)
  PROVE  CleanInv'
<1> DEFINE r == run[d]
           g == run'[d]
<1>1. /\ RunOK(r, omitted[d]) /\ r.pc = "begun" /\ run = [e \in Runs |-> run[e]] /\ CleanOK(d)
      /\ UNCHANGED <<mapped, net, within, links, remote, changes, clean>>
  BY DEF ListEntries, RemoteInv, CleanInv, records
<1>2. PICK ids \in SUBSET {x \in DOMAIN remote : remote[x].friend}, complete \in BOOLEAN :
        /\ complete => \A x \in DOMAIN remote : Standing(x) /\ remote[x].friend => x \in ids
        /\ run' = [run EXCEPT ![d].pc = "listed", ![d].complete = complete,
                              ![d].seen = [x \in ids |-> remote[x]]]
  BY DEF ListEntries
<1> DEFINE seen == [x \in ids |-> remote[x]]
<1>3. g = [[[r EXCEPT !.pc = "listed"] EXCEPT !.complete = complete] EXCEPT !.seen = seen]
  BY <1>1, <1>2
<1>4. /\ g.pc = "listed" /\ g.complete = complete /\ g.seen = seen /\ g.paired = r.paired
      /\ g.views = r.views
  <2>1. RunShape(r)
    BY <1>1 DEF RunOK
  <2> HIDE DEF r, seen, g
  <2> QED BY <1>3, <2>1 DEF RunShape
<1>5. /\ ViewsOf(Expenses)' = ViewsOf(Expenses)
      /\ complete => \A x \in DOMAIN remote : Shown(x)' => x \in ids
  BY <1>1, <1>2, SameTruth DEF Shown
<1>6. /\ DOMAIN seen = ids /\ \A x \in ids : x \in DOMAIN remote /\ remote[x].friend /\ seen[x] = remote[x]
  OBVIOUS
<1>7. clean[d] => r.paired = mapped /\ r.views = ViewsOf(Expenses)
  BY <1>1 DEF CleanOK
<1>8. CleanOK(d)'
  <2> SUFFICES ASSUME clean'[d]
               PROVE  /\ g.pc \in {"begun", "listed", "compared"} => g.paired = mapped'
                      /\ g.pc \in {"begun", "listed"} => g.views = ViewsOf(Expenses)'
                      /\ g.pc = "listed" /\ g.paired =>
                           /\ \A x \in DOMAIN g.seen :
                                x \in DOMAIN remote' /\ remote'[x].friend /\ g.seen[x] = remote'[x]
                           /\ g.complete => \A x \in DOMAIN remote' : Shown(x)' => x \in DOMAIN g.seen
                      /\ g.pc # "compared"
    BY DEF CleanOK
  <2> HIDE DEF g, seen, r
  <2> QED BY <1>1, <1>2, <1>4, <1>5, <1>6, <1>7
<1>9. run' = [run EXCEPT ![d] = g]
  BY <1>1, <1>2
<1> HIDE DEF g
<1> QED BY <1>1, <1>8, <1>9, OneReads

\* A clean, complete comparison finds the differences that stand.
LEMMA CompareClean ==
  ASSUME RemoteInv, CleanInv, NEW d \in Runs, Compare(d)
  PROVE  CleanInv'
<1> DEFINE r == run[d]
           V == {v \in r.views : Participates(v)}
           drafts == IF r.paired THEN Discover(V \cup ViewsOf(Settlements), r.seen, r.complete)
                                 ELSE {UnmappedDraft}
           g == run'[d]
<1>1. /\ RunOK(r, omitted[d]) /\ RecordsOK /\ LinksOK /\ run = [e \in Runs |-> run[e]] /\ CleanOK(d) /\ r.pc = "listed"
      /\ UNCHANGED <<mapped, net, within, links, remote, changes, clean>>
  BY DEF Compare, RemoteInv, CleanInv, records, history
<1>2. run' = [run EXCEPT ![d] = [r EXCEPT !.pc = "compared", !.known = Current, !.drafts = drafts,
                                          !.views = {}, !.seen = <<>>]]
  BY DEF Compare
<1>3. /\ g.pc = "compared" /\ g.complete = r.complete /\ g.paired = r.paired
      /\ g.known = Current /\ g.drafts = drafts
  <2>1. RunShape(r)
    BY <1>1 DEF RunOK
  <2>2. g = [r EXCEPT !.pc = "compared", !.known = Current, !.drafts = drafts, !.views = {}, !.seen = <<>>]
    BY <1>1, <1>2
  <2> HIDE DEF r, g, drafts
  <2> QED BY <2>1, <2>2 DEF RunShape
<1>4. r.paired => \A f \in drafts : f.kind # "unmapped"
  <2> DEFINE W == V \cup ViewsOf(Settlements)
  <2>1. V \in SUBSET r.views
    OBVIOUS
  <2> HIDE DEF V
  <2>2. Comparable(W, r.seen, r.complete, omitted[d]) /\ r.complete \in BOOLEAN
    BY <1>1, <2>1, RunComparable DEF RunOK
  <2>3. r.paired => drafts = Discover(W, r.seen, r.complete)
    OBVIOUS
  <2> HIDE DEF W, drafts
  <2> QED BY <1>1, <2>2, <2>3, DiscoverOK
<1>5. ASSUME clean[d], r.paired, r.complete
      PROVE  SaysTheTruth({Fingerprint(f) : f \in drafts})
  <2>1. mapped /\ r.views = ViewsOf(Expenses) /\ Complete(r.seen)
    BY <1>1, <1>5 DEF CleanOK, Complete
  <2>2. r.complete = TRUE
    BY <1>1, <1>5 DEF RunOK
  <2>3. drafts = Discover(Compared, r.seen, TRUE)
    BY <1>5, <2>1, <2>2 DEF Compared
  <2> HIDE DEF drafts, r
  <2> QED BY <1>1, <2>1, <2>3, TruthIsSeen
<1>6. ~r.paired => drafts = {UnmappedDraft}
  OBVIOUS
<1>7. Current' = Current /\ Truth' = Truth /\ (InStep' <=> InStep)
  BY <1>1, SameTruth DEF Current
<1>8. clean[d] => r.paired = mapped
  BY <1>1 DEF CleanOK
<1> HIDE DEF drafts
<1>9. CleanOK(d)'
  <2> SUFFICES ASSUME clean'[d]
               PROVE  /\ g.pc \in {"begun", "listed", "compared"} => g.paired = mapped'
                      /\ g.pc \notin {"begun", "listed"}
                      /\ g.pc = "compared" =>
                           /\ g.known = Current'
                           /\ g.paired => \A f \in g.drafts : f.kind # "unmapped"
                           /\ g.paired /\ g.complete =>
                                LET prints == {Fingerprint(f) : f \in g.drafts} IN
                                /\ {t \in Truth' : t[1] # "duplicate"} \subseteq prints
                                /\ InStep' => prints = Truth'
                           /\ ~g.paired => g.drafts = {UnmappedDraft}
    BY DEF CleanOK, SaysTheTruth
  <2> DEFINE prints == {Fingerprint(f) : f \in g.drafts}
  <2>1. g.drafts = drafts /\ g.pc = "compared" /\ g.known = Current'
    BY <1>3, <1>7
  <2>2. g.paired = mapped'
    BY <1>1, <1>3, <1>8
  <2>3. g.paired => \A f \in g.drafts : f.kind # "unmapped"
    BY <1>3, <1>4
  <2>4. g.paired /\ g.complete =>
          {t \in Truth' : t[1] # "duplicate"} \subseteq prints /\ (InStep' => prints = Truth')
    <3>1. clean[d]
      BY <1>1
    <3>2. prints = {Fingerprint(f) : f \in drafts}
      BY <1>3
    <3>3. g.paired /\ g.complete => SaysTheTruth(prints)
      BY <1>3, <1>5, <3>1, <3>2
    <3> HIDE DEF prints
    <3> QED BY <1>7, <3>3 DEF SaysTheTruth
  <2>5. ~g.paired => g.drafts = {UnmappedDraft}
    BY <1>3, <1>6
  <2> HIDE DEF g
  <2> QED BY <2>1, <2>2, <2>3, <2>4, <2>5
<1>10. run' = [run EXCEPT ![d] = g]
  BY <1>1, <1>2
<1> HIDE DEF g
<1> QED BY <1>1, <1>9, <1>10, OneReads

LEMMA DecisionsClean ==
  ASSUME RemoteInv, CleanInv, NEW k \in Decisions,
         \/ \E c \in DOMAIN changes, accept \in BOOLEAN, target \in Records \cup {Nobody} :
              BeginDecision(k, c, accept, target)
         \/ Reject(k) \/ AcceptDrift(k) \/ AcceptDeletion(k) \/ AcceptAdoption(k) \/ AcceptMapping(k)
  PROVE  CleanInv'
<1>1. ASSUME UNCHANGED <<mapped, net, within, links, remote, run, clean, changes>>
      PROVE  CleanInv'
  BY <1>1, NothingMoves DEF Current
<1>2. ASSUME NEW c \in DOMAIN changes, NEW accept \in BOOLEAN, NEW target \in Records \cup {Nobody},
             BeginDecision(k, c, accept, target)
      PROVE  CleanInv'
  BY <1>1, <1>2 DEF BeginDecision, records
<1>3. CASE Reject(k)
  <2>1. /\ Decide(k, "rejected", 0) /\ decision[k].pc = "checked"
        /\ UNCHANGED <<mapped, net, within, links, remote, run, clean>>
    BY <1>3 DEF Reject, records, history
  <2>2. ChangesOK /\ decision[k].c \in DOMAIN changes
    BY <2>1 DEF RemoteInv, DecisionOK
  <2>3. DOMAIN changes' = DOMAIN changes
    BY <2>1, <2>2, DecideWrites
  <2>4. Grows
    BY <2>1 DEF Grows
  <2>5. \A i \in DOMAIN changes : changes'[i].current = changes[i].current
    BY <2>1, <2>2, <2>4, DecideKeepsChanges
  <2>6. Current' = Current
    BY <2>3, <2>5 DEF Current
  <2> QED BY <2>1, <2>6, NothingMoves
<1>4. CASE AcceptDrift(k) \/ AcceptDeletion(k) \/ AcceptMapping(k)
  BY <1>4, NothingIsClean DEF AcceptDrift, AcceptDeletion, MarkLink, AcceptMapping
<1>5. CASE AcceptAdoption(k)
  <2>1. CASE Claimed(decision[k].target, changes[decision[k].c].ext)
    BY <1>1, <1>5, <2>1 DEF AcceptAdoption
  <2>2. CASE ~Claimed(decision[k].target, changes[decision[k].c].ext)
    BY <1>5, <2>2, NothingIsClean DEF AcceptAdoption
  <2> QED BY <2>1, <2>2
<1> QED BY <1>2, <1>3, <1>4, <1>5

LEMMA CleanNext ==
  ASSUME RemoteInv, CleanInv, [Next]_vars
  PROVE  CleanInv'
<1>1. ASSUME NEW d \in Runs, BeginRun(d) \/ ListEntries(d) \/ Compare(d) \/ Reconcile(d)
      PROVE  CleanInv'
  <2>1. CASE Reconcile(d)
    BY <2>1, NothingIsClean DEF Reconcile
  <2> QED BY <1>1, <2>1, BeginRunClean, ListEntriesClean, CompareClean
<1>2. ASSUME NEW p \in Pushes,
             \/ \E l \in Records : FirstSync(p, l)
             \/ \E i \in DOMAIN links : Recreate(p, i) \/ Correct(p, i) \/ Withdraw(p, i)
             \/ RecordPush(p) \/ LosePush(p)
      PROVE  CleanInv'
  <2>1. ASSUME NEW l \in Records, FirstSync(p, l)
        PROVE  CleanInv'
    BY <2>1, NothingIsClean DEF FirstSync, CreateEntry, Call
  <2>2. ASSUME NEW i \in DOMAIN links, Recreate(p, i) \/ Correct(p, i) \/ Withdraw(p, i)
        PROVE  CleanInv'
    BY <2>2, NothingIsClean DEF Recreate, CreateEntry, Correct, Withdraw, Call
  <2>3. CASE RecordPush(p)
    BY <2>3, NothingIsClean DEF RecordPush
  <2>4. CASE LosePush(p)
    BY <2>4, NothingMoves DEF LosePush, records, history, Current
  <2> QED BY <1>2, <2>1, <2>2, <2>3, <2>4
<1>3. ASSUME NEW e \in Expenses, NEW n \in Amounts \cup {0}, MoveLedger(e, n)
      PROVE  CleanInv'
  BY <1>3, NothingIsClean DEF MoveLedger
<1>7. ASSUME NEW e \in Expenses, Redivide(e)
      PROVE  CleanInv'
  BY <1>7, NothingIsClean DEF Redivide
<1>4. ASSUME NEW x \in DOMAIN remote, OthersDelete(x) \/ \E n \in Amounts, friend \in BOOLEAN : OthersEdit(x, n, friend)
      PROVE  CleanInv'
  BY <1>4, NothingIsClean DEF OthersDelete, OthersEdit, ChangeRemote
<1>5. ASSUME NEW kind \in {"expense", "payment"}, NEW n \in Amounts, OthersAdd(kind, n)
      PROVE  CleanInv'
  BY <1>5, NothingIsClean DEF OthersAdd, ChangeRemote
<1>6. CASE UNCHANGED vars
  BY <1>6, NothingMoves DEF vars, records, history, Current
<1> QED BY <1>1, DecisionsClean, <1>2, <1>3, <1>4, <1>5, <1>6, <1>7 DEF Next

\* What clean runs read is what stands.
LEMMA CleanInvHolds == Spec => []CleanInv
<1>1. Init => CleanInv
  <2> SUFFICES ASSUME Init PROVE CleanInv
    OBVIOUS
  <2>1. clean = [d \in Runs |-> FALSE]
    BY DEF Init
  <2>2. clean \in [Runs -> BOOLEAN] /\ \A d \in Runs : ~clean[d]
    BY <2>1
  <2> QED BY <2>2 DEF CleanInv, CleanOK
<1>2. RemoteInv /\ CleanInv /\ [Next]_vars => CleanInv'
  BY CleanNext
<1> QED BY <1>1, <1>2, RemoteInvHolds, PTL DEF Spec

\* Only writing its changes ends a run that compared.
LEMMA RunEnds ==
  ASSUME RemoteInv, Next, NEW d \in Runs, run[d].pc = "compared", run'[d].pc = "done"
  PROVE  Reconcile(d)
<1>1. run'[d] # run[d] /\ run = [e \in Runs |-> run[e]]
  BY DEF RemoteInv
<1>2. ASSUME NEW e \in Runs, BeginRun(e) \/ ListEntries(e) \/ Compare(e) \/ Reconcile(e)
      PROVE  Reconcile(d)
  <2>1. CASE e # d
    <3>1. run'[d] = run[d]
      BY <1>1, <1>2, <2>1 DEF BeginRun, ListEntries, Compare, Reconcile
    <3> QED BY <1>1, <3>1
  <2>2. CASE e = d
    BY <1>2, <2>2 DEF BeginRun, ListEntries, Compare
  <2> QED BY <2>1, <2>2
<1>3. ASSUME UNCHANGED run
      PROVE  FALSE
  BY <1>1, <1>3
<1>4. ASSUME NEW k \in Decisions,
             \/ \E c \in DOMAIN changes, accept \in BOOLEAN, target \in Records \cup {Nobody} :
                  BeginDecision(k, c, accept, target)
             \/ Reject(k) \/ AcceptDrift(k) \/ AcceptDeletion(k) \/ AcceptAdoption(k) \/ AcceptMapping(k)
      PROVE  FALSE
  BY <1>3, <1>4 DEF BeginDecision, Reject, AcceptDrift, AcceptDeletion, MarkLink, AcceptAdoption, AcceptMapping
<1>5. ASSUME NEW p \in Pushes,
             \/ \E l \in Records : FirstSync(p, l)
             \/ \E i \in DOMAIN links : Recreate(p, i) \/ Correct(p, i) \/ Withdraw(p, i)
             \/ RecordPush(p) \/ LosePush(p)
      PROVE  FALSE
  BY <1>3, <1>5 DEF FirstSync, Recreate, CreateEntry, Correct, Withdraw, Call, RecordPush, LosePush
<1>6. ASSUME \/ \E e \in Expenses : Redivide(e) \/ \E n \in Amounts \cup {0} : MoveLedger(e, n)
             \/ \E x \in DOMAIN remote :
                  OthersDelete(x) \/ \E n \in Amounts, friend \in BOOLEAN : OthersEdit(x, n, friend)
             \/ \E kind \in {"expense", "payment"}, n \in Amounts : OthersAdd(kind, n)
      PROVE  FALSE
  BY <1>3, <1>6 DEF MoveLedger, Redivide, OthersDelete, OthersEdit, OthersAdd, ChangeRemote
<1> QED BY <1>2, <1>4, <1>5, <1>6 DEF Next

\* What stays or becomes current when a run writes its changes.
LEMMA WhatIsCurrent ==
  ASSUME ChangesOK, NEW d \in Runs, RunOK(run[d], omitted[d]), Reconcile(d), run[d].known = Current
  PROVE  LET r == run[d] IN
         /\ \A i \in Current : i \notin Superseded(r) => Fingerprint(changes[i]) \in CurrentPrints'
         /\ \A f \in r.drafts : Fingerprint(f) \in CurrentPrints'
         /\ \A x \in CurrentPrints' :
              \/ \E i \in Current : i \notin Superseded(r) /\ x = Fingerprint(changes[i])
              \/ \E f \in r.drafts : x = Fingerprint(f)
<1> DEFINE r == run[d]
           old == 1 .. Len(changes)
<1>1. ~Collides(r)
  BY DEF Collides
<1>2. Left(r)
  BY <1>1, ReconcileLeaves DEF RunOK
<1>3. /\ DOMAIN changes = old /\ old \subseteq DOMAIN changes'
      /\ \A i \in old : changes'[i] = Retired(i, r)
      /\ \A i \in DOMAIN changes' : i \in old \/ \E f \in Fresh(r) : changes'[i] = Proposed(f)
      /\ \A f \in Fresh(r) : \E i \in DOMAIN changes' : changes'[i] = Proposed(f)
  BY <1>2 DEF Left, ChangesOK
<1>4. \A i \in old :
        /\ changes'[i].current = (changes[i].current /\ i \notin Superseded(r))
        /\ Fingerprint(changes'[i]) = Fingerprint(changes[i])
  BY <1>3, RetiredFields
<1>5. \A f \in Fresh(r) : f \in r.drafts /\ Proposed(f).current = TRUE
                             /\ Fingerprint(Proposed(f)) = Fingerprint(f)
  BY ProposedFields DEF Fresh
<1>6. CurrentPrints' = {Fingerprint(changes'[i]) : i \in {j \in DOMAIN changes' : changes'[j].current}}
  BY DEF CurrentPrints, Current, Fingerprint
<1>7. Current = {j \in old : changes[j].current}
  BY <1>3 DEF Current
<1>8. ASSUME NEW i \in Current, i \notin Superseded(r)
      PROVE  Fingerprint(changes[i]) \in CurrentPrints'
  <2>1. i \in DOMAIN changes' /\ changes'[i].current /\ Fingerprint(changes'[i]) = Fingerprint(changes[i])
    BY <1>3, <1>4, <1>7, <1>8
  <2> QED BY <1>6, <2>1
<1>9. ASSUME NEW f \in Fresh(r)
      PROVE  Fingerprint(f) \in CurrentPrints'
  <2>1. PICK i \in DOMAIN changes' : changes'[i] = Proposed(f)
    BY <1>3
  <2>2. changes'[i].current = TRUE /\ Fingerprint(changes'[i]) = Fingerprint(f)
    BY <1>5, <2>1
  <2> QED BY <1>6, <2>2
<1>10. ASSUME NEW f \in r.drafts
       PROVE  Fingerprint(f) \in CurrentPrints'
  <2>1. CASE f \in Fresh(r)
    BY <1>9, <2>1
  <2>2. CASE f \notin Fresh(r)
    <3>1. PICK i \in Current : Fingerprint(changes[i]) = Fingerprint(f)
      BY <2>2 DEF Fresh
    <3>2. CASE i \notin Superseded(r)
      BY <1>8, <3>1, <3>2
    <3>3. CASE i \in Superseded(r)
      <4>1. PICK g \in Fresh(r) : Fingerprint(g) = Fingerprint(changes[i])
        BY <3>1, <3>3 DEF Superseded
      <4> QED BY <1>9, <3>1, <4>1
    <3> QED BY <3>2, <3>3
  <2> QED BY <2>1, <2>2
<1>11. ASSUME NEW x \in CurrentPrints'
       PROVE  \/ \E i \in Current : i \notin Superseded(r) /\ x = Fingerprint(changes[i])
              \/ \E f \in r.drafts : x = Fingerprint(f)
  <2>1. PICK i \in DOMAIN changes' : changes'[i].current /\ x = Fingerprint(changes'[i])
    BY <1>6, <1>11
  <2>2. CASE i \in old
    BY <1>4, <1>7, <2>1, <2>2
  <2>3. CASE i \notin old
    <3>1. PICK f \in Fresh(r) : changes'[i] = Proposed(f)
      BY <1>3, <2>3
    <3> QED BY <1>5, <2>1, <3>1
  <2> QED BY <2>2, <2>3
<1> QED BY <1>8, <1>10, <1>11

\* What the property says of one run.
ConvergesOnTheTruth(d) ==
    /\ ~run[d].complete => Truth \cap CurrentPrints \subseteq CurrentPrints'
    /\ run[d].complete \/ ~mapped => {t \in Truth : t[1] # "duplicate"} \subseteq CurrentPrints'
    /\ (run[d].complete /\ InStep) \/ ~mapped => CurrentPrints' = Truth \cup
           IF mapped THEN {} ELSE CurrentPrints \ {Fingerprint(UnmappedDraft)}

\* That the friend is not mapped is no difference of a pair.
LEMMA NoUnmappedTruth ==
  ASSUME mapped
  PROVE  Fingerprint(UnmappedDraft) \notin Truth
<1> DEFINE I == {j \in LiveRows : Concerns(j) /\ ~Standing(links[j].entry)}
           J == {j \in LiveRows : Concerns(j) /\ Shown(links[j].entry)
                                  /\ remote[links[j].entry].amount # Ours(View(j))}
           K == {y \in Unclaimed : /\ \E z \in Unclaimed : z # y /\ remote[z] = remote[y]
                                   /\ \A z \in Unclaimed : remote[z] = remote[y] => y <= z}
           A == {<<"deleted", links[i].entry>> : i \in I}
           B == {<<"changed", links[i].entry>> : i \in J}
           C == {<<"unlinked", x>> : x \in Unclaimed}
           D == {<<"duplicate", x>> : x \in K}
<1>1. Truth = A \cup B \cup C \cup D
  BY DEF Truth, PairTruth
<1>2. Fingerprint(UnmappedDraft)[1] = "unmapped"
  BY UnmappedDraftOK DEF Fingerprint
<1> HIDE DEF I, J, K
<1>3. \A t \in A \cup B \cup C \cup D : t[1] \in {"deleted", "changed", "unlinked", "duplicate"}
  OBVIOUS
<1> HIDE DEF A, B, C, D
<1> QED BY <1>1, <1>2, <1>3

\* The run that writes its changes, by whether it was paired and complete.
LEMMA CleanRunConverges ==
  ASSUME RemoteInv, CleanInv, Next, NEW d \in Runs,
         run[d].pc = "compared", run'[d].pc = "done", clean[d]
  PROVE  ConvergesOnTheTruth(d)
<1> DEFINE r == run[d]
           prints == {Fingerprint(f) : f \in r.drafts}
           unmapped == Fingerprint(UnmappedDraft)
           plain == {t \in Truth : t[1] # "duplicate"}
<1>1. /\ RunOK(r, omitted[d]) /\ ChangesOK /\ Reconcile(d) /\ r.known = Current /\ r.paired = mapped
      /\ r.paired => \A f \in r.drafts : f.kind # "unmapped"
      /\ r.paired /\ r.complete => SaysTheTruth(prints)
      /\ ~r.paired => r.drafts = {UnmappedDraft}
  BY RunEnds DEF RemoteInv, CleanInv, CleanOK
<1>2. /\ \A i \in Current : i \notin Superseded(r) => Fingerprint(changes[i]) \in CurrentPrints'
      /\ \A f \in r.drafts : Fingerprint(f) \in CurrentPrints'
      /\ \A x \in CurrentPrints' :
           \/ \E i \in Current : i \notin Superseded(r) /\ x = Fingerprint(changes[i])
           \/ \E f \in r.drafts : x = Fingerprint(f)
  BY <1>1, WhatIsCurrent
<1>3. \A i \in Superseded(r) :
        \/ \E f \in r.drafts : Fingerprint(f) = Fingerprint(changes[i])
        \/ CanRetire(changes[i], r) /\ \A f \in r.drafts : Fingerprint(f) # Fingerprint(changes[i])
  BY DEF Superseded, Fresh
<1>4. \A i \in Current : CanRetire(changes[i], r) =>
        i \in Superseded(r) \/ \E f \in r.drafts : Fingerprint(f) = Fingerprint(changes[i])
  BY <1>1 DEF Superseded
<1>5. \A f \in r.drafts : Fingerprint(f) \in prints
  OBVIOUS
<1>6. \A x \in prints : \E f \in r.drafts : x = Fingerprint(f)
  OBVIOUS
<1>7. CurrentPrints = {Fingerprint(changes[i]) : i \in Current}
  BY DEF CurrentPrints
<1>8. \A i \in Current : changes[i].kind = "unmapped" => Fingerprint(changes[i]) = unmapped
  <2> TAKE i \in Current
  <2>1. DraftOK(changes[i])
    BY <1>1 DEF ChangesOK, Current
  <2> QED BY <2>1, UnmappedDraftOK DEF DraftOK, Fingerprint
<1>9. mapped => unmapped \notin Truth
  BY NoUnmappedTruth
<1>10. ~mapped => Truth = {unmapped} /\ prints = {unmapped}
  BY <1>1 DEF Truth
<1>11. ~mapped => \A t \in Truth : t \in plain
  <2>1. unmapped[1] # "duplicate"
    BY UnmappedDraftOK DEF Fingerprint
  <2> HIDE DEF unmapped, prints
  <2> QED BY <1>10, <2>1
<1>12. mapped /\ r.complete => plain \subseteq prints /\ (InStep => prints = Truth)
  BY <1>1 DEF SaysTheTruth
<1> HIDE DEF prints, unmapped, r, plain
<1>13. ASSUME ~r.complete, NEW x \in Truth, x \in CurrentPrints
       PROVE  x \in CurrentPrints'
  <2>1. PICK i \in Current : x = Fingerprint(changes[i])
    BY <1>7, <1>13
  <2>2. CASE i \notin Superseded(r)
    BY <1>2, <2>1, <2>2
  <2>3. CASE \E f \in r.drafts : Fingerprint(f) = x
    BY <1>2, <2>3
  <2>4. CASE CanRetire(changes[i], r) /\ \A f \in r.drafts : Fingerprint(f) # x
    <3>1. changes[i].kind = "unmapped"
      BY <1>13, <2>4 DEF CanRetire
    <3>2. x = unmapped
      BY <1>8, <2>1, <3>1
    <3>3. ~mapped
      BY <1>9, <1>13, <3>2
    <3>4. x \in prints
      BY <1>10, <3>2, <3>3
    <3> QED BY <1>6, <2>4, <3>4
  <2> QED BY <1>3, <2>1, <2>2, <2>3, <2>4
<1>14. ASSUME mapped, r.complete
       PROVE  /\ plain \subseteq CurrentPrints'
              /\ InStep => CurrentPrints' = Truth
  <2>1. plain \subseteq CurrentPrints'
    BY <1>2, <1>6, <1>12, <1>14
  <2>2. ASSUME InStep
        PROVE  CurrentPrints' = Truth
    <3>1. prints = Truth /\ r.paired
      BY <1>1, <1>12, <1>14, <2>2
    <3>2. Truth \subseteq CurrentPrints'
      BY <1>2, <1>6, <3>1
    <3>3. ASSUME NEW x \in CurrentPrints'
          PROVE  x \in Truth
      <4>1. CASE \E f \in r.drafts : x = Fingerprint(f)
        BY <1>5, <3>1, <4>1
      <4>2. ASSUME NEW i \in Current, i \notin Superseded(r), x = Fingerprint(changes[i])
            PROVE  x \in Truth
        <5>1. CanRetire(changes[i], r)
          BY <1>14, <3>1 DEF CanRetire
        <5> QED BY <1>4, <1>5, <3>1, <4>2, <5>1
      <4> QED BY <1>2, <3>3, <4>1, <4>2
    <3> QED BY <3>2, <3>3
  <2> QED BY <2>1, <2>2
<1>15. ASSUME ~mapped
       PROVE  /\ plain \subseteq CurrentPrints'
              /\ CurrentPrints' = Truth \cup (CurrentPrints \ {unmapped})
  <2>1. Truth = {unmapped} /\ prints = {unmapped} /\ ~r.paired
    BY <1>1, <1>10, <1>15
  <2>2. unmapped \in CurrentPrints'
    BY <1>2, <1>6, <2>1
  <2>3. ASSUME NEW x \in CurrentPrints, x # unmapped
        PROVE  x \in CurrentPrints'
    <3>1. PICK i \in Current : x = Fingerprint(changes[i])
      BY <1>7
    <3>2. \A f \in r.drafts : Fingerprint(f) # x
      BY <1>5, <2>1, <2>3
    <3>3. ~CanRetire(changes[i], r)
      BY <1>8, <2>1, <2>3, <3>1 DEF CanRetire
    <3>4. i \notin Superseded(r)
      BY <1>3, <3>1, <3>2, <3>3
    <3> QED BY <1>2, <3>1, <3>4
  <2>4. ASSUME NEW x \in CurrentPrints'
        PROVE  x \in CurrentPrints \/ x = unmapped
    <3>1. CASE \E f \in r.drafts : x = Fingerprint(f)
      BY <1>5, <2>1, <3>1
    <3>2. CASE \E i \in Current : x = Fingerprint(changes[i])
      BY <1>7, <3>2
    <3> QED BY <1>2, <2>4, <3>1, <3>2
  <2>5. \A x \in plain : x \in Truth
    BY DEF plain
  <2> QED BY <2>1, <2>2, <2>3, <2>4, <2>5
<1>16. ~r.complete => Truth \cap CurrentPrints \subseteq CurrentPrints'
  BY <1>13
<1>17. r.complete \/ ~mapped => plain \subseteq CurrentPrints'
  BY <1>14, <1>15
<1>18. (r.complete /\ InStep) \/ ~mapped => CurrentPrints' = Truth \cup
           IF mapped THEN {} ELSE CurrentPrints \ {unmapped}
  BY <1>14, <1>15
<1> QED BY <1>16, <1>17, <1>18 DEF ConvergesOnTheTruth, r, unmapped, plain

\* A run during which nothing else moved keeps the true changes that are current; a
\* complete one makes every difference current and, while splits and entries agree on who
\* takes part, nothing else, whatever was missed, decided, retired or superseded before.
THEOREM RunsConverge == Spec => RunsConvergeOnTheTruth
<1>1. ASSUME RemoteInv, CleanInv, [Next]_vars
      PROVE  [\A d \in Runs : run[d].pc = "compared" /\ run'[d].pc = "done" /\ clean[d] =>
                 ConvergesOnTheTruth(d)]_vars
  BY <1>1, CleanRunConverges
<1>2. Spec => [][\A d \in Runs : run[d].pc = "compared" /\ run'[d].pc = "done" /\ clean[d] =>
                    ConvergesOnTheTruth(d)]_vars
  BY <1>1, RemoteInvHolds, CleanInvHolds, PTL DEF Spec
<1> QED BY <1>2 DEF RunsConvergeOnTheTruth, ConvergesOnTheTruth
=============================================================================
