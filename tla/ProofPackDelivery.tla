-------------------------- MODULE ProofPackDelivery --------------------------
(***************************************************************************)
(* Sending a proof pack: the pack is rebuilt from the ledger, a row claims *)
(* its idempotency key, the transport is called outside any transaction,   *)
(* and the outcome is recorded by id.  A failed delivery may be retried,   *)
(* and the provider reports later what became of a message it accepted.    *)
(*                                                                         *)
(* One recipient, address and set of attachments: the key of a delivery is *)
(* the version of the text.  The provider names a message after the call   *)
(* that carried it.  The provider and the messages are external.           *)
(***************************************************************************)
EXTENDS Naturals, FiniteSets

CONSTANTS
    Calls,          \* requests to send or to retry
    Reports,        \* status callbacks of the provider
    Versions,       \* the texts the ledger yields, in order
    NoVersion, NoCall,
    MaxAttempts     \* MAX_DELIVERY_ATTEMPTS

ASSUME VersionsAssumption == Versions \subseteq Nat /\ NoVersion \notin Versions
ASSUME CallsAssumption == NoCall \notin Calls
ASSUME MaxAttemptsAssumption == MaxAttempts \in Nat \ {0}

VARIABLES
    ledger,   \* the version a pack built now would have
    row,      \* proof_pack_deliveries, by version
    pc, call, \* how far a request is, and what it read or was given
    carried,  \* what the recipient received through a call
    rc, report,
    crossed   \* history: versions two attempts of which were in hand at once

vars == <<ledger, row, pc, call, carried, rc, report, crossed>>

Unsent(st) == [st |-> st, attempts |-> 0, id |-> NoCall, sentAt |-> FALSE, deliveredAt |-> FALSE]
NoRow == Unsent("none")
Request(v, body, seen, attempts, id) ==
    [v |-> v, body |-> body, seen |-> seen, attempts |-> attempts, id |-> id, outcome |-> "none"]
Idle == Request(NoVersion, NoVersion, NoVersion, 0, NoCall)
NoReport == [v |-> NoVersion, status |-> "none", attempts |-> 0, id |-> NoCall]

UnderWay(r) == pc[r] \in {"claiming", "sending", "answered"}
InHand(v) == \E s \in Calls : pc[s] \in {"sending", "answered"} /\ call[s].v = v

Unclaimed(v) == row[v].st = "none"

\* Mutation: whatever was not confirmed may be sent again.
Unconfirmed(v) == row[v].st \in {"failed", "sent"} /\ row[v].attempts < MaxAttempts
\* Mutation: one attempt too many.
OneMoreAttempt(v) == row[v].st = "failed" /\ row[v].attempts <= MaxAttempts
Retryable(v) == row[v].st = "failed" /\ row[v].attempts < MaxAttempts

\* Mutation: a retry derives its text again.
Rederived(v) == ledger
RecordedBody(v) == v

\* Mutation: a refusal is not counted as an attempt.
CountAccepted(attempts, accepted) == IF accepted THEN attempts + 1 ELSE attempts
CountAttempt(attempts, accepted) == attempts + 1

\* Mutation: the call is made without an abort timer.
NoTimer(r) == FALSE
TimerRuns(r) == pc[r] = "sending"

\* proof_pack_deliveries_timestamps_check.
TimestampsAgree(d) ==
    /\ d.st \in {"sent", "delivered"} <=> d.sentAt
    /\ d.st = "delivered" <=> d.deliveredAt

-----------------------------------------------------------------------------
Init ==
    /\ ledger \in {v \in Versions : \A w \in Versions : v <= w}
    /\ row = [v \in Versions |-> NoRow]
    /\ pc = [r \in Calls |-> "idle"] /\ call = [r \in Calls |-> Idle]
    /\ carried = [r \in Calls |-> NoVersion]
    /\ rc = [c \in Reports |-> "idle"] /\ report = [c \in Reports |-> NoReport]
    /\ crossed = {}

\* The ledger moves on: a pack built from now on reads differently.
ChangeLedger ==
    /\ ledger + 1 \in Versions
    /\ ledger' = ledger + 1
    /\ UNCHANGED <<row, pc, call, carried, rc, report, crossed>>

\* sendProofPack up to the claim: the pack is built now, and the digest the
\* reviewer saw, when the caller has one, must be that of this pack.
BeginSend(r) ==
    /\ pc[r] = "idle"
    /\ \E seen \in {ledger, NoVersion} :
         call' = [call EXCEPT ![r] = Request(ledger, ledger, seen, 0, NoCall)]
    /\ pc' = [pc EXCEPT ![r] = "claiming"]
    /\ UNCHANGED <<ledger, row, carried, rc, report, crossed>>

\* insertDeliveryIfNew: the unique key lets one call through.
Claim(r) ==
    LET v == call[r].v IN
    /\ pc[r] = "claiming"
    /\ IF Unclaimed(v)
         THEN /\ row' = [row EXCEPT ![v] = Unsent("pending")]
              /\ pc' = [pc EXCEPT ![r] = "sending"]
         ELSE /\ pc' = [pc EXCEPT ![r] = "existing"]
              /\ UNCHANGED row
    /\ UNCHANGED <<ledger, call, carried, rc, report, crossed>>

\* retryProofPackDelivery: the row is read and checked, and sent as recorded.
BeginRetry(r, v) ==
    /\ pc[r] = "idle"
    /\ Retryable(v)
    /\ call' = [call EXCEPT ![r] =
                 Request(v, RecordedBody(v), NoVersion, row[v].attempts, row[v].id)]
    /\ pc' = [pc EXCEPT ![r] = "sending"]
    /\ crossed' = IF InHand(v) THEN crossed \cup {v} ELSE crossed
    /\ UNCHANGED <<ledger, row, carried, rc, report>>

-----------------------------------------------------------------------------
(* The transport.  The text may reach the recipient before the call ends,  *)
(* after it was given up, or not at all.                                   *)

Carry(r) ==
    /\ carried[r] = NoVersion
    /\ pc[r] = "sending" \/ (pc[r] \in {"answered", "done"} /\ call[r].outcome = "timeout")
                         \/ (pc[r] = "dead" /\ call[r].outcome \in {"none", "timeout"})
    /\ carried' = [carried EXCEPT ![r] = call[r].body]
    /\ UNCHANGED <<ledger, row, pc, call, rc, report, crossed>>

Answer(r, outcome) ==
    /\ pc[r] = "sending"
    /\ call' = [call EXCEPT ![r].outcome = outcome]
    /\ pc' = [pc EXCEPT ![r] = "answered"]
    /\ UNCHANGED <<ledger, row, carried, rc, report, crossed>>

Accept(r) == carried[r] # NoVersion /\ Answer(r, "accepted")

\* Refused, or answered without an id, or a document failed after the text.
Refuse(r) == Answer(r, "refused")

Timeout(r) == TimerRuns(r) /\ Answer(r, "timeout")

\* applyAttemptOutcome and updateDeliveryProgress, by id, from what was read.
Record(r) ==
    LET accepted == call[r].outcome = "accepted" IN
    /\ pc[r] = "answered"
    /\ row' = [row EXCEPT ![call[r].v] =
                 [st |-> IF accepted THEN "sent" ELSE "failed",
                  attempts |-> CountAttempt(call[r].attempts, accepted),
                  id |-> IF accepted THEN r ELSE call[r].id,
                  sentAt |-> accepted, deliveredAt |-> FALSE]]
    /\ pc' = [pc EXCEPT ![r] = "done"]
    /\ UNCHANGED <<ledger, call, carried, rc, report, crossed>>

\* The process dies with the request, before the row exists or after.
Die(r) ==
    /\ UnderWay(r)
    /\ pc' = [pc EXCEPT ![r] = IF pc[r] = "claiming" THEN "abandoned" ELSE "dead"]
    /\ UNCHANGED <<ledger, row, call, carried, rc, report, crossed>>

-----------------------------------------------------------------------------
(* applyProviderDeliveryStatus: a report of what was carried, which may be *)
(* repeated or contradict another one.                                     *)

BeginReport(c, r, status) ==
    /\ rc[c] = "idle" /\ carried[r] # NoVersion
    /\ \E v \in Versions :
         /\ row[v].id = r /\ row[v].st = "sent"
         /\ report' = [report EXCEPT ![c] = [v |-> v, status |-> status, id |-> r,
                                             attempts |-> row[v].attempts]]
    /\ rc' = [rc EXCEPT ![c] = "read"]
    /\ UNCHANGED <<ledger, row, pc, call, carried, crossed>>

\* The row keeps the sent_at that was read; the check constraint may refuse it.
Reported(c) ==
    [st |-> report[c].status, attempts |-> report[c].attempts, id |-> report[c].id,
     sentAt |-> TRUE, deliveredAt |-> report[c].status = "delivered"]

ApplyReport(c) ==
    /\ rc[c] = "read"
    /\ row' = IF TimestampsAgree(Reported(c)) THEN [row EXCEPT ![report[c].v] = Reported(c)]
                                              ELSE row
    /\ rc' = [rc EXCEPT ![c] = "done"]
    /\ UNCHANGED <<ledger, pc, call, carried, report, crossed>>

Next ==
    \/ ChangeLedger
    \/ \E r \in Calls :
         \/ BeginSend(r) \/ Claim(r) \/ \E v \in Versions : BeginRetry(r, v)
         \/ Carry(r) \/ Accept(r) \/ Refuse(r) \/ Timeout(r) \/ Record(r) \/ Die(r)
    \/ \E c \in Reports :
         \/ ApplyReport(c)
         \/ \E r \in Calls, status \in {"delivered", "failed"} : BeginReport(c, r, status)

\* The abort timer of the transport fires, and a request that is running goes on.
\* Nothing is assumed of the provider or of people.
Fairness == \A r \in Calls : WF_vars(Claim(r)) /\ WF_vars(Timeout(r)) /\ WF_vars(Record(r))

Spec == Init /\ [][Next]_vars /\ Fairness

-----------------------------------------------------------------------------
DeliveryTypeOK ==
    /\ ledger \in Versions
    /\ row \in [Versions -> [st : {"none", "pending", "sent", "delivered", "failed"},
                             attempts : 0..MaxAttempts, id : Calls \cup {NoCall},
                             sentAt : BOOLEAN, deliveredAt : BOOLEAN]]
    /\ \A v \in Versions : TimestampsAgree(row[v])
    /\ pc \in [Calls -> {"idle", "claiming", "sending", "answered", "existing", "abandoned", "done", "dead"}]
    /\ call \in [Calls -> [v : Versions \cup {NoVersion}, body : Versions \cup {NoVersion},
                           seen : Versions \cup {NoVersion}, attempts : 0..MaxAttempts,
                           id : Calls \cup {NoCall},
                           outcome : {"none", "accepted", "refused", "timeout"}]]
    /\ carried \in [Calls -> Versions \cup {NoVersion}]
    /\ rc \in [Reports -> {"idle", "read", "done"}]
    /\ report \in [Reports -> [v : Versions \cup {NoVersion},
                               status : {"none", "delivered", "failed"},
                               attempts : 0..MaxAttempts, id : Calls \cup {NoCall}]]

\* What a recipient receives is the text of a recorded delivery, and the one the
\* reviewer saw when the caller said which: retries and late answers included
\* (proof-pack-delivery-service.ts:107-113, 270-273, 317-319).
ReceivedAsRecorded ==
    \A r \in Calls : carried[r] # NoVersion =>
        /\ carried[r] = call[r].v /\ row[carried[r]].st # "none"
        /\ call[r].seen \in {NoVersion, carried[r]}

Attempts(v) == {r \in Calls : call[r].v = v /\ pc[r] \in {"sending", "answered", "done"}}

\* A delivery is attempted at most MaxAttempts times, unless two people had an
\* attempt of it in hand at once, and but for attempts whose process died
\* (proof-pack-delivery.ts:32-38).
AttemptsCapped ==
    \A v \in Versions \ crossed : Cardinality(Attempts(v)) <= MaxAttempts

\* A recipient has a text twice, and a delivery that was confirmed is walked back,
\* only where two attempts of it were in hand at once: once an acceptance was
\* recorded no other attempt begins, and no late outcome or report of a message
\* overwrites the confirmation (proof-pack-delivery.ts:243-245, 283-286).
AcceptedIsFinal ==
    [][\A v \in Versions \ crossed' :
         /\ (\E s \in Calls : call[s].v = v /\ call[s].outcome = "accepted" /\ pc[s] = "done") =>
              \A r \in Calls : pc[r] # "sending" /\ pc'[r] = "sending" => call'[r].v # v
         /\ row[v].st = "delivered" => row'[v].st = "delivered"]_vars

\* A claimed delivery does not stay pending unless the process that claimed it
\* died: the provider's silence is answered by the timer.
PendingIsResolved ==
    \A v \in Versions :
        row[v].st = "pending" ~> row[v].st # "pending" \/ \E r \in Calls : pc[r] = "dead"

\* "report that the accepted message ultimately failed" (proof-pack-delivery.ts:
\* 283-284): a report of failure about a row that is still `sent` makes it failed.
ReportedFailureIsRecorded ==
    [][\A c \in Reports :
         rc[c] = "read" /\ rc'[c] = "done" /\ report[c].status = "failed"
         /\ row[report[c].v].st = "sent" => row'[report[c].v].st = "failed"]_vars
=============================================================================
