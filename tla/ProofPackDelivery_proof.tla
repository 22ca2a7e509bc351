----------------------- MODULE ProofPackDelivery_proof -----------------------
(***************************************************************************)
(* Safety of deliveries for any number of calls, callbacks, versions and   *)
(* attempts.                                                               *)
(***************************************************************************)
EXTENDS ProofPackDelivery, FiniteSetTheorems, TLAPS

\* The records DeliveryTypeOK speaks of.
CallRecord ==
    [v : Versions \cup {NoVersion}, body : Versions \cup {NoVersion},
     seen : Versions \cup {NoVersion}, attempts : 0..MaxAttempts,
     id : Calls \cup {NoCall}, outcome : {"none", "accepted", "refused", "timeout"}]
RowRecord ==
    [st : {"none", "pending", "sent", "delivered", "failed"}, attempts : 0..MaxAttempts,
     id : Calls \cup {NoCall}, sentAt : BOOLEAN, deliveredAt : BOOLEAN]

\* A call that sends, or has sent and not recorded, and one that recorded.
Sends(r) == pc[r] \in {"sending", "answered"}
Recorded(v) == {r \in Calls : pc[r] = "done" /\ call[r].v = v}

\* A call is about one version, and carries that one.
CallsAreAboutTheirVersion ==
    \A r \in Calls : pc[r] # "idle" =>
        /\ call[r].v \in Versions /\ call[r].body = call[r].v
        /\ call[r].seen \in {NoVersion, call[r].v}
        /\ UnderWay(r) => call[r].attempts < MaxAttempts

\* Nothing is sent before the key is claimed, and a claim is for good.
SentOnlyWhenClaimed ==
    \A r \in Calls :
        /\ pc[r] \in {"sending", "answered", "done", "dead"} => row[call[r].v].st # "none"
        /\ carried[r] # NoVersion =>
              carried[r] = call[r].v /\ pc[r] \in {"sending", "answered", "done", "dead"}

DeliveryInv ==
    /\ DeliveryTypeOK
    /\ CallsAreAboutTheirVersion
    /\ SentOnlyWhenClaimed
    /\ \A c \in Reports : rc[c] = "read" => report[c].v \in Versions

-----------------------------------------------------------------------------
LEMMA DeliveryInit == Init => DeliveryInv
<1> SUFFICES ASSUME Init PROVE DeliveryInv OBVIOUS
<1> USE MaxAttemptsAssumption, VersionsAssumption
        DEF Init, NoRow, Unsent, Idle, Request, NoReport
<1>1. DeliveryTypeOK BY DEF DeliveryTypeOK, TimestampsAgree
<1> QED BY <1>1 DEF DeliveryInv, CallsAreAboutTheirVersion, SentOnlyWhenClaimed

\* A call that begins, with what it was given and read.
LEMMA BeginPreserves ==
    ASSUME DeliveryInv, NEW r \in Calls, NEW new \in CallRecord, NEW next \in {"claiming", "sending"},
           call' = [call EXCEPT ![r] = new], pc' = [pc EXCEPT ![r] = next], pc[r] = "idle",
           UNCHANGED <<ledger, row, carried, rc, report>>,
           new.v \in Versions, new.body = new.v, new.seen \in {NoVersion, new.v},
           new.attempts < MaxAttempts,
           next = "sending" => row[new.v].st # "none"
    PROVE  DeliveryInv'
<1> USE DEF DeliveryInv, DeliveryTypeOK, CallsAreAboutTheirVersion, SentOnlyWhenClaimed, UnderWay
<1>1. call' \in [Calls -> CallRecord] BY DEF CallRecord
<1>2. call'[r] = new /\ \A q \in Calls \ {r} : call'[q] = call[q] /\ pc'[q] = pc[q] OBVIOUS
<1>3. DeliveryTypeOK' BY <1>1 DEF CallRecord
<1> QED BY <1>2, <1>3

\* A row that is rewritten, by a claim, a record or a report.
LEMMA RewrittenRow ==
    ASSUME DeliveryInv, NEW v \in Versions, NEW new \in RowRecord, TimestampsAgree(new),
           new.st # "none", row' = [row EXCEPT ![v] = new]
    PROVE  /\ row' \in [Versions -> RowRecord]
           /\ \A w \in Versions : TimestampsAgree(row'[w])
           /\ \A w \in Versions : row[w].st # "none" => row'[w].st # "none"
           /\ row'[v] = new /\ \A w \in Versions \ {v} : row'[w] = row[w]
<1>1. row \in [Versions -> RowRecord] /\ \A w \in Versions : TimestampsAgree(row[w])
  BY DEF DeliveryInv, DeliveryTypeOK, RowRecord
<1>2. \A w \in Versions : row'[w] = IF w = v THEN new ELSE row[w] BY <1>1
<1> QED BY <1>1, <1>2

LEMMA CallStepPreserves ==
    ASSUME DeliveryInv, NEW r \in Calls,
           \/ BeginSend(r) \/ Claim(r) \/ \E v \in Versions : BeginRetry(r, v)
           \/ Carry(r) \/ Accept(r) \/ Refuse(r) \/ Timeout(r) \/ Record(r) \/ Die(r)
    PROVE  DeliveryInv'
<1>0. /\ call[r] \in CallRecord /\ \A v \in Versions : row[v] \in RowRecord
      /\ row \in [Versions -> RowRecord] /\ call \in [Calls -> CallRecord] /\ ledger \in Versions
  BY DEF DeliveryInv, DeliveryTypeOK, CallRecord, RowRecord
<1> USE MaxAttemptsAssumption, VersionsAssumption
<1>1. CASE BeginSend(r)
  <2>1. PICK seen \in {ledger, NoVersion} :
          call' = [call EXCEPT ![r] = Request(ledger, ledger, seen, 0, NoCall)]
    BY <1>1 DEF BeginSend
  <2> DEFINE new == Request(ledger, ledger, seen, 0, NoCall)
  <2>2. new \in CallRecord /\ new.v = ledger /\ new.body = ledger /\ new.seen = seen
        /\ new.attempts = 0
    BY <1>0 DEF Request, CallRecord
  <2>3. call' = [call EXCEPT ![r] = new] BY <2>1
  <2> HIDE DEF new
  <2>4. /\ pc' = [pc EXCEPT ![r] = "claiming"] /\ pc[r] = "idle"
        /\ UNCHANGED <<ledger, row, carried, rc, report>>
    BY <1>1 DEF BeginSend
  <2>5. new.v \in Versions /\ new.body = new.v /\ new.seen \in {NoVersion, new.v}
        /\ new.attempts < MaxAttempts
    BY <1>0, <2>2
  <2>6. new \in CallRecord BY <2>2
  <2> QED BY <2>3, <2>4, <2>5, <2>6, BeginPreserves
<1>2. CASE Claim(r)
  <2>1. pc[r] = "claiming" /\ call[r].v \in Versions
    BY <1>2 DEF Claim, DeliveryInv, CallsAreAboutTheirVersion
  <2>2. CASE Unclaimed(call[r].v)
    <3> DEFINE new == Unsent("pending")
    <3>1. row' = [row EXCEPT ![call[r].v] = new] /\ pc' = [pc EXCEPT ![r] = "sending"]
          /\ UNCHANGED <<ledger, call, carried, rc, report>>
      BY <1>2, <2>2 DEF Claim
    <3>2. new \in RowRecord /\ TimestampsAgree(new) /\ new.st # "none"
      BY DEF Unsent, TimestampsAgree, RowRecord
    <3> HIDE DEF new
    <3>3. /\ row' \in [Versions -> RowRecord]
          /\ \A w \in Versions : TimestampsAgree(row'[w])
          /\ \A w \in Versions : row[w].st # "none" => row'[w].st # "none"
          /\ row'[call[r].v].st # "none"
      BY <2>1, <3>1, <3>2, RewrittenRow
    <3>4. DeliveryTypeOK' BY <3>1, <3>3 DEF DeliveryInv, DeliveryTypeOK, RowRecord
    <3> QED BY <2>1, <3>1, <3>3, <3>4
            DEF DeliveryInv, DeliveryTypeOK, CallsAreAboutTheirVersion, SentOnlyWhenClaimed,
                UnderWay
  <2>3. CASE ~Unclaimed(call[r].v)
    <3>1. pc' = [pc EXCEPT ![r] = "existing"] /\ UNCHANGED <<ledger, row, call, carried, rc, report>>
      BY <1>2, <2>3 DEF Claim
    <3>2. DeliveryTypeOK' BY <3>1 DEF DeliveryInv, DeliveryTypeOK
    <3> QED BY <2>1, <3>1, <3>2
            DEF DeliveryInv, DeliveryTypeOK, CallsAreAboutTheirVersion, SentOnlyWhenClaimed,
                UnderWay
  <2> QED BY <2>2, <2>3
<1>3. ASSUME NEW v \in Versions, BeginRetry(r, v) PROVE DeliveryInv'
  <2> DEFINE new == Request(v, RecordedBody(v), NoVersion, row[v].attempts, row[v].id)
  <2>1. row[v].st = "failed" /\ row[v].attempts < MaxAttempts
    BY <1>3 DEF BeginRetry, Retryable
  <2>2. new \in CallRecord /\ new.v = v /\ new.body = v /\ new.seen = NoVersion
        /\ new.attempts = row[v].attempts
    BY <1>0 DEF Request, CallRecord, RowRecord, RecordedBody
  <2>3. call' = [call EXCEPT ![r] = new] BY <1>3 DEF BeginRetry
  <2> HIDE DEF new
  <2> QED BY <1>3, <2>1, <2>2, <2>3, BeginPreserves DEF BeginRetry
<1>4. CASE Carry(r)
  BY <1>4 DEF Carry, DeliveryInv, DeliveryTypeOK, CallsAreAboutTheirVersion, SentOnlyWhenClaimed,
              UnderWay
<1>5. ASSUME NEW outcome \in {"accepted", "refused", "timeout"}, Answer(r, outcome)
      PROVE  DeliveryInv'
  <2> DEFINE new == [call[r] EXCEPT !.outcome = outcome]
  <2>1. /\ call' = [call EXCEPT ![r] = new]
        /\ pc[r] = "sending" /\ pc' = [pc EXCEPT ![r] = "answered"]
        /\ UNCHANGED <<ledger, row, carried, rc, report>>
    BY <1>0, <1>5 DEF Answer
  <2>2. new \in CallRecord /\ new.v = call[r].v /\ new.body = call[r].body
        /\ new.seen = call[r].seen /\ new.attempts = call[r].attempts
    BY <1>0 DEF CallRecord
  <2> HIDE DEF new
  <2>3. call' \in [Calls -> CallRecord] /\ call'[r] = new
        /\ \A q \in Calls \ {r} : call'[q] = call[q]
    BY <1>0, <2>1, <2>2
  <2>4. DeliveryTypeOK' BY <2>1, <2>3 DEF DeliveryInv, DeliveryTypeOK, CallRecord
  <2> QED BY <2>1, <2>2, <2>3, <2>4
          DEF DeliveryInv, DeliveryTypeOK, CallsAreAboutTheirVersion, SentOnlyWhenClaimed, UnderWay
<1>6. CASE Record(r)
  <2> DEFINE v == call[r].v
             accepted == call[r].outcome = "accepted"
             new == [st |-> IF accepted THEN "sent" ELSE "failed",
                     attempts |-> call[r].attempts + 1,
                     id |-> IF accepted THEN r ELSE call[r].id,
                     sentAt |-> accepted, deliveredAt |-> FALSE]
  <2>1. row' = [row EXCEPT ![v] = new] /\ pc[r] = "answered" /\ pc' = [pc EXCEPT ![r] = "done"]
        /\ UNCHANGED <<ledger, call, carried, rc, report>>
    BY <1>6 DEF Record, CountAttempt
  <2>2. v \in Versions /\ call[r].attempts + 1 \in 0..MaxAttempts
    BY <1>0, <2>1 DEF DeliveryInv, CallsAreAboutTheirVersion, UnderWay, CallRecord
  <2>3. accepted \in BOOLEAN OBVIOUS
  <2>4. call[r].id \in Calls \cup {NoCall} BY <1>0 DEF CallRecord
  <2> HIDE DEF accepted
  <2>5. new \in RowRecord BY <2>2, <2>3, <2>4 DEF RowRecord
  <2>6. TimestampsAgree(new) /\ new.st # "none"
    <3>1. CASE accepted BY <3>1 DEF TimestampsAgree
    <3>2. CASE ~accepted BY <3>2 DEF TimestampsAgree
    <3> QED BY <3>1, <3>2
  <2> HIDE DEF new
  <2>7. /\ row' \in [Versions -> RowRecord]
        /\ \A w \in Versions : TimestampsAgree(row'[w])
        /\ \A w \in Versions : row[w].st # "none" => row'[w].st # "none"
        /\ row'[v].st # "none"
    BY <2>1, <2>2, <2>5, <2>6, RewrittenRow
  <2>8. DeliveryTypeOK' BY <2>1, <2>7 DEF DeliveryInv, DeliveryTypeOK, RowRecord
  <2> QED BY <2>1, <2>2, <2>7, <2>8
          DEF DeliveryInv, DeliveryTypeOK, CallsAreAboutTheirVersion, SentOnlyWhenClaimed, UnderWay
<1>7. CASE Die(r)
  BY <1>7 DEF Die, DeliveryInv, DeliveryTypeOK, CallsAreAboutTheirVersion, SentOnlyWhenClaimed,
              UnderWay
<1> QED BY <1>1, <1>2, <1>3, <1>4, <1>5, <1>6, <1>7 DEF Accept, Refuse, Timeout

LEMMA ReportStepPreserves ==
    ASSUME DeliveryInv, NEW c \in Reports,
           ApplyReport(c) \/ \E r \in Calls, status \in {"delivered", "failed"} : BeginReport(c, r, status)
    PROVE  DeliveryInv'
<1> USE DEF DeliveryInv, DeliveryTypeOK, CallsAreAboutTheirVersion, SentOnlyWhenClaimed, UnderWay
<1>1. ASSUME NEW r \in Calls, NEW status \in {"delivered", "failed"}, BeginReport(c, r, status)
      PROVE  DeliveryInv'
  BY <1>1 DEF BeginReport
<1>2. CASE ApplyReport(c)
  <2>1. CASE TimestampsAgree(Reported(c))
    <3>1. row' = [row EXCEPT ![report[c].v] = Reported(c)] BY <1>2, <2>1 DEF ApplyReport
    <3>2. report[c].v \in Versions BY <1>2 DEF ApplyReport
    <3>3. report[c].status # "none" => Reported(c) \in
              [st : {"none", "pending", "sent", "delivered", "failed"},
               attempts : 0..MaxAttempts, id : Calls \cup {NoCall},
               sentAt : BOOLEAN, deliveredAt : BOOLEAN] /\ Reported(c).st # "none"
      BY DEF Reported
    <3>4. report[c].status # "none" BY <2>1 DEF TimestampsAgree, Reported
    <3>5. \A w \in Versions : row'[w] = IF w = report[c].v THEN Reported(c) ELSE row[w]
      BY <3>1, <3>2
    <3>6. DeliveryTypeOK'
      BY <1>2, <2>1, <3>1, <3>3, <3>4, <3>5 DEF ApplyReport
    <3> QED BY <1>2, <3>3, <3>4, <3>5, <3>6 DEF ApplyReport
  <2>2. CASE ~TimestampsAgree(Reported(c)) BY <1>2, <2>2 DEF ApplyReport
  <2> QED BY <2>1, <2>2
<1> QED BY <1>1, <1>2

LEMMA DeliveryStep == DeliveryInv /\ [Next]_vars => DeliveryInv'
<1> SUFFICES ASSUME DeliveryInv, [Next]_vars PROVE DeliveryInv' OBVIOUS
<1>1. CASE ChangeLedger
  BY <1>1 DEF ChangeLedger, DeliveryInv, DeliveryTypeOK, CallsAreAboutTheirVersion,
              SentOnlyWhenClaimed, UnderWay
<1>2. CASE UNCHANGED vars
  BY <1>2 DEF vars, DeliveryInv, DeliveryTypeOK, CallsAreAboutTheirVersion, SentOnlyWhenClaimed,
              UnderWay
<1> QED BY <1>1, <1>2, CallStepPreserves, ReportStepPreserves DEF Next

LEMMA DeliveryAlways == Spec => []DeliveryInv
<1> QED BY DeliveryInit, DeliveryStep, PTL DEF Spec

\* Every row satisfies the check of its table and counts at most MaxAttempts
\* attempts, whatever the calls, retries and callbacks do.
THEOREM DeliveryTypeCorrect == Spec => []DeliveryTypeOK
<1>1. DeliveryInv => DeliveryTypeOK BY DEF DeliveryInv
<1> QED BY <1>1, DeliveryAlways, PTL

\* A recipient reads the text of a recorded delivery, and the one a reviewer saw.
THEOREM TextIsTheRecordedOne == Spec => []ReceivedAsRecorded
<1>1. DeliveryInv => ReceivedAsRecorded
  BY DEF DeliveryInv, DeliveryTypeOK, CallsAreAboutTheirVersion, SentOnlyWhenClaimed,
         ReceivedAsRecorded
<1> QED BY <1>1, DeliveryAlways, PTL

-----------------------------------------------------------------------------
(* A delivery that never had two attempts in hand at once: one call sends  *)
(* it and knows its row, so an acceptance is never overwritten and the row *)
(* counts the attempts that were recorded.  Whatever happens to the other  *)
(* deliveries does not reach it.                                           *)

Straight(r) == call[r].v \notin crossed
OneSender ==
    \A r, s \in Calls : Sends(r) /\ Sends(s) /\ call[r].v = call[s].v /\ Straight(r) => r = s
SendersKnowTheRow ==
    \A r \in Calls :
        /\ Sends(r) /\ Straight(r) => /\ row[call[r].v].st \in {"pending", "failed"}
                                      /\ row[call[r].v].attempts = call[r].attempts
        /\ pc[r] = "claiming" => call[r].attempts = 0
AcceptedIsRecorded ==
    \A r \in Calls :
        pc[r] = "done" /\ call[r].outcome = "accepted" /\ Straight(r) =>
            row[call[r].v].st \in {"sent", "delivered"}
ReportsFit ==
    \A c \in Reports :
        rc[c] = "read" =>
            /\ report[c].status \in {"delivered", "failed"}
            /\ row[report[c].v].st # "none"
            /\ report[c].v \notin crossed =>
                  /\ row[report[c].v].st \in {"sent", "delivered"}
                  /\ row[report[c].v].attempts = report[c].attempts
RowsCount ==
    \A v \in Versions \ crossed :
        IsFiniteSet(Recorded(v)) /\ Cardinality(Recorded(v)) = row[v].attempts

AttemptInv == OneSender /\ SendersKnowTheRow /\ AcceptedIsRecorded /\ ReportsFit /\ RowsCount

LEMMA AttemptInit == Init => AttemptInv
<1> SUFFICES ASSUME Init PROVE AttemptInv OBVIOUS
<1>1. \A v \in Versions : Recorded(v) = {} BY DEF Init, Recorded
<1>2. RowsCount BY <1>1, FS_EmptySet DEF Init, RowsCount, NoRow, Unsent
<1> QED BY <1>2 DEF Init, AttemptInv, OneSender, SendersKnowTheRow, AcceptedIsRecorded, ReportsFit,
                    Sends

\* A step that starts no sending, records nothing and touches no row or report.
LEMMA QuietStep ==
    ASSUME AttemptInv, UNCHANGED <<row, rc, report, crossed>>,
           \A q \in Calls :
               /\ pc'[q] = "done" <=> pc[q] = "done"
               /\ pc[q] = "done" => call'[q].v = call[q].v /\ call'[q].outcome = call[q].outcome
               /\ pc'[q] \in {"sending", "answered"} =>
                      Sends(q) /\ call'[q].v = call[q].v /\ call'[q].attempts = call[q].attempts
               /\ pc'[q] = "claiming" => call'[q].attempts = 0
    PROVE  AttemptInv'
<1>1. \A v \in Versions : Recorded(v)' = Recorded(v) BY DEF Recorded
<1>2. RowsCount' BY <1>1 DEF AttemptInv, RowsCount
<1>3. OneSender' BY DEF AttemptInv, OneSender, Sends, Straight
<1>4. SendersKnowTheRow' BY DEF AttemptInv, SendersKnowTheRow, Sends, Straight
<1>5. AcceptedIsRecorded' BY DEF AttemptInv, AcceptedIsRecorded, Straight
<1>6. ReportsFit' BY DEF AttemptInv, ReportsFit
<1> QED BY <1>2, <1>3, <1>4, <1>5, <1>6 DEF AttemptInv

LEMMA ClaimKeepsAttempts ==
    ASSUME DeliveryInv, AttemptInv, NEW r \in Calls, Claim(r)
    PROVE  AttemptInv'
<1>1. pc[r] = "claiming" /\ call[r].v \in Versions /\ UNCHANGED <<call, rc, report, crossed>>
  BY DEF Claim, DeliveryInv, CallsAreAboutTheirVersion
<1>2. CASE ~Unclaimed(call[r].v)
  <2>1. pc' = [pc EXCEPT ![r] = "existing"] /\ row' = row BY <1>2 DEF Claim
  <2>2. \A q \in Calls : pc'[q] = IF q = r THEN "existing" ELSE pc[q]
    BY <2>1 DEF DeliveryInv, DeliveryTypeOK
  <2> QED BY <1>1, <2>1, <2>2, QuietStep DEF Sends, AttemptInv, SendersKnowTheRow
<1>3. CASE Unclaimed(call[r].v)
  <2>1. pc' = [pc EXCEPT ![r] = "sending"] /\ row' = [row EXCEPT ![call[r].v] = Unsent("pending")]
    BY <1>3 DEF Claim
  <2>2. \A q \in Calls : pc'[q] = IF q = r THEN "sending" ELSE pc[q]
    BY <2>1 DEF DeliveryInv, DeliveryTypeOK
  <2>3. \A v \in Versions : row'[v] = IF v = call[r].v THEN Unsent("pending") ELSE row[v]
    BY <2>1 DEF DeliveryInv, DeliveryTypeOK
  <2>4. Unsent("pending").st = "pending" /\ Unsent("pending").attempts = 0 BY DEF Unsent
  <2>5. \A q \in Calls : pc[q] \in {"sending", "answered", "done"} =>
            call[q].v # call[r].v /\ call[q].v \in Versions
    BY <1>3 DEF Unclaimed, DeliveryInv, SentOnlyWhenClaimed, CallsAreAboutTheirVersion
  <2>6. \A c \in Reports : rc[c] = "read" => report[c].v # call[r].v /\ report[c].v \in Versions
    BY <1>3 DEF Unclaimed, AttemptInv, ReportsFit, DeliveryInv
  <2>7. OneSender' BY <1>1, <2>2, <2>5 DEF AttemptInv, OneSender, Sends, Straight
  <2>8. SendersKnowTheRow'
    BY <1>1, <2>2, <2>3, <2>4, <2>5 DEF AttemptInv, SendersKnowTheRow, Sends, Straight
  <2>9. AcceptedIsRecorded' BY <1>1, <2>2, <2>3, <2>5 DEF AttemptInv, AcceptedIsRecorded, Straight
  <2>10. ReportsFit' BY <1>1, <2>3, <2>6 DEF AttemptInv, ReportsFit
  <2>11. RowsCount'
    <3> SUFFICES ASSUME NEW v \in Versions \ crossed
                 PROVE  (IsFiniteSet(Recorded(v)) /\ Cardinality(Recorded(v)) = row[v].attempts)'
      BY <1>1 DEF RowsCount
    <3>1. Recorded(v)' = Recorded(v) BY <1>1, <2>2 DEF Recorded
    <3>2. CASE v = call[r].v
      <4>1. Recorded(v) = {} BY <3>2, <2>5 DEF Recorded
      <4> QED BY <3>1, <3>2, <4>1, <2>3, <2>4, FS_EmptySet
    <3>3. CASE v # call[r].v BY <3>1, <3>3, <2>3 DEF AttemptInv, RowsCount
    <3> QED BY <3>2, <3>3
  <2> QED BY <2>7, <2>8, <2>9, <2>10, <2>11 DEF AttemptInv
<1> QED BY <1>2, <1>3

LEMMA RetryKeepsAttempts ==
    ASSUME DeliveryInv, AttemptInv, NEW r \in Calls, NEW v \in Versions, BeginRetry(r, v)
    PROVE  AttemptInv'
<1> DEFINE new == Request(v, RecordedBody(v), NoVersion, row[v].attempts, row[v].id)
<1>1. /\ pc[r] = "idle" /\ row[v].st = "failed" /\ UNCHANGED <<row, rc, report>>
      /\ crossed \subseteq crossed' /\ crossed' \subseteq crossed \cup {v}
      /\ v \notin crossed' => \A s \in Calls : ~(Sends(s) /\ call[s].v = v)
  BY DEF BeginRetry, Retryable, InHand, Sends
<1>2. new.v = v /\ new.attempts = row[v].attempts BY DEF Request
<1>3. call' = [call EXCEPT ![r] = new] /\ pc' = [pc EXCEPT ![r] = "sending"] BY DEF BeginRetry
<1> HIDE DEF new
<1>4. \A q \in Calls : /\ pc'[q] = IF q = r THEN "sending" ELSE pc[q]
                       /\ call'[q] = IF q = r THEN new ELSE call[q]
  BY <1>3 DEF DeliveryInv, DeliveryTypeOK
<1>5. OneSender' BY <1>1, <1>2, <1>4 DEF AttemptInv, OneSender, Sends, Straight
<1>6. SendersKnowTheRow' BY <1>1, <1>2, <1>4 DEF AttemptInv, SendersKnowTheRow, Sends, Straight
<1>7. AcceptedIsRecorded' BY <1>1, <1>4 DEF AttemptInv, AcceptedIsRecorded, Straight
<1>8. ReportsFit' BY <1>1 DEF AttemptInv, ReportsFit
<1>9. \A w \in Versions : Recorded(w)' = Recorded(w) BY <1>1, <1>4 DEF Recorded
<1>10. RowsCount' BY <1>1, <1>9 DEF AttemptInv, RowsCount
<1> QED BY <1>5, <1>6, <1>7, <1>8, <1>10 DEF AttemptInv

LEMMA RecordKeepsAttempts ==
    ASSUME DeliveryInv, AttemptInv, NEW r \in Calls, Record(r)
    PROVE  AttemptInv'
<1> DEFINE v == call[r].v
           accepted == call[r].outcome = "accepted"
           new == [st |-> IF accepted THEN "sent" ELSE "failed",
                   attempts |-> call[r].attempts + 1,
                   id |-> IF accepted THEN r ELSE call[r].id,
                   sentAt |-> accepted, deliveredAt |-> FALSE]
<1>1. /\ row' = [row EXCEPT ![v] = new] /\ pc[r] = "answered" /\ pc' = [pc EXCEPT ![r] = "done"]
      /\ UNCHANGED <<call, rc, report, crossed>>
  BY DEF Record, CountAttempt
<1>2. v \in Versions BY <1>1 DEF DeliveryInv, CallsAreAboutTheirVersion
<1>3. v \notin crossed => row[v].st \in {"pending", "failed"} /\ row[v].attempts = call[r].attempts
  BY <1>1 DEF AttemptInv, SendersKnowTheRow, Sends, Straight
<1>4. /\ new.attempts = call[r].attempts + 1 /\ new.st \in {"sent", "failed"}
      /\ accepted => new.st = "sent"
  OBVIOUS
<1> HIDE DEF new
<1>5. \A w \in Versions : row'[w] = IF w = v THEN new ELSE row[w]
  BY <1>1 DEF DeliveryInv, DeliveryTypeOK
<1>6. \A q \in Calls : pc'[q] = IF q = r THEN "done" ELSE pc[q]
  BY <1>1 DEF DeliveryInv, DeliveryTypeOK
<1>7. \A q \in Calls \ {r} : Sends(q) => call[q].v \in Versions /\ (call[q].v = v => v \in crossed)
  BY <1>1 DEF AttemptInv, OneSender, Sends, Straight, DeliveryInv, CallsAreAboutTheirVersion
<1>8. OneSender' BY <1>1, <1>6 DEF AttemptInv, OneSender, Sends, Straight
<1>9. SendersKnowTheRow'
  BY <1>1, <1>5, <1>6, <1>7 DEF AttemptInv, SendersKnowTheRow, Sends, Straight
<1>10. AcceptedIsRecorded'
  <2>1. \A q \in Calls : pc[q] = "done" => call[q].v \in Versions
    BY DEF DeliveryInv, CallsAreAboutTheirVersion
  <2>2. \A q \in Calls : pc[q] = "done" /\ call[q].outcome = "accepted" /\ call[q].v = v => v \in crossed
    BY <1>3 DEF AttemptInv, AcceptedIsRecorded, Straight
  <2> QED BY <1>1, <1>2, <1>4, <1>5, <1>6, <2>1, <2>2 DEF AttemptInv, AcceptedIsRecorded, Straight
<1>11. ReportsFit'
  <2>1. \A c \in Reports : rc[c] = "read" => /\ report[c].v \in Versions
                                             /\ report[c].v = v => v \in crossed
    BY <1>3 DEF AttemptInv, ReportsFit, DeliveryInv
  <2> QED BY <1>1, <1>4, <1>5, <2>1 DEF AttemptInv, ReportsFit
<1>12. RowsCount'
  <2> SUFFICES ASSUME NEW w \in Versions \ crossed
               PROVE  (IsFiniteSet(Recorded(w)) /\ Cardinality(Recorded(w)) = row[w].attempts)'
    BY <1>1 DEF RowsCount
  <2>1. IsFiniteSet(Recorded(w)) /\ Cardinality(Recorded(w)) = row[w].attempts
    BY DEF AttemptInv, RowsCount
  <2>2. CASE w = v
    <3>1. Recorded(w)' = Recorded(w) \cup {r} BY <1>1, <1>6, <2>2 DEF Recorded
    <3>2. r \notin Recorded(w) BY <1>1 DEF Recorded
    <3>3. IsFiniteSet(Recorded(w) \cup {r})
          /\ Cardinality(Recorded(w) \cup {r}) = Cardinality(Recorded(w)) + 1
      BY <2>1, <3>2, FS_AddElement
    <3> QED BY <1>3, <1>4, <1>5, <2>1, <2>2, <3>1, <3>3
  <2>3. CASE w # v
    <3>1. Recorded(w)' = Recorded(w) BY <1>1, <1>6, <2>3 DEF Recorded
    <3> QED BY <1>5, <2>1, <2>3, <3>1
  <2> QED BY <2>2, <2>3
<1> QED BY <1>8, <1>9, <1>10, <1>11, <1>12 DEF AttemptInv

LEMMA ReportKeepsAttempts ==
    ASSUME DeliveryInv, AttemptInv, NEW c \in Reports, ApplyReport(c)
    PROVE  AttemptInv'
<1>1. /\ rc[c] = "read" /\ UNCHANGED <<pc, call, report, crossed>>
      /\ rc' = [rc EXCEPT ![c] = "done"]
  BY DEF ApplyReport
<1>2. \A d \in Reports : rc'[d] = "read" => rc[d] = "read" BY <1>1 DEF DeliveryInv, DeliveryTypeOK
<1> DEFINE v == report[c].v
<1>3. \A w \in Versions : \/ row'[w].attempts = row[w].attempts /\ row'[w].st = row[w].st
                          \/ /\ w = v /\ row'[w].st = "delivered"
                             /\ w \notin crossed => row'[w].attempts = row[w].attempts
  <2>1. CASE ~TimestampsAgree(Reported(c)) BY <2>1 DEF ApplyReport
  <2>2. CASE TimestampsAgree(Reported(c))
    <3>1. /\ Reported(c).st = "delivered"
          /\ v \notin crossed => Reported(c).attempts = row[v].attempts
      BY <1>1, <2>2 DEF TimestampsAgree, Reported, AttemptInv, ReportsFit
    <3>2. row' = [row EXCEPT ![v] = Reported(c)] BY <2>2 DEF ApplyReport
    <3> QED BY <3>1, <3>2 DEF DeliveryInv, DeliveryTypeOK
  <2> QED BY <2>1, <2>2
<1>4. v \notin crossed => row[v].st \in {"sent", "delivered"} BY <1>1 DEF AttemptInv, ReportsFit
<1>5. \A q \in Calls : pc[q] # "idle" => call[q].v \in Versions
  BY DEF DeliveryInv, CallsAreAboutTheirVersion
<1>6. OneSender' BY <1>1 DEF AttemptInv, OneSender, Sends, Straight
<1>7. SendersKnowTheRow'
  BY <1>1, <1>3, <1>4, <1>5 DEF AttemptInv, SendersKnowTheRow, Sends, Straight
<1>8. AcceptedIsRecorded' BY <1>1, <1>3, <1>5 DEF AttemptInv, AcceptedIsRecorded, Straight
<1>9. ReportsFit' BY <1>1, <1>2, <1>3 DEF AttemptInv, ReportsFit, DeliveryInv
<1>10. \A w \in Versions : Recorded(w)' = Recorded(w) BY <1>1 DEF Recorded
<1>11. RowsCount' BY <1>1, <1>3, <1>10 DEF AttemptInv, RowsCount
<1> QED BY <1>6, <1>7, <1>8, <1>9, <1>11 DEF AttemptInv

LEMMA QuietCalls ==
    ASSUME DeliveryInv, AttemptInv, NEW r \in Calls,
           BeginSend(r) \/ Carry(r) \/ Accept(r) \/ Refuse(r) \/ Timeout(r) \/ Die(r)
    PROVE  AttemptInv'
<1> USE DEF DeliveryInv, DeliveryTypeOK
<1>1. CASE BeginSend(r)
  <2>1. PICK seen \in {ledger, NoVersion} :
          call' = [call EXCEPT ![r] = Request(ledger, ledger, seen, 0, NoCall)]
    BY <1>1 DEF BeginSend
  <2> DEFINE new == Request(ledger, ledger, seen, 0, NoCall)
  <2>2. new.attempts = 0 BY DEF Request
  <2>3. call' = [call EXCEPT ![r] = new] /\ pc[r] = "idle" /\ pc' = [pc EXCEPT ![r] = "claiming"]
        /\ UNCHANGED <<row, rc, report, crossed>>
    BY <1>1, <2>1 DEF BeginSend
  <2> HIDE DEF new
  <2> QED BY <2>2, <2>3, QuietStep DEF Sends, AttemptInv, SendersKnowTheRow
<1>2. CASE Carry(r)
  BY <1>2, QuietStep DEF Carry, Sends, AttemptInv, SendersKnowTheRow
<1>3. ASSUME NEW outcome, Answer(r, outcome) PROVE AttemptInv'
  BY <1>3, QuietStep DEF Answer, Sends, AttemptInv, SendersKnowTheRow
<1>4. CASE Die(r)
  BY <1>4, QuietStep DEF Die, UnderWay, Sends, AttemptInv, SendersKnowTheRow
<1> QED BY <1>1, <1>2, <1>3, <1>4 DEF Accept, Refuse, Timeout

LEMMA AttemptStep == DeliveryInv /\ AttemptInv /\ [Next]_vars => AttemptInv'
<1> SUFFICES ASSUME DeliveryInv, AttemptInv, [Next]_vars PROVE AttemptInv' OBVIOUS
<1>1. ASSUME NEW c \in Reports, NEW r \in Calls, NEW status \in {"delivered", "failed"},
             BeginReport(c, r, status)
      PROVE  AttemptInv'
  <2>1. PICK v \in Versions :
          /\ row[v].st = "sent"
          /\ report' = [report EXCEPT ![c] = [v |-> v, status |-> status, id |-> r,
                                              attempts |-> row[v].attempts]]
    BY <1>1 DEF BeginReport
  <2>2. rc' = [rc EXCEPT ![c] = "read"] /\ UNCHANGED <<row, pc, call, crossed>>
    BY <1>1 DEF BeginReport
  <2>3. ReportsFit' BY <2>1, <2>2 DEF AttemptInv, ReportsFit, DeliveryInv, DeliveryTypeOK
  <2>4. \A w \in Versions : Recorded(w)' = Recorded(w) BY <2>2 DEF Recorded
  <2> QED BY <2>2, <2>3, <2>4
          DEF AttemptInv, OneSender, SendersKnowTheRow, AcceptedIsRecorded, RowsCount, Sends, Straight
<1>2. CASE ChangeLedger BY <1>2, QuietStep DEF ChangeLedger, Sends, AttemptInv, SendersKnowTheRow
<1>3. CASE UNCHANGED vars BY <1>3, QuietStep DEF vars, Sends, AttemptInv, SendersKnowTheRow
<1> QED BY <1>1, <1>2, <1>3, QuietCalls, ClaimKeepsAttempts, RetryKeepsAttempts,
           RecordKeepsAttempts, ReportKeepsAttempts DEF Next

LEMMA AttemptAlways == Spec => [](DeliveryInv /\ AttemptInv)
<1>1. DeliveryInv /\ AttemptInv /\ [Next]_vars => (DeliveryInv /\ AttemptInv)'
  BY DeliveryStep, AttemptStep
<1> QED BY <1>1, DeliveryInit, AttemptInit, PTL DEF Spec

\* A delivery of which no two attempts were ever in hand at once is attempted at
\* most MaxAttempts times: the count its row keeps is the number of attempts
\* recorded, and the attempt under way is the only one.
THEOREM AttemptsAreCapped == Spec => []AttemptsCapped
<1>1. DeliveryInv /\ AttemptInv => AttemptsCapped
  <2> SUFFICES ASSUME DeliveryInv, AttemptInv, NEW v \in Versions \ crossed
               PROVE  Cardinality(Attempts(v)) <= MaxAttempts
    BY DEF AttemptsCapped
  <2>1. /\ IsFiniteSet(Recorded(v)) /\ Cardinality(Recorded(v)) = row[v].attempts
        /\ row[v].attempts \in 0..MaxAttempts
    BY DEF AttemptInv, RowsCount, DeliveryInv, DeliveryTypeOK
  <2>2. CASE \E r \in Calls : Sends(r) /\ call[r].v = v
    <3>1. PICK r \in Calls : Sends(r) /\ call[r].v = v BY <2>2
    <3>2. Attempts(v) = Recorded(v) \cup {r} /\ r \notin Recorded(v)
      BY <3>1 DEF Attempts, Recorded, Sends, AttemptInv, OneSender, Straight
    <3>3. row[v].attempts < MaxAttempts
      BY <3>1 DEF Sends, Straight, UnderWay, AttemptInv, SendersKnowTheRow, DeliveryInv,
                  CallsAreAboutTheirVersion
    <3>4. Cardinality(Recorded(v) \cup {r}) = Cardinality(Recorded(v)) + 1
      BY <2>1, <3>2, FS_AddElement
    <3> QED BY <2>1, <3>2, <3>3, <3>4, MaxAttemptsAssumption
  <2>3. CASE ~\E r \in Calls : Sends(r) /\ call[r].v = v
    <3>1. Attempts(v) = Recorded(v) BY <2>3 DEF Attempts, Recorded, Sends
    <3> QED BY <2>1, <3>1, MaxAttemptsAssumption
  <2> QED BY <2>2, <2>3
<1> QED BY <1>1, AttemptAlways, PTL

\* Only a delivery that had two attempts in hand at once is sent again after its
\* acceptance was recorded, or walked back from a confirmation.
THEOREM AcceptancesAreFinal == Spec => AcceptedIsFinal
<1> DEFINE Final ==
      \A v \in Versions \ crossed' :
        /\ (\E s \in Calls : call[s].v = v /\ call[s].outcome = "accepted" /\ pc[s] = "done") =>
             \A r \in Calls : pc[r] # "sending" /\ pc'[r] = "sending" => call'[r].v # v
        /\ row[v].st = "delivered" => row'[v].st = "delivered"
<1>1. DeliveryInv /\ AttemptInv /\ [Next]_vars => [Final]_vars
  <2> SUFFICES ASSUME DeliveryInv, AttemptInv, Next, NEW v \in Versions \ crossed'
               PROVE  /\ (\E s \in Calls : call[s].v = v /\ call[s].outcome = "accepted" /\ pc[s] = "done")
                           => \A r \in Calls : pc[r] # "sending" /\ pc'[r] = "sending" => call'[r].v # v
                      /\ row[v].st = "delivered" => row'[v].st = "delivered"
    OBVIOUS
  <2>0. v \notin crossed
    BY DEF Next, ChangeLedger, BeginSend, Claim, BeginRetry, Carry, Accept, Refuse, Timeout,
           Answer, Record, Die, BeginReport, ApplyReport
  <2>1. (\E s \in Calls : call[s].v = v /\ call[s].outcome = "accepted" /\ pc[s] = "done")
          => row[v].st \in {"sent", "delivered"}
    BY <2>0 DEF AttemptInv, AcceptedIsRecorded, Straight
  <2>2. ASSUME NEW r \in Calls, pc[r] # "sending", pc'[r] = "sending", call'[r].v = v
        PROVE  row[v].st \in {"none", "failed"}
    <3>1. ASSUME NEW q \in Calls, Claim(q) PROVE row[v].st = "none"
      BY <2>2, <3>1 DEF Claim, Unclaimed, DeliveryInv, DeliveryTypeOK
    <3>2. ASSUME NEW q \in Calls, NEW w \in Versions, BeginRetry(q, w) PROVE row[v].st = "failed"
      <4>1. pc' = [pc EXCEPT ![q] = "sending"] BY <3>2 DEF BeginRetry
      <4>2. q = r BY <2>2, <4>1 DEF DeliveryInv, DeliveryTypeOK
      <4> DEFINE new == Request(w, RecordedBody(w), NoVersion, row[w].attempts, row[w].id)
      <4>3. new.v = w BY DEF Request
      <4>4. call' = [call EXCEPT ![q] = new] /\ row[w].st = "failed"
        BY <3>2 DEF BeginRetry, Retryable
      <4> HIDE DEF new
      <4> QED BY <2>2, <4>2, <4>3, <4>4 DEF DeliveryInv, DeliveryTypeOK
    <3>3. CASE ~(\E q \in Calls : Claim(q) \/ \E w \in Versions : BeginRetry(q, w))
      BY <2>2, <3>3 DEF Next, ChangeLedger, BeginSend, Carry, Accept, Refuse, Timeout, Answer,
                        Record, Die, BeginReport, ApplyReport, DeliveryInv, DeliveryTypeOK
    <3> QED BY <3>1, <3>2, <3>3
  <2>3. ASSUME row[v].st = "delivered" PROVE row'[v].st = "delivered"
    <3>1. ASSUME NEW r \in Calls, Claim(r) PROVE row'[v].st = "delivered"
      BY <2>3, <3>1 DEF Claim, Unclaimed, DeliveryInv, DeliveryTypeOK
    <3>2. ASSUME NEW r \in Calls, Record(r) PROVE row'[v].st = "delivered"
      <4>1. call[r].v = v => row[v].st # "delivered"
        BY <2>0, <3>2 DEF Record, AttemptInv, SendersKnowTheRow, Sends, Straight
      <4> QED BY <2>3, <3>2, <4>1 DEF Record, DeliveryInv, DeliveryTypeOK
    <3>3. ASSUME NEW c \in Reports, ApplyReport(c) PROVE row'[v].st = "delivered"
      <4>1. report[c].status \in {"delivered", "failed"} /\ report[c].v \in Versions
        BY <3>3 DEF ApplyReport, AttemptInv, ReportsFit, DeliveryInv
      <4>2. TimestampsAgree(Reported(c)) => Reported(c).st = "delivered"
        BY <4>1 DEF TimestampsAgree, Reported
      <4> QED BY <2>3, <3>3, <4>2 DEF ApplyReport, DeliveryInv, DeliveryTypeOK
    <3>4. CASE UNCHANGED row BY <2>3, <3>4
    <3> QED BY <3>1, <3>2, <3>3, <3>4 DEF Next, ChangeLedger, BeginSend, BeginRetry, Carry, Accept,
                                       Refuse, Timeout, Answer, Die, BeginReport
  <2> QED BY <2>1, <2>2, <2>3
<1> HIDE DEF Final
<1>2. [][Final]_vars => AcceptedIsFinal BY DEF Final, AcceptedIsFinal
<1>3. Spec => [][Final]_vars BY <1>1, AttemptAlways, PTL DEF Spec
<1> QED BY <1>2, <1>3
=============================================================================
