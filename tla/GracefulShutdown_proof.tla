----------------------- MODULE GracefulShutdown_proof -----------------------
(***************************************************************************)
(* Safety of the teardown for any set of connections and any number of     *)
(* requests and signals.                                                   *)
(***************************************************************************)
EXTENDS GracefulShutdown, TLAPS

\* The stages of run() before the ledger is asked to close, and after.
Before == {"none", "listener", "settled"}
After == {"database", "exit", "exited"}

\* A handler has a busy socket or has lost it.
HandlersHaveSockets == \A c \in work : conn[c] \in {"busy", "gone"}

\* Once the listener has closed nobody is connected, and it takes nobody new.
NobodyConnected ==
    step \in {"settled"} \cup After /\ listener = "closing" =>
        \A c \in Connections : conn[c] \in {"none", "gone"}

\* The ledger is closed on the way from one stage to the next, once.
ClosedInPassing ==
    /\ step \in Before => closes = 0
    /\ step \in After => closes = 1
    /\ database = "open" <=> step \notin {"exit", "exited"}

\* The exit code says which step has failed so far.
CodeSoFar ==
    exitCode = 0 <=> \/ step \in {"none", "listener"}
                     \/ listener = "closing" /\ database # "failed"

ShutdownInv ==
    /\ ShutdownTypeOK
    /\ HandlersHaveSockets
    /\ NobodyConnected
    /\ ClosedInPassing
    /\ CodeSoFar

-----------------------------------------------------------------------------
LEMMA ShutdownInit == Init => ShutdownInv
BY ShutdownAssumption
   DEF Init, ShutdownInv, ShutdownTypeOK, HandlersHaveSockets, NobodyConnected,
       ClosedInPassing, CodeSoFar, Before, After

\* What clients and handlers do leaves the teardown where it is.
LEMMA SocketStep ==
    ASSUME ShutdownInv, NEW c \in Connections,
           Request(c) \/ Respond(c) \/ FinishUnheard(c) \/ HangUp(c)
    PROVE  ShutdownInv'
<1> USE DEF ShutdownInv, ShutdownTypeOK, HandlersHaveSockets, NobodyConnected,
            ClosedInPassing, CodeSoFar, Before, After, teardown
<1>1. CASE Request(c)
  <2>1. conn' = [conn EXCEPT ![c] = "busy"] /\ work' = work \cup {c} /\ lost' = lost
        /\ requests' \in 0..MaxRequests
    BY <1>1, ShutdownAssumption DEF Request
  <2>2. lost' = {d \in work' : conn'[d] = "gone"} BY <1>1, <2>1 DEF Request
  <2>3. NobodyConnected' BY <1>1 DEF Request
  <2> QED BY <1>1, <2>1, <2>2, <2>3 DEF Request
<1>2. CASE Respond(c) BY <1>2 DEF Respond
<1>3. CASE FinishUnheard(c) BY <1>3 DEF FinishUnheard
<1>4. CASE HangUp(c)
  <2>1. conn' = [conn EXCEPT ![c] = "gone"] /\ work' = work
        /\ lost' = lost \cup ({c} \cap work)
    BY <1>4 DEF HangUp
  <2>2. lost' = {d \in work' : conn'[d] = "gone"} BY <2>1
  <2> QED BY <1>4, <2>1, <2>2 DEF HangUp
<1> QED BY <1>1, <1>2, <1>3, <1>4

LEMMA TeardownStep ==
    ASSUME ShutdownInv,
           Signal \/ Sweep \/ CloseCallback \/ Deadline \/ CloseDatabase \/ DatabaseSettles \/ Exit
    PROVE  ShutdownInv'
<1> USE DEF ShutdownInv, ShutdownTypeOK, HandlersHaveSockets, NobodyConnected,
            ClosedInPassing, CodeSoFar, Before, After, sockets, teardown
<1>1. CASE Signal
  <2>1. signals' \in 0..MaxSignals BY <1>1, ShutdownAssumption DEF Signal
  <2>2. CASE step = "none" BY <1>1, <2>1, <2>2 DEF Signal, FirstSignal, StopsListening, IdleReleased
  <2>3. CASE step # "none" BY <1>1, <2>1, <2>3 DEF Signal, FirstSignal
  <2> QED BY <2>2, <2>3
<1>2. CASE Sweep BY <1>2 DEF Sweep, Draining, IdleReleased
<1>3. CASE CloseCallback BY <1>3 DEF CloseCallback, Draining
<1>4. CASE Deadline
  <2>1. \A c \in work : conn[c] # "none" OBVIOUS
  <2>2. lost' = {c \in work' : conn'[c] = "gone"} BY <1>4, <2>1 DEF Deadline, DeadlineArmed
  <2> QED BY <1>4, <2>2 DEF Deadline, DeadlineArmed, Draining
<1>5. CASE CloseDatabase BY <1>5 DEF CloseDatabase, ListenerDone
<1>6. CASE DatabaseSettles BY <1>6 DEF DatabaseSettles, CodeAfter
<1>7. CASE Exit BY <1>7 DEF Exit
<1> QED BY <1>1, <1>2, <1>3, <1>4, <1>5, <1>6, <1>7

LEMMA ShutdownStep == ShutdownInv /\ [Next]_vars => ShutdownInv'
<1> SUFFICES ASSUME ShutdownInv, [Next]_vars PROVE ShutdownInv' OBVIOUS
<1>1. CASE UNCHANGED vars
  BY <1>1 DEF vars, sockets, teardown, ShutdownInv, ShutdownTypeOK, HandlersHaveSockets,
              NobodyConnected, ClosedInPassing, CodeSoFar
<1>2. CASE Next BY <1>2, SocketStep, TeardownStep DEF Next
<1> QED BY <1>1, <1>2

LEMMA ShutdownAlways == Spec => []ShutdownInv
BY ShutdownInit, ShutdownStep, PTL DEF Spec

-----------------------------------------------------------------------------
\* Every variable of the teardown keeps its type.
THEOREM ShutdownTypeCorrect == Spec => []ShutdownTypeOK
BY ShutdownAlways, PTL DEF ShutdownInv

\* The ledger is closed at most once, and under no request that still has its
\* client unless the listener refused to close (run in server-shutdown.ts).
THEOREM LedgerOutlivesTheWork == Spec => []LedgerClosesOnceAfterTheWork
<1>1. ShutdownInv => LedgerClosesOnceAfterTheWork
  <2> SUFFICES ASSUME ShutdownInv PROVE LedgerClosesOnceAfterTheWork OBVIOUS
  <2> USE DEF ShutdownInv, ShutdownTypeOK, ClosedInPassing, Before, After
  <2>1. closes <= 1 OBVIOUS
  <2>2. ASSUME closes > 0, listener # "refused" PROVE work = lost
    <3>1. step \in After /\ listener = "closing" BY <2>2
    <3>2. \A c \in work : conn[c] = "gone"
      BY <3>1 DEF NobodyConnected, HandlersHaveSockets
    <3> QED BY <3>2
  <2> QED BY <2>1, <2>2 DEF LedgerClosesOnceAfterTheWork
<1> QED BY <1>1, ShutdownAlways, PTL

\* The process leaves with the ledger settled and a code that tells what failed.
THEOREM ExitCodeIsTrue == Spec => []ExitTellsTheTruth
<1>1. ShutdownInv => ExitTellsTheTruth
  BY DEF ShutdownInv, ShutdownTypeOK, ClosedInPassing, CodeSoFar, ExitTellsTheTruth
<1> QED BY <1>1, ShutdownAlways, PTL
=============================================================================
