-------------------------- MODULE GracefulShutdown --------------------------
(***************************************************************************)
(* How the API process answers SIGINT and SIGTERM                          *)
(* (src/src/server-shutdown.ts): stop listening, let the requests under    *)
(* way finish, close the ledger, exit.  The event loop runs one callback   *)
(* at a time, so a step is a callback: a timer, a socket event, a settled  *)
(* promise.  A request handler is several callbacks long and goes on when  *)
(* its socket is gone.  Node's listener and the clients are external.      *)
(***************************************************************************)
EXTENDS Naturals

CONSTANTS
    Connections,   \* the sockets that may be opened
    MaxRequests,   \* bound on the requests of a behaviour
    MaxSignals     \* bound on the signals of a behaviour

ASSUME ShutdownAssumption == MaxRequests \in Nat /\ MaxSignals \in Nat

VARIABLES
    listener,   \* "open", "closing", or "refused" when close() reports an error
    conn,       \* each socket: "none", "idle", "busy" or "gone"
    work,       \* the connections whose request handler still runs
    lost,       \* the handlers whose socket went away under them
    step,       \* how far run() is: "none", "listener", "settled", "database",
                \* "exit" or "exited"; `running` is set unless it is "none"
    database,   \* "open", "closed" or "failed" once close() has settled
    closes,     \* history: calls of closeDatabase
    exitCode,   \* exitCode of run()
    requests, signals

sockets == <<conn, work, lost>>
teardown == <<listener, step, database, closes, exitCode>>
vars == <<sockets, teardown, requests, signals>>

Alive == step # "exited"
Draining == step = "listener"   \* both timers are armed

Init ==
    /\ listener = "open"
    /\ conn = [c \in Connections |-> "none"]
    /\ work = {} /\ lost = {}
    /\ step = "none"
    /\ database = "open" /\ closes = 0 /\ exitCode = 0
    /\ requests = 0 /\ signals = 0

-----------------------------------------------------------------------------
(* Clients and handlers.                                                   *)

\* A connection that is kept alive takes another request as long as it is
\* open, after close() too; only an open listener accepts a new one.
Request(c) ==
    /\ Alive /\ requests < MaxRequests
    /\ c \notin work
    /\ conn[c] = "idle" \/ (conn[c] = "none" /\ listener = "open")
    /\ conn' = [conn EXCEPT ![c] = "busy"]
    /\ work' = work \cup {c}
    /\ requests' = requests + 1
    /\ UNCHANGED <<lost, teardown, signals>>

\* The response is written and the connection goes idle.
Respond(c) ==
    /\ Alive /\ c \in work /\ conn[c] = "busy"
    /\ conn' = [conn EXCEPT ![c] = "idle"]
    /\ work' = work \ {c}
    /\ UNCHANGED <<lost, teardown, requests, signals>>

\* A handler whose socket is gone comes to its end all the same.
FinishUnheard(c) ==
    /\ Alive /\ c \in lost
    /\ work' = work \ {c} /\ lost' = lost \ {c}
    /\ UNCHANGED <<conn, teardown, requests, signals>>

\* The client hangs up, in the middle of a request or between two.
HangUp(c) ==
    /\ Alive /\ conn[c] \in {"idle", "busy"}
    /\ conn' = [conn EXCEPT ![c] = "gone"]
    /\ lost' = lost \cup ({c} \cap work)
    /\ UNCHANGED <<work, teardown, requests, signals>>

-----------------------------------------------------------------------------
(* The teardown: run() and closeHttpServer().                              *)

\* Mutation: every signal calls run().
EverySignal == TRUE
FirstSignal == step = "none"

\* Mutation: the sweep releases nobody.
NobodyReleased(from) == from
IdleReleased(from) ==
    [c \in Connections |-> IF from[c] = "idle" THEN "gone" ELSE from[c]]

\* Mutation: close() is never called.
GoesOnListening == {"open"}
StopsListening == {"closing", "refused"}

\* Mutation: there is no deadline.
NoDeadline == FALSE
DeadlineArmed == Draining

\* Mutation: the ledger is closed as soon as close() has been called.
ListenerNotAwaited == step \in {"listener", "settled"}
ListenerDone == step = "settled"

\* Mutation: an error of the database is logged and forgotten.
CodeKept(outcome) == exitCode
CodeAfter(outcome) == IF outcome = "failed" THEN 1 ELSE exitCode

\* The first signal starts the teardown; a later one is handed the same promise.
Signal ==
    /\ Alive /\ signals < MaxSignals
    /\ signals' = signals + 1
    /\ IF FirstSignal
         THEN /\ step' = "listener"
              /\ listener' \in StopsListening
              /\ conn' = IdleReleased(conn)
         ELSE UNCHANGED <<step, listener, conn>>
    /\ UNCHANGED <<work, lost, database, closes, exitCode, requests>>

\* The interval releases the connections that have gone idle since.
Sweep ==
    /\ Draining
    /\ conn' = IdleReleased(conn)
    /\ UNCHANGED <<work, lost, teardown, requests, signals>>

\* The close callback comes when the last socket is gone, or with an error.
CloseCallback ==
    /\ Draining
    /\ \/ listener = "closing" /\ exitCode' = exitCode
          /\ \A c \in Connections : conn[c] \in {"none", "gone"}
       \/ listener = "refused" /\ exitCode' = 1
    /\ step' = "settled"
    /\ UNCHANGED <<sockets, listener, database, closes, requests, signals>>

\* After graceMs whoever is still connected is cut.  An error of close() is
\* reported on the next tick, long before.
Deadline ==
    /\ DeadlineArmed /\ listener = "closing"
    /\ conn' = [c \in Connections |-> IF conn[c] = "none" THEN "none" ELSE "gone"]
    /\ lost' = work
    /\ step' = "settled"
    /\ UNCHANGED <<work, listener, database, closes, exitCode, requests, signals>>

CloseDatabase ==
    /\ ListenerDone
    /\ step' = "database" /\ closes' = closes + 1
    /\ UNCHANGED <<sockets, listener, database, exitCode, requests, signals>>

DatabaseSettles ==
    /\ step = "database"
    /\ \E outcome \in {"closed", "failed"} :
         database' = outcome /\ exitCode' = CodeAfter(outcome)
    /\ step' = "exit"
    /\ UNCHANGED <<sockets, listener, closes, requests, signals>>

Exit ==
    /\ step = "exit"
    /\ step' = "exited"
    /\ UNCHANGED <<sockets, listener, database, closes, exitCode, requests, signals>>

Next ==
    \/ \E c \in Connections : Request(c) \/ Respond(c) \/ FinishUnheard(c) \/ HangUp(c)
    \/ Signal \/ Sweep \/ CloseCallback \/ Deadline
    \/ CloseDatabase \/ DatabaseSettles \/ Exit

\* What Node owes the program: an armed interval fires, a callback that is due
\* is called, the promise of the database settles.  Nothing is assumed of
\* clients, handlers and signals, and the deadline is left to the properties.
Fairness ==
    /\ WF_vars(Sweep) /\ WF_vars(CloseCallback)
    /\ WF_vars(CloseDatabase) /\ WF_vars(DatabaseSettles) /\ WF_vars(Exit)

Spec == Init /\ [][Next]_vars /\ Fairness

-----------------------------------------------------------------------------
ShutdownTypeOK ==
    /\ listener \in {"open", "closing", "refused"}
    /\ conn \in [Connections -> {"none", "idle", "busy", "gone"}]
    /\ work \subseteq Connections
    /\ lost = {c \in work : conn[c] = "gone"}
    /\ step \in {"none", "listener", "settled", "database", "exit", "exited"}
    /\ listener = "open" <=> step = "none"
    /\ database \in {"open", "closed", "failed"}
    /\ closes \in Nat /\ exitCode \in 0..1
    /\ requests \in 0..MaxRequests /\ signals \in 0..MaxSignals

\* However many signals come, the ledger is closed once, and not under a request
\* that is being served: a handler still at work by then has lost its socket, to
\* its client or to the deadline, or the listener refused to close
\* (server-shutdown.ts:11-17, 58-64).
LedgerClosesOnceAfterTheWork ==
    /\ closes <= 1
    /\ closes > 0 => work = lost \/ listener = "refused"

\* The process leaves only once the ledger has closed or failed to, and its exit
\* code is zero exactly when neither step failed (server-shutdown.ts:75-93).
ExitTellsTheTruth ==
    step = "exited" =>
        /\ database # "open"
        /\ exitCode = 0 <=> listener = "closing" /\ database = "closed"

\* With the deadline firing, a signal ends the process whatever its requests and
\* its clients do: a request that never finishes cannot hold it open.
SignalEndsTheProcess ==
    WF_vars(Deadline) => (step # "none" ~> step = "exited")

\* Without it, a signal ends the process once handlers answer: the sweep alone
\* releases connections that are kept alive (server-shutdown.ts:19-24).
DrainsOnItsOwn ==
    (\A c \in Connections : WF_vars(Respond(c))) => (step # "none" ~> step = "exited")
=============================================================================
