CONSTANTS
    Connections = {c1, c2}
    MaxRequests = 3
    MaxSignals = 2
\* The process is meant to stop.
CHECK_DEADLOCK FALSE
SPECIFICATION Spec
INVARIANTS
    ShutdownTypeOK
    LedgerClosesOnceAfterTheWork
    ExitTellsTheTruth
PROPERTIES
    SignalEndsTheProcess
    DrainsOnItsOwn
