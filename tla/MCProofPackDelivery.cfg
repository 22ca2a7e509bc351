CONSTANTS
    Calls = {r1, r2, r3}
    Reports = {c1}
    Versions = {1, 2}
    NoVersion = NoVersion
    NoCall = NoCall
    MaxAttempts = 2
\* Every request may be over.
CHECK_DEADLOCK FALSE
SPECIFICATION Spec
INVARIANTS
    DeliveryTypeOK
    ReceivedAsRecorded
    AttemptsCapped
PROPERTIES
    AcceptedIsFinal
    PendingIsResolved
