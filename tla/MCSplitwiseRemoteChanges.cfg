CONSTANTS
    Expenses = {x1}
    Settlements = {s1}
    Nobody = Nobody
    Amounts = {1, 2}
    Worth <- MCWorth
    Runs = {d1, d2}
    Decisions = {k1, k2}
    Pushes = {p1}
    MaxEntries = 2
    MaxMoves = 1
    MaxEdits = 1
\* Every request may be over.
CHECK_DEADLOCK FALSE
SYMMETRY Interchangeable
SPECIFICATION Spec
INVARIANTS
    RemoteTypeOK
    AbsenceIsExplained
    OneLinkPerRecord
    EffectHasItsDecision
PROPERTIES
    RunsConvergeOnTheTruth
