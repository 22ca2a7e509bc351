CONSTANTS
    Expenses = {e1}
    Requests = {r1, r2, r3, r4, r5}
    NoRequest = NoRequest
    Gross = 3
    Targets = {"ready_to_sync"}
SYMMETRY RequestSymmetry
SPECIFICATION MCSpec
INVARIANTS
    TypeOK
    NetNonNegative
    LockedReadingsHold
    AllocationMatchesState
    ReadyOnlyWithDebt
    RefundedIsSumOfActive
PROPERTIES
    LockedSplitNeverOverstates
    KindChangeIsComplete
