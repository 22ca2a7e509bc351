CONSTANTS
    Expenses = {e1}
    Requests = {r1, r2, r3, r4, r5}
    Approver = r1
    NoRequest = NoRequest
    Gross = 1
    Targets = {"ready_to_sync"}
SYMMETRY RequestSymmetry
SPECIFICATION MCSpec
INVARIANTS
    SyncTypeOK
    OneLinkPerExpense
    RowTellsWhatStands
PROPERTIES
    RowsFollowTheLink
