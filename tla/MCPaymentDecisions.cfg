CONSTANTS
    Payments = {p1, p2}
    Lookalikes = {{p1, p2}}
    ClassOf <- OneClass
    Amount = 2
    Requests = {r1, r2, r3, r4}
    NoRequest = NoRequest
    NoPayment = NoPayment
SYMMETRY RequestSymmetry
SPECIFICATION MCSpec
INVARIANTS
    TypeOK
    WithinBudget
    PairCountedOnce
    DiscardedNeverCounts
    AcceptedStands
PROPERTIES
    ApprovedNeverRejected
    AcceptanceIsFinal
