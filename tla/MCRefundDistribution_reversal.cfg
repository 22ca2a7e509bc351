SPECIFICATION Spec
CONSTANTS
    Lines = {1, 2, 3}
    apples = apples
    bread = bread
    Items = {apples, bread}
    ItemOf <- MCItemOf
    KeyOf <- MCKeyOf
    GrossOf <- MCGrossOf
    UnitSplits <- MCUnitSplits
    Weights <- MCWeights
    Refunds = {r1, r2, r3}
    NoWeights = NoWeights
SYMMETRY AnyRefund
INVARIANT ReversalLeavesADistribution
CHECK_DEADLOCK FALSE
