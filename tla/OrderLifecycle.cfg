SPECIFICATION Spec
CONSTANTS
    o1 = o1
    o2 = o2
    v1 = v1
    v2 = v2
    Orders = {o1, o2}
    Variants = {v1, v2}
    Supply <- MCSupply
    MaxQuantity = 1
    LegacyOrders = {o2}
    LegacyLines <- MCLegacyLines
INVARIANTS
    SalesCountPaidOrders
    FulfilmentBackedByStock
PROPERTIES
    StepConservesUnits
    FrozenAndForward
