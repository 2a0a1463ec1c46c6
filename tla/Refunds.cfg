SPECIFICATION FairRefundSpec
CONSTANTS
    r1 = r1
    r2 = r2
    w1 = w1
    w2 = w2
    Refunds = {r1, r2}
    Workers = {w1, w2}
    Amount = 2
    MaxCrashes = 1
CHECK_DEADLOCK FALSE
INVARIANTS
    ReservedWithinPayment
    PendingHasRefund
PROPERTIES
    ProcessingIsResolved
