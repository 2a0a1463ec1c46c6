SPECIFICATION Spec
CONSTANTS
    o1 = o1
    w1 = w1
    c1 = c1
    None = None
    OrderIds = {o1}
    OrderNotices <- MCOrderNotices
    RefundNotices <- MCRefundNotices
    Addressed <- MCAddressed
    Bouncing <- MCBouncing
    Web = {w1}
    Cron = {c1}
    Limit = 2
    MaxCrashes = 1
INVARIANTS
    RepeatNeedsExcuse
PROPERTIES
    OrderMailsArrive
