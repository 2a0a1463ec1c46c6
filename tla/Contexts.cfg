SPECIFICATION ContextsSpec
CONSTANTS
    t1 = t1
    Tabs = {t1}
    s1 = s1
    Staff = {s1}
    MaxTokens = 3
    MaxVersion = 1
    MaxRevocations = 1
    MaxRequests = 2
    Customers = {ann}
    Guest = Guest
    Starting = Starting
    None = None
    MAX_UNITS = 2
    MAX_MOVES = 4
INVARIANTS
    StoredTokenIsLive
    LogoutIsKept
    ShownIsTheCart
PROPERTIES
    RestoreEnds
    BusyEnds
CHECK_DEADLOCK FALSE
