SPECIFICATION CartSpec
CONSTANTS
    t1 = t1
    t2 = t2
    k1 = k1
    k2 = k2
    v1 = v1
    c1 = c1
    c2 = c2
    MaxOrders = 2
    MaxItems = 2
    Variants = {v1}
    MaxQuantity = 2
    MaxStock = 2
    Prices = {1, 2}
    Tabs = {t1, t2}
    Keys = {k1, k2}
    Requests = {c1, c2}
    MaxEdits = 2
    MaxChanges = 1
SYMMETRY Interchangeable
INVARIANT
    FrozenLinesKept
