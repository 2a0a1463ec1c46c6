SPECIFICATION GuestSpec
CONSTANTS
    t1 = t1
    t2 = t2
    k1 = k1
    k2 = k2
    k3 = k3
    v1 = v1
    Variants = {v1}
    Tabs = {t1, t2}
    Keys = {k1, k2, k3}
    MaxQuantity = 2
    MaxStock = 3
    MaxEdits = 3
    MaxChanges = 1
SYMMETRY Interchangeable
INVARIANTS
    KeyHasOneContent
    UnitsAreCounted
