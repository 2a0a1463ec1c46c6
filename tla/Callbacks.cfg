SPECIFICATION CallbackSpec
CONSTANTS
    p1 = p1
    p2 = p2
    Payments = {p1, p2}
    None = None
    MAX_EVENTS = 2
INVARIANTS
    EvidenceIsKept
    CheckedServersListen
PROPERTIES
    RetriesAreHeard
SYMMETRY Symmetry
