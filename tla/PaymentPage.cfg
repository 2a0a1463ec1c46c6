SPECIFICATION Spec
CONSTANTS
    p1 = p1
    p2 = p2
    t1 = t1
    None = None
    Payments = {p1, p2}
    Tabs = {t1}
    MAX_ATTEMPTS = 2
INVARIANTS
    SuccessIsPaid
PROPERTIES
    EntryKept
    VerificationEnds
