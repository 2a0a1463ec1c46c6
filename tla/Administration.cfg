SPECIFICATION AdminSpec
CONSTANTS
    Products = {p1}
    Types = {image}
    Media = {m1, m2}
    Files = {f1, f2, f3}
    Workers = {w1, w2}
    MAX = 1
    None = None
    Services = {s1, s2}
    Heroes = {h1, h2}
    Editors = {e1, e2}
    Users = {u1, u2}
    Servers = {v1, v2}
    Idling = Idling
    MaxHashes = 2
    MaxLinks = 1
SYMMETRY Symmetric
INVARIANTS
    NamedFileExists
    QuotaHolds
    OneAccountPerAddress
PROPERTIES
    HandoverIsAtomic
CHECK_DEADLOCK FALSE
