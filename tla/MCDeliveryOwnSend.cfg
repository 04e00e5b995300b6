SPECIFICATION Spec
CONSTANTS
    a = a
    b = b
    m1 = m1
    m2 = m2
    Clients = {a, b}
    Msgs = {m1, m2}
    Author <- TwoWriters
    MaxTries <- Once
    Page = 2
    MaxFetches = 1
    Mobile = {b}
    Deaf = {}
    Lossy = {}
    Marking = {}
    Dying <- NoRequest
    Failing <- NoRequest
INVARIANTS
    NothingMissed
CHECK_DEADLOCK FALSE
