SPECIFICATION FairSpec
CONSTANTS
    a = a
    b = b
    m1 = m1
    m2 = m2
    Clients = {a, b}
    Msgs = {m1, m2}
    Author <- OneWriter
    MaxTries <- Once
    Page = 2
    MaxFetches = 2
    Mobile = {b}
    Deaf = {a}
    Lossy = {b}
    Marking = {}
    Dying <- FirstRequest
    Failing <- FirstRequest
INVARIANTS
    ReadersShowPrefix
    NothingMissed
PROPERTIES
    ReachesReaders
CHECK_DEADLOCK FALSE
