SPECIFICATION Spec
CONSTANTS
    a = a
    b = b
    m1 = m1
    m2 = m2
    Clients = {a}
    Msgs = {m1, m2}
    Author <- OneWriter
    MaxTries <- FirstTwice
    Page = 1
    MaxFetches = 1
    Mobile = {}
    Deaf = {}
    Lossy = {}
    Marking = {a}
    Dying <- FirstRequest
    Failing <- Requests
INVARIANTS
    TypeOK
    StoredOnce
    ToldIsStored
PROPERTIES
    KeepsLog
CHECK_DEADLOCK FALSE
