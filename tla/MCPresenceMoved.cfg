SPECIFICATION Spec
CONSTANTS
    a = a
    b = b
    c = c
    s1 = s1
    s2 = s2
    s3 = s3
    Nodes = {a, b, c}
    Newcomers = {}
    Sockets = {s1, s2, s3}
    Home <- Everywhere
    Faults = {"death"}
    MaxFaults = 1
    MaxErrors = 0
CONSTRAINT EventsOnly
INVARIANTS
    OnlineIsTold
CHECK_DEADLOCK FALSE
