SPECIFICATION Spec
CONSTANTS
    a = a
    b = b
    c = c
    s1 = s1
    s2 = s2
    s3 = s3
    Nodes = {a, b}
    Newcomers = {b}
    Sockets = {s1, s2}
    Home <- OneEach
    Faults = {"death", "slow", "restart"}
    MaxFaults = 1
    MaxErrors = 1
ACTION_CONSTRAINT Deafened
INVARIANTS
    TypeOK
    TabIsRight
    OpenIsRecorded
    HasASweeper
CHECK_DEADLOCK FALSE
