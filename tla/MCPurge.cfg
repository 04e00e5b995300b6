SPECIFICATION FairSpec
CONSTANTS
    x = x
    y = y
    n1 = n1
    n2 = n2
    f1 = f1
    f2 = f2
    r1 = r1
    Channels = {x, y}
    Nodes = {n1, n2}
    Files = {f1, f2}
    Leftovers = {f2}
    Requests = {r1}
    OldMessages = 1
    Batch = 1
    SweepLimit = 1
    MaxFaults = 1
INVARIANTS
    TypeOK
    NothingOrphaned
    PicturesShow
PROPERTIES
    SentStays
    PurgedInTheEnd
    UnshownGoes
CHECK_DEADLOCK FALSE
