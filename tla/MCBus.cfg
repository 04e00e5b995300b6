SPECIFICATION FairSpec
CONSTANTS
    c1 = c1
    c2 = c2
    x = x
    y = y
    session = session
    Channels = {x, y}
    Permanent = {session}
    SessionTopic = session
    Sockets = {c1, c2}
    Reads <- Shared
    MaxBreaks = 1
    MaxFailures = 2
INVARIANTS
    TypeOK
    LossIsFollowed
PROPERTIES
    SettledAtFirst
    ReadIsSubscribed
CHECK_DEADLOCK FALSE
