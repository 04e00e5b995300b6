SPECIFICATION FairSpec
CONSTANTS
    a = a
    c1 = c1
    c2 = c2
    s1 = s1
    s2 = s2
    x = x
    Users = {a}
    Channels = {x}
    Sockets = {c1, c2}
    Sessions = {s1, s2}
    Owner <- TwoTabsOwner
    SessionOf <- TwoTabsSession
    SendBuffer = 1
INVARIANTS
    TypeOK
    RoutesAgree
    ListensExactly
    ClosedHubEmpty
PROPERTIES
    DroppedIsFinal
    HandlersEnd
    ServesRoutes
CHECK_DEADLOCK FALSE
