SPECIFICATION FairSpec
CONSTANTS
    n1 = n1
    n2 = n2
    s1 = s1
    r1 = r1
    r2 = r2
    w1 = w1
    Nodes = {n1, n2}
    Sess = {s1}
    Requests = {r1, r2}
    Sockets = {w1}
    Home <- HomeOf
    TokenOf <- OneToken
    SlowLogins = FALSE
    BusLoses = TRUE
INVARIANTS
    TypeOK
    InvalidatedStaysOut
    NoSocketOutlivesItsSession
PROPERTIES
    EndsEverywhere
    ExpiryEnds
CHECK_DEADLOCK FALSE
