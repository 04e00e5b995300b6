SPECIFICATION Spec
CONSTANTS
    n1 = n1
    n2 = n2
    s1 = s1
    r1 = r1
    r2 = r2
    w1 = w1
    Nodes = {n1, n2}
    Sess = {s1}
    Requests = {r1}
    Sockets = {w1}
    Home <- HomeOf
    TokenOf <- OneToken
    SlowLogins = TRUE
    BusLoses = FALSE
INVARIANTS
    InvalidatedStaysOut
CHECK_DEADLOCK FALSE
