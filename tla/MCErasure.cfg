SPECIFICATION Spec
CONSTANTS
    ann = ann
    bob = bob
    g = g
    d = d
    e = e
    r1 = r1
    r2 = r2
    n1 = n1
    n2 = n2
    Users = {ann, bob}
    Named = {g}
    Directs = {d, e}
    Requests = {r1, r2}
    Nodes = {n1, n2}
    MaxFaults = 1
CONSTRAINT TwoOrErasures
SYMMETRY Alike
INVARIANTS
    TypeOK
    MarkedIsEmpty
    OneOwner
    FirstsAgree
    RoutedIsMember
    OnlyLateRemains
    NobodyElsesWords
CHECK_DEADLOCK FALSE
