SPECIFICATION Spec
CONSTANTS
    a = a
    b = b
    c = c
    k1 = k1
    k2 = k2
    g1 = g1
    g2 = g2
    Peers = {a, b, c}
    Clips = {k1, k2}
    Groups = {g1, g2}
    NoGroup = NoGroup
    HostOf <- TwoHosts
    MaxJoins = 4
    MaxMoves = 2
SYMMETRY Symmetric
INVARIANTS
    TypeOK
    GroupsIsolate
    ListsAreCurrent
    TargetsHearTheirClip
CHECK_DEADLOCK FALSE
