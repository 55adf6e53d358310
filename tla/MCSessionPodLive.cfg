SPECIFICATION FairSpec
CONSTANTS
    s1 = s1
    s2 = s2
    c1 = c1
    c2 = c2
    c3 = c3
    Sessions = {s1, s2}
    Clients = {c1, c2, c3}
    Room <- RoomOf
    Scopes <- LiveScopes
PROPERTIES
    SlotsAreFreed
CHECK_DEADLOCK FALSE
