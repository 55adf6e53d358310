SPECIFICATION FairSpec
CONSTANTS
    Utterances = 2
    Scopes <- SafetyScopes
INVARIANTS
    TypeOK
    ClosedOnceInOrder
    Attributed
    HeardOut
PROPERTIES
    NobodyWaitsForever
CHECK_DEADLOCK FALSE
