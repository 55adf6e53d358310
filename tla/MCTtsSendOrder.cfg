SPECIFICATION FairSpec
CONSTANTS
    MaxSends = 3
    MaxCuts = 1
    Cutters = {flush}
INVARIANTS
    TypeOK
    SendsInCallOrder
    CutLeavesNothingBehind
    RepliesOwned
PROPERTIES
    EverySendResolves
    ImplementsQueue
CHECK_DEADLOCK FALSE
