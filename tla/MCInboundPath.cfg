SPECIFICATION FairSpec
CONSTANTS
    SeqSpace = 16
    ResetJump = 5
    MaxHeld = 2
    MaxLostRanges = 2
    MinWait = 1
    MaxWait = 3
    WaitMargin = 1
    ObservationWindow = 4
    MaxObservations = 2
    TailFrames = 2
    Scopes <- SafetyScopes
INVARIANTS
    TypeOK
    OutputIsWhole
    SilenceIsLast
PROPERTIES
    LostOnlyAfterWait
    ArrivedIsServed
    EndIsHeard
CHECK_DEADLOCK FALSE
