SPECIFICATION Spec
CONSTANTS
    f1 = f1
    FrameUnits = 2
    Replies = 2
    Flushers <- OneFlush
    Scopes <- SafetyScopes
INVARIANTS
    TypeOK
    SpeakingBalanced
    AudioConserved
    RepliesReported
CHECK_DEADLOCK FALSE
