SPECIFICATION Spec
CONSTANTS
    f1 = f1
    FrameUnits = 2
    Replies = 2
    Flushers <- OneFlush
    Scopes <- BargeScope
INVARIANTS
    AtRestRepliesEnded
CHECK_DEADLOCK FALSE
