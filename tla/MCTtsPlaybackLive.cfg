SPECIFICATION FairSpec
CONSTANTS
    f1 = f1
    FrameUnits = 2
    Replies = 2
    Flushers <- OneFlush
    Scopes <- LiveScopes
PROPERTIES
    PlaybackEnds
CHECK_DEADLOCK FALSE
