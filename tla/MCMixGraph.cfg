SPECIFICATION Spec
CONSTANTS
    a = a
    b = b
    Participants = {a, b}
    Tick = 2
    MAX_CATCHUP_TICKS = 2
    MAX_BURST_WRITES = 2
    QUEUE_CAPACITY = 3
    MIN_TARGET_FRAMES = 1
    MAX_TARGET_FRAMES = 2
    SHRINK_MARGIN_FRAMES = 0
    SHRINK_AFTER_TICKS = 2
    REPREFILL_AFTER_EMPTY_TICKS = 2
    TALKSPURT_GAP = 3
    Scopes <- SafetyScopes
INVARIANTS
    TypeOK
    EveryTickAccounted
    OncePerTick
    FramesConserved
CHECK_DEADLOCK FALSE
