SPECIFICATION FairSpec
CONSTANTS
    MaxUtterances = 4
    Scopes <- SafetyScopes
INVARIANTS
    TypeOK
    OneTerminal
    TerminalsAttributed
    LifecycleKept
PROPERTIES
    EndsInTerminal
CHECK_DEADLOCK FALSE
