SPECIFICATION Spec
CONSTANTS
    MaxUtterances = 4
    Scopes <- CutInScope
INVARIANTS
    NeverBoth
CHECK_DEADLOCK FALSE
