SPECIFICATION GiveUpSpec
CONSTANTS
    MaxAttempts = 2
    GiveUp = 1
    Absolute = 2
    Window = 1
    MaxNow = 4
    MaxSends = 4
    MaxFences = 4
CHECK_DEADLOCK FALSE
INVARIANTS
    CapInAnyCase
