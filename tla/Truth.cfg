SPECIFICATION MCSpec
SYMMETRY SourceSymmetry
CONSTANTS
    Requests = {r1, r2, r3}
    Refused = r1
    Workers = {a, b}
    Windows = {spring, fall}
    None = none
    MaxAttempts = 1
    MaxFaults = 1
    MaxChanges = 1
    MaxClaims = 2
    MayAccept = TRUE
    OldSlots = {1, 2}
    OldNightly = {}
    NewSlots = {2, 3}
    NewNightly = {3}
    Margin = 2
    Allowance = 2
    Lead = 2
    MaxTime = 3
    MaxSends = 1
    MaxPauses = 1
    SkipsAtFirst = TRUE
    MaySwitch = TRUE
    MayChange = TRUE
    MayRestart = TRUE
    Steady = FALSE
    Prompt = FALSE
    Root = {r2, r3}
    Consumer = {a, b}
    Command = {m1}
    NoConsumer = NoConsumer
    NoCommand = NoCommand
    NoClaim = NoClaim
    Phases = {"unspecified", "starting", "preparing", "reconciling"}
    MaxRetry = 0
    MaxAttempt = 1
    LeaseTicks = 1
    WaitTicks = 1
    MaxSend = 1
    MaxTries = 1
    DeadlineTicks = 1
    Controls = {"pause", "withdraw", "closed", "replaced"}
INVARIANTS
    SourceSafe
    SlotsSafe
    DeliveryTypeOK
    OneUncertainPerFamily
    OccurrenceAgrees
    PauseHoldsUnsent
PROPERTIES
    SlotsKept
