SPECIFICATION MCSpec
CONSTANTS
    Requests = {r1}
    Workers = {a, b}
    Windows = {spring, fall}
    None = none
    MaxAttempts = 2
    MaxFaults = 2
    MaxChanges = 1
    MaxClaims = 6
    MayAccept = FALSE
    Refused = none
    OldSlots = {1, 5}
    OldNightly = {5}
    NewSlots = {2, 6}
    NewNightly = {6}
    Margin = 3
    Allowance = 3
    Lead = 2
    MaxTime = 7
    MaxSends = 1
    MaxPauses = 0
    SkipsAtFirst = TRUE
    MaySwitch = FALSE
    MayChange = TRUE
    MayRestart = TRUE
    Steady = TRUE
    Prompt = TRUE
    Consumer = {c1, c2}
    NoHalt = NoHalt
    MaxHalts = 2
    MaxRestarts = 1
    MaxMarkerFaults = 1
CHECK_DEADLOCK FALSE
INVARIANTS
    NoFalseAlarm
    HaltSafe
PROPERTIES
    EveryRequestEnds
    StopsHold
    MailResumes
