SPECIFICATION MCSpec
CONSTANTS
    Members = {m1}
    Fields = {f1, f2}
    OneField = f1
    Values = {0, 1, 2}
    First = 0
    Attempts = 2
    MaxRuns = 1
    MaxRows = 2
    MaxPlans = 2
    MaxEdits = 1
    MaxSwitches = 1
    MaxCrashes = 1
    MaxVersion = 5
    MayLeave = TRUE
    TestRows = 1
    Families = 2
    MaxTries = 1
    MaxPreparations = 2
    MaxAttempts = 2
    MaxGeneration = 3
    MaxRetries = 1
    MayLoseAuthority = TRUE
CHECK_DEADLOCK FALSE
INVARIANTS
    PublicationSafe
    GoLiveSafe
PROPERTIES
    WritesSafe
    PublicationEnds
    GoLiveMoves
