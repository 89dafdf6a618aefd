CONSTANTS
    Root = {r1}
    Consumer = {c1, c2}
    Command = {m1}
    NoConsumer = NoConsumer
    NoCommand = NoCommand
    NoClaim = NoClaim
    Phases = {"unspecified", "starting", "preparing", "reconciling"}
    MaxRetry = 1
    MaxAttempt = 2
    LeaseTicks = 1
    WaitTicks = 1
    MaxSend = 2
    MaxTries = 1
    DeadlineTicks = 1
    Controls = {"pause", "withdraw"}
SPECIFICATION MCSpec
INVARIANTS
    ReportIsTrue
    NoMailStranded
PROPERTIES
    SendsOnce
    BudgetCountsClaims
    SubmissionEnds
