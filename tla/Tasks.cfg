CONSTANTS
    Root = {r1}
    Consumer = {c1, c2}
    Command = {m1}
    NoConsumer = NoConsumer
    NoCommand = NoCommand
    NoClaim = NoClaim
    Phases = {"unspecified", "starting", "delivering"}
    MaxRetry = 2
    MaxAttempt = 2
    LeaseTicks = 2
    WaitTicks = 1
    DueRow = {d1, d2}
    SweepLimit = 1
    EarlyLimit = 1
    NewestLimit = 1
    MaxVersion = 1
    MaxFaults = 1
SPECIFICATION MCSpec
CHECK_DEADLOCK FALSE
INVARIANTS
    TaskTypeOK
    OneOwnerPerFence
    ChainsSound
PROPERTIES
    EffectsFenced
    HistoryStands
    OrphanRecovered
    HintsReach
