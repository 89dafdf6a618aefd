SPECIFICATION MCSpec
CONSTANTS
    Message = {m1, m2}
    OtherMessage = m2
    Consumer = {c1, c2}
    OtherConsumer = c2
    SendBatch = 2
    SendLease = 3
    SendMargin = 1
    Cutoff = 1
    MinLaunch = 1
    First = 1
    Step = 1
    MaxDeadline = 2
    Helper = 1
    Stall = 1
    MaxSend = 2
    MayPause = TRUE
    Lease = 2
    Margin = 1
    RetryPause = 1
    Extension = 4
    MaxAttempts = 2
    GiveUp = 1
    Absolute = 2
    Window = 1
    MaxNow = 4
    MaxSends = 4
    MaxFences = 4
    Sender = {s1, s2}
    Sizes = {1, 2}
    BatchSizes = {1}
    MaxSize = 2
    Limit = 10
    Reserved = 4
    Near = 2
    Batch = 2
    MaxCrashes = 1
CHECK_DEADLOCK FALSE
SYMMETRY MCSymmetry
INVARIANTS
    BulkSafe
    LeaseSafe
    GiveUpSafe
    DailySafe
PROPERTIES
    BulkSendsOnce
