SPECIFICATION MCSpec
CONSTANTS
    Emails = {e1, e2}
    Lists = {t1, t2, l1}
    Targets = {t1, t2}
    AllowEmpty = FALSE
    MaxRemovals = 0
    MaxPercent = 50
    UpdateNames = TRUE
    Partial = {e2}
    MaxEdits = 1
    MaxAborts = 1
    Run = {r1, r2}
    NoOne = NoOne
    NumLists = 2
    NumDays = 2
    MaxDeaths = 1
    MaxUnmarked = 1
    Newcomer = e2
    Runner = {n1, n2}
    NoRunner = NoRunner
    StaleAfter = 0
    StaleAction = "remove-and-continue"
    NumJobs = 2
    Timed = {1}
    StopOnFirst = {n1}
    MaxSignals = 1
CHECK_DEADLOCK FALSE
INVARIANTS
    ContactSafe
    ReportSafe
    LockSafe
    JobsSafe
PROPERTIES
    ContactsKept
    RunEnds
