SPECIFICATION ReportSpec
CONSTANTS
    Run = {r1, r2}
    NoOne = NoOne
    NumLists = 1
    NumDays = 1
    MaxDeaths = 0
    MaxUnmarked = 1
CHECK_DEADLOCK FALSE
INVARIANTS
    OncePerDay
