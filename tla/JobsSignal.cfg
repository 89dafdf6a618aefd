SPECIFICATION JobsFairSpec
CONSTANTS
    Runner = {n1}
    NoRunner = NoRunner
    StaleAfter = 0
    StaleAction = "remove-and-continue"
    NumJobs = 2
    Timed = {}
    StopOnFirst = {}
    MaxSignals = 1
PROPERTIES
    SignalEndsRun
