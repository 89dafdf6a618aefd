SPECIFICATION LeaseSpec
CONSTANTS
    Lease = 2
    Margin = 1
    RetryPause = 1
    Extension = 4
CHECK_DEADLOCK FALSE
INVARIANTS
    HardLocalBound
