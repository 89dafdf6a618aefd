SPECIFICATION ContactFairSpec
CONSTANTS
    Emails = {e1}
    Lists = {t1}
    Targets = {t1}
    AllowEmpty = FALSE
    MaxRemovals = 0
    MaxPercent = 50
    UpdateNames = TRUE
    Partial = {}
    MaxEdits = 1
    MaxAborts = 0
CHECK_DEADLOCK FALSE
PROPERTIES
    NeverResubscribed
