SPECIFICATION Spec
CONSTANTS
    Pays <- TwoPayments
    Gap = 1
    MaxSaves = 1
    MaxRestarts = 0
    MaxFailures = 0
INVARIANT SavesWhenNeeded
CHECK_DEADLOCK FALSE
