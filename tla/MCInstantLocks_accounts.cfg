SPECIFICATION LockSpec
CONSTANTS
    Openings = {0, 11}
    Indexes = {0, 1}
    MaxNew = 2
    Transactions = {tx}
    Clients = {1, 2}
    MaxWaits = 1
INVARIANTS
    OneAccountPerIndex
    DisconnectReachesAll
    TimeoutMeansMissing
CHECK_DEADLOCK FALSE
