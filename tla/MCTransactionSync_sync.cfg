SPECIFICATION Spec
CONSTANTS
    Gap = 2
    Scenarios <- Troubled
    Stops = {FALSE, TRUE}
    MaxIncidents = 1
INVARIANTS
    TypeOK
    OneStream
    FilterIsCurrent
    NothingSkipped
    CancelFindsStream
    NobodyWaitsInVain
CHECK_DEADLOCK FALSE
