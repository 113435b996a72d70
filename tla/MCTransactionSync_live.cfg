SPECIFICATION FairSpec
CONSTANTS
    Gap = 2
    Scenarios <- Peaceful
    Stops = {FALSE}
    MaxIncidents = 2
PROPERTIES
    EverythingFound
    EveryTransactionDescribed
    StopReturns
CHECK_DEADLOCK FALSE
