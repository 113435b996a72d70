SPECIFICATION Spec
CONSTANTS
    Gap = 2
    Scenarios <- Stopped
    Stops = {TRUE}
    MaxIncidents = 1
INVARIANT
    StopSticks
CHECK_DEADLOCK FALSE
