SPECIFICATION FairSpec
CONSTANTS
    PluginChoices <- Everything
    Hearing = {TRUE, FALSE}
    MaxConnects = 2
    MaxCalls = 3
    MaxFailures = 1
INVARIANTS
    TypeOK
    InjectionOrderKept
    OneExecution
    DisconnectIsFinal
    NoWatcherForgotten
PROPERTIES
    ReadyWhenWatchedRan
    BecomesReady
CHECK_DEADLOCK FALSE
