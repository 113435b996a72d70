SPECIFICATION Spec
CONSTANTS
    MaxJobs = 8
    Faulty <- SomeFaulty
INVARIANTS
    TypeOK
    NoLostWakeup
PROPERTIES
    DeadQueueStaysDead
    EveryJobEnds
    ImplementsWorkQueue
CHECK_DEADLOCK FALSE
