CONSTANTS
    Timeout = 4
    Poll = 1
    PubWait = 0
    MaxGap = 2
    QueueDepth = 2
    MaxTime = 8
SPECIFICATION Spec
INVARIANTS
    TypeOK
    DecisionInTime
    HealthyIsOnline
    DeadIsOffline
    RetainedFollowsChannel
PROPERTIES
    OfflineAfterSilence
\* The clock stops at MaxTime.
CHECK_DEADLOCK FALSE
