\* Half a second a tick: a beat a second, transfers that fail after a second, and
\* a backoff from 2 s to 4 s.
CONSTANTS
    Period = 2
    SendTimeout = 2
    BackoffMin = 4
    BackoffMax = 8
    Mailboxes = 3
    Calm = 7
SPECIFICATION FairSpec
INVARIANTS
    TypeOK
    CountsInFlight
    CadenceKept
    BeatsKeepComing
    DeadIsNoticed
    HealthyIsNoticed
    HeartbeatDecides
    ReadingTakenInTime
    HeartbeatTellsSensor
PROPERTIES
    ReadingsReturn
