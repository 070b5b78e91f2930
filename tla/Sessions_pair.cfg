CONSTANTS
    Sessions = {"own", "peer"}
    BackoffMin = 1
    BackoffMax = 2
    ConnackTimeout = 1
    Flaky = {"peer"}
    Lossy = {}
    MaxFaults = 1
    MaxCrashes = 0
    MaxBlock = 1
    MaxPipe = 0
SPECIFICATION FairSpec
INVARIANTS
    DeadIsAnnounced
    RetriesAreTimely
PROPERTIES
    OwnSessionReturns
