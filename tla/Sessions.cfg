CONSTANTS
    Sessions = {"peer"}
    BackoffMin = 1
    BackoffMax = 4
    ConnackTimeout = 2
    Flaky = {"peer"}
    Lossy = {"peer"}
    MaxFaults = 0
    MaxCrashes = 1
    MaxBlock = 1
    MaxPipe = 2
SPECIFICATION Spec
INVARIANTS
    TypeOK
    PublishedWhileServing
    StatusIsCurrent
    DeadIsAnnounced
    RetriesAreSpaced
