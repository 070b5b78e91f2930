CONSTANTS
    Sessions = {"own", "peer"}
    BackoffMin = 1
    BackoffMax = 2
    ConnackTimeout = 1
    Flaky = {}
    Lossy = {}
    MaxFaults = 1
    MaxCrashes = 0
    MaxBlock = 1
    MaxPipe = 0
SPECIFICATION Spec
INVARIANTS
    PollEndsAtDeadline
