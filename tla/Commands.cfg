CONSTANTS
    NCmds = 3
    MaxDups = 1
    MaxBoots = 1
    Intervals = {1, 2, 4}
    MinPeriod = 2
    MaxPeriod = 4
    DefaultPeriod = 3
    PoolSlots = 3
SPECIFICATION Spec
INVARIANTS
    TypeOK
    AtMostOnce
    LastIntervalWins
    TriggersNotCollapsed
    OkMeansDone
    IntervalHonoured
PROPERTIES
    SamplesNotSqueezed
