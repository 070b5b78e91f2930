CONSTANTS
    NCmds = 3
    MaxDups = 1
    MaxBoots = 0
    Intervals = {1, 2, 4}
    MinPeriod = 2
    MaxPeriod = 4
    DefaultPeriod = 3
    PoolSlots = 3
SPECIFICATION Spec
INVARIANT RetryIsSafe
