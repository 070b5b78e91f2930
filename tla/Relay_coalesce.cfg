CONSTANTS
    NCmds = 2
    NReadings = 0
    PoolSlots = 4
    Prompt = TRUE
SPECIFICATION EagerSpec
INVARIANT AckChannelHoldsOne
CHECK_DEADLOCK FALSE
