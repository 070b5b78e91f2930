CONSTANTS
    NCmds = 2
    NReadings = 0
    PoolSlots = 4
    Prompt = FALSE
SPECIFICATION EagerSpec
PROPERTY ReleasedByOwnAck
CHECK_DEADLOCK FALSE
