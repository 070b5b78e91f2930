CONSTANTS
    NCmds = 5
    NReadings = 0
    PoolSlots = 4
    Prompt = TRUE
SPECIFICATION EagerSpec
PROPERTY GivenAfterPosted
CHECK_DEADLOCK FALSE
