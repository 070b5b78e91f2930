\* The premise of relay.cpp:65-67, and a pool with room for every command.
CONSTANTS
    NCmds = 3
    NReadings = 1
    PoolSlots = 5
    Prompt = TRUE
SPECIFICATION Spec
INVARIANTS
    RoundTripsSerialised
    OneVerdict
PROPERTIES
    ReleasedByOwnAck
    RoundTripAnswered
    KeepsRoundTrips
\* The host sends finitely many commands, after which nothing need happen.
CHECK_DEADLOCK FALSE
