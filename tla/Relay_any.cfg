\* A peer that may answer late, a full pool, broken sessions.
CONSTANTS
    NCmds = 2
    NReadings = 1
    PoolSlots = 2
    Prompt = FALSE
SPECIFICATION FairSpec
INVARIANTS
    TypeOK
    AcksAreTruthful
PROPERTIES
    CommandsDrain
    SignalsFetched
\* The host sends finitely many commands, after which nothing need happen.
CHECK_DEADLOCK FALSE
