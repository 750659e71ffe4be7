SPECIFICATION WorkSpec
CONSTANTS
    INITIAL_TIMEOUT_MS = 2
    MAXIMUM_TIMEOUT_MS = 8
    POLL_TIMEOUT_START = 1
    POLL_TIMEOUT_END = 4
    POLL_TIMEOUT_WAITING = 3
    POLL_TIMEOUT_GROW = 2
    INIT_PENALTY_END = 3
    INIT_PENALTY_INC = 2
    MaxTime = 12
INVARIANTS
    Spaced
PROPERTIES
    SleepsInLimits
    WaitsForPacket
    GivesUpApart
