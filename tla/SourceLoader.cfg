CONSTANTS
    Sources <- MCSources
    parserCount = 3
    INSERT_BATCH_SIZE = 2
SPECIFICATION FairSpec
INVARIANTS
    InsertedOnce
    NothingLost
PROPERTIES
    Loads
    ThreadsEnd
CHECK_DEADLOCK FALSE
