SPECIFICATION Spec
CONSTANTS
    Source = {1, 2}
    Servers <- MCServers
    Thread = {t1, t2}
    MaxTime = 2
    MaxJobs = 3
    MaxEvents = 1
    MaxActs = 4
    MaxLoad = 2
SYMMETRY Threads
INVARIANTS
    EntityTagNamesRows
    NewerIsRetrieved
    ItemsFollowSource
    ChangesSynced
CHECK_DEADLOCK FALSE
