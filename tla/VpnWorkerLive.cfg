SPECIFICATION FairSpec
CONSTANTS
    MaxStarts = 1
    MaxPosted = 2
PROPERTIES
    InterruptedSleeperEnds
    InterruptedMonitorEnds
    Reconnects
