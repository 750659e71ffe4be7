SPECIFICATION Spec
CONSTANTS
    MaxStarts = 2
    MaxPosted = 2
INVARIANTS
    SupersededInterrupted
    TunnelsHeld
    QuietMeansStopped
