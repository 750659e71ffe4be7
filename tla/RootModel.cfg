SPECIFICATION Spec
CONSTANTS
    Disk = disk
    Other = {net}
    Inode = {i1, i2, i3}
    None = None
    MaxEntries = 1
    MaxOps = 3
    MaxEvents = 2
SYMMETRY Inodes
INVARIANTS
    RemountedBack
    NeverOlder
    AppliedTells
CHECK_DEADLOCK FALSE
