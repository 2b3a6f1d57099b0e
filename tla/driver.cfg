SPECIFICATION FairSpec
CONSTANTS
    Volumes = {v1, v2}
    Devices = {d1, d2}
    None = None
    MapTries = 1
    UnmountTries = 2
    UnmapTries = 2
    Faults = {"map", "maptimeout", "mkfs", "mount", "umount", "rmdir", "showmapped", "busy", "unmap"}
INVARIANT SuccessIsComplete
PROPERTY OwnDevicesOnly
PROPERTY OperationsReturn
CHECK_DEADLOCK FALSE
