SPECIFICATION LifeSpec
CONSTANTS
    Absent = Absent
    Clients <- SameHost
    Keys <- VolumeKeys
    Contents <- AllContents
    MayExist <- TypeMayExist
    Wants <- SameHostWants
    Content <- SameHostContent
    Kind <- SameHostKind
    MountKey = "mount"
    Timeout = "finite"
    Crashes = FALSE
    Repeat = TRUE
    HasCRUD = TRUE
    Faults = {"exists"}
    Upload = FALSE
    Forced = FALSE
    Present = TRUE
INVARIANT UsedIsWhole
CHECK_DEADLOCK FALSE
