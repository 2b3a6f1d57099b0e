SPECIFICATION LifeSpec
CONSTANTS
    Absent = Absent
    Clients <- Everyone
    Keys <- VolumeKeys
    Contents <- AllContents
    MayExist <- TypeMayExist
    Wants <- EveryoneWants
    Content <- EveryoneContent
    Kind <- EveryoneKind
    MountKey = "mount"
    Timeout = "finite"
    Crashes = TRUE
    Repeat = TRUE
    HasCRUD = TRUE
    Faults = {"create", "format", "exists", "mount", "publish", "runtime"}
    Upload = FALSE
    Forced = FALSE
    Present = FALSE
INVARIANT ConsistentWhenFree
INVARIANT UsedIsWhole
INVARIANT FormatsOwnImage
INVARIANT RemovedIsDestroyed
INVARIANT CreatedIsReadable
CHECK_DEADLOCK FALSE
