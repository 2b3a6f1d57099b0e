SPECIFICATION LifeSpec
CONSTANTS
    Absent = Absent
    Clients <- Forcers
    Keys <- VolumeKeys
    Contents <- AllContents
    MayExist <- TypeMayExist
    Wants <- ForcersWants
    Content <- ForcersContent
    Kind <- ForcersKind
    MountKey = "mount"
    Timeout = "finite"
    Crashes = FALSE
    Repeat = TRUE
    HasCRUD = TRUE
    Faults = {"create", "timeout", "format", "clone", "exists", "destroy", "delete", "mount",
              "publish", "runtime"}
    Upload = TRUE
    Forced = TRUE
    Present = TRUE
INVARIANT WritersExclude
CHECK_DEADLOCK FALSE
