SPECIFICATION EitherSpec
CONSTANTS
    Absent = Absent
    Clients = {"create", "remove", "copy"}
    Keys <- VolumeKeys
    Contents <- AllContents
    MayExist <- TypeMayExist
    Wants <- MixedWants
    Content <- MixedContent
    Timeout = "forever"
    Crashes = FALSE
    Repeat = FALSE
INVARIANT RunsExclusively
INVARIANT PatientLeaveNothing
PROPERTY PatientRequestsEnd
CHECK_DEADLOCK FALSE
