SPECIFICATION Spec
CONSTANTS
    Runs = {r1, r2}
    Latest = 3
    Uploads = {0, 1}
    FixBase = 2
    DefaultTTL = 6
    Limits = {l1, l2}
    None = None
    Garbage = Garbage
    MaxEvents = 3
    Uploaders = {u1, u2}
    Contents <- MCContents
    NoPolicy = NoPolicy
    LastSecond = 2
    Volumes = {v1, v2}
    PolicyNames = {p1, p2}
    PolicyOf <- MCPolicyOf
    Values = {a, b}
    Missing = Missing
    MaxWrites = 3
    DbVolumes = {v1, v2}
    Clients = {c1, c2}
    Data = {a}
    NoKey = NoKey
    MaxWatches = 2
    MaxOptions = 2
INVARIANT PublishedHasRevision
INVARIANT MadeAsRecorded
INVARIANT AnswersAreExact
INVARIANT VersionIsApplied
INVARIANT VisibleIsWhole
INVARIANT ExistingIsKept
INVARIANT ListIsExact
INVARIANT CreatedAsAsked
PROPERTY GlobalConverges
PROPERTY LimitConverges
PROPERTY StoppedWatchesEnd
CHECK_DEADLOCK FALSE
