SPECIFICATION FairSpec
CONSTANTS
    Absent = Absent
    NoVolume = NoVolume
    Supervisors = {s1, s2}
    Workers = {w1, w2}
    Keeps = {1, 2}
    MaxSnapshots = 3
    Deaths = TRUE
    Stalls = FALSE
INVARIANT SnapshotsExclude
PROPERTY PruneKeepsNewest
PROPERTY SnapshotLockFreed
CHECK_DEADLOCK FALSE
