SPECIFICATION EitherSpec
CONSTANTS
    Hosts = {h1}
    Containers = {k1, k2, k3}
    Refreshers = {g1, g2}
    Absent = Absent
    UnlockedLabel = UnlockedLabel
    NoChan = NoChan
    MaxCount = 4
    Unlocked = FALSE
    Allow = {}
INVARIANT MountsOnce
INVARIANT CounterMatches
INVARIANT RunningKeepsMount
PROPERTY LockReleased
PROPERTY LockedIsLeased
