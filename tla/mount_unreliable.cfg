SPECIFICATION FairSpec
CONSTANTS
    Hosts = {h1, h2}
    Containers = {k1}
    Refreshers = {g1, g2}
    Absent = Absent
    UnlockedLabel = UnlockedLabel
    NoChan = NoChan
    MaxCount = 2
    Unlocked = FALSE
    Allow = {"stall", "mount", "lookup", "unmount"}
PROPERTY OwnLockOnly
PROPERTY RequestsAnswered
