SPECIFICATION Spec
CONSTANTS
    Hosts = {h1, h2}
    Containers = {k1, k2}
    Refreshers = {g1, g2}
    Absent = Absent
    UnlockedLabel = UnlockedLabel
    NoChan = NoChan
    MaxCount = 2
    Unlocked = FALSE
    Allow = {"lookup", "mount", "daemon", "host"}
SYMMETRY Symmetry
INVARIANT MountInv
INVARIANT MutualExclusion
PROPERTY ImplementsExclusiveVolume
