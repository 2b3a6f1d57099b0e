SPECIFICATION FairSpec
CONSTANTS
    Absent = Absent
    Supervisors = {s1, s2}
    Frequencies = {"off", "whole", "short", "bad"}
    MaxSignals = 1
    Deaths = TRUE
    Stalls = FALSE
INVARIANT OneSupervisor
PROPERTY ProbeIsHarmless
PROPERTY ProbeLockCleared
PROPERTY SignalTaken
CHECK_DEADLOCK FALSE
