----------------------------- MODULE VolSupervisor -----------------------------
(***************************************************************************)
(* The volsupervisor daemon: the processes that decide when a snapshot of  *)
(* a volume is taken, on a schedule and on demand.                         *)
(*                                                                         *)
(* Several volsupervisors may be started; a global lock lets one of them   *)
(* work.  It polls the volume records, passes over its copy of them every  *)
(* second, finds out whether a volume is in use by trying its mount lock   *)
(* (IsVolumeInUse), and starts a goroutine that takes a snapshot and then  *)
(* prunes the old ones.  A signal key asks for a snapshot at once.         *)
(*                                                                         *)
(* One volume with a snapshot driver is modelled, with the requests on it  *)
(* that need its mount lock: mounts (MountProtocol has their detail) and   *)
(* removals (VolumeLifecycle).  What the goroutines do that are started    *)
(* here is the module Snapshots.                                           *)
(***************************************************************************)
EXTENDS Naturals, UseLocks

CONSTANTS
    Supervisors,  \* the hosts a volsupervisor may run on
    Frequencies,  \* the values of Snapshot.Frequency, see below
    MaxSignals,   \* bounds the signals ever sent
    Deaths,       \* whether a volsupervisor may die
    Stalls        \* whether a refresh may come later than the TTL

Blank == "Blank"                  \* a UseMount with its fields cleared
MountContents == {"Mount", "Remove", Blank}

(* A volume without snapshots, one with a Frequency of whole seconds, of   *)
(* less than a second, and one that is not a duration.                     *)
AllFrequencies == {"off", "whole", "short", "bad"}

ASSUME SupervisorAssumption ==
    /\ Absent \notin MountContents \cup Supervisors
    /\ Frequencies \subseteq AllFrequencies
    /\ MaxSignals \in Nat
    /\ Deaths \in BOOLEAN
    /\ Stalls \in BOOLEAN

VARIABLES
    exists,    \* whether the volume has a record
    unlocked,  \* the volume's Unlocked; never changes
    freq,      \* the volume's Frequency; never changes
    mountUse,  \* use/mount/<volume>
    supUse,    \* use/volsupervisor/volsupervisor
    signal,    \* whether the key snapshots/<volume> exists
    sent,      \* how often it has been written
    super,     \* super[s]: "down", "up", "leave" (told to end) or "panic"
    supRef,    \* supRef[s]: the goroutine refreshing the global lock: "off",
               \* "on" or "stop" (told to stop)
    volumes,   \* volumes[s]: whether its copy of the records has the volume
    loop,      \* loop[s]: "sleep", "create", "swap", "clear" or "spawn"
    isUsed,    \* isUsed[s]: what IsVolumeInUse has concluded
    events,    \* events[s]: the signals its watch has delivered
    sig        \* sig[s]: "wait", or "remove" the signal it has handled

store   == <<exists, unlocked, freq, signal, sent>>
process == <<super, supRef, supUse>>
pass    == <<volumes, loop, isUsed>>
watch   == <<events, sig>>
vars    == <<store, mountUse, process, pass, watch>>

Init ==
    /\ exists = TRUE
    /\ unlocked \in BOOLEAN
    /\ freq \in Frequencies
    /\ mountUse = Free
    /\ supUse = Free
    /\ signal = FALSE
    /\ sent = 0
    /\ super = [s \in Supervisors |-> "down"]
    /\ supRef = [s \in Supervisors |-> "off"]
    /\ volumes = [s \in Supervisors |-> FALSE]
    /\ loop = [s \in Supervisors |-> "sleep"]
    /\ isUsed = [s \in Supervisors |-> FALSE]
    /\ events = [s \in Supervisors |-> 0]
    /\ sig = [s \in Supervisors |-> "wait"]

SupervisorTypeOK ==
    /\ exists \in BOOLEAN
    /\ unlocked \in BOOLEAN
    /\ freq \in Frequencies
    /\ mountUse \in Uses(MountContents)
    /\ supUse \in Uses(Supervisors)
    /\ supUse.content = Absent => ~supUse.ttl
    /\ signal \in BOOLEAN
    /\ sent \in Nat
    /\ super \in [Supervisors -> {"down", "up", "leave", "panic"}]
    /\ supRef \in [Supervisors -> {"off", "on", "stop"}]
    /\ volumes \in [Supervisors -> BOOLEAN]
    /\ loop \in [Supervisors -> {"sleep", "create", "swap", "clear", "spawn"}]
    /\ isUsed \in [Supervisors -> BOOLEAN]
    /\ events \in [Supervisors -> Nat]
    /\ sig \in [Supervisors -> {"wait", "remove"}]

--------------------------------------------------------------------------------
(* The process.                                                            *)

Running(s) == super[s] \in {"up", "leave"}

(* Mutant: a UseVolsupervisor that exists is taken over. *)
StartAnyway(s) ==
    /\ super[s] \in {"down", "panic"}
    /\ supUse' = Permanent(s)
    /\ super' = [super EXCEPT ![s] = "up"]
    /\ supRef' = [supRef EXCEPT ![s] = "on"]
    /\ UNCHANGED <<store, mountUse, pass, watch>>

(* Daemon: the global lock is acquired, or the process ends at once.  A    *)
(* UseVolsupervisor may not exist, not even with the own hostname.  Then   *)
(* the watch for signals is created and the records are polled.            *)
Start(s) ==
    /\ super[s] \in {"down", "panic"}
    /\ CreateSucceeds(supUse)
    /\ supUse' = Permanent(s)
    /\ super' = [super EXCEPT ![s] = "up"]
    /\ supRef' = [supRef EXCEPT ![s] = "on"]
    /\ volumes' = [volumes EXCEPT ![s] = exists]
    /\ UNCHANGED <<store, mountUse, loop, isUsed, watch>>

(* The signal handler: the lock is given up first, and the process works   *)
(* on for another TTL until it exits.                                      *)
Terminate(s) ==
    /\ super[s] = "up"
    /\ super' = [super EXCEPT ![s] = "leave"]
    /\ supRef' = [supRef EXCEPT ![s] = "stop"]
    /\ UNCHANGED <<store, mountUse, supUse, pass, watch>>

(* The end of a process ends its goroutines; its locks stay in etcd. *)
ProcessEnds(s, how) ==
    /\ super' = [super EXCEPT ![s] = how]
    /\ supRef' = [supRef EXCEPT ![s] = "off"]
    /\ volumes' = [volumes EXCEPT ![s] = FALSE]
    /\ loop' = [loop EXCEPT ![s] = "sleep"]
    /\ isUsed' = [isUsed EXCEPT ![s] = FALSE]
    /\ events' = [events EXCEPT ![s] = 0]
    /\ sig' = [sig EXCEPT ![s] = "wait"]
    /\ UNCHANGED <<store, mountUse, supUse>>

Exit(s) == super[s] = "leave" /\ ProcessEnds(s, "down")

Dies(s) == Deaths /\ Running(s) /\ ProcessEnds(s, "down")

(* The goroutine that refreshes the global lock: its timer, which may      *)
(* still win against a stop, publishes the lock with a TTL ...             *)
Refresh(s) ==
    /\ supRef[s] # "off"
    /\ LeaseSucceeds(supUse, s)
    /\ supUse' = Leased(s)
    /\ supUse' # supUse
    /\ UNCHANGED <<store, mountUse, super, supRef, pass, watch>>

(* ... and the stop removes it. *)
RefresherStops(s) ==
    /\ supRef[s] = "stop"
    /\ supUse' = AfterRemove(supUse, s, FALSE)
    /\ supRef' = [supRef EXCEPT ![s] = "off"]
    /\ UNCHANGED <<store, mountUse, super, pass, watch>>

(* etcd deletes a global lock that has not been refreshed. *)
Expire ==
    /\ MayExpire(supUse)
    /\ Stalls \/ \A s \in Supervisors : supUse.content = s => supRef[s] = "off"
    /\ supUse' = Free
    /\ UNCHANGED <<store, mountUse, super, supRef, pass, watch>>

--------------------------------------------------------------------------------
(* updateVolumes and loop.                                                 *)

(* updateVolumes, every second: the records are read again. *)
UpdateVolumes(s) ==
    /\ Running(s)
    /\ volumes[s] # exists
    /\ volumes' = [volumes EXCEPT ![s] = exists]
    /\ UNCHANGED <<store, mountUse, process, loop, isUsed, watch>>

(* The copy of the volumes has a volume with snapshots. *)
Considers(s) == Running(s) /\ loop[s] = "sleep" /\ volumes[s] /\ freq # "off"

(* The remainder by a frequency of less than a second, which is also what  *)
(* a frequency that does not parse gives, ends the process.                *)
Panics(s) ==
    /\ Considers(s)
    /\ freq # "whole"
    /\ ProcessEnds(s, "panic")

(* The volume is due in this second.  IsVolumeInUse takes every unlocked   *)
(* volume for used.                                                        *)
Due(s) ==
    /\ Considers(s)
    /\ freq = "whole"
    /\ isUsed' = [isUsed EXCEPT ![s] = unlocked]
    /\ loop' = [loop EXCEPT ![s] = IF unlocked THEN "spawn" ELSE "create"]
    /\ UNCHANGED <<store, mountUse, process, volumes, watch>>

(* IsVolumeInUse of a locked volume: PublishUse of a blank UseMount ...    *)
ProbeCreate(s) ==
    /\ loop[s] = "create"
    /\ IF CreateSucceeds(mountUse)
       THEN mountUse' = Permanent(Blank) /\ loop' = [loop EXCEPT ![s] = "clear"]
       ELSE UNCHANGED mountUse /\ loop' = [loop EXCEPT ![s] = "swap"]
    /\ UNCHANGED <<store, process, volumes, isUsed, watch>>

(* Mutant: the lock of a probe that found a lock is not removed. *)
ProbeForgets(s) ==
    /\ loop[s] = "swap"
    /\ loop' = [loop EXCEPT ![s] = "spawn"]
    /\ UNCHANGED <<store, mountUse, process, volumes, isUsed, watch>>

(* ... which MayExist.  A lock of somebody else fails the comparison with  *)
(* LockFailed, which does not contain Exists: the volume is not used.      *)
ProbeSwap(s) ==
    /\ loop[s] = "swap"
    /\ mountUse' = IF SwapSucceeds(mountUse, Blank) THEN Permanent(Blank) ELSE mountUse
    /\ isUsed' = [isUsed EXCEPT ![s] = FALSE]
    /\ loop' = [loop EXCEPT ![s] = "clear"]
    /\ UNCHANGED <<store, process, volumes, watch>>

(* Mutant: the lock is removed whoever has it. *)
ProbeClearForced(s) ==
    /\ loop[s] = "clear"
    /\ mountUse' = AfterRemove(mountUse, Blank, TRUE)
    /\ loop' = [loop EXCEPT ![s] = "spawn"]
    /\ UNCHANGED <<store, process, volumes, isUsed, watch>>

(* ... and RemoveUse of the same blank lock, whatever came of it. *)
ProbeClear(s) ==
    /\ loop[s] = "clear"
    /\ mountUse' = AfterRemove(mountUse, Blank, FALSE)
    /\ loop' = [loop EXCEPT ![s] = "spawn"]
    /\ UNCHANGED <<store, process, volumes, isUsed, watch>>

(* The goroutine that snapshots a used volume and prunes any is started:   *)
(* Scheduled and ScheduledUnused of Snapshots.                             *)
Spawn(s) ==
    /\ loop[s] = "spawn"
    /\ loop' = [loop EXCEPT ![s] = "sleep"]
    /\ isUsed' = [isUsed EXCEPT ![s] = FALSE]
    /\ UNCHANGED <<store, mountUse, process, volumes, watch>>

--------------------------------------------------------------------------------
(* signalSnapshot: for each signal GetVolume, go createSnapshot (Signalled *)
(* of Snapshots), and then the key is removed.  A volume that cannot be    *)
(* read leaves the key alone.                                              *)
Signalled(s) ==
    /\ sig[s] = "wait"
    /\ events[s] > 0
    /\ events' = [events EXCEPT ![s] = @ - 1]
    /\ sig' = [sig EXCEPT ![s] = IF exists THEN "remove" ELSE "wait"]
    /\ UNCHANGED <<store, mountUse, process, pass>>

(* Mutant: the key is left for the next start of the daemon. *)
SignalKept(s) ==
    /\ sig[s] = "remove"
    /\ sig' = [sig EXCEPT ![s] = "wait"]
    /\ UNCHANGED <<store, mountUse, process, pass, events>>

RemoveTakeSnapshot(s) ==
    /\ sig[s] = "remove"
    /\ signal' = FALSE
    /\ sig' = [sig EXCEPT ![s] = "wait"]
    /\ UNCHANGED <<exists, unlocked, freq, sent, mountUse, process, pass, events>>

(* handleSnapshotTake writes the signal; every watch delivers it.  The     *)
(* event of its deletion is ignored by WatchSnapshotSignal.                *)
TakeSnapshot ==
    /\ sent < MaxSignals
    /\ sent' = sent + 1
    /\ signal' = TRUE
    /\ events' = [s \in Supervisors |-> IF Running(s) THEN events[s] + 1 ELSE events[s]]
    /\ UNCHANGED <<exists, unlocked, freq, mountUse, process, pass, sig>>

--------------------------------------------------------------------------------
(* The other users of the mount lock.                                      *)

(* volplugin mounts and unmounts a locked volume. *)
Mount ==
    /\ ~unlocked /\ exists
    /\ CreateSucceeds(mountUse)
    /\ mountUse' = Permanent("Mount")
    /\ UNCHANGED <<store, process, pass, watch>>

Unmount ==
    /\ HeldBy(mountUse, "Mount")
    /\ mountUse' = Free
    /\ UNCHANGED <<store, process, pass, watch>>

(* handleRemove, which ends with the record and the lock gone; handleCreate. *)
RemoveBegins ==
    /\ exists
    /\ CreateSucceeds(mountUse)
    /\ mountUse' = Permanent("Remove")
    /\ UNCHANGED <<store, process, pass, watch>>

RemoveEnds ==
    /\ HeldBy(mountUse, "Remove")
    /\ exists' = FALSE
    /\ mountUse' = Free
    /\ UNCHANGED <<unlocked, freq, signal, sent, process, pass, watch>>

CreateVolume ==
    /\ ~exists
    /\ CreateSucceeds(mountUse)
    /\ exists' = TRUE
    /\ UNCHANGED <<unlocked, freq, signal, sent, mountUse, process, pass, watch>>

--------------------------------------------------------------------------------
Passes(s) ==
    \/ Panics(s)
    \/ Due(s)
    \/ ProbeCreate(s)
    \/ ProbeSwap(s)
    \/ ProbeClear(s)
    \/ Spawn(s)

Signals(s) == Signalled(s) \/ RemoveTakeSnapshot(s)

Others == Mount \/ Unmount \/ RemoveBegins \/ RemoveEnds \/ CreateVolume \/ TakeSnapshot

Next ==
    \/ \E s \in Supervisors :
        \/ Start(s)
        \/ Terminate(s)
        \/ Exit(s)
        \/ Dies(s)
        \/ Refresh(s)
        \/ RefresherStops(s)
        \/ UpdateVolumes(s)
        \/ Passes(s)
        \/ Signals(s)
    \/ Expire
    \/ Others

Spec == Init /\ [][Next]_vars

(* The goroutines of a running volsupervisor take their steps: it polls    *)
(* the records, its passes find the volume due again and again, and its    *)
(* signals are handled.  Nothing makes a volsupervisor start or end.       *)
FairSpec ==
    /\ Spec
    /\ \A s \in Supervisors :
        WF_vars(UpdateVolumes(s)) /\ WF_vars(Passes(s)) /\ WF_vars(Signals(s))

--------------------------------------------------------------------------------
(* PROPERTIES *)

(* The global lock: of the volsupervisors that have not been told to leave *)
(* one works at a time (Daemon exits if it does not get the lock), however *)
(* they leave, die and come back.                                          *)
OneSupervisor ==
    \A s1, s2 \in Supervisors :
        super[s1] = "up" /\ super[s2] = "up" => s1 = s2

(* IsVolumeInUse leaves the lock of a mount or of a removal alone, also    *)
(* one that was taken while it was looking.                                *)
ProbeIsHarmless ==
    [][\A s \in Supervisors :
          loop'[s] # loop[s] /\ mountUse' # mountUse => mountUse.content \in {Absent, Blank}]_vars

(* Some volsupervisor has the volume on its schedule. *)
Scheduled == \E s \in Supervisors : super[s] = "up" /\ exists /\ freq = "whole"

(* The blank mount lock that IsVolumeInUse takes, and which makes every    *)
(* Mount fail, goes away again, even one that a dying volsupervisor has    *)
(* left: the next probe of the volume takes it over and removes it.        *)
ProbeLockCleared ==
    HeldBy(mountUse, Blank) ~> ~HeldBy(mountUse, Blank) \/ ~Scheduled

(* A signal that a volsupervisor has been told of is taken off the store,  *)
(* unless the volume is gone or the volsupervisor ends.                    *)
SignalTaken ==
    \A s \in Supervisors :
        signal /\ events[s] > 0 ~> ~signal \/ ~exists \/ ~Running(s)

(* What the code does not do.  IsVolumeInUse "checks if the given volume   *)
(* is mounted in any container": finding the lock of a mount, it says so.  *)
MountIsNoticed ==
    [][\A s \in Supervisors :
          loop[s] = "swap" /\ loop'[s] = "clear" /\ HeldBy(mountUse, "Mount") => isUsed'[s]]_vars

(* "Volume has an invalid frequency. Skipping snapshot.": loop goes on to  *)
(* the next volume.                                                        *)
InvalidFrequencySkipped == \A s \in Supervisors : super[s] # "panic"
================================================================================
