------------------------- MODULE VolSupervisor_proofs -------------------------
(***************************************************************************)
(* Theorems about VolSupervisor, for any number of volsupervisors that     *)
(* start, leave, panic and die: one of them works at a time, as long as no *)
(* refresh of the global lock comes later than its TTL, their probes leave *)
(* the locks of others alone, and only one that ends in the middle of a    *)
(* probe leaves its lock behind.                                           *)
(***************************************************************************)
EXTENDS VolSupervisor, TLAPS

(* The inductive invariant of OneSupervisor: a volsupervisor that is up    *)
(* has the global lock, and a goroutine that keeps it and that nobody has  *)
(* told to stop.                                                           *)
WorksUnderLock ==
    \A s \in Supervisors : super[s] = "up" => HeldBy(supUse, s) /\ supRef[s] = "on"

ProcessTypes ==
    /\ super \in [Supervisors -> {"down", "up", "leave", "panic"}]
    /\ supRef \in [Supervisors -> {"off", "on", "stop"}]

SupervisorInv == ProcessTypes /\ WorksUnderLock

--------------------------------------------------------------------------------
LEMMA SupervisorInitial == Init => SupervisorInv
BY DEF Init, SupervisorInv, ProcessTypes, WorksUnderLock

(* The beginning and the end of a process. *)
LEMMA ProcessStep ==
    ASSUME SupervisorInv, NEW s \in Supervisors,
           Start(s) \/ Terminate(s) \/ Exit(s) \/ Dies(s) \/ Panics(s)
    PROVE  SupervisorInv'
<1> USE SupervisorAssumption DEF SupervisorInv, ProcessTypes, WorksUnderLock, HeldBy
<1>1. CASE Start(s)
  <2>1. \A t \in Supervisors : super[t] # "up"
    BY <1>1 DEF Start, CreateSucceeds
  <2> QED BY <1>1, <2>1 DEF Start, Permanent
<1>2. CASE Terminate(s)
  BY <1>2 DEF Terminate
<1>3. CASE Exit(s) \/ Dies(s) \/ Panics(s)
  <2>1. PICK how \in {"down", "panic"} : ProcessEnds(s, how)
    BY <1>3 DEF Exit, Dies, Panics
  <2> QED BY <2>1 DEF ProcessEnds
<1> QED BY <1>1, <1>2, <1>3

(* The refresh of the global lock and its expiry. *)
LEMMA GlobalLockStep ==
    ASSUME ~Stalls, SupervisorInv,
           Expire \/ \E s \in Supervisors : Refresh(s) \/ RefresherStops(s)
    PROVE  SupervisorInv'
<1> USE SupervisorAssumption DEF SupervisorInv, ProcessTypes, WorksUnderLock, HeldBy
<1>1. CASE Expire
  BY <1>1 DEF Expire
<1>2. ASSUME NEW s \in Supervisors, Refresh(s)
      PROVE  SupervisorInv'
  <2>1. \A t \in Supervisors : super[t] = "up" => t = s
    BY <1>2 DEF Refresh, LeaseSucceeds
  <2> QED BY <1>2, <2>1 DEF Refresh, Leased
<1>3. ASSUME NEW s \in Supervisors, RefresherStops(s)
      PROVE  SupervisorInv'
  <2>1. super[s] # "up"
    BY <1>3 DEF RefresherStops
  <2> QED BY <1>3, <2>1 DEF RefresherStops, AfterRemove, RemoveSucceeds
<1> QED BY <1>1, <1>2, <1>3

(* Everything else leaves the processes and their lock alone.              *)
LEMMA OtherSteps ==
    ASSUME \/ Others
           \/ \E s \in Supervisors :
                \/ UpdateVolumes(s) \/ Signals(s) \/ Due(s)
                \/ ProbeCreate(s) \/ ProbeSwap(s) \/ ProbeClear(s) \/ Spawn(s)
           \/ UNCHANGED vars
    PROVE  UNCHANGED process
<1> USE DEF process
<1>1. ASSUME NEW s \in Supervisors,
             \/ UpdateVolumes(s) \/ Signals(s) \/ Due(s)
             \/ ProbeCreate(s) \/ ProbeSwap(s) \/ ProbeClear(s) \/ Spawn(s)
      PROVE  UNCHANGED process
  BY <1>1 DEF UpdateVolumes, Signals, Signalled, RemoveTakeSnapshot, Due, ProbeCreate, ProbeSwap,
              ProbeClear, Spawn
<1>2. CASE Others
  BY <1>2 DEF Others, Mount, Unmount, RemoveBegins, RemoveEnds, CreateVolume, TakeSnapshot
<1>3. CASE UNCHANGED vars
  BY <1>3 DEF vars
<1> QED BY <1>1, <1>2, <1>3

LEMMA SupervisorStep == ~Stalls /\ SupervisorInv /\ [Next]_vars => SupervisorInv'
<1> SUFFICES ASSUME ~Stalls, SupervisorInv, [Next]_vars
             PROVE  SupervisorInv'
  OBVIOUS
<1>1. ASSUME UNCHANGED process
      PROVE  SupervisorInv'
  BY <1>1 DEF process, SupervisorInv, ProcessTypes, WorksUnderLock
<1> QED BY <1>1, ProcessStep, GlobalLockStep, OtherSteps DEF Next, Passes

(* Daemon: of the volsupervisors that were not told to leave one works,    *)
(* however they start, leave, panic or die, if refreshes are in time.      *)
THEOREM OneSupervisorHolds == ASSUME ~Stalls PROVE Spec => []OneSupervisor
<1>1. SupervisorInv => OneSupervisor
  BY DEF SupervisorInv, WorksUnderLock, OneSupervisor, HeldBy
<1>2. SupervisorInv /\ [Next]_vars => SupervisorInv'
  BY SupervisorStep
<1> QED BY <1>1, <1>2, SupervisorInitial, PTL DEF Spec

--------------------------------------------------------------------------------
(* Of the steps that touch the mount lock only those of a probe change the *)
(* pass that a volsupervisor is in.                                        *)
LEMMA LockChange ==
    ASSUME Next, mountUse' # mountUse
    PROVE  \/ loop' = loop
           \/ \E s \in Supervisors : ProbeCreate(s) \/ ProbeSwap(s) \/ ProbeClear(s)
<1>1. ASSUME NEW s \in Supervisors,
             \/ Start(s) \/ Terminate(s) \/ Exit(s) \/ Dies(s) \/ Panics(s)
             \/ Refresh(s) \/ RefresherStops(s) \/ UpdateVolumes(s)
             \/ Due(s) \/ Spawn(s) \/ Signals(s)
      PROVE  FALSE
  BY <1>1 DEF Start, Terminate, Exit, Dies, Panics, ProcessEnds, Refresh, RefresherStops,
              UpdateVolumes, Due, Spawn, Signals, Signalled, RemoveTakeSnapshot
<1>2. CASE Expire
  BY <1>2 DEF Expire
<1>3. CASE Others
  BY <1>3 DEF Others, Mount, Unmount, RemoveBegins, RemoveEnds, CreateVolume, TakeSnapshot, pass
<1> QED BY <1>1, <1>2, <1>3 DEF Next, Passes

(* IsVolumeInUse: its requests change the mount lock only where there is   *)
(* none or one that a probe has left, whatever was taken between them.     *)
THEOREM ProbeIsHarmlessHolds == Spec => ProbeIsHarmless
<1> DEFINE Harmless == \A s \in Supervisors :
        loop'[s] # loop[s] /\ mountUse' # mountUse => mountUse.content \in {Absent, Blank}
<1>1. ASSUME NEW s \in Supervisors, ProbeCreate(s) \/ ProbeSwap(s) \/ ProbeClear(s),
             mountUse' # mountUse
      PROVE  mountUse.content \in {Absent, Blank}
  BY <1>1 DEF ProbeCreate, ProbeSwap, ProbeClear, CreateSucceeds, SwapSucceeds, AfterRemove,
              RemoveSucceeds, HeldBy
<1>2. [Next]_vars => [Harmless]_vars
  BY <1>1, LockChange DEF vars
<1> QED BY <1>2, PTL DEF Spec, ProbeIsHarmless

--------------------------------------------------------------------------------
(* What a volsupervisor leaves behind when it ends.                        *)

(* Only a process that runs is in a pass or has signals to handle: what a  *)
(* volsupervisor was doing ends with it, and the next one starts afresh.   *)
IdleWhenDown ==
    \A s \in Supervisors :
        loop[s] # "sleep" \/ events[s] > 0 \/ sig[s] = "remove" => Running(s)

(* If the mount lock is the blank one of a probe, a volsupervisor that     *)
(* runs is about to remove it.                                             *)
ProbeIsCared ==
    HeldBy(mountUse, Blank) => \E s \in Supervisors : loop[s] = "clear" /\ Running(s)

(* IsVolumeInUse: the blank lock, which makes every Mount fail, is left    *)
(* behind only if a volsupervisor ends between PublishUse and RemoveUse.   *)
LeftByTheDead ==
    ProbeIsCared /\ ~ProbeIsCared' =>
        \E s \in Supervisors : loop[s] = "clear" /\ ~Running(s)'

(* The inductive invariant, with the types it needs. *)
PassInv ==
    /\ super \in [Supervisors -> {"down", "up", "leave", "panic"}]
    /\ loop \in [Supervisors -> {"sleep", "create", "swap", "clear", "spawn"}]
    /\ events \in [Supervisors -> Nat]
    /\ sig \in [Supervisors -> {"wait", "remove"}]
    /\ IdleWhenDown

(* The steps of a volsupervisor. *)
LEMMA PassProcess ==
    ASSUME PassInv, NEW s \in Supervisors,
           \/ Start(s) \/ Terminate(s) \/ Exit(s) \/ Dies(s) \/ Panics(s)
           \/ Refresh(s) \/ RefresherStops(s) \/ UpdateVolumes(s)
    PROVE  PassInv' /\ (ProbeIsCared /\ ~ProbeIsCared' =>
                          loop[s] = "clear" /\ ~Running(s)')
<1> USE DEF PassInv, IdleWhenDown, ProbeIsCared, Running
<1>1. CASE Start(s)
  BY <1>1 DEF Start, watch
<1>2. CASE Terminate(s)
  BY <1>2 DEF Terminate, pass, watch
<1>3. CASE Exit(s) \/ Dies(s) \/ Panics(s)
  <2>1. PICK how \in {"down", "panic"} : ProcessEnds(s, how)
    BY <1>3 DEF Exit, Dies, Panics
  <2> QED BY <2>1 DEF ProcessEnds
<1>4. CASE Refresh(s) \/ RefresherStops(s) \/ UpdateVolumes(s)
  BY <1>4 DEF Refresh, RefresherStops, UpdateVolumes, pass, watch, process
<1> QED BY <1>1, <1>2, <1>3, <1>4

(* Its passes and its signals. *)
LEMMA PassGoroutines ==
    ASSUME PassInv, NEW s \in Supervisors,
           \/ Due(s) \/ ProbeCreate(s) \/ ProbeSwap(s) \/ ProbeClear(s) \/ Spawn(s)
           \/ Signals(s)
    PROVE  PassInv' /\ (ProbeIsCared => ProbeIsCared')
<1> USE SupervisorAssumption DEF PassInv, IdleWhenDown, ProbeIsCared, Running, process
<1>1. CASE Due(s) \/ Spawn(s)
  BY <1>1 DEF Due, Spawn, Considers, watch
<1>2. CASE ProbeCreate(s)
  BY <1>2 DEF ProbeCreate, CreateSucceeds, watch
<1>3. CASE ProbeSwap(s)
  BY <1>3 DEF ProbeSwap, watch
<1>4. CASE ProbeClear(s)
  BY <1>4 DEF ProbeClear, AfterRemove, RemoveSucceeds, HeldBy, Free, MountContents, Blank, watch
<1>5. CASE Signals(s)
  BY <1>5 DEF Signals, Signalled, RemoveTakeSnapshot, pass
<1> QED BY <1>1, <1>2, <1>3, <1>4, <1>5

(* Everybody else. *)
LEMMA PassOthers ==
    ASSUME PassInv, Expire \/ Others \/ UNCHANGED vars
    PROVE  PassInv' /\ (ProbeIsCared => ProbeIsCared')
<1> USE SupervisorAssumption DEF PassInv, IdleWhenDown, ProbeIsCared, Running
<1>1. CASE Expire \/ UNCHANGED vars
  BY <1>1 DEF Expire, vars, process, pass, watch
<1>2. CASE Mount \/ Unmount \/ RemoveBegins \/ RemoveEnds \/ CreateVolume
  BY <1>2 DEF Mount, Unmount, RemoveBegins, RemoveEnds, CreateVolume, process, pass, watch, HeldBy,
              Permanent, Free, MountContents, Blank
<1>3. CASE TakeSnapshot
  BY <1>3 DEF TakeSnapshot, process, pass
<1> QED BY <1>1, <1>2, <1>3 DEF Others

LEMMA PassStep ==
    ASSUME PassInv, [Next]_vars
    PROVE  PassInv' /\ LeftByTheDead
<1>1. CASE Next
  <2>1. ASSUME NEW s \in Supervisors,
               \/ Start(s) \/ Terminate(s) \/ Exit(s) \/ Dies(s) \/ Panics(s)
               \/ Refresh(s) \/ RefresherStops(s) \/ UpdateVolumes(s)
        PROVE  PassInv' /\ LeftByTheDead
    BY <2>1, PassProcess DEF LeftByTheDead
  <2>2. ASSUME NEW s \in Supervisors,
               \/ Due(s) \/ ProbeCreate(s) \/ ProbeSwap(s) \/ ProbeClear(s) \/ Spawn(s)
               \/ Signals(s)
        PROVE  PassInv' /\ LeftByTheDead
    BY <2>2, PassGoroutines DEF LeftByTheDead
  <2>3. CASE Expire \/ Others
    BY <2>3, PassOthers DEF LeftByTheDead
  <2> QED BY <1>1, <2>1, <2>2, <2>3 DEF Next, Passes
<1>2. CASE UNCHANGED vars
  BY <1>2, PassOthers DEF LeftByTheDead
<1> QED BY <1>1, <1>2

(* IsVolumeInUse and the end of the daemon: no probe is left half done by  *)
(* a volsupervisor that goes on working, whatever locks are taken between  *)
(* its requests, and none by one that is gone.  It is the first half of    *)
(* ProbeLockCleared, whose second is the next probe of the volume.         *)
THEOREM ProbeLockLeftHolds == Spec => []IdleWhenDown /\ [][LeftByTheDead]_vars
<1>1. Init => PassInv
  BY DEF Init, PassInv, IdleWhenDown
<1>2. PassInv /\ [Next]_vars => PassInv' /\ [LeftByTheDead]_vars
  BY PassStep
<1>3. PassInv => IdleWhenDown
  BY DEF PassInv
<1> QED BY <1>1, <1>2, <1>3, PTL DEF Spec
================================================================================
