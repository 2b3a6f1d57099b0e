------------------------------- MODULE Snapshots -------------------------------
(***************************************************************************)
(* The snapshot goroutines of volsupervisor: createSnapshot and            *)
(* pruneSnapshots of one volume, under its snapshot lock.                  *)
(*                                                                         *)
(* VolSupervisor models the process that starts them, on its schedule and  *)
(* on a signal; here a goroutine of either kind may start at any time, of  *)
(* any volsupervisor (one that is leaving works on beside its successor),  *)
(* with the Keep of the record it was given.  Both functions take the      *)
(* snapshot lock with AcquireWithTTLRefresh, without waiting for it, and   *)
(* tell the goroutine that refreshes it to stop when they return: that one *)
(* removes the lock some time later.  Removals and copies of the apiserver *)
(* hold the same lock (VolumeLifecycle has their detail).                  *)
(*                                                                         *)
(* The volume has a snapshot driver and snapshots enabled.                 *)
(***************************************************************************)
EXTENDS Naturals, FiniteSets, UseLocks

CONSTANTS
    Supervisors,  \* the volsupervisors that may be alive
    Workers,      \* bounds the snapshot goroutines that are alive
    Keeps,        \* the values of RuntimeOptions.Snapshot.Keep
    NoVolume,     \* there is no record of the volume
    MaxSnapshots, \* bounds the snapshots ever taken
    Deaths,       \* whether a volsupervisor may die
    Stalls        \* whether a refresh may come later than the TTL

Reasons == {"Snapshot", "SnapshotPrune"}
SnapContents == Reasons \cup {"Remove", "Copy"}

ASSUME SnapshotsAssumption ==
    /\ Keeps \subseteq Nat \ {0}
    /\ NoVolume \notin Keeps
    /\ Absent \notin SnapContents
    /\ MaxSnapshots \in Nat
    /\ Deaths \in BOOLEAN
    /\ Stalls \in BOOLEAN

VARIABLES
    conf,     \* the volume's Keep in etcd, or NoVolume
    api,      \* the apiserver's request: "idle", "remove" or "copy"
    snapUse,  \* use/snapshot/<volume>
    snaps,    \* the snapshots in ceph, numbered in the order they were taken
    taken,    \* how many there have been
    work,     \* work[w]: "off", "take", "snap", "prune", "list" or "rm"
    owner,    \* owner[w]: the volsupervisor w belongs to
    sched,    \* sched[w]: whether w prunes after the snapshot
    keep,     \* keep[w]: the Keep that w was started with
    doomed,   \* doomed[w]: the snapshots w still has to remove
    ref,      \* ref[w][r]: the goroutine refreshing w's lock for r: "off",
              \* "on" or "stop" (told to stop)
    died      \* whether a volsupervisor with such a goroutine has died

vars == <<conf, api, snapUse, snaps, taken, work, owner, sched, keep, doomed, ref, died>>

Init ==
    /\ conf \in Keeps
    /\ api = "idle"
    /\ snapUse = Free
    /\ snaps = {}
    /\ taken = 0
    /\ work = [w \in Workers |-> "off"]
    /\ owner \in [Workers -> Supervisors]
    /\ sched = [w \in Workers |-> FALSE]
    /\ keep = [w \in Workers |-> NoVolume]
    /\ doomed = [w \in Workers |-> {}]
    /\ ref = [w \in Workers |-> [r \in Reasons |-> "off"]]
    /\ died = FALSE

SnapTypeOK ==
    /\ conf \in Keeps \cup {NoVolume}
    /\ api \in {"idle", "remove", "copy"}
    /\ snapUse \in Uses(SnapContents)
    /\ snapUse.content = Absent => ~snapUse.ttl
    /\ taken \in Nat
    /\ snaps \subseteq 1..taken
    /\ work \in [Workers -> {"off", "take", "snap", "prune", "list", "rm"}]
    /\ owner \in [Workers -> Supervisors]
    /\ sched \in [Workers -> BOOLEAN]
    /\ keep \in [Workers -> Keeps \cup {NoVolume}]
    /\ doomed \in [Workers -> SUBSET Nat]
    /\ ref \in [Workers -> [Reasons -> {"off", "on", "stop"}]]
    /\ died \in BOOLEAN

--------------------------------------------------------------------------------
(* A goroutine slot with no refresher left over. *)
Idle(w) == work[w] = "off" /\ \A r \in Reasons : ref[w][r] = "off"

Begin(w, point, prunes) ==
    /\ Idle(w)
    /\ conf # NoVolume
    /\ work' = [work EXCEPT ![w] = point]
    /\ sched' = [sched EXCEPT ![w] = prunes]
    /\ keep' = [keep EXCEPT ![w] = conf]
    /\ UNCHANGED <<conf, api, snapUse, snaps, taken, owner, doomed, ref, died>>

(* The goroutine of loop, for a volume that is in use and for one that is  *)
(* not; and the one of signalSnapshot.                                     *)
Scheduled(w) == Begin(w, "take", TRUE)
ScheduledUnused(w) == Begin(w, "prune", TRUE)
Signalled(w) == Begin(w, "take", FALSE)

(* What a goroutine was started with is gone when it returns. *)
Goto(w, point) ==
    /\ work' = [work EXCEPT ![w] = point]
    /\ sched' = [sched EXCEPT ![w] = @ /\ point # "off"]
    /\ keep' = [keep EXCEPT ![w] = IF point = "off" THEN NoVolume ELSE @]

(* createSnapshot returns to a scheduled goroutine, which prunes. *)
AfterSnapshot(w) == IF sched[w] THEN "prune" ELSE "off"

Lock(w, r) ==
    /\ snapUse' = Permanent(r)
    /\ ref' = [ref EXCEPT ![w][r] = "on"]

(* The deferred stopChan <- struct{}{}: a message in a channel with room   *)
(* for one, which the refresh goroutine reads later.                       *)
Stop(w, r) ==
    /\ ref' = [ref EXCEPT ![w][r] = "stop"]
    /\ UNCHANGED snapUse

(* Mutant: an error of AcquireWithTTLRefresh is logged and no more. *)
TakeAnyway(w) ==
    /\ work[w] = "take"
    /\ Goto(w, "snap")
    /\ ref' = [ref EXCEPT ![w]["Snapshot"] = "on"]
    /\ snapUse' = IF CreateSucceeds(snapUse) THEN Permanent("Snapshot") ELSE snapUse
    /\ UNCHANGED <<conf, api, snaps, taken, owner, doomed, died>>

(* createSnapshot: the lock, without waiting for it ... *)
TakeLock(w) ==
    /\ work[w] = "take"
    /\ CreateSucceeds(snapUse)
    /\ Lock(w, "Snapshot")
    /\ Goto(w, "snap")
    /\ UNCHANGED <<conf, api, snaps, taken, owner, doomed, died>>

TakeRefused(w) ==
    /\ work[w] = "take"
    /\ ~CreateSucceeds(snapUse)
    /\ Goto(w, AfterSnapshot(w))
    /\ UNCHANGED <<conf, api, snapUse, snaps, taken, owner, doomed, ref, died>>

(* ... and rbd snap create, which may fail. *)
CreateSnapshot(w) ==
    /\ work[w] = "snap"
    /\ \/ /\ conf # NoVolume
          /\ taken < MaxSnapshots
          /\ taken' = taken + 1
          /\ snaps' = snaps \cup {taken + 1}
       \/ UNCHANGED <<snaps, taken>>
    /\ Stop(w, "Snapshot")
    /\ Goto(w, AfterSnapshot(w))
    /\ UNCHANGED <<conf, api, owner, doomed, died>>

(* pruneSnapshots: its own lock, at once after createSnapshot's stop. *)
PruneLock(w) ==
    /\ work[w] = "prune"
    /\ CreateSucceeds(snapUse)
    /\ Lock(w, "SnapshotPrune")
    /\ Goto(w, "list")
    /\ UNCHANGED <<conf, api, snaps, taken, owner, doomed, died>>

PruneRefused(w) ==
    /\ work[w] = "prune"
    /\ ~CreateSucceeds(snapUse)
    /\ Goto(w, "off")
    /\ UNCHANGED <<conf, api, snapUse, snaps, taken, owner, doomed, ref, died>>

(* Mutant: one snapshot too many. *)
OldestAndOne(list, k) ==
    {x \in list : Cardinality({y \in list : y > x}) >= k - 1}

(* The first Len(list) - k of the list, which rbd gives in the order the   *)
(* snapshots were taken: those with k later ones in the list.              *)
Oldest(list, k) ==
    {x \in list : Cardinality({y \in list : y > x}) >= k}

(* ListSnapshots, of which the oldest are to be removed, or its failure. *)
ListSnapshots(w) ==
    /\ work[w] = "list"
    /\ \/ /\ doomed' = [doomed EXCEPT ![w] = Oldest(snaps, keep[w])]
          /\ Goto(w, "rm")
          /\ UNCHANGED <<snapUse, ref>>
       \/ /\ Stop(w, "SnapshotPrune")
          /\ Goto(w, "off")
          /\ UNCHANGED doomed
    /\ UNCHANGED <<conf, api, snaps, taken, owner, died>>

(* rbd snap rm of the next one; a failure is logged. *)
RemoveSnapshot(w) ==
    /\ work[w] = "rm"
    /\ \E x \in doomed[w] :
        /\ \A y \in doomed[w] : x <= y
        /\ doomed' = [doomed EXCEPT ![w] = @ \ {x}]
        /\ snaps' \in {snaps, snaps \ {x}}
    /\ UNCHANGED <<conf, api, snapUse, taken, work, owner, sched, keep, ref, died>>

PruneReturns(w) ==
    /\ work[w] = "rm"
    /\ doomed[w] = {}
    /\ Stop(w, "SnapshotPrune")
    /\ Goto(w, "off")
    /\ UNCHANGED <<conf, api, snaps, taken, owner, doomed, died>>

(* The refresh goroutine of a lock: the timer (which may still win against *)
(* a stop) publishes the lock with a TTL ...                               *)
Refresh(w, r) ==
    /\ ref[w][r] # "off"
    /\ LeaseSucceeds(snapUse, r)
    /\ snapUse' = Leased(r)
    /\ snapUse' # snapUse
    /\ UNCHANGED <<conf, api, snaps, taken, work, owner, sched, keep, doomed, ref, died>>

(* Mutant: the goroutine returns without removing the lock. *)
StopsOnly(w, r) ==
    /\ ref[w][r] = "stop"
    /\ ref' = [ref EXCEPT ![w][r] = "off"]
    /\ UNCHANGED <<conf, api, snapUse, snaps, taken, work, owner, sched, keep, doomed, died>>

(* ... and the stop removes it. *)
RefresherStops(w, r) ==
    /\ ref[w][r] = "stop"
    /\ snapUse' = AfterRemove(snapUse, r, FALSE)
    /\ ref' = [ref EXCEPT ![w][r] = "off"]
    /\ UNCHANGED <<conf, api, snaps, taken, work, owner, sched, keep, doomed, died>>

(* Somebody refreshes a lock for r in time. *)
Refreshed(r) == \E w \in Workers : ref[w][r] # "off"

(* etcd deletes a snapshot lock that has not been refreshed. *)
Expire ==
    /\ MayExpire(snapUse)
    /\ Stalls \/ ~Refreshed(snapUse.content)
    /\ snapUse' = Free
    /\ UNCHANGED <<conf, api, snaps, taken, work, owner, sched, keep, doomed, ref, died>>

--------------------------------------------------------------------------------
(* The end of a volsupervisor ends its goroutines; their locks stay. *)
Dies(s) ==
    /\ Deaths
    /\ \E w \in Workers : owner[w] = s /\ ~Idle(w)
    /\ work' = [w \in Workers |-> IF owner[w] = s THEN "off" ELSE work[w]]
    /\ sched' = [w \in Workers |-> IF owner[w] = s THEN FALSE ELSE sched[w]]
    /\ keep' = [w \in Workers |-> IF owner[w] = s THEN NoVolume ELSE keep[w]]
    /\ doomed' = [w \in Workers |-> IF owner[w] = s THEN {} ELSE doomed[w]]
    /\ ref' = [w \in Workers |->
                 IF owner[w] = s THEN [r \in Reasons |-> "off"] ELSE ref[w]]
    /\ died' = TRUE
    /\ UNCHANGED <<conf, api, snapUse, snaps, taken, owner>>

--------------------------------------------------------------------------------
(* The other users of the snapshot lock.                                   *)

(* handleRemove: under its locks, image, snapshots and record are removed. *)
RemoveBegins ==
    /\ api = "idle" /\ conf # NoVolume
    /\ CreateSucceeds(snapUse)
    /\ snapUse' = Permanent("Remove")
    /\ api' = "remove"
    /\ UNCHANGED <<conf, snaps, taken, work, owner, sched, keep, doomed, ref, died>>

RemoveEnds ==
    /\ api = "remove"
    /\ conf' = NoVolume
    /\ snaps' = {}
    /\ snapUse' = AfterRemove(snapUse, "Remove", FALSE)
    /\ api' = "idle"
    /\ UNCHANGED <<taken, work, owner, sched, keep, doomed, ref, died>>

(* handleCopy holds the snapshot lock of its source. *)
CopyBegins ==
    /\ api = "idle" /\ conf # NoVolume
    /\ CreateSucceeds(snapUse)
    /\ snapUse' = Permanent("Copy")
    /\ api' = "copy"
    /\ UNCHANGED <<conf, snaps, taken, work, owner, sched, keep, doomed, ref, died>>

CopyEnds ==
    /\ api = "copy"
    /\ snapUse' = AfterRemove(snapUse, "Copy", FALSE)
    /\ api' = "idle"
    /\ UNCHANGED <<conf, snaps, taken, work, owner, sched, keep, doomed, ref, died>>

(* handleCreate, under the same lock; handleRuntimeUpload, under none. *)
CreateVolume(k) ==
    /\ conf = NoVolume
    /\ CreateSucceeds(snapUse)
    /\ conf' = k
    /\ UNCHANGED <<api, snapUse, snaps, taken, work, owner, sched, keep, doomed, ref, died>>

UploadRuntime(k) ==
    /\ conf \notin {NoVolume, k}
    /\ conf' = k
    /\ UNCHANGED <<api, snapUse, snaps, taken, work, owner, sched, keep, doomed, ref, died>>

--------------------------------------------------------------------------------
Starts(w) == Scheduled(w) \/ ScheduledUnused(w) \/ Signalled(w)

Works(w) ==
    \/ TakeLock(w)
    \/ TakeRefused(w)
    \/ CreateSnapshot(w)
    \/ PruneLock(w)
    \/ PruneRefused(w)
    \/ ListSnapshots(w)
    \/ RemoveSnapshot(w)
    \/ PruneReturns(w)

Others ==
    \/ RemoveBegins
    \/ RemoveEnds
    \/ CopyBegins
    \/ CopyEnds
    \/ \E k \in Keeps : CreateVolume(k)
    \/ \E k \in Keeps : UploadRuntime(k)

Next ==
    \/ \E w \in Workers :
        \/ Starts(w)
        \/ Works(w)
        \/ \E r \in Reasons : Refresh(w, r) \/ RefresherStops(w, r)
    \/ Expire
    \/ \E s \in Supervisors : Dies(s)
    \/ Others

Spec == Init /\ [][Next]_vars

(* The goroutines that are alive take their steps (the rbd commands have a *)
(* timeout), the apiserver's requests end, and etcd deletes what has       *)
(* expired.                                                                *)
FairSpec ==
    /\ Spec
    /\ \A w \in Workers : WF_vars(Works(w))
    /\ \A w \in Workers : \A r \in Reasons : WF_vars(RefresherStops(w, r))
    /\ WF_vars(Expire)

--------------------------------------------------------------------------------
(* PROPERTIES *)

(* The goroutines that are between AcquireWithTTLRefresh and the stop. *)
Holder(w) == work[w] \in {"snap", "list", "rm"}

(* Creating and pruning snapshots, removing the volume and copying from    *)
(* one of its snapshots exclude each other, whatever volsupervisors run,   *)
(* leave or die: each is under the volume's UseSnapshot lock, although the *)
(* content of the lock does not tell two goroutines apart.                 *)
SnapshotsExclude ==
    /\ \A w1, w2 \in Workers : Holder(w1) /\ Holder(w2) => w1 = w2
    /\ \A w \in Workers : Holder(w) => api \notin {"remove", "copy"}

(* pruneSnapshots removes a snapshot only if as many later ones exist as   *)
(* the Keep it was started with: what ListSnapshots gave it is still true  *)
(* when it comes to the removal.                                           *)
PruneKeepsNewest ==
    [][\A w \in Workers : \A x \in snaps \ snaps' :
          RemoveSnapshot(w) => Cardinality({y \in snaps : y > x}) >= keep[w]]_vars

(* A snapshot lock without a TTL whose goroutine is gone with its process. *)
Orphaned == died /\ ~snapUse.ttl /\ \A r \in Reasons : ~Refreshed(r)

(* A snapshot lock comes free although nobody waits for its goroutine,     *)
(* which is told to stop and may be refreshing: unless its volsupervisor   *)
(* died before the first refresh gave the lock a TTL.                      *)
SnapshotLockFreed ==
    snapUse.content \in Reasons ~> snapUse.content \notin Reasons \/ Orphaned
================================================================================
