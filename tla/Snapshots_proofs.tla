--------------------------- MODULE Snapshots_proofs ---------------------------
(***************************************************************************)
(* The proofs that, for any number of volsupervisors and of snapshot       *)
(* goroutines that start, leave their refreshers behind and die, the users *)
(* of a volume's snapshot lock exclude each other, and that a prune keeps  *)
(* the newest snapshots: as long as no refresh comes later than the TTL.   *)
(* And whatever comes late, no snapshot lock is left without a TTL and     *)
(* without a goroutine to remove it, unless a volsupervisor has died.      *)
(***************************************************************************)
EXTENDS Snapshots, TLAPS

(* The reason a goroutine that has the lock published it for. *)
Under(point) == IF point = "snap" THEN "Snapshot" ELSE "SnapshotPrune"

(* The lock has the content of every goroutine that refreshes it, and one  *)
(* at most does: also when it was told to stop, so that nobody else can    *)
(* have published the same content in the meantime.                        *)
RefreshedIsHeld ==
    /\ \A w \in Workers : \A r \in Reasons : ref[w][r] # "off" => HeldBy(snapUse, r)
    /\ \A w1, w2 \in Workers : \A r \in Reasons :
          ref[w1][r] # "off" /\ ref[w2][r] # "off" => w1 = w2

(* A goroutine works while its refresher is not told to stop.              *)
WorkIsRefreshed ==
    \A w \in Workers : Holder(w) => ref[w][Under(work[w])] = "on"

(* The apiserver's requests have the lock, without a goroutine. *)
RequestIsHeld ==
    /\ api = "remove" => snapUse = Permanent("Remove")
    /\ api = "copy" => snapUse = Permanent("Copy")

(* What ListSnapshots condemned still has enough later snapshots.          *)
DoomedAreOld ==
    \A w \in Workers : work[w] = "rm" =>
       \A x \in doomed[w] : Cardinality({y \in snaps : y > x}) >= keep[w]

LockInv == SnapTypeOK /\ RefreshedIsHeld /\ WorkIsRefreshed /\ RequestIsHeld

--------------------------------------------------------------------------------
LEMMA SnapshotsInitial == Init => LockInv /\ DoomedAreOld
<1> SUFFICES ASSUME Init PROVE LockInv /\ DoomedAreOld
  OBVIOUS
<1> USE DEF Init
<1>1. SnapTypeOK
  BY SnapshotsAssumption DEF SnapTypeOK, Uses, Free
<1>2. RefreshedIsHeld /\ WorkIsRefreshed /\ RequestIsHeld /\ DoomedAreOld
  BY DEF RefreshedIsHeld, WorkIsRefreshed, RequestIsHeld, DoomedAreOld, Holder
<1> QED BY <1>1, <1>2 DEF LockInv

(* The users of the lock exclude each other in a state of the invariant.   *)
LEMMA LockExcludes == LockInv => SnapshotsExclude
<1> SUFFICES ASSUME LockInv PROVE SnapshotsExclude
  OBVIOUS
<1> USE DEF LockInv, Reasons, HeldBy
<1>1. ASSUME NEW w \in Workers, Holder(w)
      PROVE  /\ Under(work[w]) \in Reasons
             /\ ref[w][Under(work[w])] = "on"
             /\ snapUse.content = Under(work[w])
  BY <1>1 DEF RefreshedIsHeld, WorkIsRefreshed, Holder, Under
<1>2. \A w1, w2 \in Workers : Holder(w1) /\ Holder(w2) => w1 = w2
  BY <1>1 DEF RefreshedIsHeld
<1>3. \A w \in Workers : Holder(w) => api \notin {"remove", "copy"}
  BY <1>1 DEF RequestIsHeld, Permanent
<1> QED BY <1>2, <1>3 DEF SnapshotsExclude

(* Nobody has a lock that does not exist, and nobody refreshes it.         *)
LEMMA AbsentIsUnused ==
    ASSUME LockInv, CreateSucceeds(snapUse)
    PROVE  /\ api = "idle"
           /\ \A w \in Workers : \A r \in Reasons : ref[w][r] = "off"
           /\ \A w \in Workers : ~Holder(w)
<1> USE DEF LockInv, Reasons, HeldBy, CreateSucceeds
<1>1. \A w \in Workers : \A r \in Reasons : ref[w][r] = "off"
  BY SnapshotsAssumption DEF RefreshedIsHeld, SnapContents
<1>2. \A w \in Workers : ~Holder(w)
  BY <1>1 DEF WorkIsRefreshed, Under
<1>3. api = "idle"
  BY SnapshotsAssumption DEF RequestIsHeld, Permanent, SnapTypeOK, SnapContents
<1> QED BY <1>1, <1>2, <1>3

--------------------------------------------------------------------------------
(* A goroutine starts, or is refused the lock.                             *)
LEMMA WithoutLockStep ==
    ASSUME LockInv, NEW w \in Workers,
           Starts(w) \/ TakeRefused(w) \/ PruneRefused(w)
    PROVE  LockInv'
<1> USE DEF LockInv
<1>1. PICK point \in {"off", "take", "prune"} :
        /\ work' = [work EXCEPT ![w] = point]
        /\ ~Holder(w)
        /\ UNCHANGED <<conf, api, snapUse, snaps, taken, owner, doomed, ref, died>>
        /\ sched' \in [Workers -> BOOLEAN]
        /\ keep' \in [Workers -> Keeps \cup {NoVolume}]
  <2>1. CASE Starts(w)
    BY <2>1 DEF Starts, Scheduled, ScheduledUnused, Signalled, Begin, Idle, SnapTypeOK, Holder
  <2>2. CASE TakeRefused(w)
    BY <2>2 DEF TakeRefused, AfterSnapshot, Goto, SnapTypeOK, Holder
  <2>3. CASE PruneRefused(w)
    BY <2>3 DEF PruneRefused, Goto, SnapTypeOK, Holder
  <2> QED BY <2>1, <2>2, <2>3
<1>2. SnapTypeOK'
  BY <1>1 DEF SnapTypeOK
<1>3. WorkIsRefreshed'
  BY <1>1 DEF WorkIsRefreshed, Holder, SnapTypeOK
<1>4. RefreshedIsHeld' /\ RequestIsHeld'
  BY <1>1 DEF RefreshedIsHeld, RequestIsHeld, HeldBy
<1> QED BY <1>2, <1>3, <1>4

(* A goroutine publishes the lock.                                         *)
LEMMA LockStep ==
    ASSUME LockInv, NEW w \in Workers, TakeLock(w) \/ PruneLock(w)
    PROVE  LockInv'
<1> USE DEF LockInv, Reasons
<1>1. PICK point \in {"snap", "list"} :
        /\ CreateSucceeds(snapUse)
        /\ Lock(w, Under(point))
        /\ Goto(w, point)
        /\ UNCHANGED <<conf, api, snaps, taken, owner, doomed, died>>
  BY DEF TakeLock, PruneLock, Under
<1>2. /\ api = "idle"
      /\ \A v \in Workers : \A r \in Reasons : ref[v][r] = "off"
      /\ \A v \in Workers : ~Holder(v)
  BY <1>1, AbsentIsUnused
<1>3. SnapTypeOK'
  BY <1>1 DEF SnapTypeOK, Goto, Lock, Permanent, Under, Uses, SnapContents
<1>4. RefreshedIsHeld'
  BY <1>1, <1>2 DEF RefreshedIsHeld, Lock, Permanent, HeldBy, SnapTypeOK, Under
<1>5. WorkIsRefreshed'
  BY <1>1, <1>2 DEF WorkIsRefreshed, Lock, Goto, Holder, SnapTypeOK, Under
<1>6. RequestIsHeld'
  BY <1>1, <1>2 DEF RequestIsHeld
<1> QED BY <1>3, <1>4, <1>5, <1>6

(* A goroutine is done and tells its refresher to stop.                    *)
LEMMA StopStep ==
    ASSUME LockInv, NEW w \in Workers, Holder(w),
           NEW point \in {"off", "prune"},
           Stop(w, Under(work[w])), Goto(w, point),
           UNCHANGED <<conf, api, owner, died>>,
           taken' \in Nat, snaps' \subseteq 1..taken', doomed' \in [Workers -> SUBSET Nat]
    PROVE  LockInv'
<1> USE DEF LockInv, Reasons
<1>1. SnapTypeOK'
  BY DEF SnapTypeOK, Goto, Stop, Under
<1>2. RefreshedIsHeld'
  <2>1. Under(work[w]) \in Reasons /\ ref[w][Under(work[w])] = "on"
    BY DEF WorkIsRefreshed, Under
  <2>2. \A v \in Workers : \A r \in Reasons : ref'[v][r] # "off" => ref[v][r] # "off"
    BY <2>1 DEF Stop, SnapTypeOK
  <2> QED BY <2>2 DEF Stop, RefreshedIsHeld, HeldBy
<1>3. WorkIsRefreshed'
  <2>1. \A v \in Workers : v # w => work'[v] = work[v] /\ ref'[v] = ref[v]
    BY DEF Goto, Stop, SnapTypeOK
  <2>2. work'[w] = point
    BY DEF Goto, SnapTypeOK
  <2> QED BY <2>1, <2>2 DEF WorkIsRefreshed, Holder
<1>4. RequestIsHeld'
  BY DEF RequestIsHeld, Stop
<1> QED BY <1>1, <1>2, <1>3, <1>4

(* A goroutine uses the lock it has.                                       *)
LEMMA HolderStep ==
    ASSUME LockInv, NEW w \in Workers,
           CreateSnapshot(w) \/ ListSnapshots(w) \/ RemoveSnapshot(w) \/ PruneReturns(w)
    PROVE  LockInv'
<1>1. SnapTypeOK
  BY DEF LockInv
<1>2. CASE CreateSnapshot(w)
  <2>1. Holder(w) /\ Under(work[w]) = "Snapshot" /\ AfterSnapshot(w) \in {"off", "prune"}
    BY <1>2 DEF CreateSnapshot, Holder, Under, AfterSnapshot
  <2>2. taken' \in Nat /\ snaps' \subseteq 1..taken'
    <3>1. taken \in Nat /\ snaps \subseteq 1..taken
      BY <1>1 DEF SnapTypeOK
    <3>2. CASE UNCHANGED <<snaps, taken>>
      BY <3>1, <3>2
    <3>3. CASE taken' = taken + 1 /\ snaps' = snaps \cup {taken + 1}
      BY <3>1, <3>3
    <3> QED BY <1>2, <3>2, <3>3 DEF CreateSnapshot
  <2>3. doomed' \in [Workers -> SUBSET Nat]
    BY <1>1, <1>2 DEF CreateSnapshot, SnapTypeOK
  <2>4. /\ Stop(w, "Snapshot") /\ Goto(w, AfterSnapshot(w))
        /\ UNCHANGED <<conf, api, owner, died>>
    BY <1>2 DEF CreateSnapshot
  <2> QED BY <2>1, <2>2, <2>3, <2>4, StopStep
<1>3. CASE ListSnapshots(w)
  <2>1. Holder(w) /\ Under(work[w]) = "SnapshotPrune"
    BY <1>3 DEF ListSnapshots, Holder, Under
  <2>2. taken' \in Nat /\ snaps' \subseteq 1..taken' /\ UNCHANGED <<conf, api, snaps, taken, owner, died>>
    BY <1>1, <1>3 DEF ListSnapshots, SnapTypeOK
  <2>3. CASE Stop(w, "SnapshotPrune") /\ Goto(w, "off") /\ UNCHANGED doomed
    <3>1. doomed' \in [Workers -> SUBSET Nat]
      BY <1>1, <2>3 DEF SnapTypeOK
    <3> QED BY <2>1, <2>2, <2>3, <3>1, StopStep
  <2>4. CASE /\ doomed' = [doomed EXCEPT ![w] = Oldest(snaps, keep[w])]
             /\ Goto(w, "rm")
             /\ UNCHANGED <<snapUse, ref>>
    <3>1. Oldest(snaps, keep[w]) \subseteq Nat
      <4>1. snaps \subseteq Nat
        BY <1>1 DEF SnapTypeOK
      <4>2. Oldest(snaps, keep[w]) \subseteq snaps
        BY Zenon DEF Oldest
      <4> QED BY <4>1, <4>2
    <3>2. SnapTypeOK'
      BY <1>1, <2>2, <2>4, <3>1 DEF SnapTypeOK, Goto
    <3>3. WorkIsRefreshed'
      BY <1>1, <2>1, <2>4 DEF LockInv, WorkIsRefreshed, Goto, Holder, Under, SnapTypeOK
    <3> QED BY <2>2, <2>4, <3>2, <3>3
              DEF LockInv, RefreshedIsHeld, RequestIsHeld, HeldBy
  <2> QED BY <1>3, <2>3, <2>4 DEF ListSnapshots
<1>4. CASE RemoveSnapshot(w)
  <2>1. /\ snaps' \subseteq snaps
        /\ doomed' \in [Workers -> SUBSET Nat]
        /\ UNCHANGED <<conf, api, snapUse, taken, work, owner, sched, keep, ref, died>>
    BY <1>1, <1>4 DEF RemoveSnapshot, SnapTypeOK
  <2> QED BY <2>1 DEF LockInv, SnapTypeOK, RefreshedIsHeld, WorkIsRefreshed, RequestIsHeld,
                      HeldBy, Holder
<1>5. CASE PruneReturns(w)
  <2>1. Holder(w) /\ Under(work[w]) = "SnapshotPrune"
    BY <1>5 DEF PruneReturns, Holder, Under
  <2>2. /\ taken' \in Nat /\ snaps' \subseteq 1..taken' /\ doomed' \in [Workers -> SUBSET Nat]
        /\ UNCHANGED <<conf, api, owner, died>>
    BY <1>1, <1>5 DEF PruneReturns, SnapTypeOK
  <2> QED BY <1>5, <2>1, <2>2, StopStep DEF PruneReturns
<1> QED BY <1>2, <1>3, <1>4, <1>5

(* The refresh goroutines, and the expiry of a lock nobody refreshes.      *)
LEMMA RefresherStep ==
    ASSUME ~Stalls, LockInv,
           \/ Expire
           \/ \E w \in Workers : \E r \in Reasons : Refresh(w, r) \/ RefresherStops(w, r)
    PROVE  LockInv'
<1> USE DEF LockInv
<1>1. CASE Expire
  <2>1. api = "idle" /\ \A w \in Workers : \A r \in Reasons : ref[w][r] = "off"
    BY <1>1 DEF Expire, MayExpire, Refreshed, RequestIsHeld, RefreshedIsHeld, HeldBy, Permanent,
                SnapTypeOK
  <2>2. SnapTypeOK' /\ RefreshedIsHeld' /\ RequestIsHeld'
    BY <1>1, <2>1 DEF Expire, SnapTypeOK, Uses, Free, RefreshedIsHeld, RequestIsHeld
  <2> QED BY <1>1, <2>2 DEF Expire, WorkIsRefreshed, Holder
<1>2. ASSUME NEW w \in Workers, NEW r \in Reasons, Refresh(w, r)
      PROVE  LockInv'
  <2>1. HeldBy(snapUse, r) /\ api = "idle"
    BY <1>2 DEF Refresh, RefreshedIsHeld, RequestIsHeld, HeldBy, Permanent, SnapTypeOK, Reasons
  <2>2. HeldBy(snapUse', r)
    BY <1>2 DEF Refresh, Leased, HeldBy
  <2>3. SnapTypeOK'
    BY <1>2, SnapshotsAssumption DEF Refresh, Leased, SnapTypeOK, Uses, SnapContents
  <2>4. RefreshedIsHeld' /\ WorkIsRefreshed' /\ RequestIsHeld'
    BY <1>2, <2>1, <2>2 DEF Refresh, RefreshedIsHeld, WorkIsRefreshed, RequestIsHeld, HeldBy, Holder
  <2> QED BY <2>3, <2>4
<1>3. ASSUME NEW w \in Workers, NEW r \in Reasons, RefresherStops(w, r)
      PROVE  LockInv'
  <2>1. /\ HeldBy(snapUse, r) /\ api = "idle"
        /\ \A v \in Workers : \A q \in Reasons : ref[v][q] # "off" => v = w /\ q = r
    BY <1>3 DEF RefresherStops, RefreshedIsHeld, RequestIsHeld, HeldBy, Permanent, SnapTypeOK, Reasons
  <2>2. \A v \in Workers : \A q \in Reasons : ref'[v][q] = "off"
    BY <1>3, <2>1 DEF RefresherStops, SnapTypeOK
  <2>3. SnapTypeOK'
    BY <1>3 DEF RefresherStops, SnapTypeOK, AfterRemove, Uses, Free
  <2>4. \A v \in Workers : ~Holder(v)
    <3>1. \A q \in Reasons : ref[w][q] # "on"
      BY <1>3, <2>1 DEF RefresherStops
    <3>2. \A v \in Workers : Holder(v) => v = w
      BY <2>1 DEF WorkIsRefreshed, Under, Reasons
    <3>3. ~Holder(w)
      BY <3>1 DEF WorkIsRefreshed, Under, Reasons
    <3> QED BY <3>2, <3>3
  <2>5. UNCHANGED <<work, api>>
    BY <1>3 DEF RefresherStops
  <2>6. RefreshedIsHeld' /\ RequestIsHeld'
    BY <2>1, <2>2, <2>5 DEF RefreshedIsHeld, RequestIsHeld
  <2>7. WorkIsRefreshed'
    BY <2>4, <2>5 DEF WorkIsRefreshed, Holder
  <2> QED BY <2>3, <2>6, <2>7
<1> QED BY <1>1, <1>2, <1>3

(* A volsupervisor dies.                                                   *)
LEMMA DeathStep ==
    ASSUME LockInv, NEW s \in Supervisors, Dies(s)
    PROVE  LockInv'
<1> USE DEF LockInv, Dies
<1>1. SnapTypeOK'
  BY DEF SnapTypeOK
<1>2. \A w \in Workers : IF owner[w] = s THEN ~Holder(w)' /\ \A r \in Reasons : ref'[w][r] = "off"
                                         ELSE work'[w] = work[w] /\ ref'[w] = ref[w]
  BY DEF Holder
<1>3. RefreshedIsHeld'
  BY <1>2 DEF RefreshedIsHeld, HeldBy
<1>4. WorkIsRefreshed'
  BY <1>2 DEF WorkIsRefreshed, Holder
<1>5. RequestIsHeld'
  BY DEF RequestIsHeld
<1> QED BY <1>1, <1>3, <1>4, <1>5

(* The apiserver's requests.                                               *)
LEMMA RequestStep ==
    ASSUME LockInv, Others
    PROVE  LockInv'
<1> USE DEF LockInv
<1>1. CASE RemoveBegins \/ CopyBegins
  <2>1. CreateSucceeds(snapUse)
    BY <1>1 DEF RemoveBegins, CopyBegins
  <2>2. \A w \in Workers : \A r \in Reasons : ref[w][r] = "off"
    BY <2>1, AbsentIsUnused
  <2>3. /\ snapUse' \in {Permanent("Remove"), Permanent("Copy")}
        /\ api' \in {"remove", "copy"}
        /\ UNCHANGED <<conf, snaps, taken, work, owner, sched, keep, doomed, ref, died>>
    BY <1>1 DEF RemoveBegins, CopyBegins
  <2>4. SnapTypeOK'
    <3>1. snapUse' \in Uses(SnapContents) /\ snapUse'.ttl = FALSE
      <4>1. ASSUME NEW c \in {"Remove", "Copy"}
            PROVE  Permanent(c) \in Uses(SnapContents) /\ Permanent(c).ttl = FALSE
        BY DEF Permanent, Uses, SnapContents
      <4> QED BY <2>3, <4>1
    <3> QED BY <2>3, <3>1 DEF SnapTypeOK
  <2>5. RequestIsHeld'
    BY <1>1 DEF RemoveBegins, CopyBegins, RequestIsHeld
  <2>6. RefreshedIsHeld' /\ WorkIsRefreshed'
    BY <2>2, <2>3 DEF RefreshedIsHeld, WorkIsRefreshed, Holder
  <2> QED BY <2>4, <2>5, <2>6
<1>2. CASE RemoveEnds \/ CopyEnds
  <2>1. /\ snapUse \in {Permanent("Remove"), Permanent("Copy")}
        /\ snapUse' = Free
        /\ api' = "idle"
        /\ conf' \in {conf, NoVolume} /\ snaps' \in {snaps, {}}
        /\ UNCHANGED <<taken, work, owner, sched, keep, doomed, ref, died>>
    <3>1. CASE RemoveEnds
      BY <3>1 DEF RemoveEnds, RequestIsHeld, Permanent, AfterRemove, RemoveSucceeds, HeldBy
    <3>2. CASE CopyEnds
      BY <3>2 DEF CopyEnds, RequestIsHeld, Permanent, AfterRemove, RemoveSucceeds, HeldBy
    <3> QED BY <1>2, <3>1, <3>2
  <2>2. \A w \in Workers : \A r \in Reasons : ref[w][r] = "off"
    BY <2>1 DEF RefreshedIsHeld, Permanent, HeldBy, Reasons
  <2>3. SnapTypeOK'
    <3>1. snapUse' \in Uses(SnapContents) /\ snapUse'.ttl = FALSE
      BY <2>1 DEF Free, Uses
    <3>2. snaps' \subseteq 1..taken' /\ conf' \in Keeps \cup {NoVolume}
      BY <2>1 DEF SnapTypeOK
    <3> QED BY <2>1, <3>1, <3>2 DEF SnapTypeOK
  <2>4. RefreshedIsHeld' /\ WorkIsRefreshed' /\ RequestIsHeld'
    BY <2>1, <2>2 DEF RefreshedIsHeld, WorkIsRefreshed, RequestIsHeld, Holder
  <2> QED BY <2>3, <2>4
<1>3. CASE \E k \in Keeps : CreateVolume(k) \/ UploadRuntime(k)
  <2>1. /\ conf' \in Keeps
        /\ UNCHANGED <<api, snapUse, snaps, taken, work, owner, sched, keep, doomed, ref, died>>
    BY <1>3 DEF CreateVolume, UploadRuntime
  <2>2. SnapTypeOK'
    BY <2>1 DEF SnapTypeOK
  <2> QED BY <2>1, <2>2 DEF RefreshedIsHeld, WorkIsRefreshed, RequestIsHeld, HeldBy, Holder
<1> QED BY <1>1, <1>2, <1>3 DEF Others

LEMMA LockInvStep == ~Stalls /\ LockInv /\ [Next]_vars => LockInv'
<1> SUFFICES ASSUME ~Stalls, LockInv, [Next]_vars PROVE LockInv'
  OBVIOUS
<1>1. CASE UNCHANGED vars
  BY <1>1 DEF vars, LockInv, SnapTypeOK, RefreshedIsHeld, WorkIsRefreshed, RequestIsHeld, HeldBy, Holder
<1> QED BY <1>1, WithoutLockStep, LockStep, HolderStep, RefresherStep, DeathStep, RequestStep
        DEF Next, Works

--------------------------------------------------------------------------------
(* createSnapshot and pruneSnapshots exclude each other and the removals   *)
(* and copies of the apiserver, for any number of volsupervisors that      *)
(* start, leave or die, if the lock is refreshed in time.                  *)
THEOREM SnapshotsExcludeHolds == ASSUME ~Stalls PROVE Spec => []SnapshotsExclude
<1>1. LockInv /\ [Next]_vars => LockInv'
  BY LockInvStep
<1> QED BY <1>1, SnapshotsInitial, LockExcludes, PTL DEF Spec

--------------------------------------------------------------------------------
(* While a goroutine has something left to remove, the snapshots later     *)
(* than that stay: it removes the oldest first, and nobody else works.     *)
LEMMA DoomedStep == LockInv /\ DoomedAreOld /\ [Next]_vars => DoomedAreOld'
<1> SUFFICES ASSUME LockInv, DoomedAreOld, [Next]_vars,
                    NEW w \in Workers, work'[w] = "rm",
                    NEW x \in doomed'[w]
             PROVE  Cardinality({y \in snaps' : y > x}) >= keep'[w]
  BY DEF DoomedAreOld
<1>1. SnapTypeOK /\ SnapshotsExclude
  BY LockExcludes DEF LockInv
<1>2. ASSUME work[w] = "rm", doomed'[w] = doomed[w], keep'[w] = keep[w], snaps' = snaps
      PROVE  Cardinality({y \in snaps' : y > x}) >= keep'[w]
  BY <1>2 DEF DoomedAreOld
<1>3. CASE ListSnapshots(w)
  <2>1. /\ doomed'[w] = Oldest(snaps, keep[w])
        /\ keep'[w] = keep[w]
        /\ snaps' = snaps
    BY <1>1, <1>3 DEF ListSnapshots, Goto, SnapTypeOK
  <2> QED BY <2>1 DEF Oldest
<1>4. CASE RemoveSnapshot(w)
  <2>1. PICK z \in doomed[w] :
          /\ \A y \in doomed[w] : z <= y
          /\ doomed' = [doomed EXCEPT ![w] = @ \ {z}]
          /\ snaps' \in {snaps, snaps \ {z}}
    BY <1>4 DEF RemoveSnapshot
  <2>2. x \in doomed[w] /\ x # z /\ z <= x /\ x \in Nat /\ z \in Nat
    BY <1>1, <2>1 DEF SnapTypeOK
  <2>3. {y \in snaps' : y > x} = {y \in snaps : y > x}
    <3>1. ~(z > x)
      BY <2>2
    <3> QED BY <2>1, <3>1
  <2>4. work[w] = "rm" /\ keep'[w] = keep[w]
    BY <1>4 DEF RemoveSnapshot
  <2> QED BY <2>2, <2>3, <2>4 DEF DoomedAreOld
<1>5. ASSUME NEW v \in Workers, Starts(v) \/ Works(v), ~ListSnapshots(w), ~RemoveSnapshot(w)
      PROVE  Cardinality({y \in snaps' : y > x}) >= keep'[w]
  <2>1. work[w] = "rm" /\ v # w /\ keep'[w] = keep[w]
    BY <1>1, <1>5 DEF Starts, Works, Scheduled, ScheduledUnused, Signalled, Begin, Goto,
                      TakeLock, TakeRefused, CreateSnapshot, AfterSnapshot, PruneLock, PruneRefused,
                      ListSnapshots, RemoveSnapshot, PruneReturns, SnapTypeOK
  <2>2. ~Holder(v)
    BY <1>1, <2>1 DEF SnapshotsExclude, Holder
  <2>3. snaps' = snaps /\ doomed' = doomed
    BY <1>5, <2>2 DEF Starts, Works, Scheduled, ScheduledUnused, Signalled, Begin, Goto,
                      TakeLock, TakeRefused, CreateSnapshot, PruneLock, PruneRefused,
                      ListSnapshots, RemoveSnapshot, PruneReturns, Holder
  <2> QED BY <1>2, <2>1, <2>3
<1>6. ASSUME NEW v \in Workers, NEW r \in Reasons, Refresh(v, r) \/ RefresherStops(v, r)
      PROVE  Cardinality({y \in snaps' : y > x}) >= keep'[w]
  BY <1>2, <1>6 DEF Refresh, RefresherStops
<1>7. ASSUME NEW s \in Supervisors, Dies(s)
      PROVE  Cardinality({y \in snaps' : y > x}) >= keep'[w]
  BY <1>2, <1>7 DEF Dies
<1>8. CASE Others
  <2>1. work[w] = "rm"
    BY <1>8 DEF Others, RemoveBegins, RemoveEnds, CopyBegins, CopyEnds, CreateVolume, UploadRuntime
  <2>2. api # "remove"
    BY <1>1, <2>1 DEF SnapshotsExclude, Holder
  <2> QED BY <1>2, <1>8, <2>1, <2>2
            DEF Others, RemoveBegins, RemoveEnds, CopyBegins, CopyEnds, CreateVolume, UploadRuntime
<1>9. CASE Expire \/ UNCHANGED vars
  BY <1>2, <1>9 DEF Expire, vars
<1> QED BY <1>3, <1>4, <1>5, <1>6, <1>7, <1>8, <1>9 DEF Next

(* pruneSnapshots: every snapshot it removes has as many later ones as the *)
(* Keep that it was started with, whatever else happens to the volume, its *)
(* snapshots and its Keep between the listing and the removal.             *)
THEOREM PruneKeepsNewestHolds == ASSUME ~Stalls PROVE Spec => PruneKeepsNewest
<1> DEFINE Kept == \A w \in Workers : \A x \in snaps \ snaps' :
                     RemoveSnapshot(w) => Cardinality({y \in snaps : y > x}) >= keep[w]
<1>1. LockInv /\ [Next]_vars => LockInv'
  BY LockInvStep
<1>2. DoomedAreOld => [Kept]_vars
  <2> SUFFICES ASSUME DoomedAreOld, NEW w \in Workers, NEW x \in snaps \ snaps', RemoveSnapshot(w)
               PROVE  Cardinality({y \in snaps : y > x}) >= keep[w]
    OBVIOUS
  <2>1. work[w] = "rm" /\ x \in doomed[w]
    BY DEF RemoveSnapshot
  <2> QED BY <2>1 DEF DoomedAreOld
<1> QED BY <1>1, <1>2, SnapshotsInitial, DoomedStep, PTL DEF Spec, PruneKeepsNewest

--------------------------------------------------------------------------------
(* The lock is not forgotten.                                              *)

(* A snapshot lock is never just forgotten: it has a TTL, or a goroutine   *)
(* that will remove it, unless a volsupervisor has died.                   *)
LockHasKeeper ==
    snapUse.content \in Reasons => snapUse.ttl \/ Refreshed(snapUse.content) \/ died

(* A goroutine that refreshes a lock has been told to stop, or the one     *)
(* that will tell it is still at work under that lock.                     *)
RefreshersAreStopped ==
    \A w \in Workers : \A r \in Reasons :
        ref[w][r] = "on" => Holder(w) /\ Under(work[w]) = r

(* Both, with the types they need, are inductive. *)
KeeperInv ==
    /\ work \in [Workers -> {"off", "take", "snap", "prune", "list", "rm"}]
    /\ ref \in [Workers -> [Reasons -> {"off", "on", "stop"}]]
    /\ LockHasKeeper
    /\ RefreshersAreStopped

(* A goroutine gets the lock, or does not get it.                          *)
LEMMA KeeperBegins ==
    ASSUME KeeperInv, NEW w \in Workers,
           Starts(w) \/ TakeRefused(w) \/ PruneRefused(w) \/ TakeLock(w) \/ PruneLock(w)
    PROVE  KeeperInv'
<1> USE DEF KeeperInv
<1>1. ASSUME NEW point \in {"off", "take", "prune"}, work' = [work EXCEPT ![w] = point],
             ~Holder(w), UNCHANGED <<snapUse, ref, died>>
      PROVE  KeeperInv'
  BY <1>1 DEF LockHasKeeper, RefreshersAreStopped, Refreshed, Holder
<1>2. CASE Starts(w)
  BY <1>1, <1>2 DEF Starts, Scheduled, ScheduledUnused, Signalled, Begin, Idle, Holder
<1>3. CASE TakeRefused(w) \/ PruneRefused(w)
  BY <1>1, <1>3 DEF TakeRefused, PruneRefused, AfterSnapshot, Goto, Holder
<1>4. ASSUME NEW point \in {"snap", "list"}, work' = [work EXCEPT ![w] = point],
             ~Holder(w), Lock(w, Under(point))
      PROVE  KeeperInv'
  <2>1. Under(point) \in Reasons
    BY DEF Under, Reasons
  <2>2. /\ snapUse'.content = Under(point)
        /\ ref'[w][Under(point)] = "on"
        /\ ref' \in [Workers -> [Reasons -> {"off", "on", "stop"}]]
        /\ \A v \in Workers, r \in Reasons : v # w \/ r # Under(point) => ref'[v][r] = ref[v][r]
    BY <1>4, <2>1 DEF Lock, Permanent
  <2>3. LockHasKeeper'
    BY <2>1, <2>2 DEF LockHasKeeper, Refreshed
  <2>4. \A r \in Reasons : ref[w][r] # "on"
    BY <1>4 DEF RefreshersAreStopped
  <2>5. RefreshersAreStopped'
    BY <1>4, <2>1, <2>2, <2>4 DEF RefreshersAreStopped, Holder
  <2> QED BY <1>4, <2>2, <2>3, <2>5
<1>5. CASE TakeLock(w)
  BY <1>4, <1>5 DEF TakeLock, Goto, Under, Holder
<1>6. CASE PruneLock(w)
  BY <1>4, <1>6 DEF PruneLock, Goto, Under, Holder
<1> QED BY <1>2, <1>3, <1>5, <1>6

(* It works and tells the goroutine to stop.                               *)
LEMMA KeeperWorks ==
    ASSUME KeeperInv, NEW w \in Workers,
           CreateSnapshot(w) \/ ListSnapshots(w) \/ RemoveSnapshot(w) \/ PruneReturns(w)
    PROVE  KeeperInv'
<1> USE DEF KeeperInv
<1>1. ASSUME NEW point \in {"off", "prune"}, work' = [work EXCEPT ![w] = point],
             Holder(w), Stop(w, Under(work[w])), UNCHANGED died
      PROVE  KeeperInv'
  <2>1. Under(work[w]) \in Reasons
    BY DEF Under, Reasons
  <2>2. /\ ref'[w][Under(work[w])] = "stop" /\ snapUse' = snapUse
        /\ ref' \in [Workers -> [Reasons -> {"off", "on", "stop"}]]
        /\ \A v \in Workers, r \in Reasons : v # w \/ r # Under(work[w]) => ref'[v][r] = ref[v][r]
    BY <1>1, <2>1 DEF Stop
  <2>3. \A v \in Workers, r \in Reasons : ref[v][r] # "off" => ref'[v][r] # "off"
    BY <2>1, <2>2
  <2>4. LockHasKeeper'
    BY <1>1, <2>2, <2>3 DEF LockHasKeeper, Refreshed
  <2>5. RefreshersAreStopped'
    BY <1>1, <2>1, <2>2 DEF RefreshersAreStopped, Holder
  <2> QED BY <1>1, <2>2, <2>4, <2>5
<1>2. CASE CreateSnapshot(w)
  BY <1>1, <1>2 DEF CreateSnapshot, Goto, AfterSnapshot, Holder, Under
<1>3. CASE PruneReturns(w)
  BY <1>1, <1>3 DEF PruneReturns, Goto, Holder, Under
<1>4. CASE RemoveSnapshot(w)
  BY <1>4 DEF RemoveSnapshot, LockHasKeeper, RefreshersAreStopped, Refreshed, Holder
<1>5. CASE ListSnapshots(w)
  <2>1. CASE Goto(w, "rm") /\ UNCHANGED <<snapUse, ref>>
    BY <1>5, <2>1 DEF ListSnapshots, Goto, LockHasKeeper, RefreshersAreStopped, Refreshed, Holder, Under
  <2>2. CASE Goto(w, "off") /\ Stop(w, "SnapshotPrune")
    BY <1>1, <1>5, <2>2 DEF ListSnapshots, Goto, Holder, Under
  <2> QED BY <1>5, <2>1, <2>2 DEF ListSnapshots
<1> QED BY <1>2, <1>3, <1>4, <1>5

(* The goroutine refreshes the lock or removes it, and etcd deletes it.    *)
LEMMA KeeperEnds ==
    ASSUME KeeperInv, \/ \E w \in Workers : \E r \in Reasons : Refresh(w, r) \/ RefresherStops(w, r)
                      \/ Expire
    PROVE  KeeperInv'
<1> USE DEF KeeperInv
<1>0. UNCHANGED <<work, died>> /\ Free.content \notin Reasons
  BY SnapshotsAssumption DEF Refresh, RefresherStops, Expire, Free, Reasons, SnapContents
<1>1. ASSUME NEW w \in Workers, NEW r \in Reasons, Refresh(w, r)
      PROVE  KeeperInv'
  <2>1. snapUse' = Leased(r) /\ UNCHANGED ref
    BY <1>1 DEF Refresh
  <2> QED BY <1>0, <2>1 DEF Leased, LockHasKeeper, RefreshersAreStopped, Holder
<1>2. ASSUME NEW w \in Workers, NEW r \in Reasons, RefresherStops(w, r)
      PROVE  KeeperInv'
  <2>1. /\ snapUse' = (IF snapUse.content = r THEN Free ELSE snapUse)
        /\ ref' = [ref EXCEPT ![w][r] = "off"]
    BY <1>2 DEF RefresherStops, AfterRemove, RemoveSucceeds, HeldBy
  <2>2. ref' \in [Workers -> [Reasons -> {"off", "on", "stop"}]]
        /\ \A v \in Workers, q \in Reasons : v # w \/ q # r => ref'[v][q] = ref[v][q]
    BY <2>1
  <2>3. RefreshersAreStopped'
    BY <1>0, <2>1, <2>2 DEF RefreshersAreStopped, Holder
  <2>4. LockHasKeeper'
    BY <1>0, <2>1, <2>2 DEF LockHasKeeper, Refreshed
  <2> QED BY <1>0, <2>2, <2>3, <2>4
<1>3. CASE Expire
  BY <1>0, <1>3 DEF Expire, LockHasKeeper, RefreshersAreStopped, Holder
<1> QED BY <1>1, <1>2, <1>3

(* A volsupervisor dies; the apiserver's requests are not about it.        *)
LEMMA KeeperOthers ==
    ASSUME KeeperInv, (\E s \in Supervisors : Dies(s)) \/ Others \/ UNCHANGED vars
    PROVE  KeeperInv'
<1> USE DEF KeeperInv
<1>1. ASSUME NEW s \in Supervisors, Dies(s) PROVE KeeperInv'
  BY <1>1 DEF Dies, LockHasKeeper, RefreshersAreStopped, Holder
<1>2. CASE Others \/ UNCHANGED vars
  <2>1. UNCHANGED <<work, ref, died>>
    BY <1>2 DEF Others, RemoveBegins, RemoveEnds, CopyBegins, CopyEnds, CreateVolume, UploadRuntime, vars
  <2>2. snapUse' \in {snapUse, Free, Permanent("Remove"), Permanent("Copy")}
    BY <1>2 DEF Others, RemoveBegins, RemoveEnds, CopyBegins, CopyEnds, CreateVolume, UploadRuntime,
                vars, AfterRemove
  <2>3. /\ Free.content \notin Reasons /\ Permanent("Remove").content \notin Reasons
        /\ Permanent("Copy").content \notin Reasons
    BY SnapshotsAssumption DEF Permanent, Free, Reasons, SnapContents
  <2> QED BY <2>1, <2>2, <2>3 DEF LockHasKeeper, RefreshersAreStopped, Refreshed, Holder
<1> QED BY <1>1, <1>2

(* createSnapshot and pruneSnapshots do not wait for the goroutine that    *)
(* removes their lock.  Still there is always somebody to free the lock,   *)
(* the goroutine or etcd, and nobody refreshes a lock for ever: what       *)
(* SnapshotLockFreed needs besides fairness, for any number of goroutines, *)
(* and with refreshes that come too late as well.                          *)
THEOREM LockHasKeeperHolds == Spec => [](LockHasKeeper /\ RefreshersAreStopped)
<1>1. Init => KeeperInv
  BY SnapshotsAssumption
     DEF Init, KeeperInv, LockHasKeeper, RefreshersAreStopped, Free, Reasons, SnapContents
<1>2. KeeperInv /\ [Next]_vars => KeeperInv'
  BY KeeperBegins, KeeperWorks, KeeperEnds, KeeperOthers DEF Next, Works
<1>3. KeeperInv => LockHasKeeper /\ RefreshersAreStopped
  BY DEF KeeperInv
<1> QED BY <1>1, <1>2, <1>3, PTL DEF Spec
================================================================================
