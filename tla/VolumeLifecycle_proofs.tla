------------------------ MODULE VolumeLifecycle_proofs ------------------------
(***************************************************************************)
(* The requests on a volume obey the locking protocol of MultiLock as long *)
(* as no operator forces locks off, so that what MultiLock_proofs shows of *)
(* the locks holds of them; and no two of them change the volume at once.  *)
(***************************************************************************)
EXTENDS VolumeLifecycle, MultiLock_proofs

(* No forced removal is in progress. *)
NotForced == force = "idle"

(* Every step of a request that is not forced is a step of                 *)
(* ExecuteWithMultiUseLock or leaves the locks alone.                      *)
LEMMA LifeStepIsLockStep ==
    ASSUME Forced = FALSE, NotForced, [LifeNext]_allVars
    PROVE  [Next]_vars /\ NotForced'
<1> USE Forced = FALSE DEF NotForced
<1>1. ASSUME NEW c \in Clients, Arrive(c)
      PROVE  Next /\ force' = "idle"
  BY <1>1 DEF Arrive, Next
<1>2. ASSUME NEW c \in Clients, LockStep(c)
      PROVE  Next /\ force' = "idle"
  BY <1>2 DEF LockStep, Next, Step, life
<1>3. ASSUME NEW c \in Clients, Return(c)
      PROVE  Next /\ force' = "idle"
  BY <1>3 DEF Return, Next, Step, life
<1>4. ASSUME NEW c \in Clients, Die(c)
      PROVE  Next /\ force' = "idle"
  BY <1>4 DEF Die, Next
<1>5. ASSUME NEW c \in Clients, FunctionStep(c)
      PROVE  UNCHANGED vars /\ force' = "idle"
  BY <1>5 DEF FunctionStep, CreateImage, FormatImage, CleanupImage, PublishRecord,
              PublishRuntime, CloneImage, CheckImage, DestroyImage, RemoveRecord,
              MountImage, UnmountImage
<1>6. ASSUME UploadReads \/ UploadWrites \/ DropRecord
      PROVE  UNCHANGED vars /\ force' = "idle"
  BY <1>6 DEF UploadReads, UploadWrites, DropRecord
<1>7. ~ForceStep
  BY DEF ForceStep, ForceChecks, ForceDestroys, ForceRemovesRecord, ForceUnlocks, ArriveForced
<1>8. CASE UNCHANGED allVars
  BY <1>8 DEF allVars, life
<1> QED
  BY <1>1, <1>2, <1>3, <1>4, <1>5, <1>6, <1>7, <1>8 DEF LifeNext
--------------------------------------------------------------------------------
(* One key that may not exist when it is locked, such as a snapshot lock,  *)
(* keeps its requests apart even if locks of other keys are forced off.    *)

HoldsKey(c, k) == \E i \in Holding(c) : Wants[c][i] = k

(* Who has locked k has written it, and nobody else has locked it. *)
KeyInv(k) ==
    /\ \A c \in Clients : HoldsKey(c, k) => HeldBy(use[k], Content[c][k])
    /\ \A c1, c2 \in Clients : HoldsKey(c1, k) /\ HoldsKey(c2, k) => c1 = c2

SafeKey(k) == TypeOK /\ SwapsMayExist /\ KeyInv(k)

(* The locks that a step of a request leaves it with. *)
LEMMA HoldingStep ==
    ASSUME TypeOK, NEW c \in Clients, Begin(c) \/ Step(c) \/ Crash(c)
    PROVE  /\ TypeOK'
           /\ \A d \in Clients : d # c => Holding(d)' = Holding(d)
<1>1. pos[c] \in 1..Len(Wants[c]) /\ Len(Wants[c]) \in Nat /\ Len(Wants[c]) >= 1
  BY Positions, KeyType
<1>2. /\ \E point \in {"create", "swap", "wait", "run", "release", "done", "failed", "dead"} :
            pc' = [pc EXCEPT ![c] = point]
      /\ \E i \in 1..Len(Wants[c]) : pos' = [pos EXCEPT ![c] = i]
  <2>1. pos = [pos EXCEPT ![c] = pos[c]] /\ pc = [pc EXCEPT ![c] = pc[c]]
    BY DEF TypeOK
  <2>2. CASE Acquired(c)
    <3>1. CASE pos[c] = Len(Wants[c])
      BY <1>1, <2>1, <2>2, <3>1 DEF Acquired, Goto
    <3>2. CASE pos[c] # Len(Wants[c])
      <4>1. pc' = [pc EXCEPT ![c] = "create"] /\ pos' = [pos EXCEPT ![c] = pos[c] + 1]
        BY <2>2, <3>2 DEF Acquired, Goto
      <4>2. pos[c] + 1 \in 1..Len(Wants[c])
        BY <1>1, <3>2
      <4> QED
        BY <4>1, <4>2
    <3> QED
      BY <3>1, <3>2
  <2>3. CASE Release(c)
    <3>1. CASE pos[c] = Len(Wants[c])
      BY <1>1, <2>1, <2>3, <3>1 DEF Release, Goto
    <3>2. CASE pos[c] # Len(Wants[c])
      <4>1. pc' = pc /\ pc[c] = "release" /\ pos' = [pos EXCEPT ![c] = pos[c] + 1]
        BY <2>3, <3>2 DEF Release
      <4>2. pos[c] + 1 \in 1..Len(Wants[c])
        BY <1>1, <3>2
      <4> QED
        BY <2>1, <4>1, <4>2
    <3> QED
      BY <3>1, <3>2
  <2>4. CASE Begin(c) \/ FunctionReturns(c)
    BY <1>1, <2>4 DEF Begin, FunctionReturns, Goto
  <2>5. CASE CreateRefused(c) \/ SwapRefused(c) \/ Retry(c) \/ GiveUp(c) \/ Crash(c)
    BY <1>1, <2>1, <2>5 DEF CreateRefused, SwapRefused, Retry, GiveUp, Crash, Goto
  <2> QED
    BY <2>2, <2>3, <2>4, <2>5 DEF Step, TryCreate, TrySwap
<1>3. use' \in [Keys -> Uses(Contents)] /\ \A k \in Keys : ~use'[k].ttl
  <2>1. Key(c) \in Keys /\ Permanent(Mine(c)) \in Uses(Contents) /\ ~Permanent(Mine(c)).ttl
    BY KeyType DEF Permanent, Uses
  <2>2. Free \in Uses(Contents) /\ ~Free.ttl
    BY DEF Free, Uses
  <2>3. CASE use' = use
    BY <2>3 DEF TypeOK
  <2>4. CASE use' = [use EXCEPT ![Key(c)] = Permanent(Mine(c))]
    BY <2>1, <2>4 DEF TypeOK
  <2>5. CASE Release(c)
    <3>1. AfterRemove(use[Key(c)], Mine(c), FALSE) \in {use[Key(c)], Free}
      BY DEF AfterRemove
    <3>2. use' = [use EXCEPT ![Key(c)] = AfterRemove(use[Key(c)], Mine(c), FALSE)]
      BY <2>5 DEF Release
    <3> QED
      BY <2>1, <2>2, <3>1, <3>2 DEF TypeOK
  <2> QED
    BY <2>3, <2>4, <2>5 DEF Begin, Step, Crash, TryCreate, CreateRefused, TrySwap,
                            SwapRefused, Retry, GiveUp, FunctionReturns, Acquired
<1>4. TypeOK'
  BY <1>2, <1>3 DEF TypeOK
<1>5. \A d \in Clients : d # c => Holding(d)' = Holding(d)
  BY <1>2 DEF Holding, TypeOK
<1> QED
  BY <1>4, <1>5
(* Only a key that MayExist is ever swapped. *)
LEMMA SwapsStep ==
    ASSUME TypeOK, SwapsMayExist, NEW c \in Clients, Begin(c) \/ Step(c) \/ Crash(c)
    PROVE  SwapsMayExist'
<1>1. ASSUME NEW d \in Clients, d # c, pc'[d] = "swap"
      PROVE  MayExist[Key(d)']
  <2>1. pc'[d] = pc[d] /\ pos'[d] = pos[d]
    BY <1>1 DEF Begin, Step, Crash, TryCreate, CreateRefused, TrySwap, SwapRefused,
                Retry, GiveUp, FunctionReturns, Release, Acquired, Goto, TypeOK
  <2> QED
    BY <1>1, <2>1 DEF SwapsMayExist, Key
<1>2. ASSUME pc'[c] = "swap"
      PROVE  MayExist[Key(c)']
  BY <1>2 DEF Begin, Step, Crash, TryCreate, CreateRefused, TrySwap, SwapRefused,
              Retry, GiveUp, FunctionReturns, Release, Acquired, Goto, TypeOK, Key
<1> QED
  BY <1>1, <1>2 DEF SwapsMayExist, Key

(* A step after which k is as before and nobody has locked it anew. *)
LEMMA KeyUntouched ==
    ASSUME NEW k \in Keys, KeyInv(k), use'[k] = use[k],
           \A d \in Clients : HoldsKey(d, k)' => HoldsKey(d, k)
    PROVE  KeyInv(k)'
BY DEF KeyInv

(* A step of a request keeps the invariant of a key that may not exist. *)
LEMMA KeyStep ==
    ASSUME NEW k \in Keys, ~MayExist[k], SafeKey(k),
           NEW c \in Clients, Begin(c) \/ Step(c) \/ Crash(c)
    PROVE  KeyInv(k)'
<1>1. /\ TypeOK /\ SwapsMayExist /\ KeyInv(k)
      /\ pos[c] \in 1..Len(Wants[c]) /\ Len(Wants[c]) \in Nat /\ Key(c) \in Keys
      /\ Key(c) = Wants[c][pos[c]] /\ Mine(c) = Content[c][Key(c)]
  BY Positions, KeyType DEF SafeKey
<1>2. \A d \in Clients : d # c => HoldsKey(d, k)' = HoldsKey(d, k)
  BY <1>1, HoldingStep DEF HoldsKey
<1>3. CASE TryCreate(c) \/ TrySwap(c)
  <2>1. /\ pc[c] \in {"create", "swap"}
        /\ use' = [use EXCEPT ![Key(c)] = Permanent(Mine(c))]
    BY <1>3 DEF TryCreate, TrySwap, Acquired
  <2>2. \A i \in Holding(c)' : i \in Holding(c) \/ i = pos[c]
    BY <1>1, <1>3, <2>1 DEF Holding, TypeOK, TryCreate, TrySwap, Acquired, Goto
  <2>3. CASE Key(c) # k
    <3>1. HoldsKey(c, k)' => HoldsKey(c, k)
      BY <1>1, <2>2, <2>3 DEF HoldsKey
    <3>2. use'[k] = use[k]
      BY <1>1, <2>1, <2>3 DEF TypeOK
    <3> QED
      BY <1>1, <1>2, <3>1, <3>2, KeyUntouched
  <2>4. CASE Key(c) = k
    <3>1. use[k].content = Absent
      BY <1>1, <1>3, <2>4 DEF TryCreate, TrySwap, CreateSucceeds, SwapsMayExist
    <3>2. \A d \in Clients : d # c => ~HoldsKey(d, k)
      <4> SUFFICES ASSUME NEW d \in Clients, HoldsKey(d, k) PROVE FALSE
        OBVIOUS
      <4>1. PICK i \in Holding(d) : Wants[d][i] = k
        BY DEF HoldsKey
      <4>2. Content[d][k] # Absent
        BY <4>1, Positions DEF Holding
      <4> QED
        BY <1>1, <3>1, <4>2 DEF KeyInv, HeldBy
    <3>3. HeldBy(use'[k], Content[c][k])
      BY <1>1, <2>1, <2>4 DEF TypeOK, HeldBy, Permanent
    <3> QED
      BY <1>2, <3>2, <3>3 DEF KeyInv
  <2> QED
    BY <2>3, <2>4
<1>4. CASE Release(c)
  <2>1. /\ pc[c] = "release"
        /\ use' = [use EXCEPT ![Key(c)] = AfterRemove(use[Key(c)], Mine(c), FALSE)]
    BY <1>4 DEF Release
  <2>2. \A i \in Holding(c)' : i \in Holding(c) /\ i # pos[c]
    BY <1>1, <1>4, <2>1 DEF Holding, TypeOK, Release, Goto
  <2>3. CASE Key(c) # k
    <3>1. HoldsKey(c, k)' => HoldsKey(c, k)
      BY <2>2 DEF HoldsKey
    <3>2. use'[k] = use[k]
      BY <1>1, <2>1, <2>3 DEF TypeOK
    <3> QED
      BY <1>1, <1>2, <3>1, <3>2, KeyUntouched
  <2>4. CASE Key(c) = k
    <3>0. pos[c] \in Holding(c)
      BY <1>1, <2>1 DEF Holding
    <3>1. HoldsKey(c, k)
      BY <1>1, <2>4, <3>0 DEF HoldsKey
    <3>2. ~HoldsKey(c, k)'
      <4> SUFFICES ASSUME NEW i \in Holding(c)', Wants[c][i] = k PROVE FALSE
        BY DEF HoldsKey
      <4>1. i \in 1..Len(Wants[c]) /\ i # pos[c]
        BY <2>2 DEF Holding
      <4> QED
        BY <1>1, <2>4, <4>1, DistinctPositions
    <3>3. \A d \in Clients : ~HoldsKey(d, k)'
      BY <1>1, <1>2, <3>1, <3>2 DEF KeyInv
    <3> QED
      BY <3>3 DEF KeyInv
  <2> QED
    BY <2>3, <2>4
<1>5. CASE Begin(c) \/ CreateRefused(c) \/ SwapRefused(c) \/ Retry(c) \/ GiveUp(c)
           \/ FunctionReturns(c) \/ Crash(c)
  <2>1. use' = use
    BY <1>5 DEF Begin, CreateRefused, SwapRefused, Retry, GiveUp, FunctionReturns, Crash
  <2>2. Holding(c)' \subseteq Holding(c)
    BY <1>1, <1>5 DEF Holding, TypeOK, Begin, CreateRefused, SwapRefused, Retry, GiveUp,
                      FunctionReturns, Crash, Goto
  <2>3. HoldsKey(c, k)' => HoldsKey(c, k)
    BY <2>2 DEF HoldsKey
  <2> QED
    BY <1>1, <1>2, <2>1, <2>3, KeyUntouched
<1> QED
  BY <1>3, <1>4, <1>5 DEF Step
(* handleForceRemoveLock removes the mount lock and touches no other. *)
LEMMA ForceKeepsKey ==
    ASSUME NEW k \in Keys, k # MountKey, SafeKey(k), ForceUnlocks
    PROVE  SafeKey(k)'
<1>1. /\ use' = [use EXCEPT ![MountKey] = AfterRemove(use[MountKey], Absent, TRUE)]
      /\ pc' = pc /\ pos' = pos
  BY DEF ForceUnlocks
<1>2. AfterRemove(use[MountKey], Absent, TRUE) \in {use[MountKey], Free}
  BY DEF AfterRemove
<1>3. Free \in Uses(Contents) /\ ~Free.ttl
  BY DEF Free, Uses
<1>4. TypeOK'
  BY <1>1, <1>2, <1>3, LifeAssumption DEF SafeKey, TypeOK
<1>5. SwapsMayExist'
  BY <1>1 DEF SafeKey, SwapsMayExist, Key
<1>6. use'[k] = use[k] /\ \A d \in Clients : HoldsKey(d, k)' = HoldsKey(d, k)
  BY <1>1, LifeAssumption DEF SafeKey, TypeOK, HoldsKey, Holding
<1> QED
  BY <1>4, <1>5, <1>6, KeyUntouched DEF SafeKey

(* Every step of every request, forced ones included, keeps the invariant  *)
(* of a key that may not exist and is not the mount lock.                  *)
LEMMA SafeKeyNext ==
    ASSUME NEW k \in Keys, k # MountKey, ~MayExist[k], SafeKey(k), [LifeNext]_allVars
    PROVE  SafeKey(k)'
<1>1. ASSUME NEW c \in Clients, Begin(c) \/ Step(c) \/ Crash(c)
      PROVE  SafeKey(k)'
  BY <1>1, HoldingStep, SwapsStep, KeyStep DEF SafeKey
<1>2. CASE UNCHANGED vars
  BY <1>2 DEF vars, SafeKey, TypeOK, SwapsMayExist, Key, KeyInv, HoldsKey, Holding
<1>3. ASSUME NEW c \in Clients,
             Arrive(c) \/ LockStep(c) \/ FunctionStep(c) \/ Return(c) \/ Die(c) \/ ArriveForced(c)
      PROVE  SafeKey(k)'
  <2>1. CASE Arrive(c) \/ ArriveForced(c) \/ LockStep(c) \/ Return(c) \/ Die(c)
    BY <1>1, <2>1 DEF Arrive, ArriveForced, LockStep, Return, Die, Step
  <2>2. CASE FunctionStep(c)
    BY <1>2, <2>2 DEF FunctionStep, CreateImage, FormatImage, CleanupImage,
       PublishRecord, PublishRuntime, CloneImage, CheckImage, DestroyImage, RemoveRecord,
       MountImage, UnmountImage
  <2> QED
    BY <1>3, <2>1, <2>2
<1>4. ASSUME UploadReads \/ UploadWrites \/ DropRecord \/ ForceChecks \/ ForceDestroys
             \/ ForceRemovesRecord
      PROVE  SafeKey(k)'
  BY <1>2, <1>4 DEF UploadReads, UploadWrites, DropRecord, ForceChecks, ForceDestroys,
                    ForceRemovesRecord
<1>5. CASE UNCHANGED allVars
  BY <1>2, <1>5 DEF allVars
<1> QED
  BY <1>3, <1>4, <1>5, ForceKeepsKey DEF LifeNext, ForceStep

(* Creations, copies and removals of a volume never run at the same time,  *)
(* whatever fails and whatever operators force, because all of them lock   *)
(* one key that may not exist: the snapshot lock of the volume.            *)
THEOREM WritersExcludeHolds ==
    ASSUME NEW k \in Keys, k # MountKey, ~MayExist[k],
           \A c \in Clients : Kind[c] # "mount" => \E i \in 1..Len(Wants[c]) : Wants[c][i] = k
    PROVE  LifeSpec => []WritersExclude
<1>1. LifeInit => SafeKey(k)
  <2> SUFFICES ASSUME LifeInit PROVE SafeKey(k)
    OBVIOUS
  <2>1. LockInv
    BY LockInit DEF LifeInit
  <2>2. \A c \in Clients : Holding(c) = {}
    BY DEF LifeInit, Init, Holding
  <2> QED
    BY <2>1, <2>2 DEF LockInv, SafeKey, KeyInv, HoldsKey
<1>2. SafeKey(k) /\ [LifeNext]_allVars => SafeKey(k)'
  BY SafeKeyNext
<1>3. SafeKey(k) => WritersExclude
  <2> SUFFICES ASSUME SafeKey(k), NEW c1 \in Writers, NEW c2 \in Writers
               PROVE  c1 = c2
    BY DEF WritersExclude
  <2>1. \A c \in Writers : c \in Clients /\ HoldsKey(c, k)
    BY DEF Writers, HoldsKey, Holding
  <2> QED
    BY <2>1 DEF SafeKey, KeyInv
<1> QED
  BY <1>1, <1>2, <1>3, PTL DEF LifeSpec
--------------------------------------------------------------------------------
(* What the mount lock makes of the steps on the record and on the image.  *)

(* The environment of the theorems below: no operator forces anything, no  *)
(* handleRuntimeUpload writes without a lock, the commands that undo or    *)
(* complete a request do not fail halfway, and what is copied has images.  *)
(* Writes of the record may fail.                                          *)
Calm ==
    /\ DistinctContents
    /\ ~Forced /\ ~Upload
    /\ Faults \cap {"timeout", "clone", "destroy", "delete"} = {}
    /\ \A c \in Clients : Kind[c] = "copy" => HasCRUD

Gone == keys = {} /\ image = "none"
Whole == keys = Full /\ image = (IF HasCRUD THEN "ok" ELSE "none")

(* What an error of etcd in PublishVolume leaves of the record.            *)
HalfPublished == unpublished /\ keys \in {{}, {"create"}, Full}

(* What a request leaves behind: all, nothing, or what could be published. *)
Complete == image = "none" \/ (image = "ok" /\ HasCRUD)
Consistent == Gone \/ Whole \/ (HalfPublished /\ Complete)

(* What c's function has made of the volume when at[c] is its next step.   *)
Midway(c) ==
    \/ Kind[c] = "create" /\ at[c] = "image" /\ HasCRUD /\ Consistent
    \/ Kind[c] = "create" /\ at[c] \in {"format", "cleanup"} /\ HasCRUD /\ image = "raw"
                          /\ (keys = {} \/ HalfPublished)
    \/ Kind[c] = "create" /\ at[c] = "publish" /\ HasCRUD /\ image = "ok"
                          /\ (keys = {} \/ HalfPublished)
    \/ Kind[c] = "create" /\ at[c] = "publish" /\ ~HasCRUD /\ Consistent
    \/ Kind[c] = "create" /\ at[c] = "runtime" /\ keys = {"create"}
                          /\ image = (IF HasCRUD THEN "ok" ELSE "none")
    \/ Kind[c] = "copy" /\ at[c] = "publish" /\ Consistent
    \/ Kind[c] = "copy" /\ at[c] = "runtime" /\ keys = {"create"}
                        /\ (image = "none" \/ (unpublished /\ image = "ok"))
    \/ Kind[c] = "copy" /\ at[c] = "clone" /\ keys = Full
                        /\ (image = "none" \/ (unpublished /\ image = "ok"))
    \/ Kind[c] = "remove" /\ at[c] = "exists" /\ Consistent
    \/ Kind[c] = "remove" /\ at[c] = "destroy" /\ HasCRUD /\ Consistent
    \/ Kind[c] = "remove" /\ at[c] \in {"record", "gone"} /\ image = "none"
                          /\ (keys \in {{}, Full} \/ HalfPublished)
    \/ Kind[c] = "mount" /\ at[c] = "mount" /\ Consistent
    \/ Kind[c] = "mount" /\ at[c] = "using" /\ Consistent /\ (HasCRUD => image = "ok")
    \/ at[c] = "error" /\ Consistent
    \/ at[c] = "ok" /\ Consistent /\ (Kind[c] = "create" => Readable \/ unpublished)
                    /\ (Kind[c] = "remove" => image = "none")

HasMountLock(c) == 1 \in Holding(c)

(* c died with the mount lock, which nobody can have any more. *)
Abandoned(c) ==
    /\ pc[c] = "dead"
    /\ HeldBy(use[MountKey], Content[c][MountKey])
    /\ \A d \in Clients : ~HasMountLock(d)

(* The volume is whole, or not there, or could not be published, unless    *)
(* somebody has the mount lock for good or works on the volume, and then   *)
(* it is as that work stands.                                              *)
LifeInv ==
    /\ LockInv
    /\ NotForced /\ ~upload
    /\ at \in [Clients -> Steps]
    /\ \A c \in Clients : pc[c] \in {"create", "swap", "wait"} => at[c] = FirstStep(c)
    /\ \A c \in Clients : pc[c] = "run" => Midway(c)
    /\ Consistent \/ \E c \in Clients : pc[c] = "run" \/ Abandoned(c)

(* Who has the mount lock has written it, alone; who runs has it.          *)
LEMMA MountLockFacts ==
    ASSUME LockInv
    PROVE  /\ \A c \in Clients : Content[c][MountKey] # Absent
           /\ \A c \in Clients : HasMountLock(c) => HeldBy(use[MountKey], Content[c][MountKey])
           /\ \A c, d \in Clients : HasMountLock(c) /\ HasMountLock(d) => c = d
           /\ \A c \in Clients : pc[c] = "run" => HasMountLock(c)
<1>1. \A c \in Clients : 1 \in 1..Len(Wants[c]) /\ Wants[c][1] = MountKey
  BY Positions, LifeAssumption
<1>2. \A c \in Clients : Content[c][MountKey] # Absent
  BY <1>1, Positions
<1>3. \A c \in Clients : HasMountLock(c) => HeldBy(use[MountKey], Content[c][MountKey])
  BY <1>1 DEF LockInv, HeldIsWritten, HasMountLock
<1>4. \A c, d \in Clients : HasMountLock(c) /\ HasMountLock(d) => c = d
  BY <1>1 DEF LockInv, HeldByOne, HasMountLock
<1>5. \A c \in Clients : pc[c] = "run" => HasMountLock(c)
  BY <1>1 DEF HasMountLock, Holding
<1> QED BY <1>2, <1>3, <1>4, <1>5

(* While nobody works on the volume and nobody died on it, it is whole or  *)
(* not there: for the next request that gets the mount lock.               *)
LEMMA FirstStepIsMidway ==
    ASSUME Consistent, NEW c \in Clients, at[c] = FirstStep(c)
    PROVE  Midway(c)
BY LifeAssumption DEF Midway, FirstStep

(* The steps of a function, alone on the volume.                           *)
LEMMA FunctionKeepsMidway ==
    ASSUME Calm, at \in [Clients -> Steps], NEW c \in Clients, pc[c] = "run", Midway(c),
           \A d \in Clients : pc[d] = "run" => d = c,
           FunctionStep(c)
    PROVE  Midway(c)' /\ at' \in [Clients -> Steps]
<1> USE DEF Runs, Do
<1>1. ~Fails("timeout") /\ ~Fails("clone") /\ ~Fails("destroy") /\ ~Fails("delete")
  BY DEF Calm, Fails
<1>2. Kind[c] = "copy" => HasCRUD
  BY DEF Calm
<1>3. at[c] # "using" => Using = {}
  BY DEF Using
<1>4. ASSUME NEW step \in Steps, at' = [at EXCEPT ![c] = step]
      PROVE  at'[c] = step /\ at' \in [Clients -> Steps]
  BY <1>4
<1> USE DEF HalfPublished, Complete
<1>5. CASE CreateImage(c)
  <2>1. at[c] = "image" /\ Kind[c] = "create" /\ HasCRUD /\ Consistent /\ UNCHANGED <<keys, unpublished>>
    BY <1>5 DEF CreateImage, Midway
  <2>2. CASE image = "none" /\ image' = "raw" /\ at' = [at EXCEPT ![c] = "format"]
    <3>1. keys = {} \/ HalfPublished
      BY <2>1, <2>2 DEF Consistent, Gone, Whole
    <3> QED BY <1>4, <2>1, <2>2, <3>1 DEF Midway, Steps
  <2>3. CASE UNCHANGED image /\ at' = [at EXCEPT ![c] = "error"]
    BY <1>4, <2>1, <2>3 DEF Midway, Consistent, Gone, Whole, Steps
  <2> QED BY <1>1, <1>5, <2>2, <2>3 DEF CreateImage
<1>6. CASE FormatImage(c)
  <2>1. /\ at[c] = "format" /\ Kind[c] = "create" /\ HasCRUD /\ image = "raw"
        /\ keys = {} \/ HalfPublished
        /\ UNCHANGED <<keys, unpublished>>
    BY <1>6 DEF FormatImage, Midway
  <2> QED BY <1>4, <1>6, <2>1 DEF FormatImage, Midway, Steps
<1>7. CASE CleanupImage(c)
  <2>1. /\ at[c] = "cleanup" /\ image' = "none" /\ UNCHANGED <<keys, unpublished>>
        /\ keys = {} \/ HalfPublished
    BY <1>1, <1>3, <1>7 DEF CleanupImage, Midway, Destroyed
  <2> QED BY <1>4, <1>7, <2>1 DEF CleanupImage, Midway, Consistent, Gone, Steps
<1>8. CASE PublishRecord(c)
  <2>1. /\ at[c] = "publish" /\ UNCHANGED image
        /\ \/ Kind[c] = "create" /\ HasCRUD /\ image = "ok" /\ (keys = {} \/ HalfPublished)
           \/ Kind[c] = "create" /\ ~HasCRUD /\ Consistent
           \/ Kind[c] = "copy" /\ HasCRUD /\ Consistent
    BY <1>2, <1>8 DEF PublishRecord, Midway
  <2>2. /\ Kind[c] \in {"create", "copy"} /\ Complete /\ UNCHANGED image
        /\ keys \in {{}, {"create"}, Full} /\ (keys = {"create"} => unpublished)
        /\ keys = Full => Whole \/ unpublished
        /\ Kind[c] = "create" => image = (IF HasCRUD THEN "ok" ELSE "none")
        /\ Kind[c] = "copy" /\ keys = {} => (image = "none" \/ (unpublished /\ image = "ok"))
    BY <2>1 DEF Consistent, Gone, Whole, Full
  <2>3. CASE "create" \notin keys /\ keys' = keys \cup {"create"} /\ UNCHANGED unpublished
             /\ at' = [at EXCEPT ![c] = "runtime"]
    <3>1. keys = {} /\ keys' = {"create"}
      BY <2>2, <2>3 DEF Full
    <3> QED BY <1>4, <2>2, <2>3, <3>1 DEF Midway, Steps
  <2>4. CASE /\ keys' = keys \/ keys' = keys \cup {"create"}
             /\ at' = [at EXCEPT ![c] = IF Kind[c] = "create" THEN "ok" ELSE "error"]
             /\ unpublished' = (unpublished \/ "create" \notin keys)
    <3>1. keys' \in {{}, {"create"}, Full} /\ ("create" \in keys => keys' = keys)
      BY <2>2, <2>4 DEF Full
    <3>2. CASE unpublished'
      <4>1. Consistent'
        BY <2>2, <3>1, <3>2 DEF Consistent
      <4> QED BY <1>4, <2>2, <2>4, <3>2, <4>1 DEF Midway, Steps
    <3>3. CASE ~unpublished' /\ "create" \in keys /\ ~unpublished
      <4>1. keys = Full /\ Whole /\ Whole'
        BY <2>2, <3>1, <3>3 DEF Whole
      <4> QED BY <1>4, <2>2, <2>4, <4>1 DEF Midway, Consistent, Whole, Readable, Steps
    <3> QED BY <2>4, <3>2, <3>3
  <2> QED BY <1>8, <2>3, <2>4 DEF PublishRecord
<1>9. CASE PublishRuntime(c)
  <2>1. /\ at[c] = "runtime" /\ keys = {"create"} /\ UNCHANGED image
        /\ \/ Kind[c] = "create" /\ image = (IF HasCRUD THEN "ok" ELSE "none")
           \/ Kind[c] = "copy" /\ HasCRUD /\ (image = "none" \/ (unpublished /\ image = "ok"))
    BY <1>2, <1>9 DEF PublishRuntime, Midway
  <2>2. CASE /\ keys' = keys \cup {"runtime"} /\ UNCHANGED unpublished
             /\ at' = [at EXCEPT ![c] = IF Kind[c] = "create" THEN "ok" ELSE "clone"]
    <3>1. keys' = Full
      BY <2>1, <2>2 DEF Full
    <3> QED BY <1>4, <2>1, <2>2, <3>1 DEF Midway, Consistent, Whole, Readable, Steps
  <2>3. CASE /\ keys' \in {keys, keys \cup {"runtime"}} /\ unpublished' = TRUE
             /\ at' = [at EXCEPT ![c] = "error"]
    <3>1. HalfPublished'
      BY <2>1, <2>3 DEF Full
    <3>2. Complete'
      BY <2>1
    <3>3. Consistent'
      BY <3>1, <3>2 DEF Consistent
    <3> QED BY <1>4, <2>3, <3>3 DEF Midway, Steps
  <2> QED BY <1>9, <2>2, <2>3 DEF PublishRuntime
<1>10. CASE CloneImage(c)
  <2>1. /\ at[c] = "clone" /\ Kind[c] = "copy" /\ keys = Full /\ UNCHANGED <<keys, unpublished>>
        /\ image = "none" \/ (unpublished /\ image = "ok")
    BY <1>10 DEF CloneImage, Midway
  <2>2. image' = "ok" /\ (at' = [at EXCEPT ![c] = "ok"] \/ at' = [at EXCEPT ![c] = "error"])
    BY <1>1, <1>10, <2>1 DEF CloneImage
  <2>3. Whole'
    BY <1>2, <2>1, <2>2 DEF Whole
  <2> QED BY <1>4, <2>1, <2>2, <2>3 DEF Midway, Consistent, Steps
<1>11. CASE CheckImage(c)
  <2>1. at[c] = "exists" /\ Kind[c] = "remove" /\ Consistent /\ UNCHANGED <<keys, image, unpublished>>
    BY <1>11 DEF CheckImage, Midway
  <2>2. Consistent'
    BY <2>1 DEF Consistent, Gone, Whole
  <2>3. CASE at' = [at EXCEPT ![c] = "error"]
    BY <1>4, <2>2, <2>3 DEF Midway, Steps
  <2>4. CASE ~HasCRUD /\ at' = [at EXCEPT ![c] = "record"]
    BY <1>4, <2>1, <2>4 DEF Midway, Consistent, Gone, Whole, Steps
  <2>5. CASE HasCRUD /\ at' = [at EXCEPT ![c] = IF image = "none" THEN "gone" ELSE "destroy"]
    <3>1. image = "none" => keys \in {{}, Full} \/ HalfPublished
      BY <2>1 DEF Consistent, Gone, Whole
    <3> QED BY <1>4, <2>1, <2>2, <2>5, <3>1 DEF Midway, Steps
  <2> QED BY <1>11, <2>3, <2>4, <2>5 DEF CheckImage
<1>12. CASE DestroyImage(c)
  <2>1. /\ at[c] = "destroy" /\ Kind[c] = "remove" /\ Consistent /\ image' = "none"
        /\ UNCHANGED <<keys, unpublished>> /\ at' = [at EXCEPT ![c] = "record"]
    BY <1>1, <1>3, <1>12 DEF DestroyImage, Midway, Destroyed
  <2>2. keys \in {{}, Full} \/ HalfPublished
    BY <2>1 DEF Consistent, Gone, Whole
  <2> QED BY <1>4, <2>1, <2>2 DEF Midway, Steps
<1>13. CASE RemoveRecord(c)
  <2>1. Kind[c] = "remove" /\ image = "none" /\ keys' = {} /\ UNCHANGED image
    BY <1>1, <1>13 DEF RemoveRecord, Midway
  <2>2. at' = [at EXCEPT ![c] = "ok"] \/ at' = [at EXCEPT ![c] = "error"]
    BY <1>1, <1>13 DEF RemoveRecord
  <2>3. Gone'
    BY <2>1 DEF Gone
  <2> QED BY <1>4, <2>1, <2>2, <2>3 DEF Midway, Consistent, Gone, Steps
<1>14. CASE MountImage(c)
  <2>1. at[c] = "mount" /\ Kind[c] = "mount" /\ Consistent /\ UNCHANGED <<keys, image, unpublished>>
    BY <1>14 DEF MountImage, Midway
  <2>2. Consistent'
    BY <2>1 DEF Consistent, Gone, Whole
  <2>3. CASE (HasCRUD => image = "ok") /\ at' = [at EXCEPT ![c] = "using"]
    BY <1>4, <2>1, <2>2, <2>3 DEF Midway, Steps
  <2>4. CASE at' = [at EXCEPT ![c] = "error"]
    BY <1>4, <2>2, <2>4 DEF Midway, Steps
  <2> QED BY <1>14, <2>3, <2>4 DEF MountImage
<1>15. CASE UnmountImage(c)
  <2>1. at[c] = "using" /\ Kind[c] = "mount" /\ Consistent /\ UNCHANGED <<keys, image, unpublished>>
    BY <1>15 DEF UnmountImage, Midway
  <2>2. Consistent'
    BY <2>1 DEF Consistent, Gone, Whole
  <2> QED BY <1>4, <1>15, <2>1, <2>2 DEF UnmountImage, Midway, Steps
<1> QED BY <1>5, <1>6, <1>7, <1>8, <1>9, <1>10, <1>11, <1>12, <1>13, <1>14, <1>15 DEF FunctionStep

(* A step of a function changes nothing for the others.                    *)
LEMMA FunctionKeepsLife ==
    ASSUME Calm, LifeInv, LockInv', NotForced', NEW c \in Clients, FunctionStep(c)
    PROVE  LifeInv'
<1>1. UNCHANGED <<use, pc, pos, upload>> /\ pc[c] = "run"
  BY DEF FunctionStep, CreateImage, FormatImage, CleanupImage, PublishRecord, PublishRuntime,
         CloneImage, CheckImage, DestroyImage, RemoveRecord, MountImage, UnmountImage, Runs, vars
<1>2. \A d \in Clients : pc[d] = "run" => d = c
  BY <1>1, MountLockFacts DEF LifeInv
<1>3. Midway(c)' /\ at' \in [Clients -> Steps]
  BY <1>1, <1>2, FunctionKeepsMidway DEF LifeInv
<1>4. \A d \in Clients : d # c => at'[d] = at[d]
  BY DEF LifeInv, FunctionStep, CreateImage, FormatImage, CleanupImage, PublishRecord, PublishRuntime,
         CloneImage, CheckImage, DestroyImage, RemoveRecord, MountImage, UnmountImage, Do
<1>5. \A d \in Clients : pc'[d] \in {"create", "swap", "wait"} => at'[d] = FirstStep(d)
  BY <1>1, <1>4 DEF LifeInv
<1>6. \A d \in Clients : pc'[d] = "run" => Midway(d)'
  BY <1>1, <1>2, <1>3
<1>7. \E d \in Clients : pc'[d] = "run"
  BY <1>1
<1>8. NotForced' /\ ~upload'
  BY <1>1 DEF LifeInv
<1> QED BY <1>3, <1>5, <1>6, <1>7, <1>8 DEF LifeInv

(* What a step on the locks may change: the pc of one request.             *)
LEMMA LockStepShape ==
    ASSUME TypeOK, NEW c \in Clients, Begin(c) \/ Step(c) \/ Crash(c)
    PROVE  /\ \A d \in Clients : d # c => pc'[d] = pc[d]
           /\ pc'[c] \in {"create", "swap", "wait"} =>
                pc[c] \in {"create", "swap", "wait"} \/ Begin(c)
           /\ pc'[c] = "run" => (TryCreate(c) \/ TrySwap(c)) /\ pos[c] = Len(Wants[c])
           /\ pc[c] = "run" => FunctionReturns(c) \/ Crash(c)
BY DEF Begin, Step, Crash, TryCreate, CreateRefused, TrySwap, SwapRefused, Retry, GiveUp,
       FunctionReturns, Release, Acquired, Goto, TypeOK

(* Nobody takes over or removes the mount lock of a request that died.     *)
LEMMA AbandonedStays ==
    ASSUME DistinctContents, LockInv, NEW a \in Clients, Abandoned(a),
           NEW c \in Clients, Begin(c) \/ Step(c) \/ Crash(c)
    PROVE  Abandoned(a)'
<1>1. TypeOK /\ pc[a] = "dead" /\ Content[a][MountKey] # Absent /\ MountKey \in Keys
      /\ use[MountKey].content = Content[a][MountKey] /\ ~HasMountLock(c)
  BY MountLockFacts, LifeAssumption DEF LockInv, Abandoned, HeldBy
<1>2. c # a
  BY <1>1 DEF Begin, Step, Crash, TryCreate, CreateRefused, TrySwap, SwapRefused, Retry, GiveUp,
              FunctionReturns, Release
<1>3. /\ pos[c] \in 1..Len(Wants[c]) /\ Len(Wants[c]) \in Nat /\ Len(Wants[c]) >= 1
      /\ Key(c) \in Keys /\ Key(c) = Wants[c][pos[c]] /\ Mine(c) = Content[c][Key(c)]
      /\ Wants[c][1] = MountKey
  BY <1>1, KeyType, Positions, LifeAssumption
<1>4. CASE TryCreate(c) \/ TrySwap(c)
  <2>1. Key(c) # MountKey
    <3>1. CASE TryCreate(c)
      BY <1>1, <3>1 DEF TryCreate, CreateSucceeds
    <3>2. CASE TrySwap(c)
      BY <1>1, <1>2, <1>3, <3>2
         DEF TrySwap, SwapSucceeds, HeldBy, DistinctContents, LockInv, SwapsMayExist
    <3> QED BY <1>4, <3>1, <3>2
  <2>2. pos[c] # 1
    BY <1>3, <2>1
  <2>3. 1 \in Holding(c)
    BY <1>3, <1>4, <2>2 DEF TryCreate, TrySwap, Holding
  <2> QED BY <1>1, <2>3 DEF HasMountLock
<1>5. CASE Release(c)
  <2>1. pos[c] # 1
    BY <1>1, <1>3, <1>5 DEF Release, Holding, HasMountLock
  <2>2. Key(c) # MountKey
    BY <1>3, <2>1, DistinctPositions
  <2>3. use'[MountKey] = use[MountKey]
    BY <1>1, <1>3, <1>5, <2>2 DEF Release, TypeOK
  <2>4. Holding(c)' \subseteq Holding(c)
    BY <1>1, <1>3, <1>5 DEF Release, Holding, Goto, TypeOK
  <2>5. \A d \in Clients : ~HasMountLock(d)'
    BY <1>1, <2>4, HoldingStep DEF Abandoned, HasMountLock
  <2> QED BY <1>1, <1>2, <2>3, <2>5, LockStepShape DEF Abandoned, HeldBy
<1>6. CASE ~(TryCreate(c) \/ TrySwap(c) \/ Release(c))
  <2>1. use' = use
    BY <1>6 DEF Begin, Step, Crash, CreateRefused, SwapRefused, Retry, GiveUp, FunctionReturns
  <2>2. Holding(c)' \subseteq Holding(c)
    BY <1>1, <1>3, <1>6 DEF Begin, Step, Crash, CreateRefused, SwapRefused, Retry, GiveUp,
                            FunctionReturns, Holding, Goto, TypeOK
  <2>3. \A d \in Clients : ~HasMountLock(d)'
    BY <1>1, <2>2, HoldingStep DEF Abandoned, HasMountLock
  <2> QED BY <1>1, <1>2, <2>1, <2>3, LockStepShape DEF Abandoned, HeldBy
<1> QED BY <1>4, <1>5, <1>6

(* A request that gets the last of its locks finds nobody at work.         *)
LEMMA AcquiredIsConsistent ==
    ASSUME DistinctContents, LifeInv, NEW c \in Clients, TryCreate(c) \/ TrySwap(c),
           pos[c] = Len(Wants[c]), LockInv', pc'[c] = "run"
    PROVE  Consistent /\ \A d \in Clients : pc[d] # "run"
<1>0. \A d \in Clients : Wants[d][1] = MountKey /\ (pc'[d] = "run" => HasMountLock(d)')
  BY Positions, LifeAssumption DEF HasMountLock, Holding
<1>1. LockInv /\ TypeOK
  BY DEF LifeInv, LockInv
<1>2. \A d \in Clients : pc[d] # "run"
  <2> SUFFICES ASSUME NEW d \in Clients, pc[d] = "run" PROVE FALSE
    OBVIOUS
  <2>1. d # c
    BY DEF TryCreate, TrySwap
  <2>2. pc'[d] = "run"
    BY <1>1, <2>1, LockStepShape DEF Step
  <2>3. HasMountLock(d)' /\ HasMountLock(c)'
    BY <1>0, <2>2
  <2> QED BY <1>0, <2>1, <2>3 DEF HasMountLock, LockInv, HeldByOne
<1>3. \A a \in Clients : ~Abandoned(a)
  <2> SUFFICES ASSUME NEW a \in Clients, Abandoned(a) PROVE FALSE
    OBVIOUS
  <2>1. Abandoned(a)'
    BY <1>1, AbandonedStays DEF Step
  <2>2. HasMountLock(c)'
    BY <1>0
  <2> QED BY <2>1, <2>2 DEF Abandoned
<1> QED BY <1>2, <1>3 DEF LifeInv

(* The steps on the locks.                                                 *)
LEMMA LockKeepsLife ==
    ASSUME DistinctContents, LifeInv, LockInv', NotForced', ~upload', UNCHANGED <<keys, image, unpublished>>,
           at' \in [Clients -> Steps],
           NEW c \in Clients, Begin(c) \/ Step(c) \/ Crash(c),
           \A d \in Clients : d # c => at'[d] = at[d],
           IF Begin(c) THEN at'[c] = FirstStep(c) ELSE at'[c] = at[c] \/ Crash(c),
           FunctionReturns(c) => at[c] \in {"ok", "error"}
    PROVE  LifeInv'
<1>1. LockInv /\ TypeOK /\ at \in [Clients -> Steps]
  BY DEF LifeInv, LockInv
<1>2. (Consistent => Consistent') /\ \A d \in Clients : Midway(d) /\ at'[d] = at[d] => Midway(d)'
  BY DEF Consistent, Gone, Whole, Midway, HalfPublished, Complete, Readable
<1>3. \A d \in Clients : pc'[d] \in {"create", "swap", "wait"} => at'[d] = FirstStep(d)
  <2>1. ~Crash(c) \/ pc'[c] = "dead"
    BY <1>1 DEF Crash, Goto, TypeOK
  <2> QED BY <1>1, <2>1, LockStepShape DEF LifeInv
<1>4. \A d \in Clients : pc'[d] = "run" => Midway(d)'
  <2> SUFFICES ASSUME NEW d \in Clients, pc'[d] = "run" PROVE Midway(d)'
    OBVIOUS
  <2>1. CASE d # c
    BY <1>1, <1>2, <2>1, LockStepShape DEF LifeInv
  <2>2. CASE d = c
    <3>1. (TryCreate(c) \/ TrySwap(c)) /\ pos[c] = Len(Wants[c]) /\ pc[c] \in {"create", "swap"}
      BY <1>1, <2>2, LockStepShape DEF TryCreate, TrySwap
    <3>2. ~Begin(c) /\ ~Crash(c)
      BY <1>1, <2>2 DEF Begin, Crash, Goto, TypeOK
    <3>3. at'[c] = at[c] /\ at[c] = FirstStep(c)
      BY <3>1, <3>2 DEF LifeInv
    <3>4. Midway(c)
      BY <2>2, <3>1, <3>3, AcquiredIsConsistent, FirstStepIsMidway
    <3> QED BY <1>2, <2>2, <3>3, <3>4
  <2> QED BY <2>1, <2>2
<1>5. Consistent' \/ \E d \in Clients : pc'[d] = "run" \/ Abandoned(d)'
  <2>1. CASE Consistent
    BY <1>2, <2>1
  <2>2. ASSUME NEW a \in Clients, Abandoned(a)
        PROVE  \E d \in Clients : Abandoned(d)'
    BY <1>1, <2>2, AbandonedStays
  <2>3. ASSUME NEW d \in Clients, pc[d] = "run"
        PROVE  Consistent' \/ \E e \in Clients : pc'[e] = "run" \/ Abandoned(e)'
    <3>1. CASE d # c
      BY <1>1, <2>3, <3>1, LockStepShape
    <3>2. CASE d = c /\ FunctionReturns(c)
      <4>1. Consistent
        BY <2>3, <3>2 DEF LifeInv, Midway
      <4> QED BY <1>2, <4>1
    <3>3. CASE d = c /\ Crash(c)
      <4>1. pc'[c] = "dead" /\ use' = use
        BY <1>1, <3>3 DEF Crash, Goto, TypeOK
      <4>2. HasMountLock(c) /\ HeldBy(use[MountKey], Content[c][MountKey])
            /\ \A e \in Clients : HasMountLock(e) => e = c
        BY <1>1, <2>3, <3>3, MountLockFacts
      <4>3. ~HasMountLock(c)'
        BY <4>1 DEF HasMountLock, Holding
      <4>4. \A e \in Clients : ~HasMountLock(e)'
        BY <1>1, <4>2, <4>3, HoldingStep DEF HasMountLock
      <4>5. HeldBy(use[MountKey], Content[c][MountKey])'
        BY <4>1, <4>2 DEF HeldBy
      <4>6. Abandoned(c)'
        BY <4>1, <4>4, <4>5 DEF Abandoned
      <4> QED BY <4>6
    <3> QED BY <1>1, <2>3, <3>1, <3>2, <3>3, LockStepShape
  <2> QED BY <2>1, <2>2, <2>3 DEF LifeInv
<1> QED BY <1>3, <1>4, <1>5 DEF LifeInv

LEMMA LifeInitial == LifeInit => LifeInv
<1> SUFFICES ASSUME LifeInit PROVE LifeInv
  OBVIOUS
<1>1. LockInv
  BY LockInit DEF LifeInit
<1>2. Consistent
  BY LifeAssumption DEF LifeInit, Consistent, Gone, Whole
<1>3. NotForced /\ ~upload /\ at \in [Clients -> Steps] /\ \A c \in Clients : pc[c] = "idle"
  BY DEF LifeInit, Init, NotForced, Steps
<1> QED BY <1>1, <1>2, <1>3 DEF LifeInv

LEMMA LifeStep ==
    ASSUME Calm, LifeInv, [LifeNext]_allVars
    PROVE  LifeInv'
<1>1. /\ LockInv /\ TypeOK /\ NotForced /\ ~upload /\ at \in [Clients -> Steps]
      /\ DistinctContents /\ Forced = FALSE /\ Upload = FALSE
  BY LifeAssumption DEF LifeInv, LockInv, Calm
<1>2. LockInv' /\ NotForced'
  BY <1>1, LifeStepIsLockStep, LockNext
<1>3. ASSUME NEW c \in Clients, Arrive(c)
      PROVE  LifeInv'
  <2>1. /\ Begin(c) /\ at' = [at EXCEPT ![c] = FirstStep(c)] /\ UNCHANGED <<keys, image, upload, unpublished>>
        /\ ~FunctionReturns(c)
    BY <1>3 DEF Arrive, Do, Begin, FunctionReturns
  <2>2. FirstStep(c) \in Steps
    BY LifeAssumption DEF FirstStep, Steps
  <2> QED BY <1>1, <1>2, <2>1, <2>2, LockKeepsLife
<1>4. ASSUME NEW c \in Clients, LockStep(c) \/ Return(c)
      PROVE  LifeInv'
  <2>1. /\ Step(c) /\ UNCHANGED <<keys, image, at, upload, unpublished>>
        /\ FunctionReturns(c) => at[c] \in {"ok", "error"}
    BY <1>1, <1>4 DEF LockStep, Return, Step, life, TryCreate, CreateRefused, TrySwap, SwapRefused,
                 Retry, GiveUp, Release, FunctionReturns
  <2>2. ~Begin(c)
    BY <2>1 DEF Begin, Step, TryCreate, CreateRefused, TrySwap, SwapRefused,
                 Retry, GiveUp, Release, FunctionReturns
  <2> QED BY <1>1, <1>2, <2>1, <2>2, LockKeepsLife
<1>5. ASSUME NEW c \in Clients, Die(c)
      PROVE  LifeInv'
  <2>1. Crash(c) /\ at' = [at EXCEPT ![c] = "error"] /\ UNCHANGED <<keys, image, upload, unpublished>>
    BY <1>5 DEF Die, Do
  <2>2. ~Begin(c) /\ ~FunctionReturns(c)
    BY <1>1, <2>1 DEF Crash, Begin, FunctionReturns, Goto, TypeOK
  <2>3. "error" \in Steps
    BY DEF Steps
  <2> QED BY <1>1, <1>2, <2>1, <2>2, <2>3, LockKeepsLife
<1>6. ~(UploadReads \/ UploadWrites \/ DropRecord \/ ForceStep)
  BY <1>1 DEF UploadReads, UploadWrites, DropRecord, ForceStep, ForceChecks, ForceDestroys,
              ForceRemovesRecord, ForceUnlocks, ArriveForced, NotForced
<1>7. CASE UNCHANGED allVars
  BY <1>2, <1>7 DEF allVars, vars, life, LifeInv, Midway, Consistent, Gone, Whole,
              HalfPublished, Complete, Readable, Abandoned,
              HasMountLock, Holding, HeldBy
<1> QED BY <1>2, <1>3, <1>4, <1>5, <1>6, <1>7, FunctionKeepsLife DEF LifeNext

(* createVolume, handleCopy, handleRemove and Mount: what each has made of *)
(* record and image at each of its steps, also when it dies there or when  *)
(* etcd refuses what it publishes.                                         *)
THEOREM LifeInvariant == ASSUME Calm PROVE LifeSpec => []LifeInv
BY LifeInitial, LifeStep, PTL DEF LifeSpec

(* createVolume, handleCopy and handleRemove leave a volume that is whole  *)
(* or not there, or that PublishVolume could not publish, to whoever finds *)
(* the mount lock free, for any requests and lock sequences that begin     *)
(* with it, whatever process dies in between.                              *)
THEOREM ConsistentWhenFreeHolds == ASSUME Calm PROVE LifeSpec => []ConsistentWhenFree
<1>1. LifeInv => ConsistentWhenFree
  <2> SUFFICES ASSUME LifeInv, CreateSucceeds(use[MountKey]) PROVE Consistent
    BY DEF ConsistentWhenFree, Consistent, Gone, Whole, HalfPublished, Complete, Full
  <2>1. \A c \in Clients : pc[c] # "run" /\ ~Abandoned(c)
    BY MountLockFacts DEF LifeInv, CreateSucceeds, Abandoned, HeldBy
  <2> QED BY <2>1 DEF LifeInv
<1> QED BY <1>1, LifeInvariant, PTL

(* A mounted volume with a CRUD backend keeps its image, and its record if *)
(* PublishVolume could publish it.                                         *)
THEOREM UsedIsWholeHolds == ASSUME Calm, HasCRUD PROVE LifeSpec => []UsedIsWhole
<1>1. LifeInv => UsedIsWhole
  BY DEF LifeInv, UsedIsWhole, Using, Runs, Midway, Consistent, Gone, Whole, HalfPublished, Readable
<1> QED BY <1>1, LifeInvariant, PTL

(* A create formats and cleans up no image that has a file system.         *)
THEOREM FormatsOwnImageHolds == ASSUME Calm PROVE LifeSpec => []FormatsOwnImage
<1>1. LifeInv => FormatsOwnImage
  BY DEF LifeInv, FormatsOwnImage, Runs, Midway
<1> QED BY <1>1, LifeInvariant, PTL

(* A removal that is answered with success has destroyed the image.        *)
THEOREM RemovedIsDestroyedHolds == ASSUME Calm PROVE LifeSpec => []RemovedIsDestroyed
<1>1. LifeInv => RemovedIsDestroyed
  BY DEF LifeInv, RemovedIsDestroyed, Runs, Midway
<1> QED BY <1>1, LifeInvariant, PTL

(* A create that is answered with success leaves a volume that can be      *)
(* read, as long as it has its locks, unless PublishVolume met an error.   *)
THEOREM CreatedIsReadableHolds == ASSUME Calm PROVE LifeSpec => []CreatedIsReadable
<1>1. LifeInv => CreatedIsReadable
  BY DEF LifeInv, CreatedIsReadable, Runs, Midway
<1> QED BY <1>1, LifeInvariant, PTL
================================================================================
