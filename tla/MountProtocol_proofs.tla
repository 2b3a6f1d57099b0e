-------------------------- MODULE MountProtocol_proofs --------------------------
(***************************************************************************)
(* Theorems about MountProtocol, for any sets of hosts, containers and     *)
(* refresh goroutines.                                                     *)
(***************************************************************************)
EXTENDS MountProtocol, FiniteSetTheorems, TLAPS

--------------------------------------------------------------------------------
(* Type correctness holds whatever the environment does. *)

LEMMA TypeInit == Init => TypeOK
BY ConstantsAssumption DEF Init, TypeOK, Uses, Free, Contents, Points, RestPoints

(* The record that a set without a TTL leaves is well typed. *)
LEMMA PermanentType ==
    ASSUME NEW c \in Contents
    PROVE  Permanent(c) \in Uses(Contents) /\ ~Permanent(c).ttl
BY DEF Permanent, Uses

(* Moving one container to a control point keeps the type of pc. *)
LEMMA GotoType ==
    ASSUME NEW h \in Hosts, NEW k \in Containers, NEW p \in Points,
           pc \in [Hosts -> [Containers -> Points]], Goto(h, k, p)
    PROVE  pc' \in [Hosts -> [Containers -> Points]]
BY DEF Goto

(* RemoveStopChan keeps the types of what it changes. *)
LEMMA StopType ==
    ASSUME TypeOK, NEW h \in Hosts, RemoveStopChan(h)
    PROVE  /\ stopChan' \in [Hosts -> Refreshers \cup {NoChan}]
           /\ refresher' \in [Hosts -> [Refreshers -> {"none", "run", "stop"}]]
<1>1. CASE stopChan[h] = NoChan
  BY <1>1 DEF TypeOK, RemoveStopChan
<1>2. CASE stopChan[h] # NoChan
  BY <1>2 DEF TypeOK, RemoveStopChan
<1>3. QED
  BY <1>1, <1>2

(* A step of a handler keeps the types. *)
LEMMA TypeHandler ==
    ASSUME TypeOK, NEW h \in Hosts, NEW k \in Containers, HandlerStep(h, k)
    PROVE  TypeOK'
<1>0. h \in Contents
  BY DEF Contents
<1>1. CASE PublishCreate(h, k)
  <2>1. AfterPublish(pc[h][k]) \in Points /\ SwapPoint(pc[h][k]) \in Points
    BY <1>1 DEF PublishCreate, AfterPublish, SwapPoint, Points, MountPoints, UnmountPoints
  <2>2. pc' \in [Hosts -> [Containers -> Points]]
    BY <1>1, <2>1, GotoType DEF PublishCreate, TypeOK
  <2>3. QED
    BY <1>0, <1>1, <2>2, PermanentType DEF PublishCreate, TypeOK
<1>2. CASE PublishSwap(h, k)
  <2>1. AfterPublish(pc[h][k]) \in Points
    BY <1>2 DEF PublishSwap, AfterPublish, Points, MountPoints, UnmountPoints
  <2>2. pc' \in [Hosts -> [Containers -> Points]]
    BY <1>2, <2>1, GotoType DEF PublishSwap, TypeOK
  <2>3. QED
    BY <1>0, <1>2, <2>2, PermanentType DEF PublishSwap, TypeOK
<1>3. CASE PublishRefused(h, k)
  <2>1. pc' \in [Hosts -> [Containers -> Points]]
    BY <1>3, GotoType DEF PublishRefused, TypeOK, Points, RestPoints, MountPoints
  <2>2. QED
    BY <1>3, <2>1, StopType DEF PublishRefused, TypeOK
<1> USE ConstantsAssumption
        DEF TypeOK, Uses, Contents, Goto, Points, RestPoints, MountPoints, UnmountPoints
<1>4. CASE CountAdd(h, k)
  BY <1>4 DEF CountAdd
<1>5. CASE DriverMount(h, k)
  BY <1>5 DEF DriverMount
<1>6. CASE DriverMountFails(h, k)
  BY <1>6 DEF DriverMountFails
<1>7. CASE CollectionAdd(h, k)
  BY <1>7 DEF CollectionAdd
<1>8. CASE SpawnRefresher(h, k)
  BY <1>8 DEF SpawnRefresher
<1>9. CASE ClearUnmount(h, k)
  BY <1>9 DEF ClearUnmount
<1>10. CASE ClearLock(h, k)
  BY <1>10 DEF ClearLock, AfterRemove, Free
<1>11. CASE ClearLockTimeout(h, k)
  BY <1>11 DEF ClearLockTimeout
<1>12. CASE CountSub(h, k)
  BY <1>12 DEF CountSub
<1>13. CASE DriverUnmount(h, k)
  BY <1>13 DEF DriverUnmount
<1>14. CASE DriverUnmountFails(h, k)
  BY <1>14 DEF DriverUnmountFails
<1>15. CASE CollectionRemove(h, k)
  BY <1>15 DEF CollectionRemove
<1>16. CASE StopRefresher(h, k)
  BY <1>16 DEF StopRefresher, RemoveStopChan
<1>17. QED
  BY <1>1, <1>2, <1>3, <1>4, <1>5, <1>6, <1>7, <1>8, <1>9, <1>10, <1>11, <1>12,
     <1>13, <1>14, <1>15, <1>16 DEF HandlerStep

(* Every step keeps the types. *)
LEMMA TypeNext == TypeOK /\ [Next]_vars => TypeOK'
<1> SUFFICES ASSUME TypeOK, [Next]_vars PROVE TypeOK'
  OBVIOUS
<1>1. ASSUME NEW h \in Hosts, NEW k \in Containers, HandlerStep(h, k)
      PROVE  TypeOK'
  BY <1>1, TypeHandler
<1>2. ASSUME NEW h \in Hosts, NEW k \in Containers, DockerStep(h, k)
      PROVE  TypeOK'
  <2>1. UNCHANGED <<use, host, mounted, counter, collection, stopChan, refresher>>
    BY <1>2 DEF DockerStep, MountStart, MountLookupFails, UnmountStart,
                UnmountLookupFails, UnmountLost
  <2>2. pc' \in [Hosts -> [Containers -> Points]]
    BY <1>2, GotoType DEF DockerStep, MountStart, MountLookupFails, UnmountStart,
         UnmountLookupFails, UnmountLost, TypeOK, Points, MountPoints, UnmountPoints,
         RestPoints
  <2>3. QED
    BY <2>1, <2>2 DEF TypeOK
<1>3. ASSUME NEW h \in Hosts, NEW g \in Refreshers, RefresherStep(h, g)
      PROVE  TypeOK'
  <2>1. Payload(h) \in Contents /\ Payload(h) # Absent
    BY ConstantsAssumption DEF Payload, Contents
  <2>2. CASE Refresh(h, g)
    BY <2>1, <2>2 DEF Refresh, TypeOK, Leased, Uses
  <2>3. CASE RefresherStops(h, g)
    BY <2>1, <2>3 DEF RefresherStops, TypeOK, AfterRemove, Free, Uses
  <2>4. QED
    BY <1>3, <2>2, <2>3 DEF RefresherStep
<1>4. ASSUME NEW h \in Hosts, HostStep(h)
      PROVE  TypeOK'
  <2>1. CASE DaemonCrash(h)
    <3>1. pc' \in [Hosts -> [Containers -> Points]]
      BY <2>1 DEF DaemonCrash, TypeOK, Points, RestPoints
    <3>2. QED
      BY <2>1, <3>1, ConstantsAssumption DEF DaemonCrash, ForgetDaemon, TypeOK
  <2>2. CASE Restart(h)
    <3>1. Cardinality(Running(h)) \in Int
      BY FS_Subset, FS_CardinalityType, ConstantsAssumption DEF Running
    <3>2. Payload(h) \in Contents
      BY DEF Payload, Contents
    <3>3. use' \in Uses(Contents) /\ (use'.content = Absent => ~use'.ttl)
      BY <2>2, <3>2, PermanentType DEF Restart, TypeOK
    <3>4. counter' \in [Hosts -> Int]
      BY <2>2, <3>1 DEF Restart, TypeOK
    <3>5. refresher' \in [Hosts -> [Refreshers -> {"none", "run", "stop"}]]
      <4>1. \/ UNCHANGED refresher
            \/ \E g \in Refreshers : refresher' = [refresher EXCEPT ![h][g] = "run"]
        BY <2>2 DEF Restart
      <4>2. refresher \in [Hosts -> [Refreshers -> {"none", "run", "stop"}]]
        BY DEF TypeOK
      <4>3. ASSUME NEW g \in Refreshers, refresher' = [refresher EXCEPT ![h][g] = "run"]
            PROVE  refresher' \in [Hosts -> [Refreshers -> {"none", "run", "stop"}]]
        BY <4>2, <4>3
      <4>4. QED
        BY <4>1, <4>2, <4>3
    <3>6. stopChan' \in [Hosts -> Refreshers \cup {NoChan}]
      BY <2>2 DEF Restart, TypeOK
    <3>7. QED
      BY <2>2, <3>3, <3>4, <3>5, <3>6 DEF Restart, TypeOK
  <2>3. CASE HostCrash(h)
    BY <2>3, ConstantsAssumption DEF HostCrash, ForgetDaemon, TypeOK, Points, RestPoints
  <2>4. CASE HostBoot(h)
    BY <2>4 DEF HostBoot, TypeOK
  <2>5. QED
    BY <1>4, <2>1, <2>2, <2>3, <2>4 DEF HostStep
<1>5. CASE Expire
  BY <1>5 DEF Expire, TypeOK, Free, Uses
<1>6. CASE UNCHANGED vars
  BY <1>6 DEF vars, TypeOK
<1>7. QED
  BY <1>1, <1>2, <1>3, <1>4, <1>5, <1>6 DEF Next

(* The state of the protocol is well typed in every behaviour, with every  *)
(* liberty of the environment: no step of a handler, a goroutine or a      *)
(* crash leaves a variable outside its type, and an absent lock never has  *)
(* a TTL.                                                                  *)
THEOREM TypeCorrect == Spec => []TypeOK
BY TypeInit, TypeNext, PTL DEF Spec

--------------------------------------------------------------------------------
(* The inductive invariant, in a calm environment. *)

LEMMA InvInit == CalmEnvironment /\ Init => MountInv
<1> SUFFICES ASSUME CalmEnvironment, Init PROVE MountInv
  OBVIOUS
<1>1. TypeOK
  BY TypeInit
<1>2. ASSUME NEW h \in Hosts PROVE HostInv(h)
  BY DEF Init, HostInv, OneRequest, NoDaemonNoActivity, DeadHasNoMount, StopsAlone,
         MountSecured, HoldersSecured, ReleasedUnmounted, InFlight, RestPoints,
         HoldPoints, ReleasePoints
<1>3. use.content # UnlockedLabel
  BY ConstantsAssumption DEF Init, Free
<1>4. QED
  BY <1>1, <1>2, <1>3 DEF MountInv

(* A step concerns one host h if it leaves the state of the others alone   *)
(* and touches the lock only when it is free or the lock of h, to free it  *)
(* or to make it the lock of h.                                            *)
Concerns(h) ==
    /\ \A x \in Hosts \ {h} :
         /\ host'[x] = host[x]
         /\ mounted'[x] = mounted[x]
         /\ refresher'[x] = refresher[x]
         /\ pc'[x] = pc[x]
    /\ \/ use' = use
       \/ use.content \in {Absent, h} /\ use'.content \in {Absent, h}

(* Such a step keeps the invariant if it keeps it for h: the other hosts   *)
(* rely on the lock only where they hold it.                               *)
LEMMA OneHostSuffices ==
    ASSUME MountInv, TypeOK', NEW h \in Hosts, Concerns(h), HostInv(h)'
    PROVE  MountInv'
<1>1. ASSUME NEW x \in Hosts, x # h PROVE HostInv(x)'
  <2>1. Secured(x) => Secured(x)'
    BY <1>1, ConstantsAssumption DEF Concerns, Secured, HeldBy
  <2>2. HostInv(x)
    BY DEF MountInv
  <2>3. QED
    BY <1>1, <2>1, <2>2 DEF Concerns, HostInv, OneRequest, NoDaemonNoActivity,
       DeadHasNoMount, StopsAlone, MountSecured, HoldersSecured, ReleasedUnmounted,
       InFlight
<1>2. use'.content # UnlockedLabel
  BY ConstantsAssumption DEF Concerns, MountInv
<1>3. QED
  BY <1>1, <1>2 DEF MountInv

(* A request in flight has its host to itself: the daemon is up, no other  *)
(* request is in flight and no refresh goroutine is about to stop.         *)
Alone(h, k) ==
    /\ host[h] = "up"
    /\ \A k2 \in Containers : k2 # k => ~InFlight(h, k2)
    /\ \A g \in Refreshers : refresher[h][g] # "stop"

LEMMA FlightIsAlone ==
    ASSUME MountInv, NEW h \in Hosts, NEW k \in Containers, InFlight(h, k)
    PROVE  Alone(h, k)
BY DEF MountInv, HostInv, OneRequest, NoDaemonNoActivity, StopsAlone, Alone

(* In a calm environment so does one that is being sent. *)
LEMMA SentIsAlone ==
    ASSUME CalmEnvironment, NEW h \in Hosts, NEW k \in Containers, MaySend(h)
    PROVE  Alone(h, k)
BY DEF CalmEnvironment, MaySend, Alone

(* Moving one request on, to a point whose obligations are met in the new  *)
(* state, keeps the invariant, whatever the step does to the lock of h and *)
(* to its mount.                                                           *)
LEMMA MoveKeepsInv ==
    ASSUME MountInv, TypeOK',
           NEW h \in Hosts, NEW k \in Containers, NEW p \in Points,
           Goto(h, k, p), Alone(h, k), Concerns(h),
           UNCHANGED host,
           \A g \in Refreshers : refresher'[h][g] # "stop",
           mounted'[h] => Secured(h)',
           p \in HoldPoints => Secured(h)',
           p \in ReleasePoints => ~mounted'[h]
    PROVE  MountInv'
<1>1. \A y \in Containers : pc'[h][y] = IF y = k THEN p ELSE pc[h][y]
  BY DEF Goto, MountInv, TypeOK
<1>2. \A y \in Containers : y # k => pc'[h][y] \in RestPoints
  BY <1>1 DEF Alone, InFlight
<1>3. HoldPoints \cap RestPoints = {} /\ ReleasePoints \cap RestPoints = {}
  BY DEF HoldPoints, ReleasePoints, RestPoints
<1>4. OneRequest(h)'
  BY <1>2 DEF OneRequest, InFlight
<1>5. NoDaemonNoActivity(h)' /\ DeadHasNoMount(h)' /\ StopsAlone(h)' /\ MountSecured(h)'
  BY DEF NoDaemonNoActivity, DeadHasNoMount, StopsAlone, MountSecured, Alone
<1>6. HoldersSecured(h)' /\ ReleasedUnmounted(h)'
  BY <1>1, <1>2, <1>3 DEF HoldersSecured, ReleasedUnmounted
<1>7. QED
  BY <1>4, <1>5, <1>6, OneHostSuffices DEF HostInv

(* The same for a step that changes neither the lock nor the mount. *)
LEMMA QuietMoveKeepsInv ==
    ASSUME MountInv, TypeOK',
           NEW h \in Hosts, NEW k \in Containers, NEW p \in Points,
           Goto(h, k, p), Alone(h, k),
           UNCHANGED <<use, host, mounted, refresher>>,
           p \in HoldPoints => Secured(h),
           p \in ReleasePoints => ~mounted[h]
    PROVE  MountInv'
<1>1. Concerns(h)
  BY DEF Concerns, Goto, MountInv, TypeOK
<1>2. Secured(h)' <=> Secured(h)
  BY DEF Secured, HeldBy
<1>3. mounted[h] => Secured(h)
  BY DEF MountInv, HostInv, MountSecured
<1>4. \A g \in Refreshers : refresher'[h][g] # "stop"
  BY DEF Alone
<1>5. QED
  BY <1>1, <1>2, <1>3, <1>4, MoveKeepsInv

(* A host whose request holds the lock, or that has the volume mounted. *)
LEMMA Relying ==
    ASSUME MountInv, NEW h \in Hosts
    PROVE  /\ mounted[h] => Secured(h)
           /\ \A k \in Containers : pc[h][k] \in HoldPoints => Secured(h)
           /\ \A k \in Containers : pc[h][k] \in ReleasePoints => ~mounted[h]
BY DEF MountInv, HostInv, MountSecured, HoldersSecured, ReleasedUnmounted

LEMMA InvHandler ==
    ASSUME CalmEnvironment, MountInv, TypeOK',
           NEW h \in Hosts, NEW k \in Containers, HandlerStep(h, k)
    PROVE  MountInv'
<1> USE DEF HoldPoints, ReleasePoints
<1>0. TypeOK
  BY DEF MountInv
<1>1. InFlight(h, k)
  BY DEF HandlerStep, PublishCreate, PublishSwap, PublishRefused, CountAdd, DriverMount,
     DriverMountFails, CollectionAdd, SpawnRefresher, ClearUnmount, ClearLock,
     ClearLockTimeout, CountSub, DriverUnmount, DriverUnmountFails, CollectionRemove,
     StopRefresher, InFlight, RestPoints
<1>2. Alone(h, k)
  BY <1>1, FlightIsAlone
<1>4. CASE PublishCreate(h, k)
  <2>1. AfterPublish(pc[h][k]) \in {"mCount", "mSpawn", "uCount"}
    BY <1>4 DEF PublishCreate, AfterPublish
  <2>2. SwapPoint(pc[h][k]) \in {"mSwap", "mReswap", "uSwap"}
    BY <1>4 DEF PublishCreate, SwapPoint
  <2>3. {"mCount", "mSpawn", "uCount", "mSwap", "mReswap", "uSwap"} \subseteq Points
    BY DEF Points, MountPoints, UnmountPoints
  <2>4. UNCHANGED <<host, mounted, refresher>>
    BY <1>4 DEF PublishCreate
  <2>5. CASE CreateSucceeds(use)
    <3>1. use' = Permanent(h) /\ Goto(h, k, AfterPublish(pc[h][k]))
      BY <1>4, <2>5 DEF PublishCreate
    <3>2. Secured(h)'
      BY <3>1 DEF Secured, HeldBy, Permanent
    <3>3. Concerns(h)
      BY <1>0, <2>4, <2>5, <3>1 DEF Concerns, Goto, TypeOK, CreateSucceeds, Permanent
    <3>4. \A g \in Refreshers : refresher'[h][g] # "stop"
      BY <1>2, <2>4 DEF Alone
    <3>5. QED
      BY <1>2, <2>1, <2>3, <2>4, <3>1, <3>2, <3>3, <3>4, MoveKeepsInv
  <2>6. CASE ~CreateSucceeds(use)
    <3>1. UNCHANGED use /\ Goto(h, k, SwapPoint(pc[h][k]))
      BY <1>4, <2>6 DEF PublishCreate
    <3>2. SwapPoint(pc[h][k]) \in HoldPoints => Secured(h)
      <4>1. SwapPoint(pc[h][k]) \in HoldPoints => pc[h][k] = "mRefresh"
        BY <1>4 DEF PublishCreate, SwapPoint
      <4>2. QED
        BY <4>1, Relying
    <3>3. QED
      BY <1>2, <2>2, <2>3, <2>4, <3>1, <3>2, QuietMoveKeepsInv
  <2>7. QED
    BY <2>5, <2>6
<1>5. CASE PublishSwap(h, k)
  <2>1. AfterPublish(pc[h][k]) \in {"mCount", "mSpawn", "uCount"}
    BY <1>5 DEF PublishSwap, AfterPublish
  <2>2. {"mCount", "mSpawn", "uCount"} \subseteq Points
    BY DEF Points, MountPoints, UnmountPoints
  <2>3. UNCHANGED <<host, mounted, refresher>>
    BY <1>5 DEF PublishSwap
  <2>4. use' = Permanent(h) /\ Goto(h, k, AfterPublish(pc[h][k])) /\ use.content = h
    BY <1>5 DEF PublishSwap, SwapSucceeds, HeldBy
  <2>5. Secured(h)'
    BY <2>4 DEF Secured, HeldBy, Permanent
  <2>6. Concerns(h)
    BY <1>0, <2>3, <2>4 DEF Concerns, Goto, TypeOK, Permanent
  <2>7. \A g \in Refreshers : refresher'[h][g] # "stop"
    BY <1>2, <2>3 DEF Alone
  <2>8. QED
    BY <1>2, <2>1, <2>2, <2>3, <2>4, <2>5, <2>6, <2>7, MoveKeepsInv
<1>6. CASE PublishRefused(h, k)
  (* startTTLRefresh is not refused: Mount still holds the lock. *)
  <2>1. pc[h][k] # "mReswap"
    BY <1>6, Relying DEF PublishRefused, Secured, SwapSucceeds
  <2>2. Goto(h, k, "undo") \/ Goto(h, k, "idle")
    BY <1>6, <2>1 DEF PublishRefused
  <2>3. UNCHANGED <<use, host, mounted, refresher>>
    BY <1>6, <2>1 DEF PublishRefused
  <2>4. {"undo", "idle"} \subseteq Points
    BY DEF Points, RestPoints
  <2>5. QED
    BY <1>2, <2>2, <2>3, <2>4, QuietMoveKeepsInv
<1>7. CASE CountAdd(h, k)
  <2> DEFINE p == IF counter[h] + 1 <= 1 THEN "mDriver"
                  ELSE IF Unlocked THEN "running" ELSE "undo"
  <2>1. p \in Points /\ p \notin ReleasePoints
    BY DEF Points, MountPoints, RestPoints
  <2>2. Secured(h)
    BY <1>7, Relying DEF CountAdd
  <2>3. Goto(h, k, p) /\ UNCHANGED <<use, host, mounted, refresher>>
    BY <1>7 DEF CountAdd
  <2> HIDE DEF p
  <2>4. QED
    BY <1>2, <2>1, <2>2, <2>3, QuietMoveKeepsInv
<1>8. CASE DriverMount(h, k)
  <2>1. Secured(h)
    BY <1>8, Relying DEF DriverMount
  <2>2. Secured(h)'
    BY <1>8, <2>1 DEF DriverMount, Secured, HeldBy
  <2>3. Concerns(h)
    BY <1>0, <1>8 DEF DriverMount, Concerns, Goto, TypeOK
  <2>4. Goto(h, k, "mCollect") /\ "mCollect" \in Points
    BY <1>8 DEF DriverMount, Points, MountPoints
  <2>5. UNCHANGED <<host, refresher>>
    BY <1>8 DEF DriverMount
  <2>6. \A g \in Refreshers : refresher'[h][g] # "stop"
    BY <1>2, <2>5 DEF Alone
  <2>7. QED
    BY <1>2, <2>2, <2>3, <2>4, <2>5, <2>6, MoveKeepsInv
<1>9. CASE DriverMountFails(h, k)
  <2>1. Goto(h, k, "mClearUnmount") /\ "mClearUnmount" \in Points
    BY <1>9 DEF DriverMountFails, Points, MountPoints
  <2>2. QED
    BY <1>2, <1>9, <2>1, QuietMoveKeepsInv DEF DriverMountFails
<1>10. CASE CollectionAdd(h, k)
  <2> DEFINE p == IF collection[h] THEN "undo" ELSE IF Unlocked THEN "running" ELSE "mRefresh"
  <2>1. p \in Points /\ p \notin ReleasePoints
    BY DEF Points, MountPoints, RestPoints
  <2>2. Secured(h)
    BY <1>10, Relying DEF CollectionAdd
  <2>3. Goto(h, k, p) /\ UNCHANGED <<use, host, mounted, refresher>>
    BY <1>10 DEF CollectionAdd
  <2> HIDE DEF p
  <2>4. QED
    BY <1>2, <2>1, <2>2, <2>3, QuietMoveKeepsInv
<1>11. CASE SpawnRefresher(h, k)
  <2>1. Goto(h, k, "running") /\ "running" \in Points
    BY <1>11 DEF SpawnRefresher, Points, RestPoints
  <2>2. UNCHANGED <<use, host, mounted>>
    BY <1>11 DEF SpawnRefresher
  <2>3. PICK g \in Refreshers : refresher' = [refresher EXCEPT ![h][g] = "run"]
    BY <1>11 DEF SpawnRefresher
  <2>4. Secured(h)'
    BY <1>0, <1>11, <2>2, <2>3, Relying DEF SpawnRefresher, Secured, HeldBy, TypeOK
  <2>5. Concerns(h)
    BY <1>0, <2>1, <2>2, <2>3 DEF Concerns, Goto, TypeOK
  <2>6. \A f \in Refreshers : refresher'[h][f] # "stop"
    BY <1>0, <1>2, <2>3 DEF Alone, TypeOK
  <2>7. QED
    BY <1>2, <2>1, <2>2, <2>4, <2>5, <2>6, MoveKeepsInv
<1>12. CASE ClearUnmount(h, k)
  <2>1. mounted' = [mounted EXCEPT ![h] = FALSE]
    BY <1>12 DEF ClearUnmount, CalmEnvironment
  <2>2. Goto(h, k, "mClearLock") /\ "mClearLock" \in Points
    BY <1>12 DEF ClearUnmount, Points, MountPoints
  <2>3. UNCHANGED <<use, host, refresher>>
    BY <1>12 DEF ClearUnmount
  <2>4. Concerns(h) /\ ~mounted'[h]
    BY <1>0, <2>1, <2>2, <2>3 DEF Concerns, Goto, TypeOK
  <2>5. \A g \in Refreshers : refresher'[h][g] # "stop"
    BY <1>2, <2>3 DEF Alone
  <2>6. QED
    BY <1>2, <2>2, <2>3, <2>4, <2>5, MoveKeepsInv
<1>13. CASE ClearLock(h, k)
  <2>1. ~mounted[h]
    BY <1>13, Relying DEF ClearLock
  <2>2. Goto(h, k, "undo") /\ "undo" \in Points
    BY <1>13 DEF ClearLock, Points, RestPoints
  <2>3. UNCHANGED <<host, mounted, refresher>>
    BY <1>13 DEF ClearLock
  <2>4. use.content = h /\ use'.content = Absent
    BY <1>13 DEF ClearLock, RemoveSucceeds, AfterRemove, HeldBy, Free
  <2>5. Concerns(h)
    BY <1>0, <2>2, <2>3, <2>4 DEF Concerns, Goto, TypeOK
  <2>6. \A g \in Refreshers : refresher'[h][g] # "stop"
    BY <1>2, <2>3 DEF Alone
  <2>7. QED
    BY <1>2, <2>1, <2>2, <2>3, <2>5, <2>6, MoveKeepsInv
<1>14. CASE ClearLockTimeout(h, k)
  <2>1. Goto(h, k, "undo") /\ "undo" \in Points
    BY <1>14 DEF ClearLockTimeout, Points, RestPoints
  <2>2. QED
    BY <1>2, <1>14, <2>1, QuietMoveKeepsInv DEF ClearLockTimeout
<1>15. CASE CountSub(h, k)
  <2>1. Goto(h, k, "uDriver") \/ Goto(h, k, "idle")
    BY <1>15 DEF CountSub
  <2>2. {"uDriver", "idle"} \subseteq Points
    BY DEF Points, UnmountPoints, RestPoints
  <2>3. QED
    BY <1>2, <1>15, <2>1, <2>2, QuietMoveKeepsInv DEF CountSub
<1>16. CASE DriverUnmount(h, k)
  <2>1. mounted' = [mounted EXCEPT ![h] = FALSE]
    BY <1>16 DEF DriverUnmount
  <2>2. Goto(h, k, "uRemove") /\ "uRemove" \in Points
    BY <1>16 DEF DriverUnmount, Points, UnmountPoints
  <2>3. UNCHANGED <<use, host, refresher>>
    BY <1>16 DEF DriverUnmount
  <2>4. Concerns(h) /\ ~mounted'[h]
    BY <1>0, <2>1, <2>2, <2>3 DEF Concerns, Goto, TypeOK
  <2>5. \A g \in Refreshers : refresher'[h][g] # "stop"
    BY <1>2, <2>3 DEF Alone
  <2>6. QED
    BY <1>2, <2>2, <2>3, <2>4, <2>5, MoveKeepsInv
<1>17. CASE DriverUnmountFails(h, k)
  BY <1>17 DEF DriverUnmountFails, CalmEnvironment
<1>18. CASE CollectionRemove(h, k)
  <2>1. ~mounted[h]
    BY <1>18, Relying DEF CollectionRemove
  <2>2. Goto(h, k, "uStop") /\ "uStop" \in Points
    BY <1>18 DEF CollectionRemove, CalmEnvironment, Points, UnmountPoints
  <2>3. QED
    BY <1>2, <1>18, <2>1, <2>2, QuietMoveKeepsInv DEF CollectionRemove
<1>19. CASE StopRefresher(h, k)
  <2>1. ~mounted[h]
    BY <1>19, Relying DEF StopRefresher
  <2>2. Goto(h, k, "idle") /\ UNCHANGED <<use, host, mounted>>
    BY <1>19 DEF StopRefresher
  <2>3. \A y \in Containers : pc'[h][y] \in RestPoints
    BY <1>0, <1>2, <2>2 DEF Goto, Alone, InFlight, TypeOK, RestPoints
  <2>4. \A x \in Hosts \ {h} : refresher'[x] = refresher[x]
    <3>1. CASE stopChan[h] = NoChan
      BY <1>19, <3>1 DEF StopRefresher, RemoveStopChan
    <3>2. CASE stopChan[h] # NoChan
      BY <1>0, <1>19, <3>2 DEF StopRefresher, RemoveStopChan, TypeOK
    <3>3. QED
      BY <3>1, <3>2
  <2>5. Concerns(h)
    BY <1>0, <2>2, <2>4 DEF Concerns, Goto, TypeOK
  <2>6. HostInv(h)'
    BY <1>2, <2>1, <2>2, <2>3
       DEF HostInv, OneRequest, NoDaemonNoActivity, DeadHasNoMount, StopsAlone,
           MountSecured, HoldersSecured, ReleasedUnmounted, InFlight, RestPoints, Alone
  <2>7. QED
    BY <2>5, <2>6, OneHostSuffices
<1>20. QED
  BY <1>4, <1>5, <1>6, <1>7, <1>8, <1>9, <1>10, <1>11, <1>12, <1>13, <1>14, <1>15,
     <1>16, <1>17, <1>18, <1>19 DEF HandlerStep

LEMMA InvDocker ==
    ASSUME CalmEnvironment, MountInv, TypeOK',
           NEW h \in Hosts, NEW k \in Containers, DockerStep(h, k)
    PROVE  MountInv'
<1> USE DEF HoldPoints, ReleasePoints
<1>0. TypeOK
  BY DEF MountInv
<1>1. UNCHANGED <<use, host, mounted, refresher>>
  BY DEF DockerStep, MountStart, MountLookupFails, UnmountStart, UnmountLookupFails,
         UnmountLost
<1>2. CASE MaySend(h)
  <2>1. PICK p \in {"mPublish", "uPublish", "undo", "idle"} : Goto(h, k, p)
    BY <1>2 DEF DockerStep, MountStart, MountLookupFails, UnmountStart,
       UnmountLookupFails, UnmountLost, MaySend, CalmEnvironment
  <2>2. p \in Points
    BY DEF Points, MountPoints, UnmountPoints, RestPoints
  <2>3. QED
    BY <1>1, <1>2, <2>1, <2>2, SentIsAlone, QuietMoveKeepsInv
<1>3. CASE UnmountLost(h, k)
  <2>1. \A y \in Containers : pc'[h][y] = IF y = k THEN "idle" ELSE pc[h][y]
    BY <1>0, <1>3 DEF UnmountLost, Goto, TypeOK
  <2>2. Concerns(h)
    BY <1>0, <1>1, <1>3 DEF UnmountLost, Goto, TypeOK, Concerns
  <2>3. Secured(h)' <=> Secured(h)
    BY <1>1 DEF Secured, HeldBy
  <2>4. HostInv(h)
    BY DEF MountInv
  <2>5. HostInv(h)'
    BY <1>1, <2>1, <2>3, <2>4
       DEF HostInv, OneRequest, NoDaemonNoActivity, DeadHasNoMount, StopsAlone,
           MountSecured, HoldersSecured, ReleasedUnmounted, InFlight, RestPoints
  <2>6. QED
    BY <2>2, <2>5, OneHostSuffices
<1>4. QED
  BY <1>2, <1>3 DEF DockerStep, MountStart, MountLookupFails, UnmountStart,
     UnmountLookupFails

LEMMA InvRefresher ==
    ASSUME CalmEnvironment, MountInv, TypeOK',
           NEW h \in Hosts, NEW g \in Refreshers, RefresherStep(h, g)
    PROVE  MountInv'
<1>0. TypeOK /\ HostInv(h)
  BY DEF MountInv
<1>1. Payload(h) = h
  BY DEF Payload, CalmEnvironment
<1>2. CASE Refresh(h, g)
  <2>1. UNCHANGED <<host, mounted, refresher, pc>>
    BY <1>2 DEF Refresh
  <2>2. use' = Leased(h) /\ use.content \in {h, Absent}
    BY <1>1, <1>2 DEF Refresh, LeaseSucceeds
  <2>3. Concerns(h)
    BY <2>1, <2>2 DEF Concerns, Leased
  <2>4. CASE refresher[h][g] = "run"
    <3>1. Secured(h)'
      BY <2>1, <2>2, <2>4 DEF Secured, HeldBy, Leased
    <3>2. HostInv(h)'
      BY <1>0, <2>1, <3>1
         DEF HostInv, OneRequest, NoDaemonNoActivity, DeadHasNoMount, StopsAlone,
             MountSecured, HoldersSecured, ReleasedUnmounted, InFlight
    <3>3. QED
      BY <2>3, <3>2, OneHostSuffices
  <2>5. CASE refresher[h][g] = "stop"
    (* Nothing on h relies on the lock any more. *)
    <3>1. ~mounted[h] /\ \A k \in Containers : pc[h][k] \in RestPoints
      BY <1>0, <2>5 DEF HostInv, StopsAlone, InFlight
    <3>2. HostInv(h)'
      BY <1>0, <2>1, <3>1
         DEF HostInv, OneRequest, NoDaemonNoActivity, DeadHasNoMount, StopsAlone,
             MountSecured, HoldersSecured, ReleasedUnmounted, InFlight, RestPoints,
             HoldPoints
    <3>3. QED
      BY <2>3, <3>2, OneHostSuffices
  <2>6. QED
    BY <1>2, <2>4, <2>5 DEF Refresh
<1>3. CASE RefresherStops(h, g)
  <2>1. ~mounted[h] /\ \A k \in Containers : pc[h][k] \in RestPoints
    BY <1>0, <1>3 DEF RefresherStops, HostInv, StopsAlone, InFlight
  <2>2. UNCHANGED <<host, mounted, pc>> /\ host[h] = "up"
    BY <1>0, <1>3 DEF RefresherStops, HostInv, NoDaemonNoActivity
  <2>3. refresher' = [refresher EXCEPT ![h][g] = "none"]
    BY <1>3 DEF RefresherStops
  <2>4. use' = use \/ (use.content = h /\ use'.content = Absent)
    BY <1>1, <1>3 DEF RefresherStops, AfterRemove, RemoveSucceeds, HeldBy, Free
  <2>5. Concerns(h)
    BY <1>0, <2>2, <2>3, <2>4 DEF Concerns, TypeOK
  <2>6. HostInv(h)'
    BY <2>1, <2>2
       DEF HostInv, OneRequest, NoDaemonNoActivity, DeadHasNoMount, StopsAlone,
           MountSecured, HoldersSecured, ReleasedUnmounted, InFlight, RestPoints,
           HoldPoints, ReleasePoints
  <2>7. QED
    BY <2>5, <2>6, OneHostSuffices
<1>4. QED
  BY <1>2, <1>3 DEF RefresherStep

LEMMA InvHost ==
    ASSUME CalmEnvironment, MountInv, TypeOK', NEW h \in Hosts, HostStep(h)
    PROVE  MountInv'
<1>0. TypeOK /\ HostInv(h)
  BY DEF MountInv
<1>1. Payload(h) = h
  BY DEF Payload, CalmEnvironment
<1>2. CASE DaemonCrash(h)
  <2>1. \A k \in Containers : pc'[h][k] \in RestPoints
    BY <1>0, <1>2 DEF DaemonCrash, TypeOK, RestPoints
  <2>2. \A g \in Refreshers : refresher'[h][g] = "none"
    BY <1>0, <1>2 DEF DaemonCrash, ForgetDaemon, TypeOK
  <2>3. host'[h] = "down" /\ UNCHANGED <<use, mounted>>
    BY <1>0, <1>2 DEF DaemonCrash, TypeOK
  <2>4. Concerns(h)
    BY <1>0, <1>2 DEF DaemonCrash, ForgetDaemon, Concerns, TypeOK
  <2>5. HostInv(h)'
    BY <1>0, <2>1, <2>2, <2>3
       DEF HostInv, OneRequest, NoDaemonNoActivity, DeadHasNoMount, StopsAlone,
           MountSecured, HoldersSecured, ReleasedUnmounted, InFlight, RestPoints,
           HoldPoints, ReleasePoints, Secured, HeldBy
  <2>6. QED
    BY <2>4, <2>5, OneHostSuffices
<1>3. CASE Restart(h)
  <2>1. UNCHANGED <<mounted, pc>> /\ host'[h] = "up"
    BY <1>0, <1>3 DEF Restart, TypeOK
  <2>2. \A k \in Containers : pc[h][k] \in RestPoints
    BY <1>0, <1>3 DEF Restart, HostInv, NoDaemonNoActivity, InFlight
  <2>3. \A g \in Refreshers : refresher[h][g] = "none"
    BY <1>0, <1>3 DEF Restart, HostInv, NoDaemonNoActivity
  <2>4. \/ UNCHANGED refresher
        \/ \E g \in Refreshers : refresher' = [refresher EXCEPT ![h][g] = "run"]
    BY <1>3 DEF Restart
  <2>5. \A g \in Refreshers : refresher'[h][g] # "stop"
    <3>1. refresher \in [Hosts -> [Refreshers -> {"none", "run", "stop"}]]
      BY <1>0 DEF TypeOK
    <3>2. ASSUME NEW f \in Refreshers, refresher' = [refresher EXCEPT ![h][f] = "run"]
          PROVE  \A g \in Refreshers : refresher'[h][g] # "stop"
      BY <2>3, <3>1, <3>2
    <3>3. QED
      BY <2>3, <2>4, <3>2
  <2>6. \A x \in Hosts \ {h} : refresher'[x] = refresher[x] /\ host'[x] = host[x]
    BY <1>0, <1>3, <2>4 DEF Restart, TypeOK
  <2>7. \/ UNCHANGED use /\ ~mounted[h]
        \/ use' = Permanent(h) /\ use.content \in {Absent, h}
    BY <1>1, <1>3 DEF Restart, CreateSucceeds, SwapSucceeds, HeldBy
  <2>8. Concerns(h)
    BY <2>1, <2>6, <2>7 DEF Concerns, Permanent
  <2>9. mounted[h] => Secured(h)'
    BY <2>7 DEF Secured, HeldBy, Permanent
  <2>10. HostInv(h)'
    BY <2>1, <2>2, <2>5, <2>9
       DEF HostInv, OneRequest, NoDaemonNoActivity, DeadHasNoMount, StopsAlone,
           MountSecured, HoldersSecured, ReleasedUnmounted, InFlight, RestPoints,
           HoldPoints, ReleasePoints
  <2>11. QED
    BY <2>8, <2>10, OneHostSuffices
<1>4. CASE HostCrash(h)
  <2>1. \A k \in Containers : pc'[h][k] = "idle"
    BY <1>0, <1>4 DEF HostCrash, TypeOK
  <2>2. \A g \in Refreshers : refresher'[h][g] = "none"
    BY <1>0, <1>4 DEF HostCrash, ForgetDaemon, TypeOK
  <2>3. ~mounted'[h]
    BY <1>0, <1>4 DEF HostCrash, TypeOK
  <2>4. Concerns(h)
    BY <1>0, <1>4 DEF HostCrash, ForgetDaemon, Concerns, TypeOK
  <2>5. HostInv(h)'
    BY <2>1, <2>2, <2>3
       DEF HostInv, OneRequest, NoDaemonNoActivity, DeadHasNoMount, StopsAlone,
           MountSecured, HoldersSecured, ReleasedUnmounted, InFlight, RestPoints,
           HoldPoints, ReleasePoints
  <2>6. QED
    BY <2>4, <2>5, OneHostSuffices
<1>5. CASE HostBoot(h)
  <2>1. Concerns(h) /\ host'[h] = "down" /\ UNCHANGED <<use, mounted, refresher, pc>>
    BY <1>0, <1>5 DEF HostBoot, Concerns, TypeOK
  <2>2. HostInv(h)'
    BY <1>0, <1>5, <2>1
       DEF HostBoot, HostInv, OneRequest, NoDaemonNoActivity, DeadHasNoMount, StopsAlone,
           MountSecured, HoldersSecured, ReleasedUnmounted, InFlight, Secured, HeldBy
  <2>3. QED
    BY <2>1, <2>2, OneHostSuffices
<1>6. QED
  BY <1>2, <1>3, <1>4, <1>5 DEF HostStep

LEMMA InvExpire == ASSUME CalmEnvironment, MountInv, TypeOK', Expire PROVE MountInv'
<1>1. UNCHANGED <<host, mounted, refresher, pc>> /\ use' = Free
  BY DEF Expire
<1>2. use.ttl /\ Abandoned(use.content)
  BY DEF Expire, MayExpire, CalmEnvironment
<1>3. PICK h \in Hosts : use.content = h
  BY <1>2 DEF MountInv, TypeOK, Uses, Contents
<1>4. Payload(h) = h
  BY DEF Payload, CalmEnvironment
<1>5. HostInv(h)
  BY DEF MountInv
(* An abandoned lease is not what a mount or a request relies on. *)
<1>6. ~mounted[h] /\ \A k \in Containers : pc[h][k] \notin HoldPoints
  <2>1. CASE host[h] = "dead"
    BY <1>5, <2>1 DEF HostInv, DeadHasNoMount, NoDaemonNoActivity, InFlight, RestPoints,
                      HoldPoints
  <2>2. CASE host[h] = "up" /\ \A g \in Refreshers : refresher[h][g] = "none"
    BY <1>2, <1>5, <2>2 DEF HostInv, MountSecured, HoldersSecured, Secured
  <2>3. QED
    BY <1>2, <1>3, <1>4, <2>1, <2>2 DEF Abandoned
<1>7. HostInv(h)'
  BY <1>1, <1>5, <1>6
     DEF HostInv, OneRequest, NoDaemonNoActivity, DeadHasNoMount, StopsAlone,
         MountSecured, HoldersSecured, ReleasedUnmounted, InFlight
<1>8. Concerns(h)
  BY <1>1, <1>3 DEF Concerns, Free
<1>9. QED
  BY <1>7, <1>8, OneHostSuffices

LEMMA InvNext == CalmEnvironment /\ MountInv /\ [Next]_vars => MountInv'
<1> SUFFICES ASSUME CalmEnvironment, MountInv, [Next]_vars PROVE MountInv'
  OBVIOUS
<1>1. TypeOK'
  BY TypeNext DEF MountInv
<1>2. CASE UNCHANGED vars
  BY <1>1, <1>2
     DEF vars, MountInv, HostInv, OneRequest, NoDaemonNoActivity, DeadHasNoMount,
         StopsAlone, MountSecured, HoldersSecured, ReleasedUnmounted, InFlight, Secured,
         HeldBy
<1>3. QED
  BY <1>1, <1>2, InvHandler, InvDocker, InvRefresher, InvHost, InvExpire DEF Next

(* The inductive invariant holds in every behaviour of a calm environment, *)
(* with any number of hosts and containers, crashes of daemons and hosts,  *)
(* failing lookups and failing driver.Mount calls.                         *)
THEOREM MountInvariant == ASSUME CalmEnvironment PROVE Spec => []MountInv
BY InvInit, InvNext, PTL DEF Spec

(* So the lock covers every mount ... *)
THEOREM LockCoversMountHolds == ASSUME CalmEnvironment PROVE Spec => []LockCoversMount
<1>1. MountInv => LockCoversMount
  BY DEF MountInv, HostInv, MountSecured, Secured, LockCoversMount
<1>2. QED
  BY <1>1, MountInvariant, PTL

(* ... and no two hosts have a locked volume mounted, which is what the    *)
(* mount lock of api/handlers.go exists for.                               *)
THEOREM MutualExclusionHolds == ASSUME CalmEnvironment PROVE Spec => []MutualExclusion
<1>1. LockCoversMount => MutualExclusion
  BY DEF LockCoversMount, MutualExclusion, HeldBy
<1>2. QED
  BY <1>1, LockCoversMountHolds, PTL

--------------------------------------------------------------------------------
(* Refinement of ExclusiveVolume. *)

LEMMA ExclusiveInit == Init => Exclusive!Init
BY DEF Init, Exclusive!Init, Free

(* Every step of the protocol is one of the exclusive volume, or none. *)
LEMMA ExclusiveNext ==
    ASSUME CalmEnvironment, MountInv, MountInv', [Next]_vars
    PROVE  [Exclusive!Next]_<<use.content, mounted>>
<1> DEFINE Quiet == use'.content = use.content /\ UNCHANGED mounted
<1>0. TypeOK /\ TypeOK'
  BY DEF MountInv
<1>1. ASSUME UNCHANGED mounted, use'.content = Absent, use.content # Absent
      PROVE  Exclusive!Next
  <2>1. PICK h \in Hosts : use.content = h
    BY <1>0, <1>1 DEF MountInv, TypeOK, Uses, Contents
  <2>2. ~mounted[h]
    BY <1>1, ConstantsAssumption DEF MountInv, HostInv, MountSecured, Secured, HeldBy
  <2>3. QED
    BY <1>1, <2>1, <2>2 DEF Exclusive!Next, Exclusive!Release
<1>2. ASSUME NEW h \in Hosts, UNCHANGED mounted, use.content = Absent, use'.content = h
      PROVE  Exclusive!Next
  BY <1>2 DEF Exclusive!Next, Exclusive!Acquire
<1>3. ASSUME NEW h \in Hosts, use' = use, mounted' = [mounted EXCEPT ![h] = FALSE]
      PROVE  Exclusive!Next
  BY <1>3 DEF Exclusive!Next, Exclusive!Detach
<1>4. ASSUME NEW h \in Hosts, NEW k \in Containers, HandlerStep(h, k)
      PROVE  Exclusive!Next \/ Quiet
  <2>1. CASE PublishCreate(h, k)
    BY <1>2, <2>1 DEF PublishCreate, CreateSucceeds, Permanent
  <2>2. CASE PublishSwap(h, k)
    BY <2>2 DEF PublishSwap, SwapSucceeds, HeldBy, Permanent
  <2>3. CASE DriverMount(h, k)
    <3>1. use.content = h
      BY <2>3, Relying DEF DriverMount, HoldPoints, Secured, HeldBy
    <3>2. QED
      BY <2>3, <3>1 DEF DriverMount, Exclusive!Next, Exclusive!Attach
  <2>4. CASE ClearUnmount(h, k)
    BY <1>3, <2>4 DEF ClearUnmount, CalmEnvironment
  <2>5. CASE ClearLock(h, k)
    BY <1>1, <2>5, ConstantsAssumption
       DEF ClearLock, RemoveSucceeds, AfterRemove, HeldBy, Free
  <2>6. CASE DriverUnmount(h, k)
    BY <1>3, <2>6 DEF DriverUnmount
  <2>7. CASE \/ PublishRefused(h, k) \/ CountAdd(h, k) \/ DriverMountFails(h, k)
             \/ CollectionAdd(h, k) \/ SpawnRefresher(h, k) \/ ClearLockTimeout(h, k)
             \/ CountSub(h, k) \/ DriverUnmountFails(h, k) \/ CollectionRemove(h, k)
             \/ StopRefresher(h, k)
    BY <2>7 DEF PublishRefused, CountAdd, DriverMountFails, CollectionAdd, SpawnRefresher,
       ClearLockTimeout, CountSub, DriverUnmountFails, CollectionRemove, StopRefresher
  <2>8. QED
    BY <1>4, <2>1, <2>2, <2>3, <2>4, <2>5, <2>6, <2>7 DEF HandlerStep
<1>5. ASSUME NEW h \in Hosts, NEW k \in Containers, DockerStep(h, k)
      PROVE  Quiet
  BY <1>5 DEF DockerStep, MountStart, MountLookupFails, UnmountStart, UnmountLookupFails,
     UnmountLost
<1>6. ASSUME NEW h \in Hosts, NEW g \in Refreshers, RefresherStep(h, g)
      PROVE  Exclusive!Next \/ Quiet
  <2>1. Payload(h) = h
    BY DEF Payload, CalmEnvironment
  <2>2. CASE Refresh(h, g)
    BY <1>2, <2>1, <2>2 DEF Refresh, LeaseSucceeds, Leased
  <2>3. CASE RefresherStops(h, g)
    BY <1>1, <2>1, <2>3, ConstantsAssumption
       DEF RefresherStops, AfterRemove, RemoveSucceeds, HeldBy, Free
  <2>4. QED
    BY <1>6, <2>2, <2>3 DEF RefresherStep
<1>7. ASSUME NEW h \in Hosts, HostStep(h)
      PROVE  Exclusive!Next \/ Quiet
  <2>1. CASE Restart(h)
    <3>1. mounted[h] => use.content = h
      BY DEF MountInv, HostInv, MountSecured, Secured, HeldBy
    <3>2. Payload(h) = h
      BY DEF Payload, CalmEnvironment
    <3>3. QED
      BY <2>1, <3>1, <3>2 DEF Restart, Permanent
  <2>2. CASE HostCrash(h)
    BY <1>3, <2>2 DEF HostCrash
  <2>3. CASE DaemonCrash(h) \/ HostBoot(h)
    BY <2>3 DEF DaemonCrash, HostBoot
  <2>4. QED
    BY <1>7, <2>1, <2>2, <2>3 DEF HostStep
<1>8. CASE Expire
  <2>1. use.content # Absent
    BY <1>0, <1>8 DEF Expire, MayExpire, TypeOK
  <2>2. QED
    BY <1>1, <1>8, <2>1 DEF Expire, Free
<1>9. CASE UNCHANGED vars
  BY <1>9 DEF vars
<1>10. QED
  BY <1>4, <1>5, <1>6, <1>7, <1>8, <1>9 DEF Next

(* In a calm environment the protocol implements the exclusive volume: one *)
(* owner at a time, ownership never passed on directly, and never given up *)
(* while the owner has the volume mounted.                                 *)
THEOREM ImplementsExclusive ==
    ASSUME CalmEnvironment PROVE Spec => ImplementsExclusiveVolume
BY ExclusiveInit, ExclusiveNext, MountInvariant, PTL
   DEF Spec, ImplementsExclusiveVolume, Exclusive!Spec

--------------------------------------------------------------------------------
(* What may end the lock of a host, whatever the environment does. *)

LEMMA LoseInHandler ==
    ASSUME TypeOK, NEW h \in Hosts, NEW x \in Hosts, NEW k \in Containers,
           HandlerStep(x, k)
    PROVE  LosesByItself(h)
<1> SUFFICES ASSUME HeldBy(use, h), ~HeldBy(use', h)
             PROVE  use' = Free /\ pc'[h] # pc[h]
  BY DEF LosesByItself
<1>1. use.content = h /\ h # Absent
  BY ConstantsAssumption DEF HeldBy
<1>2. CASE PublishCreate(x, k)
  BY <1>1, <1>2 DEF PublishCreate, CreateSucceeds
<1>3. CASE PublishSwap(x, k)
  BY <1>1, <1>3 DEF PublishSwap, SwapSucceeds, HeldBy, Permanent
<1>4. CASE ClearLock(x, k)
  <2>1. x = h /\ use' = Free
    BY <1>1, <1>4 DEF ClearLock, RemoveSucceeds, AfterRemove, HeldBy
  <2>2. pc'[h][k] = "undo" /\ pc[h][k] = "mClearLock"
    BY <1>4, <2>1 DEF ClearLock, Goto, TypeOK
  <2>3. QED
    BY <2>1, <2>2
<1>5. CASE UNCHANGED use
  BY <1>5
<1>6. QED
  BY <1>2, <1>3, <1>4, <1>5
     DEF HandlerStep, PublishRefused, CountAdd, DriverMount, DriverMountFails,
         CollectionAdd, SpawnRefresher, ClearUnmount, ClearLockTimeout, CountSub,
         DriverUnmount, DriverUnmountFails, CollectionRemove, StopRefresher

LEMMA LoseInRefresher ==
    ASSUME TypeOK, NEW h \in Hosts, NEW x \in Hosts, NEW g \in Refreshers,
           RefresherStep(x, g)
    PROVE  LosesByItself(h)
<1> SUFFICES ASSUME HeldBy(use, h), ~HeldBy(use', h)
             PROVE  use' = Free /\ refresher'[h] # refresher[h]
  BY DEF LosesByItself
<1>1. use.content = h /\ h # Absent /\ h # UnlockedLabel
  BY ConstantsAssumption DEF HeldBy
<1>2. CASE Refresh(x, g)
  BY <1>1, <1>2 DEF Refresh, LeaseSucceeds, Leased, HeldBy
<1>3. CASE RefresherStops(x, g)
  <2>1. HeldBy(use, Payload(x)) /\ use' = Free
    BY <1>1, <1>3 DEF RefresherStops, AfterRemove, RemoveSucceeds
  <2>2. x = h
    BY <1>1, <2>1 DEF Payload, HeldBy
  <2>3. refresher'[h][g] = "none" /\ refresher[h][g] = "stop"
    BY <1>3, <2>2 DEF RefresherStops, TypeOK
  <2>4. QED
    BY <2>1, <2>3
<1>4. QED
  BY <1>2, <1>3 DEF RefresherStep

(* A host's lock ends only by a step of its own daemon or by its TTL, and  *)
(* it ends in the absent key (RemoveUse and PublishUse compare before they *)
(* write): no other host ever overwrites it, in any environment.           *)
THEOREM OwnLockOnlyHolds == Spec => OwnLockOnly
<1>1. TypeOK /\ [Next]_vars => [\A h \in Hosts : LosesByItself(h)]_vars
  <2> SUFFICES ASSUME TypeOK, Next, NEW h \in Hosts PROVE LosesByItself(h)
    OBVIOUS
  <2>1. ASSUME NEW x \in Hosts, NEW k \in Containers, DockerStep(x, k)
        PROVE  LosesByItself(h)
    BY <2>1 DEF DockerStep, MountStart, MountLookupFails, UnmountStart,
                UnmountLookupFails, UnmountLost, LosesByItself
  <2>2. ASSUME NEW x \in Hosts, HostStep(x)
        PROVE  LosesByItself(h)
    <3>1. CASE Restart(x)
      <4>1. HeldBy(use, h) => HeldBy(use', h)
        BY <3>1, ConstantsAssumption
           DEF Restart, CreateSucceeds, SwapSucceeds, Permanent, HeldBy
      <4>2. QED
        BY <4>1 DEF LosesByItself
    <3>2. CASE DaemonCrash(x) \/ HostCrash(x) \/ HostBoot(x)
      BY <3>2 DEF DaemonCrash, HostCrash, HostBoot, LosesByItself
    <3>3. QED
      BY <2>2, <3>1, <3>2 DEF HostStep
  <2>3. CASE Expire
    BY <2>3 DEF Expire, MayExpire, LosesByItself
  <2>4. QED
    BY <2>1, <2>2, <2>3, LoseInHandler, LoseInRefresher DEF Next
<1>2. QED
  BY <1>1, TypeCorrect, PTL DEF Spec, OwnLockOnly

--------------------------------------------------------------------------------
(* The counter, the mount and its users, of a locked volume that one host  *)
(* uses and of an unlocked one.                                            *)

(* Requests that are evened out: every Mount reaches the counter, and so   *)
(* does its Unmount.  No record is unreadable and no Unmount is lost to a  *)
(* dead daemon; the lock of a locked volume is never refused, because one  *)
(* host uses it, with its requests in order and its refreshes in time.     *)
EvenEnvironment ==
    /\ Allow \cap {"lookup", "daemon"} = {}
    /\ ~Unlocked =>
        /\ \A h1, h2 \in Hosts : h1 = h2
        /\ Allow \cap {"overlap", "remount", "stall", "host"} = {}

(* Besides, the requests of a host do not overlap and driver.Unmount does  *)
(* not fail.                                                               *)
OrderlyEnvironment == EvenEnvironment /\ Allow \cap {"overlap", "unmount"} = {}

(* What a mount of an unlocked volume shares is there: driver.Mount has    *)
(* not failed on it.                                                       *)
Shared == Unlocked => "mount" \notin Allow

LockPoints == {"mPublish", "mSwap", "mRefresh", "mReswap", "mSpawn", "uPublish", "uSwap", "uStop"}
SwapPoints == {"mSwap", "mReswap", "uSwap"}

(* A locked volume: the key that PublishUse has found is still there, and  *)
(* this host's, when it swaps.                                             *)
Granted(h) ==
    /\ host[h] = "up"
    /\ OneRequest(h)
    /\ use.content \in {Absent, h}
    /\ use.ttl => \E g \in Refreshers : refresher[h][g] # "none"
    /\ \A g \in Refreshers : refresher[h][g] = "stop" => \A k \in Containers : ~InFlight(h, k)
    /\ \A k \in Containers : pc[h][k] \in SwapPoints => HeldBy(use, h)

(* An unlocked volume: its requests know no lock. *)
Lockless(h) == \A k \in Containers : pc[h][k] \notin LockPoints

LockSide(h) == IF Unlocked THEN Lockless(h) ELSE Granted(h)

Even(h) ==
    /\ counter[h] = Cardinality(Counted(h))
    /\ host[h] # "up" => \A k \in Containers : pc[h][k] = "idle"

CountInv == TypeOK /\ \A h \in Hosts : LockSide(h) /\ Even(h)

(* Who has been through the counter by himself, and what he has done. *)
Sole(h, k) ==
    /\ pc[h][k] \in {"mDriver", "mCollect", "mRefresh", "mReswap", "mSpawn",
                     "mClearUnmount", "mClearLock"} => Counted(h) = {k}
    /\ pc[h][k] = "mDriver" => ~mounted[h] /\ ~collection[h]
    /\ pc[h][k] = "mCollect" => mounted[h] /\ ~collection[h]
    /\ pc[h][k] \in {"mRefresh", "mReswap", "mSpawn"} => mounted[h]

Last(h, k) ==
    /\ pc[h][k] \in {"uDriver", "uRemove", "uStop"} => Counted(h) = {}
    /\ pc[h][k] \in {"uRemove", "uStop"} => ~mounted[h]
    /\ pc[h][k] = "uStop" => ~collection[h]

(* A mount has its users, or the last of them is about to undo it. *)
HasUsers(h) ==
    /\ mounted[h] => Counted(h) # {} \/ \E k \in Containers : pc[h][k] = "uDriver"
    /\ collection[h] =>
         Counted(h) # {} \/ \E k \in Containers : pc[h][k] \in {"uDriver", "uRemove"}

Served(h, k) ==
    /\ pc[h][k] = "running" => mounted[h]
    /\ Unlocked => pc[h][k] \notin {"undo", "mClearUnmount", "mClearLock"}

Used(h) ==
    /\ OneRequest(h)
    /\ HasUsers(h)
    /\ \A k \in Containers : Sole(h, k) /\ Last(h, k) /\ (Shared => Served(h, k))

UseInv == CountInv /\ \A h \in Hosts : Used(h)

--------------------------------------------------------------------------------
(* What a step of one host does to the others: nothing, but for the lock. *)
Local(h) ==
    \A x \in Hosts \ {h} :
        /\ host'[x] = host[x] /\ mounted'[x] = mounted[x]
        /\ counter'[x] = counter[x] /\ collection'[x] = collection[x]
        /\ refresher'[x] = refresher[x] /\ pc'[x] = pc[x]

LEMMA HandlerIsLocal ==
    ASSUME TypeOK, NEW h \in Hosts, NEW k \in Containers, HandlerStep(h, k)
    PROVE  Local(h) /\ InFlight(h, k) /\ host' = host
<1> USE DEF Local, TypeOK, Goto, InFlight, RestPoints
<1>1. CASE PublishCreate(h, k) \/ PublishSwap(h, k)
  BY <1>1 DEF PublishCreate, PublishSwap
<1>2. CASE PublishRefused(h, k) \/ StopRefresher(h, k)
  <2>1. \A x \in Hosts \ {h} : refresher'[x] = refresher[x]
    BY <1>2 DEF PublishRefused, StopRefresher, RemoveStopChan
  <2> QED BY <1>2, <2>1 DEF PublishRefused, StopRefresher
<1>3. CASE CountAdd(h, k) \/ CountSub(h, k)
  BY <1>3 DEF CountAdd, CountSub
<1>4. CASE DriverMount(h, k) \/ DriverMountFails(h, k) \/ CollectionAdd(h, k)
  BY <1>4 DEF DriverMount, DriverMountFails, CollectionAdd
<1>5. CASE SpawnRefresher(h, k)
  BY <1>5 DEF SpawnRefresher
<1>6. CASE ClearUnmount(h, k) \/ ClearLock(h, k) \/ ClearLockTimeout(h, k)
  BY <1>6 DEF ClearUnmount, ClearLock, ClearLockTimeout
<1>7. CASE DriverUnmount(h, k) \/ DriverUnmountFails(h, k) \/ CollectionRemove(h, k)
  BY <1>7 DEF DriverUnmount, DriverUnmountFails, CollectionRemove
<1> QED BY <1>1, <1>2, <1>3, <1>4, <1>5, <1>6, <1>7 DEF HandlerStep

LEMMA OtherIsLocal ==
    ASSUME TypeOK, NEW h \in Hosts,
           \/ \E k \in Containers : DockerStep(h, k)
           \/ \E g \in Refreshers : RefresherStep(h, g)
           \/ HostStep(h)
    PROVE  Local(h)
<1> USE DEF Local, TypeOK, Goto
<1>1. ASSUME NEW k \in Containers, DockerStep(h, k) PROVE Local(h)
  BY <1>1 DEF DockerStep, MountStart, MountLookupFails, UnmountStart, UnmountLookupFails, UnmountLost
<1>2. ASSUME NEW g \in Refreshers, RefresherStep(h, g) PROVE Local(h)
  BY <1>2 DEF RefresherStep, Refresh, RefresherStops
<1>3. CASE DaemonCrash(h) \/ HostCrash(h)
  BY <1>3 DEF DaemonCrash, HostCrash, ForgetDaemon
<1>4. CASE Restart(h) \/ HostBoot(h)
  BY <1>4 DEF Restart, HostBoot
<1> QED BY <1>1, <1>2, <1>3, <1>4 DEF HostStep

(* Who is counted after a request has moved on. *)
LEMMA CountedAfter ==
    ASSUME TypeOK, NEW h \in Hosts, NEW k \in Containers, NEW p \in Points, Goto(h, k, p)
    PROVE  /\ pc'[h][k] = p
           /\ \A y \in Containers : y # k => pc'[h][y] = pc[h][y]
           /\ k \in Counted(h)' => Counted(h)' = Counted(h) \cup {k}
           /\ k \notin Counted(h)' => Counted(h)' = Counted(h) \ {k}
<1>1. pc'[h][k] = p /\ \A y \in Containers : y # k => pc'[h][y] = pc[h][y]
  BY DEF Goto, TypeOK
<1>2. \A y \in Containers : y # k => (y \in Counted(h)' <=> y \in Counted(h))
  BY <1>1 DEF Counted
<1>3. Counted(h) \subseteq Containers /\ Counted(h)' \subseteq Containers
  BY DEF Counted
<1> QED BY <1>1, <1>2, <1>3

LEMMA CountedSize ==
    ASSUME NEW h \in Hosts
    PROVE  /\ IsFiniteSet(Counted(h)) /\ Cardinality(Counted(h)) \in Nat
           /\ Cardinality(Counted(h)) = 0 <=> Counted(h) = {}
           /\ \A k \in Containers :
                /\ k \notin Counted(h) =>
                     Cardinality(Counted(h) \cup {k}) = Cardinality(Counted(h)) + 1
                /\ k \in Counted(h) =>
                     Cardinality(Counted(h) \ {k}) = Cardinality(Counted(h)) - 1
<1>1. IsFiniteSet(Counted(h))
  BY FS_Subset, ConstantsAssumption DEF Counted
<1>2. Cardinality(Counted(h)) \in Nat /\ (Cardinality(Counted(h)) = 0 <=> Counted(h) = {})
  BY <1>1, FS_CardinalityType, FS_EmptySet
<1>3. ASSUME NEW k \in Containers, k \notin Counted(h)
      PROVE  Cardinality(Counted(h) \cup {k}) = Cardinality(Counted(h)) + 1
  BY <1>1, <1>3, FS_AddElement
<1>4. ASSUME NEW k \in Containers, k \in Counted(h)
      PROVE  Cardinality(Counted(h) \ {k}) = Cardinality(Counted(h)) - 1
  BY <1>1, <1>4, FS_RemoveElement
<1> QED BY <1>1, <1>2, <1>3, <1>4

--------------------------------------------------------------------------------
(* The lock of a locked volume that one host uses. *)

(* Moving on from a point that is not followed by a swap. *)
LEMMA GrantedMove ==
    ASSUME TypeOK, NEW h \in Hosts, NEW k \in Containers, NEW p \in Points, Granted(h),
           Goto(h, k, p), \A y \in Containers : y # k => ~InFlight(h, y),
           \A g \in Refreshers : refresher[h][g] # "stop", UNCHANGED <<host>>,
           use'.content \in {Absent, h},
           use'.ttl => \E g \in Refreshers : refresher'[h][g] # "none",
           \A g \in Refreshers : refresher'[h][g] = "stop" => p \in RestPoints,
           p \in SwapPoints => HeldBy(use', h)
    PROVE  Granted(h)'
<1>1. pc'[h][k] = p /\ \A y \in Containers : y # k => pc'[h][y] \in RestPoints
  BY CountedAfter DEF InFlight
<1>2. RestPoints \cap SwapPoints = {}
  BY DEF RestPoints, SwapPoints
<1>3. OneRequest(h)'
  BY <1>1 DEF OneRequest, InFlight
<1>4. \A g \in Refreshers : refresher'[h][g] = "stop" =>
        \A y \in Containers : ~(InFlight(h, y))'
  BY <1>1 DEF InFlight
<1>5. \A y \in Containers : pc'[h][y] \in SwapPoints => HeldBy(use', h)
  BY <1>1, <1>2
<1> QED BY <1>3, <1>4, <1>5 DEF Granted

LEMMA GrantedHandler ==
    ASSUME EvenEnvironment, ~Unlocked, TypeOK, NEW h \in Hosts, NEW k \in Containers,
           Granted(h), HandlerStep(h, k)
    PROVE  Granted(h)' /\ ~PublishRefused(h, k)
<1>1. /\ \A y \in Containers : y # k => ~InFlight(h, y)
      /\ \A g \in Refreshers : refresher[h][g] # "stop"
      /\ host' = host
  BY HandlerIsLocal DEF Granted, OneRequest
<1>2. ~PublishRefused(h, k)
  BY DEF PublishRefused, Granted, SwapPoints, SwapSucceeds
<1> SUFFICES Granted(h)'
  BY <1>2
<1>3. ASSUME use' = use, refresher' = refresher, NEW p \in Points \ SwapPoints, Goto(h, k, p)
      PROVE  Granted(h)'
  <2>1. /\ use'.content \in {Absent, h}
        /\ use'.ttl => \E g \in Refreshers : refresher'[h][g] # "none"
        /\ \A g \in Refreshers : refresher'[h][g] # "stop"
    BY <1>1, <1>3 DEF Granted
  <2> QED BY <1>1, <1>3, <2>1, GrantedMove
<1>4. ASSUME use' = Permanent(h) \/ use' = Free, refresher' = refresher,
             NEW p \in Points \ SwapPoints, Goto(h, k, p)
      PROVE  Granted(h)'
  <2>1. use'.content \in {Absent, h} /\ ~use'.ttl
    BY <1>4 DEF Permanent, Free
  <2> QED BY <1>1, <1>4, <2>1, GrantedMove
<1>5. CASE PublishCreate(h, k)
  <2>1. /\ AfterPublish(pc[h][k]) \in Points \ SwapPoints
        /\ SwapPoint(pc[h][k]) \in Points
    BY <1>5 DEF PublishCreate, AfterPublish, SwapPoint, Points, MountPoints, UnmountPoints,
                RestPoints, SwapPoints
  <2>2. CASE CreateSucceeds(use)
    BY <1>4, <1>5, <2>1, <2>2 DEF PublishCreate
  <2>3. CASE ~CreateSucceeds(use)
    <3>1. HeldBy(use, h) /\ use' = use /\ refresher' = refresher /\ Goto(h, k, SwapPoint(pc[h][k]))
      BY <1>5, <2>3 DEF PublishCreate, CreateSucceeds, Granted, HeldBy
    <3>2. /\ use'.content \in {Absent, h}
          /\ use'.ttl => \E g \in Refreshers : refresher'[h][g] # "none"
          /\ \A g \in Refreshers : refresher'[h][g] # "stop"
      BY <1>1, <3>1 DEF Granted
    <3> QED BY <1>1, <2>1, <3>1, <3>2, GrantedMove
  <2> QED BY <2>2, <2>3
<1>6. CASE PublishSwap(h, k)
  <2>1. AfterPublish(pc[h][k]) \in Points \ SwapPoints
    BY <1>6 DEF PublishSwap, AfterPublish, Points, MountPoints, UnmountPoints, RestPoints, SwapPoints
  <2> QED BY <1>4, <1>6, <2>1 DEF PublishSwap
<1>7. CASE ClearLock(h, k)
  <2>1. "undo" \in Points \ SwapPoints
    BY DEF Points, MountPoints, UnmountPoints, RestPoints, SwapPoints
  <2> QED BY <1>4, <1>7, <2>1 DEF ClearLock, AfterRemove
<1>8. CASE SpawnRefresher(h, k)
  <2>1. PICK g \in Refreshers : /\ refresher[h][g] = "none"
                                /\ refresher' = [refresher EXCEPT ![h][g] = "run"]
    BY <1>8 DEF SpawnRefresher
  <2>2. /\ use' = use /\ Goto(h, k, "running")
        /\ refresher'[h][g] # "none"
        /\ \A f \in Refreshers : refresher'[h][f] # "stop"
    BY <1>1, <1>8, <2>1 DEF SpawnRefresher, TypeOK
  <2>3. "running" \in (RestPoints \cap Points) \ SwapPoints
    BY DEF Points, MountPoints, UnmountPoints, RestPoints, SwapPoints
  <2> QED BY <1>1, <2>2, <2>3, GrantedMove DEF Granted
<1>9. CASE StopRefresher(h, k)
  <2>1. use' = use /\ Goto(h, k, "idle")
    BY <1>9 DEF StopRefresher
  <2>2. \A g \in Refreshers : refresher[h][g] # "none" => refresher'[h][g] # "none"
    BY <1>9 DEF StopRefresher, RemoveStopChan, TypeOK
  <2>3. "idle" \in (RestPoints \cap Points) \ SwapPoints
    BY DEF Points, MountPoints, UnmountPoints, RestPoints, SwapPoints
  <2> QED BY <1>1, <2>1, <2>2, <2>3, GrantedMove DEF Granted
<1>10. CASE CountAdd(h, k) \/ DriverMount(h, k) \/ DriverMountFails(h, k) \/ CollectionAdd(h, k)
  <2>1. PICK p \in {"mDriver", "running", "undo", "mCollect", "mClearUnmount", "mRefresh"} :
          Goto(h, k, p)
    BY <1>10 DEF CountAdd, DriverMount, DriverMountFails, CollectionAdd
  <2>2. use' = use /\ refresher' = refresher
    BY <1>10 DEF CountAdd, DriverMount, DriverMountFails, CollectionAdd
  <2>3. p \in Points \ SwapPoints
    BY DEF Points, MountPoints, UnmountPoints, RestPoints, SwapPoints
  <2> QED BY <1>3, <2>1, <2>2, <2>3
<1>11. CASE \/ ClearUnmount(h, k) \/ ClearLockTimeout(h, k) \/ CountSub(h, k)
            \/ DriverUnmount(h, k) \/ DriverUnmountFails(h, k) \/ CollectionRemove(h, k)
  <2>1. PICK p \in {"mClearLock", "undo", "uDriver", "idle", "uRemove", "uStop"} : Goto(h, k, p)
    BY <1>11 DEF ClearUnmount, ClearLockTimeout, CountSub, DriverUnmount, DriverUnmountFails,
                 CollectionRemove
  <2>2. use' = use /\ refresher' = refresher
    BY <1>11 DEF ClearUnmount, ClearLockTimeout, CountSub, DriverUnmount, DriverUnmountFails,
                 CollectionRemove
  <2>3. p \in Points \ SwapPoints
    BY DEF Points, MountPoints, UnmountPoints, RestPoints, SwapPoints
  <2> QED BY <1>3, <2>1, <2>2, <2>3
<1> QED BY <1>2, <1>5, <1>6, <1>7, <1>8, <1>9, <1>10, <1>11 DEF HandlerStep

LEMMA GrantedOther ==
    ASSUME EvenEnvironment, ~Unlocked, TypeOK, NEW h \in Hosts, Granted(h),
           \/ \E k \in Containers : DockerStep(h, k)
           \/ \E g \in Refreshers : RefresherStep(h, g)
           \/ HostStep(h)
           \/ Expire
    PROVE  Granted(h)'
<1>0. Payload(h) = h /\ h # Absent
  BY ConstantsAssumption DEF Payload
<1>1. ASSUME NEW k \in Containers, DockerStep(h, k) PROVE Granted(h)'
  <2>1. /\ MaySend(h)
        /\ UNCHANGED <<use, host, refresher>>
    BY <1>1 DEF DockerStep, MountStart, MountLookupFails, UnmountStart, UnmountLookupFails,
                UnmountLost, Granted, EvenEnvironment
  <2>2. PICK p \in {"mPublish", "uPublish", "undo", "idle"} : Goto(h, k, p)
    BY <1>1 DEF DockerStep, MountStart, MountLookupFails, UnmountStart, UnmountLookupFails,
                UnmountLost
  <2>3. /\ \A y \in Containers : y # k => ~InFlight(h, y)
        /\ \A g \in Refreshers : refresher[h][g] # "stop"
    BY <2>1 DEF MaySend, EvenEnvironment
  <2>4. p \in Points \ SwapPoints
    BY DEF Points, MountPoints, UnmountPoints, RestPoints, SwapPoints
  <2> QED BY <2>1, <2>2, <2>3, <2>4, GrantedMove DEF Granted
<1>2. ASSUME NEW g \in Refreshers, Refresh(h, g) PROVE Granted(h)'
  BY <1>0, <1>2 DEF Refresh, Leased, Granted, OneRequest, InFlight, HeldBy
<1>3. ASSUME NEW g \in Refreshers, RefresherStops(h, g) PROVE Granted(h)'
  <2>1. \A k \in Containers : ~InFlight(h, k)
    BY <1>3 DEF RefresherStops, Granted
  <2>2. use'.content = Absent /\ ~use'.ttl
    BY <1>0, <1>3 DEF RefresherStops, AfterRemove, RemoveSucceeds, HeldBy, Granted, Free, TypeOK
  <2>3. \A k \in Containers : pc'[h][k] \in RestPoints
    BY <1>3, <2>1 DEF RefresherStops, InFlight
  <2>4. host'[h] = "up"
    BY <1>3 DEF RefresherStops, Granted
  <2> QED BY <2>2, <2>3, <2>4 DEF Granted, OneRequest, InFlight, RestPoints, SwapPoints
<1>4. ~HostStep(h)
  BY DEF HostStep, DaemonCrash, Restart, HostCrash, HostBoot, EvenEnvironment, Granted
<1>5. ~Expire
  <2> SUFFICES ASSUME Expire PROVE FALSE
    OBVIOUS
  <2>1. use.ttl /\ use.content = h
    BY DEF Expire, MayExpire, Granted, TypeOK
  <2>2. Abandoned(h)
    BY <2>1 DEF Expire, EvenEnvironment
  <2> QED BY <1>0, <2>1, <2>2 DEF Abandoned, Granted
<1> QED BY <1>1, <1>2, <1>3, <1>4, <1>5 DEF RefresherStep

(* The requests of an unlocked volume keep clear of the lock. *)
LEMMA LocklessStep ==
    ASSUME Unlocked, TypeOK, NEW h \in Hosts, NEW k \in Containers, Lockless(h),
           HandlerStep(h, k) \/ DockerStep(h, k)
    PROVE  Lockless(h)' /\ ~PublishRefused(h, k)
<1>1. /\ ~PublishCreate(h, k) /\ ~PublishSwap(h, k) /\ ~PublishRefused(h, k)
      /\ ~SpawnRefresher(h, k) /\ ~StopRefresher(h, k)
  BY DEF Lockless, LockPoints, PublishCreate, PublishSwap, PublishRefused, SpawnRefresher,
         StopRefresher
<1>2. ASSUME NEW p \in Points \ LockPoints, Goto(h, k, p) PROVE Lockless(h)'
  BY <1>2, CountedAfter DEF Lockless
<1>3. CASE DockerStep(h, k)
  <2>1. PICK p \in {"mCount", "undo", "uCount", "idle"} : Goto(h, k, p)
    BY <1>3 DEF DockerStep, MountStart, MountLookupFails, UnmountStart, UnmountLookupFails,
                UnmountLost
  <2>2. p \in Points \ LockPoints
    BY DEF Points, MountPoints, UnmountPoints, RestPoints, LockPoints
  <2> QED BY <1>1, <1>2, <2>1, <2>2
<1>4. CASE HandlerStep(h, k)
  <2>1. \/ CountAdd(h, k) \/ DriverMount(h, k) \/ DriverMountFails(h, k) \/ CollectionAdd(h, k)
        \/ ClearUnmount(h, k) \/ ClearLock(h, k) \/ ClearLockTimeout(h, k) \/ CountSub(h, k)
        \/ DriverUnmount(h, k) \/ DriverUnmountFails(h, k) \/ CollectionRemove(h, k)
    BY <1>1, <1>4 DEF HandlerStep
  <2>2. PICK p \in {"mDriver", "running", "undo", "mCollect", "mClearUnmount", "mClearLock",
                    "uDriver", "idle", "uRemove"} : Goto(h, k, p)
    BY <2>1 DEF CountAdd, DriverMount, DriverMountFails, CollectionAdd, ClearUnmount, ClearLock,
                ClearLockTimeout, CountSub, DriverUnmount, DriverUnmountFails, CollectionRemove
  <2>3. p \in Points \ LockPoints
    BY DEF Points, MountPoints, UnmountPoints, RestPoints, LockPoints
  <2> QED BY <1>1, <1>2, <2>2, <2>3
<1> QED BY <1>3, <1>4

--------------------------------------------------------------------------------
(* The counter.                                                            *)

(* A step that neither counts nor counts off. *)
LEMMA EvenMove ==
    ASSUME TypeOK, NEW h \in Hosts, NEW k \in Containers, NEW p \in Points, Even(h),
           Goto(h, k, p), host'[h] = "up", counter'[h] = counter[h],
           k \in Counted(h)' <=> k \in Counted(h)
    PROVE  Even(h)'
<1>1. Counted(h)' = Counted(h)
  BY CountedAfter
<1> QED BY <1>1 DEF Even

LEMMA EvenHandler ==
    ASSUME TypeOK, NEW h \in Hosts, NEW k \in Containers, Even(h), HandlerStep(h, k),
           ~PublishRefused(h, k)
    PROVE  Even(h)'
<1>0. host'[h] = "up"
  BY HandlerIsLocal DEF Even, InFlight, RestPoints
<1>1. ASSUME NEW p \in Points, Goto(h, k, p), counter' = counter,
             k \in Counted(h)' <=> k \in Counted(h)
      PROVE  Even(h)'
  BY <1>0, <1>1, EvenMove
<1>2. ASSUME NEW p \in Points, Goto(h, k, p)
      PROVE  pc'[h][k] = p
  BY <1>2, CountedAfter
<1>3. CASE CountAdd(h, k)
  <2>1. PICK p \in {"mDriver", "running", "undo"} : Goto(h, k, p)
    BY <1>3 DEF CountAdd
  <2>2. p \in Points
    BY DEF Points, MountPoints, RestPoints
  <2>3. k \notin Counted(h) /\ k \in Counted(h)'
    BY <1>2, <1>3, <2>1, <2>2 DEF CountAdd, Counted
  <2>4. Counted(h)' = Counted(h) \cup {k}
    BY <2>1, <2>2, <2>3, CountedAfter
  <2>5. counter'[h] = counter[h] + 1
    BY <1>3 DEF CountAdd, TypeOK
  <2> QED BY <1>0, <2>3, <2>4, <2>5, CountedSize DEF Even
<1>4. CASE CountSub(h, k)
  <2>1. PICK p \in {"uDriver", "idle"} : Goto(h, k, p)
    BY <1>4 DEF CountSub
  <2>2. p \in Points
    BY DEF Points, UnmountPoints, RestPoints
  <2>3. k \in Counted(h) /\ k \notin Counted(h)'
    BY <1>2, <1>4, <2>1, <2>2 DEF CountSub, Counted
  <2>4. Counted(h)' = Counted(h) \ {k}
    BY <2>1, <2>2, <2>3, CountedAfter
  <2>5. counter'[h] = counter[h] - 1
    BY <1>4 DEF CountSub, TypeOK
  <2> QED BY <1>0, <2>3, <2>4, <2>5, CountedSize DEF Even
<1>5. CASE PublishCreate(h, k) \/ PublishSwap(h, k)
  <2>1. PICK p \in {AfterPublish(pc[h][k]), SwapPoint(pc[h][k])} :
          /\ Goto(h, k, p)
          /\ pc[h][k] \in {"mPublish", "mRefresh", "uPublish"} \/ p = AfterPublish(pc[h][k])
    BY <1>5 DEF PublishCreate, PublishSwap
  <2>2. pc[h][k] \in {"mPublish", "mRefresh", "uPublish", "mSwap", "mReswap", "uSwap"}
    BY <1>5 DEF PublishCreate, PublishSwap
  <2>3. \/ pc[h][k] \in {"mPublish", "mSwap"} /\ p \in {"mCount", "mSwap"}
        \/ pc[h][k] \in {"mRefresh", "mReswap"} /\ p \in {"mSpawn", "mReswap"}
        \/ pc[h][k] \in {"uPublish", "uSwap"} /\ p \in {"uCount", "uSwap"}
    BY <2>1, <2>2 DEF AfterPublish, SwapPoint
  <2>4. p \in Points /\ counter' = counter
    BY <1>5, <2>3 DEF Points, MountPoints, UnmountPoints, PublishCreate, PublishSwap
  <2>5. pc'[h][k] = p
    BY <1>2, <2>1, <2>4
  <2> QED BY <1>1, <2>1, <2>3, <2>4, <2>5 DEF Counted
<1>6. CASE \/ DriverMount(h, k) \/ DriverMountFails(h, k) \/ CollectionAdd(h, k)
           \/ SpawnRefresher(h, k) \/ ClearUnmount(h, k) \/ ClearLock(h, k)
           \/ ClearLockTimeout(h, k)
  <2>1. PICK p \in {"mCollect", "mClearUnmount", "undo", "running", "mRefresh", "mClearLock"} :
          Goto(h, k, p)
    BY <1>6 DEF DriverMount, DriverMountFails, CollectionAdd, SpawnRefresher, ClearUnmount,
                ClearLock, ClearLockTimeout
  <2>2. counter' = counter /\ pc[h][k] \in {"mDriver", "mCollect", "mSpawn", "mClearUnmount",
                                            "mClearLock"}
    BY <1>6 DEF DriverMount, DriverMountFails, CollectionAdd, SpawnRefresher, ClearUnmount,
                ClearLock, ClearLockTimeout
  <2>3. p \in Points
    BY DEF Points, MountPoints, RestPoints
  <2> QED BY <1>1, <1>2, <2>1, <2>2, <2>3 DEF Counted
<1>7. CASE \/ DriverUnmount(h, k) \/ DriverUnmountFails(h, k) \/ CollectionRemove(h, k)
           \/ StopRefresher(h, k)
  <2>1. PICK p \in {"uRemove", "idle", "uStop"} : Goto(h, k, p)
    BY <1>7 DEF DriverUnmount, DriverUnmountFails, CollectionRemove, StopRefresher
  <2>2. counter' = counter /\ pc[h][k] \in {"uDriver", "uRemove", "uStop"}
    BY <1>7 DEF DriverUnmount, DriverUnmountFails, CollectionRemove, StopRefresher
  <2>3. p \in Points
    BY DEF Points, UnmountPoints, RestPoints
  <2> QED BY <1>1, <1>2, <2>1, <2>2, <2>3 DEF Counted
<1> QED BY <1>3, <1>4, <1>5, <1>6, <1>7 DEF HandlerStep

(* A daemon that is not there has no requests and no counter. *)
LEMMA NobodyCounted ==
    ASSUME NEW h \in Hosts, \A k \in Containers : pc[h][k] = "idle"
    PROVE  Counted(h) = {} /\ Running(h) = {} /\ Cardinality({}) = 0
BY FS_EmptySet DEF Counted, Running

LEMMA EvenOther ==
    ASSUME EvenEnvironment, TypeOK, NEW h \in Hosts, Even(h),
           \/ \E k \in Containers : DockerStep(h, k)
           \/ \E g \in Refreshers : RefresherStep(h, g)
           \/ HostStep(h)
    PROVE  Even(h)'
<1>1. ASSUME NEW k \in Containers, DockerStep(h, k) PROVE Even(h)'
  <2>1. MountStart(h, k) \/ UnmountStart(h, k)
    BY <1>1 DEF DockerStep, MountLookupFails, UnmountLookupFails, UnmountLost, Even, EvenEnvironment
  <2>2. PICK p \in {"mCount", "mPublish", "uCount", "uPublish"} : Goto(h, k, p)
    BY <2>1 DEF MountStart, UnmountStart
  <2>3. p \in Points
    BY DEF Points, MountPoints, UnmountPoints
  <2>4. host'[h] = "up" /\ counter'[h] = counter[h]
    BY <2>1 DEF MountStart, UnmountStart, MaySend
  <2>5. k \in Counted(h)' <=> k \in Counted(h)
    <3>1. CASE MountStart(h, k)
      <4>1. pc[h][k] = "idle" /\ pc'[h][k] \in {"mCount", "mPublish"}
        BY <3>1 DEF MountStart, Goto, TypeOK
      <4> QED BY <4>1 DEF Counted
    <3>2. CASE UnmountStart(h, k)
      <4>1. pc[h][k] \in {"running", "undo"} /\ pc'[h][k] \in {"uCount", "uPublish"}
        BY <3>2 DEF UnmountStart, Goto, TypeOK
      <4> QED BY <4>1 DEF Counted
    <3> QED BY <2>1, <3>1, <3>2
  <2> QED BY <2>2, <2>3, <2>4, <2>5, EvenMove
<1>2. ASSUME NEW g \in Refreshers, RefresherStep(h, g) PROVE Even(h)'
  BY <1>2 DEF RefresherStep, Refresh, RefresherStops, Even, Counted
<1>3. CASE HostCrash(h)
  <2>1. counter'[h] = 0 /\ \A k \in Containers : pc'[h][k] = "idle"
    BY <1>3 DEF HostCrash, ForgetDaemon, TypeOK
  <2>2. Counted(h)' = {}
    BY <2>1 DEF Counted
  <2> QED BY <2>1, <2>2, FS_EmptySet DEF Even
<1>4. CASE HostBoot(h)
  <2>1. host[h] # "up" /\ pc' = pc /\ counter' = counter
    BY <1>4 DEF HostBoot
  <2> QED BY <2>1 DEF Even, Counted
<1>5. CASE Restart(h)
  <2>1. (\A k \in Containers : pc[h][k] = "idle") /\ pc' = pc
    BY <1>5 DEF Restart, Even
  <2>2. counter'[h] = 0
    <3>1. Cardinality(Running(h)) = 0 /\ counter[h] = 0
      BY <2>1, NobodyCounted DEF Even
    <3>2. counter' = counter \/ counter' = [counter EXCEPT ![h] = Cardinality(Running(h))]
      BY <1>5 DEF Restart
    <3> QED BY <3>1, <3>2 DEF TypeOK
  <2>3. Counted(h)' = {} /\ Cardinality({}) = 0
    BY <2>1, NobodyCounted DEF Counted
  <2> QED BY <2>1, <2>2, <2>3 DEF Even
<1>6. ~DaemonCrash(h)
  BY DEF DaemonCrash, EvenEnvironment
<1> QED BY <1>1, <1>2, <1>3, <1>4, <1>5, <1>6 DEF HostStep

(* What a step of a host does to the others' side of it. *)
LEMMA CountElsewhere ==
    ASSUME EvenEnvironment, CountInv, NEW h \in Hosts, Local(h), NEW x \in Hosts, x # h
    PROVE  LockSide(x)' /\ Even(x)'
<1>1. Unlocked
  BY DEF EvenEnvironment
<1>2. LockSide(x) /\ Even(x)
  BY DEF CountInv
<1> QED BY <1>1, <1>2 DEF Local, LockSide, Lockless, Even, Counted

LEMMA CountNext == EvenEnvironment /\ CountInv /\ [Next]_vars => CountInv'
<1> SUFFICES ASSUME EvenEnvironment, CountInv, [Next]_vars PROVE CountInv'
  OBVIOUS
<1>0. TypeOK /\ TypeOK'
  BY TypeNext DEF CountInv
<1>1. ASSUME NEW h \in Hosts, NEW k \in Containers, HandlerStep(h, k) PROVE CountInv'
  <2>1. LockSide(h) /\ Even(h)
    BY DEF CountInv
  <2>2. LockSide(h)' /\ ~PublishRefused(h, k)
    BY <1>0, <1>1, <2>1, LocklessStep, GrantedHandler DEF LockSide
  <2>3. Even(h)'
    BY <1>0, <1>1, <2>1, <2>2, EvenHandler
  <2>4. Local(h)
    BY <1>0, <1>1, HandlerIsLocal
  <2> QED BY <1>0, <2>2, <2>3, <2>4, CountElsewhere DEF CountInv
<1>2. ASSUME NEW h \in Hosts,
             \/ \E k \in Containers : DockerStep(h, k)
             \/ \E g \in Refreshers : RefresherStep(h, g)
             \/ HostStep(h)
      PROVE  CountInv'
  <2>1. LockSide(h) /\ Even(h)
    BY DEF CountInv
  <2>2. Even(h)' /\ Local(h)
    BY <1>0, <1>2, <2>1, EvenOther, OtherIsLocal
  <2>3. LockSide(h)'
    <3>1. CASE Unlocked
      <4>1. ASSUME NEW g \in Refreshers, RefresherStep(h, g) PROVE Lockless(h)'
        BY <2>1, <3>1, <4>1 DEF RefresherStep, Refresh, RefresherStops, Lockless, LockSide
      <4>2. ASSUME HostStep(h) PROVE Lockless(h)'
        BY <1>0, <2>1, <3>1, <4>2 DEF HostStep, DaemonCrash, Restart, HostCrash, HostBoot,
           EvenEnvironment, Lockless, LockSide, LockPoints, TypeOK
      <4> QED BY <1>0, <1>2, <2>1, <3>1, <4>1, <4>2, LocklessStep DEF LockSide
    <3>2. CASE ~Unlocked
      BY <1>0, <1>2, <2>1, <3>2, GrantedOther DEF LockSide
    <3> QED BY <3>1, <3>2
  <2> QED BY <1>0, <2>2, <2>3, CountElsewhere DEF CountInv
<1>3. CASE Expire
  <2>1. UNCHANGED <<host, counter, refresher, pc>>
    BY <1>3 DEF Expire
  <2>2. ASSUME NEW h \in Hosts PROVE LockSide(h)' /\ Even(h)'
    <3>1. LockSide(h) /\ Even(h)
      BY DEF CountInv
    <3>2. Even(h)'
      BY <2>1, <3>1 DEF Even, Counted
    <3>3. CASE Unlocked
      BY <2>1, <3>1, <3>2, <3>3 DEF LockSide, Lockless
    <3>4. CASE ~Unlocked
      BY <1>0, <1>3, <3>1, <3>2, <3>4, GrantedOther DEF LockSide
    <3> QED BY <3>3, <3>4
  <2> QED BY <1>0, <2>2 DEF CountInv
<1>4. CASE UNCHANGED vars
  <2>1. ASSUME NEW h \in Hosts PROVE LockSide(h)' /\ Even(h)'
    <3>1. LockSide(h) /\ Even(h)
      BY DEF CountInv
    <3> QED BY <1>4, <3>1 DEF vars, LockSide, Lockless, Granted, OneRequest, InFlight, Even, Counted
  <2> QED BY <1>0, <2>1 DEF CountInv
<1> QED BY <1>1, <1>2, <1>3, <1>4 DEF Next

LEMMA CountInit == Init => CountInv
<1> SUFFICES ASSUME Init PROVE CountInv
  OBVIOUS
<1>1. ASSUME NEW h \in Hosts PROVE LockSide(h) /\ Even(h)
  <2>1. /\ host[h] = "up" /\ counter[h] = 0 /\ use = Free
        /\ \A k \in Containers : pc[h][k] = "idle"
        /\ \A g \in Refreshers : refresher[h][g] = "none"
    BY DEF Init
  <2>2. Even(h)
    BY <2>1, NobodyCounted DEF Even
  <2>3. LockSide(h)
    BY <2>1 DEF LockSide, Lockless, Granted, LockPoints, SwapPoints, OneRequest, InFlight,
                RestPoints, Free
  <2> QED BY <2>2, <2>3
<1> QED BY <1>1, TypeInit DEF CountInv

(* MountCounter: it is the number of containers that use the volume or owe *)
(* an Unmount, in any interleaving of the requests for an unlocked volume  *)
(* and of the requests of one host for a locked one, whatever the driver   *)
(* refuses.                                                                *)
THEOREM CounterMatchesHolds == ASSUME EvenEnvironment PROVE Spec => []CounterMatches
<1>1. CountInv /\ [Next]_vars => CountInv'
  BY CountNext
<1>2. CountInv => CounterMatches
  BY DEF CountInv, Even, CounterMatches
<1> QED BY <1>1, <1>2, CountInit, PTL DEF Spec

--------------------------------------------------------------------------------
(* The mount and its users.                                                *)

(* Moving one request on while the others rest. *)
LEMMA UsedMove ==
    ASSUME TypeOK, NEW h \in Hosts, NEW k \in Containers, NEW p \in Points,
           Goto(h, k, p), Used(h), \A y \in Containers : y # k => ~InFlight(h, y),
           HasUsers(h)', Sole(h, k)', Last(h, k)', Shared => Served(h, k)',
           mounted[h] =>
               mounted'[h] \/ \A y \in Containers : y # k => pc[h][y] # "running"
    PROVE  Used(h)'
<1>1. /\ pc'[h][k] = p
      /\ \A y \in Containers : y # k => pc'[h][y] = pc[h][y] /\ pc[h][y] \in RestPoints
  BY CountedAfter DEF InFlight
<1>2. OneRequest(h)'
  BY <1>1 DEF OneRequest, InFlight
<1>3. ASSUME NEW y \in Containers, y # k
      PROVE  Sole(h, y)' /\ Last(h, y)' /\ (Shared => Served(h, y)')
  <2>1. pc'[h][y] = pc[h][y] /\ pc[h][y] \in {"idle", "running", "undo"}
    BY <1>1, <1>3 DEF RestPoints
  <2>2. Sole(h, y)' /\ Last(h, y)'
    BY <2>1 DEF Sole, Last
  <2>3. Shared => Served(h, y)'
    BY <1>3, <2>1 DEF Served, Used
  <2> QED BY <2>2, <2>3
<1> QED BY <1>2, <1>3 DEF Used

LEMMA UsedHandler ==
    ASSUME OrderlyEnvironment, TypeOK, NEW h \in Hosts, NEW k \in Containers, Used(h), Even(h),
           HandlerStep(h, k), ~PublishRefused(h, k)
    PROVE  Used(h)'
<1>0. \A y \in Containers : y # k => ~InFlight(h, y)
  BY HandlerIsLocal DEF Used, OneRequest
<1>1. \A y \in Containers : y # k => pc[h][y] \in {"idle", "running", "undo"}
  BY <1>0 DEF InFlight, RestPoints
<1>2. HasUsers(h) /\ Sole(h, k) /\ Last(h, k) /\ (Shared => Served(h, k))
  BY DEF Used
<1>3. ASSUME NEW p \in Points, Goto(h, k, p)
      PROVE  /\ pc'[h][k] = p
             /\ k \in Counted(h)' => Counted(h)' = Counted(h) \cup {k}
             /\ k \notin Counted(h)' => Counted(h)' = Counted(h) \ {k}
  BY <1>3, CountedAfter
<1>4. CASE PublishCreate(h, k) \/ PublishSwap(h, k)
  <2>1. PICK p \in {AfterPublish(pc[h][k]), SwapPoint(pc[h][k])} :
          /\ Goto(h, k, p)
          /\ pc[h][k] \in {"mPublish", "mRefresh", "uPublish"} \/ p = AfterPublish(pc[h][k])
    BY <1>4 DEF PublishCreate, PublishSwap
  <2>2. pc[h][k] \in {"mPublish", "mRefresh", "uPublish", "mSwap", "mReswap", "uSwap"}
        /\ mounted' = mounted /\ collection' = collection
    BY <1>4 DEF PublishCreate, PublishSwap
  <2>3. \/ pc[h][k] \in {"mPublish", "mSwap"} /\ p \in {"mCount", "mSwap"}
        \/ pc[h][k] \in {"mRefresh", "mReswap"} /\ p \in {"mSpawn", "mReswap"}
        \/ pc[h][k] \in {"uPublish", "uSwap"} /\ p \in {"uCount", "uSwap"}
    BY <2>1, <2>2 DEF AfterPublish, SwapPoint
  <2>4. p \in Points
    BY <2>3 DEF Points, MountPoints, UnmountPoints
  <2>5. pc'[h][k] = p
    BY <1>3, <2>1, <2>4
  <2>6. k \in Counted(h)' <=> k \in Counted(h)
    BY <2>3, <2>5 DEF Counted
  <2>7. Counted(h)' = Counted(h)
    BY <1>3, <2>1, <2>4, <2>6
  <2>8. Sole(h, k)' /\ Last(h, k)' /\ (Shared => Served(h, k)')
    BY <1>2, <2>2, <2>3, <2>5, <2>7 DEF Sole, Last, Served
  <2>9. HasUsers(h)'
    BY <1>1, <1>2, <2>2, <2>3, <2>7 DEF HasUsers
  <2> QED BY <1>0, <2>1, <2>2, <2>4, <2>8, <2>9, UsedMove
<1>5. CASE CountAdd(h, k)
  <2>1. pc[h][k] = "mCount" /\ mounted' = mounted /\ collection' = collection
    BY <1>5 DEF CountAdd
  <2>2. k \notin Counted(h)
    BY <2>1 DEF Counted
  <2>3. CASE Counted(h) = {}
    <3>1. Goto(h, k, "mDriver")
      <4>1. counter[h] = 0
        BY <2>3, CountedSize DEF Even
      <4> QED BY <1>5, <4>1 DEF CountAdd
    <3>2. "mDriver" \in Points
      BY DEF Points, MountPoints
    <3>3. pc'[h][k] = "mDriver"
      BY <1>3, <3>1, <3>2
    <3>4. Counted(h)' = {k}
      <4>1. k \in Counted(h)'
        BY <3>3 DEF Counted
      <4> QED BY <1>3, <2>3, <3>1, <3>2, <4>1
    <3>5. ~mounted[h] /\ ~collection[h]
      BY <1>1, <1>2, <2>1, <2>3 DEF HasUsers
    <3>6. Sole(h, k)' /\ Last(h, k)' /\ (Shared => Served(h, k)') /\ HasUsers(h)'
      BY <2>1, <3>3, <3>4, <3>5 DEF Sole, Last, Served, HasUsers
    <3> QED BY <1>0, <2>1, <3>1, <3>2, <3>6, UsedMove
  <2>4. CASE Counted(h) # {}
    <3>1. counter[h] \in Nat \ {0}
      BY <2>4, CountedSize DEF Even
    <3>2. Goto(h, k, IF Unlocked THEN "running" ELSE "undo")
      BY <1>5, <3>1 DEF CountAdd
    <3> DEFINE p == IF Unlocked THEN "running" ELSE "undo"
    <3>3. p \in {"running", "undo"} /\ p \in Points /\ (p = "undo" => ~Unlocked)
          /\ (p = "running" => Unlocked)
      BY DEF Points, RestPoints
    <3> HIDE DEF p
    <3>4. pc'[h][k] = p
      BY <1>3, <3>2, <3>3 DEF p
    <3>5. k \in Counted(h)'
      BY <3>3, <3>4 DEF Counted
    <3>6. Sole(h, k)' /\ Last(h, k)' /\ HasUsers(h)'
      BY <3>3, <3>4, <3>5 DEF Sole, Last, HasUsers
    <3>7. ASSUME Shared, Unlocked PROVE mounted[h]
      <4>1. PICK y \in Counted(h) : y # k
        BY <2>2, <2>4
      <4>2. y \in Containers /\ pc[h][y] \in {"running", "undo"}
        BY <1>1, <4>1 DEF Counted
      <4>3. Served(h, y)
        BY <3>7, <4>2 DEF Used
      <4> QED BY <3>7, <4>2, <4>3 DEF Served
    <3>8. Shared => Served(h, k)'
      BY <2>1, <3>3, <3>4, <3>7 DEF Served
    <3> QED BY <1>0, <2>1, <3>2, <3>3, <3>6, <3>8, UsedMove DEF p
  <2> QED BY <2>3, <2>4
<1>6. CASE CountSub(h, k)
  <2>1. pc[h][k] = "uCount" /\ mounted' = mounted /\ collection' = collection
    BY <1>6 DEF CountSub
  <2>2. k \in Counted(h)
    BY <2>1 DEF Counted
  <2>3. Cardinality(Counted(h) \ {k}) = counter[h] - 1
    BY <2>2, CountedSize DEF Even
  <2>4. Counted(h) \ {k} = {} <=> counter[h] - 1 = 0
    BY <2>3, CountedSize, FS_EmptySet, FS_RemoveElement
  <2>5. CASE Counted(h) \ {k} = {}
    <3>1. Goto(h, k, "uDriver")
      BY <1>6, <2>4, <2>5 DEF CountSub
    <3>2. "uDriver" \in Points
      BY DEF Points, UnmountPoints
    <3>3. pc'[h][k] = "uDriver"
      BY <1>3, <3>1, <3>2
    <3>4. Counted(h)' = {}
      <4>1. k \notin Counted(h)'
        BY <3>3 DEF Counted
      <4> QED BY <1>3, <2>5, <3>1, <3>2, <4>1
    <3>5. Sole(h, k)' /\ Last(h, k)' /\ (Shared => Served(h, k)') /\ HasUsers(h)'
      BY <2>1, <3>3, <3>4 DEF Sole, Last, Served, HasUsers
    <3> QED BY <1>0, <2>1, <3>1, <3>2, <3>5, UsedMove
  <2>6. CASE Counted(h) \ {k} # {}
    <3>1. Goto(h, k, "idle")
      BY <1>6, <2>4, <2>6 DEF CountSub
    <3>2. "idle" \in Points
      BY DEF Points, RestPoints
    <3>3. pc'[h][k] = "idle"
      BY <1>3, <3>1, <3>2
    <3>4. Counted(h)' # {}
      <4>1. k \notin Counted(h)'
        BY <3>3 DEF Counted
      <4> QED BY <1>3, <2>6, <3>1, <3>2, <4>1
    <3>5. Sole(h, k)' /\ Last(h, k)' /\ (Shared => Served(h, k)') /\ HasUsers(h)'
      BY <3>3, <3>4 DEF Sole, Last, Served, HasUsers
    <3> QED BY <1>0, <2>1, <3>1, <3>2, <3>5, UsedMove
  <2> QED BY <2>5, <2>6
<1>7. ASSUME NEW p \in {"mCollect", "mRefresh", "running", "mClearUnmount", "mClearLock", "undo"},
             Goto(h, k, p), Counted(h) = {k},
             p \in {"mCollect", "mRefresh", "running"} => mounted'[h],
             p = "mCollect" => ~collection'[h],
             Shared /\ Unlocked => p \notin {"undo", "mClearUnmount", "mClearLock"}
      PROVE  Used(h)'
  <2>1. p \in Points
    BY DEF Points, MountPoints, RestPoints
  <2>2. pc'[h][k] = p
    BY <1>3, <1>7, <2>1
  <2>3. Counted(h)' = {k}
    <3>1. k \in Counted(h)'
      BY <2>2 DEF Counted
    <3> QED BY <1>3, <1>7, <2>1, <3>1
  <2>4. HasUsers(h)' /\ Sole(h, k)' /\ Last(h, k)' /\ (Shared => Served(h, k)')
    BY <1>7, <2>2, <2>3 DEF HasUsers, Sole, Last, Served
  <2>5. \A y \in Containers : y # k => pc[h][y] # "running"
    BY <1>7 DEF Counted
  <2> QED BY <1>0, <1>7, <2>1, <2>4, <2>5, UsedMove
<1>8. CASE DriverMount(h, k)
  <2>1. Counted(h) = {k} /\ ~collection[h] /\ collection' = collection /\ Goto(h, k, "mCollect")
    BY <1>2, <1>8 DEF DriverMount, Sole
  <2>2. mounted'[h]
    BY <1>8 DEF DriverMount, TypeOK
  <2> QED BY <1>7, <2>1, <2>2
<1>9. CASE DriverMountFails(h, k)
  <2>1. Counted(h) = {k} /\ "mount" \in Allow /\ Goto(h, k, "mClearUnmount")
    BY <1>2, <1>9 DEF DriverMountFails, Sole
  <2> QED BY <1>7, <2>1 DEF Shared
<1>10. CASE CollectionAdd(h, k)
  <2>1. Counted(h) = {k} /\ ~collection[h] /\ mounted[h] /\ mounted' = mounted
    BY <1>2, <1>10 DEF CollectionAdd, Sole
  <2>2. PICK p \in {"running", "mRefresh"} : Goto(h, k, p)
    BY <1>10, <2>1 DEF CollectionAdd
  <2> QED BY <1>7, <2>1, <2>2
<1>11. CASE SpawnRefresher(h, k)
  BY <1>2, <1>7, <1>11 DEF SpawnRefresher, Sole
<1>12. CASE ClearUnmount(h, k)
  BY <1>2, <1>7, <1>12 DEF ClearUnmount, Sole, Served
<1>13. CASE ClearLock(h, k) \/ ClearLockTimeout(h, k)
  BY <1>2, <1>7, <1>13 DEF ClearLock, ClearLockTimeout, Sole, Served
<1>14. ASSUME NEW p \in {"uRemove", "uStop", "idle"}, Goto(h, k, p), Counted(h) = {},
              ~mounted'[h], p \in {"uStop", "idle"} => ~collection'[h]
       PROVE  Used(h)'
  <2>1. p \in Points
    BY DEF Points, UnmountPoints, RestPoints
  <2>2. pc'[h][k] = p
    BY <1>3, <1>14, <2>1
  <2>3. Counted(h)' = {}
    <3>1. k \notin Counted(h)'
      BY <2>2 DEF Counted
    <3> QED BY <1>3, <1>14, <2>1, <3>1
  <2>4. HasUsers(h)' /\ Sole(h, k)' /\ Last(h, k)' /\ (Shared => Served(h, k)')
    BY <1>14, <2>2, <2>3 DEF HasUsers, Sole, Last, Served
  <2>5. \A y \in Containers : pc[h][y] # "running"
    BY <1>14 DEF Counted
  <2> QED BY <1>0, <1>14, <2>1, <2>4, <2>5, UsedMove
<1>15. CASE DriverUnmount(h, k)
  <2>1. ~mounted'[h]
    BY <1>15 DEF DriverUnmount, TypeOK
  <2> QED BY <1>2, <1>14, <1>15, <2>1 DEF DriverUnmount, Last
<1>16. CASE CollectionRemove(h, k)
  <2>1. Counted(h) = {} /\ ~mounted[h] /\ mounted' = mounted
    BY <1>2, <1>16 DEF CollectionRemove, Last
  <2>2. ~collection'[h] /\ \E p \in {"idle", "uStop"} : Goto(h, k, p)
    BY <1>16 DEF CollectionRemove, TypeOK
  <2> QED BY <1>14, <2>1, <2>2
<1>17. CASE StopRefresher(h, k)
  BY <1>2, <1>14, <1>17 DEF StopRefresher, Last
<1>18. ~DriverUnmountFails(h, k)
  BY DEF DriverUnmountFails, OrderlyEnvironment
<1> QED BY <1>4, <1>5, <1>6, <1>8, <1>9, <1>10, <1>11, <1>12, <1>13, <1>15, <1>16, <1>17, <1>18
        DEF HandlerStep

(* Nothing of what Used is about has changed. *)
LEMMA UsedSame ==
    ASSUME NEW h \in Hosts, Used(h), pc'[h] = pc[h], mounted'[h] = mounted[h],
           collection'[h] = collection[h]
    PROVE  Used(h)'
BY DEF Used, OneRequest, InFlight, HasUsers, Sole, Last, Served, Counted

LEMMA UsedOther ==
    ASSUME OrderlyEnvironment, TypeOK, NEW h \in Hosts, Used(h), Even(h),
           \/ \E k \in Containers : DockerStep(h, k)
           \/ \E g \in Refreshers : RefresherStep(h, g)
           \/ HostStep(h)
    PROVE  Used(h)'
<1>1. ASSUME NEW k \in Containers, DockerStep(h, k) PROVE Used(h)'
  <2>1. MountStart(h, k) \/ UnmountStart(h, k)
    BY <1>1 DEF DockerStep, MountLookupFails, UnmountLookupFails, UnmountLost, Even,
                OrderlyEnvironment, EvenEnvironment
  <2>2. /\ \A y \in Containers : ~InFlight(h, y)
        /\ mounted' = mounted /\ collection' = collection
    BY <2>1 DEF MountStart, UnmountStart, MaySend, OrderlyEnvironment
  <2>3. PICK p \in {"mCount", "mPublish", "uCount", "uPublish"} :
          /\ Goto(h, k, p)
          /\ \/ pc[h][k] = "idle" /\ p \in {"mCount", "mPublish"}
             \/ pc[h][k] \in {"running", "undo"} /\ p \in {"uCount", "uPublish"}
    BY <2>1 DEF MountStart, UnmountStart
  <2>4. p \in Points
    BY DEF Points, MountPoints, UnmountPoints
  <2>5. pc'[h][k] = p
    BY <2>3, <2>4, CountedAfter
  <2>6. k \in Counted(h)' <=> k \in Counted(h)
    BY <2>3, <2>5 DEF Counted
  <2>7. Counted(h)' = Counted(h)
    BY <2>3, <2>4, <2>6, CountedAfter
  <2>8. Sole(h, k)' /\ Last(h, k)' /\ (Shared => Served(h, k)')
    BY <2>5 DEF Sole, Last, Served
  <2>9. mounted[h] \/ collection[h] => Counted(h) # {}
    BY <2>2 DEF Used, HasUsers, InFlight, RestPoints
  <2>10. HasUsers(h)'
    BY <2>2, <2>7, <2>9 DEF HasUsers
  <2> QED BY <2>2, <2>3, <2>4, <2>8, <2>10, UsedMove
<1>2. ASSUME NEW g \in Refreshers, RefresherStep(h, g) PROVE Used(h)'
  BY <1>2, UsedSame DEF RefresherStep, Refresh, RefresherStops
<1>3. CASE HostCrash(h)
  <2>1. ~mounted'[h] /\ ~collection'[h] /\ \A k \in Containers : pc'[h][k] = "idle"
    BY <1>3 DEF HostCrash, ForgetDaemon, TypeOK
  <2> QED BY <2>1 DEF Used, OneRequest, InFlight, RestPoints, HasUsers, Sole, Last, Served
<1>4. CASE HostBoot(h)
  BY <1>4, UsedSame DEF HostBoot
<1>5. CASE Restart(h)
  <2>1. \A k \in Containers : pc[h][k] = "idle"
    BY <1>5 DEF Restart, Even
  <2>2. ~mounted[h]
    BY <2>1, NobodyCounted DEF Used, HasUsers
  <2> QED BY <1>5, <2>2, UsedSame DEF Restart
<1>6. ~DaemonCrash(h)
  BY DEF DaemonCrash, OrderlyEnvironment, EvenEnvironment
<1> QED BY <1>1, <1>2, <1>3, <1>4, <1>5, <1>6 DEF HostStep

LEMMA UseNext == OrderlyEnvironment /\ UseInv /\ [Next]_vars => UseInv'
<1> SUFFICES ASSUME OrderlyEnvironment, UseInv, [Next]_vars PROVE UseInv'
  OBVIOUS
<1>0. TypeOK /\ EvenEnvironment /\ CountInv /\ CountInv'
  BY CountNext DEF UseInv, CountInv, OrderlyEnvironment
<1>1. ASSUME NEW h \in Hosts, Local(h), Used(h)' PROVE UseInv'
  <2>1. ASSUME NEW x \in Hosts, x # h PROVE Used(x)'
    BY <1>1, <2>1, UsedSame DEF Local, UseInv
  <2> QED BY <1>0, <1>1, <2>1 DEF UseInv
<1>2. ASSUME NEW h \in Hosts PROVE Used(h) /\ Even(h) /\ LockSide(h)
  BY DEF UseInv, CountInv
<1>3. ASSUME NEW h \in Hosts, NEW k \in Containers, HandlerStep(h, k) PROVE UseInv'
  <2>1. ~PublishRefused(h, k)
    BY <1>0, <1>2, <1>3, LocklessStep, GrantedHandler DEF LockSide
  <2>2. Used(h)'
    BY <1>0, <1>2, <1>3, <2>1, UsedHandler
  <2> QED BY <1>0, <1>1, <1>3, <2>2, HandlerIsLocal
<1>4. ASSUME NEW h \in Hosts,
             \/ \E k \in Containers : DockerStep(h, k)
             \/ \E g \in Refreshers : RefresherStep(h, g)
             \/ HostStep(h)
      PROVE  UseInv'
  BY <1>0, <1>1, <1>2, <1>4, UsedOther, OtherIsLocal
<1>5. CASE Expire \/ UNCHANGED vars
  BY <1>0, <1>2, <1>5, UsedSame DEF Expire, vars, UseInv
<1> QED BY <1>3, <1>4, <1>5 DEF Next

(* Mount, Unmount and the counter between them: a mount has its users, and *)
(* the requests at each control point find what they rely on.              *)
THEOREM UseInvariant == ASSUME OrderlyEnvironment PROVE Spec => []UseInv
<1>1. ASSUME Init PROVE UseInv
  <2>1. ASSUME NEW h \in Hosts PROVE Used(h)
    BY <1>1 DEF Init, Used, OneRequest, InFlight, RestPoints, HasUsers, Sole, Last, Served
  <2> QED BY <1>1, <2>1, CountInit DEF UseInv
<1>2. UseInv /\ [Next]_vars => UseInv'
  BY UseNext
<1> QED BY <1>1, <1>2, PTL DEF Spec

(* Mount: driver.Mount is not called for what the host has mounted, nor    *)
(* Collection.Add for what it has, even after mounts that failed.          *)
THEOREM MountsOnceHolds == ASSUME OrderlyEnvironment PROVE Spec => []MountsOnce
<1>1. UseInv => MountsOnce
  BY DEF UseInv, Used, Sole, MountsOnce
<1> QED BY <1>1, UseInvariant, PTL

(* Mount and Unmount: no request takes the mount from a container that     *)
(* runs, if an unlocked volume's first Mount does not fail.                *)
THEOREM RunningKeepsMountHolds ==
    ASSUME OrderlyEnvironment, Shared PROVE Spec => []RunningKeepsMount
<1>1. UseInv => RunningKeepsMount
  BY DEF UseInv, Used, Served, RunningKeepsMount
<1> QED BY <1>1, UseInvariant, PTL

--------------------------------------------------------------------------------
(* The lease of a mount is kept, and can be ended.                         *)

(* The requests of h that stand at one of the points. *)
At(h, S) == \E k \in Containers : pc[h][k] \in S

(* The points of startTTLRefresh. *)
Spawning == {"mRefresh", "mReswap", "mSpawn"}

(* Mount, startTTLRefresh: a mount on a host whose daemon runs has a       *)
(* refresh goroutine that runs and that the table of stop channels knows,  *)
(* or the Mount that made it has still to start one or to undo the mount.  *)
MountIsRefreshed ==
    \A h \in Hosts : host[h] = "up" /\ mounted[h] =>
        \/ \E g \in Refreshers : refresher[h][g] = "run" /\ stopChan[h] = g
        \/ At(h, Spawning \cup {"mCollect", "mClearUnmount"})

(* Unmount, RemoveStopChan: every goroutine that refreshes is the one whose *)
(* channel is in the table, so that an Unmount can stop it.                *)
NoStrayRefresher ==
    \A h \in Hosts, g \in Refreshers : refresher[h][g] = "run" => stopChan[h] = g

(* How the goroutines, the channel, the collection and the mount of a host *)
(* belong together: the collection has the volume from CollectionAdd to    *)
(* CollectionRemove, the channel is there from SpawnRefresher to the stop  *)
(* that follows the latter.                                                *)
Lease(h) ==
    /\ \A g \in Refreshers : refresher[h][g] = "run" => stopChan[h] = g
    /\ stopChan[h] # NoChan =>
          refresher[h][stopChan[h]] = "run" /\ (collection[h] \/ At(h, {"uStop"}))
    /\ At(h, Spawning) => stopChan[h] = NoChan /\ collection[h]
    /\ collection[h] => (stopChan[h] # NoChan \/ At(h, Spawning)) /\ ~At(h, {"uStop"})
    /\ host[h] = "up" /\ mounted[h] =>
          stopChan[h] # NoChan \/ At(h, Spawning \cup {"mCollect", "mClearUnmount"})
    /\ host[h] # "up" => stopChan[h] = NoChan /\ ~collection[h]

(* With the invariant of the mounts it is inductive.                       *)
LeaseInv == MountInv /\ \A h \in Hosts : Lease(h)

(* Where a host's requests stand when one of them moves and no other is in *)
(* progress.                                                               *)
LEMMA AtAfter ==
    ASSUME TypeOK, NEW h \in Hosts, NEW k \in Containers, NEW p, Goto(h, k, p),
           \A y \in Containers : y # k => ~InFlight(h, y),
           NEW S, S \cap RestPoints = {}
    PROVE  (At(h, S) <=> pc[h][k] \in S) /\ (At(h, S)' <=> p \in S)
<1>1. /\ pc'[h][k] = p
      /\ \A y \in Containers : y # k => pc'[h][y] = pc[h][y] /\ pc[h][y] \in RestPoints
  BY DEF Goto, TypeOK, InFlight
<1> QED BY <1>1 DEF At

(* Requests at rest are at none of these points.                           *)
LEMMA RestDisjoint ==
    /\ Spawning \cap RestPoints = {} /\ {"uStop"} \cap RestPoints = {}
    /\ (Spawning \cup {"mCollect", "mClearUnmount"}) \cap RestPoints = {}
BY DEF Spawning, RestPoints

(* A handler's steps: what they do to the goroutines and to the mount.     *)
LEMMA LeaseHandler ==
    ASSUME CalmEnvironment, MountInv, NEW h \in Hosts, NEW k \in Containers,
           HandlerStep(h, k), Lease(h)
    PROVE  Lease(h)' /\ \A x \in Hosts : x # h => stopChan'[x] = stopChan[x]
<1>0. /\ TypeOK /\ HostInv(h) /\ InFlight(h, k) /\ host' = host /\ ~Unlocked
  BY HandlerIsLocal DEF MountInv, CalmEnvironment
<1>1. \A y \in Containers : y # k => ~InFlight(h, y)
  BY <1>0 DEF HostInv, OneRequest
<1>2. host[h] = "up"
  BY <1>0 DEF HostInv, NoDaemonNoActivity
<1>3. ASSUME NEW p, Goto(h, k, p)
      PROVE  /\ At(h, Spawning) <=> pc[h][k] \in Spawning
             /\ At(h, Spawning)' <=> p \in Spawning
             /\ At(h, {"uStop"}) <=> pc[h][k] = "uStop"
             /\ At(h, {"uStop"})' <=> p = "uStop"
             /\ At(h, Spawning \cup {"mCollect", "mClearUnmount"}) <=>
                  pc[h][k] \in Spawning \cup {"mCollect", "mClearUnmount"}
             /\ At(h, Spawning \cup {"mCollect", "mClearUnmount"})' <=>
                  p \in Spawning \cup {"mCollect", "mClearUnmount"}
  <2>1. ASSUME NEW S, S \cap RestPoints = {}
        PROVE  (At(h, S) <=> pc[h][k] \in S) /\ (At(h, S)' <=> p \in S)
    BY <1>0, <1>1, <1>3, <2>1, AtAfter
  <2> QED BY <2>1, RestDisjoint
<1> HIDE DEF At
(* Moves that leave goroutines, collection and mount alone. *)
<1>4. ASSUME NEW p, Goto(h, k, p), UNCHANGED <<stopChan, refresher, collection, mounted>>,
             pc[h][k] \in Spawning <=> p \in Spawning,
             pc[h][k] # "uStop", p # "uStop",
             pc[h][k] \in {"mCollect", "mClearUnmount"} => p \in {"mCollect", "mClearUnmount"}
      PROVE  Lease(h)' /\ \A x \in Hosts : x # h => stopChan'[x] = stopChan[x]
  BY <1>0, <1>3, <1>4 DEF Lease
<1>5. CASE PublishCreate(h, k) \/ PublishSwap(h, k)
  <2>1. PICK p \in {AfterPublish(pc[h][k]), SwapPoint(pc[h][k])} :
          /\ Goto(h, k, p)
          /\ pc[h][k] \in {"mPublish", "mRefresh", "uPublish"} \/ p = AfterPublish(pc[h][k])
    BY <1>5 DEF PublishCreate, PublishSwap
  <2>2. pc[h][k] \in {"mPublish", "mRefresh", "uPublish", "mSwap", "mReswap", "uSwap"}
        /\ UNCHANGED <<stopChan, refresher, collection, mounted>>
    BY <1>5 DEF PublishCreate, PublishSwap
  <2>3. \/ pc[h][k] \in {"mPublish", "mSwap"} /\ p \in {"mCount", "mSwap"}
        \/ pc[h][k] \in {"mRefresh", "mReswap"} /\ p \in {"mSpawn", "mReswap"}
        \/ pc[h][k] \in {"uPublish", "uSwap"} /\ p \in {"uCount", "uSwap"}
    BY <2>1, <2>2 DEF AfterPublish, SwapPoint
  <2> QED BY <1>4, <2>1, <2>2, <2>3 DEF Spawning
<1>6. CASE PublishRefused(h, k)
  <2>1. pc[h][k] # "mReswap"
    BY <1>0, <1>6 DEF PublishRefused, SwapSucceeds, HostInv, HoldersSecured, HoldPoints, Secured
  <2>2. /\ UNCHANGED <<stopChan, refresher, collection, mounted>>
        /\ pc[h][k] \in {"mSwap", "uSwap"} /\ \E p \in {"undo", "idle"} : Goto(h, k, p)
    BY <1>6, <2>1 DEF PublishRefused
  <2> QED BY <1>4, <2>2 DEF Spawning
<1>7. CASE CountAdd(h, k) \/ CountSub(h, k)
  <2>1. /\ UNCHANGED <<stopChan, refresher, collection, mounted>>
        /\ pc[h][k] \in {"mCount", "uCount"}
        /\ \E p \in {"mDriver", "undo", "uDriver", "idle"} : Goto(h, k, p)
    BY <1>0, <1>7 DEF CountAdd, CountSub
  <2> QED BY <1>4, <2>1 DEF Spawning
<1>8. CASE DriverMountFails(h, k) \/ ClearLock(h, k) \/ ClearLockTimeout(h, k)
  <2>1. /\ UNCHANGED <<stopChan, refresher, collection, mounted>>
        /\ pc[h][k] \in {"mDriver", "mClearLock"}
        /\ \E p \in {"mClearUnmount", "undo"} : Goto(h, k, p)
    BY <1>8 DEF DriverMountFails, ClearLock, ClearLockTimeout
  <2> QED BY <1>4, <2>1 DEF Spawning
<1>9. CASE DriverMount(h, k)
  <2>1. pc[h][k] = "mDriver" /\ Goto(h, k, "mCollect") /\ UNCHANGED <<stopChan, refresher, collection>>
    BY <1>9 DEF DriverMount
  <2> QED BY <1>0, <1>3, <2>1 DEF Lease, Spawning
<1>10. CASE CollectionAdd(h, k)
  <2>1. /\ pc[h][k] = "mCollect" /\ collection'[h] /\ UNCHANGED <<stopChan, refresher, mounted>>
        /\ Goto(h, k, IF collection[h] THEN "undo" ELSE "mRefresh")
    BY <1>0, <1>10 DEF CollectionAdd, TypeOK
  <2>2. CASE collection[h]
    BY <1>0, <1>3, <2>1, <2>2 DEF Lease, Spawning
  <2>3. CASE ~collection[h]
    <3>1. stopChan[h] = NoChan
      BY <1>3, <2>1, <2>3 DEF Lease
    <3>2. Goto(h, k, "mRefresh")
      BY <2>1, <2>3
    <3>3. At(h, Spawning)' /\ At(h, Spawning \cup {"mCollect", "mClearUnmount"})' /\ ~At(h, {"uStop"})'
      BY <1>3, <3>2 DEF Spawning
    <3>4. stopChan'[h] = NoChan /\ collection'[h] /\ host'[h] = "up" /\ refresher'[h] = refresher[h]
      BY <1>0, <1>2, <2>1, <3>1
    <3>5. Lease(h)'
      BY <3>1, <3>3, <3>4 DEF Lease
    <3> QED BY <2>1, <3>5
  <2> QED BY <2>2, <2>3
<1>11. CASE SpawnRefresher(h, k)
  <2>1. pc[h][k] = "mSpawn" /\ Goto(h, k, "running") /\ UNCHANGED <<collection, mounted>>
    BY <1>11 DEF SpawnRefresher
  <2>2. PICK g \in Refreshers :
          /\ refresher' = [refresher EXCEPT ![h][g] = "run"]
          /\ stopChan' = [stopChan EXCEPT ![h] = g]
    BY <1>11 DEF SpawnRefresher
  <2>3. stopChan[h] = NoChan /\ collection' = collection
    BY <1>3, <2>1 DEF Lease, Spawning
  <2>4. /\ stopChan'[h] = g /\ refresher'[h][g] = "run" /\ g # NoChan
        /\ \A f \in Refreshers : f # g => refresher'[h][f] = refresher[h][f]
        /\ \A x \in Hosts : x # h => stopChan'[x] = stopChan[x]
    BY <1>0, <2>2, ConstantsAssumption DEF TypeOK
  <2>5. \A f \in Refreshers : refresher'[h][f] = "run" => f = g
    BY <2>3, <2>4, ConstantsAssumption DEF Lease
  <2>6. collection[h]
    <3>1. At(h, Spawning)
      BY <1>3, <2>1 DEF Spawning
    <3> QED BY <3>1 DEF Lease
  <2> QED BY <1>0, <1>2, <1>3, <2>1, <2>4, <2>5, <2>6 DEF Lease, Spawning
<1>12. CASE ClearUnmount(h, k)
  <2>1. /\ pc[h][k] = "mClearUnmount" /\ Goto(h, k, "mClearLock") /\ ~mounted'[h]
        /\ UNCHANGED <<stopChan, refresher, collection>>
    BY <1>0, <1>12 DEF ClearUnmount, CalmEnvironment, TypeOK
  <2> QED BY <1>0, <1>3, <2>1 DEF Lease, Spawning
<1>13. CASE DriverUnmount(h, k)
  <2>1. /\ pc[h][k] = "uDriver" /\ Goto(h, k, "uRemove") /\ ~mounted'[h]
        /\ UNCHANGED <<stopChan, refresher, collection>>
    BY <1>0, <1>13 DEF DriverUnmount, TypeOK
  <2> QED BY <1>0, <1>3, <2>1 DEF Lease, Spawning
<1>14. CASE CollectionRemove(h, k)
  <2>1. /\ pc[h][k] = "uRemove" /\ Goto(h, k, "uStop") /\ ~collection'[h]
        /\ UNCHANGED <<stopChan, refresher, mounted>>
    BY <1>0, <1>14 DEF CollectionRemove, TypeOK
  <2> QED BY <1>0, <1>3, <2>1 DEF Lease, Spawning
<1>15. CASE StopRefresher(h, k)
  <2>1. /\ pc[h][k] = "uStop" /\ Goto(h, k, "idle") /\ UNCHANGED <<collection, mounted>>
        /\ RemoveStopChan(h)
    BY <1>15 DEF StopRefresher
  <2>2. ~mounted[h] /\ ~collection[h]
    BY <1>0, <1>3, <2>1 DEF Lease, HostInv, ReleasedUnmounted, ReleasePoints
  <2>3. /\ stopChan'[h] = NoChan
        /\ \A x \in Hosts : x # h => stopChan'[x] = stopChan[x]
        /\ \A g \in Refreshers : refresher'[h][g] # "run"
    <3>1. stopChan' = [stopChan EXCEPT ![h] = NoChan]
      BY <2>1 DEF RemoveStopChan
    <3>2. CASE stopChan[h] = NoChan
      BY <1>0, <2>1, <3>1, <3>2, ConstantsAssumption DEF RemoveStopChan, TypeOK, Lease
    <3>3. CASE stopChan[h] # NoChan
      <4>1. refresher' = [refresher EXCEPT ![h][stopChan[h]] = "stop"] /\ stopChan[h] \in Refreshers
        BY <1>0, <2>1, <3>3 DEF RemoveStopChan, TypeOK
      <4>2. \A g \in Refreshers : refresher'[h][g] = IF g = stopChan[h] THEN "stop" ELSE refresher[h][g]
        BY <1>0, <4>1 DEF TypeOK
      <4>3. \A g \in Refreshers : refresher[h][g] = "run" => g = stopChan[h]
        BY DEF Lease
      <4>4. \A g \in Refreshers : refresher'[h][g] # "run"
        BY <4>2, <4>3
      <4> QED BY <1>0, <3>1, <4>4 DEF TypeOK
    <3> QED BY <3>2, <3>3
  <2> QED BY <1>0, <1>3, <2>1, <2>2, <2>3 DEF Lease, Spawning
<1>16. ~DriverUnmountFails(h, k)
  BY DEF DriverUnmountFails, CalmEnvironment
<1> QED BY <1>5, <1>6, <1>7, <1>8, <1>9, <1>10, <1>11, <1>12, <1>13, <1>14, <1>15, <1>16
        DEF HandlerStep

(* Nothing of what Lease is about has changed.                             *)
LEMMA LeaseSame ==
    ASSUME NEW h \in Hosts, Lease(h), pc'[h] = pc[h], mounted'[h] = mounted[h], host'[h] = host[h],
           collection'[h] = collection[h], refresher'[h] = refresher[h], stopChan'[h] = stopChan[h]
    PROVE  Lease(h)'
BY DEF Lease, At

(* Requests are sent, goroutines act, and daemons and hosts come and go.   *)
LEMMA LeaseOther ==
    ASSUME CalmEnvironment, MountInv, NEW h \in Hosts, Lease(h),
           \/ \E k \in Containers : DockerStep(h, k)
           \/ \E g \in Refreshers : RefresherStep(h, g)
           \/ HostStep(h)
    PROVE  Lease(h)' /\ \A x \in Hosts : x # h => stopChan'[x] = stopChan[x]
<1>0. TypeOK /\ HostInv(h) /\ ~Unlocked
  BY DEF MountInv, CalmEnvironment
<1>1. ASSUME NEW k \in Containers, DockerStep(h, k)
      PROVE  Lease(h)' /\ \A x \in Hosts : x # h => stopChan'[x] = stopChan[x]
  <2>1. UNCHANGED <<host, mounted, collection, stopChan, refresher>>
    BY <1>1 DEF DockerStep, MountStart, MountLookupFails, UnmountStart, UnmountLookupFails, UnmountLost
  <2>2. PICK p \in RestPoints \cup {"mPublish", "uPublish"} : Goto(h, k, p)
    BY <1>0, <1>1 DEF DockerStep, MountStart, MountLookupFails, UnmountStart, UnmountLookupFails,
                      UnmountLost, RestPoints
  <2>3. \A y \in Containers : ~InFlight(h, y)
    <3>1. CASE MaySend(h)
      BY <3>1 DEF MaySend, CalmEnvironment
    <3>2. CASE UnmountLost(h, k)
      BY <1>0, <3>2 DEF UnmountLost, HostInv, NoDaemonNoActivity
    <3> QED BY <1>1, <3>1, <3>2 DEF DockerStep, MountStart, MountLookupFails, UnmountStart,
                                    UnmountLookupFails
  <2>4. ASSUME NEW S \in {Spawning, {"uStop"}, Spawning \cup {"mCollect", "mClearUnmount"}}
        PROVE  ~At(h, S) /\ ~At(h, S)'
    <3>1. S \cap RestPoints = {} /\ "mPublish" \notin S /\ "uPublish" \notin S
      BY RestDisjoint DEF Spawning
    <3>2. (At(h, S) <=> pc[h][k] \in S) /\ (At(h, S)' <=> p \in S)
      BY <1>0, <2>2, <2>3, <3>1, AtAfter
    <3> QED BY <2>2, <2>3, <3>1, <3>2 DEF InFlight
  <2> QED BY <2>1, <2>4 DEF Lease
<1>2. ASSUME NEW g \in Refreshers, RefresherStep(h, g)
      PROVE  Lease(h)' /\ \A x \in Hosts : x # h => stopChan'[x] = stopChan[x]
  <2>1. UNCHANGED <<host, mounted, collection, stopChan, pc>>
    BY <1>2 DEF RefresherStep, Refresh, RefresherStops
  <2>2. CASE Refresh(h, g)
    BY <2>1, <2>2, LeaseSame DEF Refresh
  <2>3. CASE RefresherStops(h, g)
    <3>1. /\ refresher[h][g] = "stop" /\ refresher'[h][g] = "none"
          /\ \A f \in Refreshers : f # g => refresher'[h][f] = refresher[h][f]
      BY <1>0, <2>3 DEF RefresherStops, TypeOK
    <3>2. \A f \in Refreshers : refresher'[h][f] = "run" <=> refresher[h][f] = "run"
      BY <3>1
    <3>3. stopChan[h] # NoChan => stopChan[h] \in Refreshers
      BY <1>0 DEF TypeOK
    <3> QED BY <2>1, <3>2, <3>3 DEF Lease, At
  <2> QED BY <1>2, <2>2, <2>3 DEF RefresherStep
<1>3. CASE DaemonCrash(h) \/ HostCrash(h)
  <2>1. /\ host'[h] # "up" /\ stopChan' = [stopChan EXCEPT ![h] = NoChan] /\ ~collection'[h]
        /\ \A g \in Refreshers : refresher'[h][g] = "none"
        /\ \A k \in Containers : pc'[h][k] \in RestPoints
    BY <1>0, <1>3 DEF DaemonCrash, HostCrash, ForgetDaemon, TypeOK, RestPoints
  <2>2. ~At(h, Spawning)'
    BY <2>1, RestDisjoint DEF At
  <2> QED BY <1>0, <2>1, <2>2 DEF Lease, TypeOK
<1>4. CASE HostBoot(h)
  <2>1. host[h] # "up" /\ host'[h] # "up" /\ UNCHANGED <<mounted, collection, stopChan, refresher, pc>>
    BY <1>0, <1>4 DEF HostBoot, TypeOK
  <2> QED BY <2>1 DEF Lease, At
<1>5. CASE Restart(h)
  <2>1. /\ \A k \in Containers : pc[h][k] \in RestPoints
        /\ \A g \in Refreshers : refresher[h][g] = "none"
        /\ stopChan[h] = NoChan /\ ~collection[h]
    BY <1>0, <1>5 DEF Restart, HostInv, NoDaemonNoActivity, InFlight, Lease
  <2>2. ASSUME NEW S \in {Spawning, {"uStop"}} PROVE ~At(h, S)'
    <3>1. S \cap RestPoints = {} /\ pc' = pc
      BY <1>5, RestDisjoint DEF Restart
    <3> QED BY <2>1, <3>1 DEF At
  <2>3. CASE mounted[h]
    <3>1. PICK g \in Refreshers : /\ refresher' = [refresher EXCEPT ![h][g] = "run"]
                                  /\ stopChan' = [stopChan EXCEPT ![h] = g]
      BY <1>5, <2>3 DEF Restart
    <3>2. collection'[h] /\ host'[h] = "up"
      BY <1>0, <1>5, <2>3 DEF Restart, TypeOK
    <3>3. /\ stopChan'[h] = g /\ g # NoChan /\ refresher'[h][g] = "run"
          /\ \A f \in Refreshers : f # g => refresher'[h][f] = "none"
          /\ \A x \in Hosts : x # h => stopChan'[x] = stopChan[x]
      BY <1>0, <2>1, <3>1, ConstantsAssumption DEF TypeOK
    <3> QED BY <2>2, <3>2, <3>3 DEF Lease
  <2>4. CASE ~mounted[h]
    <3>1. UNCHANGED <<mounted, collection, stopChan, refresher>>
      BY <1>5, <2>4 DEF Restart
    <3>2. host'[h] = "up"
      BY <1>0, <1>5 DEF Restart, TypeOK
    <3> QED BY <2>1, <2>2, <2>4, <3>1, <3>2 DEF Lease
  <2> QED BY <2>3, <2>4
<1> QED BY <1>1, <1>2, <1>3, <1>4, <1>5 DEF HostStep

(* Mount, Unmount and restarts: no mount is left without its goroutine and *)
(* no goroutine without its channel, whatever dies and whichever lookups   *)
(* and mounts fail.  It is what RunningIsLeased needs besides the fairness *)
(* of the goroutines, for any number of hosts and containers.              *)
THEOREM MountIsRefreshedHolds ==
    ASSUME CalmEnvironment PROVE Spec => [](MountIsRefreshed /\ NoStrayRefresher)
<1>1. ASSUME Init PROVE LeaseInv
  <2>1. ASSUME NEW h \in Hosts PROVE Lease(h)
    BY <1>1 DEF Init, Lease, At, Spawning
  <2> QED BY <1>1, <2>1, InvInit DEF LeaseInv
<1>2. ASSUME LeaseInv, [Next]_vars PROVE LeaseInv'
  <2>0. MountInv /\ MountInv' /\ TypeOK /\ \A h \in Hosts : Lease(h)
    BY <1>2, InvNext DEF LeaseInv, MountInv
  <2>1. ASSUME NEW h \in Hosts, Local(h), Lease(h)',
               \A x \in Hosts : x # h => stopChan'[x] = stopChan[x]
        PROVE  LeaseInv'
    <3>1. ASSUME NEW x \in Hosts, x # h PROVE Lease(x)'
      BY <2>0, <2>1, <3>1, LeaseSame DEF Local
    <3> QED BY <2>0, <2>1, <3>1 DEF LeaseInv
  <2>2. ASSUME NEW h \in Hosts, NEW k \in Containers, HandlerStep(h, k) PROVE LeaseInv'
    BY <2>0, <2>1, <2>2, LeaseHandler, HandlerIsLocal
  <2>3. ASSUME NEW h \in Hosts,
               \/ \E k \in Containers : DockerStep(h, k)
               \/ \E g \in Refreshers : RefresherStep(h, g)
               \/ HostStep(h)
        PROVE  LeaseInv'
    BY <2>0, <2>1, <2>3, LeaseOther, OtherIsLocal
  <2>4. CASE Expire \/ UNCHANGED vars
    BY <2>0, <2>4, LeaseSame DEF Expire, vars, LeaseInv
  <2> QED BY <1>2, <2>2, <2>3, <2>4 DEF Next
<1>3. ASSUME LeaseInv PROVE MountIsRefreshed /\ NoStrayRefresher
  <2>1. ASSUME NEW h \in Hosts, stopChan[h] # NoChan
        PROVE  stopChan[h] \in Refreshers /\ refresher[h][stopChan[h]] = "run"
    BY <1>3, <2>1 DEF LeaseInv, Lease, MountInv, TypeOK
  <2> QED BY <1>3, <2>1 DEF LeaseInv, Lease, MountIsRefreshed, NoStrayRefresher
<1> QED BY <1>1, <1>2, <1>3, PTL DEF Spec
================================================================================
