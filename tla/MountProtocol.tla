----------------------------- MODULE MountProtocol -----------------------------
(***************************************************************************)
(* The mount protocol of volplugin: how the volplugin daemons of several   *)
(* hosts mount and unmount ONE volume for their Docker engines, under the  *)
(* volume's mount lock in etcd.                                            *)
(*                                                                         *)
(* Modelled: the Mount and Unmount handlers (api/handlers.go) step by      *)
(* step, one step for each access to shared state; the mount counter and   *)
(* the mount collection (api/internals/mount); the TTL refresh goroutines  *)
(* and their stop channels (lock/lock.go, api/api.go); the recovery of     *)
(* mounts when a daemon starts (volplugin/init.go); crashes of daemons and *)
(* of hosts; failures of the storage driver; expiry of the lock's TTL.     *)
(*                                                                         *)
(* Docker is external and modelled from what the handlers' comments say of *)
(* it: a container asks for one Mount; a failed Mount is followed by an    *)
(* Unmount; a container that ran is followed by an Unmount.                *)
(***************************************************************************)
EXTENDS Integers, FiniteSets, UseLocks

CONSTANTS
    Hosts,          \* the hosts, each running one volplugin daemon
    Containers,     \* the containers of each host that use the volume
    Refreshers,     \* bound: refresh goroutines alive at once on a host
    MaxCount,       \* bound: the mount counter stays within -MaxCount..
    Unlocked,       \* the volume's "unlocked" runtime option
    UnlockedLabel,  \* lock.Unlocked, the hostname of an unlocked use
    NoChan,         \* no stop channel registered
    Allow           \* what the environment may do, see Liberties

(* What a run lets the environment do:                                     *)
(*   overlap   Docker has several requests for the volume in progress on   *)
(*             one host at once                                            *)
(*   remount   Docker sends a request while an earlier stop of the refresh *)
(*             goroutine has not been acted upon                           *)
(*   stall     a refresh, or the restart of a daemon, takes longer than    *)
(*             the TTL                                                     *)
(*   lookup    reading the volume's record fails (GetStorageParameters)    *)
(*   mount     driver.Mount fails                                          *)
(*   unmount   driver.Unmount fails                                        *)
(*   daemon    the volplugin process dies; mounts and containers survive   *)
(*   host      the machine dies; mounts and containers are lost            *)
Liberties == {"overlap", "remount", "stall", "lookup", "mount", "unmount",
              "daemon", "host"}

ASSUME ConstantsAssumption ==
    /\ Absent \notin Hosts
    /\ UnlockedLabel \notin Hosts
    /\ UnlockedLabel # Absent
    /\ IsFiniteSet(Containers)
    /\ NoChan \notin Refreshers
    /\ MaxCount \in Nat
    /\ Unlocked \in BOOLEAN
    /\ Allow \subseteq Liberties

VARIABLES
    use,         \* the volume's mount lock in etcd
    host,        \* host[h]: "up", "down" (no daemon) or "dead" (no machine)
    mounted,     \* mounted[h]: the kernel of h has the volume mounted
    counter,     \* counter[h]: MountCounter
    collection,  \* collection[h]: MountCollection has the volume
    stopChan,    \* stopChan[h]: lockStopChans' channel, named by its goroutine
    refresher,   \* refresher[h][g]: "none", "run", or "stop" (signalled)
    pc           \* pc[h][k]: where the container's request stands

vars == <<use, host, mounted, counter, collection, stopChan, refresher, pc>>

--------------------------------------------------------------------------------
(* The control points of a request.  Outside of one a container is "idle", *)
(* "running" (its Mount succeeded) or "undo" (its Mount failed and Docker  *)
(* owes the Unmount).                                                      *)
MountPoints == {"mPublish", "mSwap", "mCount", "mDriver", "mCollect",
                "mRefresh", "mReswap", "mSpawn", "mClearUnmount", "mClearLock"}
UnmountPoints == {"uPublish", "uSwap", "uCount", "uDriver", "uRemove", "uStop"}
RestPoints == {"idle", "running", "undo"}
Points == MountPoints \cup UnmountPoints \cup RestPoints

(* The Hostname of the use that a refresh goroutine publishes. *)
Payload(h) == IF Unlocked THEN UnlockedLabel ELSE h
Contents == Hosts \cup {UnlockedLabel}

InFlight(h, k) == pc[h][k] \notin RestPoints
Running(h) == {k \in Containers : pc[h][k] = "running"}

Goto(h, k, point) == pc' = [pc EXCEPT ![h][k] = point]

(* When Docker may send a request: at any time if it is allowed to, and    *)
(* otherwise only when the host's previous requests are over.              *)
MaySend(h) ==
    /\ host[h] = "up"
    /\ "overlap" \in Allow \/ \A k \in Containers : ~InFlight(h, k)
    /\ "remount" \in Allow \/ \A g \in Refreshers : refresher[h][g] # "stop"

Init ==
    /\ use = Free
    /\ host = [h \in Hosts |-> "up"]
    /\ mounted = [h \in Hosts |-> FALSE]
    /\ counter = [h \in Hosts |-> 0]
    /\ collection = [h \in Hosts |-> FALSE]
    /\ stopChan = [h \in Hosts |-> NoChan]
    /\ refresher = [h \in Hosts |-> [g \in Refreshers |-> "none"]]
    /\ pc = [h \in Hosts |-> [k \in Containers |-> "idle"]]

TypeOK ==
    /\ use \in Uses(Contents)
    /\ use.content = Absent => ~use.ttl
    /\ host \in [Hosts -> {"up", "down", "dead"}]
    /\ mounted \in [Hosts -> BOOLEAN]
    /\ counter \in [Hosts -> Int]
    /\ collection \in [Hosts -> BOOLEAN]
    /\ stopChan \in [Hosts -> Refreshers \cup {NoChan}]
    /\ refresher \in [Hosts -> [Refreshers -> {"none", "run", "stop"}]]
    /\ pc \in [Hosts -> [Containers -> Points]]

--------------------------------------------------------------------------------
(* Requests enter the daemon. *)

(* Mount: GetStorageParameters succeeds; an unlocked volume skips the lock. *)
MountStart(h, k) ==
    /\ MaySend(h)
    /\ pc[h][k] = "idle"
    /\ counter[h] < MaxCount
    /\ Goto(h, k, IF Unlocked THEN "mCount" ELSE "mPublish")
    /\ UNCHANGED <<use, host, mounted, counter, collection, stopChan, refresher>>

(* Mount: GetStorageParameters fails, the counter is not touched. *)
MountLookupFails(h, k) ==
    /\ "lookup" \in Allow
    /\ MaySend(h)
    /\ pc[h][k] = "idle"
    /\ Goto(h, k, "undo")
    /\ UNCHANGED <<use, host, mounted, counter, collection, stopChan, refresher>>

(* Unmount of a container that stops, or of one whose Mount failed. *)
UnmountStart(h, k) ==
    /\ MaySend(h)
    /\ pc[h][k] \in {"running", "undo"}
    /\ counter[h] > -MaxCount
    /\ Goto(h, k, IF Unlocked THEN "uCount" ELSE "uPublish")
    /\ UNCHANGED <<use, host, mounted, counter, collection, stopChan, refresher>>

(* Mutant: an Unmount whose lookup fails gives up the lock all the same. *)
UnmountLookupStops(h, k) ==
    /\ "lookup" \in Allow
    /\ MaySend(h)
    /\ pc[h][k] \in {"running", "undo"}
    /\ Goto(h, k, "uStop")
    /\ UNCHANGED <<use, host, mounted, counter, collection, stopChan, refresher>>

(* Unmount: GetStorageParameters fails; Docker forgets the container. *)
UnmountLookupFails(h, k) ==
    /\ "lookup" \in Allow
    /\ MaySend(h)
    /\ pc[h][k] \in {"running", "undo"}
    /\ Goto(h, k, "idle")
    /\ UNCHANGED <<use, host, mounted, counter, collection, stopChan, refresher>>

--------------------------------------------------------------------------------
(* PublishUse, as Mount, Unmount and AcquireWithTTLRefresh call it.        *)

AfterPublish(point) ==
    CASE point \in {"mPublish", "mSwap"}   -> "mCount"
      [] point \in {"mRefresh", "mReswap"} -> "mSpawn"
      [] point \in {"uPublish", "uSwap"}   -> "uCount"

SwapPoint(point) ==
    CASE point = "mPublish" -> "mSwap"
      [] point = "mRefresh" -> "mReswap"
      [] point = "uPublish" -> "uSwap"

(* First request: create the key. *)
PublishCreate(h, k) ==
    /\ pc[h][k] \in {"mPublish", "mRefresh", "uPublish"}
    /\ IF CreateSucceeds(use)
       THEN /\ use' = Permanent(h)
            /\ Goto(h, k, AfterPublish(pc[h][k]))
       ELSE /\ Goto(h, k, SwapPoint(pc[h][k]))
            /\ UNCHANGED use
    /\ UNCHANGED <<host, mounted, counter, collection, stopChan, refresher>>

(* Second request: the key existed, swap it if it is this host's. *)
PublishSwap(h, k) ==
    /\ pc[h][k] \in {"mSwap", "mReswap", "uSwap"}
    /\ SwapSucceeds(use, h)
    /\ use' = Permanent(h)
    /\ Goto(h, k, AfterPublish(pc[h][k]))
    /\ UNCHANGED <<host, mounted, counter, collection, stopChan, refresher>>

(* Mutant: the channel is forgotten, nobody is signalled. *)
ForgetStopChan(h) ==
    /\ stopChan' = [stopChan EXCEPT ![h] = NoChan]
    /\ UNCHANGED refresher

(* RemoveStopChan signals the registered refresh goroutine, if any. *)
RemoveStopChan(h) ==
    /\ stopChan' = [stopChan EXCEPT ![h] = NoChan]
    /\ refresher' =
         IF stopChan[h] = NoChan
         THEN refresher
         ELSE [refresher EXCEPT ![h][stopChan[h]] = "stop"]

(* The swap failed: Mount and Unmount answer with an error; a failure in   *)
(* startTTLRefresh stops the goroutine and clears the mount.               *)
PublishRefused(h, k) ==
    /\ pc[h][k] \in {"mSwap", "mReswap", "uSwap"}
    /\ ~SwapSucceeds(use, h)
    /\ \/ /\ pc[h][k] = "mSwap"
          /\ Goto(h, k, "undo")
          /\ UNCHANGED <<stopChan, refresher>>
       \/ /\ pc[h][k] = "uSwap"
          /\ Goto(h, k, "idle")
          /\ UNCHANGED <<stopChan, refresher>>
       \/ /\ pc[h][k] = "mReswap"
          /\ Goto(h, k, "mClearUnmount")
          /\ RemoveStopChan(h)
    /\ UNCHANGED <<use, host, mounted, counter, collection>>

--------------------------------------------------------------------------------
(* The rest of Mount. *)

(* Mutants: a duplicate is not counted; the limit is off by one. *)
CountFirstOnly(h, k) ==
    /\ pc[h][k] = "mCount"
    /\ counter' = [counter EXCEPT ![h] = IF @ < 1 THEN @ + 1 ELSE @]
    /\ Goto(h, k, IF counter[h] < 1 THEN "mDriver"
                  ELSE IF Unlocked THEN "running" ELSE "undo")
    /\ UNCHANGED <<use, host, mounted, collection, stopChan, refresher>>

CountOffByOne(h, k) ==
    /\ pc[h][k] = "mCount"
    /\ counter' = [counter EXCEPT ![h] = @ + 1]
    /\ Goto(h, k, IF counter[h] <= 1 THEN "mDriver"
                  ELSE IF Unlocked THEN "running" ELSE "undo")
    /\ UNCHANGED <<use, host, mounted, collection, stopChan, refresher>>

(* MountCounter.Add; a duplicate shares the mount of an unlocked volume    *)
(* and is refused for a locked one.                                        *)
CountAdd(h, k) ==
    /\ pc[h][k] = "mCount"
    /\ counter' = [counter EXCEPT ![h] = @ + 1]
    /\ Goto(h, k, IF counter[h] + 1 <= 1 THEN "mDriver"
                  ELSE IF Unlocked THEN "running" ELSE "undo")
    /\ UNCHANGED <<use, host, mounted, collection, stopChan, refresher>>

DriverMount(h, k) ==
    /\ pc[h][k] = "mDriver"
    /\ mounted' = [mounted EXCEPT ![h] = TRUE]
    /\ Goto(h, k, "mCollect")
    /\ UNCHANGED <<use, host, counter, collection, stopChan, refresher>>

(* It may fail anyhow on what is mounted already (EBUSY). *)
DriverMountFails(h, k) ==
    /\ "mount" \in Allow \/ mounted[h]
    /\ pc[h][k] = "mDriver"
    /\ Goto(h, k, "mClearUnmount")
    /\ UNCHANGED <<use, host, mounted, counter, collection, stopChan, refresher>>

(* MountCollection.Add.  It panics on a duplicate: the HTTP server drops   *)
(* the request and goes on, Docker sees a failed Mount.                    *)
CollectionAdd(h, k) ==
    /\ pc[h][k] = "mCollect"
    /\ collection' = [collection EXCEPT ![h] = TRUE]
    /\ Goto(h, k, IF collection[h] THEN "undo"
                  ELSE IF Unlocked THEN "running" ELSE "mRefresh")
    /\ UNCHANGED <<use, host, mounted, counter, stopChan, refresher>>

(* AcquireWithTTLRefresh spawns the goroutine and AddStopChan registers    *)
(* its channel, over any other.  One step: the goroutine first acts a      *)
(* quarter of the TTL later.  Mount is over: a failure of the cgroup       *)
(* limits is logged, and MountPath fails only on names that driver.Mount   *)
(* has refused.                                                            *)
SpawnRefresher(h, k) ==
    /\ pc[h][k] = "mSpawn"
    /\ \E g \in Refreshers :
         /\ refresher[h][g] = "none"
         /\ refresher' = [refresher EXCEPT ![h][g] = "run"]
         /\ stopChan' = [stopChan EXCEPT ![h] = g]
    /\ Goto(h, k, "running")
    /\ UNCHANGED <<use, host, mounted, counter, collection>>

(* Mutant: clearMount without driver.Unmount. *)
ClearKeepsMount(h, k) ==
    /\ pc[h][k] = "mClearUnmount"
    /\ Goto(h, k, "mClearLock")
    /\ UNCHANGED <<use, host, mounted, counter, collection, stopChan, refresher>>

(* clearMount: driver.Unmount, its failure only logged ... *)
ClearUnmount(h, k) ==
    /\ pc[h][k] = "mClearUnmount"
    /\ \/ mounted' = [mounted EXCEPT ![h] = FALSE]
       \/ "unmount" \in Allow /\ UNCHANGED mounted
    /\ Goto(h, k, "mClearLock")
    /\ UNCHANGED <<use, host, counter, collection, stopChan, refresher>>

(* ... then ClearLock, which retries RemoveUse until it succeeds ... *)
ClearLock(h, k) ==
    /\ pc[h][k] = "mClearLock"
    /\ RemoveSucceeds(use, h, FALSE)
    /\ use' = AfterRemove(use, h, FALSE)
    /\ Goto(h, k, "undo")
    /\ UNCHANGED <<host, mounted, counter, collection, stopChan, refresher>>

(* Mutant: ClearLock retries for ever. *)
ClearLockForever(h, k) ==
    /\ pc[h][k] = "mClearLock"
    /\ ~RemoveSucceeds(use, h, FALSE)
    /\ UNCHANGED vars

(* ... or the timeout has passed.  The counter is left as it is. *)
ClearLockTimeout(h, k) ==
    /\ pc[h][k] = "mClearLock"
    /\ ~RemoveSucceeds(use, h, FALSE)
    /\ Goto(h, k, "undo")
    /\ UNCHANGED <<use, host, mounted, counter, collection, stopChan, refresher>>

--------------------------------------------------------------------------------
(* The rest of Unmount. *)

(* Mutant: every Unmount unmounts. *)
AnyoneUnmounts(h, k) ==
    /\ pc[h][k] = "uCount"
    /\ counter' = [counter EXCEPT ![h] = @ - 1]
    /\ Goto(h, k, IF counter[h] - 1 >= 0 THEN "uDriver" ELSE "idle")
    /\ UNCHANGED <<use, host, mounted, collection, stopChan, refresher>>

(* MountCounter.Sub.  Only the last user unmounts; below zero Sub panics   *)
(* after it has stored the new value.                                      *)
CountSub(h, k) ==
    /\ pc[h][k] = "uCount"
    /\ counter' = [counter EXCEPT ![h] = @ - 1]
    /\ Goto(h, k, IF counter[h] - 1 = 0 THEN "uDriver" ELSE "idle")
    /\ UNCHANGED <<use, host, mounted, collection, stopChan, refresher>>

DriverUnmount(h, k) ==
    /\ pc[h][k] = "uDriver"
    /\ mounted' = [mounted EXCEPT ![h] = FALSE]
    /\ Goto(h, k, "uRemove")
    /\ UNCHANGED <<use, host, counter, collection, stopChan, refresher>>

(* The request ends with an error, the counter stays decremented. *)
DriverUnmountFails(h, k) ==
    /\ "unmount" \in Allow
    /\ pc[h][k] = "uDriver"
    /\ Goto(h, k, "idle")
    /\ UNCHANGED <<use, host, mounted, counter, collection, stopChan, refresher>>

CollectionRemove(h, k) ==
    /\ pc[h][k] = "uRemove"
    /\ collection' = [collection EXCEPT ![h] = FALSE]
    /\ Goto(h, k, IF Unlocked THEN "idle" ELSE "uStop")
    /\ UNCHANGED <<use, host, mounted, counter, stopChan, refresher>>

(* RemoveStopChan.  Nothing else releases the lock of an Unmount. *)
StopRefresher(h, k) ==
    /\ pc[h][k] = "uStop"
    /\ RemoveStopChan(h)
    /\ Goto(h, k, "idle")
    /\ UNCHANGED <<use, host, mounted, counter, collection>>

--------------------------------------------------------------------------------
(* The refresh goroutine of AcquireWithTTLRefresh. *)

(* Mutant: the refresh publishes without a TTL. *)
RefreshForever(h, g) ==
    /\ refresher[h][g] \in {"run", "stop"}
    /\ LeaseSucceeds(use, Payload(h))
    /\ use' = Permanent(Payload(h))
    /\ UNCHANGED <<host, mounted, counter, collection, stopChan, refresher, pc>>

(* Its timer fires: acquire with a TTL.  A goroutine whose stop channel is *)
(* ready as well may still choose the timer.  A refused refresh changes    *)
(* nothing and is only logged.                                             *)
Refresh(h, g) ==
    /\ refresher[h][g] \in {"run", "stop"}
    /\ LeaseSucceeds(use, Payload(h))
    /\ use' = Leased(Payload(h))
    /\ UNCHANGED <<host, mounted, counter, collection, stopChan, refresher, pc>>

(* It receives the stop: RemoveUse, a failure only logged, and it ends. *)
RefresherStops(h, g) ==
    /\ refresher[h][g] = "stop"
    /\ use' = AfterRemove(use, Payload(h), FALSE)
    /\ refresher' = [refresher EXCEPT ![h][g] = "none"]
    /\ UNCHANGED <<host, mounted, counter, collection, stopChan, pc>>

(* Nobody refreshes a use with content c, and no daemon that will do so    *)
(* again is being restarted.                                               *)
Abandoned(c) ==
    \A h \in Hosts :
        Payload(h) = c =>
            \/ host[h] = "dead"
            \/ host[h] = "up" /\ \A g \in Refreshers : refresher[h][g] = "none"

(* etcd expires the lock.  Without stalls, a lock that is being refreshed  *)
(* every quarter of its TTL does not expire.                               *)
Expire ==
    /\ MayExpire(use)
    /\ "stall" \in Allow \/ Abandoned(use.content)
    /\ use' = Free
    /\ UNCHANGED <<host, mounted, counter, collection, stopChan, refresher, pc>>

--------------------------------------------------------------------------------
(* Crashes and recovery. *)

(* The memory of the daemon of h is gone. *)
ForgetDaemon(h) ==
    /\ counter' = [counter EXCEPT ![h] = 0]
    /\ collection' = [collection EXCEPT ![h] = FALSE]
    /\ stopChan' = [stopChan EXCEPT ![h] = NoChan]
    /\ refresher' = [refresher EXCEPT ![h] = [g \in Refreshers |-> "none"]]

(* The daemon dies.  Requests in flight fail; the Unmount that Docker owes *)
(* for a failed Mount is lost or sent again to the next daemon.            *)
DaemonCrash(h) ==
    /\ "daemon" \in Allow
    /\ host[h] = "up"
    /\ host' = [host EXCEPT ![h] = "down"]
    /\ ForgetDaemon(h)
    /\ \E resend \in SUBSET Containers :
         pc' = [pc EXCEPT ![h] =
                  [k \in Containers |->
                     IF pc[h][k] = "running" THEN "running"
                     ELSE IF k \in resend /\ pc[h][k] \in MountPoints \cup {"undo"}
                          THEN "undo" ELSE "idle"]]
    /\ UNCHANGED <<use, mounted>>

(* Docker gives up on an Unmount while there is no daemon. *)
UnmountLost(h, k) ==
    /\ host[h] = "down"
    /\ pc[h][k] \in {"running", "undo"}
    /\ Goto(h, k, "idle")
    /\ UNCHANGED <<use, host, mounted, counter, collection, stopChan, refresher>>

(* A daemon starts: getMounted, then updateMounts.                         *)
(*   - the volume is mounted: the counter becomes the number of running    *)
(*     containers, the collection has it, and AcquireWithTTLRefresh must   *)
(*     succeed, or the daemon ends (no step);                              *)
(*   - it is not mounted and no container runs: nothing to do;             *)
(*   - a container runs and it is not mounted: updateMounts dereferences a *)
(*     nil *storage.Mount and the daemon ends (no step).                   *)
Restart(h) ==
    /\ host[h] = "down"
    /\ host' = [host EXCEPT ![h] = "up"]
    /\ \/ /\ mounted[h]
          /\ CreateSucceeds(use) \/ SwapSucceeds(use, Payload(h))
          /\ use' = Permanent(Payload(h))
          /\ counter' = [counter EXCEPT ![h] = Cardinality(Running(h))]
          /\ collection' = [collection EXCEPT ![h] = TRUE]
          /\ \E g \in Refreshers :
               /\ refresher' = [refresher EXCEPT ![h][g] = "run"]
               /\ stopChan' = [stopChan EXCEPT ![h] = g]
       \/ /\ ~mounted[h]
          /\ Running(h) = {}
          /\ UNCHANGED <<use, counter, collection, stopChan, refresher>>
    /\ UNCHANGED <<mounted, pc>>

(* The machine dies, and boots again later. *)
HostCrash(h) ==
    /\ "host" \in Allow
    /\ host[h] # "dead"
    /\ host' = [host EXCEPT ![h] = "dead"]
    /\ mounted' = [mounted EXCEPT ![h] = FALSE]
    /\ ForgetDaemon(h)
    /\ pc' = [pc EXCEPT ![h] = [k \in Containers |-> "idle"]]
    /\ UNCHANGED use

HostBoot(h) ==
    /\ host[h] = "dead"
    /\ host' = [host EXCEPT ![h] = "down"]
    /\ UNCHANGED <<use, mounted, counter, collection, stopChan, refresher, pc>>

--------------------------------------------------------------------------------
(* A step of the handler of a request in flight. *)
HandlerStep(h, k) ==
    \/ PublishCreate(h, k)
    \/ PublishSwap(h, k)
    \/ PublishRefused(h, k)
    \/ CountAdd(h, k)
    \/ DriverMount(h, k)
    \/ DriverMountFails(h, k)
    \/ CollectionAdd(h, k)
    \/ SpawnRefresher(h, k)
    \/ ClearUnmount(h, k)
    \/ ClearLock(h, k)
    \/ ClearLockTimeout(h, k)
    \/ CountSub(h, k)
    \/ DriverUnmount(h, k)
    \/ DriverUnmountFails(h, k)
    \/ CollectionRemove(h, k)
    \/ StopRefresher(h, k)

DockerStep(h, k) ==
    \/ MountStart(h, k)
    \/ MountLookupFails(h, k)
    \/ UnmountStart(h, k)
    \/ UnmountLookupFails(h, k)
    \/ UnmountLost(h, k)

RefresherStep(h, g) == Refresh(h, g) \/ RefresherStops(h, g)

HostStep(h) == DaemonCrash(h) \/ Restart(h) \/ HostCrash(h) \/ HostBoot(h)

Next ==
    \/ \E h \in Hosts, k \in Containers : HandlerStep(h, k) \/ DockerStep(h, k)
    \/ \E h \in Hosts, g \in Refreshers : RefresherStep(h, g)
    \/ \E h \in Hosts : HostStep(h)
    \/ Expire

Spec == Init /\ [][Next]_vars

(* What the scheduling of the code guarantees: a handler that can go on    *)
(* does (driver calls and ClearLock end, by their timeouts); Docker sends  *)
(* the Unmount it owes; a refresh goroutine's timer fires and its stop is  *)
(* received; etcd expires keys.  Nothing makes a container stop, a daemon  *)
(* restart or a machine boot.                                              *)
Fairness ==
    /\ \A h \in Hosts, k \in Containers :
         /\ WF_vars(HandlerStep(h, k))
         /\ WF_vars(pc[h][k] = "undo" /\ UnmountStart(h, k))
    /\ \A h \in Hosts, g \in Refreshers :
         /\ WF_vars(Refresh(h, g))
         /\ WF_vars(RefresherStops(h, g))
    /\ WF_vars(Expire)

FairSpec == Spec /\ Fairness

--------------------------------------------------------------------------------
(* PROPERTIES *)

(* A locked volume that some host has mounted has its lock held by that    *)
(* host.  This is what Mount's PublishUse and the refresh goroutine are    *)
(* for: the lock must cover the mount from driver.Mount to driver.Unmount, *)
(* across failed mounts, restarts and expiry.                              *)
LockCoversMount ==
    ~Unlocked => \A h \in Hosts : mounted[h] => HeldBy(use, h)

(* A locked volume is never mounted on two hosts (handlers.go, Mount: "a   *)
(* mount is held on another host").                                        *)
MutualExclusion ==
    ~Unlocked => \A h1, h2 \in Hosts : mounted[h1] /\ mounted[h2] => h1 = h2

(* A container whose Mount was answered with a path keeps a mounted volume *)
(* until its own Unmount is sent: no other container's Mount, failed Mount *)
(* or Unmount may take it away.                                            *)
RunningKeepsMount ==
    \A h \in Hosts, k \in Containers : pc[h][k] = "running" => mounted[h]

(* The requests whose MountCounter.Add is not yet matched by a Sub. *)
Counted(h) ==
    {k \in Containers : pc[h][k] \in
        {"running", "undo", "mDriver", "mCollect", "mRefresh", "mReswap", "mSpawn",
         "mClearUnmount", "mClearLock", "uPublish", "uSwap", "uCount"}}

(* The mount counter of a daemon is the number of containers that use the  *)
(* volume or still owe an Unmount, so that the last Unmount, and only the  *)
(* last, finds zero: each failed Mount is evened out by its Unmount.       *)
CounterMatches ==
    \A h \in Hosts : host[h] = "up" => counter[h] = Cardinality(Counted(h))

(* What may end the lock of h in a step. *)
LosesByItself(h) ==
    HeldBy(use, h) /\ ~HeldBy(use', h) =>
        /\ use' = Free
        /\ use.ttl \/ pc'[h] # pc[h] \/ refresher'[h] # refresher[h]

(* The lock of a host is taken from it by nobody else, whatever the        *)
(* environment does: it ends in the absent key, and only by a step of that *)
(* host's own daemon or by the expiry of its TTL.                          *)
OwnLockOnly ==
    [][\A h \in Hosts : LosesByItself(h)]_vars

(* driver.Mount is never called for a volume the host has mounted          *)
(* (handlers.go, Mount: "this should never happen because of the above     *)
(* counter check"), nor Collection.Add for one it has, its assertion.      *)
MountsOnce ==
    \A h \in Hosts, k \in Containers :
        /\ pc[h][k] = "mDriver" => ~mounted[h]
        /\ pc[h][k] = "mCollect" => ~collection[h]

(* The protocol implements the exclusive volume: the lock's content is the *)
(* owner, and the lock is never given up under a mount.                    *)
Exclusive == INSTANCE ExclusiveVolume
    WITH owner <- use.content, attached <- mounted, NoOwner <- Absent

ImplementsExclusiveVolume == Exclusive!Spec

(* Every request is answered: no handler waits forever for a lock, a stop  *)
(* channel or the retry loop of ClearLock.                                 *)
RequestsAnswered ==
    \A h \in Hosts, k \in Containers : InFlight(h, k) ~> ~InFlight(h, k)

(* The daemon of every host is up, no container uses the volume and no     *)
(* kernel has it mounted.                                                  *)
Unused ==
    \A h \in Hosts :
        /\ host[h] = "up"
        /\ ~mounted[h]
        /\ \A k \in Containers : pc[h][k] = "idle"

(* Use of a volume ends with its lock: if from some time on the volume is  *)
(* unused, its lock is released for good (Unmount's RemoveStopChan and     *)
(* clearMount's ClearLock see to it), and the volume can be mounted        *)
(* elsewhere, or removed.                                                  *)
LockReleased == <>[]Unused => <>[](use = Free)

(* The indefinite lock that Mount, Unmount and a restart take is a passing *)
(* state: while a container runs on a live host, the lock becomes a lease  *)
(* again and again, so that the death of the host can free it.             *)
RunningIsLeased ==
    \A h \in Hosts :
        <>[](host[h] = "up" /\ Running(h) # {}) => []<>(use = Leased(Payload(h)))

--------------------------------------------------------------------------------
(* Why the lock covers the mounts of a locked volume when Docker sends one *)
(* request at a time to a host, waits for stops, no refresh stalls and     *)
(* driver.Unmount succeeds: the inductive invariant of the proofs.         *)

CalmEnvironment ==
    /\ ~Unlocked
    /\ Allow \cap {"overlap", "remount", "stall", "unmount"} = {}

(* Host h has the lock and will not lose it by expiry: the lock has no TTL *)
(* or a goroutine of h keeps refreshing it or no daemon is there to do so  *)
(* (and it is restarted in time).                                          *)
Secured(h) ==
    /\ HeldBy(use, h)
    /\ host[h] = "up" /\ use.ttl => \E g \in Refreshers : refresher[h][g] = "run"

(* Where Mount relies on the lock it published, and where the volume is    *)
(* known to be unmounted because its lock is about to be given up.         *)
HoldPoints == {"mCount", "mDriver", "mCollect", "mRefresh", "mReswap", "mSpawn"}
ReleasePoints == {"mClearLock", "uRemove", "uStop"}

OneRequest(h) ==
    \A k1, k2 \in Containers : InFlight(h, k1) /\ InFlight(h, k2) => k1 = k2

NoDaemonNoActivity(h) ==
    host[h] # "up" =>
        /\ \A k \in Containers : ~InFlight(h, k)
        /\ \A g \in Refreshers : refresher[h][g] = "none"

DeadHasNoMount(h) == host[h] = "dead" => ~mounted[h]

(* A goroutine that is about to remove the lock has the host to itself. *)
StopsAlone(h) ==
    \A g \in Refreshers : refresher[h][g] = "stop" =>
        /\ ~mounted[h]
        /\ \A k \in Containers : ~InFlight(h, k)

MountSecured(h) == mounted[h] => Secured(h)

HoldersSecured(h) == \A k \in Containers : pc[h][k] \in HoldPoints => Secured(h)

ReleasedUnmounted(h) == \A k \in Containers : pc[h][k] \in ReleasePoints => ~mounted[h]

HostInv(h) ==
    /\ OneRequest(h)
    /\ NoDaemonNoActivity(h)
    /\ DeadHasNoMount(h)
    /\ StopsAlone(h)
    /\ MountSecured(h)
    /\ HoldersSecured(h)
    /\ ReleasedUnmounted(h)

(* The inductive invariant that makes MutualExclusion hold: the lock of a  *)
(* host outlasts every point of Mount that relies on it and every mount,   *)
(* because what removes it (clearMount, a stopped refresh goroutine, the   *)
(* TTL) runs only when the host has neither.                               *)
MountInv ==
    /\ TypeOK
    /\ use.content # UnlockedLabel
    /\ \A h \in Hosts : HostInv(h)
================================================================================
