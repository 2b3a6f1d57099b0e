# A TLA+ verification of volplugin

volplugin mounts cluster-wide volumes (ceph RBD images, NFS exports) into
Docker containers. What makes it hard is that several daemons on several hosts
change one volume through three stores that no transaction joins: etcd (records
and locks), the storage backend (images, mounts) and their own memory (counters,
channels). This directory models those daemons, their locks, the ceph driver and
the configuration they share, checks them with TLC and proves the main safety
properties with TLAPS.

Paths below are relative to the repository (`src/` in PROJECT.json).

## 1. The system

| part | state | operations | who calls it |
|---|---|---|---|
| volplugin (`api/`, `volplugin/`), one per host | mount counter, mount collection, stop channels, the kernel's mounts | Create, Mount, Unmount; recovery of mounts at start; runtime watch | Docker, over a socket |
| use locks (`config/use.go`) | etcd keys `use/mount/<v>`, `use/snapshot/<v>`, `use/volsupervisor` | PublishUse, PublishUseWithTTL, RemoveUse | every daemon |
| lock driver (`lock/lock.go`) | goroutines that refresh locks | ExecuteWithUseLock, ExecuteWithMultiUseLock, ClearLock, AcquireWithTTLRefresh | every daemon |
| apiserver (`apiserver/`) | none of its own | create, copy, remove, forced remove, runtime upload, policies, globals, snapshots, uses | volcli, volplugin |
| volume configuration (`config/volume.go`) | etcd keys `create` and `runtime` of a volume | publish, get, remove, list, snapshot signals | apiserver, volplugin, volsupervisor |
| storage control and drivers (`storage/`) | images and snapshots in ceph, device mappings | create, format, destroy, copy, mount, unmount | apiserver, volplugin, volsupervisor |
| volsupervisor (`volsupervisor/`) | copy of the volumes, a global lock | scheduled snapshots and their pruning | timer, snapshot signal |
| policies, archives, globals (`config/`) | etcd keys and revision archives | publish, get, watch | apiserver, all daemons |
| watch (`watch/`) | watch goroutines and channels | Create, Stop | daemons |
| merge and validation (`merge/`, `config/validation.go`) | none | options of a request into the nested policy | creation of a volume |
| volmigrate (`volmigrate/`) | the schema version in etcd | migrations up to a version | operators |
| db (`db/`), to replace `config/` | keys of entities, a map of watches | Set, Get, Delete, List, Watch, with hooks | nobody yet |
| volcli, docker protocol, mountscan, cgroup, errors | none or files | command line, parsing | operators |

The hard behaviours:

- *Concurrency.* HTTP handlers of one daemon run at the same time, and so do the
  daemons; a refresh goroutine acts on its stop after the handler that stopped it
  has answered. Only the counter, the collection and the channel table have
  mutexes, each for a single access.
- *Two-step operations.* PublishUse creates a key and, if it exists, swaps it in
  a second request. A mount lock is first taken without a TTL and becomes a lease
  later. A volume is an image plus two keys.
- *Failure.* Drivers fail, commands are killed at a timeout, daemons and hosts
  die, keys expire, and Docker compensates a failed Mount with an Unmount.
- *Following.* Daemons follow what others write by polling and by watches, which
  lose events before they have an index and may block on a full channel.

What makes each part correct: a locked volume is mounted on one host at a time,
and its lock ends with its use; the counter equals the number of users, so that
the last Unmount and only the last unmounts; a function under locks runs alone and
leaves nothing behind; record and image of a volume agree whenever nobody holds
its lock, and a mounted volume is not removed; snapshots are taken and pruned by one
goroutine at a time, and pruning keeps the newest; the driver leaves nothing mapped
and touches no other volume's device; what operators upload reaches the daemons; what
is created is what was asked for; and the schema is what its version says.

`PROJECT.json` lists every part ("components"), what can go wrong where
("hazards") and the source lines of every definition ("map").

## 2. The modules

```
UseLocks            one etcd lock key and the operations of config/use.go
 |-- MountProtocol  Mount, Unmount, refresh goroutines, restart, crashes: one volume
 |    |             (implements ExclusiveVolume, what is promised)
 |    |-- MountProtocol_proofs
 |    |-- MCMountProtocol
 |    `-- MCMountCounts     the same for a locked and an unlocked volume
 |-- MultiLock      functions under several locks, with retries and timeouts
 |    |-- MCMultiLock       patient requests, and ones that give up and die
 |    |    `-- MultiLock_proofs
 |    `-- VolumeLifecycle   create, copy, mount, remove of one volume under
 |         |                those locks: record, image, driver failures
 |         |-- VolumeLifecycle_proofs
 |         `-- MCVolumeLifecycle
 |-- VolSupervisor  the processes that decide when to snapshot
 |    `-- VolSupervisor_proofs
 `-- Snapshots      the goroutines they start: taking and pruning snapshots
      `-- Snapshots_proofs

CephDriver          map, mkfs, mount, unmount, unmap on one host
 `-- CephDriver_proofs

PolicyStore         policies, their revisions, creation from a policy  (Configuration_proofs)
VolumeOptions       merge of a request's options and validation
VolumeReads         lists and gets of volumes without a lock           (Configuration_proofs)
ConfigWatch         a daemon that follows the configuration
SchemaMigration     volmigrate                                         (Configuration_proofs)
DbVolume, DbWatch   package db: volumes with hooks, watches            (Db_proofs)
 `-- MCConfiguration        these seven side by side
```

**UseLocks.** The value of a key is the JSON of a UseLocker and is only ever
compared as a whole, so it is an opaque `content`; `ttl` says whether it expires.
One operator per request to etcd (`CreateSucceeds`, `SwapSucceeds`,
`LeaseSucceeds`, `RemoveSucceeds`, `AfterRemove`), because etcd is atomic per
request and the code makes two.

**MountProtocol.** One volume, several hosts, several containers on each. State:
the lock in etcd, and for each host its kernel mount, counter, collection, stop
channel, refresh goroutines and the program counter of each container's request.
One action for each access of a handler to shared state, in the order of
`api/handlers.go`: publish, swap, count, `driver.Mount`, collection, refresh,
and for Unmount publish, swap, count, `driver.Unmount`, collection, stop;
`clearMount` on a failure. `Refresh` and `RefresherStops` are the two cases of
the goroutine's select. `Restart` is `getMounted` and `updateMounts`.
Docker is external and follows what the comments of the handlers say of it.
The constant `Allow` says what the environment may do: overlapping requests
(`overlap`), requests before an earlier stop was acted upon (`remount`), refreshes
later than the TTL (`stall`), failing reads and driver calls (`lookup`, `mount`,
`unmount`), the death of daemons and of machines (`daemon`, `host`).

**ExclusiveVolume.** The promise: a lock with one owner, attached only by its
owner, given up only when not attached. MountProtocol implements it with
`owner <- use.content, attached <- mounted`.

**MultiLock.** Any number of requests, each with a sequence of keys. The keys are
acquired in order, each by create, then swap if the type `MayExist`, then sleep and
retry; `GiveUp` is the timeout, after which the locks acquired before are kept, as
in the code. `Crash` is the death of the process.

**VolumeLifecycle.** EXTENDS MultiLock: the function that a request runs under its
locks is a sequence of steps (`at`) on the record (`keys`) and on the `image`, one
per etcd request or driver call. `Faults` names the calls that may fail. An error of etcd
in PublishVolume may come before or after the key is written; of the create key it counts
as "exists", which createVolume takes for success, of the runtime key it is returned; the
history variable `unpublished` remembers either until the record is deleted. A mount
is one request that runs as long as the volume is mounted: MountProtocol has its
details. `UploadReads`/`UploadWrites` (handleRuntimeUpload), `DropRecord`
(handleRemoveForce) and the `Force...` actions (handleForceRemoveLock) take no locks.

**VolSupervisor.** The volsupervisors that are started on several hosts, the global
lock that lets one of them work and the goroutine that refreshes it, its copy of the
volumes, one pass of `loop` over a volume (`Due`, then the three requests of
IsVolumeInUse, then `Spawn`), and the snapshot signal with its watch. The other users
of the mount lock (mounts, removals) are actions, too. `Terminate` gives the
lock up, and the process works on until `Exit`, as the signal handler does.

**Snapshots.** What the goroutines of volsupervisors do: createSnapshot and then
pruneSnapshots, each under the UseSnapshot lock taken by AcquireWithTTLRefresh, whose
own goroutine is told to stop and acts later. Removal and copy by the apiserver use the
same lock. Snapshots are numbers in the order they are taken.

**CephDriver.** Format, Mount and Unmount of several volumes on one host, one action
per command: rbd map with its retries, the lookup of the device, mkfs, mount, umount,
rmdir, and doUnmap with the list of devices that all of its calls share. The kernel is
external: it gives a freed device name to the next image and refuses to unmap what is
busy. `Faults` names the commands that may fail and how. rbd showmapped is part of the step
that uses its answer; when it fails the operation is at a step of its own (`Pauses`) until
the next try, which the code does not count.

**ConfigWatch.** One watch of one daemon, on the global configuration or on the runtime
options of a volume: the value and events of the key, the long poll with its index, the
error channel of one place, what the daemon works with. Units are converted as the
code does (`Canonical`, `Published`, `SetEmpty`). For runtime options the rate limit
of Mount and of pollRuntime, in either order. What fails without a second try is in the
model, too: the read at the start (`StartWithDefaults`), the read of the volume for an
event (`EventLost`) and the writes to the cgroup (`PollFails`, `MountUnlimited`). The
history variable `missed` says that such a failure, or an event nobody waited for, has
lost a change that nothing has made good since.

**PolicyStore.** PublishPolicy as two writes (revision, policy), deletion, the clock of
the revisions' keys, and handleCreate with its two reads of the policy.

**VolumeOptions.** `merge.Opts` as a search over the type of Policy by merge tags, with
casts for classes of strings, in any order of the options; then Policy.Validate.

**VolumeReads.** handleList, handleListAll, handleGet, Docker's Get and Path, as a list
of names and two gets for each volume, each of which may fail, beside the changes: the
directory, the create key and the runtime key of PublishVolume, one after the other, the
runtime upload with its read and its later write, and the removal. So a list meets
directories that are empty or have one key.

**SchemaMigration.** Overlapping runs of volmigrate: reading the version and the target,
each migration, reading and writing the version key.

**DbVolume, DbWatch.** Package db: Set with preSetHook, Get with postGetHook, Delete and
List of volumes and of runtime options; the watch goroutines of a path, the map of stop
channels, the callers that read or stop reading.

Abstracted throughout: names, options, sizes, JSON, logging, HTTP status codes
(an answer is "ok" or "error", for the reads of a volume also 404), and clocks (a TTL may run out when nobody refreshes
it in time, a timeout may strike at any retry).

## 3. What is checked

Passing runs (distinct states in brackets):

| run | instance | shows |
|---|---|---|
| mount_serial (197k) | locked volume, 2 hosts, 2 containers each; failing lookups and mounts, daemon and host crashes; one request at a time per host | `MutualExclusion`, the inductive `MountInv`, refinement of ExclusiveVolume |
| mount_counts (724) | 1 host, 3 containers: a locked volume without failures, and an unlocked one on a host that may die | `MountsOnce`, `CounterMatches`, `RunningKeepsMount`; for the locked volume `LockReleased` and `LockedIsLeased` under fairness |
| mount_unreliable (234k) | locked volume, 2 hosts; stalled refreshes, failing lookups, mounts and unmounts | `OwnLockOnly`: even where locks are lost, no host ends the lock of another; `RequestsAnswered` under fairness |
| locks (5.6k) | create, remove and copy over two volumes: once each without timeout or crash, and repeated with both | `RunsExclusively`; of the first kind `PatientLeaveNothing`, and `PatientRequestsEnd` under fairness |
| life_calm (194k) | create, copy, remove and mount of a ceph volume, repeated, with timeouts, failing creates, formats, publications and mounts, and crashes | `ConsistentWhenFree`, `UsedIsWhole`, `FormatsOwnImage`, `RemovedIsDestroyed`, `CreatedIsReadable` |
| life_forced (901k) | create, remove and mount, forced removals, dropped records, uploads, every fault | `WritersExclude` |
| snap (117k) | 2 volsupervisors that may die, 2 goroutines, 3 snapshots, changes of Keep, removals and copies | `SnapshotsExclude`, `PruneKeepsNewest`; `SnapshotLockFreed` under fairness |
| supervisor (100k) | 2 volsupervisors that leave, die and panic; every kind of frequency; mounts, removals and signals | `OneSupervisor`, `ProbeIsHarmless`; `ProbeLockCleared`, `SignalTaken` under fairness |
| driver (77k) | 2 volumes, 2 devices, every fault, few retries | `SuccessIsComplete`, `OwnDevicesOnly`; `OperationsReturn` under fairness |
| config (159k) | seven parts, one per behaviour: 2 uploads of 3 policies and a creation; requests of up to 2 options; 2 volumes of 2 policies with 3 changes under a reader; one watch with 3 events, failures and restarts; 2 volmigrates over 3 migrations; 2 volumes and 2 clients of db; 2 watches of db | `PublishedHasRevision`, `MadeAsRecorded`, `CreatedAsAsked`, `AnswersAreExact`, `VersionIsApplied`, `VisibleIsWhole`, `ExistingIsKept`, `ListIsExact`; `GlobalConverges`, `LimitConverges`, `StoppedWatchesEnd` under fairness |

The parts of config share no state, so that one run of them side by side, in which a
behaviour is one of one part, says the same as a run of each. The type invariants
(`TypeOK`, `LifeTypeOK`, `SnapTypeOK` and the like) are part of the inductive
invariants that are proved, or serve the reader; the runs do not list them.

`ConsistentWhenFree` says what a request that *gets* the mount lock will find. A
process that dies in the middle keeps its locks for ever, which is why crashes do
not break it; the price is that an operator must remove them.

Each property has a mutant in PROJECT.json, a plausible slip in the code it is
about (the operators marked "Mutant"), that the same run rejects.

Violation runs show where the code departs from what its tests or its
documentation say; PROJECT.json's "findings" quotes the lines.

| run | what happens |
|---|---|
| bad_early_remount | a refresh goroutine that acts on its stop late removes the lock of the next mount of the same host, and a second host mounts the volume |
| bad_second_remove | two removes of one host share the mount lock; the first to end removes it, the volume is mounted, and the second remove deletes it |

The passing runs state the conditions under which the code keeps its promises. Each
of the conditions is needed: TLC refutes the property when one line of the cfg is
changed as follows.

| cfg | change | property refuted | why |
|---|---|---|---|
| mount_serial | `Allow` plus "stall" | MutualExclusion | a late refresh is only logged (`lock/lock.go:125`), the volume stays mounted without a lock |
| mount_serial | `Allow` plus "unmount" | MutualExclusion | clearMount gives the lock up although its unmount failed (`api/handlers.go:210`) |
| mount_serial | `Allow` plus "overlap" | MutualExclusion | one request of a host clears the lock another relies on |
| mount_counts | `Allow = {"overlap"}` | MountsOnce | a Mount counts between Counter.Sub and driver.Unmount (`api/handlers.go:367`) |
| mount_counts | `Allow = {"lookup"}` | CounterMatches | a Mount that failed before it was counted is uncounted by its Unmount (`api/handlers.go:253`) |
| mount_counts | `Allow = {"daemon"}` | CounterMatches | requests in progress and Unmounts sent while the daemon was down are not counted after a restart |
| mount_counts | `Hosts = {h1, h2}` | CounterMatches, MountsOnce | a Mount that another host's lock refuses was not counted; its Unmount is, once the lock is free (`api/handlers.go:361`) |
| mount_counts | `Allow` = one of "overlap", "remount", "stall", "host" | CounterMatches, MountsOnce | the lock ends between the two requests of PublishUse (`config/use.go:136`): the Mount is refused, uncounted, and its Unmount counts |
| mount_counts | `Allow = {"mount"}` | LockReleased | the Unmount after a failed Mount takes the lock again, and nothing removes it (`api/handlers.go:361`) |
| mount_counts | `Allow = {"unmount"}` | MountsOnce | a failed Unmount leaves counter 0 and the entry (`api/handlers.go:379`) |
| mount_counts, `Unlocked = TRUE`, `Spec` | `Allow = {"host", "mount"}` | RunningKeepsMount | a Mount that is counted second is answered while the first has failed (`api/handlers.go:262`) |
| locks | `Timeout = "finite"` | PatientLeaveNothing | a request that fails to get a lock keeps the ones it has (`lock/lock.go:88`) |
| life_calm | `Faults = {"clone"}` | ConsistentWhenFree | handleCopy publishes the record before it clones (`apiserver/daemon.go:506`) |
| life_calm | `Faults = {"destroy"}` | RemovedIsDestroyed | a failed destroy is only logged (`apiserver/daemon.go:667`) |
| life_calm | `Faults = {"timeout"}` | FormatsOwnImage | a killed `rbd create` counts as success (`storage/backend/ceph/ceph.go:121`) |
| life_calm | `Upload = TRUE` | ConsistentWhenFree | a runtime upload brings half of a removed record back (`apiserver/daemon.go:361`) |
| life_calm | `HasCRUD = FALSE` | UsedIsWhole | Mount reads the record before it takes the lock (`api/handlers.go:235`), and there is no image whose absence would fail it |
| life_calm | `Forced = TRUE` | UsedIsWhole | a forced removal takes the record from under a mount, as it is meant to |
| snap | `Stalls = TRUE` | SnapshotsExclude | a snapshot lock expires under its goroutine, as a mount lock does (`lock/lock.go:125`) |
| supervisor | `Stalls = TRUE` | OneSupervisor | the same for the global lock |
| supervisor | check `MountIsNoticed` | MountIsNoticed | IsVolumeInUse takes "lock failed" for "not in use": a locked volume that is mounted never gets a scheduled snapshot (`config/volume.go:429`) |
| supervisor | check `InvalidFrequencySkipped` | InvalidFrequencySkipped | after "Skipping snapshot." the loop divides by the frequency, 0 (`volsupervisor/loop.go:165`) |
| config | check `ListIsOfPolicy` | ListIsOfPolicy | volcli says "List all volumes for a given policy" (`volcli/commands.go:135`); handleList does not look at the policy of its path (`apiserver/daemon.go:549`) and lists the volumes of every policy |

Some properties state an exception, and TLC refutes them without it:

| property | without | why |
|---|---|---|
| SnapshotLockFreed | `Orphaned` | a volsupervisor that dies before the first refresh leaves a lock without a TTL |
| OwnDevicesOnly, SuccessIsComplete | `twice` | an rbd map that is repeated after a timeout maps the image twice (`storage/backend/ceph/internals.go:37`); the device list of unmapImage gets stale, another image's device is unmapped, or the wrong one is mounted |
| OperationsReturn | `RmdirFails` | Unmount does not count its retries around a directory that cannot be removed (`storage/backend/ceph/ceph.go:295`) |
| OperationsReturn | `ShowMappedFails` | nor does showMapped (`storage/backend/ceph/internals.go:165`) |
| ConsistentWhenFree | `unpublished` | any error of etcd at the create key is "exists" (`config/volume.go:148`), which createVolume takes for success: an image without a record; an error at the runtime key leaves half a record |
| CreatedIsReadable | `unpublished` | the same create is answered with success (`apiserver/daemon.go:908`) |
| UsedIsWhole | `unpublished` | a Mount that has read the record of a removed volume mounts the image that a later create could not publish |
| PublishedHasRevision | `~reused` | two uploads in one second share a revision (`config/archive.go:25`) |
| MadeAsRecorded | `changed` | mkfs is the command of the policy that was read first |
| GlobalConverges | `missed` of Put, Detached | a change between GetGlobal and the first poll, or between polls before the first event, is lost until the daemon restarts or the next change |
| GlobalConverges | `missed` of StartWithDefaults | on any error of etcd the daemon starts with the defaults, and no event brings what is in etcd (`volplugin/volplugin.go:62`) |
| GlobalConverges | `watch # "blocked"` | the second error waits for a reader that does not exist (`watch/watch.go:99`) |
| GlobalConverges | an empty TTL that stays empty | the watch, unlike GetGlobal, does not call SetEmpty: 0 is a TTL of 0 until the daemon restarts |
| LimitConverges | `missed` of PollRuntime, Dies | Mount applies the limit it read over a newer one (`api/handlers.go:302`), and a restart applies none |
| LimitConverges | `missed` of EventLost | an event is dropped when its volume cannot be read (`config/volume.go:309`) |
| LimitConverges | `missed` of PollFails, MountUnlimited | a failed write to the cgroup is only logged (`volplugin/runtime.go:44`, `api/handlers.go:302`) |
| ExistingIsKept | `excused` | preSetHook looks first and any error counts as "does not exist" (`db/volume.go:113`) |
| VisibleIsWhole | `bare` | runtime options can be deleted by themselves |
| StoppedWatchesEnd | `deaf` | the goroutine waits for a caller that has left (`db/impl/etcd/client.go:216`) |

**Bounds.** Two hosts suffice for exclusion, as every violation found needs two;
two or three containers per host give counters above one and a last user;
`Refreshers` bounds the goroutines alive on a host (an old one not yet stopped
and the new one) and `MaxCount` the counter. Two keys that two
requests share are enough for waiting with a lock in hand; three or four requests
per volume cover every pair of kinds. In snap a third snapshot makes pruning with a Keep
of 1 or 2 remove some and keep some; in driver the retries (10, 3 and 10 in the
code) are few, as a retry differs from the one before only in its number; in config three
events are enough to lose one and get the next, and a second option gives the merge an
order. `Symmetry` is used only in runs without liveness properties.

**Deadlock** is checked in the runs of MountProtocol. In the others it is not
(CHECK_DEADLOCK FALSE): requests may all end or die, bounds on events, writes
and signals run out, and a volsupervisor or a device need never be used again.

**Fairness.** A handler that can go on does: its goroutine is runnable, and driver
commands and lock retries have timeouts. A refresh goroutine's timer fires and its
stop is received. etcd deletes expired keys. Docker sends the Unmount it owes for a
failed Mount. Nothing makes a container stop, a daemon restart or a machine boot. In
MultiLock every accepted request takes its steps. In Snapshots and VolSupervisor the
goroutines of a process that is alive run; in CephDriver commands end, well or badly,
since they have timeouts, and the operation goes on (weak fairness of its steps together;
nothing says that a command ever succeeds). In ConfigWatch a daemon opens its polls again, and a poll for an event that is
there is answered in the end (strong fairness: polls may be cut off any number of times
before), though the read that follows may fail. In DbWatch a caller that has not left reads, and a cancelled poll does not
always win against its cancellation. Nothing makes operators act or daemons restart.

## 4. What is proved

Every invariant and every action property that a passing run checks is also a theorem:
for every set of hosts, containers, goroutines, requests, keys, volumes and devices and
every bound, from the assumptions named in the modules and the conditions named in the
theorems. The conditions are on what the environment does; each is needed, as the tables
of section 3 show by dropping them.

Of the liveness properties TLC checks on small instances, most have a *safety half* that
is proved in general: nothing gets lost, nobody is forgotten, all do not wait for each
other. What then remains for TLC is that goroutines that can go on do.

**MountProtocol_proofs.** `TypeCorrect` and `OwnLockOnlyHolds` in any environment.

`MountInvariant`, `LockCoversMountHolds`, `MutualExclusionHolds` and
`ImplementsExclusive` if `CalmEnvironment`: the volume is locked, Docker sends one
request at a time to a host and none before a stop was acted upon, no refresh stalls
and `driver.Unmount` succeeds. Daemons and hosts may die, lookups and mounts fail.
*Argument.* MutualExclusion is not inductive: it says nothing of why the lock is
still there. `MountInv` adds that the lock of a host with a mount, or with a request
past its publish, is *secured* (permanent, or refreshed by a running goroutine, or
waiting for a restart in time), and that whatever removes the lock (clearMount, a stopped
goroutine) runs only when the host has neither a mount nor another request. One
lemma per group of actions, then LockCoversMount, then exclusion since the
key has one content.

`CounterMatchesHolds` if `EvenEnvironment`: lookups succeed and no daemon dies under
its containers; and a locked volume is used by one host, in order. For an unlocked volume
the requests of any number of hosts may overlap, hosts may die and the driver may fail in
every way. `MountsOnceHolds` and `RunningKeepsMountHolds` if `OrderlyEnvironment`:
also the requests of one host do not overlap and `driver.Unmount` succeeds (and, for
RunningKeepsMount of an unlocked volume, `driver.Mount` does).
*Argument.* The counter is right as long as no request is refused before it is counted
or uncounted: `Granted` says that the key PublishUse has found is still there, and this
host's, when it is swapped; an unlocked volume has no such request (`Lockless`). Then
each of CountAdd and CountSub changes the set `Counted` by one element and nothing else
changes it. From an exact counter follows that who finds it at one is the only user
(`Sole`), that who finds it at zero is the last (`Last`), and that a mount has its
users or is being undone by the last of them (`HasUsers`): `UseInvariant`.

`MountIsRefreshedHolds` if `CalmEnvironment`, the safety half of `LockedIsLeased`: a mount
on a live host has a refresh goroutine that runs, or its Mount has still to start one or
to undo the mount; and every goroutine that runs is the one whose stop channel is in the
table, so none escapes the Unmount to come. *Argument.* `Lease`: from CollectionAdd to
CollectionRemove the collection has the volume, a channel in the table is that of a
running goroutine, and one is there whenever the collection has the volume and no Mount is
between the two; a second Mount is counted second and goes nowhere near startTTLRefresh.

**MultiLock_proofs.** `LockInvariant`, `RunsUnderAllLocksHolds` and
`RunsExclusivelyHolds`, if no two requests write the same content to a key that
`MayExist` (`DistinctContents`; bad_second_remove shows the other case).
*Argument.* What a request has acquired has its content (`HeldIsWritten`) and nobody
else has acquired it (`HeldByOne`); a create needs an absent key, a swap the
own content, a removal compares. `NothingLeftBehindHolds`, if besides no request gives
up or dies, and `PatientLeaveNothingHolds`, the same of the specification of the run.
*Argument.* A lock that is there is one that a request in progress has acquired and
will remove (`NoneLost`), and its removal succeeds since by LockInvariant it is still
its own. `NeverDeadlockedHolds`, the safety half of `PatientRequestsEnd`: if besides the
keys have an order in which every request names its own, the requests never all wait for
each other. *Argument.* Of the blocked requests take the one that waits for the lowest
key. By `NoneLost` a request has it, and what that one waits for is lower still. The order
is needed: two copies between two volumes, one in each direction, both wait for ever when
neither gives up, and TLC finds that when the instance has them. (A finite timeout ends
such a wait, and leaves the locks that PatientLeaveNothing is about.)

**VolumeLifecycle_proofs.** `WritersExcludeHolds`, with forced
removals and any fault or death included: if creates, copies and removes all
lock one key that may not exist and is not the mount lock, no two of them run
at once. *Argument.* `SafeKey(k)`, the MultiLock invariant for the one key k, which
does not need distinct contents because such a key is never swapped, and which a
forced removal does not touch.

`LifeInvariant`, and from it `ConsistentWhenFreeHolds`, `UsedIsWholeHolds`,
`FormatsOwnImageHolds`, `RemovedIsDestroyedHolds` and `CreatedIsReadableHolds`, if
`Calm`: contents are distinct, nothing is forced or uploaded beside the locks, and the
commands whose failure the code does not undo (a killed create, the clone of a copy, the
destroy and the deletions of a removal) succeed; create, format, either key of the
publication and mount may fail and any process may die. Only volumes that have images are copied, which handleCopy checks
(`apiserver/daemon.go:451`), and UsedIsWhole is about those too.
*Argument.* ConsistentWhenFree says nothing while the lock is held. `LifeInv` adds, for
the one request that runs, what it has made of record and image by its next step
(`Midway`), and that a volume that is neither whole nor gone has such a request, or the
mount lock of a dead one, which nobody takes over (`Abandoned`), or is what a failed
publication leaves (`HalfPublished`: an image, if any, that has a file system, and a record
that is empty, half or, if etcd wrote it after all, full) until the next removal. That there is one
such request is the invariant of MultiLock.

**VolSupervisor_proofs.** `OneSupervisorHolds`, if no refresh stalls. *Argument.* A
volsupervisor that is up has the global lock and a goroutine that keeps it and was
not told to stop (`WorksUnderLock`); a start needs an absent lock, and
goroutines that stop, leases and expiries touch only the lock of a process
that is not up. `ProbeIsHarmlessHolds`, always: each request of a probe compares.
`ProbeLockLeftHolds`, always, the safety half of `ProbeLockCleared`: a blank mount lock
without a probe that is about to remove it comes only from a volsupervisor that has ended
between the two requests (`LeftByTheDead`), as nothing of a pass outlives its process
(`IdleWhenDown`).

**Snapshots_proofs.** `SnapshotsExcludeHolds` and `PruneKeepsNewestHolds`, if no refresh
stalls, for any number of volsupervisors and goroutines that start, leave and die.
*Argument.* The content of a snapshot lock names its reason and not its goroutine, so
the invariant cannot say who holds it. It says that a goroutine at work has a refresh
goroutine (`WorkIsRefreshed`), that there is one of these at most and the lock has its
content (`RefreshedIsHeld`), and that a request of the apiserver has the lock without
a TTL (`RequestIsHeld`). For the pruning, what was condemned keeps enough later
snapshots (`DoomedAreOld`), because nobody else removes any. `LockHasKeeperHolds`, with
late refreshes too, the safety half of `SnapshotLockFreed`: the lock of a goroutine has a
TTL or a refresh goroutine, unless a volsupervisor has died (`LockHasKeeper`), and a refresh
goroutine that was not told to stop belongs to work that is not done
(`RefreshersAreStopped`).

**CephDriver_proofs.** `SuccessIsCompleteHolds` and `OwnDevicesOnlyHolds`, for any number
of volumes, devices and retries and whatever commands fail. *Argument.* `DriverInv`:
what Unmount has undone stays undone and the list of unmapImage has all devices of the
volume (`Undone`), a result is still true (`Complete`), and until an image is mapped
twice a volume has one device at most, which is the one that was found and all that
was listed (`Own`). Only operations on the volume itself give or take its devices.
`BoundedWorkHolds`, the safety half of `OperationsReturn`: the number `Left`, made of the
step an operation is at and the retries that are left, becomes smaller with every step
of the operation, except where rmdir or showmapped fails, and the operations on other
volumes leave it alone. So an operation for which neither fails takes at most
`MapTries + UnmountTries + 2 * UnmapTries + 9` steps.

**Configuration_proofs.** `VersionIsAppliedHolds`, for any number of migrations and of
overlapping volmigrates (`MigInv`: a run that is about to do a migration knows that all
before it were done, since it did them or read a version that says so);
`PublishedHasRevisionHolds` from `PolicyInv` (what is about to be published is in the
archive, too); `MadeAsRecordedHolds` from `CreationInv`; `AnswersAreExactHolds` and
`FailsForAReasonHolds` from `ReadsInv` (of a volume that did not change, what was
read so far is true, and a request about it still has it to read or has it in its
response: `Untouched`; and a key is in a directory: `KeysInDirs`).

`CreatedAsAskedHolds`, for any set of options and any order of merging them. *Argument.*
setKey searches the fields of a type and of the types nested in it, which are two deep:
`Walk`, three times. The lemmas about it say that a documented option sets its field and
nothing else, and any other is refused. So the policy is at any time the one asked for by the options merged so
far (`MergedSoFar` in `OptionsInv`), whichever these are, and in the end by all.

`NoChangeLostHolds`, the safety half of `GlobalConverges` and `LimitConverges`: a daemon that
runs works with the latest value, or its watch has an event still to come, unless
`missed`. *Argument.* `WatchInv`: the index of a poll is never past the last event, the
value of the key is that of the last event, and what is being sent, or was read by a
Mount, is the latest or will be followed by it. A blocked watch counts as one with an
event to come, which is the exception that GlobalConverges makes.

**Db_proofs.** `VisibleIsWholeHolds` (a Set that is about to write the volume has
written its options, or they were deleted since); `ExistingIsKeptHolds` (`LookedInVain`:
what a Set without an excuse has not found is still not there, since it is the only
Set of the volume); `ListIsExactHolds` (`ListedOrDue`, as in ReadsInv); and
`OneOpenWatchHolds` (a stop channel is closed exactly when its watch has left the map, so
none is closed twice); and `RegisteredIsAliveHolds` (who is cancelled or gone was told to
stop, so the watch in the map has its goroutine whatever fails).

Only model-checked: liveness (every property "under fairness" above), which the
prover does not handle.

## 5. Not modelled, and the plan

What is left to prove: the liveness properties themselves, from the safety halves of
section 4, and weaker forms of the properties in worse environments. One that suggests
itself is false: that the counter of a locked volume on several hosts is at least never
too high. TLC refutes it (mount_serial with `counter[h] <= Cardinality(Counted(h))`): a Mount
is counted, its driver.Mount fails, another host takes the lock that clearMount gives up,
and the Unmount is refused before it reaches the counter (`api/handlers.go:361`).

What could still be composed: a snapshot and a mount of one volume, through
IsVolumeInUse, with MountProtocol in full instead of one step; it would say no more of
the mount lock than `ProbeIsHarmless` does.

Left out, since there is no state in it to be wrong or no daemon that runs it:

- volcli apart from `use exec`: an HTTP client of the apiserver, and argument parsing;
- the nfs driver, whose operations are single system calls, and the null and test drivers;
- the codec of Docker's protocol and the HTTP layer: what Docker sends is the
  environment of MountProtocol;
- the parsing of mountinfo, whose result is the input of `Restart`;
- JSON schemas beyond the conditions on size and snapshots; error values; debug helpers;
  the tar file of the configuration;
- of `db/`, which no daemon uses at this commit: the entities Policy and Global, which
  are single keys without hooks that change anything;
- the steps inside ceph's CopySnapshot, which are one action of VolumeLifecycle.
