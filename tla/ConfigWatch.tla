------------------------------ MODULE ConfigWatch ------------------------------
(***************************************************************************)
(* How a daemon follows the configuration: it reads the global             *)
(* configuration when it starts and watches it from then on, and a         *)
(* volplugin also watches the runtime options of volumes, whose rate       *)
(* limits it applies to what it has mounted.                               *)
(*                                                                         *)
(* A watch is a long poll.  Until its first event it has no index, and     *)
(* every poll starts from the events to come; after that it asks for the   *)
(* event that follows the last one, so that none is lost.  An error goes   *)
(* to a channel with room for one that nobody reads.                       *)
(*                                                                         *)
(* Daemons do not interact here, nor do the watches of a daemon: one watch *)
(* of one daemon is modelled, of the global configuration, from which the  *)
(* TTL is kept, or of the runtime options of one volume, from which the    *)
(* rate limit is kept.                                                     *)
(***************************************************************************)
EXTENDS Naturals, Sequences

CONSTANTS
    Uploads,     \* the TTLs that operators upload, as they write them
    FixBase,     \* ttlFixBase: how many units a second has
    DefaultTTL,  \* DefaultGlobalTTL
    Limits,      \* the rate limits
    None,        \* no value: a deleted key, a TTL left out, no limit
    Garbage,     \* a value that does not decode
    MaxEvents    \* bounds the changes of the key

ASSUME WatchAssumption ==
    /\ Uploads \subseteq Nat
    /\ FixBase \in Nat \ {0}
    /\ DefaultTTL \in Nat \ {0}
    /\ None \notin Nat \cup Limits
    /\ Garbage \notin Nat \cup {None}
    /\ MaxEvents \in Nat

Keys == {"global", "runtime"}

VARIABLES
    key,     \* which key is watched; never changes
    value,   \* what etcd has
    log,     \* the values of its events
    up,      \* whether the daemon runs
    watch,   \* "off", "detached" (no poll is open), "waiting", "send" (a
             \* volume to pollRuntime) or "blocked"
    index,   \* the event it will ask for, 0 if it has none
    from,    \* the event that the open poll waits for
    errors,  \* how many errors the error channel holds
    global,  \* the TTL that the daemon works with
    mount,   \* "none", "read" (the record), "collected" or "mounted"
    config,  \* the limit that Mount has read
    sent,    \* the limit that the watch sends
    limit,   \* the limit in force
    missed   \* history: a change is lost on the daemon: it has passed by, or
             \* the read for it or its use has failed

store   == <<key, value, log>>
watcher == <<watch, index, from, errors>>
use     == <<mount, config, limit>>
watchVars == <<store, watcher, use, up, global, sent, missed>>

--------------------------------------------------------------------------------
(* The representations of the global configuration.                        *)

(* PublishGlobal stores whole units for what is less than one of them. *)
Canonical(ttl) == IF ttl < FixBase THEN ttl * FixBase ELSE ttl

Published(ttl) == ttl \div FixBase

SetEmpty(ttl) == IF ttl = 0 THEN DefaultTTL ELSE ttl

(* What a daemon that starts makes of the key.  It falls back on the       *)
(* defaults if there is none, or none that decodes.                        *)
GetGlobal == IF value \in {None, Garbage} THEN DefaultTTL ELSE SetEmpty(value)

(* What the watch makes of an event: an empty TTL stays empty. *)
Decoded(v) ==
    CASE v = None    -> DefaultTTL
      [] v = Garbage -> global
      [] OTHER       -> v

--------------------------------------------------------------------------------
WatchInit ==
    /\ key \in Keys
    /\ value = None
    /\ log = <<>>
    /\ up = FALSE
    /\ watch = "off"
    /\ index = 0
    /\ from = 0
    /\ errors = 0
    /\ global = DefaultTTL
    /\ mount = "none"
    /\ config = None
    /\ sent = None
    /\ limit = None
    /\ missed = FALSE

(* A change of the key.  Nobody sees it if the watch has no index and no   *)
(* poll open.                                                              *)
Put(v) ==
    /\ Len(log) < MaxEvents
    /\ value' = v
    /\ log' = Append(log, v)
    /\ missed' = (missed \/ (index = 0 /\ watch \in {"off", "detached", "blocked"}))
    /\ UNCHANGED <<key, watcher, use, up, global, sent>>

(* handleGlobalUpload: what the operator leaves out is the default. *)
UploadGlobal ==
    /\ key = "global"
    /\ \E u \in Uploads \cup {None} : Put(Canonical(IF u = None THEN DefaultTTL ELSE u))

(* An operator uploads what handleGlobal has shown. *)
Reupload == key = "global" /\ up /\ Put(Canonical(Published(global)))

(* An operator deletes or spoils the key with a tool of etcd. *)
SpoilGlobal == key = "global" /\ \E v \in {None, Garbage} : Put(v)

(* handleRuntimeUpload. *)
UploadRuntime == key = "runtime" /\ \E l \in Limits : Put(l)

--------------------------------------------------------------------------------
(* The daemon.                                                             *)

Starts ==
    /\ ~up
    /\ up' = TRUE
    /\ watch' = "detached"
    /\ UNCHANGED <<store, index, from, errors, use, sent>>

(* Daemon: the global configuration is read, and only then watched; the    *)
(* runtime options are watched once updateMounts is done.                  *)
Start ==
    /\ Starts
    /\ global' = (IF key = "global" THEN GetGlobal ELSE global)
    /\ missed' = (missed /\ key = "runtime")

(* Any error of etcd makes apiserver and volplugin go on with the          *)
(* defaults, and nothing brings what is in etcd later.                     *)
StartWithDefaults ==
    /\ Starts
    /\ key = "global"
    /\ global' = DefaultTTL
    /\ missed' = TRUE

(* An event that the watch would still get. *)
Pending ==
    \/ watch = "send"
    \/ index \in 1 .. Len(log)
    \/ watch = "waiting" /\ from <= Len(log)

(* What is mounted stays, with the limit in force; updateMounts applies    *)
(* none.  A Mount that was about to apply its limit never will.            *)
Dies ==
    /\ up
    /\ up' = FALSE
    /\ watch' = "off"
    /\ index' = 0
    /\ from' = 0
    /\ errors' = 0
    /\ mount' = (IF mount \in {"collected", "mounted"} THEN "mounted" ELSE "none")
    /\ missed' = (missed \/ mount = "collected" \/ Pending)
    /\ config' = None
    /\ sent' = None
    /\ UNCHANGED <<store, global, limit>>

--------------------------------------------------------------------------------
(* The goroutine of the watch.                                             *)

(* Next: a poll is opened, for the index or for what is to come. *)
Attach ==
    /\ watch = "detached"
    /\ watch' = "waiting"
    /\ from' = (IF index = 0 THEN Len(log) + 1 ELSE index)
    /\ UNCHANGED <<store, index, errors, use, up, global, sent, missed>>

(* The end of a poll without an answer.  A watch without an index forgets  *)
(* what it has been waiting for.                                           *)
Detached(where) ==
    /\ watch' = where
    /\ from' = 0
    /\ missed' = (missed \/ (index = 0 /\ watch = "waiting" /\ from <= Len(log)))
    /\ UNCHANGED <<store, use, up, global, sent>>

(* etcd closes the poll: an empty body is no error. *)
EmptyBody ==
    /\ watch = "waiting"
    /\ Detached("detached")
    /\ UNCHANGED <<index, errors>>

(* Mutant: a new watcher is made after an error. *)
NextWatchesAnew ==
    /\ watch \in {"detached", "waiting"}
    /\ errors = 0
    /\ errors' = 1
    /\ Detached("detached")
    /\ index' = 0

(* Next fails.  The first error fits into the channel, and the loop goes   *)
(* on; with the second it waits for somebody to read the first.            *)
NextFails ==
    /\ watch \in {"detached", "waiting"}
    /\ errors = 0
    /\ errors' = 1
    /\ Detached("detached")
    /\ UNCHANGED index

NextBlocks ==
    /\ watch \in {"detached", "waiting"}
    /\ errors = 1
    /\ Detached("blocked")
    /\ UNCHANGED <<index, errors>>

Answered(where) ==
    /\ watch = "waiting"
    /\ from <= Len(log)
    /\ index' = from + 1
    /\ watch' = where
    /\ from' = 0
    /\ UNCHANGED <<store, errors, up>>

(* WatchGlobal: the value goes through a channel to the goroutine that     *)
(* sets it.                                                                *)
GlobalEvent ==
    /\ key = "global"
    /\ Answered("detached")
    /\ global' = Decoded(log[from])
    /\ missed' = FALSE
    /\ UNCHANGED <<use, sent>>

(* WatchVolumeRuntimes: the volume is read as it is now ...                *)
RuntimeEvent ==
    /\ key = "runtime"
    /\ Answered("send")
    /\ sent' = value
    /\ UNCHANGED <<global, use, missed>>

(* ... but the event is gone when that fails, ...                          *)
EventLost ==
    /\ key = "runtime"
    /\ Answered("detached")
    /\ missed' = TRUE
    /\ UNCHANGED <<global, use, sent>>

(* Mutant: the limit of the record that Mount has read is applied. *)
PollAppliesConfig ==
    /\ watch = "send"
    /\ watch' = "detached"
    /\ limit' = IF mount \in {"collected", "mounted"} THEN config ELSE limit
    /\ sent' = None
    /\ UNCHANGED <<store, index, from, errors, up, global, mount, config, missed>>

(* ... and pollRuntime applies its limit if it is mounted here.  A Mount   *)
(* that has read an older record, and applies that later, wins.            *)
PollRuntime ==
    /\ watch = "send"
    /\ watch' = "detached"
    /\ limit' = IF mount \in {"collected", "mounted"} THEN sent ELSE limit
    /\ missed' = CASE mount = "mounted"               -> FALSE
                   [] mount \in {"read", "collected"} -> missed \/ sent # config
                   [] OTHER                           -> missed
    /\ sent' = None
    /\ UNCHANGED <<store, index, from, errors, up, global, mount, config>>

(* A failed write to the cgroup is only logged.  It may come after the     *)
(* first of two.                                                           *)
PollFails ==
    /\ watch = "send"
    /\ mount \in {"collected", "mounted"}
    /\ watch' = "detached"
    /\ limit' \in {limit, sent}
    /\ missed' = (missed \/ mount = "mounted" \/ sent # config)
    /\ sent' = None
    /\ UNCHANGED <<store, index, from, errors, up, global, mount, config>>

--------------------------------------------------------------------------------
(* Mount and Unmount, as far as the limits go.                             *)

MountReads ==
    /\ key = "runtime" /\ up /\ mount = "none"
    /\ mount' = "read"
    /\ config' = value
    /\ missed' = FALSE
    /\ UNCHANGED <<store, watcher, up, global, sent, limit>>

MountCollects ==
    /\ up /\ mount = "read"
    /\ mount' = "collected"
    /\ UNCHANGED <<store, watcher, up, global, sent, config, limit, missed>>

MountApplies ==
    /\ up /\ mount = "collected"
    /\ mount' = "mounted"
    /\ limit' = config
    /\ UNCHANGED <<store, watcher, up, global, sent, config, missed>>

(* The write to the cgroup fails: the volume is mounted nevertheless. *)
MountUnlimited ==
    /\ up /\ mount = "collected"
    /\ mount' = "mounted"
    /\ limit' \in {limit, config}
    /\ missed' = TRUE
    /\ UNCHANGED <<store, watcher, up, global, sent, config>>

Unmount ==
    /\ up /\ mount = "mounted"
    /\ mount' = "none"
    /\ config' = None
    /\ limit' = None
    /\ UNCHANGED <<store, watcher, up, global, sent, missed>>

--------------------------------------------------------------------------------
WatchNext ==
    \/ UploadGlobal \/ Reupload \/ SpoilGlobal \/ UploadRuntime
    \/ Start \/ StartWithDefaults \/ Dies
    \/ Attach \/ EmptyBody \/ NextFails \/ NextBlocks
    \/ GlobalEvent \/ RuntimeEvent \/ EventLost \/ PollRuntime \/ PollFails
    \/ MountReads \/ MountCollects \/ MountApplies \/ MountUnlimited \/ Unmount

(* The goroutines of the daemon run, and a poll for an event that is there *)
(* is answered in the end, however often polls are cut off before.         *)
WatchFairness ==
    /\ WF_watchVars(Attach)
    /\ SF_watchVars(GlobalEvent)
    /\ SF_watchVars(RuntimeEvent \/ EventLost)
    /\ WF_watchVars(PollRuntime \/ PollFails)

WatchSpec == WatchInit /\ [][WatchNext]_watchVars /\ WatchFairness

--------------------------------------------------------------------------------
(* PROPERTIES *)

WatchTypeOK ==
    /\ key \in Keys
    /\ value \in Nat \cup Limits \cup {None, Garbage}
    /\ log \in Seq(Nat \cup Limits \cup {None, Garbage})
    /\ up \in BOOLEAN
    /\ watch \in {"off", "detached", "waiting", "send", "blocked"}
    /\ index \in Nat
    /\ from \in Nat
    /\ errors \in {0, 1}
    /\ global \in Nat
    /\ mount \in {"none", "read", "collected", "mounted"}
    /\ {config, sent, limit} \subseteq Limits \cup {None}
    /\ missed \in BOOLEAN

(* The daemon works with the configuration in etcd, up to an empty TTL. *)
GlobalIsCurrent ==
    \/ value = Garbage
    \/ value = None /\ global = DefaultTTL
    \/ value \in Nat /\ global \in {value, SetEmpty(value)}

(* A running daemon whose watch is not stuck on its errors ends up with    *)
(* the configuration that was uploaded last, however often its polls are   *)
(* cut off and it restarts, unless it could not read the configuration     *)
(* when it started or a change fell between its reading and its watching:  *)
(* those hold until the next change.                                       *)
GlobalConverges ==
    key = "global" /\ <>[](up /\ watch # "blocked") => <>[](missed \/ GlobalIsCurrent)

(* The rate limit of a volume that stays mounted becomes the one uploaded  *)
(* last, unless the change fell into its Mount, a restart or the time      *)
(* before the first event, or the volume could not be read for its event,  *)
(* or the limit not be written to the cgroup.                              *)
LimitConverges ==
    key = "runtime" /\ <>[](up /\ watch # "blocked" /\ mount = "mounted")
        => <>[](missed \/ limit = value)
================================================================================
