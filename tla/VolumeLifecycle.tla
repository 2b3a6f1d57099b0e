---------------------------- MODULE VolumeLifecycle ----------------------------
(***************************************************************************)
(* The life of ONE volume: its record in etcd (the keys "create" and       *)
(* "runtime"), its image in the storage backend, and the requests that     *)
(* create, copy, mount and remove it under the locks of MultiLock, or      *)
(* touch it without any lock.                                              *)
(*                                                                         *)
(* The clients are those of MultiLock; Kind[c] says what c's request does  *)
(* once it has its locks (pc[c] = "run"), and at[c] where it stands.       *)
(*   create   handleCreate (apiserver) and Create (volplugin)              *)
(*   copy     handleCopy, with this volume as the target                   *)
(*   remove   handleRemove                                                 *)
(*   mount    Mount to Unmount, abstracted to one request that runs as     *)
(*            long as the volume is mounted (see MountProtocol)            *)
(* The storage driver fails in the ways that Faults allows.                *)
(***************************************************************************)
EXTENDS MultiLock

CONSTANTS
    Kind,      \* Kind[c]: "create", "copy", "remove" or "mount"
    MountKey,  \* the volume's mount lock, an element of Keys
    HasCRUD,   \* the volume has a CRUD backend (ceph), or none (nfs)
    Faults,    \* the calls that may fail, a subset of Calls
    Upload,    \* whether handleRuntimeUpload is called
    Forced,    \* whether operators drop records (handleRemoveForce) and
               \* force removals (handleForceRemoveLock)
    Present    \* whether the volume exists at first

Calls == {"create", "timeout", "format", "clone", "exists", "destroy", "delete", "mount",
          "publish", "runtime"}

ASSUME LifeAssumption ==
    /\ Kind \in [Clients -> {"create", "copy", "remove", "mount"}]
    /\ MountKey \in Keys
    /\ \A c \in Clients : Wants[c][1] = MountKey
    /\ HasCRUD \in BOOLEAN
    /\ Faults \subseteq Calls
    /\ Upload \in BOOLEAN
    /\ Forced \in BOOLEAN
    /\ Present \in BOOLEAN

VARIABLES
    keys,    \* the keys of the volume's record that exist
    image,   \* "none", "raw" (created) or "ok" (formatted, or a clone)
    at,      \* at[c]: the step of c's function that is next; "ok" or "error"
             \*        when it has returned
    upload,  \* handleRuntimeUpload has read the record and not yet written
    force,   \* the next step of a forced removal, or "idle"
    unpublished  \* history: a PublishVolume has met an error of etcd since
                 \* the volume was last removed

life == <<keys, image, at, upload, force, unpublished>>
allVars == <<vars, life>>

Full == {"create", "runtime"}
Readable == keys = Full        \* GetVolume succeeds

Steps == {"image", "format", "cleanup", "publish", "runtime", "clone", "exists",
          "destroy", "record", "gone", "mount", "using", "ok", "error"}

LifeInit ==
    /\ Init
    /\ keys = IF Present THEN Full ELSE {}
    /\ image = IF Present /\ HasCRUD THEN "ok" ELSE "none"
    /\ at = [c \in Clients |-> "error"]
    /\ upload = FALSE
    /\ force = "idle"
    /\ unpublished = FALSE

LifeTypeOK ==
    /\ TypeOK
    /\ keys \subseteq Full
    /\ image \in {"none", "raw", "ok"}
    /\ at \in [Clients -> Steps]
    /\ upload \in BOOLEAN
    /\ force \in {"idle", "destroy", "record", "unlock", "lock"}
    /\ unpublished \in BOOLEAN

(* c's function is about to make the step. *)
Runs(c, step) == pc[c] = "run" /\ at[c] = step

(* c goes on to a step; a call fails. *)
Do(c, step) == at' = [at EXCEPT ![c] = step]
Fails(call) == call \in Faults

Using == {c \in Clients : Runs(c, "using")}

(* driver.Destroy: the backend refuses to destroy an image that is in use. *)
Destroyed ==
    \/ Using = {} /\ image' = "none"
    \/ (Using # {} \/ Fails("destroy")) /\ UNCHANGED image

--------------------------------------------------------------------------------
(* The request: what is read before the locks are taken, and the locks.    *)

FirstStep(c) ==
    CASE Kind[c] = "create" -> IF HasCRUD THEN "image" ELSE "publish"
      [] Kind[c] = "copy"   -> "publish"
      [] Kind[c] = "remove" -> "exists"
      [] Kind[c] = "mount"  -> "mount"

(* handleRemove and Mount read the record first and give up without it.    *)
(* volplugin's Create gives up when it can read the record, the            *)
(* apiserver's does not; the record a copy reads is its source's.          *)
Arrive(c) ==
    /\ Kind[c] \in {"remove", "mount"} => Readable
    /\ Begin(c)
    /\ Do(c, FirstStep(c))
    /\ UNCHANGED <<keys, image, upload, force, unpublished>>

(* handleRemove after handleForceRemoveLock. *)
ArriveForced(c) ==
    /\ Kind[c] = "remove"
    /\ force = "lock"
    /\ Begin(c)
    /\ Do(c, FirstStep(c))
    /\ force' = "idle"
    /\ UNCHANGED <<keys, image, upload, unpublished>>

(* A step of ExecuteWithMultiUseLock. *)
LockStep(c) ==
    /\ \/ TryCreate(c) \/ CreateRefused(c) \/ TrySwap(c) \/ SwapRefused(c)
       \/ Retry(c) \/ GiveUp(c) \/ Release(c)
    /\ UNCHANGED life

(* The function returns, and the locks are removed. *)
Return(c) ==
    /\ at[c] \in {"ok", "error"}
    /\ FunctionReturns(c)
    /\ UNCHANGED life

(* The apiserver or, for a mount, the host dies. *)
Die(c) ==
    /\ Crash(c)
    /\ Do(c, "error")
    /\ UNCHANGED <<keys, image, upload, force, unpublished>>

--------------------------------------------------------------------------------
(* createVolume. *)

(* Mutant: an image that exists is taken for the one to create. *)
AdoptsImage(c) ==
    /\ Runs(c, "image")
    /\ image' = (IF image = "none" THEN "raw" ELSE image)
    /\ Do(c, "format")
    /\ UNCHANGED <<vars, keys, upload, force, unpublished>>

(* control.CreateVolume: the driver refuses an image that exists.  If its  *)
(* command is killed at the timeout the driver reports success, and the    *)
(* image is there or not.                                                  *)
CreateImage(c) ==
    /\ Runs(c, "image")
    /\ \/ image = "none" /\ image' = "raw" /\ Do(c, "format")
       \/ (image # "none" \/ Fails("create")) /\ UNCHANGED image /\ Do(c, "error")
       \/ Fails("timeout") /\ UNCHANGED image /\ Do(c, "format")
    /\ UNCHANGED <<vars, keys, upload, force, unpublished>>

FormatImage(c) ==
    /\ Runs(c, "format")
    /\ \/ image # "none" /\ image' = "ok" /\ Do(c, "publish")
       \/ (image = "none" \/ Fails("format")) /\ UNCHANGED image /\ Do(c, "cleanup")
    /\ UNCHANGED <<vars, keys, upload, force, unpublished>>

(* Mutant: a failed format leaves the image. *)
NoCleanup(c) ==
    /\ Runs(c, "cleanup")
    /\ Do(c, "error")
    /\ UNCHANGED <<vars, keys, image, upload, force, unpublished>>

(* control.RemoveVolume after a failed format; its failure is logged. *)
CleanupImage(c) ==
    /\ Runs(c, "cleanup")
    /\ Destroyed
    /\ Do(c, "error")
    /\ UNCHANGED <<vars, keys, upload, force, unpublished>>

(* PublishVolume: the key "create", if it does not exist.  Whatever error  *)
(* etcd answers, with the key written or not, becomes Exists: a create     *)
(* goes on as if it had succeeded, and a copy fails.                       *)
PublishRecord(c) ==
    /\ Runs(c, "publish")
    /\ \/ /\ "create" \notin keys
          /\ keys' = keys \cup {"create"}
          /\ Do(c, "runtime")
          /\ UNCHANGED unpublished
       \/ /\ "create" \in keys \/ Fails("publish")
          /\ keys' \in {keys} \cup (IF Fails("publish") THEN {keys \cup {"create"}} ELSE {})
          /\ Do(c, IF Kind[c] = "create" THEN "ok" ELSE "error")
          /\ unpublished' = (unpublished \/ "create" \notin keys)
    /\ UNCHANGED <<vars, image, upload, force>>

(* Mutant: the runtime options are not published. *)
SkipRuntime(c) ==
    /\ Runs(c, "runtime")
    /\ Do(c, IF Kind[c] = "create" THEN "ok" ELSE "clone")
    /\ UNCHANGED <<vars, keys, image, upload, force, unpublished>>

(* PublishVolumeRuntime: the key "runtime", whether it exists or not.  An  *)
(* error of etcd, with the key written or not, ends the request; nothing   *)
(* takes back the record or the image.                                     *)
PublishRuntime(c) ==
    /\ Runs(c, "runtime")
    /\ \/ /\ keys' = keys \cup {"runtime"}
          /\ Do(c, IF Kind[c] = "create" THEN "ok" ELSE "clone")
          /\ UNCHANGED unpublished
       \/ /\ Fails("runtime")
          /\ keys' \in {keys, keys \cup {"runtime"}}
          /\ Do(c, "error")
          /\ unpublished' = TRUE
    /\ UNCHANGED <<vars, image, upload, force>>

(* handleCopy: CopySnapshot, after the record has been published.  An      *)
(* image that exists is an error; after another error cleanupCopy removes  *)
(* the image, its own or not, unless that fails too.  The record stays.    *)
CloneImage(c) ==
    /\ Runs(c, "clone")
    /\ \/ image = "none" /\ image' = "ok" /\ Do(c, "ok")
       \/ image # "none" /\ UNCHANGED image /\ Do(c, "error")
       \/ Fails("clone") /\ Destroyed /\ Do(c, "error")
       \/ Fails("clone") /\ Fails("destroy") /\ image' = "ok" /\ Do(c, "error")
    /\ UNCHANGED <<vars, keys, upload, force, unpublished>>

--------------------------------------------------------------------------------
(* handleRemove. *)

(* ExistsVolume. *)
CheckImage(c) ==
    /\ Runs(c, "exists")
    /\ \/ Do(c, IF ~HasCRUD THEN "record"
                 ELSE IF image = "none" THEN "gone" ELSE "destroy")
       \/ HasCRUD /\ Fails("exists") /\ Do(c, "error")
    /\ UNCHANGED <<vars, keys, image, upload, force, unpublished>>

(* Mutant: only the record is removed. *)
SkipImage(c) ==
    /\ Runs(c, "destroy")
    /\ Do(c, "record")
    /\ UNCHANGED <<vars, keys, image, upload, force, unpublished>>

(* completeRemove: control.RemoveVolume, a failure only logged ...         *)
DestroyImage(c) ==
    /\ Runs(c, "destroy")
    /\ Destroyed
    /\ Do(c, "record")
    /\ UNCHANGED <<vars, keys, upload, force, unpublished>>

(* ... and RemoveVolume, which deletes the whole record; if the image did  *)
(* not exist the answer is NotExists.                                      *)
RemoveRecord(c) ==
    /\ Runs(c, "record") \/ Runs(c, "gone")
    /\ \/ /\ keys' = {}
          /\ Do(c, IF at[c] = "record" /\ keys # {} THEN "ok" ELSE "error")
          /\ unpublished' = FALSE
       \/ Fails("delete") /\ UNCHANGED <<keys, unpublished>> /\ Do(c, "error")
    /\ UNCHANGED <<vars, image, upload, force>>

--------------------------------------------------------------------------------
(* Mount and Unmount, with the lock of a mount. *)

MountImage(c) ==
    /\ Runs(c, "mount")
    /\ \/ (HasCRUD => image = "ok") /\ Do(c, "using")
       \/ ((HasCRUD /\ image # "ok") \/ Fails("mount")) /\ Do(c, "error")
    /\ UNCHANGED <<vars, keys, image, upload, force, unpublished>>

UnmountImage(c) ==
    /\ Runs(c, "using")
    /\ Do(c, "ok")
    /\ UNCHANGED <<vars, keys, image, upload, force, unpublished>>

--------------------------------------------------------------------------------
(* Requests without locks. *)

(* handleRuntimeUpload: GetVolume, and later PublishVolumeRuntime. *)
UploadReads ==
    /\ Upload
    /\ ~upload
    /\ Readable
    /\ upload' = TRUE
    /\ UNCHANGED <<vars, keys, image, at, force, unpublished>>

UploadWrites ==
    /\ upload
    /\ keys' \in {keys \cup {"runtime"}} \cup (IF Fails("runtime") THEN {keys} ELSE {})
    /\ upload' = FALSE
    /\ UNCHANGED <<vars, image, at, force, unpublished>>

(* handleRemoveForce: the record is deleted, nothing else. *)
DropRecord ==
    /\ Forced
    /\ keys # {}
    /\ keys' = {}
    /\ UNCHANGED <<vars, image, at, upload, force, unpublished>>

(* handleForceRemoveLock, which handleRemove calls without locks if it is  *)
(* told to: ExistsVolume; without an image only the record goes.           *)
ForceChecks ==
    /\ Forced
    /\ force = "idle"
    /\ Readable
    /\ IF HasCRUD /\ image = "none"
       THEN keys' = {} /\ UNCHANGED force
       ELSE force' = (IF HasCRUD THEN "destroy" ELSE "record") /\ UNCHANGED keys
    /\ UNCHANGED <<vars, image, at, upload, unpublished>>

(* completeRemove: the image, the record ... *)
ForceDestroys ==
    /\ force = "destroy"
    /\ Destroyed
    /\ force' = "record"
    /\ UNCHANGED <<vars, keys, at, upload, unpublished>>

ForceRemovesRecord ==
    /\ force = "record"
    /\ \/ keys # {} /\ keys' = {} /\ force' = "unlock"
       \/ (keys = {} \/ Fails("delete")) /\ force' = "idle" /\ UNCHANGED keys
    /\ UNCHANGED <<vars, image, at, upload, unpublished>>

(* ... and the mount lock, whoever has it.  Then handleRemove goes on as   *)
(* usual, except for a volume without a CRUD backend.                      *)
ForceUnlocks ==
    /\ force = "unlock"
    /\ use' = [use EXCEPT ![MountKey] = AfterRemove(@, Absent, TRUE)]
    /\ force' = IF HasCRUD THEN "lock" ELSE "idle"
    /\ UNCHANGED <<pc, pos, keys, image, at, upload, unpublished>>

--------------------------------------------------------------------------------
FunctionStep(c) ==
    \/ CreateImage(c) \/ FormatImage(c) \/ CleanupImage(c)
    \/ PublishRecord(c) \/ PublishRuntime(c) \/ CloneImage(c)
    \/ CheckImage(c) \/ DestroyImage(c) \/ RemoveRecord(c)
    \/ MountImage(c) \/ UnmountImage(c)

ForceStep ==
    \/ ForceChecks \/ ForceDestroys \/ ForceRemovesRecord \/ ForceUnlocks
    \/ \E c \in Clients : ArriveForced(c)

LifeNext ==
    \/ \E c \in Clients : Arrive(c) \/ LockStep(c) \/ FunctionStep(c) \/ Return(c) \/ Die(c)
    \/ UploadReads \/ UploadWrites \/ DropRecord \/ ForceStep

LifeSpec == LifeInit /\ [][LifeNext]_allVars

--------------------------------------------------------------------------------
(* PROPERTIES *)

(* Whoever gets the mount lock finds a volume that is whole or not there:  *)
(* a record that can be read and an image that can be mounted, or neither. *)
(* The steps of createVolume, handleCopy and handleRemove on the two stores *)
(* are one change for the others, whatever process dies in between.  Only  *)
(* an error of etcd in PublishVolume may leave them apart until the volume *)
(* is removed, and then with no image that is not formatted and no runtime *)
(* options without a volume.                                               *)
ConsistentWhenFree ==
    CreateSucceeds(use[MountKey]) =>
        \/ keys = {} /\ image = "none"
        \/ keys = Full /\ image = (IF HasCRUD THEN "ok" ELSE "none")
        \/ unpublished /\ image # "raw" /\ keys # {"runtime"}

(* A mounted volume keeps its record and its image: it cannot be removed   *)
(* while it is mounted, nor mounted once it is removed.  Only the record   *)
(* may be missing, if an error of etcd in PublishVolume has left the image *)
(* without one and the mount had read the record of an earlier volume.     *)
UsedIsWhole ==
    Using # {} => (Readable \/ unpublished) /\ (HasCRUD => image = "ok")

(* Creations, copies and removals of a volume never run at the same time,  *)
(* even when operators take the mount lock away and requests share it: the *)
(* snapshot lock, which may not exist when it is taken, keeps them apart.  *)
Writers == {c \in Clients : Kind[c] \in {"create", "copy", "remove"} /\ pc[c] = "run"}
WritersExclude == \A c1, c2 \in Writers : c1 = c2

(* A create that was answered with success has left a volume that can be   *)
(* read, as long as it has its locks, unless PublishVolume has met an      *)
(* error of etcd, which createVolume takes for a volume that exists.       *)
CreatedIsReadable ==
    \A c \in Clients : Kind[c] = "create" /\ Runs(c, "ok") => Readable \/ unpublished

(* A create formats, or removes after a failed format, the image it has    *)
(* created and none that has a file system, of whatever volume: the driver *)
(* stops it with ErrVolumeExist.                                           *)
FormatsOwnImage ==
    \A c \in Clients : Runs(c, "format") \/ Runs(c, "cleanup") => image # "ok"

(* A removal that was answered with success has destroyed the image.       *)
RemovedIsDestroyed ==
    \A c \in Clients : Kind[c] = "remove" /\ Runs(c, "ok") => image = "none"
================================================================================
