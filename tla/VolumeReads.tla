------------------------------ MODULE VolumeReads ------------------------------
(***************************************************************************)
(* The requests that read volumes, without a lock, while the volumes are   *)
(* created, changed and removed.  A volume is a directory of etcd with two *)
(* keys, create and runtime, which PublishVolume sets and GetVolume gets   *)
(* one after the other; a list gets the names of the directories first and *)
(* then every volume by itself.                                            *)
(***************************************************************************)
EXTENDS Naturals, FiniteSets

CONSTANTS
    Volumes,
    PolicyNames,
    PolicyOf,    \* PolicyOf[v]: the policy that the volume's name begins with
    Values,      \* the contents of a key
    Missing,     \* no such key, or no volume
    MaxWrites    \* bounds the changes of the volumes

ASSUME ReadsAssumption ==
    /\ PolicyOf \in [Volumes -> PolicyNames]
    /\ Volumes \cap PolicyNames = {}
    /\ Missing \notin Values \cup Volumes \cup PolicyNames
    /\ MaxWrites \in Nat

VARIABLES
    dirs,      \* the volumes whose directory exists
    create,    \* create[v]: volumes/<v>/create
    runtime,   \* runtime[v]: volumes/<v>/runtime
    publisher, \* publisher[v]: the next step of a PublishVolume: "create",
               \* "runtime" or "idle"
    upload,    \* the volume that a handleRuntimeUpload has read, or Missing
    writes,    \* how many changes there have been
    reader,    \* "idle", "names" (ListAllVolumes is done, or one volume is
               \* asked for), "half" (a volume is half read), "answered",
               \* "error" or "404"
    asked,     \* what it is about: a volume, a policy or (Missing) all
    todo,      \* the volumes it has yet to read
    half,      \* the volume that is half read and what was read
    response,  \* what it has read: records with the volume and both contents
    failed,    \* history: a read has failed in it
    touched    \* history: the volumes changed since the request began

volumeKeys == <<dirs, create, runtime>>
reading == <<reader, asked, todo, half, response, failed>>
readVars == <<volumeKeys, publisher, upload, writes, reading, touched>>

Content == Values \cup {Missing}
NoVolume == [volume |-> Missing, create |-> Missing]

(* At first a volume is there, whole, or not. *)
ReadsInit ==
    /\ dirs \in SUBSET Volumes
    /\ create \in [Volumes -> Content]
    /\ runtime \in [Volumes -> Content]
    /\ \A v \in Volumes : /\ create[v] # Missing <=> v \in dirs
                          /\ runtime[v] # Missing <=> v \in dirs
    /\ publisher = [v \in Volumes |-> "idle"]
    /\ upload = Missing
    /\ writes = 0
    /\ reader = "idle"
    /\ asked = Missing
    /\ todo = {}
    /\ half = NoVolume
    /\ response = {}
    /\ failed = FALSE
    /\ touched = {}

ReadsTypeOK ==
    /\ dirs \subseteq Volumes
    /\ create \in [Volumes -> Content]
    /\ runtime \in [Volumes -> Content]
    /\ publisher \in [Volumes -> {"idle", "create", "runtime"}]
    /\ upload \in Volumes \cup {Missing}
    /\ writes \in 0 .. MaxWrites
    /\ reader \in {"idle", "names", "half", "answered", "error", "404"}
    /\ asked \in Volumes \cup PolicyNames \cup {Missing}
    /\ todo \subseteq Volumes
    /\ half \in [volume : Volumes \cup {Missing}, create : Content]
    /\ response \subseteq [volume : Volumes, create : Values, runtime : Values]
    /\ failed \in BOOLEAN
    /\ touched \subseteq Volumes

Readable(v) == create[v] # Missing /\ runtime[v] # Missing

--------------------------------------------------------------------------------
(* The changes.                                                            *)

Change(v) ==
    /\ writes < MaxWrites
    /\ writes' = writes + 1
    /\ touched' = IF UNCHANGED volumeKeys THEN touched ELSE touched \cup {v}
    /\ UNCHANGED reading

Publishes(v, step) == publisher' = [publisher EXCEPT ![v] = step]

(* PublishVolume, one at a time by its locks (VolumeLifecycle): the        *)
(* directory, whose errors nobody looks at, ...                            *)
PublishVolume(v) ==
    /\ publisher[v] = "idle"
    /\ dirs' \in {dirs, dirs \cup {v}}
    /\ Publishes(v, "create")
    /\ UNCHANGED <<create, runtime, upload>>
    /\ Change(v)

(* ... the create key, which may not exist; an error ends the request,     *)
(* whether the key is written or not; ...                                  *)
PublishCreate(v) ==
    /\ publisher[v] = "create"
    /\ \/ /\ create[v] = Missing
          /\ \E x \in Values : create' = [create EXCEPT ![v] = x]
          /\ dirs' = dirs \cup {v}
          /\ Publishes(v, "runtime") \/ Publishes(v, "idle")
       \/ UNCHANGED <<create, dirs>> /\ Publishes(v, "idle")
    /\ UNCHANGED <<runtime, upload>>
    /\ Change(v)

(* PublishVolumeRuntime: the directory and the runtime key; it may fail    *)
(* before either.                                                          *)
PublishVolumeRuntime(v) ==
    \/ /\ \E x \in Values : runtime' = [runtime EXCEPT ![v] = x]
       /\ dirs' = dirs \cup {v}
    \/ dirs' \in {dirs, dirs \cup {v}} /\ UNCHANGED runtime

(* ... and the runtime key.                                                *)
PublishRuntime(v) ==
    /\ publisher[v] = "runtime"
    /\ PublishVolumeRuntime(v)
    /\ Publishes(v, "idle")
    /\ UNCHANGED <<create, upload>>
    /\ Change(v)

(* handleRuntimeUpload reads the volume and writes later, without a lock:  *)
(* also when the volume has been removed meanwhile.                        *)
UploadReads(v) ==
    /\ upload = Missing
    /\ Readable(v)
    /\ upload' = v
    /\ UNCHANGED <<volumeKeys, publisher, writes, reading, touched>>

UploadWrites(v) ==
    /\ upload = v
    /\ PublishVolumeRuntime(v)
    /\ upload' = Missing
    /\ UNCHANGED <<create, publisher>>
    /\ Change(v)

(* RemoveVolume deletes the directory, for handleRemoveForce at any time.  *)
RemoveVolume(v) ==
    /\ v \in dirs
    /\ dirs' = dirs \ {v}
    /\ create' = [create EXCEPT ![v] = Missing]
    /\ runtime' = [runtime EXCEPT ![v] = Missing]
    /\ UNCHANGED <<publisher, upload>>
    /\ Change(v)

--------------------------------------------------------------------------------
(* The requests.                                                           *)

Begin(names, what) ==
    /\ reader \notin {"names", "half"}
    /\ reader' = "names"
    /\ asked' = what
    /\ todo' = names
    /\ response' = {}
    /\ failed' = FALSE
    /\ touched' = {}
    /\ UNCHANGED <<volumeKeys, publisher, upload, writes, half>>

(* The directories there are, the empty ones too. *)
ListAllVolumes == dirs

(* All volumes.  The list of a policy's volumes takes all of them, too:    *)
(* handleList never looks at the policy of its path.                       *)
HandleListAll == Begin(ListAllVolumes, Missing)
HandleList(p) == Begin(ListAllVolumes, p)

(* One volume: from apiserver, from volcli's request and from Docker's Get *)
(* and Path.                                                               *)
HandleGet(v) == Begin({v}, v)
HandleRequest(v) == Begin({v}, v)
Get(v) == Begin({v}, v)

End(how) ==
    /\ reader' = how
    /\ todo' = {}
    /\ half' = NoVolume
    /\ response' = IF how = "answered" THEN response ELSE {}
    /\ UNCHANGED <<volumeKeys, publisher, upload, writes, asked, touched>>

(* A volume that is not there, or not whole, ends the request, whatever    *)
(* other volumes there are.  Docker's Get says it with an empty answer.    *)
NotExists ==
    /\ End(IF asked \in Volumes THEN "404" ELSE "error")
    /\ UNCHANGED failed

(* Another error of etcd, or a key that does not decode or is not valid:   *)
(* of ListAllVolumes, of GetVolume or of GetVolumeRuntime.                 *)
ReadFails ==
    /\ reader \in {"names", "half"}
    /\ End("error")
    /\ failed' = TRUE

(* GetVolume: the create key ...                                           *)
GetVolume(v) ==
    /\ reader = "names"
    /\ v \in todo
    /\ IF create[v] = Missing
       THEN NotExists
       ELSE /\ reader' = "half"
            /\ half' = [volume |-> v, create |-> create[v]]
            /\ todo' = todo \ {v}
            /\ UNCHANGED <<volumeKeys, publisher, upload, writes, asked, response, failed, touched>>

AppendVolume(r) ==
    /\ reader' = "names"
    /\ half' = NoVolume
    /\ response' = response \cup r
    /\ UNCHANGED <<volumeKeys, publisher, upload, writes, asked, todo, failed, touched>>

(* The volume that is half read, with its runtime key. *)
Read == [volume |-> half.volume, create |-> half.create, runtime |-> runtime[half.volume]]

(* Mutant: a volume without a runtime key is left out. *)
SkipsUnfinished ==
    /\ reader = "half"
    /\ AppendVolume(IF runtime[half.volume] = Missing THEN {} ELSE {Read})

(* ... and GetVolumeRuntime.                                               *)
GetVolumeRuntime ==
    /\ reader = "half"
    /\ IF runtime[half.volume] = Missing THEN NotExists ELSE AppendVolume({Read})

Answer ==
    /\ reader = "names"
    /\ todo = {}
    /\ End("answered")
    /\ UNCHANGED failed

--------------------------------------------------------------------------------
ReadsNext ==
    \/ \E v \in Volumes :
        \/ PublishVolume(v) \/ PublishCreate(v) \/ PublishRuntime(v)
        \/ UploadReads(v) \/ UploadWrites(v) \/ RemoveVolume(v)
        \/ HandleGet(v) \/ HandleRequest(v) \/ Get(v) \/ GetVolume(v)
    \/ \E p \in PolicyNames : HandleList(p)
    \/ HandleListAll \/ GetVolumeRuntime \/ ReadFails \/ Answer

ReadsSpec == ReadsInit /\ [][ReadsNext]_readVars

--------------------------------------------------------------------------------
(* PROPERTIES *)

Record(v) == [volume |-> v, create |-> create[v], runtime |-> runtime[v]]

(* An answer is exact about the volumes that have not changed since the    *)
(* request began, although it is put together from many gets and other     *)
(* volumes come and go meanwhile: a list of all volumes has all of them    *)
(* that there are and none that there are not, each with both its parts,   *)
(* and so has the list of a policy as far as the policy's own volumes go;  *)
(* a single volume that stayed is found as it is, and the answer 404 means *)
(* that it is not there or not whole.                                      *)
AnswersAreExact ==
    /\ reader = "answered" /\ asked \notin Volumes =>
        \A v \in Volumes \ touched : asked \in {Missing, PolicyOf[v]} =>
            {r \in response : r.volume = v} = IF v \in dirs THEN {Record(v)} ELSE {}
    /\ reader = "answered" /\ asked \in Volumes \ touched => response = {Record(asked)}
    /\ reader = "404" /\ asked \in Volumes \ touched => ~Readable(asked)

(* A request fails only if a read failed in it or, for a list, some volume *)
(* was changed meanwhile or is half a volume.                              *)
FailsForAReason ==
    reader = "error" =>
        \/ failed
        \/ asked \notin Volumes /\ \E v \in Volumes : v \in touched \/ (v \in dirs /\ ~Readable(v))

(* What volcli says of handleList, "List all volumes for a given policy"   *)
(* (volcli/commands.go:135): it has no volumes of other policies.  The     *)
(* code does not do so.                                                    *)
ListIsOfPolicy ==
    reader = "answered" /\ asked \in PolicyNames => \A r \in response : PolicyOf[r.volume] = asked
================================================================================
