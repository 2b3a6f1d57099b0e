------------------------- MODULE Configuration_proofs -------------------------
(***************************************************************************)
(* The proofs about the configuration in etcd, for any numbers of requests *)
(* and of volumes.  A published policy has its revision, and a volume has  *)
(* the file system that its record names, however uploads overlap, fail or *)
(* die; the version key never promises more than volmigrates have done;    *)
(* an answer that is put together from many reads is exact about what did  *)
(* not change meanwhile; a volume is created as its options ask; and no    *)
(* change that a daemon watches for is lost.                               *)
(***************************************************************************)
EXTENDS SchemaMigration, PolicyStore, VolumeReads, VolumeOptions, ConfigWatch, TLAPS

(* Policies and their archive.                                             *)

(* What is published or about to be is in the archive. *)
Archived(c) == \E s \in Seconds : archive[s] = c

--------------------------------------------------------------------------------
LEMMA PolicyInitial == PolicyInit => PolicyInv
<1> SUFFICES ASSUME PolicyInit PROVE PolicyInv
  OBVIOUS
<1>1. PolicyTypeOK
  <2>1. 0 \in Seconds
    BY PolicyAssumption DEF Seconds
  <2>2. NoPolicy \in Policies
    BY DEF Policies
  <2> QED BY <2>1, <2>2 DEF PolicyInit, PolicyTypeOK
<1>2. \A c \in {policy} \cup {uploading[u] : u \in Uploaders} : c = NoPolicy
  BY DEF PolicyInit
<1> QED BY <1>1, <1>2 DEF PolicyInv

(* Types are kept by every step. *)
LEMMA PolicyTypeStep ==
    ASSUME PolicyTypeOK, [PolicyNext]_policyVars
    PROVE  PolicyTypeOK'
<1> USE PolicyAssumption DEF PolicyTypeOK, Policies, creation
<1>1. ASSUME NEW u \in Uploaders, UploadArchives(u)
      PROVE  PolicyTypeOK'
  <2>1. PICK c \in Contents : CreatePolicyRevision(c) /\ uploading' = [uploading EXCEPT ![u] = c]
    BY <1>1 DEF UploadArchives
  <2> QED BY <1>1, <2>1 DEF UploadArchives, CreatePolicyRevision
<1>2. ASSUME NEW u \in Uploaders, UploadPublishes(u) \/ UploadFails(u)
      PROVE  PolicyTypeOK'
  BY <1>2 DEF UploadPublishes, UploadFails
<1>3. CASE DeletePolicy
  BY <1>3 DEF DeletePolicy
<1>4. CASE Tick
  BY <1>4 DEF Tick, Seconds
<1>5. CASE CreateReads \/ CreateMakes \/ CreateFails \/ VolumeRemoved
  BY <1>5 DEF CreateReads, CreateMakes, CreateFails, VolumeRemoved
<1>6. CASE UNCHANGED policyVars
  BY <1>6 DEF policyVars
<1> QED BY <1>1, <1>2, <1>3, <1>4, <1>5, <1>6 DEF PolicyNext

(* An entry of the archive is lost only when its second is used again. *)
LEMMA ArchiveKept ==
    ASSUME PolicyTypeOK, NEW x \in Contents, NEW d \in Contents,
           CreatePolicyRevision(d), Archived(x), ~reused'
    PROVE  Archived(x)'
<1>1. PICK s \in Seconds : archive[s] = x
  BY DEF Archived
<1>2. s # now
  BY <1>1, PolicyAssumption DEF CreatePolicyRevision
<1>3. archive'[s] = x
  BY <1>1, <1>2 DEF CreatePolicyRevision, PolicyTypeOK
<1> QED BY <1>3 DEF Archived

LEMMA PolicyStep == PolicyInv /\ [PolicyNext]_policyVars => PolicyInv'
<1> SUFFICES ASSUME PolicyInv, [PolicyNext]_policyVars
             PROVE  PolicyInv'
  OBVIOUS
<1>t. PolicyTypeOK /\ PolicyTypeOK'
  BY PolicyTypeStep DEF PolicyInv
<1> SUFFICES ASSUME ~reused',
                    NEW x \in ({policy} \cup {uploading[u] : u \in Uploaders})',
                    x # NoPolicy
             PROVE  Archived(x)'
  BY <1>t DEF PolicyInv, Archived
<1>x. x \in Contents
  BY <1>t DEF PolicyTypeOK, Policies
<1>i. ASSUME ~reused, NEW y \in {policy} \cup {uploading[u] : u \in Uploaders}, y # NoPolicy
      PROVE  Archived(y)
  BY <1>i DEF PolicyInv, Archived
<1>1. ASSUME NEW u \in Uploaders, UploadArchives(u)
      PROVE  Archived(x)'
  <2>1. PICK c \in Contents : CreatePolicyRevision(c) /\ uploading' = [uploading EXCEPT ![u] = c]
    BY <1>1 DEF UploadArchives
  <2>2. ~reused
    BY <2>1 DEF CreatePolicyRevision
  <2>3. CASE x = c
    <3>1. now \in Seconds /\ archive'[now] = c
      BY <1>t, <2>1 DEF CreatePolicyRevision, PolicyTypeOK
    <3> QED BY <2>3, <3>1 DEF Archived
  <2>4. CASE x # c
    <3>1. x \in {policy} \cup {uploading[v] : v \in Uploaders}
      BY <1>1, <1>t, <2>1, <2>4 DEF UploadArchives, PolicyTypeOK
    <3>2. Archived(x)
      BY <1>i, <2>2, <3>1
    <3> QED BY ArchiveKept, <1>t, <1>x, <2>1, <3>2
  <2> QED BY <2>3, <2>4
<1>2. ASSUME UNCHANGED <<archive, reused>>,
             x \in {policy} \cup {uploading[v] : v \in Uploaders}
      PROVE  Archived(x)'
  BY <1>2, <1>i DEF Archived
<1>3. ASSUME NEW u \in Uploaders, UploadPublishes(u) \/ UploadFails(u)
      PROVE  Archived(x)'
  BY <1>2, <1>3, <1>t DEF UploadPublishes, UploadFails, PolicyTypeOK
<1>4. CASE DeletePolicy
  BY <1>2, <1>4 DEF DeletePolicy
<1>5. CASE Tick \/ CreateReads \/ CreateMakes \/ CreateFails \/ VolumeRemoved
  BY <1>2, <1>5 DEF Tick, CreateReads, CreateMakes, CreateFails, VolumeRemoved
<1>6. CASE UNCHANGED policyVars
  BY <1>2, <1>6 DEF policyVars
<1> QED BY <1>1, <1>3, <1>4, <1>5, <1>6 DEF PolicyNext

(* handlePolicyUpload: a published policy has a revision, whatever uploads *)
(* overlap, fail or die, unless two were archived in one second.           *)
THEOREM PublishedHasRevisionHolds == PolicySpec => []PublishedHasRevision
<1>1. PolicyInv => PublishedHasRevision
  BY DEF PolicyInv, PublishedHasRevision, ListPolicyRevisions, GetPolicyRevision
<1> QED BY <1>1, PolicyInitial, PolicyStep, PTL DEF PolicySpec

--------------------------------------------------------------------------------
(* The inductive invariant of MadeAsRecorded: the policy read first is the *)
(* present one unless it has changed, and only a creation that has read    *)
(* both has a record.                                                      *)
CreationInv ==
    /\ creating = "locked" => record = NoPolicy /\ (policy = first \/ changed)
    /\ creating = "idle" => record = NoPolicy
    /\ creating \in {"idle", "locked", "publish"}
    /\ MadeAsRecorded

LEMMA CreationStep == CreationInv /\ [PolicyNext]_policyVars => CreationInv'
<1> SUFFICES ASSUME CreationInv, [PolicyNext]_policyVars
             PROVE  CreationInv'
  OBVIOUS
<1> USE DEF CreationInv, MadeAsRecorded, creation
<1>1. ASSUME NEW u \in Uploaders, UploadArchives(u) \/ UploadPublishes(u) \/ UploadFails(u)
      PROVE  CreationInv'
  BY <1>1 DEF UploadArchives, UploadPublishes, UploadFails
<1>2. CASE DeletePolicy \/ Tick
  BY <1>2 DEF DeletePolicy, Tick
<1>3. CASE CreateReads \/ CreateMakes
  BY <1>3 DEF CreateReads, CreateMakes
<1>4. CASE CreateFails \/ VolumeRemoved
  BY <1>4 DEF CreateFails, VolumeRemoved
<1>5. CASE UNCHANGED policyVars
  BY <1>5 DEF policyVars
<1> QED BY <1>1, <1>2, <1>3, <1>4, <1>5 DEF PolicyNext

(* handleCreate reads the policy twice, and uploads and deletions may come *)
(* in between: the file system made is still the one of the record.        *)
THEOREM MadeAsRecordedHolds == PolicySpec => []MadeAsRecorded
<1>1. PolicyInit => CreationInv
  BY DEF PolicyInit, CreationInv, MadeAsRecorded
<1>2. CreationInv => MadeAsRecorded
  BY DEF CreationInv
<1> QED BY <1>1, <1>2, CreationStep, PTL DEF PolicySpec

--------------------------------------------------------------------------------
(* volmigrate.                                                             *)

(* The invariant holds before the first volmigrate: nothing is promised.   *)
LEMMA MigInvInit == MigInit => MigInv
  BY MigrationAssumption DEF MigInit, MigInv, MigTypeOK, VersionIsApplied, Versions

(* Every step of a volmigrate, its death included, keeps the invariant.    *)
LEMMA MigInvStep == MigInv /\ [MigNext]_migVars => MigInv'
<1> SUFFICES ASSUME MigInv, [MigNext]_migVars
             PROVE  MigInv'
  OBVIOUS
<1> USE MigrationAssumption DEF MigInv, MigTypeOK, VersionIsApplied, Versions
<1>1. ASSUME NEW r \in Runs, RunMigrations(r)
      PROVE  MigInv'
  <2>1. PICK t \in Versions :
          /\ target' = [target EXCEPT ![r] = t]
          /\ next' = [next EXCEPT ![r] = version + 1]
          /\ mig' = [mig EXCEPT ![r] = IF version + 1 <= t THEN "run" ELSE "off"]
    BY <1>1 DEF RunMigrations
  <2>2. UNCHANGED <<version, applied>> /\ mig[r] = "off"
    BY <1>1 DEF RunMigrations
  <2>3. 1 .. ((version + 1) - 1) \subseteq applied
    OBVIOUS
  <2> QED
    BY <2>1, <2>2, <2>3
<1>2. ASSUME NEW r \in Runs, Runner(r)
      PROVE  MigInv'
  <2>1. next[r] \in Versions
    BY <1>2 DEF Runner
  <2>2. applied \subseteq applied' /\ next[r] \in applied' /\ applied' \in SUBSET Versions
    BY <1>2, <2>1 DEF Runner
  <2>3. /\ UNCHANGED <<version, next, target>>
        /\ mig' = [mig EXCEPT ![r] = "read"]
        /\ mig[r] = "run"
    BY <1>2 DEF Runner
  <2>4. MigTypeOK' /\ VersionIsApplied'
    BY <2>2, <2>3
  <2>5. ASSUME NEW q \in Runs, mig'[q] # "off"
        PROVE  next'[q] <= target'[q] /\ 1 .. (next'[q] - 1) \subseteq applied'
    BY <2>2, <2>3, <2>5
  <2>6. ASSUME NEW q \in Runs, mig'[q] \in {"read", "write"}
        PROVE  next'[q] \in applied'
    BY <2>2, <2>3, <2>6
  <2> QED
    BY <2>4, <2>5, <2>6
<1>3. ASSUME NEW r \in Runs, CompareVersion(r)
      PROVE  MigInv'
  BY <1>3 DEF CompareVersion
<1>4. ASSUME NEW r \in Runs, UpdateSchemaVersion(r)
      PROVE  MigInv'
  <2>1. 1 .. next[r] \subseteq applied
    BY <1>4 DEF UpdateSchemaVersion
  <2>2. next[r] \in Versions
    BY <1>4 DEF UpdateSchemaVersion
  <2> QED
    BY <1>4, <2>1, <2>2 DEF UpdateSchemaVersion
<1>5. ASSUME NEW r \in Runs, Aborts(r)
      PROVE  MigInv'
  BY <1>5 DEF Aborts
<1>6. CASE UNCHANGED migVars
  BY <1>6 DEF migVars
<1> QED
  BY <1>1, <1>2, <1>3, <1>4, <1>5, <1>6 DEF MigNext

(* The version key never promises a migration that has not been run to its *)
(* end, with any number of volmigrates that overlap, fail and die.         *)
THEOREM VersionIsAppliedHolds == MigSpec => []VersionIsApplied
<1>1. MigInv => VersionIsApplied
  BY DEF MigInv
<1> QED
  BY <1>1, MigInvInit, MigInvStep, PTL DEF MigSpec

--------------------------------------------------------------------------------
(* The reads of volumes.                                                   *)

(* What the request has read of a volume so far is what is there. *)
ReadSoFar(v) ==
    /\ \A r \in response : r.volume = v => r = Record(v)
    /\ reader = "half" /\ half.volume = v => half.create = create[v]

(* What a request is about. *)
Scope(v) == IF asked \in Volumes THEN v = asked ELSE v \in ListAllVolumes

(* The request has read a volume, or is going to. *)
NoneForgotten(v) ==
    Scope(v) => v \in todo \/ (reader = "half" /\ half.volume = v) \/ Record(v) \in response

(* A key is in its directory. *)
KeysInDirs == \A v \in Volumes : create[v] # Missing \/ runtime[v] # Missing => v \in dirs

(* A volume that has not changed since the request began. *)
Untouched(v) ==
    /\ ReadSoFar(v)
    /\ reader \in {"names", "half", "answered"} => NoneForgotten(v)
    /\ v \in todo => Scope(v)
    /\ reader = "404" /\ asked = v => ~Readable(v)

(* The request for one volume reads no other. *)
OneVolume ==
    asked \in Volumes => /\ todo \subseteq {asked}
                         /\ \A r \in response : r.volume = asked
                         /\ reader = "half" => half.volume = asked

(* The inductive invariant of AnswersAreExact, which also covers the       *)
(* requests that are not answered yet.                                     *)
ReadsInv ==
    /\ ReadsTypeOK
    /\ KeysInDirs
    /\ reader = "half" => half.volume \in Volumes /\ half.create \in Values
    /\ reader = "answered" => todo = {}
    /\ OneVolume
    /\ \A v \in Volumes \ touched : Untouched(v)
    /\ FailsForAReason

LEMMA ReadsInitial == ReadsInit => ReadsInv
<1> SUFFICES ASSUME ReadsInit PROVE ReadsInv
  OBVIOUS
<1>1. ReadsTypeOK
  <2>1. 0 \in 0 .. MaxWrites
    BY ReadsAssumption
  <2>2. NoVolume \in [volume : Volumes \cup {Missing}, create : Content]
    BY DEF NoVolume, Content
  <2> QED BY <2>1, <2>2 DEF ReadsInit, ReadsTypeOK
<1>2. reader = "idle" /\ response = {} /\ todo = {}
  BY DEF ReadsInit
<1>3. KeysInDirs
  BY DEF ReadsInit, KeysInDirs
<1> QED BY <1>1, <1>2, <1>3 DEF ReadsInv, ReadSoFar, Untouched, OneVolume, FailsForAReason

(* A change of a volume: nothing is claimed of it any more.                *)
LEMMA ChangeStep ==
    ASSUME ReadsInv, NEW v \in Volumes, Change(v),
           create' \in [Volumes -> Content], runtime' \in [Volumes -> Content],
           \A w \in Volumes \ {v} : create'[w] = create[w] /\ runtime'[w] = runtime[w],
           dirs' \in {dirs \cup {v}, dirs, dirs \ {v}}, KeysInDirs',
           publisher' \in [Volumes -> {"idle", "create", "runtime"}],
           upload' \in Volumes \cup {Missing}
    PROVE  ReadsInv'
<1>1. UNCHANGED <<reader, asked, todo, half, response, failed>>
  BY DEF Change, reading
<1>2. /\ touched' \subseteq Volumes /\ touched \subseteq touched'
      /\ v \in touched' \/ UNCHANGED <<dirs, create, runtime>>
  BY DEF Change, volumeKeys, ReadsInv, ReadsTypeOK
<1>3. writes' \in 0 .. MaxWrites
  BY ReadsAssumption DEF Change, ReadsInv, ReadsTypeOK
<1>4. ReadsTypeOK'
  BY <1>1, <1>2, <1>3 DEF ReadsInv, ReadsTypeOK
<1>5. ASSUME NEW w \in Volumes \ touched'
      PROVE  Untouched(w)'
  <2>1. w \in Volumes \ touched /\ create'[w] = create[w] /\ runtime'[w] = runtime[w] /\ (w \in dirs' <=> w \in dirs)
    BY <1>2
  <2>2. Untouched(w)
    BY <2>1 DEF ReadsInv
  <2>3. Record(w)' = Record(w) /\ Scope(w)' = Scope(w) /\ Readable(w)' = Readable(w)
    BY <1>1, <2>1 DEF Record, Scope, Readable, ListAllVolumes
  <2> QED BY <1>1, <2>1, <2>2, <2>3 DEF Untouched, ReadSoFar, NoneForgotten
<1>6. FailsForAReason'
  BY <1>1, <1>2 DEF ReadsInv, FailsForAReason, Readable
<1>7. OneVolume'
  BY <1>1 DEF ReadsInv, OneVolume
<1> QED BY <1>1, <1>4, <1>5, <1>6, <1>7 DEF ReadsInv

(* The requests that change volumes. *)
LEMMA ChangesStep ==
    ASSUME ReadsInv, NEW v \in Volumes,
           \/ PublishVolume(v) \/ PublishCreate(v) \/ PublishRuntime(v)
           \/ UploadWrites(v) \/ RemoveVolume(v)
    PROVE  ReadsInv'
<1> USE DEF Content
<1>1. CASE PublishVolume(v)
  BY <1>1, ChangeStep DEF PublishVolume, Publishes, ReadsInv, ReadsTypeOK, KeysInDirs
<1>2. CASE PublishCreate(v)
  BY <1>2, ChangeStep DEF PublishCreate, Publishes, ReadsInv, ReadsTypeOK, KeysInDirs
<1>3. CASE PublishRuntime(v)
  BY <1>3, ChangeStep DEF PublishRuntime, PublishVolumeRuntime, Publishes, ReadsInv, ReadsTypeOK, KeysInDirs
<1>4. CASE UploadWrites(v)
  BY <1>4, ChangeStep DEF UploadWrites, PublishVolumeRuntime, ReadsInv, ReadsTypeOK, KeysInDirs
<1>5. CASE RemoveVolume(v)
  BY <1>5, ChangeStep DEF RemoveVolume, ReadsInv, ReadsTypeOK, KeysInDirs
<1> QED BY <1>1, <1>2, <1>3, <1>4, <1>5

(* A request begins, *)
LEMMA BeginStep ==
    ASSUME ReadsInv, NEW what \in Volumes \cup PolicyNames \cup {Missing}, NEW names \in SUBSET Volumes,
           names = (IF what \in Volumes THEN {what} ELSE ListAllVolumes), Begin(names, what)
    PROVE  ReadsInv'
<1>1. /\ reader' = "names" /\ asked' = what /\ todo' = names /\ response' = {} /\ failed' = FALSE /\ touched' = {}
      /\ UNCHANGED <<dirs, create, runtime, publisher, upload, writes, half>>
  BY DEF Begin, volumeKeys
<1>2. ReadsTypeOK'
  BY <1>1 DEF ReadsInv, ReadsTypeOK
<1>3. \A v \in Volumes : Scope(v)' <=> v \in names
  BY <1>1 DEF Scope, ListAllVolumes
<1>4. OneVolume'
  BY <1>1 DEF OneVolume
<1>5. KeysInDirs'
  BY <1>1 DEF ReadsInv, KeysInDirs
<1> QED BY <1>1, <1>2, <1>3, <1>4, <1>5
        DEF ReadsInv, Untouched, ReadSoFar, NoneForgotten, FailsForAReason

(* ends, *)
LEMMA EndStep ==
    ASSUME ReadsInv, NEW how \in {"answered", "error", "404"}, End(how), failed' \in BOOLEAN,
           how = "answered" => reader = "names" /\ todo = {},
           how = "404" => asked \in touched \/ ~Readable(asked),
           how = "error" =>
              \/ failed'
              \/ asked \notin Volumes /\ \E v \in Volumes : v \in touched \/ (v \in dirs /\ ~Readable(v))
    PROVE  ReadsInv'
<1>1. /\ reader' = how /\ todo' = {} /\ half' = NoVolume
      /\ UNCHANGED <<dirs, create, runtime, publisher, upload, writes, asked, touched>>
      /\ response' = IF how = "answered" THEN response ELSE {}
  BY DEF End, volumeKeys
<1>2. ReadsTypeOK'
  BY <1>1 DEF ReadsInv, ReadsTypeOK, NoVolume, Content
<1>3. ASSUME NEW v \in Volumes \ touched
      PROVE  Untouched(v)'
  <2>1. Record(v)' = Record(v) /\ Scope(v)' = Scope(v) /\ Readable(v)' = Readable(v)
    BY <1>1 DEF Record, Scope, Readable, ListAllVolumes
  <2>2. Untouched(v)
    BY DEF ReadsInv
  <2>3. ReadSoFar(v)' /\ (how = "answered" => NoneForgotten(v)')
    BY <1>1, <2>1, <2>2 DEF Untouched, ReadSoFar, NoneForgotten
  <2> QED BY <1>1, <2>1, <2>3 DEF Untouched
<1>4. FailsForAReason'
  BY <1>1 DEF FailsForAReason, Readable
<1>5. OneVolume' /\ KeysInDirs'
  BY <1>1 DEF ReadsInv, OneVolume, KeysInDirs
<1> QED BY <1>1, <1>2, <1>3, <1>4, <1>5 DEF ReadsInv

(* because of a volume that is not there or not whole, *)
LEMMA NotExistsStep ==
    ASSUME ReadsInv, NotExists, NEW v \in Volumes,
           asked \in Volumes => v = asked,
           v \in touched \/ ~Readable(v),
           asked \notin Volumes => v \in touched \/ v \in dirs
    PROVE  ReadsInv'
<1>1. failed' = failed /\ failed \in BOOLEAN
  BY DEF NotExists, ReadsInv, ReadsTypeOK
<1>2. CASE asked \in Volumes
  BY <1>1, <1>2, EndStep DEF NotExists
<1>3. CASE asked \notin Volumes
  BY <1>1, <1>3, EndStep DEF NotExists
<1> QED BY <1>2, <1>3

(* or reads a key.                                                         *)
LEMMA GetVolumeStep ==
    ASSUME ReadsInv, NEW v \in Volumes, GetVolume(v)
    PROVE  ReadsInv'
<1>1. reader = "names" /\ v \in todo
  BY DEF GetVolume
<1>2. CASE create[v] = Missing
  <2>1. NotExists /\ ~Readable(v)
    BY <1>2 DEF GetVolume, Readable
  <2>2. asked \in Volumes => v = asked
    BY <1>1 DEF ReadsInv, OneVolume
  <2>3. asked \notin Volumes => v \in touched \/ v \in dirs
    BY <1>1 DEF ReadsInv, Untouched, Scope, ListAllVolumes
  <2> QED BY <2>1, <2>2, <2>3, NotExistsStep
<1>3. CASE create[v] # Missing
  <2>1. /\ reader' = "half" /\ half' = [volume |-> v, create |-> create[v]] /\ todo' = todo \ {v}
        /\ UNCHANGED <<dirs, create, runtime, publisher, upload, writes, asked, response, failed, touched>>
    BY <1>3 DEF GetVolume, volumeKeys
  <2>2. create[v] \in Values
    BY <1>3 DEF ReadsInv, ReadsTypeOK, Content
  <2>3. ReadsTypeOK'
    BY <2>1, <2>2 DEF ReadsInv, ReadsTypeOK, Content
  <2>4. half'.volume = v /\ half'.create = create[v]
    BY <2>1
  <2>5. ASSUME NEW w \in Volumes \ touched
        PROVE  Untouched(w)'
    <3>1. Record(w)' = Record(w) /\ Scope(w)' = Scope(w)
      BY <2>1 DEF Record, Scope, ListAllVolumes
    <3> QED BY <1>1, <2>1, <2>4, <3>1 DEF ReadsInv, Untouched, ReadSoFar, NoneForgotten
  <2>6. OneVolume' /\ KeysInDirs'
    BY <1>1, <2>1, <2>4 DEF ReadsInv, OneVolume, KeysInDirs
  <2> QED BY <2>1, <2>2, <2>3, <2>4, <2>5, <2>6 DEF ReadsInv, FailsForAReason
<1> QED BY <1>2, <1>3

LEMMA GetVolumeRuntimeStep ==
    ASSUME ReadsInv, GetVolumeRuntime
    PROVE  ReadsInv'
<1>1. reader = "half" /\ half.volume \in Volumes /\ half.create \in Values
  BY DEF GetVolumeRuntime, ReadsInv
<1>2. CASE runtime[half.volume] = Missing
  <2>1. NotExists /\ ~Readable(half.volume)
    BY <1>2 DEF GetVolumeRuntime, Readable
  <2>2. asked \in Volumes => half.volume = asked
    BY <1>1 DEF ReadsInv, OneVolume
  <2>3. half.volume \in touched \/ half.volume \in dirs
    <3>1. half.volume \notin touched => half.create = create[half.volume]
      BY <1>1 DEF ReadsInv, Untouched, ReadSoFar
    <3> QED BY <1>1, <3>1, ReadsAssumption DEF ReadsInv, KeysInDirs
  <2> QED BY <1>1, <2>1, <2>2, <2>3, NotExistsStep
<1>3. CASE runtime[half.volume] # Missing
  <2>1. /\ reader' = "names" /\ half' = NoVolume /\ response' = response \cup {Read}
        /\ UNCHANGED <<dirs, create, runtime, publisher, upload, writes, asked, todo, failed, touched>>
    BY <1>3 DEF GetVolumeRuntime, AppendVolume, volumeKeys
  <2>2. Read \in [volume : Volumes, create : Values, runtime : Values]
    BY <1>1, <1>3 DEF Read, ReadsInv, ReadsTypeOK, Content
  <2>3. ReadsTypeOK'
    BY <2>1, <2>2 DEF ReadsInv, ReadsTypeOK, Content, NoVolume
  <2>4. Read.volume = half.volume
    BY DEF Read
  <2>5. ASSUME NEW w \in Volumes \ touched
        PROVE  Untouched(w)'
    <3>1. Record(w)' = Record(w) /\ Scope(w)' = Scope(w)
      BY <2>1 DEF Record, Scope, ListAllVolumes
    <3>2. w = half.volume => Read = Record(w)
      BY <1>1 DEF ReadsInv, Untouched, ReadSoFar, Read, Record
    <3> QED BY <1>1, <2>1, <2>4, <3>1, <3>2 DEF ReadsInv, Untouched, ReadSoFar, NoneForgotten
  <2>6. OneVolume' /\ KeysInDirs'
    BY <1>1, <2>1, <2>4 DEF ReadsInv, OneVolume, KeysInDirs
  <2> QED BY <2>1, <2>3, <2>5, <2>6 DEF ReadsInv, FailsForAReason
<1> QED BY <1>2, <1>3

LEMMA ReadsStep == ReadsInv /\ [ReadsNext]_readVars => ReadsInv'
<1> SUFFICES ASSUME ReadsInv, [ReadsNext]_readVars PROVE ReadsInv'
  OBVIOUS
<1>1. ASSUME NEW v \in Volumes, HandleGet(v) \/ HandleRequest(v) \/ Get(v)
      PROVE  ReadsInv'
  BY <1>1, BeginStep DEF HandleGet, HandleRequest, Get
<1>2. ASSUME HandleListAll \/ \E p \in PolicyNames : HandleList(p)
      PROVE  ReadsInv'
  <2>1. ListAllVolumes \in SUBSET Volumes
    BY DEF ListAllVolumes, ReadsInv, ReadsTypeOK
  <2>2. PICK what \in PolicyNames \cup {Missing} : Begin(ListAllVolumes, what)
    BY <1>2 DEF HandleListAll, HandleList
  <2>3. what \notin Volumes
    BY ReadsAssumption
  <2> QED BY <2>1, <2>2, <2>3, BeginStep
<1>3. CASE Answer
  <2>1. reader = "names" /\ todo = {} /\ End("answered") /\ failed' = failed /\ failed \in BOOLEAN
    BY <1>3 DEF Answer, ReadsInv, ReadsTypeOK
  <2> QED BY <2>1, EndStep
<1>4. CASE ReadFails
  BY <1>4, EndStep DEF ReadFails
<1>5. ASSUME UNCHANGED <<dirs, create, runtime, reader, asked, todo, half, response, failed, touched>>,
             writes' = writes, publisher' = publisher, upload' \in Volumes \cup {Missing}
      PROVE  ReadsInv'
  BY <1>5 DEF ReadsInv, ReadsTypeOK, KeysInDirs, OneVolume, Untouched, ReadSoFar, NoneForgotten,
              Record, Scope, ListAllVolumes, FailsForAReason, Readable
<1>6. ASSUME NEW v \in Volumes, UploadReads(v)
      PROVE  ReadsInv'
  BY <1>5, <1>6 DEF UploadReads, volumeKeys, reading
<1>7. CASE UNCHANGED readVars
  BY <1>5, <1>7 DEF readVars, volumeKeys, reading, ReadsInv, ReadsTypeOK
<1> QED BY <1>1, <1>2, <1>3, <1>4, <1>6, <1>7, ChangesStep, GetVolumeStep, GetVolumeRuntimeStep DEF ReadsNext

(* handleListAll, handleList, handleGet, volcli's request and Docker's Get: *)
(* an answer has every volume that did not change since the request began, *)
(* with both its parts, and nothing of one that was not there, whatever    *)
(* other volumes came and went between its reads; and 404 means that the   *)
(* volume is not there or not whole.                                       *)
THEOREM AnswersAreExactHolds == ReadsSpec => []AnswersAreExact
<1>1. ReadsInv => AnswersAreExact
  <2> SUFFICES ASSUME ReadsInv PROVE AnswersAreExact
    OBVIOUS
  <2>1. ASSUME NEW v \in Volumes \ touched, reader = "answered"
        PROVE  /\ \A r \in response : r.volume = v => r = Record(v)
               /\ Scope(v) => Record(v) \in response
    BY <2>1 DEF ReadsInv, Untouched, ReadSoFar, NoneForgotten
  <2>2. \A v \in Volumes : Record(v).volume = v /\ Record(v).create = create[v]
    BY DEF Record
  <2>3. \A r \in response : r.create # Missing
    BY ReadsAssumption DEF ReadsInv, ReadsTypeOK
  <2>4. ASSUME NEW v \in Volumes \ touched, reader = "answered", asked \notin Volumes
        PROVE  {r \in response : r.volume = v} = IF v \in dirs THEN {Record(v)} ELSE {}
    <3>1. v \notin dirs => create[v] = Missing
      BY DEF ReadsInv, KeysInDirs
    <3>2. v \in dirs => Record(v) \in response
      BY <2>1, <2>4 DEF Scope, ListAllVolumes
    <3> QED BY <2>1, <2>2, <2>3, <2>4, <3>1, <3>2
  <2>5. ASSUME reader = "answered", asked \in Volumes \ touched
        PROVE  response = {Record(asked)}
    <3>1. Record(asked) \in response /\ \A r \in response : r.volume = asked
      BY <2>1, <2>5 DEF Scope, ReadsInv, OneVolume
    <3> QED BY <2>1, <2>5, <3>1
  <2>6. reader = "404" /\ asked \in Volumes \ touched => ~Readable(asked)
    BY DEF ReadsInv, Untouched
  <2> QED BY <2>4, <2>5, <2>6 DEF AnswersAreExact
<1> QED BY <1>1, ReadsInitial, ReadsStep, PTL DEF ReadsSpec

(* A request fails only because etcd or a content is bad or, for a list,   *)
(* because some volume was changed meanwhile or is half a volume: no other *)
(* volume can make handleList fail, and a single volume that is not there  *)
(* is never an error of the server.                                        *)
THEOREM FailsForAReasonHolds == ReadsSpec => []FailsForAReason
<1>1. ReadsInv => FailsForAReason
  BY DEF ReadsInv
<1> QED BY <1>1, ReadsInitial, ReadsStep, PTL DEF ReadsSpec

--------------------------------------------------------------------------------
(* The options of a volume.                                                *)

(* The loop of setKey ends at the i-th field. *)
Hit(fields, k, inside, i) ==
    IF fields[i].kind = "struct" THEN inside[i].ok ELSE fields[i].tag = k

(* What setKey returns when f has the key: it sets f, or fails. *)
Gives(r, f, text) == IF Cast(f.kind, text).ok THEN r = SetValue(f, text) ELSE ~r.ok

(* What the loop returns: an error if it ends nowhere, ... *)
LEMMA WalkMisses ==
    ASSUME NEW fields, NEW k, NEW text, NEW inside,
           \A j \in DOMAIN fields : ~Hit(fields, k, inside, j)
    PROVE  Walk(fields, k, text, inside) = NotFound
BY DEF Walk, Hit

(* ... and if there is one place where it can end, what it finds there. *)
LEMMA WalkHits ==
    ASSUME NEW fields, NEW k, NEW text, NEW inside, NEW i \in DOMAIN fields, i \in Nat,
           Hit(fields, k, inside, i),
           \A j \in DOMAIN fields \ {i} : ~Hit(fields, k, inside, j)
    PROVE  Walk(fields, k, text, inside) =
               IF fields[i].kind = "struct" THEN inside[i] ELSE SetValue(fields[i], text)
<1>1. {j \in DOMAIN fields : Hit(fields, k, inside, j)} = {i}
  OBVIOUS
<1>2. First({i}) = i
  BY DEF First
<1> QED BY <1>1, <1>2 DEF Walk, Hit

(* A key that is in one struct only is set there or nowhere, ... *)
LEMMA WalkInto ==
    ASSUME NEW fields, NEW k, NEW text, NEW inside, NEW i \in DOMAIN fields, i \in Nat, NEW f,
           fields[i].kind = "struct", Gives(inside[i], f, text),
           \A j \in DOMAIN fields \ {i} : ~Hit(fields, k, inside, j)
    PROVE  Gives(Walk(fields, k, text, inside), f, text)
<1>1. CASE Hit(fields, k, inside, i)
  BY <1>1, WalkHits
<1>2. CASE ~Hit(fields, k, inside, i)
  <2>1. Walk(fields, k, text, inside) = NotFound
    BY <1>2, WalkMisses
  <2>2. ~Cast(f.kind, text).ok
    BY <1>2 DEF Hit, Gives, SetValue
  <2> QED BY <2>1, <2>2 DEF Gives, NotFound
<1> QED BY <1>1, <1>2

(* ... and one that a plain field has is set in that field or nowhere. *)
LEMMA WalkOnto ==
    ASSUME NEW fields, NEW k, NEW text, NEW inside, NEW i \in DOMAIN fields, i \in Nat,
           fields[i].kind # "struct", fields[i].tag = k,
           \A j \in DOMAIN fields \ {i} : ~Hit(fields, k, inside, j)
    PROVE  Gives(Walk(fields, k, text, inside), fields[i], text)
<1>1. Walk(fields, k, text, inside) = SetValue(fields[i], text)
  BY WalkHits DEF Hit
<1> QED BY <1>1 DEF Gives, SetValue

(* The parts of a field. *)
LEMMA FieldHas == \A n, d, t : Field(n, d, t).name = n /\ Field(n, d, t).kind = d /\ Field(n, d, t).tag = t
BY DEF Field

(* The same of a struct. *)
LEMMA StructHas == \A n, fs : Struct(n, fs).kind = "struct" /\ Struct(n, fs).fields = fs
BY DEF Struct

(* A struct of two plain fields. *)
LEMMA InPlain ==
    ASSUME NEW f, NEW g, f.kind # "struct", g.kind # "struct", f.tag # g.tag,
           NEW k, NEW text, NEW inside, NEW r, r = Walk(<<f, g>>, k, text, inside)
    PROVE  /\ k = f.tag => Gives(r, f, text)
           /\ k = g.tag => Gives(r, g, text)
           /\ k \notin {f.tag, g.tag} => r = NotFound
<1> DEFINE two == <<f, g>>
<1>1. DOMAIN two = {1, 2} /\ two[1] = f /\ two[2] = g
  OBVIOUS
<1>2. r = Walk(two, k, text, inside)
  OBVIOUS
<1> HIDE DEF two
<1>3. CASE k = f.tag
  BY <1>1, <1>2, <1>3, WalkOnto, 1 \in Nat DEF Hit
<1>4. CASE k = g.tag
  BY <1>1, <1>2, <1>4, WalkOnto, 2 \in Nat DEF Hit
<1>5. CASE k # f.tag /\ k # g.tag
  BY <1>1, <1>2, <1>5, WalkMisses DEF Hit
<1> QED BY <1>3, <1>4, <1>5

(* The field that an option is documented to set. *)
Plain(d) == Field(d[2], d[3], d[1])

(* What setKey returns for a type that has the documented options docs. *)
Finds(r, docs, k, text) ==
    /\ \A d \in docs : k = d[1] => Gives(r, Plain(d), text)
    /\ (\A d \in docs : k # d[1]) => r = NotFound

(* The documented options by struct. *)
CreateDocs   == {<<"size", "Size", "string">>, <<"filesystem", "FileSystem", "string">>}
SnapshotDocs == {<<"snapshots.frequency", "Frequency", "string">>, <<"snapshots.keep", "Keep", "uint">>}
RateDocs     == {<<"rate-limit.write.bps", "WriteBPS", "uint">>, <<"rate-limit.read.bps", "ReadBPS", "uint">>}
FlagDoc      == <<"snapshots", "UseSnapshots", "bool">>
RuntimeDocs  == {FlagDoc} \cup SnapshotDocs \cup RateDocs

(* setKey of the structs that have no structs, ... *)
LEMMA InLeaves ==
    ASSUME NEW k, NEW text
    PROVE  /\ Finds(SetInner(CreateOptions, k, text), CreateDocs, k, text)
           /\ Finds(SetInnermost(SnapshotConfig, k, text), SnapshotDocs, k, text)
           /\ Finds(SetInnermost(RateLimitConfig, k, text), RateDocs, k, text)
<1>1. Finds(SetInner(CreateOptions, k, text), CreateDocs, k, text)
  BY FieldHas, InPlain DEF SetInner, CreateOptions, Finds, CreateDocs, Plain
<1>2. Finds(SetInnermost(SnapshotConfig, k, text), SnapshotDocs, k, text)
  BY FieldHas, InPlain DEF SetInnermost, SnapshotConfig, Finds, SnapshotDocs, Plain
<1>3. Finds(SetInnermost(RateLimitConfig, k, text), RateDocs, k, text)
  BY FieldHas, InPlain DEF SetInnermost, RateLimitConfig, Finds, RateDocs, Plain
<1> QED BY <1>1, <1>2, <1>3

(* ... of RuntimeOptions, which has two, ... *)
LEMMA InRuntime ==
    ASSUME NEW k, NEW text
    PROVE  Finds(SetInner(RuntimeOptions, k, text), RuntimeDocs, k, text)
<1> DEFINE rt == RuntimeOptions
           in == [i \in DOMAIN rt |-> SetInnermost(rt[i].fields, k, text)]
           r  == SetInner(RuntimeOptions, k, text)
<1>1. DOMAIN rt = {1, 2, 3}
  BY DEF RuntimeOptions
<1>2. /\ rt[1] = Field("UseSnapshots", "bool", "snapshots")
      /\ rt[2] = Struct("Snapshot", SnapshotConfig)
      /\ rt[3] = Struct("RateLimit", RateLimitConfig)
  BY DEF RuntimeOptions
<1>3. r = Walk(rt, k, text, in)
  BY DEF SetInner
<1>4. /\ rt[1].kind # "struct" /\ rt[1].tag = "snapshots"
      /\ rt[2].kind = "struct" /\ rt[2].fields = SnapshotConfig
      /\ rt[3].kind = "struct" /\ rt[3].fields = RateLimitConfig
  BY <1>2, FieldHas, StructHas
<1>5. Finds(in[2], SnapshotDocs, k, text) /\ Finds(in[3], RateDocs, k, text)
  BY <1>1, <1>4, InLeaves
<1> HIDE DEF rt, in, r
<1>6. \A i \in {1, 2, 3} : i \in DOMAIN rt /\ i \in Nat
  BY <1>1
<1>7. /\ Hit(rt, k, in, 1) <=> k = "snapshots"
      /\ Hit(rt, k, in, 2) <=> in[2].ok
      /\ Hit(rt, k, in, 3) <=> in[3].ok
  BY <1>4 DEF Hit
<1>8. ~NotFound.ok
  BY DEF NotFound
<1>9. ASSUME \A d \in SnapshotDocs : k # d[1]
      PROVE  ~Hit(rt, k, in, 2)
  BY <1>5, <1>7, <1>8, <1>9 DEF Finds
<1>10. ASSUME \A d \in RateDocs : k # d[1]
       PROVE  ~Hit(rt, k, in, 3)
  BY <1>5, <1>7, <1>8, <1>10 DEF Finds
<1>11. FlagDoc[1] = "snapshots" /\ Plain(FlagDoc) = rt[1]
  BY <1>2 DEF FlagDoc, Plain
<1>12. ASSUME k = "snapshots"
       PROVE  Gives(r, Plain(FlagDoc), text)
  <2>1. ~Hit(rt, k, in, 2) /\ ~Hit(rt, k, in, 3)
    BY <1>9, <1>10, <1>12 DEF SnapshotDocs, RateDocs
  <2>2. Gives(r, rt[1], text)
    BY <1>1, <1>3, <1>4, <1>6, <1>12, <2>1, WalkOnto
  <2> QED BY <1>11, <2>2
<1>13. ASSUME NEW d \in SnapshotDocs, k = d[1]
       PROVE  Gives(r, Plain(d), text)
  <2>1. ~Hit(rt, k, in, 1) /\ ~Hit(rt, k, in, 3)
    BY <1>7, <1>10, <1>13 DEF SnapshotDocs, RateDocs
  <2>2. Gives(in[2], Plain(d), text)
    BY <1>5, <1>13 DEF Finds
  <2> QED BY <1>1, <1>3, <1>4, <1>6, <2>1, <2>2, WalkInto
<1>14. ASSUME NEW d \in RateDocs, k = d[1]
       PROVE  Gives(r, Plain(d), text)
  <2>1. ~Hit(rt, k, in, 1) /\ ~Hit(rt, k, in, 2)
    BY <1>7, <1>9, <1>14 DEF SnapshotDocs, RateDocs
  <2>2. Gives(in[3], Plain(d), text)
    BY <1>5, <1>14 DEF Finds
  <2> QED BY <1>1, <1>3, <1>4, <1>6, <2>1, <2>2, WalkInto
<1>15. ASSUME \A d \in RuntimeDocs : k # d[1]
       PROVE  r = NotFound
  <2>1. k # "snapshots"
    BY <1>15, <1>11 DEF RuntimeDocs
  <2>2. \A j \in DOMAIN rt : ~Hit(rt, k, in, j)
    BY <1>1, <1>7, <1>9, <1>10, <1>15, <2>1 DEF RuntimeDocs
  <2> QED BY <1>3, <2>2, WalkMisses
<1>16. \A d \in RuntimeDocs : k = d[1] => Gives(r, Plain(d), text)
  <2> SUFFICES ASSUME NEW d \in RuntimeDocs, k = d[1] PROVE Gives(r, Plain(d), text)
    OBVIOUS
  <2>1. CASE d = FlagDoc
    BY <1>12, <1>11, <2>1
  <2> QED BY <1>13, <1>14, <2>1 DEF RuntimeDocs
<1> QED BY <1>15, <1>16 DEF Finds, r

(* The documented options are these, struct by struct. *)
UnlockedDoc == <<"unlocked", "Unlocked", "bool">>

(* The table of the documentation has no others. *)
LEMMA DocumentedIs == Documented = {UnlockedDoc} \cup CreateDocs \cup RuntimeDocs
BY DEF Documented, UnlockedDoc, CreateDocs, RuntimeDocs, FlagDoc, SnapshotDocs, RateDocs

(* ... and of the whole policy: every option is found in the field that it *)
(* is documented to set, and nothing else is found.                        *)
LEMMA InPolicy ==
    ASSUME NEW k \in Options, NEW text
    PROVE  Finds(SetKey(PolicyType, k, text), Documented, k, text)
<1> DEFINE pt == PolicyType
           in == [i \in DOMAIN pt |-> SetInner(pt[i].fields, k, text)]
           r  == SetKey(PolicyType, k, text)
<1>1. DOMAIN pt = 1 .. 8
  BY DEF PolicyType
<1>2. /\ pt[2] = Field("Unlocked", "bool", "unlocked")
      /\ pt[3] = Struct("CreateOptions", CreateOptions)
      /\ pt[4] = Struct("RuntimeOptions", RuntimeOptions)
  BY DEF PolicyType
<1>3. /\ pt[1] = Field("Name", "string", "")
      /\ pt[5] = Field("DriverOptions", "map", "")
      /\ pt[6] = Field("FileSystems", "map", "")
      /\ pt[7] = Field("Backends", "ptr", "")
      /\ pt[8] = Field("Backend", "string", "")
  BY DEF PolicyType
<1>4. r = Walk(pt, k, text, in)
  BY DEF SetKey
<1>5. \A i \in DOMAIN pt : in[i] = SetInner(pt[i].fields, k, text)
  OBVIOUS
<1> HIDE DEF pt, in, r
<1>6. \A i \in {1, 5, 6, 7, 8} : pt[i].kind # "struct" /\ pt[i].tag = ""
  <2>1. \A i \in {1, 5, 6, 7, 8} : \E n, d : d # "struct" /\ pt[i] = Field(n, d, "")
    BY <1>3, Zenon
  <2> SUFFICES ASSUME NEW i \in {1, 5, 6, 7, 8} PROVE pt[i].kind # "struct" /\ pt[i].tag = ""
    OBVIOUS
  <2>2. PICK n, d : d # "struct" /\ pt[i] = Field(n, d, "")
    BY <2>1
  <2>3. Field(n, d, "").kind = d /\ Field(n, d, "").tag = ""
    BY DEF Field
  <2> QED BY <2>2, <2>3
<1>7. /\ pt[2].kind # "struct" /\ pt[2].tag = "unlocked"
      /\ pt[3].kind = "struct" /\ pt[3].fields = CreateOptions
      /\ pt[4].kind = "struct" /\ pt[4].fields = RuntimeOptions
  BY <1>2, FieldHas, StructHas
<1>8. Finds(in[3], CreateDocs, k, text) /\ Finds(in[4], RuntimeDocs, k, text)
  BY <1>1, <1>7, <1>5, InLeaves, InRuntime
<1>9. UnlockedDoc[1] = "unlocked" /\ Plain(UnlockedDoc) = pt[2]
  BY <1>2 DEF UnlockedDoc, Plain
<1>10. /\ \A d \in CreateDocs : d[1] \in {"size", "filesystem"}
       /\ \A d \in RuntimeDocs : d[1] \in {"snapshots", "snapshots.frequency", "snapshots.keep",
                                         "rate-limit.write.bps", "rate-limit.read.bps"}
  BY DEF CreateDocs, RuntimeDocs, FlagDoc, SnapshotDocs, RateDocs
<1>11. k # ""
  <2>1. \A d \in Documented : d[1] # ""
    BY <1>9, <1>10, DocumentedIs
  <2> QED BY <2>1 DEF Options
<1>12. \A i \in 1 .. 8 : i \in DOMAIN pt /\ i \in Nat
  BY <1>1
<1>13. /\ Hit(pt, k, in, 2) <=> k = "unlocked"
       /\ Hit(pt, k, in, 3) <=> in[3].ok
       /\ Hit(pt, k, in, 4) <=> in[4].ok
  BY <1>7 DEF Hit
<1>14. \A i \in 1 .. 8 \ {2, 3, 4} : ~Hit(pt, k, in, i)
  <2>1. \A i \in 1 .. 8 \ {2, 3, 4} : i \in {1, 5, 6, 7, 8}
    OBVIOUS
  <2> QED BY <1>6, <1>11, <2>1 DEF Hit
<1>15. ~NotFound.ok
  BY DEF NotFound
<1>16. ASSUME \A d \in CreateDocs : k # d[1]
       PROVE  ~Hit(pt, k, in, 3)
  BY <1>8, <1>13, <1>15, <1>16 DEF Finds
<1>17. ASSUME \A d \in RuntimeDocs : k # d[1]
       PROVE  ~Hit(pt, k, in, 4)
  BY <1>8, <1>13, <1>15, <1>17 DEF Finds
<1>18. ASSUME NEW d \in Documented, k = d[1]
       PROVE  Gives(r, Plain(d), text)
  <2>1. CASE d = UnlockedDoc
    <3>1. ~Hit(pt, k, in, 3) /\ ~Hit(pt, k, in, 4)
      BY <1>16, <1>17, <1>9, <1>10, <1>18, <2>1
    <3>2. Gives(r, pt[2], text)
      BY <1>1, <1>4, <1>7, <1>12, <1>13, <1>14, <1>9, <1>18, <2>1, <3>1, WalkOnto
    <3> QED BY <1>9, <2>1, <3>2
  <2>2. CASE d \in CreateDocs
    <3>1. ~Hit(pt, k, in, 2) /\ ~Hit(pt, k, in, 4)
      BY <1>13, <1>17, <1>10, <1>18, <2>2
    <3>2. Gives(in[3], Plain(d), text)
      BY <1>8, <1>18, <2>2 DEF Finds
    <3> QED BY <1>1, <1>4, <1>7, <1>12, <1>13, <1>14, <3>1, <3>2, WalkInto
  <2>3. CASE d \in RuntimeDocs
    <3>1. ~Hit(pt, k, in, 2) /\ ~Hit(pt, k, in, 3)
      BY <1>13, <1>16, <1>10, <1>18, <2>3
    <3>2. Gives(in[4], Plain(d), text)
      BY <1>8, <1>18, <2>3 DEF Finds
    <3> QED BY <1>1, <1>4, <1>7, <1>12, <1>13, <1>14, <3>1, <3>2, WalkInto
  <2> QED BY <2>1, <2>2, <2>3, DocumentedIs
<1>19. ASSUME \A d \in Documented : k # d[1]
       PROVE  r = NotFound
  <2>1. ~Hit(pt, k, in, 2) /\ ~Hit(pt, k, in, 3) /\ ~Hit(pt, k, in, 4)
    BY <1>13, <1>16, <1>17, <1>9, <1>19, DocumentedIs
  <2> QED BY <1>1, <1>4, <1>14, <2>1, WalkMisses
<1> QED BY <1>18, <1>19 DEF Finds, r

(* No two options share a name or a field. *)
LEMMA OneField ==
    /\ \A d, e \in Documented : d[1] = e[1] \/ d[2] = e[2] => d = e
    /\ \A d \in Documented : d[1] # "mount" /\ d[2] \in Fields
<1>1. \A d, e \in Documented : d[1] = e[1] => d = e
  BY DEF Documented
<1>2. \A d, e \in Documented : d[2] = e[2] => d = e
  BY DEF Documented
<1>3. \A d \in Documented : d[1] # "mount"
  BY DEF Documented
<1>4. \A d \in Documented : d[2] \in Fields
  BY DEF Fields
<1> QED BY <1>1, <1>2, <1>3, <1>4

(* The option of a field. *)
OptionOf(f) == CHOOSE e \in Documented : e[2] = f

(* The policy with the options that were merged into it so far. *)
MergedSoFar ==
    [f \in Fields |->
        IF OptionOf(f)[1] \in DOMAIN request \ merging
        THEN Cast(OptionOf(f)[3], request[OptionOf(f)[1]]).value ELSE base[f]]

(* The inductive invariant of CreatedAsAsked, with what holds while        *)
(* options are being merged: all that were merged are understood, and the  *)
(* copy of the policy has these and no others.                             *)
OptionsInv ==
    /\ DOMAIN request \subseteq Options
    /\ DOMAIN base = Fields
    /\ merging \subseteq DOMAIN request \ {"mount"}
    /\ \A k \in (DOMAIN request \ {"mount"}) \ merging :
          \E d \in Documented : d[1] = k /\ Cast(d[3], request[k]).ok
    /\ outcome = "merging" => volume = MergedSoFar
    /\ CreatedAsAsked

(* Options and fields name each other ... *)
LEMMA OptionOfField == \A d \in Documented : OptionOf(d[2]) = d
BY OneField DEF OptionOf

(* ... in both directions. *)
LEMMA FieldOfOption == \A f \in Fields : OptionOf(f) \in Documented /\ OptionOf(f)[2] = f
BY OptionOfField DEF Fields

(* Before the first option the copy is the policy itself. *)
LEMMA OptionsInitial == OptionsInit => OptionsInv
<1> SUFFICES ASSUME OptionsInit PROVE OptionsInv
  OBVIOUS
<1>1. DOMAIN request \subseteq Options
  BY DEF OptionsInit, Requests
<1>2. DOMAIN base = Fields /\ base = [f \in Fields |-> base[f]]
  <2>1. PICK s \in BOOLEAN : base = BasePolicy(s)
    BY DEF OptionsInit
  <2>2. DOMAIN BasePolicy(s) = Fields /\ BasePolicy(s) = [f \in Fields |-> BasePolicy(s)[f]]
    BY Zenon DEF BasePolicy
  <2> QED BY <2>1, <2>2
<1>3. merging = DOMAIN request \ {"mount"} /\ volume = base /\ outcome = "merging"
  BY DEF OptionsInit
<1>4. \A f \in Fields : OptionOf(f)[1] \notin DOMAIN request \ merging
  BY <1>3, FieldOfOption, OneField
<1>5. MergedSoFar = [f \in Fields |-> base[f]]
  BY <1>4 DEF MergedSoFar
<1> QED BY <1>1, <1>2, <1>3, <1>5 DEF OptionsInv, CreatedAsAsked

(* Merging one option sets its field and no other, or refuses it for good  *)
(* reason.                                                                 *)
LEMMA MergeStep ==
    ASSUME OptionsInv, NEW k \in Options, Opts(k)
    PROVE  OptionsInv'
<1> DEFINE found == SetKey(PolicyType, k, request[k])
<1>1. /\ outcome = "merging" /\ k \in merging /\ request' = request /\ base' = base
      /\ k \in DOMAIN request \ {"mount"} /\ volume = MergedSoFar
  BY DEF Opts, OptionsInv
<1>2. Finds(found, Documented, k, request[k])
  BY InPolicy
<1>3. ASSUME NEW d \in Documented, d[1] = k
      PROVE  /\ found.ok <=> Cast(d[3], request[k]).ok
             /\ found.ok => found.field = d[2] /\ found.cast = Cast(d[3], request[k])
  <2>1. Gives(found, Plain(d), request[k])
    BY <1>2, <1>3 DEF Finds
  <2>2. Plain(d).kind = d[3] /\ Plain(d).name = d[2]
    BY FieldHas DEF Plain
  <2> HIDE DEF found
  <2> QED BY <2>1, <2>2 DEF Gives, SetValue
<1>4. found.ok => \E d \in Documented : d[1] = k
  BY <1>2 DEF Finds, NotFound
<1>5. CASE found.ok
  <2>1. PICK d \in Documented : d[1] = k
    BY <1>4, <1>5
  <2>2. /\ volume' = [volume EXCEPT ![found.field] = found.cast.value]
        /\ merging' = merging \ {k} /\ outcome' = outcome
    BY <1>5 DEF Opts
  <2>3. found.field = d[2] /\ found.cast = Cast(d[3], request[k]) /\ Cast(d[3], request[k]).ok
    BY <1>3, <1>5, <2>1
  <2> HIDE DEF found
  <2>4. volume' = [volume EXCEPT ![d[2]] = Cast(d[3], request[k]).value]
    BY <2>2, <2>3
  <2>5. ASSUME NEW f \in Fields
        PROVE  volume'[f] = IF OptionOf(f)[1] \in DOMAIN request \ merging'
                            THEN Cast(OptionOf(f)[3], request[OptionOf(f)[1]]).value ELSE base[f]
    <3>1. OptionOf(f) \in Documented /\ OptionOf(f)[2] = f
      BY FieldOfOption
    <3>2. CASE f = d[2]
      <4>1. OptionOf(f) = d
        BY <3>2, OptionOfField
      <4>2. k \in DOMAIN request \ merging'
        BY <1>1, <2>2
      <4> QED BY <1>1, <2>1, <2>4, <3>2, <4>1, <4>2 DEF MergedSoFar
    <3>3. CASE f # d[2]
      <4>1. OptionOf(f)[1] # k
        BY <2>1, <3>1, <3>3, OneField
      <4>2. volume'[f] = volume[f]
        BY <1>1, <2>4, <3>3 DEF MergedSoFar
      <4> QED BY <1>1, <2>2, <4>1, <4>2 DEF MergedSoFar
    <3> QED BY <3>2, <3>3
  <2>6. volume' = MergedSoFar'
    <3>1. volume' = [f \in Fields |-> volume'[f]]
      BY <1>1, <2>4 DEF MergedSoFar
    <3> QED BY <1>1, <2>5, <3>1 DEF MergedSoFar
  <2>7. \A o \in (DOMAIN request \ {"mount"}) \ merging' :
            \E e \in Documented : e[1] = o /\ Cast(e[3], request[o]).ok
    BY <2>1, <2>2, <2>3 DEF OptionsInv
  <2> QED BY <1>1, <2>2, <2>6, <2>7 DEF OptionsInv, CreatedAsAsked
<1>6. CASE ~found.ok
  <2>1. outcome' = "refused" /\ volume' = volume /\ merging' = merging
    BY <1>6 DEF Opts
  <2>2. ~Understood'
    BY <1>1, <1>3, <1>6 DEF Understood
  <2> QED BY <1>1, <2>1, <2>2 DEF OptionsInv, CreatedAsAsked
<1> QED BY <1>5, <1>6

(* The merged policy is what the request asks for; the default of its file *)
(* system does not change whether it is valid.                             *)
LEMMA ValidateStep ==
    ASSUME OptionsInv, Validate
    PROVE  OptionsInv'
<1>1. /\ outcome = "merging" /\ merging = {} /\ request' = request /\ base' = base
      /\ merging' = merging /\ volume = MergedSoFar
  BY DEF Validate, OptionsInv
<1>2. Understood
  BY <1>1 DEF OptionsInv, Understood
<1>3. MergedSoFar = AsAsked
  BY <1>1 DEF MergedSoFar, AsAsked, OptionOf
<1>4. Understood' /\ AsAsked' = AsAsked
  BY <1>1, <1>2 DEF Understood, AsAsked
<1>5. CASE Valid(volume)
  <2>1. outcome' = "created" /\ volume' = Defaulted(AsAsked)
    BY <1>1, <1>3, <1>5 DEF Validate
  <2>2. {"UseSnapshots", "Frequency", "Keep", "Size"} \subseteq Fields \ {"FileSystem"}
    BY DEF Fields, Documented
  <2>3. \A f \in Fields \ {"FileSystem"} : volume'[f] = volume[f]
    BY <1>1, <1>3, <2>1 DEF Defaulted, AsAsked
  <2>4. /\ volume'["UseSnapshots"] = volume["UseSnapshots"] /\ volume'["Frequency"] = volume["Frequency"]
        /\ volume'["Keep"] = volume["Keep"] /\ volume'["Size"] = volume["Size"]
    BY <2>2, <2>3
  <2>5. Valid(volume')
    BY <1>5, <2>4 DEF Valid, ValidRuntime, ActualSize
  <2> QED BY <1>1, <1>4, <2>1, <2>5 DEF OptionsInv, CreatedAsAsked
<1>6. CASE ~Valid(volume)
  <2>1. outcome' = "refused" /\ ~Valid(AsAsked)
    BY <1>1, <1>3, <1>6 DEF Validate
  <2> QED BY <1>1, <1>4, <2>1 DEF OptionsInv, CreatedAsAsked
<1> QED BY <1>5, <1>6

(* CreatedAsAsked for requests with any number of options: CreateVolume    *)
(* makes exactly the volume that was asked for, in whatever order          *)
(* merge.Opts takes the options from Go's map and however deep in the      *)
(* policy their fields are, and refuses nothing else.                      *)
THEOREM CreatedAsAskedHolds == OptionsSpec => []CreatedAsAsked
<1>1. OptionsInv /\ [OptionsNext]_optionVars => OptionsInv'
  <2> SUFFICES ASSUME OptionsInv, [OptionsNext]_optionVars PROVE OptionsInv'
    OBVIOUS
  <2>1. CASE UNCHANGED optionVars
    BY <2>1 DEF optionVars, OptionsInv, MergedSoFar, CreatedAsAsked, Understood, AsAsked
  <2> QED BY <2>1, MergeStep, ValidateStep DEF OptionsNext
<1>2. OptionsInv => CreatedAsAsked
  BY DEF OptionsInv
<1> QED BY <1>1, <1>2, OptionsInitial, PTL DEF OptionsSpec

--------------------------------------------------------------------------------
(* The watches of the configuration.                                       *)

(* No change of the global configuration is lost to a daemon that runs: it *)
(* has the latest one, or an event is on its way to it, unless the history *)
(* variable says that an event went by while nobody was waiting for it, or *)
(* that the read at the start failed.                                      *)
GlobalNotLost ==
    key = "global" /\ up => missed \/ GlobalIsCurrent \/ Pending

(* The same of the runtime options of a volume and the limits that are set *)
(* in the cgroup of its mount: the history variable also tells of a volume *)
(* that could not be read for its event and of a failed write of a limit.  *)
LimitNotLost ==
    key = "runtime" /\ mount = "mounted" => missed \/ limit = value \/ Pending

(* What may be in the watched key, and how far a watch has got. *)
Watched == Nat \cup Limits \cup {None, Garbage}

(* The inductive invariant: the index of a watch is never past the events  *)
(* there are, what is about to be sent is the latest or will be followed   *)
(* by it, and what a mount has read is the latest too.                     *)
WatchInv ==
    /\ key \in Keys
    /\ log \in Seq(Watched)
    /\ value \in Watched /\ (log # <<>> => value = log[Len(log)])
    /\ key = "global" => /\ value \in Nat \cup {None, Garbage}
                         /\ \A i \in 1 .. Len(log) : log[i] \in Nat \cup {None, Garbage}
                         /\ global \in Nat
                         /\ watch # "send"
    /\ watch \in {"off", "detached", "waiting", "send", "blocked"}
    /\ index \in 0 .. (Len(log) + 1)
    /\ watch = "waiting" => from \in 1 .. (Len(log) + 1) /\ index \in {0, from}
    /\ watch = "send" => index # 0 /\ (sent = value \/ index \in 1 .. Len(log))
    /\ ~up => watch = "off" /\ index = 0
    /\ mount \in {"none", "read", "collected", "mounted"}
    /\ GlobalNotLost
    /\ LimitNotLost
    /\ key = "runtime" /\ mount \in {"read", "collected"} =>
          missed \/ config = value \/ Pending

LEMMA WatchInitial == WatchInit => WatchInv
BY WatchAssumption DEF WatchInit, WatchInv, Keys, Watched, GlobalNotLost, LimitNotLost, GlobalIsCurrent, Pending

(* A change of the key is on its way to the daemon, or noted as missed. *)
LEMMA PutStep ==
    ASSUME WatchInv, NEW v \in Watched, Put(v),
           key = "global" => v \in Nat \cup {None, Garbage}
    PROVE  WatchInv'
<1>1. /\ value' = v /\ log' = Append(log, v)
      /\ missed' = (missed \/ (index = 0 /\ watch \in {"off", "detached", "blocked"}))
      /\ UNCHANGED <<key, watch, index, from, errors, mount, config, limit, up, global, sent>>
  BY DEF Put, watcher, use
<1>2. /\ log \in Seq(Watched) /\ Len(log) \in Nat /\ log' \in Seq(Watched) /\ Len(log') = Len(log) + 1
      /\ log'[Len(log')] = v /\ \A i \in 1 .. Len(log) : log'[i] = log[i]
      /\ log' # <<>>
  BY <1>1 DEF WatchInv
<1>3. key = "global" => \A i \in 1 .. Len(log') : log'[i] \in Nat \cup {None, Garbage}
  BY <1>1, <1>2 DEF WatchInv
<1>4. missed' \/ Pending'
  <2>1. CASE index # 0
    <3>1. index' \in 1 .. Len(log')
      BY <1>1, <1>2, <2>1 DEF WatchInv
    <3> QED BY <3>1 DEF Pending
  <2>2. CASE watch = "waiting"
    <3>1. from' <= Len(log')
      BY <1>1, <1>2, <2>2 DEF WatchInv
    <3> QED BY <1>1, <2>2, <3>1 DEF Pending
  <2>3. CASE watch = "send"
    BY <1>1, <2>3 DEF Pending
  <2> QED BY <1>1, <2>1, <2>2, <2>3 DEF WatchInv
<1>5. index' \in 0 .. (Len(log') + 1) /\ (watch' = "waiting" => from' \in 1 .. (Len(log') + 1) /\ index' \in {0, from'})
  BY <1>1, <1>2 DEF WatchInv
<1>6. watch' = "send" => index' # 0 /\ (sent' = value' \/ index' \in 1 .. Len(log'))
  BY <1>1, <1>2 DEF WatchInv
<1> QED BY <1>1, <1>2, <1>3, <1>4, <1>5, <1>6 DEF WatchInv, GlobalNotLost, LimitNotLost

(* The changes of the key. *)
LEMMA UploadStep ==
    ASSUME WatchInv, UploadGlobal \/ Reupload \/ SpoilGlobal \/ UploadRuntime
    PROVE  WatchInv'
<1>1. CASE UploadGlobal
  <2>1. PICK u \in Uploads \cup {None} : Put(Canonical(IF u = None THEN DefaultTTL ELSE u))
    BY <1>1 DEF UploadGlobal
  <2>2. Canonical(IF u = None THEN DefaultTTL ELSE u) \in Nat
    BY WatchAssumption DEF Canonical
  <2> QED BY <2>1, <2>2, PutStep DEF Watched
<1>2. CASE Reupload
  <2>1. key = "global" /\ Put(Canonical(Published(global)))
    BY <1>2 DEF Reupload
  <2>2. global \in Nat
    BY <2>1 DEF WatchInv
  <2>3. Published(global) \in Nat
    BY <2>2, WatchAssumption DEF Published
  <2>4. Canonical(Published(global)) \in Nat
    BY <2>3, WatchAssumption DEF Canonical
  <2> QED BY <2>1, <2>4, PutStep DEF Watched
<1>3. CASE SpoilGlobal
  BY <1>3, PutStep DEF SpoilGlobal, Watched
<1>4. CASE UploadRuntime
  BY <1>4, PutStep DEF UploadRuntime, Watched
<1> QED BY <1>1, <1>2, <1>3, <1>4

(* The daemon starts and dies. *)
LEMMA DaemonStep ==
    ASSUME WatchInv, Start \/ StartWithDefaults \/ Dies
    PROVE  WatchInv'
<1>1. Len(log) \in Nat
  BY DEF WatchInv
<1>2. UNCHANGED <<key, value, log>>
  BY DEF Start, StartWithDefaults, Starts, Dies, store
<1>3. CASE Start
  <2>1. /\ ~up /\ up' /\ watch' = "detached" /\ missed' = (missed /\ key = "runtime")
        /\ global' = (IF key = "global" THEN GetGlobal ELSE global)
        /\ UNCHANGED <<index, from, mount, config, limit, sent>>
    BY <1>3 DEF Start, Starts, use
  <2>2. key = "global" => GetGlobal \in Nat /\ global' = GetGlobal
    BY <2>1, WatchAssumption DEF GetGlobal, SetEmpty, WatchInv
  <2>3. key = "global" => GlobalIsCurrent'
    BY <1>2, <2>1, <2>2, WatchAssumption DEF GlobalIsCurrent, GetGlobal, SetEmpty, WatchInv
  <2>4. ~Pending
    BY <1>1, <2>1 DEF Pending, WatchInv
  <2> QED BY <1>1, <1>2, <2>1, <2>2, <2>3, <2>4 DEF WatchInv, GlobalNotLost, LimitNotLost
<1>4. CASE Dies
  <2>1. /\ ~up' /\ watch' = "off" /\ index' = 0
        /\ mount' = (IF mount \in {"collected", "mounted"} THEN "mounted" ELSE "none")
        /\ missed' = (missed \/ mount = "collected" \/ Pending)
        /\ UNCHANGED <<global, limit>>
    BY <1>4 DEF Dies
  <2>2. LimitNotLost'
    <3>1. CASE mount = "mounted"
      BY <1>2, <2>1, <3>1 DEF WatchInv, LimitNotLost
    <3>2. CASE mount # "mounted"
      BY <2>1, <3>2 DEF LimitNotLost
    <3> QED BY <3>1, <3>2
  <2>3. GlobalNotLost' /\ mount' \in {"none", "mounted"}
    BY <2>1 DEF GlobalNotLost
  <2> QED BY <1>1, <1>2, <2>1, <2>2, <2>3 DEF WatchInv
<1>5. CASE StartWithDefaults
  <2>1. /\ key = "global" /\ ~up /\ up' /\ watch' = "detached" /\ missed' /\ global' = DefaultTTL
        /\ UNCHANGED <<index, from, mount, config, limit, sent>>
    BY <1>5 DEF StartWithDefaults, Starts, use
  <2>2. global' \in Nat
    BY <2>1, WatchAssumption
  <2> QED BY <1>1, <1>2, <2>1, <2>2 DEF WatchInv, GlobalNotLost, LimitNotLost
<1> QED BY <1>3, <1>4, <1>5

(* The watch is set up, ends without an event or stops for good. *)
LEMMA PollStep ==
    ASSUME WatchInv, Attach \/ EmptyBody \/ NextFails \/ NextBlocks
    PROVE  WatchInv'
<1>1. Len(log) \in Nat
  BY DEF WatchInv
<1>2. UNCHANGED <<key, value, log, mount, config, limit, up, global, sent, index>>
  BY DEF Attach, EmptyBody, NextFails, NextBlocks, Detached, store, use
<1>3. watch \in {"detached", "waiting"} /\ up
  BY DEF Attach, EmptyBody, NextFails, NextBlocks, WatchInv
<1>4. CASE Attach
  <2>1. watch = "detached" /\ watch' = "waiting" /\ missed' = missed
        /\ from' = (IF index = 0 THEN Len(log) + 1 ELSE index)
    BY <1>4 DEF Attach
  <2>2. Pending => Pending'
    BY <1>1, <1>2, <2>1 DEF Pending
  <2>3. from' \in 1 .. (Len(log) + 1) /\ index \in {0, from'}
    BY <1>1, <2>1 DEF WatchInv
  <2> QED BY <1>1, <1>2, <1>3, <2>1, <2>2, <2>3 DEF WatchInv, GlobalNotLost, LimitNotLost, GlobalIsCurrent
<1>5. CASE EmptyBody \/ NextFails \/ NextBlocks
  <2>1. watch' \in {"detached", "blocked"}
        /\ missed' = (missed \/ (index = 0 /\ watch = "waiting" /\ from <= Len(log)))
    BY <1>5 DEF EmptyBody, NextFails, NextBlocks, Detached
  <2>2. Pending => missed' \/ Pending'
    <3>1. CASE index \in 1 .. Len(log)
      BY <1>2, <3>1 DEF Pending
    <3>2. CASE watch = "waiting" /\ from <= Len(log) /\ index = 0
      BY <2>1, <3>2
    <3>3. CASE watch = "waiting" /\ from <= Len(log) /\ index # 0
      <4>1. index \in 1 .. Len(log)
        BY <1>1, <3>3 DEF WatchInv
      <4> QED BY <3>1, <4>1
    <3> QED BY <1>3, <3>1, <3>2, <3>3 DEF Pending
  <2> QED BY <1>1, <1>2, <1>3, <2>1, <2>2 DEF WatchInv, GlobalNotLost, LimitNotLost, GlobalIsCurrent
<1> QED BY <1>4, <1>5

(* An event arrives, and is sent to the mounts. *)
LEMMA EventStep ==
    ASSUME WatchInv, GlobalEvent \/ RuntimeEvent \/ EventLost \/ PollRuntime \/ PollFails
    PROVE  WatchInv'
<1>1. Len(log) \in Nat
  BY DEF WatchInv
<1>2. UNCHANGED <<key, value, log, up, mount, config>>
  BY DEF GlobalEvent, RuntimeEvent, EventLost, PollRuntime, PollFails, Answered, store, use
<1>3. CASE GlobalEvent
  <2>1. /\ key = "global" /\ watch = "waiting" /\ from <= Len(log) /\ index' = from + 1
        /\ watch' = "detached" /\ global' = Decoded(log[from]) /\ limit' = limit
    BY <1>3 DEF GlobalEvent, Answered, use
  <2>2. from \in 1 .. Len(log) /\ index' \in 2 .. (Len(log) + 1)
    BY <1>1, <2>1 DEF WatchInv
  <2>3. log[from] \in Nat \cup {None, Garbage}
    BY <2>1, <2>2 DEF WatchInv
  <2>4. Decoded(log[from]) = IF log[from] = None THEN DefaultTTL ELSE
                             IF log[from] = Garbage THEN global ELSE log[from]
    BY WatchAssumption, Zenon DEF Decoded
  <2>5. global' \in Nat
    BY <2>1, <2>3, <2>4, WatchAssumption DEF WatchInv
  <2>6. CASE from = Len(log)
    <3>1. value = log[from]
      BY <1>1, <2>2, <2>6 DEF WatchInv
    <3>2. GlobalIsCurrent'
      BY <1>2, <2>1, <2>3, <2>4, <3>1 DEF GlobalIsCurrent
    <3> QED BY <1>1, <1>2, <2>1, <2>2, <2>5, <3>2 DEF WatchInv, GlobalNotLost, LimitNotLost
  <2>7. CASE from # Len(log)
    <3>1. Pending'
      BY <1>1, <1>2, <2>1, <2>2, <2>7 DEF Pending
    <3> QED BY <1>1, <1>2, <2>1, <2>2, <2>5, <3>1 DEF WatchInv, GlobalNotLost, LimitNotLost
  <2> QED BY <2>6, <2>7
<1>4. CASE RuntimeEvent
  <2>1. /\ key = "runtime" /\ watch = "waiting" /\ from <= Len(log) /\ index' = from + 1
        /\ watch' = "send" /\ sent' = value /\ UNCHANGED <<limit, missed>>
    BY <1>4 DEF RuntimeEvent, Answered, use
  <2>2. index' \in 2 .. (Len(log) + 1) /\ up
    BY <1>1, <2>1 DEF WatchInv
  <2>3. Pending'
    BY <2>1 DEF Pending
  <2> QED BY <1>1, <1>2, <2>1, <2>2, <2>3 DEF WatchInv, GlobalNotLost, LimitNotLost
<1>5. CASE PollRuntime
  <2>1. /\ watch = "send" /\ watch' = "detached" /\ index' = index
        /\ limit' = IF mount \in {"collected", "mounted"} THEN sent ELSE limit
    BY <1>5 DEF PollRuntime
  <2>2. /\ mount = "mounted" => missed' = FALSE
        /\ mount \in {"read", "collected"} => missed' = (missed \/ sent # config)
    BY <1>5, Zenon DEF PollRuntime
  <2>3. key = "runtime" /\ up /\ (sent = value \/ Pending')
    BY <1>1, <1>2, <2>1 DEF WatchInv, Keys, Pending
  <2> QED BY <1>1, <1>2, <2>1, <2>2, <2>3 DEF WatchInv, GlobalNotLost, LimitNotLost
<1>6. CASE EventLost
  <2>1. /\ key = "runtime" /\ watch = "waiting" /\ from <= Len(log) /\ index' = from + 1
        /\ watch' = "detached" /\ missed'
    BY <1>6 DEF EventLost, Answered
  <2>2. index' \in 2 .. (Len(log) + 1) /\ up
    BY <1>1, <2>1 DEF WatchInv
  <2> QED BY <1>1, <1>2, <2>1, <2>2 DEF WatchInv, GlobalNotLost, LimitNotLost
<1>7. CASE PollFails
  <2>1. /\ watch = "send" /\ watch' = "detached" /\ index' = index /\ mount \in {"collected", "mounted"}
        /\ missed' = (missed \/ mount = "mounted" \/ sent # config)
    BY <1>7 DEF PollFails
  <2>2. key = "runtime" /\ up /\ (sent = value \/ Pending')
    BY <1>1, <1>2, <2>1 DEF WatchInv, Keys, Pending
  <2> QED BY <1>1, <1>2, <2>1, <2>2 DEF WatchInv, GlobalNotLost, LimitNotLost
<1> QED BY <1>3, <1>4, <1>5, <1>6, <1>7

(* A mount reads the limits before it is among those that get events. *)
LEMMA MountStep ==
    ASSUME WatchInv, MountReads \/ MountCollects \/ MountApplies \/ MountUnlimited \/ Unmount
    PROVE  WatchInv'
<1>1. /\ UNCHANGED <<key, value, log, watch, index, from, up, global, sent>>
      /\ Pending' = Pending
  BY DEF MountReads, MountCollects, MountApplies, MountUnlimited, Unmount, store, watcher, Pending
<1>2. CASE MountReads
  <2>1. key = "runtime" /\ mount' = "read" /\ config' = value
    BY <1>2 DEF MountReads
  <2> QED BY <1>1, <2>1 DEF WatchInv, GlobalNotLost, LimitNotLost
<1>3. CASE MountCollects
  BY <1>1, <1>3 DEF MountCollects, WatchInv, GlobalNotLost, LimitNotLost, GlobalIsCurrent
<1>4. CASE MountApplies
  BY <1>1, <1>4 DEF MountApplies, WatchInv, GlobalNotLost, LimitNotLost, GlobalIsCurrent
<1>5. CASE Unmount
  BY <1>1, <1>5 DEF Unmount, WatchInv, GlobalNotLost, LimitNotLost, GlobalIsCurrent
<1>6. CASE MountUnlimited
  BY <1>1, <1>6 DEF MountUnlimited, WatchInv, GlobalNotLost, LimitNotLost
<1> QED BY <1>2, <1>3, <1>4, <1>5, <1>6

(* No change is lost otherwise than the history variable tells, however    *)
(* uploads, polls, events, mounts and restarts of the daemon interleave    *)
(* and fail: what GlobalConverges and LimitConverges need of the safety of *)
(* watch.Create; the rest is that the watch goes on.                       *)
THEOREM NoChangeLostHolds == WatchSpec => [](GlobalNotLost /\ LimitNotLost)
<1>1. WatchInv /\ [WatchNext]_watchVars => WatchInv'
  <2> SUFFICES ASSUME WatchInv, [WatchNext]_watchVars PROVE WatchInv'
    OBVIOUS
  <2>1. CASE UNCHANGED watchVars
    BY <2>1 DEF watchVars, store, watcher, use, WatchInv, GlobalNotLost, LimitNotLost, GlobalIsCurrent, Pending
  <2> QED BY <2>1, UploadStep, DaemonStep, PollStep, EventStep, MountStep DEF WatchNext
<1>2. WatchInv => GlobalNotLost /\ LimitNotLost
  BY DEF WatchInv
<1> QED BY <1>1, <1>2, WatchInitial, PTL DEF WatchSpec
================================================================================
