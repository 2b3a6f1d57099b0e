------------------------------ MODULE PolicyStore ------------------------------
(***************************************************************************)
(* Policies: their upload with its entry in the archive of revisions,      *)
(* which are two keys of etcd and no transaction, their deletion, and the  *)
(* creation of a volume from a policy, which reads the policy twice.       *)
(*                                                                         *)
(* One policy and one volume of it are modelled.  A policy is the file     *)
(* system of its volumes and the command that makes it (FileSystems has    *)
(* this one entry).                                                        *)
(***************************************************************************)
EXTENDS Naturals

CONSTANTS
    Uploaders,   \* the requests that upload the policy
    Contents,    \* the policies uploaded, see IsContent
    NoPolicy,
    LastSecond   \* bounds the time

IsContent(c) == DOMAIN c = {"filesystem", "command"}

ASSUME PolicyAssumption ==
    /\ \A c \in Contents : IsContent(c)
    /\ NoPolicy \notin Contents
    /\ LastSecond \in Nat

Seconds == 0 .. LastSecond

VARIABLES
    policy,    \* policies/<policy>
    archive,   \* archive[s]: policy-archives/<policy>/<s>
    now,       \* the time, in the seconds of the archive's keys
    uploading, \* uploading[u]: what u has archived and not yet published
    creating,  \* the creation: "idle", "locked", "publish"
    first,     \* the policy it has read first
    record,    \* the policy the volume's record is made from
    made,      \* the policy whose command has made its file system
    reused,    \* history: an entry of the archive was overwritten
    changed    \* history: the policy was published or deleted between the
               \* two reads of the creation

policyVars == <<policy, archive, now, uploading, creating, first, record, made, reused, changed>>
creation   == <<creating, first, record, made>>

Policies == Contents \cup {NoPolicy}

PolicyInit ==
    /\ policy = NoPolicy
    /\ archive = [s \in Seconds |-> NoPolicy]
    /\ now = 0
    /\ uploading = [u \in Uploaders |-> NoPolicy]
    /\ creating = "idle"
    /\ first = NoPolicy
    /\ record = NoPolicy
    /\ made = NoPolicy
    /\ reused = FALSE
    /\ changed = FALSE

PolicyTypeOK ==
    /\ policy \in Policies
    /\ archive \in [Seconds -> Policies]
    /\ now \in Seconds
    /\ uploading \in [Uploaders -> Policies]
    /\ creating \in {"idle", "locked", "publish"}
    /\ first \in Policies
    /\ record \in Policies
    /\ made \in Policies
    /\ reused \in BOOLEAN
    /\ changed \in BOOLEAN

--------------------------------------------------------------------------------
(* handlePolicyUpload.                                                     *)

(* CreatePolicyRevision: the key is the second. *)
CreatePolicyRevision(c) ==
    /\ archive' = [archive EXCEPT ![now] = c]
    /\ reused' = (reused \/ archive[now] # NoPolicy)

(* Mutant: the policy is published first. *)
PublishesFirst(u) ==
    /\ uploading[u] = NoPolicy
    /\ \E c \in Contents :
        /\ policy' = c
        /\ uploading' = [uploading EXCEPT ![u] = c]
    /\ changed' = (changed \/ creating = "locked")
    /\ UNCHANGED <<archive, now, creation, reused>>

(* PublishPolicy: a valid policy gets its revision first ...               *)
UploadArchives(u) ==
    /\ uploading[u] = NoPolicy
    /\ \E c \in Contents :
        /\ CreatePolicyRevision(c)
        /\ uploading' = [uploading EXCEPT ![u] = c]
    /\ UNCHANGED <<policy, now, creation, changed>>

(* ... and is then published.                                              *)
UploadPublishes(u) ==
    /\ uploading[u] # NoPolicy
    /\ policy' = uploading[u]
    /\ uploading' = [uploading EXCEPT ![u] = NoPolicy]
    /\ changed' = (changed \/ creating = "locked")
    /\ UNCHANGED <<archive, now, creation, reused>>

(* The apiserver dies, or etcd refuses, in between. *)
UploadFails(u) ==
    /\ uploading[u] # NoPolicy
    /\ uploading' = [uploading EXCEPT ![u] = NoPolicy]
    /\ UNCHANGED <<policy, archive, now, creation, reused, changed>>

(* handlePolicyDelete: the archive and the volumes stay. *)
DeletePolicy ==
    /\ policy # NoPolicy
    /\ policy' = NoPolicy
    /\ changed' = (changed \/ creating = "locked")
    /\ UNCHANGED <<archive, now, uploading, creation, reused>>

Tick ==
    /\ now < LastSecond
    /\ now' = now + 1
    /\ UNCHANGED <<policy, archive, uploading, creation, reused, changed>>

(* handlePolicyListRevisions and handlePolicyGetRevision. *)
ListPolicyRevisions == {s \in Seconds : archive[s] # NoPolicy}
GetPolicyRevision(s) == archive[s]

--------------------------------------------------------------------------------
(* handleCreate of apiserver and Create of volplugin.                      *)

(* The request reads the policy, for the command, before it has the locks, *)
CreateReads ==
    /\ creating = "idle"
    /\ policy # NoPolicy
    /\ first' = policy
    /\ creating' = "locked"
    /\ changed' = FALSE
    /\ UNCHANGED <<policy, archive, now, uploading, record, made, reused>>

(* Mutant: the file system is not looked up. *)
MakesAnyway ==
    /\ creating = "locked"
    /\ policy # NoPolicy
    /\ made' = first
    /\ record' = policy
    /\ creating' = "publish"
    /\ UNCHANGED <<policy, archive, now, uploading, first, reused, changed>>

(* and CreateVolume reads it again, for everything else, when it has them. *)
(* control.CreateVolume looks the file system of the second up in the      *)
(* first, and FormatVolume uses its command.                               *)
CreateMakes ==
    /\ creating = "locked"
    /\ policy # NoPolicy
    /\ policy.filesystem = first.filesystem
    /\ made' = first
    /\ record' = policy
    /\ creating' = "publish"
    /\ UNCHANGED <<policy, archive, now, uploading, first, reused, changed>>

(* The policy is gone, its file system is unknown to the first, an option  *)
(* of the request cannot be merged or the request ends otherwise.          *)
CreateFails ==
    /\ creating = "locked"
    /\ creating' = "idle"
    /\ first' = NoPolicy
    /\ UNCHANGED <<policy, archive, now, uploading, record, made, reused, changed>>

(* The volume is used and then removed. *)
VolumeRemoved ==
    /\ creating = "publish"
    /\ creating' = "idle"
    /\ first' = NoPolicy
    /\ record' = NoPolicy
    /\ made' = NoPolicy
    /\ UNCHANGED <<policy, archive, now, uploading, reused, changed>>

--------------------------------------------------------------------------------
PolicyNext ==
    \/ \E u \in Uploaders : UploadArchives(u) \/ UploadPublishes(u) \/ UploadFails(u)
    \/ DeletePolicy \/ Tick
    \/ CreateReads \/ CreateMakes \/ CreateFails \/ VolumeRemoved

PolicySpec == PolicyInit /\ [][PolicyNext]_policyVars

--------------------------------------------------------------------------------
(* PROPERTIES *)

(* A published policy has a revision recorded for it, whatever uploads     *)
(* overlap, fail or die, as long as no two were archived in one second     *)
(* (policy.go: "It's better to have an entry for a policy revision that    *)
(* was never actually published than to have a policy published which has  *)
(* no revision recorded for it").                                          *)
PublishedHasRevision ==
    policy # NoPolicy /\ ~reused =>
        \E s \in ListPolicyRevisions : GetPolicyRevision(s) = policy

(* The file system that the record of a volume names is the one that was   *)
(* made, even if the policy has changed between the two reads; if it has   *)
(* not, it was made by the command of the policy of the record.            *)
MadeAsRecorded ==
    record # NoPolicy =>
        /\ made.filesystem = record.filesystem
        /\ made = record \/ changed

(* The inductive invariant of PublishedHasRevision: what is going to be    *)
(* published is in the archive, too.                                       *)
PolicyInv ==
    /\ PolicyTypeOK
    /\ ~reused =>
        \A c \in {policy} \cup {uploading[u] : u \in Uploaders} :
            c # NoPolicy => \E s \in Seconds : archive[s] = c
================================================================================
