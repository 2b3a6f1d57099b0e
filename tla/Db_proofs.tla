------------------------------- MODULE Db_proofs -------------------------------
(***************************************************************************)
(* The proofs about package db.  For any number of volumes and clients,    *)
(* and whatever etcd refuses, a volume is seen with its options, a Set     *)
(* keeps a volume that exists, and a list is exact about what nobody       *)
(* changed meanwhile; for any number of watches of a path, all but the     *)
(* last are told to stop, and none is told twice.                          *)
(***************************************************************************)
EXTENDS DbVolume, DbWatch, TLAPS

(* A Set that is about to write the volume has written its options: they   *)
(* are there, or were deleted since.                                       *)
OptionsFirst ==
    \A c \in Clients : step[c] = "setvolume" =>
        runtimes[entity[c]] # NoKey \/ entity[c] \in bare

(* What the steps of Set need of the types. *)
SetTypes ==
    /\ volumes \in [DbVolumes -> Stored]
    /\ runtimes \in [DbVolumes -> Stored]
    /\ step \in [Clients -> Steps]
    /\ entity \in [Clients -> DbVolumes \cup {NoKey}]
    /\ data \in [Clients -> Stored]
    /\ bare \in SUBSET DbVolumes
    /\ \A c \in Clients : Setting(c) => entity[c] \in DbVolumes /\ data[c] \in Data

(* The inductive invariant of VisibleIsWhole. *)
WholeInv == SetTypes /\ OptionsFirst /\ VisibleIsWhole

--------------------------------------------------------------------------------
LEMMA WholeInitial == DbInit => WholeInv
BY DEF DbInit, WholeInv, SetTypes, OptionsFirst, VisibleIsWhole, Stored, Steps, Setting

(* The steps of Set, *)
LEMMA SetStep ==
    ASSUME WholeInv, NEW c \in Clients,
           \/ \E v \in DbVolumes : SetVolume(c, v)
           \/ LookVolume(c) \/ LookRuntime(c) \/ LookFails(c)
           \/ SetRuntime(c) \/ SetReturns(c) \/ SetFails(c)
    PROVE  WholeInv'
<1> USE DbAssumption DEF WholeInv, SetTypes, OptionsFirst, VisibleIsWhole, Stored, Steps,
        Setting, Goto, dbKeys, listing, history
<1>1. ASSUME NEW v \in DbVolumes, SetVolume(c, v)
      PROVE  WholeInv'
  <2>1. PICK x \in Data : data' = [data EXCEPT ![c] = x]
    BY <1>1 DEF SetVolume
  <2>2. /\ step' = [step EXCEPT ![c] = "look"]
        /\ entity' = [entity EXCEPT ![c] = v]
        /\ UNCHANGED <<volumes, runtimes, bare>>
    BY <1>1 DEF SetVolume
  <2> QED BY <2>1, <2>2
<1>2. CASE LookVolume(c) \/ LookFails(c)
  BY <1>2 DEF LookVolume, LookFails
<1>3. CASE LookRuntime(c)
  BY <1>3 DEF LookRuntime, SetEnds
<1>4. CASE SetRuntime(c)
  BY <1>4 DEF SetRuntime, WriteRuntime
<1>5. CASE SetReturns(c)
  BY <1>5 DEF SetReturns, SetEnds
<1>6. CASE SetFails(c)
  BY <1>6 DEF SetFails, SetEnds
<1> QED BY <1>1, <1>2, <1>3, <1>4, <1>5, <1>6

(* the steps that take no client, *)
LEMMA KeyStep ==
    ASSUME WholeInv, NEW v \in DbVolumes,
           DeleteVolume(v) \/ SetOptions(v) \/ DeleteOptions(v)
    PROVE  WholeInv'
<1> USE DbAssumption DEF WholeInv, SetTypes, OptionsFirst, VisibleIsWhole, Stored, Setting, history
<1>1. CASE DeleteVolume(v)
  BY <1>1 DEF DeleteVolume
<1>2. CASE SetOptions(v)
  <2>1. PICK x \in Data : WriteRuntime(v, x)
    BY <1>2 DEF SetOptions
  <2> QED BY <1>2, <2>1 DEF SetOptions, WriteRuntime
<1>3. CASE DeleteOptions(v)
  BY <1>3 DEF DeleteOptions
<1> QED BY <1>1, <1>2, <1>3

(* and those of List, which change no key.                                 *)
LEMMA ListStep ==
    ASSUME WholeInv, NEW c \in Clients,
           ListBegins(c) \/ Traverse(c) \/ TraverseFails(c) \/ ListReturns(c)
    PROVE  WholeInv'
<1>1. /\ UNCHANGED <<volumes, runtimes, entity, data, bare>>
      /\ \/ UNCHANGED step
         \/ step' = [step EXCEPT ![c] = "hooks"]
         \/ step' = [step EXCEPT ![c] = "idle"]
  BY DEF ListBegins, Traverse, TraverseFails, ListReturns, Goto, dbKeys, history
<1> QED BY <1>1 DEF WholeInv, SetTypes, OptionsFirst, VisibleIsWhole, Stored, Steps, Setting

LEMMA WholeStep == WholeInv /\ [DbNext]_dbVars => WholeInv'
<1> SUFFICES ASSUME WholeInv, [DbNext]_dbVars
             PROVE  WholeInv'
  OBVIOUS
<1>1. CASE UNCHANGED dbVars
  BY <1>1 DEF dbVars, WholeInv, SetTypes, OptionsFirst, VisibleIsWhole, Setting
<1> QED BY <1>1, SetStep, KeyStep, ListStep DEF DbNext

(* preSetHook sets the options of a volume before the volume, and Delete   *)
(* leaves them: whoever sees a volume finds options, however the Sets,     *)
(* Deletes and Lists of any number of clients interleave and fail, unless  *)
(* the options were deleted by themselves.                                 *)
THEOREM VisibleIsWholeHolds == DbSpec => []VisibleIsWhole
<1>1. WholeInv => VisibleIsWhole
  BY DEF WholeInv
<1> QED BY <1>1, WholeInitial, WholeStep, PTL DEF DbSpec

--------------------------------------------------------------------------------
(* Set and the volumes that exist. *)

(* Two Sets of a volume that overlap know of each other, and one that is   *)
(* alone and has looked found no volume: nobody else can have set it since. *)
Alone ==
    \A c, d \in Clients : c # d /\ Setting(c) /\ Setting(d) /\ entity[c] = entity[d] =>
        excused[c] /\ excused[d]

LookedInVain ==
    \A c \in Clients : step[c] \in {"setruntime", "setvolume"} /\ ~excused[c] =>
        volumes[entity[c]] = NoKey

(* The inductive invariant of ExistingIsKept. *)
KeptInv ==
    /\ SetTypes
    /\ excused \in [Clients -> BOOLEAN]
    /\ Alone
    /\ LookedInVain
    /\ ExistingIsKept

LEMMA KeptInitial == DbInit => KeptInv
BY WholeInitial DEF DbInit, KeptInv, WholeInv, Alone, LookedInVain, ExistingIsKept, Setting

(* A Set begins.                                                           *)
LEMMA SetBegins ==
    ASSUME KeptInv, SetTypes', NEW c \in Clients, NEW v \in DbVolumes, SetVolume(c, v)
    PROVE  KeptInv'
<1> DEFINE others == {d \in Clients \ {c} : Setting(d) /\ entity[d] = v}
<1>1. /\ step[c] = "idle"
      /\ step' = [step EXCEPT ![c] = "look"]
      /\ entity' = [entity EXCEPT ![c] = v]
      /\ excused' = [d \in Clients |-> IF d = c THEN others # {}
                                       ELSE IF d \in others THEN TRUE ELSE excused[d]]
      /\ UNCHANGED <<volumes, replaced>>
  BY DEF SetVolume, Goto, dbKeys
<1>2. /\ step \in [Clients -> Steps] /\ entity \in [Clients -> DbVolumes \cup {NoKey}]
      /\ excused \in [Clients -> BOOLEAN]
  BY DEF KeptInv, SetTypes
<1>3. \A d \in Clients : d # c => step'[d] = step[d] /\ entity'[d] = entity[d] /\ (excused[d] => excused'[d])
  BY <1>1, <1>2
<1>4. excused' \in [Clients -> BOOLEAN]
  BY <1>1, <1>2
<1>5. step'[c] = "look" /\ entity'[c] = v
  BY <1>1, <1>2
<1>6. \A d \in Clients : d # c /\ Setting(d)' /\ entity'[d] = v => d \in others
  BY <1>3 DEF Setting
<1>7. \A d \in others : excused'[d] /\ excused'[c]
  BY <1>1
<1>8. Alone'
  <2> SUFFICES ASSUME NEW a \in Clients, NEW b \in Clients, a # b, Setting(a)', Setting(b)',
                      entity'[a] = entity'[b]
               PROVE  excused'[a] /\ excused'[b]
    BY DEF Alone
  <2> HIDE DEF others
  <2>1. CASE a = c \/ b = c
    BY <1>5, <1>6, <1>7, <2>1
  <2>2. CASE a # c /\ b # c
    BY <1>3, <2>2 DEF KeptInv, Alone, Setting
  <2> QED BY <2>1, <2>2
<1>9. LookedInVain'
  BY <1>1, <1>3, <1>5 DEF KeptInv, LookedInVain
<1> QED BY <1>1, <1>4, <1>8, <1>9 DEF KeptInv, ExistingIsKept

(* It looks.                                                               *)
LEMMA LookStep ==
    ASSUME KeptInv, SetTypes', NEW c \in Clients, LookVolume(c) \/ LookRuntime(c) \/ LookFails(c)
    PROVE  KeptInv'
<1>1. /\ step[c] \in {"look", "lookruntime"}
      /\ UNCHANGED <<volumes, replaced>>
      /\ \A d \in Clients : d # c => step'[d] = step[d] /\ entity'[d] = entity[d] /\ excused'[d] = excused[d]
  BY DEF KeptInv, SetTypes, LookVolume, LookRuntime, LookFails, SetEnds, Goto, dbKeys, history
<1>2. excused' \in [Clients -> BOOLEAN]
  BY DEF KeptInv, LookVolume, LookRuntime, LookFails, SetEnds, history
<1>3. \/ step'[c] = "idle"
      \/ step'[c] = "lookruntime" /\ entity'[c] = entity[c] /\ excused'[c] = excused[c]
      \/ step'[c] = "setruntime" /\ entity'[c] = entity[c] /\ excused'[c] = excused[c] /\ volumes[entity[c]] = NoKey
      \/ step'[c] = "setruntime" /\ entity'[c] = entity[c] /\ excused'[c]
  <2>1. step \in [Clients -> Steps] /\ excused \in [Clients -> BOOLEAN]
    BY DEF KeptInv, SetTypes
  <2>2. CASE LookVolume(c)
    BY <2>1, <2>2 DEF LookVolume, Goto, history
  <2>3. CASE LookRuntime(c)
    BY <2>1, <2>3 DEF LookRuntime, SetEnds, Goto
  <2>4. CASE LookFails(c)
    BY <2>1, <2>4 DEF LookFails, Goto
  <2> QED BY <2>2, <2>3, <2>4
<1>4. Setting(c) /\ (Setting(c)' => entity'[c] = entity[c] /\ (excused[c] => excused'[c]))
  BY <1>1, <1>3 DEF Setting
<1>5. Alone'
  <2> SUFFICES ASSUME NEW a \in Clients, NEW b \in Clients, a # b, Setting(a)', Setting(b)',
                      entity'[a] = entity'[b]
               PROVE  excused'[a] /\ excused'[b]
    BY DEF Alone
  <2>1. \A d \in {a, b} : Setting(d) /\ entity'[d] = entity[d] /\ (excused[d] => excused'[d])
    BY <1>1, <1>4 DEF Setting
  <2> QED BY <2>1 DEF KeptInv, Alone
<1>6. LookedInVain'
  BY <1>1, <1>3 DEF KeptInv, LookedInVain
<1> QED BY <1>1, <1>2, <1>5, <1>6 DEF KeptInv, ExistingIsKept

(* It writes, or fails to: only the last write makes a volume.             *)
LEMMA WriteStep ==
    ASSUME KeptInv, SetTypes', NEW c \in Clients, SetRuntime(c) \/ SetReturns(c) \/ SetFails(c)
    PROVE  KeptInv'
<1>0. /\ step \in [Clients -> Steps] /\ entity \in [Clients -> DbVolumes \cup {NoKey}]
      /\ excused \in [Clients -> BOOLEAN] /\ volumes \in [DbVolumes -> Stored]
  BY DEF KeptInv, SetTypes
<1>1. /\ step[c] \in {"setruntime", "setvolume"}
      /\ \A d \in Clients : d # c => step'[d] = step[d] /\ entity'[d] = entity[d] /\ excused'[d] = excused[d]
      /\ \/ step'[c] = "idle"
         \/ /\ step[c] = "setruntime" /\ step'[c] = "setvolume"
            /\ entity'[c] = entity[c] /\ excused'[c] = excused[c]
  BY <1>0 DEF SetRuntime, SetReturns, SetFails, SetEnds, Goto
<1>2. excused' \in [Clients -> BOOLEAN]
  BY <1>0 DEF SetRuntime, SetReturns, SetFails, SetEnds
<1>3. Setting(c)
  BY <1>1 DEF Setting
<1>4. Alone'
  BY <1>1, <1>3 DEF KeptInv, Alone, Setting
<1>5. CASE SetRuntime(c) \/ SetFails(c)
  <2>1. UNCHANGED <<volumes, replaced>>
    BY <1>5 DEF SetRuntime, SetFails, dbKeys
  <2>2. LookedInVain'
    BY <1>1, <2>1 DEF KeptInv, LookedInVain
  <2> QED BY <1>2, <1>4, <2>1, <2>2 DEF KeptInv, ExistingIsKept
<1>6. CASE SetReturns(c)
  <2>1. /\ step[c] = "setvolume" /\ step'[c] = "idle"
        /\ volumes' = [volumes EXCEPT ![entity[c]] = data[c]]
        /\ replaced' = (replaced \/ (volumes[entity[c]] # NoKey /\ ~excused[c]))
    BY <1>0, <1>6 DEF SetReturns, SetEnds, Goto
  <2>2. ~replaced'
    BY <2>1 DEF KeptInv, LookedInVain, ExistingIsKept
  <2>3. LookedInVain'
    <3> SUFFICES ASSUME NEW d \in Clients, step'[d] \in {"setruntime", "setvolume"}, ~excused'[d]
                 PROVE  volumes'[entity'[d]] = NoKey
      BY DEF LookedInVain
    <3>1. d # c
      BY <2>1
    <3>2. Setting(d) /\ ~excused[d] /\ entity'[d] = entity[d] /\ volumes[entity[d]] = NoKey
      BY <1>1, <3>1 DEF Setting, KeptInv, LookedInVain
    <3>3. entity[d] # entity[c] /\ entity[d] \in DbVolumes
      BY <1>3, <3>1, <3>2 DEF KeptInv, Alone, SetTypes
    <3> QED BY <1>0, <2>1, <3>2, <3>3
  <2> QED BY <1>2, <1>4, <2>2, <2>3 DEF KeptInv, ExistingIsKept
<1> QED BY <1>5, <1>6

LEMMA KeptStep == WholeInv /\ KeptInv /\ [DbNext]_dbVars => KeptInv'
<1> SUFFICES ASSUME WholeInv, KeptInv, [DbNext]_dbVars PROVE KeptInv'
  OBVIOUS
<1>0. SetTypes'
  BY WholeStep DEF WholeInv
<1>1. ASSUME NEW v \in DbVolumes, DeleteVolume(v) \/ SetOptions(v) \/ DeleteOptions(v)
      PROVE  KeptInv'
  <2>1. /\ UNCHANGED <<step, entity, excused, replaced>>
        /\ \A w \in DbVolumes : volumes'[w] \in {volumes[w], NoKey}
    BY <1>1 DEF DeleteVolume, SetOptions, DeleteOptions, history, KeptInv, SetTypes
  <2>2. LookedInVain'
    BY <2>1 DEF KeptInv, LookedInVain, SetTypes, Setting
  <2> QED BY <1>0, <2>1, <2>2 DEF KeptInv, Alone, Setting, ExistingIsKept
<1>2. ASSUME NEW c \in Clients, ListBegins(c) \/ Traverse(c) \/ TraverseFails(c) \/ ListReturns(c)
      PROVE  KeptInv'
  <2>1. /\ UNCHANGED <<volumes, entity, excused, replaced>>
        /\ \/ UNCHANGED step
           \/ step' = [step EXCEPT ![c] = "hooks"]
           \/ step' = [step EXCEPT ![c] = "idle"]
    BY <1>2 DEF ListBegins, Traverse, TraverseFails, ListReturns, Goto, dbKeys, history
  <2>2. \A d \in Clients : step'[d] = step[d] \/ step'[d] \in {"hooks", "idle"}
    BY <2>1 DEF KeptInv, SetTypes
  <2> QED BY <1>0, <2>1, <2>2 DEF KeptInv, Alone, LookedInVain, Setting, ExistingIsKept
<1>3. CASE UNCHANGED dbVars
  BY <1>0, <1>3 DEF dbVars, KeptInv, Alone, LookedInVain, Setting, ExistingIsKept
<1> QED BY <1>0, <1>1, <1>2, <1>3, SetBegins, LookStep, WriteStep DEF DbNext

(* preSetHook keeps Set from a volume that exists: it replaces one only    *)
(* when another Set of the volume runs, or when its look was none.         *)
THEOREM ExistingIsKeptHolds == DbSpec => []ExistingIsKept
<1>1. KeptInv => ExistingIsKept
  BY DEF KeptInv
<1> QED BY <1>1, WholeInitial, WholeStep, KeptInitial, KeptStep, PTL DEF DbSpec

--------------------------------------------------------------------------------
(* Lists. *)

(* What c's list says of a volume that nobody has changed: it will come to *)
(* it, or has been there.                                                  *)
ListedOrDue(c, v) ==
    /\ \A n \in nodes[c] : n[1] = v => n[2] = volumes[v]
    /\ \A e \in list[c] : e[1] = v => e = <<v, volumes[v], runtimes[v]>>
    /\ NoKey \notin {volumes[v], runtimes[v]} =>
         <<v, volumes[v]>> \in nodes[c] \/ <<v, volumes[v], runtimes[v]>> \in list[c]

(* The inductive invariant of ListIsExact. *)
ListInv ==
    /\ volumes \in [DbVolumes -> Stored] /\ runtimes \in [DbVolumes -> Stored]
    /\ step \in [Clients -> Steps]
    /\ nodes \in [Clients -> SUBSET (DbVolumes \X Data)]
    /\ list \in [Clients -> SUBSET (DbVolumes \X Data \X Data)]
    /\ altered \in [Clients -> SUBSET DbVolumes]
    /\ \A c \in Clients :
         IF step[c] = "hooks" THEN \A v \in DbVolumes \ altered[c] : ListedOrDue(c, v)
                              ELSE nodes[c] = {} /\ list[c] = {} /\ altered[c] = {}

LEMMA ListInitial == DbInit => ListInv
BY DEF DbInit, ListInv, Stored, Steps

(* A step that changes one volume at most, and says so to every list.      *)
LEMMA ListsAreTold ==
    ASSUME ListInv, NEW v \in DbVolumes, Alter(v) \/ UNCHANGED <<altered, volumes, runtimes>>,
           volumes' \in [DbVolumes -> Stored], runtimes' \in [DbVolumes -> Stored],
           \A w \in DbVolumes : w # v => volumes'[w] = volumes[w] /\ runtimes'[w] = runtimes[w],
           step' \in [Clients -> Steps],
           \A c \in Clients : step'[c] = "hooks" <=> step[c] = "hooks",
           UNCHANGED <<nodes, list>>
    PROVE  ListInv'
<1>1. altered' \in [Clients -> SUBSET DbVolumes]
  BY DEF ListInv, Alter
<1>2. ASSUME NEW c \in Clients, step[c] = "hooks", NEW w \in DbVolumes \ altered'[c]
      PROVE  ListedOrDue(c, w)'
  <2>1. w \in DbVolumes \ altered[c] /\ volumes'[w] = volumes[w] /\ runtimes'[w] = runtimes[w]
    BY <1>2 DEF Alter
  <2>2. ListedOrDue(c, w)
    BY <1>2, <2>1 DEF ListInv
  <2> QED BY <2>1, <2>2 DEF ListedOrDue
<1>3. \A c \in Clients : step[c] # "hooks" => altered'[c] = altered[c]
  BY DEF Alter
<1> QED BY <1>1, <1>2, <1>3 DEF ListInv

(* Everything but the lists themselves.                                    *)
LEMMA SetsAreTold ==
    ASSUME WholeInv, ListInv,
           \/ \E v \in DbVolumes : DeleteVolume(v) \/ SetOptions(v) \/ DeleteOptions(v)
           \/ \E c \in Clients :
                \/ \E v \in DbVolumes : SetVolume(c, v)
                \/ LookVolume(c) \/ LookRuntime(c) \/ LookFails(c)
                \/ SetRuntime(c) \/ SetReturns(c) \/ SetFails(c),
           WholeInv'
    PROVE  ListInv'
<1>1. /\ volumes' \in [DbVolumes -> Stored] /\ runtimes' \in [DbVolumes -> Stored]
      /\ step' \in [Clients -> Steps]
      /\ volumes \in [DbVolumes -> Stored] /\ runtimes \in [DbVolumes -> Stored]
      /\ step \in [Clients -> Steps]
  BY DEF WholeInv, SetTypes
<1>2. ASSUME NEW v \in DbVolumes, DeleteVolume(v) \/ SetOptions(v) \/ DeleteOptions(v)
      PROVE  ListInv'
  <2>1. /\ Alter(v)
        /\ \A w \in DbVolumes : w # v => volumes'[w] = volumes[w] /\ runtimes'[w] = runtimes[w]
        /\ UNCHANGED <<step, nodes, list>>
    BY <1>1, <1>2 DEF DeleteVolume, SetOptions, DeleteOptions, WriteRuntime
  <2> QED BY <1>1, <2>1, ListsAreTold
<1>3. ASSUME NEW c \in Clients,
             \/ \E v \in DbVolumes : SetVolume(c, v)
             \/ LookVolume(c) \/ LookRuntime(c) \/ LookFails(c) \/ SetFails(c)
      PROVE  ListInv'
  <2>1. /\ UNCHANGED <<volumes, runtimes, nodes, list, altered>>
        /\ step[c] # "hooks"
        /\ \E s \in Steps \ {"hooks"} : step' = [step EXCEPT ![c] = s]
    BY <1>3 DEF SetVolume, LookVolume, LookRuntime, LookFails, SetFails, SetEnds, Goto, dbKeys, listing, Steps
  <2>2. \A d \in Clients : step'[d] = "hooks" <=> step[d] = "hooks"
    BY <1>1, <2>1
  <2>3. CASE DbVolumes = {}
    BY <1>1, <2>1, <2>2, <2>3 DEF ListInv
  <2>4. CASE DbVolumes # {}
    BY <1>1, <2>1, <2>2, <2>4, ListsAreTold
  <2> QED BY <2>3, <2>4
<1>4. ASSUME NEW c \in Clients, SetRuntime(c) \/ SetReturns(c)
      PROVE  ListInv'
  <2>1. /\ Alter(entity[c])
        /\ step[c] \in {"setruntime", "setvolume"}
        /\ step' = [step EXCEPT ![c] = "setvolume"] \/ step' = [step EXCEPT ![c] = "idle"]
        /\ UNCHANGED <<nodes, list>>
        /\ \A w \in DbVolumes : w # entity[c] => volumes'[w] = volumes[w] /\ runtimes'[w] = runtimes[w]
    BY <1>1, <1>4 DEF SetRuntime, SetReturns, SetEnds, WriteRuntime, Goto
  <2>2. entity[c] \in DbVolumes
    BY <2>1 DEF WholeInv, SetTypes, Setting
  <2>3. \A d \in Clients : step'[d] = "hooks" <=> step[d] = "hooks"
    BY <1>1, <2>1
  <2> QED BY <1>1, <2>1, <2>2, <2>3, ListsAreTold
<1> QED BY <1>2, <1>3, <1>4

(* The steps of a list.                                                    *)
LEMMA ListsStep ==
    ASSUME ListInv, NEW c \in Clients,
           ListBegins(c) \/ Traverse(c) \/ TraverseFails(c) \/ ListReturns(c)
    PROVE  ListInv'
<1>0. /\ volumes \in [DbVolumes -> Stored] /\ runtimes \in [DbVolumes -> Stored]
      /\ step \in [Clients -> Steps]
      /\ nodes \in [Clients -> SUBSET (DbVolumes \X Data)]
      /\ list \in [Clients -> SUBSET (DbVolumes \X Data \X Data)]
      /\ altered \in [Clients -> SUBSET DbVolumes]
  BY DEF ListInv
<1>1. UNCHANGED <<volumes, runtimes>>
  BY DEF ListBegins, Traverse, TraverseFails, ListReturns, dbKeys
<1>2. \A d \in Clients : d # c =>
        step'[d] = step[d] /\ nodes'[d] = nodes[d] /\ list'[d] = list[d] /\ altered'[d] = altered[d]
  BY <1>0 DEF ListBegins, Traverse, TraverseFails, ListReturns, Goto
<1>3. ASSUME step' \in [Clients -> Steps],
             nodes' \in [Clients -> SUBSET (DbVolumes \X Data)],
             list' \in [Clients -> SUBSET (DbVolumes \X Data \X Data)],
             altered' \in [Clients -> SUBSET DbVolumes],
             IF step'[c] = "hooks" THEN \A v \in DbVolumes \ altered'[c] : ListedOrDue(c, v)'
                                   ELSE nodes'[c] = {} /\ list'[c] = {} /\ altered'[c] = {}
      PROVE  ListInv'
  <2>1. \A d \in Clients : d # c => \A v \in DbVolumes : ListedOrDue(d, v) => ListedOrDue(d, v)'
    BY <1>1, <1>2 DEF ListedOrDue
  <2> QED BY <1>0, <1>1, <1>2, <1>3, <2>1 DEF ListInv
<1>4. CASE ListBegins(c)
  <2> DEFINE found == {<<v, volumes[v]>> : v \in {w \in DbVolumes : volumes[w] # NoKey}}
  <2>1. /\ step[c] = "idle" /\ step' = [step EXCEPT ![c] = "hooks"]
        /\ nodes' = [nodes EXCEPT ![c] = found]
        /\ UNCHANGED <<list, altered>>
    BY <1>4 DEF ListBegins, Goto
  <2>2. found \in SUBSET (DbVolumes \X Data)
    BY <1>0 DEF Stored
  <2>3. nodes' \in [Clients -> SUBSET (DbVolumes \X Data)] /\ nodes'[c] = found
    BY <1>0, <2>1, <2>2
  <2>4. step' \in [Clients -> Steps] /\ step'[c] = "hooks" /\ list'[c] = {}
    BY <1>0, <2>1 DEF ListInv, Steps
  <2>5. \A n \in found : n[2] = volumes[n[1]]
    OBVIOUS
  <2>6. \A v \in DbVolumes : volumes[v] # NoKey => <<v, volumes[v]>> \in found
    OBVIOUS
  <2> HIDE DEF found
  <2>7. \A v \in DbVolumes : ListedOrDue(c, v)'
    BY <1>1, <2>3, <2>4, <2>5, <2>6 DEF ListedOrDue
  <2> QED BY <1>0, <1>3, <2>1, <2>3, <2>4, <2>7
<1>5. CASE Traverse(c)
  <2>1. PICK n \in nodes[c] :
          /\ nodes' = [nodes EXCEPT ![c] = @ \ {n}]
          /\ list' = [list EXCEPT ![c] =
                IF runtimes[n[1]] = NoKey THEN @ ELSE @ \cup {<<n[1], n[2], runtimes[n[1]]>>}]
    BY <1>5 DEF Traverse
  <2> DEFINE read == <<n[1], n[2], runtimes[n[1]]>>
  <2>2. step[c] = "hooks" /\ UNCHANGED <<step, altered>>
    BY <1>5 DEF Traverse
  <2>3. n[1] \in DbVolumes /\ n[2] \in Data /\ n = <<n[1], n[2]>>
    BY <1>0
  <2>4. nodes'[c] = nodes[c] \ {n} /\ nodes' \in [Clients -> SUBSET (DbVolumes \X Data)]
    BY <1>0, <2>1
  <2>5. runtimes[n[1]] # NoKey => read \in DbVolumes \X Data \X Data
    BY <1>0, <2>3 DEF Stored
  <2>6. list' \in [Clients -> SUBSET (DbVolumes \X Data \X Data)]
    BY <1>0, <2>1, <2>5
  <2>7. list'[c] = IF runtimes[n[1]] = NoKey THEN list[c] ELSE list[c] \cup {read}
    BY <1>0, <2>1
  <2>8. ASSUME NEW v \in DbVolumes \ altered[c]
        PROVE  ListedOrDue(c, v)'
    <3>1. ListedOrDue(c, v)
      BY <2>2, <2>8 DEF ListInv
    <3>2. n[1] = v => n[2] = volumes[v] /\ n = <<v, volumes[v]>> /\ read = <<v, volumes[v], runtimes[v]>>
      BY <2>3, <3>1 DEF ListedOrDue
    <3>3. read[1] = n[1] /\ (n = <<v, volumes[v]>> => n[1] = v)
      BY <2>3
    <3> HIDE DEF read
    <3>4. \A e \in list'[c] : e[1] = v => e = <<v, volumes[v], runtimes[v]>>
      BY <2>7, <3>1, <3>2, <3>3 DEF ListedOrDue
    <3>5. NoKey \notin {volumes[v], runtimes[v]} =>
            <<v, volumes[v]>> \in nodes'[c] \/ <<v, volumes[v], runtimes[v]>> \in list'[c]
      BY <2>4, <2>7, <3>1, <3>2, <3>3 DEF ListedOrDue
    <3> QED BY <1>1, <2>4, <3>1, <3>4, <3>5 DEF ListedOrDue
  <2> QED BY <1>0, <1>3, <2>2, <2>4, <2>6, <2>8
<1>6. CASE TraverseFails(c)
  <2>1. PICK n \in nodes[c] :
          /\ nodes' = [nodes EXCEPT ![c] = @ \ {n}]
          /\ altered' = [altered EXCEPT ![c] = @ \cup {n[1]}]
    BY <1>6 DEF TraverseFails
  <2>2. step[c] = "hooks" /\ UNCHANGED <<step, list>>
    BY <1>6 DEF TraverseFails
  <2>3. n[1] \in DbVolumes /\ n = <<n[1], n[2]>>
    BY <1>0
  <2>4. nodes'[c] = nodes[c] \ {n} /\ nodes' \in [Clients -> SUBSET (DbVolumes \X Data)]
    BY <1>0, <2>1
  <2>5. altered'[c] = altered[c] \cup {n[1]} /\ altered' \in [Clients -> SUBSET DbVolumes]
    BY <1>0, <2>1, <2>3
  <2>6. ASSUME NEW v \in DbVolumes \ altered'[c]
        PROVE  ListedOrDue(c, v)'
    <3>1. ListedOrDue(c, v) /\ n[1] # v
      BY <2>2, <2>5, <2>6 DEF ListInv
    <3>2. n # <<v, volumes[v]>>
      BY <2>3, <3>1
    <3> QED BY <1>1, <2>2, <2>4, <3>1, <3>2 DEF ListedOrDue
  <2> QED BY <1>0, <1>3, <2>2, <2>4, <2>5, <2>6
<1>7. CASE ListReturns(c)
  BY <1>0, <1>3, <1>7 DEF ListReturns, Goto, Steps
<1> QED BY <1>4, <1>5, <1>6, <1>7

LEMMA ListInvStep == WholeInv /\ ListInv /\ [DbNext]_dbVars => ListInv'
<1> SUFFICES ASSUME WholeInv, ListInv, [DbNext]_dbVars PROVE ListInv'
  OBVIOUS
<1>1. WholeInv'
  BY WholeStep
<1>2. CASE UNCHANGED dbVars
  BY <1>2 DEF dbVars, ListInv, ListedOrDue
<1> QED BY <1>1, <1>2, SetsAreTold, ListsStep DEF DbNext

(* List and traverse: a list that returns is exact about the volumes that  *)
(* nobody changed meanwhile, for any number of volumes and of clients that *)
(* set and delete others between its gets.                                 *)
THEOREM ListIsExactHolds == DbSpec => []ListIsExact
<1>1. ListInv => ListIsExact
  <2> SUFFICES ASSUME ListInv, NEW c \in Clients, step[c] = "hooks", nodes[c] = {},
                      NEW v \in DbVolumes \ altered[c]
               PROVE  {e \in list[c] : e[1] = v} =
                         IF NoKey \in {volumes[v], runtimes[v]} THEN {}
                         ELSE {<<v, volumes[v], runtimes[v]>>}
    BY DEF ListIsExact
  <2> DEFINE entry == <<v, volumes[v], runtimes[v]>>
  <2>1. ListedOrDue(c, v)
    BY DEF ListInv
  <2>2. \A e \in list[c] : e[1] = v => e = entry
    BY <2>1 DEF ListedOrDue
  <2>3. NoKey \notin {volumes[v], runtimes[v]} => entry \in list[c]
    BY <2>1 DEF ListedOrDue
  <2>4. entry[1] = v /\ entry[2] = volumes[v] /\ entry[3] = runtimes[v]
    OBVIOUS
  <2>5. \A e \in list[c] : e[2] # NoKey /\ e[3] # NoKey
    BY DbAssumption DEF ListInv
  <2> HIDE DEF entry
  <2>6. {e \in list[c] : e[1] = v} = IF NoKey \in {volumes[v], runtimes[v]} THEN {} ELSE {entry}
    BY <2>2, <2>3, <2>4, <2>5
  <2> QED BY <2>6 DEF entry
<1> QED BY <1>1, WholeInitial, WholeStep, ListInitial, ListInvStep, PTL DEF DbSpec

--------------------------------------------------------------------------------
(* The watches. *)

LEMMA DbWatchInitial == DbWatchInit => DbWatchInv
BY DbWatchAssumption DEF DbWatchInit, DbWatchInv, DbWatchTypeOK, Watches

(* The two calls, which hold the client's mutex. *)
LEMMA CallsStep ==
    ASSUME DbWatchInv, WatchPath \/ WatchStopPath
    PROVE  DbWatchInv'
<1> USE DbWatchAssumption DEF DbWatchInv, DbWatchTypeOK, Watches, Close
<1>1. CASE WatchPath
  BY <1>1 DEF WatchPath
<1>2. CASE WatchStopPath
  BY <1>2 DEF WatchStopPath
<1> QED BY <1>1, <1>2

(* The goroutines and the callers leave the channels and the map alone.    *)
LEMMA LoopsStep ==
    ASSUME DbWatchInv, NEW w \in Watches,
           \/ CallerLeaves(w) \/ CallerReadsError(w) \/ Cancel(w)
           \/ NextReturns(w) \/ NextErrs(w) \/ NextCancelled(w) \/ Send(w) \/ Report(w)
    PROVE  DbWatchInv'
<1> USE DbWatchAssumption DEF DbWatchInv, DbWatchTypeOK, Watches
<1>1. CASE CallerLeaves(w) \/ CallerReadsError(w) \/ Cancel(w)
  BY <1>1 DEF CallerLeaves, CallerReadsError, Cancel
<1>2. CASE NextReturns(w) \/ NextErrs(w) \/ NextCancelled(w)
  BY <1>2 DEF NextReturns, NextErrs, NextCancelled, Loop
<1>3. CASE Send(w) \/ Report(w)
  BY <1>3 DEF Send, Report, Loop
<1> QED BY <1>1, <1>2, <1>3

LEMMA DbWatchStep == DbWatchInv /\ [DbWatchNext]_dbWatchVars => DbWatchInv'
<1> SUFFICES ASSUME DbWatchInv, [DbWatchNext]_dbWatchVars
             PROVE  DbWatchInv'
  OBVIOUS
<1>1. CASE UNCHANGED dbWatchVars
  BY <1>1 DEF dbWatchVars, DbWatchInv, DbWatchTypeOK
<1> QED BY <1>1, CallsStep, LoopsStep DEF DbWatchNext

(* watchPath and watchStopPath: of the watches of a path only the one in   *)
(* the map has not been told to stop, and no stop channel is closed twice. *)
THEOREM OneOpenWatchHolds == DbWatchSpec => []OneOpenWatch
<1>1. DbWatchInv => OneOpenWatch
  BY DbWatchAssumption DEF DbWatchInv, DbWatchTypeOK, OneOpenWatch, Watches
<1> QED BY <1>1, DbWatchInitial, DbWatchStep, PTL DEF DbWatchSpec

--------------------------------------------------------------------------------
(* The watch in the map lives.                                             *)

(* watchPath: the watch that the map has is alive: no error of a poll and  *)
(* no caller that has left ends it, only a stop does.                      *)
RegisteredIsAlive ==
    registered # 0 => phase[registered] \in {"poll", "send", "report"}

(* The inductive invariant: who is cancelled, or gone, was told to stop.   *)
AliveInv ==
    /\ DbWatchInv
    /\ \A w \in Watches : w \in cancelled \/ phase[w] = "gone" => closed[w] > 0

LEMMA AliveStep == AliveInv /\ [DbWatchNext]_dbWatchVars => AliveInv'
<1> SUFFICES ASSUME AliveInv, [DbWatchNext]_dbWatchVars
             PROVE  AliveInv'
  OBVIOUS
<1>0. DbWatchInv /\ DbWatchInv'
  BY DbWatchStep DEF AliveInv
<1> USE <1>0, DbWatchAssumption DEF AliveInv, DbWatchInv, DbWatchTypeOK, Watches
<1>1. CASE UNCHANGED dbWatchVars
  BY <1>1 DEF dbWatchVars
<1>2. CASE WatchPath \/ WatchStopPath
  BY <1>2 DEF WatchPath, WatchStopPath, Close
<1>3. ASSUME NEW w \in Watches, CallerLeaves(w) \/ CallerReadsError(w) \/ Cancel(w)
      PROVE  AliveInv'
  BY <1>3 DEF CallerLeaves, CallerReadsError, Cancel
<1>4. ASSUME NEW w \in Watches,
             NextReturns(w) \/ NextErrs(w) \/ NextCancelled(w) \/ Send(w) \/ Report(w)
      PROVE  AliveInv'
  BY <1>4 DEF NextReturns, NextErrs, NextCancelled, Send, Report, Loop
<1> QED BY <1>1, <1>2, <1>3, <1>4 DEF DbWatchNext

(* watchPath: however watches replace each other, callers leave and polls  *)
(* fail, the watch in the map has a goroutine that reads etcd for it.      *)
THEOREM RegisteredIsAliveHolds == DbWatchSpec => []RegisteredIsAlive
<1>1. DbWatchInit => AliveInv
  <2>1. DbWatchInit => DbWatchInv
    BY DbWatchInitial
  <2> QED BY <2>1 DEF DbWatchInit, AliveInv
<1>2. AliveInv => RegisteredIsAlive
  BY DbWatchAssumption DEF AliveInv, DbWatchInv, DbWatchTypeOK, RegisteredIsAlive, Watches
<1> QED BY <1>1, <1>2, AliveStep, PTL DEF DbWatchSpec
================================================================================
