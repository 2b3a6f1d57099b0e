------------------------------- MODULE DbVolume -------------------------------
(***************************************************************************)
(* The volumes of the package db, which is to replace config: an entity    *)
(* with hooks.  A volume is a key under volumes, and its runtime options   *)
(* are an entity of their own with a key under runtime-policies.  Setting  *)
(* a volume looks whether there is one, sets the options and then the      *)
(* volume; getting one gets both; a list gets all volumes at once and then *)
(* the options of each.  None of this is a transaction.                    *)
(***************************************************************************)
EXTENDS Naturals

CONSTANTS
    DbVolumes,
    Clients,     \* the goroutines that use the package
    Data,      \* the contents of an entity
    NoKey      \* no such key

ASSUME DbAssumption == NoKey \notin Data

Stored == Data \cup {NoKey}

VARIABLES
    volumes,   \* volumes[v]: the key volumes/<v>
    runtimes,  \* runtimes[v]: the key runtime-policies/<v>
    step,      \* step[c]: what c is going to do, see Steps
    entity,    \* entity[c]: the volume that c sets
    data,      \* data[c]: its contents
    nodes,     \* nodes[c]: the volumes and contents that c has yet to traverse
    list,      \* list[c]: the entities listed
    excused,   \* history: excused[c]: the Set of c has met another one, or
               \* its look at the volume was none
    replaced,  \* history: a Set without an excuse has replaced a volume
    bare,      \* history: the volumes whose options were deleted
    altered    \* history: altered[c]: the volumes changed, or with options
               \* that etcd refused, since the list of c began

dbVars  == <<volumes, runtimes, step, entity, data, nodes, list, excused, replaced, bare, altered>>
dbKeys  == <<volumes, runtimes>>
listing == <<nodes, list, altered>>
history == <<excused, replaced, bare>>

Steps == {"idle", "look", "lookruntime", "setruntime", "setvolume", "hooks"}

Setting(c) == step[c] \notin {"idle", "hooks"}

DbInit ==
    /\ volumes = [v \in DbVolumes |-> NoKey]
    /\ runtimes = [v \in DbVolumes |-> NoKey]
    /\ step = [c \in Clients |-> "idle"]
    /\ entity = [c \in Clients |-> NoKey]
    /\ data = [c \in Clients |-> NoKey]
    /\ nodes = [c \in Clients |-> {}]
    /\ list = [c \in Clients |-> {}]
    /\ excused = [c \in Clients |-> FALSE]
    /\ replaced = FALSE
    /\ bare = {}
    /\ altered = [c \in Clients |-> {}]

DbTypeOK ==
    /\ volumes \in [DbVolumes -> Stored]
    /\ runtimes \in [DbVolumes -> Stored]
    /\ step \in [Clients -> Steps]
    /\ entity \in [Clients -> DbVolumes \cup {NoKey}]
    /\ data \in [Clients -> Stored]
    /\ nodes \in [Clients -> SUBSET (DbVolumes \X Data)]
    /\ list \in [Clients -> SUBSET (DbVolumes \X Data \X Data)]
    /\ excused \in [Clients -> BOOLEAN]
    /\ replaced \in BOOLEAN
    /\ bare \in SUBSET DbVolumes
    /\ altered \in [Clients -> SUBSET DbVolumes]

Goto(c, s) == step' = [step EXCEPT ![c] = s]

SetEnds(c) ==
    /\ Goto(c, "idle")
    /\ entity' = [entity EXCEPT ![c] = NoKey]
    /\ data' = [data EXCEPT ![c] = NoKey]
    /\ excused' = [excused EXCEPT ![c] = FALSE]

(* The changes that a list of d cannot be blamed for. *)
Alter(v) == altered' = [d \in Clients |-> IF step[d] = "hooks" THEN altered[d] \cup {v} ELSE altered[d]]

--------------------------------------------------------------------------------
(* Set.                                                                    *)

(* A valid volume is given to Set. *)
SetVolume(c, v) ==
    /\ step[c] = "idle"
    /\ Goto(c, "look")
    /\ entity' = [entity EXCEPT ![c] = v]
    /\ \E x \in Data : data' = [data EXCEPT ![c] = x]
    /\ LET others == {d \in Clients \ {c} : Setting(d) /\ entity[d] = v}
       IN  excused' = [d \in Clients |->
               CASE d = c           -> others # {}
                 [] d \in others    -> TRUE
                 [] OTHER           -> excused[d]]
    /\ UNCHANGED <<dbKeys, listing, replaced, bare>>

(* Mutant: nobody looks for the volume. *)
LookSkipped(c) ==
    /\ step[c] = "look"
    /\ Goto(c, "setruntime")
    /\ UNCHANGED <<dbKeys, entity, data, listing, history>>

(* preSetHook: Get finds no volume of this name, *)
LookVolume(c) ==
    /\ step[c] = "look"
    /\ Goto(c, IF volumes[entity[c]] = NoKey THEN "setruntime" ELSE "lookruntime")
    /\ UNCHANGED <<dbKeys, entity, data, listing, history>>

(* or finds one and its options: then it exists.  Without options Get      *)
(* fails, and the volume is set.                                           *)
LookRuntime(c) ==
    /\ step[c] = "lookruntime"
    /\ IF runtimes[entity[c]] = NoKey
       THEN /\ Goto(c, "setruntime")
            /\ excused' = [excused EXCEPT ![c] = TRUE]
            /\ UNCHANGED <<entity, data>>
       ELSE SetEnds(c)
    /\ UNCHANGED <<dbKeys, listing, replaced, bare>>

(* An error is taken for a volume that does not exist. *)
LookFails(c) ==
    /\ step[c] \in {"look", "lookruntime"}
    /\ Goto(c, "setruntime")
    /\ excused' = [excused EXCEPT ![c] = TRUE]
    /\ UNCHANGED <<dbKeys, entity, data, listing, replaced, bare>>

WriteRuntime(v, x) ==
    /\ runtimes' = [runtimes EXCEPT ![v] = x]
    /\ bare' = bare \ {v}
    /\ Alter(v)

(* Mutant: the options are set when the volume is, by a hook that follows. *)
SetRuntimeLater(c) ==
    /\ step[c] = "setruntime"
    /\ Goto(c, "setvolume")
    /\ UNCHANGED <<dbKeys, entity, data, listing, history>>

(* The hook sets the options,                                              *)
SetRuntime(c) ==
    /\ step[c] = "setruntime"
    /\ Goto(c, "setvolume")
    /\ WriteRuntime(entity[c], data[c])
    /\ UNCHANGED <<volumes, entity, data, nodes, list, excused, replaced>>

(* and Set the volume, whether or not there is one by now.                 *)
SetReturns(c) ==
    /\ step[c] = "setvolume"
    /\ volumes' = [volumes EXCEPT ![entity[c]] = data[c]]
    /\ replaced' = (replaced \/ (volumes[entity[c]] # NoKey /\ ~excused[c]))
    /\ SetEnds(c)
    /\ Alter(entity[c])
    /\ UNCHANGED <<runtimes, nodes, list, bare>>

(* etcd refuses one of the two. *)
SetFails(c) ==
    /\ step[c] \in {"setruntime", "setvolume"}
    /\ SetEnds(c)
    /\ UNCHANGED <<dbKeys, listing, replaced, bare>>

--------------------------------------------------------------------------------
(* Delete, which has no hook: the options stay.                            *)

DeleteVolume(v) ==
    /\ volumes[v] # NoKey
    /\ volumes' = [volumes EXCEPT ![v] = NoKey]
    /\ Alter(v)
    /\ UNCHANGED <<runtimes, step, entity, data, nodes, list, history>>

(* Set and Delete of runtime options by themselves. *)
SetOptions(v) ==
    /\ \E x \in Data : WriteRuntime(v, x)
    /\ UNCHANGED <<volumes, step, entity, data, nodes, list, excused, replaced>>

DeleteOptions(v) ==
    /\ runtimes[v] # NoKey
    /\ runtimes' = [runtimes EXCEPT ![v] = NoKey]
    /\ bare' = bare \cup {v}
    /\ Alter(v)
    /\ UNCHANGED <<volumes, step, entity, data, nodes, list, excused, replaced>>

--------------------------------------------------------------------------------
(* List.                                                                   *)

(* One recursive get of the volumes as they are ...                        *)
ListBegins(c) ==
    /\ step[c] = "idle"
    /\ Goto(c, "hooks")
    /\ nodes' = [nodes EXCEPT ![c] =
           {<<v, volumes[v]>> : v \in {w \in DbVolumes : volumes[w] # NoKey}}]
    /\ UNCHANGED <<dbKeys, entity, data, list, altered, history>>

(* Mutant: the first volume that cannot be read ends the list. *)
TraverseStops(c) ==
    /\ step[c] = "hooks"
    /\ \E n \in nodes[c] :
        IF runtimes[n[1]] = NoKey
        THEN nodes' = [nodes EXCEPT ![c] = {}] /\ UNCHANGED list
        ELSE /\ nodes' = [nodes EXCEPT ![c] = @ \ {n}]
             /\ list' = [list EXCEPT ![c] = @ \cup {<<n[1], n[2], runtimes[n[1]]>>}]
    /\ UNCHANGED <<dbKeys, step, entity, data, altered, history>>

(* ... and traverse gets the options of each, which replace those in the   *)
(* volume's own key; a volume that has none is left out, and the others    *)
(* stay.                                                                   *)
Traverse(c) ==
    /\ step[c] = "hooks"
    /\ \E n \in nodes[c] :
        /\ nodes' = [nodes EXCEPT ![c] = @ \ {n}]
        /\ list' = [list EXCEPT ![c] =
               IF runtimes[n[1]] = NoKey THEN @ ELSE @ \cup {<<n[1], n[2], runtimes[n[1]]>>}]
    /\ UNCHANGED <<dbKeys, step, entity, data, altered, history>>

(* The same if etcd refuses them. *)
TraverseFails(c) ==
    /\ step[c] = "hooks"
    /\ \E n \in nodes[c] :
        /\ nodes' = [nodes EXCEPT ![c] = @ \ {n}]
        /\ altered' = [altered EXCEPT ![c] = @ \cup {n[1]}]
    /\ UNCHANGED <<dbKeys, step, entity, data, list, history>>

ListReturns(c) ==
    /\ step[c] = "hooks"
    /\ nodes[c] = {}
    /\ Goto(c, "idle")
    /\ list' = [list EXCEPT ![c] = {}]
    /\ altered' = [altered EXCEPT ![c] = {}]
    /\ UNCHANGED <<dbKeys, entity, data, nodes, history>>

--------------------------------------------------------------------------------
DbNext ==
    \/ \E v \in DbVolumes : DeleteVolume(v) \/ SetOptions(v) \/ DeleteOptions(v)
    \/ \E c \in Clients :
        \/ \E v \in DbVolumes : SetVolume(c, v)
        \/ LookVolume(c) \/ LookRuntime(c) \/ LookFails(c)
        \/ SetRuntime(c) \/ SetReturns(c) \/ SetFails(c)
        \/ ListBegins(c) \/ Traverse(c) \/ TraverseFails(c) \/ ListReturns(c)

DbSpec == DbInit /\ [][DbNext]_dbVars

--------------------------------------------------------------------------------
(* PROPERTIES *)

(* Whoever sees a volume finds its options: they are set first, and stay   *)
(* when the volume is deleted.  Only a Delete of the options themselves    *)
(* leaves a volume bare, until they are set again.                         *)
VisibleIsWhole ==
    \A v \in DbVolumes : volumes[v] # NoKey /\ runtimes[v] = NoKey => v \in bare

(* Set never replaces a volume that exists, unless another Set of it runs  *)
(* at the same time or its look at the volume failed (volume_test.go       *)
(* expects the second Set of a volume to fail).                            *)
ExistingIsKept == ~replaced

(* A list that returns is exact about the volumes that nobody changed      *)
(* meanwhile and whose options etcd returned, whatever became of the       *)
(* others: it has the volume with its present contents and options if it   *)
(* has both, and no trace of it otherwise.                                 *)
ListIsExact ==
    \A c \in Clients : step[c] = "hooks" /\ nodes[c] = {} =>
        \A v \in DbVolumes \ altered[c] :
            {e \in list[c] : e[1] = v} =
                IF NoKey \in {volumes[v], runtimes[v]} THEN {}
                ELSE {<<v, volumes[v], runtimes[v]>>}
================================================================================
