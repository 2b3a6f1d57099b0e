--------------------------- MODULE MCConfiguration ---------------------------
(***************************************************************************)
(* The parts of the configuration, checked side by side: the policies and  *)
(* their archive, the options of volumes, the reads of volumes, a watch,   *)
(* volmigrate, and the volumes and the watches of the package db.  Each is *)
(* by itself: a behaviour is one of one part, chosen in the beginning,     *)
(* while the others rest in their initial states.                          *)
(***************************************************************************)
EXTENDS SchemaMigration, ConfigWatch, PolicyStore, VolumeReads, DbVolume, DbWatch,
        VolumeOptions

VARIABLE part

MCContents ==
    {[filesystem |-> "ext4", command |-> 1],
     [filesystem |-> "ext4", command |-> 2],
     [filesystem |-> "xfs",  command |-> 1]}

(* Every volume has a policy of its own. *)
MCPolicyOf ==
    CHOOSE f \in [Volumes -> PolicyNames] : \A v, w \in Volumes : f[v] = f[w] => v = w

(* What volumes have at first; the changes write others, too. *)
FirstValue == CHOOSE x \in Values : TRUE

vars == <<part, migVars, watchVars, policyVars, readVars, dbVars, dbWatchVars, optionVars>>

Init ==
    /\ part \in {"policy", "reads", "watch", "migrate", "volumes", "watches", "options"}
    /\ MigInit /\ WatchInit /\ PolicyInit /\ ReadsInit /\ DbInit /\ DbWatchInit
    /\ OptionsInit
    /\ part # "watch" => key = "global"
    /\ part # "reads" => dirs = {}
    /\ \A v \in Volumes : {create[v], runtime[v]} \subseteq {FirstValue, Missing}
    /\ part # "options" => request = <<>> /\ base = BasePolicy(FALSE)

PolicyStep ==
    /\ part = "policy" /\ PolicyNext
    /\ UNCHANGED <<part, migVars, watchVars, readVars, dbVars, dbWatchVars, optionVars>>

ReadsStep ==
    /\ part = "reads" /\ ReadsNext
    /\ UNCHANGED <<part, migVars, watchVars, policyVars, dbVars, dbWatchVars, optionVars>>

WatchStep ==
    /\ part = "watch" /\ WatchNext
    /\ UNCHANGED <<part, migVars, policyVars, readVars, dbVars, dbWatchVars, optionVars>>

MigStep ==
    /\ part = "migrate" /\ MigNext
    /\ UNCHANGED <<part, watchVars, policyVars, readVars, dbVars, dbWatchVars, optionVars>>

DbStep ==
    /\ part = "volumes" /\ DbNext
    /\ UNCHANGED <<part, migVars, watchVars, policyVars, readVars, dbWatchVars, optionVars>>

DbWatchStep ==
    /\ part = "watches" /\ DbWatchNext
    /\ UNCHANGED <<part, migVars, watchVars, policyVars, readVars, dbVars, optionVars>>

OptionsStep ==
    /\ part = "options" /\ OptionsNext
    /\ UNCHANGED <<part, migVars, watchVars, policyVars, readVars, dbVars, dbWatchVars>>

Next ==
    \/ PolicyStep \/ ReadsStep \/ WatchStep \/ MigStep
    \/ DbStep \/ DbWatchStep \/ OptionsStep

Spec == Init /\ [][Next]_vars /\ WatchFairness /\ DbWatchFairness
================================================================================
