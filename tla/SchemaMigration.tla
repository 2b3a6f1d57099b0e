---------------------------- MODULE SchemaMigration ----------------------------
(***************************************************************************)
(* volmigrate: numbered migrations of the keys in etcd, and the version    *)
(* key that remembers how far they have come.  Nothing keeps operators     *)
(* from running several volmigrates at the same time, and one may be       *)
(* killed, or a migration fail, at every step.                             *)
(***************************************************************************)
EXTENDS Naturals, FiniteSets

CONSTANTS
    Runs,    \* the volmigrate processes
    Latest   \* latestMigrationVersion; 1 at this commit

(* registerMigration accepts the versions 1, 2, 3, ... in this order. *)
ASSUME MigrationAssumption == Latest \in Nat \ {0}

Versions == 1 .. Latest

VARIABLES
    version,  \* the key schema-version; 0 if there is none
    applied,  \* the migrations that have been run to their end
    mig,      \* mig[r]: "off", "run" a migration, "read" the version to
              \* compare with, or "write" the new one
    next,     \* next[r]: the migration that is next
    target    \* target[r]: the last one asked for

migVars == <<version, applied, mig, next, target>>

MigInit ==
    /\ version = 0
    /\ applied = {}
    /\ mig = [r \in Runs |-> "off"]
    /\ next = [r \in Runs |-> 1]
    /\ target = [r \in Runs |-> Latest]

MigTypeOK ==
    /\ version \in 0 .. Latest
    /\ applied \in SUBSET Versions
    /\ mig \in [Runs -> {"off", "run", "read", "write"}]
    /\ next \in [Runs -> 1 .. (Latest + 1)]
    /\ target \in [Runs -> Versions]

(* run [version]: all pending migrations, or those up to the given one.    *)
(* The version is read once, before the loop, which passes over what it    *)
(* covers; a target outside the range is refused.                          *)
RunMigrations(r) ==
    /\ mig[r] = "off"
    /\ \E t \in Versions :
        /\ target' = [target EXCEPT ![r] = t]
        /\ next' = [next EXCEPT ![r] = version + 1]
        /\ mig' = [mig EXCEPT ![r] = IF version + 1 <= t THEN "run" ELSE "off"]
    /\ UNCHANGED <<version, applied>>

(* Mutant: the version is updated before the migration is run. *)
RunnerSkipped(r) ==
    /\ mig[r] = "run"
    /\ mig' = [mig EXCEPT ![r] = "read"]
    /\ UNCHANGED <<version, applied, next, target>>

(* Migration.Run: the migration itself ... *)
Runner(r) ==
    /\ mig[r] = "run"
    /\ applied' = applied \cup {next[r]}
    /\ mig' = [mig EXCEPT ![r] = "read"]
    /\ UNCHANGED <<version, next, target>>

(* ... and UpdateSchemaVersion: the version is read again, and the process *)
(* ends if it has come as far meanwhile,                                   *)
CompareVersion(r) ==
    /\ mig[r] = "read"
    /\ mig' = [mig EXCEPT ![r] = IF next[r] <= version THEN "off" ELSE "write"]
    /\ UNCHANGED <<version, applied, next, target>>

(* before it is written. *)
UpdateSchemaVersion(r) ==
    /\ mig[r] = "write"
    /\ version' = next[r]
    /\ next' = [next EXCEPT ![r] = @ + 1]
    /\ mig' = [mig EXCEPT ![r] = IF next[r] + 1 <= target[r] THEN "run" ELSE "off"]
    /\ UNCHANGED <<applied, target>>

(* An error of the migration or of etcd, or the death of the process. *)
Aborts(r) ==
    /\ mig[r] # "off"
    /\ mig' = [mig EXCEPT ![r] = "off"]
    /\ UNCHANGED <<version, applied, next, target>>

MigNext ==
    \E r \in Runs :
        \/ RunMigrations(r) \/ Runner(r) \/ CompareVersion(r)
        \/ UpdateSchemaVersion(r) \/ Aborts(r)

MigSpec == MigInit /\ [][MigNext]_migVars

--------------------------------------------------------------------------------
(* PROPERTIES *)

(* The schema is at least what the version key says, whatever volmigrates  *)
(* overlap, fail or die: every migration up to the version has been run to *)
(* its end (backend.go: "the last migration which was successfully run").  *)
VersionIsApplied == 1 .. version \subseteq applied

(* The inductive invariant: a volmigrate that is about to run a migration  *)
(* knows that all the ones before it have been run, and one that is about  *)
(* to write a version that this one has been, too.                         *)
MigInv ==
    /\ MigTypeOK
    /\ VersionIsApplied
    /\ \A r \in Runs :
        /\ mig[r] # "off" => next[r] <= target[r] /\ 1 .. (next[r] - 1) \subseteq applied
        /\ mig[r] \in {"read", "write"} => next[r] \in applied
================================================================================
