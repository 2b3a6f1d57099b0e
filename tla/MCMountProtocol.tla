---------------------------- MODULE MCMountProtocol ----------------------------
(* Instances of MountProtocol for TLC. *)
EXTENDS MountProtocol, TLC

(* Hosts, containers and refresh goroutines are interchangeable. *)
Symmetry ==
    Permutations(Hosts) \cup Permutations(Containers) \cup Permutations(Refreshers)
================================================================================
