---------------------------- MODULE ExclusiveVolume ----------------------------
(***************************************************************************)
(* What volplugin promises of a locked volume: a lock that one host at a   *)
(* time owns, and that is given up only when the owner does not have the   *)
(* volume attached.  Nothing is said of how: no etcd, no requests, no      *)
(* goroutines.                                                             *)
(***************************************************************************)
CONSTANTS Hosts, NoOwner

VARIABLES
    owner,     \* the host that owns the volume, or NoOwner
    attached   \* attached[h]: host h has the volume mounted

Init ==
    /\ owner = NoOwner
    /\ attached = [h \in Hosts |-> FALSE]

Acquire(h) ==
    /\ owner = NoOwner
    /\ owner' = h
    /\ UNCHANGED attached

Attach(h) ==
    /\ owner = h
    /\ attached' = [attached EXCEPT ![h] = TRUE]
    /\ UNCHANGED owner

Detach(h) ==
    /\ attached' = [attached EXCEPT ![h] = FALSE]
    /\ UNCHANGED owner

(* Whoever gives the lock up, the owner or etcd on its behalf. *)
Release(h) ==
    /\ owner = h
    /\ ~attached[h]
    /\ owner' = NoOwner
    /\ UNCHANGED attached

Next == \E h \in Hosts : Acquire(h) \/ Attach(h) \/ Detach(h) \/ Release(h)

Spec == Init /\ [][Next]_<<owner, attached>>
================================================================================
