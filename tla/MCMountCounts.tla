----------------------------- MODULE MCMountCounts -----------------------------
(* MountProtocol for a volume that is locked or unlocked: the cfg gives    *)
(* Unlocked = FALSE, Open is the same protocol for an unlocked volume.     *)
EXTENDS MountProtocol

VARIABLE unlocked   \* which of the two this behaviour is about

Open == INSTANCE MountProtocol WITH Unlocked <- TRUE, Allow <- {"host"}

EitherInit == Init /\ unlocked \in BOOLEAN

EitherNext ==
    /\ \/ ~unlocked /\ Next
       \/ unlocked /\ Open!Next
    /\ UNCHANGED unlocked

(* The fairness is that of the locked volume, the only one the liveness    *)
(* properties are about.                                                   *)
EitherSpec == EitherInit /\ [][EitherNext]_<<vars, unlocked>> /\ Fairness

(* RunningIsLeased, of the locked volume: see MountProtocol. *)
LockedIsLeased == ~unlocked => RunningIsLeased
================================================================================
