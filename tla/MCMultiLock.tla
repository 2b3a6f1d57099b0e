------------------------------ MODULE MCMultiLock ------------------------------
(* Instances of MultiLock for TLC: requests on two volumes, v1 and v2, each *)
(* with a mount and a snapshot lock.                                       *)
EXTENDS MultiLock

VolumeKeys == {"mount1", "snap1", "mount2", "snap2"}
TypeMayExist == [k \in VolumeKeys |-> k \in {"mount1", "mount2"}]

(* What a request writes: a UseMount has the hostname and the reason, a    *)
(* UseSnapshot the reason only.                                            *)
Written(host, reason) ==
    [k \in VolumeKeys |-> IF TypeMayExist[k] THEN <<host, reason>> ELSE <<"-", reason>>]
AllContents ==
    {"-", "h1", "h2"} \X {"Create", "Remove", "Copy"}

(* A create and a remove of v1 and a copy of v1 to v2, from two hosts. *)
MixedWants == [c \in {"create", "remove", "copy"} |->
    IF c = "copy" THEN <<"mount2", "snap2", "snap1">> ELSE <<"mount1", "snap1">>]
MixedContent == [c \in {"create", "remove", "copy"} |->
    CASE c = "create" -> Written("h1", "Create")
      [] c = "remove" -> Written("h2", "Remove")
      [] c = "copy"   -> Written("h2", "Copy")]

--------------------------------------------------------------------------------
(* The cfg's constants are those of requests that wait for their locks for *)
(* ever and come once.  Mixed is the same for requests that come again and *)
(* again, give up after a while, and die.                                  *)
VARIABLE mixed   \* which of the two this behaviour is about

Mixed == INSTANCE MultiLock WITH Timeout <- "finite", Crashes <- TRUE, Repeat <- TRUE

EitherInit == Init /\ mixed \in BOOLEAN

PatientStep == ~mixed /\ Next /\ UNCHANGED mixed
MixedStep   == mixed /\ Mixed!Next /\ UNCHANGED mixed

EitherNext == PatientStep \/ MixedStep

EitherSpec ==
    /\ EitherInit /\ [][EitherNext]_<<vars, mixed>>
    /\ \A c \in Clients : WF_vars(Step(c))

(* NothingLeftBehind, of requests that wait for their locks and do not     *)
(* die: ExecuteWithMultiUseLock gives back all that it has taken.          *)
PatientLeaveNothing == ~mixed => NothingLeftBehind

(* EveryRequestEnds, of the same: acquire in a fixed order of the locks    *)
(* does not make creates, removes and copies wait for each other for ever. *)
PatientRequestsEnd == ~mixed => EveryRequestEnds
================================================================================
