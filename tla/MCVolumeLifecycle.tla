--------------------------- MODULE MCVolumeLifecycle ---------------------------
(* Instances of VolumeLifecycle for TLC: requests on one volume, each from  *)
(* a host of its own unless a run says otherwise.                          *)
EXTENDS VolumeLifecycle

VolumeKeys == {"mount", "snap", "source"}
TypeMayExist == [k \in VolumeKeys |-> k = "mount"]

(* The kind of a client is part of its name. *)
KindOf(c) == c[1]
AllKinds(clients) == [c \in clients |-> KindOf(c)]

(* A mount takes the mount lock alone, a copy its source's snapshot lock   *)
(* too.                                                                    *)
AllWants(clients) ==
    [c \in clients |->
        CASE KindOf(c) = "mount" -> <<"mount">>
          [] KindOf(c) = "copy"  -> <<"mount", "snap", "source">>
          [] OTHER               -> <<"mount", "snap">>]

(* A UseMount has the hostname and the reason, a UseSnapshot the reason.   *)
AllContent(clients) ==
    [c \in clients |->
        [k \in VolumeKeys |-> IF TypeMayExist[k] THEN <<c[2], c[1]>> ELSE <<"-", c[1]>>]]
AllContents == {"-", "h1", "h2", "h3"} \X {"create", "copy", "remove", "mount"}

(* <<kind, host>> or <<kind, host, number>>. *)
Everyone == {<<"create", "h1">>, <<"remove", "h1">>, <<"mount", "h2">>, <<"copy", "h1">>}
EveryoneWants == AllWants(Everyone)
EveryoneContent == AllContent(Everyone)
EveryoneKind == AllKinds(Everyone)

Forcers == {<<"remove", "h1">>, <<"create", "h1">>, <<"mount", "h2">>}
ForcersWants == AllWants(Forcers)
ForcersContent == AllContent(Forcers)
ForcersKind == AllKinds(Forcers)

SameHost == {<<"remove", "h1", 1>>, <<"remove", "h1", 2>>, <<"mount", "h2">>}
SameHostWants == AllWants(SameHost)
SameHostContent == AllContent(SameHost)
SameHostKind == AllKinds(SameHost)
================================================================================
