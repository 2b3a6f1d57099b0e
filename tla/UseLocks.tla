------------------------------- MODULE UseLocks -------------------------------
(***************************************************************************)
(* A use lock of volplugin: one etcd key, use/<type>/<volume>, and the     *)
(* operations of config/use.go on it.                                      *)
(*                                                                         *)
(* The value of the key is the JSON of a UseLocker (UseMount, UseSnapshot  *)
(* or UseVolsupervisor).  Every operation compares whole values, so a value *)
(* is abstracted to an opaque content; two UseLockers with the same fields *)
(* have the same content.  A key is present or Absent, and a present key   *)
(* may carry a TTL, after which etcd deletes it unless it is set again.    *)
(*                                                                         *)
(* etcd executes each request atomically.  An operation of use.go that     *)
(* makes two requests has one operator per request: the specifications     *)
(* that use this module decide what may happen between the two.            *)
(***************************************************************************)

CONSTANT Absent    \* the key does not exist

(* The states of a key, for a set of contents. *)
Uses(Contents) == [content : Contents \cup {Absent}, ttl : BOOLEAN]

Free == [content |-> Absent, ttl |-> FALSE]

(* A key set without, and with, a TTL. *)
Permanent(c) == [content |-> c, ttl |-> FALSE]
Leased(c)    == [content |-> c, ttl |-> TRUE]

HeldBy(use, c) == use.content = c

(* Mutants: requests that do not compare before they write. *)
SwapAny(use, c) == use.content # Absent
RemoveAny(use, c, force) == use.content # Absent

(* PublishUse, first request: Set with PrevNoExist. *)
CreateSucceeds(use) == use.content = Absent

(* PublishUse, second request, made when the first one reports NodeExist   *)
(* and the UseLocker MayExist: Set with PrevExist and PrevValue.  It       *)
(* succeeds only on the caller's own content and drops the TTL.            *)
SwapSucceeds(use, c) == HeldBy(use, c)

(* PublishUseWithTTL: compare-and-swap the own content with a TTL; if the  *)
(* key does not exist, create it with a TTL.  Taken as one request: the    *)
(* creation is the only effect the second request can have, and when it    *)
(* fails nothing was changed.                                              *)
LeaseSucceeds(use, c) == use.content \in {c, Absent}

(* RemoveUse: Delete with PrevValue, or without it when forced. *)
RemoveSucceeds(use, c, force) == IF force THEN use.content # Absent ELSE HeldBy(use, c)

AfterRemove(use, c, force)    == IF RemoveSucceeds(use, c, force) THEN Free ELSE use

(* etcd deletes a key whose TTL has run out. *)
MayExpire(use) == use.ttl
================================================================================
