------------------------------- MODULE MultiLock -------------------------------
(***************************************************************************)
(* lock.Driver's execution of a function under several use locks           *)
(* (ExecuteWithMultiUseLock, and ExecuteWithUseLock as the case of one     *)
(* lock and no retries): how the create, remove, copy and snapshot         *)
(* requests of the apiserver, of volplugin and of volsupervisor keep out   *)
(* of each other's way.                                                    *)
(*                                                                         *)
(* A client is a place a request runs in; it may serve one request after   *)
(* another.  Its locks are acquired one by one, each with retries until a  *)
(* timeout; the function runs; the locks are removed in the same order.    *)
(* When an acquisition times out the locks acquired before it are kept,    *)
(* and nothing removes them any more.                                      *)
(***************************************************************************)
EXTENDS Naturals, Sequences, FiniteSets, UseLocks

CONSTANTS
    Clients,   \* the requests that may be in progress
    Keys,      \* the lock keys: use/mount/<volume>, use/snapshot/<volume>
    Contents,  \* the possible values of the keys
    Wants,     \* Wants[c]: the sequence of keys a request of c locks
    Content,   \* Content[c][k]: what c writes to key k (hostname, reason)
    MayExist,  \* MayExist[k]: UseLocker.MayExist of k's type
    Timeout,   \* "zero", "finite" or "forever" (-1)
    Crashes,   \* whether a client's process may die
    Repeat     \* whether a client serves another request afterwards

ASSUME LockAssumption ==
    /\ Absent \notin Contents
    /\ Wants \in [Clients -> Seq(Keys)]
    /\ \A c \in Clients : Wants[c] # << >>
    /\ \A c \in Clients : \A i, j \in 1..Len(Wants[c]) : Wants[c][i] = Wants[c][j] => i = j
    /\ Content \in [Clients -> [Keys -> Contents]]
    /\ MayExist \in [Keys -> BOOLEAN]
    /\ Timeout \in {"zero", "finite", "forever"}
    /\ Crashes \in BOOLEAN
    /\ Repeat \in BOOLEAN

VARIABLES
    use,   \* use[k]: the lock at key k
    pc,    \* pc[c]: "idle", "create", "swap", "wait", "run", "release", "done",
           \*        "failed" or "dead"
    pos    \* pos[c]: the lock c is acquiring or removing

vars == <<use, pc, pos>>

(* The lock that c is working on. *)
Key(c) == Wants[c][pos[c]]
Mine(c) == Content[c][Key(c)]

Goto(c, point) == pc' = [pc EXCEPT ![c] = point]

Init ==
    /\ use = [k \in Keys |-> Free]
    /\ pc = [c \in Clients |-> "idle"]
    /\ pos = [c \in Clients |-> 1]

TypeOK ==
    /\ use \in [Keys -> Uses(Contents)]
    /\ \A k \in Keys : ~use[k].ttl
    /\ pc \in [Clients -> {"idle", "create", "swap", "wait", "run", "release", "done",
                           "failed", "dead"}]
    /\ pos \in [Clients -> Nat]
    /\ \A c \in Clients : pos[c] \in 1..Len(Wants[c])

--------------------------------------------------------------------------------
Begin(c) ==
    /\ pc[c] = "idle" \/ (Repeat /\ pc[c] \in {"done", "failed"})
    /\ Goto(c, "create")
    /\ pos' = [pos EXCEPT ![c] = 1]
    /\ UNCHANGED use

(* The lock at Key(c) is acquired: on to the next one, or to the function. *)
Acquired(c) ==
    /\ use' = [use EXCEPT ![Key(c)] = Permanent(Mine(c))]
    /\ IF pos[c] = Len(Wants[c])
       THEN Goto(c, "run") /\ UNCHANGED pos
       ELSE Goto(c, "create") /\ pos' = [pos EXCEPT ![c] = @ + 1]

(* acquire, without a TTL: PublishUse creates the key. *)
TryCreate(c) ==
    /\ pc[c] = "create"
    /\ CreateSucceeds(use[Key(c)])
    /\ Acquired(c)

(* The key exists: a UseLocker that MayExist compares and swaps, another   *)
(* one is refused.                                                         *)
CreateRefused(c) ==
    /\ pc[c] = "create"
    /\ ~CreateSucceeds(use[Key(c)])
    /\ Goto(c, IF MayExist[Key(c)] THEN "swap" ELSE "wait")
    /\ UNCHANGED <<use, pos>>

TrySwap(c) ==
    /\ pc[c] = "swap"
    /\ SwapSucceeds(use[Key(c)], Mine(c))
    /\ Acquired(c)

SwapRefused(c) ==
    /\ pc[c] = "swap"
    /\ ~SwapSucceeds(use[Key(c)], Mine(c))
    /\ Goto(c, "wait")
    /\ UNCHANGED <<use, pos>>

(* Mutant: the failure to acquire is ignored. *)
RunAnyway(c) ==
    /\ pc[c] = "wait"
    /\ Timeout # "forever"
    /\ Goto(c, "run")
    /\ UNCHANGED <<use, pos>>

(* lockWait: sleep and try again, or return LockFailed. *)
Retry(c) ==
    /\ pc[c] = "wait"
    /\ Timeout # "zero"
    /\ Goto(c, "create")
    /\ UNCHANGED <<use, pos>>

GiveUp(c) ==
    /\ pc[c] = "wait"
    /\ Timeout # "forever"
    /\ Goto(c, "failed")
    /\ UNCHANGED <<use, pos>>

(* Mutant: an error of runFunc is returned before the locks are removed. *)
ReturnsWithLocks(c) ==
    /\ pc[c] = "run"
    /\ Goto(c, "done")
    /\ UNCHANGED <<use, pos>>

(* Mutant: only the first lock is removed. *)
ReleaseFirst(c) ==
    /\ pc[c] = "release"
    /\ use' = [use EXCEPT ![Key(c)] = AfterRemove(@, Mine(c), FALSE)]
    /\ Goto(c, "done")
    /\ UNCHANGED pos

(* runFunc returns, with or without an error. *)
FunctionReturns(c) ==
    /\ pc[c] = "run"
    /\ Goto(c, "release")
    /\ pos' = [pos EXCEPT ![c] = 1]
    /\ UNCHANGED use

(* RemoveUse of the next acquired lock; a failure is only logged. *)
Release(c) ==
    /\ pc[c] = "release"
    /\ use' = [use EXCEPT ![Key(c)] = AfterRemove(@, Mine(c), FALSE)]
    /\ IF pos[c] = Len(Wants[c])
       THEN Goto(c, "done") /\ UNCHANGED pos
       ELSE UNCHANGED pc /\ pos' = [pos EXCEPT ![c] = @ + 1]

(* The process of the client dies; its locks have no TTL. *)
Crash(c) ==
    /\ Crashes
    /\ pc[c] \notin {"idle", "done", "failed", "dead"}
    /\ Goto(c, "dead")
    /\ UNCHANGED <<use, pos>>

Step(c) ==
    \/ TryCreate(c)
    \/ CreateRefused(c)
    \/ TrySwap(c)
    \/ SwapRefused(c)
    \/ Retry(c)
    \/ GiveUp(c)
    \/ FunctionReturns(c)
    \/ Release(c)

Next == \E c \in Clients : Begin(c) \/ Step(c) \/ Crash(c)

Spec == Init /\ [][Next]_vars

(* Requests that were accepted make progress: their goroutines run and the *)
(* functions return (their storage commands have timeouts).                *)
FairSpec == Spec /\ \A c \in Clients : WF_vars(Step(c))

--------------------------------------------------------------------------------
(* PROPERTIES *)

(* The positions of the locks that c has acquired for its present request  *)
(* and not removed.                                                        *)
Holding(c) ==
    {i \in 1..Len(Wants[c]) :
        \/ pc[c] \in {"create", "swap", "wait"} /\ i < pos[c]
        \/ pc[c] = "run"
        \/ pc[c] = "release" /\ i >= pos[c]}

(* While its function runs, a client has every lock it asked for: what it  *)
(* acquired first is still there when it has acquired the last, and when   *)
(* the function returns (ExecuteWithMultiUseLock's promise to runFunc).    *)
RunsUnderAllLocks ==
    \A c \in Clients : pc[c] = "run" =>
        \A i \in 1..Len(Wants[c]) : HeldBy(use[Wants[c][i]], Content[c][Wants[c][i]])

(* Two functions that need a common lock do not run at the same time: a    *)
(* removal of a volume does not overlap its creation or its being copied.  *)
RunsExclusively ==
    \A c1, c2 \in Clients :
        c1 # c2 /\ pc[c1] = "run" /\ pc[c2] = "run" =>
            \A i \in 1..Len(Wants[c1]), j \in 1..Len(Wants[c2]) :
                Wants[c1][i] # Wants[c2][j]

(* When no request is in progress no lock is left behind: a request that   *)
(* failed to get one lock has given the others back.                       *)
NothingLeftBehind ==
    (\A c \in Clients : pc[c] \in {"idle", "done", "failed"}) =>
        \A k \in Keys : use[k] = Free

(* Every request that was accepted ends, when acquire waits forever: the   *)
(* requests cannot block each other with the locks they have.              *)
EveryRequestEnds ==
    \A c \in Clients : pc[c] = "create" ~> pc[c] \in {"done", "failed", "dead"}

--------------------------------------------------------------------------------
(* The inductive invariant behind the first two properties. *)

(* No two clients write the same content to a key that MayExist, that is,  *)
(* no two requests of the same host and reason lock the same volume.       *)
DistinctContents ==
    \A c1, c2 \in Clients : \A k \in Keys :
        c1 # c2 /\ MayExist[k] => Content[c1][k] # Content[c2][k]

HeldIsWritten ==
    \A c \in Clients : \A i \in Holding(c) :
        HeldBy(use[Wants[c][i]], Content[c][Wants[c][i]])

HeldByOne ==
    \A c1, c2 \in Clients : c1 # c2 =>
        \A i \in Holding(c1), j \in Holding(c2) : Wants[c1][i] # Wants[c2][j]

SwapsMayExist == \A c \in Clients : pc[c] = "swap" => MayExist[Key(c)]

(* A lock that a request has acquired and not removed has its content, and *)
(* no other request has acquired it: acquire refuses what another holds,   *)
(* and RemoveUse compares before it deletes.                               *)
LockInv == TypeOK /\ HeldIsWritten /\ HeldByOne /\ SwapsMayExist
================================================================================
