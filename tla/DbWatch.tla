-------------------------------- MODULE DbWatch --------------------------------
(***************************************************************************)
(* The watches of db's etcd client on one path.  A watch is a goroutine    *)
(* that polls etcd and sends what it gets to its caller, who reads two     *)
(* channels; a second goroutine turns the closing of its stop channel into *)
(* a cancelled poll.  A map, under a mutex, holds the stop channel of the  *)
(* path's watch; a new watch of the path takes the place of the last.      *)
(***************************************************************************)
EXTENDS Naturals

CONSTANT MaxWatches  \* bounds the watches of the path

ASSUME DbWatchAssumption == MaxWatches \in Nat

Watches == 1 .. MaxWatches

VARIABLES
    watchCount, \* how many watches there have been
    registered, \* watchers[path]: the watch whose channel it is; 0 if none
    closed,     \* closed[w]: how often the stop channel has been closed
    cancelled,  \* the watches whose context is cancelled
    phase,      \* phase[w]: "none", "poll", "send" (to retChan), "report"
                \* (to errChan) or "gone"
    reported,   \* the watches with an error in their errChan, which is full
    deaf        \* the watches whose caller reads no more

dbWatchVars == <<watchCount, registered, closed, cancelled, phase, reported, deaf>>

DbWatchInit ==
    /\ watchCount = 0
    /\ registered = 0
    /\ closed = [w \in Watches |-> 0]
    /\ cancelled = {}
    /\ phase = [w \in Watches |-> "none"]
    /\ reported = {}
    /\ deaf = {}

DbWatchTypeOK ==
    /\ watchCount \in 0 .. MaxWatches
    /\ registered \in 0 .. watchCount
    /\ closed \in [Watches -> Nat]
    /\ cancelled \in SUBSET Watches
    /\ phase \in [Watches -> {"none", "poll", "send", "report", "gone"}]
    /\ reported \in SUBSET Watches
    /\ deaf \in SUBSET Watches

--------------------------------------------------------------------------------
(* The calls.                                                              *)

(* The channel of the watch in the map is closed. *)
Close == [w \in Watches |-> IF w = registered THEN closed[w] + 1 ELSE closed[w]]

(* watchPath: the goroutine is started, the channel of the watch before    *)
(* closed and the new one put in its place.                                *)
WatchPath ==
    /\ watchCount < MaxWatches
    /\ watchCount' = watchCount + 1
    /\ phase' = [phase EXCEPT ![watchCount + 1] = "poll"]
    /\ closed' = Close
    /\ registered' = watchCount + 1
    /\ UNCHANGED <<cancelled, reported, deaf>>

(* watchStopPath: of whatever watch the path has.  Without one it is an    *)
(* error.                                                                  *)
WatchStopPath ==
    /\ registered # 0
    /\ closed' = Close
    /\ registered' = 0
    /\ UNCHANGED <<watchCount, cancelled, phase, reported, deaf>>

(* A caller stops reading the channels. *)
CallerLeaves(w) ==
    /\ phase[w] # "none"
    /\ w \notin deaf
    /\ deaf' = deaf \cup {w}
    /\ UNCHANGED <<watchCount, registered, closed, cancelled, phase, reported>>

(* It takes the error that is waiting in the channel. *)
CallerReadsError(w) ==
    /\ w \in reported \ deaf
    /\ reported' = reported \ {w}
    /\ UNCHANGED <<watchCount, registered, closed, cancelled, phase, deaf>>

--------------------------------------------------------------------------------
(* The goroutines.                                                         *)

Cancel(w) ==
    /\ closed[w] > 0
    /\ w \notin cancelled
    /\ cancelled' = cancelled \cup {w}
    /\ UNCHANGED <<watchCount, registered, closed, phase, reported, deaf>>

Loop(w, from, to) ==
    /\ phase[w] = from
    /\ phase' = [phase EXCEPT ![w] = to]
    /\ UNCHANGED <<watchCount, registered, closed, cancelled, deaf>>

(* Next returns a change, or an error, or that it was cancelled. *)
NextReturns(w) == Loop(w, "poll", "send") /\ UNCHANGED reported
NextErrs(w)    == Loop(w, "poll", "report") /\ UNCHANGED reported

(* Mutant: a cancelled poll is an error like any other. *)
NextCancelledErrs(w) ==
    /\ w \in cancelled
    /\ Loop(w, "poll", "report")
    /\ UNCHANGED reported

NextCancelled(w) ==
    /\ w \in cancelled
    /\ Loop(w, "poll", "gone")
    /\ UNCHANGED reported

(* The send of an entity waits for the caller, *)
Send(w) ==
    /\ w \notin deaf
    /\ Loop(w, "send", "poll")
    /\ UNCHANGED reported

(* that of an error for room in the channel. *)
Report(w) ==
    /\ w \notin reported
    /\ Loop(w, "report", "poll")
    /\ reported' = reported \cup {w}

--------------------------------------------------------------------------------
DbWatchNext ==
    \/ WatchPath \/ WatchStopPath
    \/ \E w \in Watches :
        \/ CallerLeaves(w) \/ CallerReadsError(w) \/ Cancel(w)
        \/ NextReturns(w) \/ NextErrs(w) \/ NextCancelled(w) \/ Send(w) \/ Report(w)

(* Goroutines run, a caller that has not left reads, and a cancelled poll  *)
(* does not win against its cancellation for ever.                         *)
DbWatchFairness ==
    \A w \in Watches :
        /\ WF_dbWatchVars(Cancel(w))
        /\ WF_dbWatchVars(Send(w))
        /\ WF_dbWatchVars(Report(w))
        /\ WF_dbWatchVars(CallerReadsError(w))
        /\ SF_dbWatchVars(NextCancelled(w))

DbWatchSpec == DbWatchInit /\ [][DbWatchNext]_dbWatchVars /\ DbWatchFairness

--------------------------------------------------------------------------------
(* PROPERTIES *)

(* A watch that was stopped, or replaced by another, goes away, unless its *)
(* caller has stopped reading.                                             *)
StoppedWatchesEnd ==
    \A w \in Watches : closed[w] > 0 ~> phase[w] = "gone" \/ w \in deaf

(* "Only one watch for a given path may be active at a time": all but the  *)
(* one in the map have been told to stop.  None is told twice, which would *)
(* be the end of the process, as a channel that is closed may not be       *)
(* closed again.                                                           *)
OneOpenWatch ==
    \A w \in Watches :
        /\ closed[w] <= 1
        /\ phase[w] # "none" /\ closed[w] = 0 => w = registered

(* The inductive invariant of OneOpenWatch. *)
DbWatchInv ==
    /\ DbWatchTypeOK
    /\ \A w \in Watches :
        /\ closed[w] = IF w <= watchCount /\ w # registered THEN 1 ELSE 0
        /\ phase[w] = "none" <=> w > watchCount
================================================================================
