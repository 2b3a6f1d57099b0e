---------------------------- MODULE MultiLock_proofs ----------------------------
(***************************************************************************)
(* Theorems about MultiLock, for any requests and any lock sequences, if   *)
(* no two of them write the same content to a key that MayExist.           *)
(***************************************************************************)
EXTENDS MCMultiLock, WellFoundedInduction, TLAPS

(* What the provers need to know of the constants at each position. *)
LEMMA Positions ==
    ASSUME NEW c \in Clients
    PROVE  /\ Len(Wants[c]) \in Nat
           /\ Len(Wants[c]) >= 1
           /\ \A i \in 1..Len(Wants[c]) :
                /\ Wants[c][i] \in Keys
                /\ Content[c][Wants[c][i]] \in Contents
                /\ Content[c][Wants[c][i]] # Absent
<1>1. Wants[c] \in Seq(Keys) /\ Wants[c] # << >>
  BY LockAssumption
<1>2. \A i \in 1..Len(Wants[c]) : Wants[c][i] \in Keys
  BY <1>1
<1>3. QED
  BY <1>1, <1>2, LockAssumption

LEMMA DistinctPositions ==
    ASSUME NEW c \in Clients, NEW i \in 1..Len(Wants[c]), NEW j \in 1..Len(Wants[c]),
           Wants[c][i] = Wants[c][j]
    PROVE  i = j
BY LockAssumption

LEMMA LockInit == Init => LockInv
<1> SUFFICES ASSUME Init PROVE LockInv
  OBVIOUS
<1>1. TypeOK
  BY Positions DEF Init, TypeOK, Uses, Free
<1>2. \A c \in Clients : Holding(c) = {}
  BY DEF Init, Holding
<1>3. QED
  BY <1>1, <1>2 DEF Init, LockInv, HeldIsWritten, HeldByOne, SwapsMayExist

(* The lock that c is working on. *)
LEMMA KeyType ==
    ASSUME TypeOK, NEW c \in Clients
    PROVE  /\ pos[c] \in 1..Len(Wants[c])
           /\ Key(c) = Wants[c][pos[c]]
           /\ Key(c) \in Keys
           /\ Mine(c) = Content[c][Key(c)]
           /\ Mine(c) \in Contents
           /\ Mine(c) # Absent
BY Positions DEF TypeOK, Key, Mine

(* A lock that may be created or swapped is held by no other request. *)
LEMMA FreeForMe ==
    ASSUME LockInv, DistinctContents, NEW c \in Clients,
           TryCreate(c) \/ TrySwap(c),
           NEW d \in Clients, d # c, NEW j \in Holding(d)
    PROVE  Wants[d][j] # Key(c)
<1> SUFFICES ASSUME Wants[d][j] = Key(c) PROVE FALSE
  OBVIOUS
<1>1. j \in 1..Len(Wants[d])
  BY DEF Holding
<1>2. use[Key(c)].content = Content[d][Key(c)] /\ Content[d][Key(c)] # Absent
  BY <1>1, Positions DEF LockInv, HeldIsWritten, HeldBy
<1>3. Key(c) \in Keys
  BY KeyType DEF LockInv
<1>4. CASE TryCreate(c)
  BY <1>2, <1>4 DEF TryCreate, CreateSucceeds
<1>5. CASE TrySwap(c)
  <2>1. MayExist[Key(c)] /\ use[Key(c)].content = Content[c][Key(c)]
    BY <1>5 DEF TrySwap, LockInv, SwapsMayExist, SwapSucceeds, HeldBy, Mine
  <2>2. QED
    BY <1>2, <1>3, <2>1 DEF DistinctContents
<1>6. QED
  BY <1>4, <1>5

(* A request that acquires a lock and no other request's are disturbed. *)
LEMMA AcquireKeepsInv ==
    ASSUME LockInv, DistinctContents, NEW c \in Clients, TryCreate(c) \/ TrySwap(c)
    PROVE  LockInv'
<1> DEFINE n == Len(Wants[c])
<1>1. pc[c] \in {"create", "swap"} /\ Acquired(c)
  BY DEF TryCreate, TrySwap
<1>2. /\ use' = [use EXCEPT ![Key(c)] = Permanent(Mine(c))]
      /\ pc' = [pc EXCEPT ![c] = IF pos[c] = n THEN "run" ELSE "create"]
      /\ pos' = [pos EXCEPT ![c] = IF pos[c] = n THEN pos[c] ELSE pos[c] + 1]
  BY <1>1 DEF Acquired, Goto, LockInv, TypeOK
<1>3. TypeOK /\ n \in Nat /\ pos[c] \in 1..n /\ Key(c) \in Keys
  BY Positions, KeyType DEF LockInv
<1>4. TypeOK'
  BY <1>2, <1>3, KeyType DEF TypeOK, Uses, Permanent
<1>5. \A d \in Clients : d # c => Holding(d)' = Holding(d)
  BY <1>2, <1>3 DEF Holding, TypeOK
<1>6. \A i \in Holding(c)' : i \in Holding(c) \/ i = pos[c]
  BY <1>1, <1>2, <1>3 DEF Holding, TypeOK
<1>7. ASSUME NEW d \in Clients, NEW i \in Holding(d)'
      PROVE  HeldBy(use'[Wants[d][i]], Content[d][Wants[d][i]])
  <2>1. i \in 1..Len(Wants[d])
    BY <1>7 DEF Holding
  <2>2. Wants[d][i] \in Keys
    BY <2>1, Positions
  <2>3. CASE Wants[d][i] # Key(c)
    <3>1. i \in Holding(d)
      BY <1>5, <1>6, <1>7, <2>3, KeyType, <1>3
    <3>2. QED
      BY <1>2, <1>3, <2>2, <2>3, <3>1 DEF LockInv, HeldIsWritten, TypeOK
  <2>4. CASE Wants[d][i] = Key(c)
    <3>1. d = c
      BY <1>5, <1>7, <2>4, FreeForMe
    <3>2. QED
      BY <1>2, <1>3, <2>4, <3>1 DEF HeldBy, Permanent, Mine, TypeOK
  <2>5. QED
    BY <2>3, <2>4
<1>8. ASSUME NEW d \in Clients, d # c, NEW i \in Holding(c)', NEW j \in Holding(d)'
      PROVE  Wants[c][i] # Wants[d][j]
  <2>1. j \in Holding(d)
    BY <1>5, <1>8
  <2>2. CASE i \in Holding(c)
    BY <1>8, <2>1, <2>2 DEF LockInv, HeldByOne
  <2>3. CASE i = pos[c]
    BY <1>3, <1>8, <2>1, <2>3, FreeForMe, KeyType
  <2>4. QED
    BY <1>6, <1>8, <2>2, <2>3
<1>9. HeldByOne'
  <2> SUFFICES ASSUME NEW c1 \in Clients, NEW c2 \in Clients, c1 # c2,
                      NEW i \in Holding(c1)', NEW j \in Holding(c2)'
               PROVE  Wants[c1][i] # Wants[c2][j]
    BY DEF HeldByOne
  <2>1. CASE c1 = c
    BY <1>8, <2>1
  <2>2. CASE c2 = c
    BY <1>8, <2>2
  <2>3. CASE c1 # c /\ c2 # c
    BY <1>5, <2>3 DEF LockInv, HeldByOne
  <2>4. QED
    BY <2>1, <2>2, <2>3
<1>10. SwapsMayExist'
  BY <1>2, <1>3 DEF LockInv, SwapsMayExist, Key, TypeOK
<1>11. QED
  BY <1>4, <1>7, <1>9, <1>10 DEF LockInv, HeldIsWritten

(* A step that leaves the locks alone, and after which no request holds    *)
(* more than before, keeps the invariant.                                  *)
LEMMA NoLockKeepsInv ==
    ASSUME LockInv, TypeOK', SwapsMayExist', use' = use,
           \A d \in Clients : Holding(d)' \subseteq Holding(d)
    PROVE  LockInv'
BY DEF LockInv, HeldIsWritten, HeldByOne

(* RemoveUse of a lock of one's own disturbs no other request. *)
LEMMA ReleaseKeepsInv ==
    ASSUME LockInv, NEW c \in Clients, Release(c)
    PROVE  LockInv'
<1> DEFINE n == Len(Wants[c])
<1>1. TypeOK /\ n \in Nat /\ pos[c] \in 1..n /\ Key(c) \in Keys
  BY Positions, KeyType DEF LockInv
<1>2. /\ pc[c] = "release"
      /\ use' = [use EXCEPT ![Key(c)] = AfterRemove(use[Key(c)], Mine(c), FALSE)]
      /\ pc' = [pc EXCEPT ![c] = IF pos[c] = n THEN "done" ELSE "release"]
      /\ pos' = [pos EXCEPT ![c] = IF pos[c] = n THEN pos[c] ELSE pos[c] + 1]
  BY <1>1 DEF Release, Goto, TypeOK
<1>3. TypeOK'
  <2>1. AfterRemove(use[Key(c)], Mine(c), FALSE) \in {use[Key(c)], Free}
    BY DEF AfterRemove
  <2>2. Free \in Uses(Contents) /\ ~Free.ttl
    BY DEF Free, Uses
  <2>3. use' \in [Keys -> Uses(Contents)] /\ \A k \in Keys : ~use'[k].ttl
    BY <1>1, <1>2, <2>1, <2>2 DEF TypeOK
  <2>4. pos' \in [Clients -> Nat] /\ \A d \in Clients : pos'[d] \in 1..Len(Wants[d])
    BY <1>1, <1>2 DEF TypeOK
  <2>5. pc' \in [Clients -> {"idle", "create", "swap", "wait", "run", "release", "done",
                             "failed", "dead"}]
    BY <1>1, <1>2 DEF TypeOK
  <2>6. QED
    BY <2>3, <2>4, <2>5 DEF TypeOK
<1>4. \A d \in Clients : d # c => Holding(d)' = Holding(d)
  BY <1>1, <1>2 DEF Holding, TypeOK
<1>5. \A i \in Holding(c)' : i \in Holding(c) /\ i # pos[c]
  BY <1>1, <1>2 DEF Holding, TypeOK
<1>6. pos[c] \in Holding(c)
  BY <1>1, <1>2 DEF Holding
<1>7. ASSUME NEW d \in Clients, NEW i \in Holding(d)'
      PROVE  HeldBy(use'[Wants[d][i]], Content[d][Wants[d][i]])
  <2>1. i \in Holding(d) /\ i \in 1..Len(Wants[d])
    BY <1>4, <1>5, <1>7 DEF Holding
  <2>2. Wants[d][i] # Key(c)
    <3>1. CASE d = c
      BY <1>1, <1>5, <1>7, <2>1, <3>1, DistinctPositions, KeyType
    <3>2. CASE d # c
      BY <1>1, <1>6, <2>1, <3>2, KeyType DEF LockInv, HeldByOne
    <3>3. QED
      BY <3>1, <3>2
  <2>3. QED
    BY <1>1, <1>2, <2>1, <2>2, Positions DEF LockInv, HeldIsWritten, TypeOK
<1>8. HeldByOne'
  BY <1>4, <1>5 DEF LockInv, HeldByOne
<1>9. SwapsMayExist'
  BY <1>1, <1>2 DEF LockInv, SwapsMayExist, Key, TypeOK
<1>10. QED
  BY <1>3, <1>7, <1>8, <1>9 DEF LockInv, HeldIsWritten

(* Every step keeps the invariant. *)
LEMMA LockNext == DistinctContents /\ LockInv /\ [Next]_vars => LockInv'
<1> SUFFICES ASSUME DistinctContents, LockInv, [Next]_vars PROVE LockInv'
  OBVIOUS
<1>0. TypeOK
  BY DEF LockInv
<1>1. ASSUME NEW c \in Clients,
             \/ Begin(c) \/ CreateRefused(c) \/ SwapRefused(c) \/ Retry(c)
             \/ GiveUp(c) \/ FunctionReturns(c) \/ Crash(c)
      PROVE  LockInv'
  <2> USE <1>0, Positions
  <2>1. /\ use' = use
        /\ \E p \in {"create", "swap", "wait", "release", "failed", "dead"} :
             pc' = [pc EXCEPT ![c] = p]
        /\ pos' = pos \/ pos' = [pos EXCEPT ![c] = 1]
    BY <1>1 DEF Begin, CreateRefused, SwapRefused, Retry, GiveUp, FunctionReturns,
                Crash, Goto
  <2>2. TypeOK'
    BY <2>1 DEF TypeOK
  <2>3. SwapsMayExist'
    BY <1>1 DEF LockInv, SwapsMayExist, Key, TypeOK, Begin, CreateRefused,
                SwapRefused, Retry, GiveUp, FunctionReturns, Crash, Goto
  <2>4. \A d \in Clients : Holding(d)' \subseteq Holding(d)
    BY <1>1 DEF Holding, TypeOK, Begin, CreateRefused, SwapRefused, Retry, GiveUp,
                FunctionReturns, Crash, Goto
  <2>5. QED
    BY <2>1, <2>2, <2>3, <2>4, NoLockKeepsInv
<1>2. CASE UNCHANGED vars
  BY <1>0, <1>2, NoLockKeepsInv
     DEF vars, LockInv, TypeOK, SwapsMayExist, Key, Holding
<1>3. QED
  BY <1>1, <1>2, AcquireKeepsInv, ReleaseKeepsInv DEF Next, Step

(* The locks a request has acquired are its own until it removes them,     *)
(* whatever the other requests do: ExecuteWithMultiUseLock.                *)
THEOREM LockInvariant == ASSUME DistinctContents PROVE Spec => []LockInv
BY LockInit, LockNext, PTL DEF Spec

(* The function of a request runs under all of its locks. *)
THEOREM RunsUnderAllLocksHolds ==
    ASSUME DistinctContents PROVE Spec => []RunsUnderAllLocks
<1>1. LockInv => RunsUnderAllLocks
  BY DEF LockInv, HeldIsWritten, RunsUnderAllLocks, Holding
<1>2. QED
  BY <1>1, LockInvariant, PTL

(* No two functions that need a common lock run at once. *)
THEOREM RunsExclusivelyHolds ==
    ASSUME DistinctContents PROVE Spec => []RunsExclusively
<1>1. LockInv => RunsExclusively
  BY DEF LockInv, HeldByOne, RunsExclusively, Holding
<1>2. QED
  BY <1>1, LockInvariant, PTL

--------------------------------------------------------------------------------
(* What requests leave behind.                                             *)

(* Requests that wait for their locks as long as it takes, and whose       *)
(* processes do not die, while they have them.                             *)
Patient == DistinctContents /\ Timeout = "forever" /\ ~Crashes

(* The inductive invariant of NothingLeftBehind: a lock that is there is   *)
(* one that a request in progress has acquired and will remove.            *)
NoneLost ==
    \A k \in Keys : use[k] # Free =>
        \E c \in Clients : \E i \in Holding(c) : Wants[c][i] = k

LEMMA NoneLostNext == Patient /\ LockInv /\ NoneLost /\ [Next]_vars => NoneLost'
<1> SUFFICES ASSUME Patient, LockInv, NoneLost, [Next]_vars,
                    NEW k \in Keys, use'[k] # Free
             PROVE  \E c \in Clients : \E i \in Holding(c)' : Wants[c][i] = k
  BY DEF NoneLost
<1>0. TypeOK
  BY DEF LockInv
<1>1. ASSUME use'[k] = use[k], \A d \in Clients : Holding(d) \subseteq Holding(d)'
      PROVE  \E c \in Clients : \E i \in Holding(c)' : Wants[c][i] = k
  BY <1>1 DEF NoneLost
<1>2. ASSUME NEW c \in Clients, TryCreate(c) \/ TrySwap(c)
      PROVE  \E d \in Clients : \E i \in Holding(d)' : Wants[d][i] = k
  <2> DEFINE n == Len(Wants[c])
  <2>1. /\ pc[c] \in {"create", "swap"}
        /\ use' = [use EXCEPT ![Key(c)] = Permanent(Mine(c))]
        /\ pc' = [pc EXCEPT ![c] = IF pos[c] = n THEN "run" ELSE "create"]
        /\ pos' = [pos EXCEPT ![c] = IF pos[c] = n THEN pos[c] ELSE pos[c] + 1]
    BY <1>0, <1>2 DEF TryCreate, TrySwap, Acquired, Goto, TypeOK
  <2>2. n \in Nat /\ pos[c] \in 1..n /\ Key(c) = Wants[c][pos[c]]
    BY <1>0, Positions, KeyType
  <2>3. \A d \in Clients : Holding(d) \subseteq Holding(d)'
    BY <1>0, <2>1, <2>2 DEF Holding, TypeOK
  <2>4. pos[c] \in Holding(c)'
    BY <1>0, <2>1, <2>2 DEF Holding, TypeOK
  <2>5. CASE k = Key(c)
    BY <2>2, <2>4, <2>5
  <2>6. CASE k # Key(c)
    BY <1>0, <1>1, <2>1, <2>3, <2>6 DEF TypeOK
  <2> QED BY <2>5, <2>6
<1>3. ASSUME NEW c \in Clients, Release(c)
      PROVE  \E d \in Clients : \E i \in Holding(d)' : Wants[d][i] = k
  <2> DEFINE n == Len(Wants[c])
  <2>1. n \in Nat /\ pos[c] \in 1..n /\ Key(c) = Wants[c][pos[c]] /\ Mine(c) = Content[c][Key(c)]
    BY <1>0, Positions, KeyType
  <2>2. /\ pc[c] = "release"
        /\ use' = [use EXCEPT ![Key(c)] = AfterRemove(use[Key(c)], Mine(c), FALSE)]
        /\ pc' = [pc EXCEPT ![c] = IF pos[c] = n THEN "done" ELSE "release"]
        /\ pos' = [pos EXCEPT ![c] = IF pos[c] = n THEN pos[c] ELSE pos[c] + 1]
    BY <1>0, <1>3 DEF Release, Goto, TypeOK
  <2>3. HeldBy(use[Key(c)], Mine(c))
    BY <2>1, <2>2 DEF LockInv, HeldIsWritten, Holding
  <2>4. k # Key(c)
    BY <1>0, <2>2, <2>3 DEF AfterRemove, RemoveSucceeds, TypeOK
  <2>5. PICK d \in Clients : \E i \in Holding(d) : Wants[d][i] = k
    BY <1>0, <2>2, <2>4 DEF NoneLost, TypeOK
  <2>6. PICK i \in Holding(d) : Wants[d][i] = k
    BY <2>5
  <2>7. i \in Holding(d)'
    <3>1. CASE d = c
      BY <1>0, <2>1, <2>2, <2>4, <2>6, <3>1 DEF Holding, TypeOK
    <3>2. CASE d # c
      BY <1>0, <2>2, <2>6, <3>2 DEF Holding, TypeOK
    <3> QED BY <3>1, <3>2
  <2> QED BY <2>6, <2>7
<1>4. ASSUME NEW c \in Clients,
             \/ Begin(c) \/ CreateRefused(c) \/ SwapRefused(c) \/ Retry(c) \/ FunctionReturns(c)
      PROVE  \E d \in Clients : \E i \in Holding(d)' : Wants[d][i] = k
  <2>1. use' = use
    BY <1>4 DEF Begin, CreateRefused, SwapRefused, Retry, FunctionReturns
  <2>2. \A d \in Clients : Holding(d) \subseteq Holding(d)'
    BY <1>0, <1>4, Positions DEF Holding, TypeOK, Begin, CreateRefused, SwapRefused, Retry,
                                 FunctionReturns, Goto
  <2> QED BY <1>1, <2>1, <2>2
<1>5. \A c \in Clients : ~GiveUp(c) /\ ~Crash(c)
  BY DEF Patient, GiveUp, Crash
<1>6. CASE UNCHANGED vars
  BY <1>1, <1>6 DEF vars, Holding
<1> QED BY <1>2, <1>3, <1>4, <1>5, <1>6 DEF Next, Step

LEMMA NothingIsLeft == NoneLost => NothingLeftBehind
BY DEF NoneLost, NothingLeftBehind, Holding

(* ExecuteWithMultiUseLock: when no request is in progress no lock is      *)
(* left, if requests wait for their locks and their processes live.        *)
THEOREM NothingLeftBehindHolds == ASSUME Patient PROVE Spec => []NothingLeftBehind
<1>1. Init => NoneLost
  BY DEF Init, NoneLost
<1>2. LockInv /\ NoneLost /\ [Next]_vars => NoneLost'
  BY NoneLostNext
<1>3. Spec => []LockInv
  BY LockInvariant DEF Patient
<1> QED BY <1>1, <1>2, <1>3, NothingIsLeft, PTL DEF Spec

(* The same of the requests that are modelled together with impatient      *)
(* ones: whatever those do in their own behaviours, these leave nothing.   *)
THEOREM PatientLeaveNothingHolds == ASSUME Patient PROVE EitherSpec => []PatientLeaveNothing
<1> DEFINE Inv == ~mixed => LockInv /\ NoneLost
<1>1. EitherInit => Inv
  BY LockInit DEF EitherInit, Init, NoneLost
<1>2. Inv /\ [EitherNext]_<<vars, mixed>> => Inv'
  <2> SUFFICES ASSUME Inv, [EitherNext]_<<vars, mixed>>, ~mixed'
               PROVE  LockInv' /\ NoneLost'
    OBVIOUS
  <2>1. ~mixed /\ [Next]_vars
    BY DEF EitherNext, PatientStep, MixedStep
  <2> QED BY <2>1, LockNext, NoneLostNext DEF Patient
<1>3. Inv => PatientLeaveNothing
  BY NothingIsLeft DEF PatientLeaveNothing
<1> QED BY <1>1, <1>2, <1>3, PTL DEF EitherSpec

--------------------------------------------------------------------------------
(* Requests do not wait for each other for ever.                           *)

(* An order of the locks: every request acquires its own from those of a   *)
(* higher level down.                                                      *)
Ordered(Level) ==
    /\ Level \in [Keys -> Nat]
    /\ \A c \in Clients : \A i, j \in 1..Len(Wants[c]) :
          i < j => Level[Wants[c][j]] < Level[Wants[c][i]]

(* The requests that are after a lock: those that nothing keeps from it,   *)
(* and those that wait until another one has removed it.                   *)
Acquiring(c) == pc[c] \in {"create", "swap", "wait"}
CanGoOn(c) ==
    \/ pc[c] \in {"run", "release"}
    \/ Acquiring(c) /\ CreateSucceeds(use[Key(c)])
Blocked(c) == Acquiring(c) /\ ~CanGoOn(c)

(* While a request is blocked some request is not: it runs its function,   *)
(* removes its locks, or is after one that nobody has.                     *)
NeverDeadlocked ==
    (\E c \in Clients : Blocked(c)) => \E c \in Clients : CanGoOn(c)

(* Numbers have a least one among them. *)
LEMMA Least ==
    ASSUME NEW T, T \subseteq Nat, T # {}
    PROVE  \E x \in T : \A y \in T : x <= y
<1>1. \E x \in T : \A y \in T : <<y, x>> \notin OpToRel(<, Nat)
  BY NatLessThanWellFounded, WFMin
<1>2. PICK x \in T : \A y \in T : <<y, x>> \notin OpToRel(<, Nat)
  BY <1>1
<1>3. \A y \in T : ~(y < x)
  BY <1>2 DEF OpToRel
<1>4. x \in Nat /\ \A y \in T : y \in Nat
  OBVIOUS
<1>5. \A y \in T : x <= y
  BY <1>3, <1>4, SMT
<1> QED BY <1>5

(* A request waits for one that can go on, or for one that itself waits    *)
(* for a lock of a lower level.                                            *)
LEMMA WaitsDownward ==
    ASSUME LockInv, NoneLost, NEW Level, Ordered(Level), NEW c \in Clients, Blocked(c)
    PROVE  \E d \in Clients :
              \/ CanGoOn(d)
              \/ Blocked(d) /\ Level[Key(d)] < Level[Key(c)]
<1>1. TypeOK /\ Key(c) \in Keys
  BY KeyType DEF LockInv
<1>2. use[Key(c)] # Free
  BY DEF Blocked, CanGoOn, CreateSucceeds, Free
<1>3. PICK d \in Clients : \E i \in Holding(d) : Wants[d][i] = Key(c)
  BY <1>1, <1>2 DEF NoneLost
<1>4. PICK i \in Holding(d) : Wants[d][i] = Key(c)
  BY <1>3
<1>5. CASE pc[d] \in {"run", "release"}
  BY <1>5 DEF CanGoOn
<1>6. CASE ~(pc[d] \in {"run", "release"})
  <2>1. Acquiring(d) /\ i \in 1..Len(Wants[d]) /\ i < pos[d]
    BY <1>4, <1>6 DEF Holding, Acquiring
  <2>2. pos[d] \in 1..Len(Wants[d]) /\ Key(d) = Wants[d][pos[d]]
    BY <1>1, KeyType
  <2>3. Level[Key(d)] < Level[Key(c)]
    BY <1>4, <2>1, <2>2 DEF Ordered
  <2> QED BY <2>1, <2>3 DEF Blocked
<1> QED BY <1>5, <1>6

(* ExecuteWithMultiUseLock never comes to a state in which all requests    *)
(* wait for each other, if their locks can be ordered: this is what        *)
(* PatientRequestsEnd needs besides fairness, for any number of requests   *)
(* and locks.  Creates and removes (mount, snapshot of one volume) can     *)
(* always be ordered, and copies too as long as they do not lead from a    *)
(* volume back to it.                                                      *)
THEOREM NeverDeadlockedHolds ==
    ASSUME Patient, NEW Level, Ordered(Level) PROVE Spec => []NeverDeadlocked
<1>1. Init => NoneLost
  BY DEF Init, NoneLost
<1>2. LockInv /\ NoneLost /\ [Next]_vars => NoneLost'
  BY NoneLostNext
<1>3. Spec => []LockInv
  BY LockInvariant DEF Patient
<1>4. LockInv /\ NoneLost => NeverDeadlocked
  <2> SUFFICES ASSUME LockInv, NoneLost, NEW c \in Clients, Blocked(c)
               PROVE  \E d \in Clients : CanGoOn(d)
    BY DEF NeverDeadlocked
  <2> DEFINE Levels == {Level[Key(d)] : d \in {e \in Clients : Blocked(e)}}
  <2>1. Levels \subseteq Nat /\ Levels # {}
    <3>1. \A d \in Clients : Key(d) \in Keys
      BY KeyType DEF LockInv
    <3> QED BY <3>1 DEF Ordered
  <2>2. PICK l \in Levels : \A m \in Levels : l <= m
    <3> HIDE DEF Levels
    <3> QED BY <2>1, Least
  <2>3. PICK e \in Clients : Blocked(e) /\ l = Level[Key(e)]
    BY <2>2
  <2>4. PICK d \in Clients : CanGoOn(d) \/ (Blocked(d) /\ Level[Key(d)] < Level[Key(e)])
    BY <2>3, WaitsDownward
  <2>5. CASE Blocked(d) /\ Level[Key(d)] < Level[Key(e)]
    <3>1. Level[Key(d)] \in Levels /\ Level[Key(d)] \in Nat /\ l \in Nat
      BY <2>1, <2>2, <2>5
    <3> QED BY <2>2, <2>3, <2>5, <3>1
  <2> QED BY <2>4, <2>5
<1> QED BY <1>1, <1>2, <1>3, <1>4, PTL DEF Spec
================================================================================
