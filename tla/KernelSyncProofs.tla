--------------------------- MODULE KernelSyncProofs ---------------------------
(***************************************************************************)
(* The event flag, the semaphore and the memory of the game.               *)
(*                                                                         *)
(* An event flag for one thread has at most one waiter, and a thread that  *)
(* had to wait finds what it waited for, however many threads set, clear,  *)
(* time out and wake up: with a single waiter m_anyWaiting is the truth    *)
(* about whether there is one, so a second thread is refused before it     *)
(* waits, and whoever clears the mark is the waiter, on its way out.       *)
(*                                                                         *)
(* A semaphore's count is claimed by the threads that were notified, since *)
(* whoever takes one of it is one of these or finds it without waiting.    *)
(*                                                                         *)
(* The records of the memory are those of its mappings, although a record  *)
(* outlives its mapping and the range may be mapped anew meanwhile: the    *)
(* record that an unmapping looks for is the first that covers its         *)
(* address, as a mapping made meanwhile is recorded behind it.             *)
(***************************************************************************)
EXTENDS MCKernelSync, SequenceTheorems, FiniteSetTheorems, WellFoundedInduction,
        TLAPS

------------------------------------------------------------------------------
\* The event flag.
AtMostOne == single => \A t, u \in InWait : t = u
MarkIsTrue == single => (anyWaiting <=> InWait # {})

FlagInv == TypeOK /\ AtMostOne /\ MarkIsTrue /\ BlockedFindsPattern

------------------------------------------------------------------------------
\* At most one element is a cardinality of at most one.
LEMMA AtMostOneCounts ==
  ASSUME NEW S, \A t, u \in S : t = u
  PROVE  Cardinality(S) <= 1
<1>1. CASE S = {}
  BY <1>1, FS_EmptySet
<1>2. CASE S # {}
  <2>1. PICK t : S = {t}
    BY <1>2
  <2>2. Cardinality({t}) = 1
    BY FS_Singleton
  <2>3. QED BY <2>1, <2>2
<1>3. QED BY <1>1, <1>2

LEMMA InvImpliesSingleWaiter == FlagInv => SingleWaiter
<1> SUFFICES ASSUME FlagInv, single
             PROVE  Cardinality(InWait) <= 1 /\ (anyWaiting <=> InWait # {})
  BY DEF SingleWaiter
<1>1. Cardinality(InWait) <= 1
  BY AtMostOneCounts DEF FlagInv, AtMostOne
<1>2. QED BY <1>1 DEF FlagInv, MarkIsTrue

LEMMA PredicateSatisfies ==
  ASSUME NEW r, Predicate(r)
  PROVE  Satisfies(bitPattern, r)
BY DEF Predicate, Satisfies

\* Finish keeps the bits and what it returned in their types.
LEMMA FinishFacts ==
  ASSUME TypeOK, NEW t, NEW r \in Requests, NEW err \in {"ok", "eperm", "etimedout"},
         Finish(t, r, err), err = "ok" /\ t \in InWait => Predicate(r)
  PROVE  /\ bitPattern' \subseteq Bits /\ returned' \subseteq Returns
         /\ anyWaiting' \in BOOLEAN
         /\ anyWaiting' = (IF single /\ err # "eperm" THEN FALSE ELSE anyWaiting)
         /\ BlockedFindsPattern'
<1> DEFINE back == [request |-> r, err |-> err, found |-> bitPattern, blocked |-> t \in InWait]
<1>1. returned' = {back} /\ back \in Returns
  BY DEF Finish, Returns, TypeOK
<1>2. bitPattern' \subseteq Bits
  <2>1. r.clear \in {"nothing", "all", "pattern"}
    BY EventFlagAssumption DEF AllRequests
  <2>2. Cleared(r) \subseteq Bits
    BY <2>1 DEF Cleared, TypeOK
  <2>3. QED BY <2>2 DEF Finish, TypeOK
<1>3. BlockedFindsPattern'
  <2> SUFFICES ASSUME back.err = "ok", back.blocked
               PROVE  Satisfies(back.found, back.request)
    BY <1>1 DEF BlockedFindsPattern
  <2>1. Predicate(r)
    OBVIOUS
  <2>2. QED BY <2>1, PredicateSatisfies
<1>4. QED BY <1>1, <1>2, <1>3 DEF Finish, TypeOK

\* A step that returns nothing leaves nothing to check.
LEMMA NothingReturned ==
  ASSUME returned' = {}
  PROVE  BlockedFindsPattern' /\ returned' \subseteq Returns
BY DEF BlockedFindsPattern

LEMMA SetStep ==
  ASSUME FlagInv, NEW pattern \in Patterns, Set(pattern), UNCHANGED single
  PROVE  FlagInv'
<1>1. PICK kept \in SUBSET waiting :
        waiting' = kept /\ notified' = notified \cup (waiting \ kept)
  BY DEF Set
<1>2. InWait' = InWait
  BY <1>1 DEF InWait
<1>3. TypeOK'
  <2>1. bitPattern' \subseteq Bits
    BY EventFlagAssumption DEF Set, FlagInv, TypeOK
  <2>2. waiting' \subseteq Threads /\ notified' \subseteq Threads /\ waiting' \cap notified' = {}
    BY <1>1 DEF FlagInv, TypeOK
  <2>3. QED BY <1>2, <2>1, <2>2, NothingReturned DEF Set, FlagInv, TypeOK
<1>4. QED
  BY <1>2, <1>3, NothingReturned DEF Set, FlagInv, AtMostOne, MarkIsTrue

\* A thread in Wait() that leaves it: Resume with the predicate met, Timeout.
LEMMA LeaveStep ==
  ASSUME FlagInv, UNCHANGED single, NEW t \in InWait, NEW err \in {"ok", "etimedout"},
         Finish(t, request[t], err), err = "ok" => Predicate(request[t]),
         waiting' = waiting \ {t}, notified' = notified \ {t},
         request' = Restrict(request, InWait \ {t})
  PROVE  FlagInv'
<1>1. InWait' = InWait \ {t} /\ request[t] \in Requests
  BY DEF InWait, FlagInv, TypeOK
<1>2. /\ bitPattern' \subseteq Bits /\ returned' \subseteq Returns
      /\ anyWaiting' \in BOOLEAN
      /\ anyWaiting' = (IF single THEN FALSE ELSE anyWaiting)
      /\ BlockedFindsPattern'
  BY <1>1, FinishFacts DEF FlagInv
<1>3. request' \in [InWait' -> Requests]
  BY <1>1 DEF Restrict, FlagInv, TypeOK
<1>4. TypeOK'
  BY <1>2, <1>3 DEF FlagInv, TypeOK
<1>5. AtMostOne' /\ MarkIsTrue'
  BY <1>1, <1>2 DEF FlagInv, AtMostOne, MarkIsTrue
<1>6. QED BY <1>2, <1>4, <1>5 DEF FlagInv

\* A thread moves between waiting and notified.
LEMMA MoveStep ==
  ASSUME FlagInv, UNCHANGED <<single, bitPattern, anyWaiting, request>>, returned' = {},
         InWait' = InWait, waiting' \cap notified' = {}
  PROVE  FlagInv'
<1>1. waiting' \subseteq Threads /\ notified' \subseteq Threads
  BY DEF InWait, FlagInv, TypeOK
<1>2. TypeOK'
  BY <1>1, NothingReturned DEF FlagInv, TypeOK
<1>3. QED BY <1>2, NothingReturned DEF FlagInv, AtMostOne, MarkIsTrue

LEMMA WaitStep ==
  ASSUME FlagInv, UNCHANGED single, NEW t \in Threads, NEW r \in Requests, Wait(t, r)
  PROVE  FlagInv'
<1>1. t \notin InWait /\ notified' = notified
  BY DEF Wait
<1>2. ASSUME NEW err \in {"ok", "eperm"}, Finish(t, r, err), UNCHANGED <<waiting, request>>,
             err = "eperm" <=> single /\ anyWaiting
      PROVE  FlagInv'
  <2>1. InWait' = InWait
    BY <1>1, <1>2 DEF InWait
  <2>2. /\ bitPattern' \subseteq Bits /\ returned' \subseteq Returns
        /\ anyWaiting' \in BOOLEAN
        /\ anyWaiting' = (IF single /\ err # "eperm" THEN FALSE ELSE anyWaiting)
        /\ BlockedFindsPattern'
    BY <1>1, <1>2, FinishFacts DEF FlagInv
  <2>3. TypeOK'
    BY <1>1, <1>2, <2>1, <2>2 DEF FlagInv, TypeOK
  <2>4. AtMostOne' /\ MarkIsTrue'
    BY <1>2, <2>1, <2>2 DEF FlagInv, AtMostOne, MarkIsTrue, TypeOK
  <2>5. QED BY <2>2, <2>3, <2>4 DEF FlagInv
<1>3. CASE /\ ~(single /\ anyWaiting)
           /\ waiting' = waiting \cup {t} /\ anyWaiting' = single
           /\ request' = [u \in InWait \cup {t} |-> IF u = t THEN r ELSE request[u]] /\ returned' = {} /\ bitPattern' = bitPattern
  <2>1. InWait' = InWait \cup {t} /\ t \notin notified
    BY <1>1, <1>3 DEF InWait
  <2>2. request' \in [InWait' -> Requests]
    BY <1>1, <1>3, <2>1 DEF FlagInv, TypeOK
  <2>3. TypeOK'
    BY <1>1, <1>3, <2>1, <2>2, NothingReturned DEF FlagInv, TypeOK
  <2>4. single => InWait = {}
    BY <1>3 DEF FlagInv, MarkIsTrue, TypeOK
  <2>5. AtMostOne' /\ MarkIsTrue'
    BY <1>3, <2>1, <2>4 DEF AtMostOne, MarkIsTrue
  <2>6. QED BY <1>3, <2>3, <2>5, NothingReturned DEF FlagInv
<1>4. CASE single /\ anyWaiting /\ Finish(t, r, "eperm") /\ UNCHANGED <<waiting, request>>
  BY <1>2, <1>4
<1>5. CASE ~(single /\ anyWaiting) /\ Finish(t, r, "ok") /\ UNCHANGED <<waiting, request>>
  BY <1>2, <1>5
<1>6. QED BY <1>3, <1>4, <1>5 DEF Wait

LEMMA ResumeStep ==
  ASSUME FlagInv, UNCHANGED single, NEW t \in Threads, Resume(t)
  PROVE  FlagInv'
<1>1. t \in InWait /\ t \in notified /\ t \notin waiting /\ notified' = notified \ {t}
  BY DEF Resume, InWait, FlagInv, TypeOK
<1>2. CASE /\ Predicate(request[t]) /\ Finish(t, request[t], "ok")
           /\ request' = Restrict(request, InWait \ {t}) /\ UNCHANGED waiting
  <2>1. waiting' = waiting \ {t}
    BY <1>1, <1>2
  <2>2. QED BY <1>1, <1>2, <2>1, LeaveStep
<1>3. CASE /\ waiting' = waiting \cup {t} /\ returned' = {}
           /\ UNCHANGED <<bitPattern, anyWaiting, request>>
  <2>1. InWait' = InWait /\ waiting' \cap notified' = {}
    BY <1>1, <1>3 DEF InWait, FlagInv, TypeOK
  <2>2. QED BY <1>3, <2>1, MoveStep
<1>4. QED BY <1>2, <1>3 DEF Resume

LEMMA TimeoutStep ==
  ASSUME FlagInv, UNCHANGED single, NEW t \in Threads, Timeout(t)
  PROVE  FlagInv'
<1> DEFINE err == IF Predicate(request[t]) THEN "ok" ELSE "etimedout"
<1>1. err \in {"ok", "etimedout"} /\ (err = "ok" => Predicate(request[t]))
  OBVIOUS
<1>2. QED BY <1>1, LeaveStep DEF Timeout

LEMMA WakeStep ==
  ASSUME FlagInv, UNCHANGED single, NEW t \in Threads, WakeSpuriously(t)
  PROVE  FlagInv'
<1>1. InWait' = InWait /\ waiting' \cap notified' = {}
  BY DEF WakeSpuriously, InWait, FlagInv, TypeOK
<1>2. QED BY <1>1, MoveStep DEF WakeSpuriously

LEMMA FlagStep == FlagInv /\ [Next]_vars => FlagInv'
<1> SUFFICES ASSUME FlagInv, [Next]_vars PROVE FlagInv'
  OBVIOUS
<1>1. CASE Next
  BY <1>1, SetStep, WaitStep, ResumeStep, TimeoutStep, WakeStep DEF Next
<1>2. CASE UNCHANGED vars
  BY <1>2 DEF vars, FlagInv, TypeOK, InWait, AtMostOne, MarkIsTrue, BlockedFindsPattern
<1>3. QED BY <1>1, <1>2

LEMMA FlagStart == Init => FlagInv
<1> SUFFICES ASSUME Init PROVE FlagInv
  OBVIOUS
<1>1. InWait = {} /\ returned = {} /\ anyWaiting = FALSE
  BY DEF Init, InWait
<1>2. request \in [InWait -> Requests]
  BY <1>1 DEF Init
<1>3. TypeOK
  BY <1>1, <1>2 DEF Init, TypeOK
<1>4. QED BY <1>1, <1>3 DEF FlagInv, AtMostOne, MarkIsTrue, BlockedFindsPattern

\* The invariant of the flag, for any threads, bits, patterns and waits.
THEOREM FlagInvariant == Spec => []FlagInv
<1>1. QED BY FlagStart, FlagStep, PTL DEF Spec

\* A flag for one thread has at most one thread in Wait(), and m_anyWaiting says
\* whether it has (SceEventFlag.cpp, Wait).
THEOREM FlagHasSingleWaiter == Spec => []SingleWaiter
<1>1. QED BY FlagInvariant, InvImpliesSingleWaiter, PTL

\* A thread that had to wait and returns OK found its pattern, whatever other
\* threads cleared between its notification and its return.
THEOREM FlagBlockedFindsPattern == Spec => []BlockedFindsPattern
<1>1. FlagInv => BlockedFindsPattern
  BY DEF FlagInv
<1>2. QED BY <1>1, FlagInvariant, PTL

------------------------------------------------------------------------------
\* The semaphore.
OneAtATime == Signals \subseteq {1} /\ Needs \subseteq {1}

LEMMA CountsMove ==
  ASSUME NEW S, NEW x, IsFiniteSet(S)
  PROVE  /\ Cardinality(S) \in Nat
         /\ x \notin S => Cardinality(S \cup {x}) = Cardinality(S) + 1
         /\ x \in S => Cardinality(S \ {x}) = Cardinality(S) - 1
         /\ x \notin S => S \ {x} = S
BY FS_CardinalityType, FS_AddElement, FS_RemoveElement

LEMMA LeaveTypes ==
  ASSUME SemaTypeOK, NEW t, Leave(t), count' \in 0 .. MaxCount
  PROVE  SemaTypeOK'
<1>1. InSemaWait' = InSemaWait \ {t}
  BY DEF Leave, InSemaWait
<1>2. need' \in [InSemaWait' -> Needs \cap (1 .. MaxCount)]
  BY <1>1 DEF Leave, Restrict, SemaTypeOK
<1> QED BY <1>1, <1>2 DEF Leave, SemaTypeOK

\* A thread moves between sleeping and woken.
LEMMA MoveTypes ==
  ASSUME SemaTypeOK, InSemaWait' = InSemaWait, sleeping' \cap woken' = {},
         UNCHANGED <<need, timed>>, count' \in 0 .. MaxCount
  PROVE  SemaTypeOK'
<1>1. sleeping' \subseteq Waiters /\ woken' \subseteq Waiters
  BY DEF InSemaWait, SemaTypeOK
<1> QED BY <1>1 DEF SemaTypeOK

\* The count that a thread in Wait() takes, and the one that is left.
LEMMA TakenTypes ==
  ASSUME SemaTypeOK, NEW t \in InSemaWait
  PROVE  /\ need[t] \in Needs \cap (1 .. MaxCount) /\ count \in Nat
         /\ count >= need[t] => count - need[t] \in 0 .. MaxCount
BY SemaphoreAssumption DEF SemaTypeOK

LEMMA SemaTypesKept == SemaTypeOK /\ [SemaNext]_semaVars => SemaTypeOK'
<1> SUFFICES ASSUME SemaTypeOK, [SemaNext]_semaVars PROVE SemaTypeOK'
  OBVIOUS
<1> USE SemaphoreAssumption
<1>1. ASSUME NEW n \in Signals, Signal(n) PROVE SemaTypeOK'
  <2>1. count' \in 0 .. MaxCount /\ UNCHANGED <<need, timed>>
    BY <1>1 DEF Signal, SemaTypeOK
  <2>2. InSemaWait' = InSemaWait /\ sleeping' \cap woken' = {}
    BY <1>1 DEF Signal, NotifySleeper, InSemaWait, SemaTypeOK
  <2> QED BY <2>1, <2>2, MoveTypes
<1>2. ASSUME NEW t \in Waiters, NEW n \in Needs, NEW isTimed \in BOOLEAN, SemaWait(t, n, isTimed)
      PROVE  SemaTypeOK'
  <2>1. CASE count' = count - n /\ count >= n /\ UNCHANGED <<sleeping, woken, need, timed>>
    <3>1. count' \in 0 .. MaxCount
      BY <2>1 DEF SemaTypeOK
    <3> QED BY <2>1, <3>1 DEF SemaTypeOK, InSemaWait
  <2>2. CASE /\ sleeping' = sleeping \cup {t}
             /\ need' = [u \in InSemaWait \cup {t} |-> IF u = t THEN n ELSE need[u]]
             /\ timed' = IF isTimed THEN timed \cup {t} ELSE timed
             /\ UNCHANGED <<count, woken>>
    <3>1. t \notin InSemaWait /\ n \in 1 .. MaxCount
      BY <1>2 DEF SemaWait
    <3>2. InSemaWait' = InSemaWait \cup {t}
      BY <2>2 DEF InSemaWait
    <3>3. need' \in [InSemaWait' -> Needs \cap (1 .. MaxCount)]
      BY <2>2, <3>1, <3>2 DEF SemaTypeOK
    <3>4. timed' \subseteq InSemaWait'
      BY <2>2, <3>2 DEF SemaTypeOK
    <3>5. sleeping' \cap woken' = {} /\ sleeping' \subseteq Waiters /\ woken' \subseteq Waiters
      BY <2>2, <3>1 DEF InSemaWait, SemaTypeOK
    <3> QED BY <2>2, <3>3, <3>4, <3>5 DEF SemaTypeOK
  <2> QED BY <1>2, <2>1, <2>2 DEF SemaWait
<1>3. ASSUME NEW t \in Waiters, SemaResume(t) PROVE SemaTypeOK'
  <2>1. t \in InSemaWait
    BY <1>3 DEF SemaResume, InSemaWait
  <2>2. CASE count >= need[t] /\ count' = count - need[t] /\ Leave(t)
    BY <2>1, <2>2, TakenTypes, LeaveTypes
  <2>3. CASE /\ sleeping' = sleeping \cup {t} /\ woken' = woken \ {t}
             /\ UNCHANGED <<count, need, timed>>
    <3>1. InSemaWait' = InSemaWait /\ sleeping' \cap woken' = {}
      BY <1>3, <2>3 DEF SemaResume, InSemaWait, SemaTypeOK
    <3> QED BY <2>3, <3>1, MoveTypes DEF SemaTypeOK
  <2> QED BY <1>3, <2>2, <2>3 DEF SemaResume
<1>4. ASSUME NEW t \in Waiters, SemaTimeout(t) PROVE SemaTypeOK'
  <2>1. t \in InSemaWait
    BY <1>4 DEF SemaTimeout, SemaTypeOK
  <2>2. count' \in 0 .. MaxCount
    BY <1>4, <2>1, TakenTypes DEF SemaTimeout, SemaTypeOK
  <2> QED BY <1>4, <2>2, LeaveTypes DEF SemaTimeout
<1>5. ASSUME NEW t \in Waiters, SemaWakeSpuriously(t) PROVE SemaTypeOK'
  <2>1. InSemaWait' = InSemaWait /\ sleeping' \cap woken' = {}
    BY <1>5 DEF SemaWakeSpuriously, InSemaWait, SemaTypeOK
  <2> QED BY <1>5, <2>1, MoveTypes DEF SemaWakeSpuriously, SemaTypeOK
<1>6. CASE UNCHANGED semaVars
  BY <1>6 DEF semaVars, SemaTypeOK, InSemaWait
<1> QED BY <1>1, <1>2, <1>3, <1>4, <1>5, <1>6 DEF SemaNext

LEMMA SemaTypesFirst == SemaInit => SemaTypeOK
BY SemaphoreAssumption DEF SemaInit, SemaTypeOK, InSemaWait

\* Who takes one of the count is woken, or found it without waiting.
LEMMA ClaimKept ==
  ASSUME SemaTypeOK, CountIsClaimed, OneAtATime, [SemaNext]_semaVars
  PROVE  CountIsClaimed'
<1>1. IsFiniteSet(woken) /\ count \in Nat
  <2>1. woken \in SUBSET Waiters
    BY DEF SemaTypeOK
  <2> QED BY <2>1, FS_Subset, SemaphoreAssumption DEF SemaTypeOK
<1>2. Cardinality(woken) \in Nat
  BY <1>1, FS_CardinalityType
<1>3. ASSUME NEW n \in Signals, Signal(n) PROVE CountIsClaimed'
  <2>1. count' = count + 1
    BY <1>3 DEF Signal, OneAtATime
  <2>2. CASE sleeping = {} /\ UNCHANGED <<sleeping, woken>>
    BY <2>2 DEF CountIsClaimed
  <2>3. ASSUME NEW t \in sleeping, sleeping' = sleeping \ {t}, woken' = woken \cup {t}
        PROVE  CountIsClaimed'
    <3>1. t \notin woken
      BY <2>3 DEF SemaTypeOK
    <3>2. Cardinality(woken') = Cardinality(woken) + 1
      BY <1>1, <2>3, <3>1, CountsMove
    <3> QED BY <1>1, <1>2, <2>1, <2>3, <3>2 DEF CountIsClaimed
  <2> QED BY <1>3, <2>2, <2>3 DEF Signal, NotifySleeper
<1>4. ASSUME NEW t \in Waiters, NEW n \in Needs, NEW isTimed \in BOOLEAN, SemaWait(t, n, isTimed)
      PROVE  CountIsClaimed'
  <2>1. n = 1 /\ woken' = woken
    BY <1>4 DEF SemaWait, OneAtATime
  <2>2. CASE count' = count - n /\ UNCHANGED sleeping
    BY <1>1, <1>2, <2>1, <2>2 DEF CountIsClaimed
  <2>3. CASE count < n /\ UNCHANGED count
    BY <1>1, <1>2, <2>1, <2>3 DEF CountIsClaimed
  <2> QED BY <1>4, <2>2, <2>3 DEF SemaWait
\* One fewer is woken, and one fewer is left unless none is.
<1>5. ASSUME NEW t \in InSemaWait, sleeping' \subseteq sleeping, woken' = woken \ {t},
             count' = IF count >= 1 THEN count - 1 ELSE count
      PROVE  CountIsClaimed'
  <2>1. Cardinality(woken') \in Nat /\ Cardinality(woken') >= Cardinality(woken) - 1
    <3>1. IsFiniteSet(woken \ {t})
      BY <1>1, FS_RemoveElement
    <3>2. Cardinality(woken \ {t}) \in Nat
      BY <3>1, FS_CardinalityType
    <3>3. \/ Cardinality(woken \ {t}) = Cardinality(woken) - 1
          \/ Cardinality(woken \ {t}) = Cardinality(woken)
      BY <1>1, CountsMove
    <3> QED BY <1>2, <1>5, <3>2, <3>3
  <2>2. count' <= 0 \/ (count' = count - 1 /\ count' \in Nat)
    BY <1>1, <1>5
  <2> QED BY <1>1, <1>2, <1>5, <2>1, <2>2 DEF CountIsClaimed
<1>6. ASSUME NEW t \in Waiters, SemaResume(t) PROVE CountIsClaimed'
  <2>1. t \in woken /\ t \in InSemaWait /\ t \notin sleeping /\ need[t] = 1
    BY <1>6, TakenTypes DEF SemaResume, InSemaWait, SemaTypeOK, OneAtATime
  <2>2. CASE count >= need[t] /\ count' = count - need[t] /\ Leave(t)
    BY <1>5, <2>1, <2>2 DEF Leave
  <2>3. CASE count < need[t] /\ UNCHANGED count /\ woken' = woken \ {t}
    <3>1. count' = 0 /\ Cardinality(woken') \in Nat
      BY <1>1, <2>1, <2>3, CountsMove, FS_RemoveElement, FS_CardinalityType
    <3> QED BY <3>1 DEF CountIsClaimed
  <2> QED BY <1>6, <2>2, <2>3 DEF SemaResume
<1>7. ASSUME NEW t \in Waiters, SemaTimeout(t) PROVE CountIsClaimed'
  <2>1. t \in InSemaWait /\ need[t] = 1
    BY <1>7, TakenTypes DEF SemaTimeout, SemaTypeOK, OneAtATime
  <2> QED BY <1>5, <1>7, <2>1 DEF SemaTimeout, Leave
<1>8. ASSUME NEW t \in Waiters, SemaWakeSpuriously(t) PROVE CountIsClaimed'
  <2>1. /\ t \notin woken /\ sleeping' \subseteq sleeping
        /\ woken' = woken \cup {t} /\ count' = count
    BY <1>8 DEF SemaWakeSpuriously, SemaTypeOK
  <2>2. Cardinality(woken') = Cardinality(woken) + 1
    BY <1>1, <2>1, CountsMove
  <2> QED BY <1>1, <1>2, <2>1, <2>2 DEF CountIsClaimed
<1>9. CASE UNCHANGED semaVars
  BY <1>9 DEF semaVars, CountIsClaimed
<1> QED BY <1>3, <1>4, <1>6, <1>7, <1>8, <1>9 DEF SemaNext

\* The count stays between 0 and its maximum, and a thread in Wait() is either
\* on the condition variable or on its way from it (SceSemaphore.cpp).
THEOREM SemaphoreTypes == SemaSpec => []SemaTypeOK
BY SemaTypesFirst, SemaTypesKept, PTL DEF SemaSpec

\* While a thread sleeps, what can be taken is on its way to the woken ones, of
\* a semaphore that is signalled and waited for by one at a time (Signal, Wait).
THEOREM SemaphoreCountIsClaimed ==
  ASSUME OneAtATime
  PROVE  SemaSpec => []CountIsClaimed
<1>1. SemaInit => CountIsClaimed
  BY DEF SemaInit, CountIsClaimed
<1>2. SemaTypeOK /\ CountIsClaimed /\ [SemaNext]_semaVars => CountIsClaimed'
  BY ClaimKept
<1> QED BY <1>1, <1>2, SemaphoreTypes, PTL DEF SemaSpec

------------------------------------------------------------------------------
\* The memory of the game.
Making == At("record") \cup At("append")
\* Where a record stands in a list, and how often it is in the emulator's.
Places(s, b) == {i \in 1 .. Len(s) : s[i] = b}
Count(b) == Cardinality(Places(blocks, b))
CountRecorded(b) == Cardinality({m \in Recorded : RecordOf(m) = b})

WholeSize == \A m \in mapped : m.start + m.size <= m.end

MakersApart ==
  \A t, u \in Making :
    /\ doing[t].mapping \in mapped
    /\ doing[t].mapping = doing[u].mapping => t = u

OneUnmaps == \A t, u \in Unmapping : t = u

FindsItsRecord ==
  \A t \in At("lookup") : \E i \in DOMAIN blocks :
    /\ blocks[i] = RecordOf(doing[t].mapping)
    /\ \A j \in 1..i - 1 : ~Covers(blocks[j], doing[t].mapping.start)

ErasesItsRecord ==
  \A t \in At("erase") : doing[t].block = RecordOf(doing[t].unmapping.mapping)

Balanced == \A b \in Records : Count(b) = Cardinality(Leaving(b)) + CountRecorded(b)

WhileApart == OneUnmaps /\ FindsItsRecord /\ ErasesItsRecord /\ Balanced

MemoryInv == MemoryTypeOK /\ WholeSize /\ MakersApart /\ (~raced => WhileApart)

LEMMA LeastNat ==
  ASSUME NEW T \in SUBSET Nat, T # {}
  PROVE  \E x \in T : \A y \in T : x <= y
<1>1. PICK x \in T : \A y \in T : ~(<<y, x>> \in OpToRel(<, Nat))
  BY NatLessThanWellFounded, WFMin
<1>2. ASSUME NEW y \in T PROVE x <= y
  <2>1. ~(y < x)
    BY <1>1 DEF OpToRel
  <2> QED BY <2>1
<1> QED BY <1>2

LEMMA DoingTypes ==
  ASSUME MemoryTypeOK, NEW t \in Mappers
  PROVE  /\ doing[t].at \in {"idle", "search", "allocate", "record", "append", "lookup", "erase"}
         /\ doing[t].at = "search" => doing[t] \in Searches
         /\ doing[t].at = "allocate" => doing[t].region \in Nat /\ doing[t].search \in Searches
         /\ doing[t].at \in {"record", "append"} =>
              /\ doing[t].mapping \in HostMappings
              /\ doing[t] = [at |-> doing[t].at, mapping |-> doing[t].mapping]
         /\ doing[t].at = "lookup" => doing[t] \in Lookups
         /\ doing[t].at = "erase" =>
              doing[t].block \in Records /\ doing[t].unmapping \in Lookups
BY DEF MemoryTypeOK, Doings, Idle, Searches, Lookups

LEMMA GotoAt ==
  ASSUME MemoryTypeOK, NEW t \in Mappers, NEW d \in Doings, Goto(t, d)
  PROVE  /\ ~raced
         /\ doing'[t] = d /\ \A u \in Mappers \ {t} : doing'[u] = doing[u]
         /\ doing' \in [Mappers -> Doings]
BY DEF MemoryTypeOK, Goto

\* The points of the threads after a step of one of them.
LEMMA GotoPoints ==
  ASSUME NEW t \in Mappers, \A u \in Mappers \ {t} : doing'[u] = doing[u], NEW point
  PROVE  At(point)' = IF doing'[t].at = point THEN At(point) \cup {t} ELSE At(point) \ {t}
BY DEF At

LEMMA AreaBounds ==
  /\ HostEnd \in Nat /\ SysStart \in 0 .. HostEnd /\ SysEnd \in 0 .. HostEnd
  /\ AppStart \in 0 .. HostEnd /\ AppEnd \in 0 .. HostEnd
  /\ Granule \in Nat \ {0} /\ Sizes \subseteq Nat \ {0} /\ Alignments \subseteq Nat \ {0}
BY MemoryAssumption

LEMMA RegionEndType ==
  ASSUME MemoryTypeOK, NEW a \in 0 .. HostEnd, a < HostEnd
  PROVE  RegionEnd(a) \in 0 .. HostEnd
<1>1. HostEnd \in Nat
  BY AreaBounds
<1>2. CASE Occupied(a)
  <2> DEFINE m == CHOOSE m \in mapped : m.start <= a /\ a < m.end
  <2>1. m \in mapped
    BY <1>2 DEF Occupied
  <2>2. RegionEnd(a) = m.end
    BY <1>2 DEF RegionEnd
  <2> QED BY <1>1, <2>1, <2>2 DEF MemoryTypeOK, HostMappings
<1>3. CASE ~Occupied(a)
  <2> DEFINE T == {e \in a + 1 .. HostEnd : e = HostEnd \/ Occupied(e)}
             Fits(e) == (\A b \in a .. e - 1 : ~Occupied(b)) /\ (e = HostEnd \/ Occupied(e))
  <2>1. HostEnd \in T /\ T \in SUBSET Nat
    BY <1>1
  <2>2. PICK e \in T : \A f \in T : e <= f
    BY <2>1, LeastNat
  <2>3. ASSUME NEW b \in a .. e - 1 PROVE ~Occupied(b)
    <3>1. b \in Nat /\ b < e /\ (b = a \/ b \in a + 1 .. HostEnd)
      BY <1>1, <2>1, <2>2
    <3>2. b \notin T
      BY <2>1, <2>2, <3>1
    <3> QED BY <1>3, <3>1, <3>2
  <2>4. e \in a + 1 .. HostEnd /\ Fits(e)
    BY <2>2, <2>3
  <2>5. RegionEnd(a) = CHOOSE f \in a + 1 .. HostEnd : Fits(f)
    BY <1>3 DEF RegionEnd
  <2>6. RegionEnd(a) \in a + 1 .. HostEnd
    BY <2>4, <2>5
  <2> QED BY <1>1, <2>6
<1> QED BY <1>2, <1>3

LEMMA AlignUpType ==
  ASSUME NEW a \in Nat, NEW alignment \in Nat \ {0}
  PROVE  AlignUp(a, alignment) \in Nat
<1>1. a + alignment - 1 \in Nat
  OBVIOUS
<1>2. (a + alignment - 1) \div alignment \in Nat
  BY <1>1
<1> QED BY <1>2 DEF AlignUp

\* A mapping of the host lies in a free region, and holds the size asked for.
LEMMA NewMapping ==
  ASSUME MemoryTypeOK, WholeSize, NEW a \in Nat, NEW size \in Sizes, NEW m, m = Mapping(a, size),
         IsFree(m), InArea(m)
  PROVE  /\ m \in HostMappings /\ m.start + m.size <= m.end
         /\ m \notin mapped
         /\ \A n \in mapped : m.end <= n.start \/ n.end <= m.start
<1>1. /\ HostEnd \in Nat /\ Granule \in Nat \ {0} /\ size \in Nat \ {0}
      /\ SysStart \in Nat /\ AppStart \in Nat
  BY AreaBounds
<1>2. a % Granule \in Nat
  BY <1>1
<1>3. /\ m.start = a - (a % Granule) /\ m.size = size /\ m.end = a + size
      /\ m = [start |-> m.start, size |-> m.size, end |-> m.end]
  BY DEF Mapping
<1>4. m.end <= HostEnd /\ (m.start >= SysStart \/ m.start >= AppStart)
  BY DEF IsFree, InArea
<1>5. m.start \in Nat /\ m.start <= a /\ m.end \in Nat /\ m.start < m.end
  BY <1>1, <1>2, <1>3, <1>4
<1>6. m \in HostMappings /\ m.start + m.size <= m.end
  BY <1>1, <1>3, <1>4, <1>5 DEF HostMappings
<1>7. ASSUME NEW n \in mapped PROVE m.end <= n.start \/ n.end <= m.start
  <2>1. n.start \in Nat /\ n.end \in Nat /\ n.size \in Nat \ {0} /\ n.start + n.size <= n.end
    <3>1. n \in HostMappings /\ n.start + n.size <= n.end
      BY DEF MemoryTypeOK, WholeSize
    <3>2. n.start \in 0 .. HostEnd /\ n.end \in 1 .. HostEnd /\ n.size \in Sizes
      BY <3>1 DEF HostMappings
    <3>3. n.size \in Nat \ {0}
      BY <3>2, AreaBounds
    <3>4. n.start \in Nat /\ n.end \in Nat
      BY <1>1, <3>2
    <3> QED BY <3>1, <3>3, <3>4
  <2>2. n.start < n.end
    BY <2>1
  <2>3. \A b \in m.start .. m.end - 1 : ~(n.start <= b /\ b < n.end)
    BY DEF IsFree, Occupied
  <2>4. CASE n.start <= m.start
    BY <1>5, <2>1, <2>3, <2>4
  <2>5. CASE m.start < n.start /\ n.start < m.end
    <3>1. n.start \in m.start .. m.end - 1
      BY <1>5, <2>1, <2>5
    <3> QED BY <2>1, <2>2, <2>3, <3>1
  <2> QED BY <1>5, <2>1, <2>4, <2>5
<1>8. m \notin mapped
  BY <1>5, <1>7
<1> QED BY <1>6, <1>7, <1>8

\* The places of a record when one is appended, and when one is removed.

LEMMA PlacesAppended ==
  ASSUME NEW S, NEW s \in Seq(S), NEW e \in S, NEW b
  PROVE  /\ IsFiniteSet(Places(s, b)) /\ Cardinality(Places(s, b)) \in Nat
         /\ Cardinality(Places(Append(s, e), b))
              = Cardinality(Places(s, b)) + IF e = b THEN 1 ELSE 0
<1> DEFINE n == Len(s)
<1>1. n \in Nat
  OBVIOUS
<1>2. IsFiniteSet(Places(s, b))
  <2>1. IsFiniteSet(1 .. n)
    BY <1>1, FS_Interval
  <2>2. Places(s, b) \in SUBSET (1 .. n)
    BY DEF Places
  <2> QED BY <2>1, <2>2, FS_Subset
<1>3. /\ Len(Append(s, e)) = n + 1
      /\ Append(s, e)[n + 1] = e
      /\ \A i \in 1 .. n : Append(s, e)[i] = s[i]
  BY AppendProperties
<1>4. n + 1 \notin Places(s, b)
  BY <1>1 DEF Places
<1>5. CASE e = b
  <2>1. Places(Append(s, e), b) = Places(s, b) \cup {n + 1}
    BY <1>1, <1>3, <1>5 DEF Places
  <2> QED BY <1>2, <1>4, <1>5, <2>1, CountsMove
<1>6. CASE e # b
  <2>1. Places(Append(s, e), b) = Places(s, b)
    BY <1>1, <1>3, <1>6 DEF Places
  <2>2. Cardinality(Places(s, b)) \in Nat
    BY <1>2, FS_CardinalityType
  <2> QED BY <1>2, <1>6, <2>1, <2>2
<1> QED BY <1>2, <1>5, <1>6, FS_CardinalityType

LEMMA ConcatAt ==
  ASSUME NEW S, NEW s \in Seq(S), NEW t \in Seq(S), NEW k \in 1..Len(s) + Len(t)
  PROVE  (s \o t)[k] = IF k <= Len(s) THEN s[k] ELSE t[k - Len(s)]
BY ConcatProperties

LEMMA RemovedAt ==
  ASSUME NEW S, NEW s \in Seq(S), NEW m \in 1..Len(s)
  PROVE  /\ RemoveAt(s, m) \in Seq(S) /\ Len(RemoveAt(s, m)) = Len(s) - 1
         /\ \A k \in 1..Len(s) - 1 :
              RemoveAt(s, m)[k] = s[IF k < m THEN k ELSE k + 1]
<1> DEFINE n == Len(s)
<1>1. n \in Nat /\ m \in 1..n
  OBVIOUS
<1>2. PICK u : u = SubSeq(s, 1, m - 1)
  OBVIOUS
<1>3. PICK v : v = SubSeq(s, m + 1, n)
  OBVIOUS
<1>4. u \in Seq(S) /\ Len(u) = m - 1 /\ \A k \in 1..m - 1 : u[k] = s[k]
  BY <1>1, <1>2
<1>5. v \in Seq(S) /\ Len(v) = n - m /\ \A k \in 1..n - m : v[k] = s[m + k]
  BY <1>1, <1>3
<1>6. RemoveAt(s, m) = u \o v
  BY <1>2, <1>3 DEF RemoveAt
<1>7. u \o v \in Seq(S) /\ Len(u \o v) = n - 1
  BY <1>1, <1>4, <1>5, ConcatProperties
<1>8. ASSUME NEW k \in 1..n - 1 PROVE (u \o v)[k] = s[IF k < m THEN k ELSE k + 1]
  <2>1. (u \o v)[k] = IF k <= Len(u) THEN u[k] ELSE v[k - Len(u)]
    <3>1. k \in 1..Len(u) + Len(v)
      BY <1>1, <1>4, <1>5
    <3> QED BY <1>4, <1>5, <3>1, ConcatAt
  <2>2. CASE k < m
    BY <1>1, <1>4, <2>1, <2>2
  <2>3. CASE ~(k < m)
    <3>1. k - (m - 1) \in 1..n - m /\ m + (k - (m - 1)) = k + 1
      BY <1>1, <2>3
    <3> QED BY <1>1, <1>4, <1>5, <2>1, <2>3, <3>1
  <2> QED BY <2>2, <2>3
<1> QED BY <1>6, <1>7, <1>8

LEMMA PlacesRemoved ==
  ASSUME NEW S, NEW s \in Seq(S), NEW m \in 1 .. Len(s), NEW b
  PROVE  Cardinality(Places(RemoveAt(s, m), b))
           = Cardinality(Places(s, b)) - IF s[m] = b THEN 1 ELSE 0
<1> DEFINE n == Len(s)
           Old(k) == IF k < m THEN k ELSE k + 1
           New(i) == IF i < m THEN i ELSE i - 1
           W == Places(s, b) \ {m}
<1>0. PICK t : t = RemoveAt(s, m)
  OBVIOUS
<1> DEFINE T == Places(t, b)
           f == [k \in T |-> Old(k)]
<1>1. /\ n \in Nat /\ m \in 1 .. n
      /\ Len(t) = n - 1
      /\ \A k \in 1 .. n - 1 : t[k] = s[Old(k)]
  <2>1. /\ Len(RemoveAt(s, m)) = Len(s) - 1
        /\ \A k \in 1 .. Len(s) - 1 : RemoveAt(s, m)[k] = s[IF k < m THEN k ELSE k + 1]
    BY RemovedAt
  <2> QED BY <1>0, <2>1
<1>2. ASSUME NEW k \in T PROVE Old(k) \in W
  <2>1. k \in 1 .. n - 1 /\ t[k] = b
    BY <1>1 DEF Places
  <2>2. Old(k) \in 1 .. n /\ Old(k) # m /\ s[Old(k)] = b
    BY <1>1, <2>1
  <2> QED BY <2>2 DEF Places
<1>3. \A k, l \in T : Old(k) = Old(l) => k = l
  BY <1>1 DEF Places
<1>4. ASSUME NEW i \in W PROVE New(i) \in T /\ Old(New(i)) = i
  <2>1. i \in 1 .. n /\ i # m /\ s[i] = b
    BY DEF Places
  <2>2. New(i) \in 1 .. n - 1 /\ Old(New(i)) = i
    BY <1>1, <2>1
  <2>3. t[New(i)] = b
    BY <1>1, <2>1, <2>2
  <2> QED BY <1>1, <2>2, <2>3 DEF Places
<1>5. f \in Bijection(T, W)
  <2>1. f \in [T -> W]
    BY <1>2
  <2>2. f \in Injection(T, W)
    BY <1>3, <2>1 DEF Injection, IsInjective
  <2>3. \A i \in W : \E k \in T : f[k] = i
    BY <1>4
  <2>4. f \in Surjection(T, W)
    BY <2>1, <2>3 DEF Surjection
  <2> QED BY <2>2, <2>4 DEF Bijection
<1>6. IsFiniteSet(Places(s, b)) /\ Cardinality(Places(s, b)) \in Nat
  BY s[m] \in S, PlacesAppended
<1>7. IsFiniteSet(W)
  BY <1>6, FS_RemoveElement
<1>8. Cardinality(T) = Cardinality(W)
  <2>1. f \in Injection(T, W) /\ f \in Surjection(T, W)
    BY <1>5 DEF Bijection
  <2> QED BY <1>7, <2>1, FS_Injection
<1>9. m \in Places(s, b) <=> s[m] = b
  BY DEF Places
<1>10. Cardinality(W) = Cardinality(Places(s, b)) - IF s[m] = b THEN 1 ELSE 0
  <2>1. CASE s[m] = b
    BY <1>6, <1>9, <2>1, CountsMove
  <2>2. CASE s[m] # b
    <3>1. W = Places(s, b)
      BY <1>9, <2>2
    <3>2. Cardinality(W) = Cardinality(Places(s, b))
      BY <3>1
    <3> HIDE DEF W
    <3> QED BY <1>6, <2>2, <3>2
  <2> QED BY <2>1, <2>2
<1> QED BY <1>0, <1>8, <1>10

LEMMA OneOrNone ==
  ASSUME NEW S, \A t, u \in S : t = u
  PROVE  Cardinality(S) = IF S = {} THEN 0 ELSE 1
<1>1. CASE S = {}
  BY <1>1, FS_EmptySet
<1>2. CASE S # {}
  <2>1. PICK t : S = {t}
    BY <1>2
  <2>2. Cardinality({t}) = 1
    BY FS_Singleton
  <2> QED BY <1>2, <2>1, <2>2
<1> QED BY <1>1, <1>2

\* Mappings that share an address are one.
LEMMA SharedIsOne ==
  ASSUME MemoryTypeOK, WholeSize, NEW m \in mapped, NEW n \in mapped,
         m.start <= n.start, n.start < m.start + m.size
  PROVE  m = n
<1>1. \A o \in mapped :
        o.start \in Nat /\ o.size \in Nat \ {0} /\ o.end \in Nat /\ o.start + o.size <= o.end
  <2> SUFFICES ASSUME NEW o \in mapped
               PROVE  o.start \in Nat /\ o.size \in Nat \ {0} /\ o.end \in Nat /\ o.start + o.size <= o.end
    OBVIOUS
  <2>1. o.start \in 0 .. HostEnd /\ o.end \in 1 .. HostEnd /\ o.size \in Sizes
    BY DEF MemoryTypeOK, HostMappings
  <2>2. o.size \in Nat \ {0}
    BY <2>1, AreaBounds
  <2> QED BY <2>1, <2>2, AreaBounds DEF WholeSize
<1>2. m = n \/ m.end <= n.start \/ n.end <= m.start
  BY DEF MemoryTypeOK
<1> QED BY <1>1, <1>2

\* A record that is there once, and is not leaving, is that of one mapping.
LEMMA RecordedOnce ==
  ASSUME MemoryTypeOK, WholeSize, NEW b
  PROVE  \A m, n \in {o \in mapped : RecordOf(o) = b} : m = n
<1> SUFFICES ASSUME NEW m \in mapped, NEW n \in mapped, RecordOf(m) = b, RecordOf(n) = b
             PROVE  m = n
  OBVIOUS
<1>1. m.start = n.start /\ m.start \in Nat /\ m.size \in Nat \ {0}
  <2>1. m.start = n.start
    BY DEF RecordOf
  <2>2. m.start \in 0 .. HostEnd /\ m.size \in Sizes
    BY DEF MemoryTypeOK, HostMappings
  <2>3. m.size \in Nat \ {0}
    BY <2>2, AreaBounds
  <2> QED BY <2>1, <2>2, <2>3, AreaBounds
<1>2. m.start <= n.start /\ n.start < m.start + m.size
  BY <1>1
<1> QED BY <1>2, SharedIsOne

LEMMA LeavingCount ==
  ASSUME OneUnmaps, NEW b
  PROVE  Cardinality(Leaving(b)) = IF Leaving(b) = {} THEN 0 ELSE 1
<1>1. \A t, u \in Leaving(b) : t = u
  BY DEF OneUnmaps, Unmapping, Leaving
<1> QED BY <1>1, OneOrNone

LEMMA RecordedCount ==
  ASSUME MemoryTypeOK, WholeSize, NEW b
  PROVE  CountRecorded(b) = IF \E m \in Recorded : RecordOf(m) = b THEN 1 ELSE 0
<1>1. \A m, n \in {o \in Recorded : RecordOf(o) = b} : m = n
  BY RecordedOnce DEF Recorded
<1>2. CountRecorded(b) = IF {o \in Recorded : RecordOf(o) = b} = {} THEN 0 ELSE 1
  BY <1>1, OneOrNone DEF CountRecorded
<1> QED BY <1>2

\* Steps after which the mappings, the records and those that make or release
\* them are the same.
LEMMA KeepStep ==
  ASSUME MemoryInv, NEW t \in Mappers, NEW d \in Doings, Goto(t, d),
         UNCHANGED <<mapped, blocks, raced>>,
         \/ {doing[t].at, d.at} \subseteq {"idle", "search", "allocate"}
         \/ doing[t].at = "record" /\ d.at = "append" /\ d.mapping = doing[t].mapping
  PROVE  MemoryInv'
<1>1. MemoryTypeOK /\ WholeSize /\ MakersApart /\ WhileApart
  BY DEF MemoryInv, Goto
<1>2. /\ ~raced /\ doing'[t] = d /\ \A u \in Mappers \ {t} : doing'[u] = doing[u]
      /\ doing' \in [Mappers -> Doings]
  BY <1>1, GotoAt
<1>3. MemoryTypeOK' /\ WholeSize'
  BY <1>1, <1>2 DEF MemoryTypeOK, WholeSize
<1>4. Making' = Making /\ \A u \in Making : doing'[u].mapping = doing[u].mapping
  BY <1>2 DEF Making, At
<1>5. /\ At("lookup")' = At("lookup") /\ At("erase")' = At("erase")
      /\ \A u \in At("lookup") \cup At("erase") : doing'[u] = doing[u]
  BY <1>2 DEF At
<1>6. Recorded' = Recorded
  BY <1>4 DEF Recorded, Making
<1>7. \A b : Leaving(b)' = Leaving(b)
  BY <1>5 DEF Leaving
<1>8. MakersApart'
  BY <1>1, <1>4 DEF MakersApart
<1>9. OneUnmaps' /\ FindsItsRecord' /\ ErasesItsRecord'
  BY <1>1, <1>5 DEF WhileApart, OneUnmaps, Unmapping, FindsItsRecord, ErasesItsRecord
<1>10. Balanced'
  BY <1>1, <1>6, <1>7 DEF WhileApart, Balanced, Count, CountRecorded
<1> QED BY <1>3, <1>8, <1>9, <1>10 DEF MemoryInv, WhileApart

LEMMA MapStep ==
  ASSUME MemoryInv, NEW t \in Mappers, NEW hint \in {SysStart, AppStart},
         NEW size \in Sizes, NEW alignment \in Alignments, Map(t, hint, size, alignment)
  PROVE  MemoryInv'
<1> DEFINE d == [at |-> "search", from |-> hint, size |-> size, alignment |-> alignment]
<1>1. d \in Doings /\ d.at = "search" /\ doing[t].at = "idle"
  BY AreaBounds DEF Doings, Searches, Map, Idle
<1>2. Goto(t, d) /\ UNCHANGED <<mapped, blocks, raced>>
  BY DEF Map
<1> QED BY <1>1, <1>2, KeepStep

LEMMA SearchStep ==
  ASSUME MemoryInv, NEW t \in Mappers, Search(t)
  PROVE  MemoryInv'
<1> DEFINE s == doing[t]
           region == AlignUp(s.from, s.alignment)
           onward == [s EXCEPT !.from = RegionEnd(s.from)]
<1>1. s.at = "search" /\ UNCHANGED <<mapped, blocks, raced>>
  BY DEF Search
<1>2. MemoryTypeOK /\ s \in Searches
  BY <1>1, DoingTypes DEF MemoryInv
<1>3. CASE Goto(t, Idle)
  <2>1. Idle \in Doings /\ Idle.at = "idle"
    BY DEF Doings, Idle
  <2> QED BY <1>1, <1>3, <2>1, KeepStep
<1>4. ASSUME s.from < AppEnd PROVE onward \in Searches
  <2>1. s.from \in 0 .. HostEnd /\ s.from < HostEnd
    BY <1>2, <1>4, AreaBounds DEF Searches
  <2>2. RegionEnd(s.from) \in 0 .. HostEnd
    BY <1>2, <2>1, RegionEndType
  <2> QED BY <1>2, <2>2 DEF Searches
<1>5. CASE s.from < AppEnd /\ Goto(t, onward)
  <2>1. onward \in Doings /\ onward.at = "search"
    BY <1>4, <1>5 DEF Doings, Searches
  <2> QED BY <1>1, <1>5, <2>1, KeepStep
<1>6. CASE s.from < AppEnd /\ Goto(t, [at |-> "allocate", region |-> region, search |-> onward])
  <2>1. region \in Nat
    <3>1. s.from \in Nat /\ s.alignment \in Nat \ {0}
      <4>1. s.from \in 0 .. HostEnd /\ s.alignment \in Alignments \cup {1}
        BY <1>2 DEF Searches
      <4>2. Alignments \cup {1} \subseteq Nat \ {0}
        BY AreaBounds
      <4>3. s.alignment \in Nat \ {0}
        BY <4>1, <4>2
      <4> QED BY <4>1, <4>3, AreaBounds
    <3> QED BY <3>1, AlignUpType
  <2> DEFINE d == [at |-> "allocate", region |-> region, search |-> onward]
  <2>2. d \in Doings /\ d.at = "allocate"
    BY <1>4, <1>6, <2>1 DEF Doings
  <2> QED BY <1>1, <1>6, <2>2, KeepStep
<1> QED BY <1>3, <1>5, <1>6 DEF Search

LEMMA AllocateStep ==
  ASSUME MemoryInv, NEW t \in Mappers, Allocate(t)
  PROVE  MemoryInv'
<1> DEFINE size == doing[t].search.size
           m == Mapping(doing[t].region, size)
           d == [at |-> "record", mapping |-> m]
<1>1. MemoryTypeOK /\ WholeSize /\ MakersApart /\ (~raced => WhileApart)
  BY DEF MemoryInv
<1>2. doing[t].at = "allocate" /\ UNCHANGED <<blocks, raced>>
  BY DEF Allocate
<1>3. doing[t].region \in Nat /\ doing[t].search \in Searches /\ size \in Sizes
  BY <1>1, <1>2, DoingTypes DEF Searches
<1>4. CASE Goto(t, doing[t].search) /\ UNCHANGED mapped
  <2>1. doing[t].search \in Doings /\ doing[t].search.at = "search"
    BY <1>3 DEF Doings, Searches
  <2> QED BY <1>2, <1>4, <2>1, KeepStep
<1>5. CASE /\ IsFree(m) /\ InArea(m)
           /\ mapped' = mapped \cup {m} /\ Goto(t, d)
  <2>1. /\ m \in HostMappings /\ m.start + m.size <= m.end /\ m \notin mapped
        /\ \A n \in mapped : m.end <= n.start \/ n.end <= m.start
    BY <1>1, <1>3, <1>5, NewMapping
  <2>2. d \in Doings /\ d.at = "record" /\ d.mapping = m
    BY <2>1 DEF Doings
  <2>3. /\ ~raced /\ doing'[t] = d /\ \A u \in Mappers \ {t} : doing'[u] = doing[u]
        /\ doing' \in [Mappers -> Doings]
    BY <1>1, <1>5, <2>2, GotoAt
  <2> HIDE DEF m, d
  <2>4. MemoryTypeOK' /\ WholeSize'
    <3>1. mapped' \subseteq HostMappings /\ WholeSize'
      BY <1>1, <1>5, <2>1 DEF MemoryTypeOK, WholeSize
    <3>2. \A n, o \in mapped' : n = o \/ n.end <= o.start \/ o.end <= n.start
      BY <1>1, <1>5, <2>1 DEF MemoryTypeOK
    <3> QED BY <1>1, <1>2, <2>3, <3>1, <3>2 DEF MemoryTypeOK
  <2>5. /\ Making' = Making \cup {t} /\ t \notin Making
        /\ \A u \in Making : doing'[u].mapping = doing[u].mapping
        /\ doing'[t].mapping = m
    BY <1>2, <2>2, <2>3 DEF Making, At
  <2>6. /\ At("lookup")' = At("lookup") /\ At("erase")' = At("erase")
        /\ \A u \in At("lookup") \cup At("erase") : doing'[u] = doing[u]
    BY <1>2, <2>2, <2>3 DEF At
  <2>7. Recorded' = Recorded
    <3>1. {doing'[u].mapping : u \in Making'} = {doing[u].mapping : u \in Making} \cup {m}
      BY <2>5
    <3>2. /\ Recorded = mapped \ {doing[u].mapping : u \in Making}
          /\ Recorded' = mapped' \ {doing'[u].mapping : u \in Making'}
      BY DEF Recorded, Making
    <3> QED BY <1>5, <2>1, <3>1, <3>2
  <2>8. \A b : Leaving(b)' = Leaving(b)
    BY <2>6 DEF Leaving
  <2>9. MakersApart'
    BY <1>1, <1>5, <2>1, <2>5 DEF MakersApart
  <2>10. OneUnmaps' /\ FindsItsRecord' /\ ErasesItsRecord'
    BY <1>1, <1>2, <2>3, <2>6
       DEF WhileApart, OneUnmaps, Unmapping, FindsItsRecord, ErasesItsRecord
  <2>11. Balanced'
    BY <1>1, <1>2, <2>3, <2>7, <2>8 DEF WhileApart, Balanced, Count, CountRecorded
  <2> QED BY <2>4, <2>9, <2>10, <2>11 DEF MemoryInv, WhileApart
<1> QED BY <1>4, <1>5 DEF Allocate

LEMMA RecordStep ==
  ASSUME MemoryInv, NEW t \in Mappers, Record(t)
  PROVE  MemoryInv'
<1> DEFINE d == [doing[t] EXCEPT !.at = "append"]
<1>1. doing[t].at = "record" /\ Goto(t, d) /\ UNCHANGED <<mapped, blocks, raced>>
  BY DEF Record
<1>2. /\ doing[t].mapping \in HostMappings
      /\ doing[t] = [at |-> doing[t].at, mapping |-> doing[t].mapping]
  BY <1>1, DoingTypes DEF MemoryInv
<1>3. d = [at |-> "append", mapping |-> doing[t].mapping]
  BY <1>2
<1>4. d \in Doings /\ d.at = "append" /\ d.mapping = doing[t].mapping
  BY <1>2, <1>3 DEF Doings
<1> QED BY <1>1, <1>4, KeepStep

\* A record is linked at the end of the list.
LEMMA EndRecordStep ==
  ASSUME MemoryInv, NEW t \in Mappers, EndRecord(t)
  PROVE  MemoryInv'
<1> DEFINE m == doing[t].mapping
           e == RecordOf(m)
<1>1. MemoryTypeOK /\ WholeSize /\ MakersApart /\ WhileApart /\ ~raced
  BY DEF MemoryInv, EndRecord, Goto
<1>2. /\ doing[t].at = "append" /\ Goto(t, Idle) /\ UNCHANGED <<mapped, raced>>
      /\ blocks' = Append(blocks, e)
  BY DEF EndRecord
<1>3. t \in Making /\ m \in mapped /\ m \in HostMappings
  BY <1>1, <1>2 DEF Making, At, MakersApart, MemoryTypeOK
<1>4. e \in Records
  BY <1>3 DEF RecordOf, HostMappings, Records
<1>5. Idle \in Doings /\ Idle.at = "idle"
  BY DEF Doings, Idle
<1>6. /\ doing'[t] = Idle /\ \A u \in Mappers \ {t} : doing'[u] = doing[u]
      /\ doing' \in [Mappers -> Doings]
  BY <1>1, <1>2, <1>5, GotoAt
<1>7. blocks \in Seq(Records) /\ Len(blocks) \in Nat
  BY <1>1 DEF MemoryTypeOK
<1>8. /\ blocks' \in Seq(Records) /\ Len(blocks') = Len(blocks) + 1
      /\ blocks'[Len(blocks) + 1] = e
      /\ \A i \in 1 .. Len(blocks) : blocks'[i] = blocks[i]
  BY <1>2, <1>4, <1>7, AppendProperties
<1>9. MemoryTypeOK' /\ WholeSize'
  BY <1>1, <1>2, <1>6, <1>8 DEF MemoryTypeOK, WholeSize
<1>10. Making' = Making \ {t} /\ \A u \in Making \ {t} : doing'[u].mapping = doing[u].mapping
  BY <1>2, <1>5, <1>6 DEF Making, At
<1>11. /\ At("lookup")' = At("lookup") /\ At("erase")' = At("erase")
       /\ \A u \in At("lookup") \cup At("erase") : doing'[u] = doing[u]
  BY <1>2, <1>5, <1>6 DEF At
<1>12. Recorded' = Recorded \cup {m} /\ m \notin Recorded
  <2>1. \A u \in Making \ {t} : doing[u].mapping # m
    BY <1>1, <1>3 DEF MakersApart
  <2>2. {doing[u].mapping : u \in Making} = {doing'[u].mapping : u \in Making'} \cup {m}
    BY <1>3, <1>10
  <2>3. m \notin {doing'[u].mapping : u \in Making'}
    BY <1>10, <2>1
  <2>4. /\ Recorded = mapped \ {doing[u].mapping : u \in Making}
        /\ Recorded' = mapped' \ {doing'[u].mapping : u \in Making'}
    BY DEF Recorded, Making
  <2> QED BY <1>2, <1>3, <2>2, <2>3, <2>4
<1>13. MakersApart'
  BY <1>1, <1>2, <1>10 DEF MakersApart
<1>14. OneUnmaps' /\ ErasesItsRecord'
  BY <1>1, <1>11 DEF WhileApart, OneUnmaps, Unmapping, ErasesItsRecord
<1>15. FindsItsRecord'
  <2> SUFFICES ASSUME NEW u \in At("lookup")
               PROVE  \E i \in DOMAIN blocks' :
                        /\ blocks'[i] = RecordOf(doing'[u].mapping)
                        /\ \A j \in 1 .. i - 1 : ~Covers(blocks'[j], doing'[u].mapping.start)
    BY <1>11 DEF FindsItsRecord
  <2>1. PICK i \in DOMAIN blocks :
          /\ blocks[i] = RecordOf(doing[u].mapping)
          /\ \A j \in 1 .. i - 1 : ~Covers(blocks[j], doing[u].mapping.start)
    BY <1>1 DEF WhileApart, FindsItsRecord
  <2>2. i \in 1 .. Len(blocks) /\ i \in DOMAIN blocks'
    BY <1>7, <1>8
  <2>3. blocks'[i] = blocks[i] /\ \A j \in 1 .. i - 1 : blocks'[j] = blocks[j]
    BY <1>7, <1>8, <2>2
  <2>4. doing'[u] = doing[u]
    BY <1>11
  <2> QED BY <2>1, <2>2, <2>3, <2>4
<1>16. Balanced'
  <2> SUFFICES ASSUME NEW b \in Records
               PROVE  Count(b)' = Cardinality(Leaving(b)') + CountRecorded(b)'
    BY DEF Balanced
  <2>1. Leaving(b)' = Leaving(b)
    BY <1>11 DEF Leaving
  <2>2. Count(b) \in Nat /\ Count(b)' = Count(b) + IF e = b THEN 1 ELSE 0
    BY <1>2, <1>4, <1>7, PlacesAppended DEF Count
  <2>3. CountRecorded(b) = IF \E o \in Recorded : RecordOf(o) = b THEN 1 ELSE 0
    BY <1>1, RecordedCount
  <2>4. CountRecorded(b)' = IF \E o \in Recorded' : RecordOf(o) = b THEN 1 ELSE 0
    <3>1. CountRecorded(b)' = Cardinality({o \in Recorded' : RecordOf(o) = b})
      BY DEF CountRecorded
    <3>2. \A o, n \in {o \in Recorded' : RecordOf(o) = b} : o = n
      BY <1>1, <1>2, RecordedOnce DEF Recorded
    <3> QED BY <3>1, <3>2, OneOrNone
  <2>5. e = b => ~\E o \in Recorded : RecordOf(o) = b
    BY <1>1, <1>3, <1>12, RecordedOnce DEF Recorded
  <2>6. CountRecorded(b)' = CountRecorded(b) + IF e = b THEN 1 ELSE 0
    BY <1>12, <2>3, <2>4, <2>5
  <2>7. Count(b) = Cardinality(Leaving(b)) + CountRecorded(b)
    BY <1>1 DEF WhileApart, Balanced
  <2>8. Cardinality(Leaving(b)) \in Nat /\ CountRecorded(b) \in Nat
    BY <1>1, <2>3, LeavingCount DEF WhileApart
  <2> QED BY <2>1, <2>2, <2>6, <2>7, <2>8
<1> QED BY <1>9, <1>13, <1>14, <1>15, <1>16 DEF MemoryInv, WhileApart

\* The first record that covers the address of a mapping is its own, while
\* nothing else is unmapped.
LEMMA FirstRecordIsOwn ==
  ASSUME MemoryTypeOK, WholeSize, Balanced, Unmapping = {}, NEW m \in Recorded
  PROVE  \E i \in DOMAIN blocks :
           /\ blocks[i] = RecordOf(m)
           /\ \A j \in 1 .. i - 1 : ~Covers(blocks[j], m.start)
<1> DEFINE T == Places(blocks, RecordOf(m))
<1>1. m \in mapped /\ m \in HostMappings
  BY DEF Recorded, MemoryTypeOK
<1>2. blocks \in Seq(Records) /\ Len(blocks) \in Nat
  BY DEF MemoryTypeOK
<1>3. \A b : Cardinality(Leaving(b)) = 0
  <2>1. \A b : Leaving(b) = {}
    BY DEF Leaving, Unmapping
  <2> QED BY <2>1, FS_EmptySet
<1>4. ASSUME NEW b \in Records
      PROVE  Cardinality(Places(blocks, b)) = IF \E o \in Recorded : RecordOf(o) = b THEN 1 ELSE 0
  <2>1. CountRecorded(b) = IF \E o \in Recorded : RecordOf(o) = b THEN 1 ELSE 0
    BY RecordedCount
  <2> QED BY <1>3, <2>1 DEF Balanced, Count
<1>5. T # {}
  <2>1. RecordOf(m) \in Records
    BY <1>1 DEF RecordOf, HostMappings, Records
  <2>2. Cardinality(T) = 1
    BY <1>4, <2>1
  <2> QED BY <2>2, FS_EmptySet
<1>6. T \in SUBSET Nat
  BY <1>2 DEF Places
<1>7. PICK i \in T : \A j \in T : i <= j
  BY <1>5, <1>6, LeastNat
<1>8. i \in 1 .. Len(blocks) /\ blocks[i] = RecordOf(m)
  BY DEF Places
<1>9. ASSUME NEW j \in 1 .. i - 1, Covers(blocks[j], m.start) PROVE FALSE
  <2>1. j \in 1 .. Len(blocks) /\ ~(i <= j)
    BY <1>2, <1>8
  <2>2. blocks[j] \in Records
    BY <1>2, <2>1, ElementOfSeq
  <2>3. \E o \in Recorded : RecordOf(o) = blocks[j]
    <3>1. j \in Places(blocks, blocks[j])
      BY <2>1 DEF Places
    <3>2. IsFiniteSet(Places(blocks, blocks[j]))
      BY <1>2, <2>2, PlacesAppended
    <3>3. Cardinality(Places(blocks, blocks[j])) # 0
      BY <3>1, <3>2, FS_EmptySet
    <3> QED BY <1>4, <2>2, <3>3
  <2>4. PICK o \in Recorded : RecordOf(o) = blocks[j]
    BY <2>3
  <2>5. o \in mapped /\ o.start <= m.start /\ m.start < o.start + o.size
    BY <1>9, <2>4 DEF Covers, RecordOf, Recorded
  <2>6. o = m
    BY <1>1, <2>5, SharedIsOne
  <2>7. j \in T
    BY <2>1, <2>4, <2>6 DEF Places
  <2> QED BY <1>7, <2>1, <2>7
<1> QED BY <1>2, <1>8, <1>9

LEMMA ReleaseStep ==
  ASSUME MemoryInv, NEW t \in Mappers, NEW m \in mapped, NEW after \in Sizes \cup {0},
         Release(t, m, after)
  PROVE  MemoryInv'
<1> DEFINE d == [at |-> "lookup", mapping |-> m, after |-> after]
<1>1. MemoryTypeOK /\ WholeSize /\ MakersApart /\ WhileApart /\ ~raced
  BY DEF MemoryInv, Release, Goto
<1>2. /\ doing[t] = Idle /\ Goto(t, d) /\ UNCHANGED blocks
      /\ m \notin {doing[u].mapping : u \in Making}
      /\ mapped' = mapped \ {m}
      /\ raced' = (raced \/ Unmapping # {})
  BY DEF Release, Making
<1>3. m \in HostMappings /\ m \in Recorded
  BY <1>1, <1>2 DEF MemoryTypeOK, Recorded, Making
<1>4. d \in Doings /\ d.at = "lookup" /\ d.mapping = m
  BY <1>3 DEF Doings, Lookups
<1>5. /\ doing'[t] = d /\ \A u \in Mappers \ {t} : doing'[u] = doing[u]
      /\ doing' \in [Mappers -> Doings]
  BY <1>1, <1>2, <1>4, GotoAt
<1>6. doing[t].at = "idle"
  BY <1>2 DEF Idle
<1> HIDE DEF d
<1>7. MemoryTypeOK' /\ WholeSize'
  <2>1. raced' \in BOOLEAN
    BY <1>2
  <2> QED BY <1>1, <1>2, <1>5, <2>1 DEF MemoryTypeOK, WholeSize
<1>8. Making' = Making /\ \A u \in Making : doing'[u] = doing[u]
  BY <1>4, <1>5, <1>6 DEF Making, At
<1>9. MakersApart'
  BY <1>1, <1>2, <1>8 DEF MakersApart
<1>10. ASSUME ~raced' PROVE WhileApart'
  <2>1. Unmapping = {}
    BY <1>2, <1>10
  <2>2. At("lookup")' = {t} /\ At("erase")' = {}
    BY <1>4, <1>5, <2>1 DEF Unmapping, At
  <2>3. OneUnmaps' /\ ErasesItsRecord'
    BY <2>2 DEF OneUnmaps, Unmapping, ErasesItsRecord
  <2>4. FindsItsRecord'
    <3>1. \E i \in DOMAIN blocks :
            /\ blocks[i] = RecordOf(m)
            /\ \A j \in 1 .. i - 1 : ~Covers(blocks[j], m.start)
      BY <1>1, <1>3, <2>1, FirstRecordIsOwn DEF WhileApart
    <3> QED BY <1>2, <1>4, <1>5, <2>2, <3>1 DEF FindsItsRecord
  <2>5. Recorded' = Recorded \ {m}
    <3>1. {doing'[u].mapping : u \in Making'} = {doing[u].mapping : u \in Making}
      BY <1>8
    <3>2. /\ Recorded = mapped \ {doing[u].mapping : u \in Making}
          /\ Recorded' = mapped' \ {doing'[u].mapping : u \in Making'}
      BY DEF Recorded, Making
    <3> QED BY <1>2, <3>1, <3>2
  <2>6. Balanced'
    <3> SUFFICES ASSUME NEW b \in Records
                 PROVE  Count(b)' = Cardinality(Leaving(b)') + CountRecorded(b)'
      BY DEF Balanced
    <3>1. Count(b)' = Count(b)
      BY <1>2 DEF Count
    <3>2. Leaving(b) = {} /\ Leaving(b)' = IF RecordOf(m) = b THEN {t} ELSE {}
      BY <1>4, <1>5, <2>1, <2>2 DEF Leaving, Unmapping
    <3>3. Cardinality(Leaving(b)) = 0 /\ Cardinality(Leaving(b)') = IF RecordOf(m) = b THEN 1 ELSE 0
      <4>1. Cardinality({}) = 0 /\ Cardinality({t}) = 1
        BY FS_EmptySet, FS_Singleton
      <4> QED BY <3>2, <4>1
    <3>4. CountRecorded(b) = IF \E o \in Recorded : RecordOf(o) = b THEN 1 ELSE 0
      BY <1>1, RecordedCount
    <3>5. CountRecorded(b)' = IF \E o \in Recorded \ {m} : RecordOf(o) = b THEN 1 ELSE 0
      <4>1. CountRecorded(b)' = Cardinality({o \in Recorded \ {m} : RecordOf(o) = b})
        BY <2>5 DEF CountRecorded
      <4>2. \A o, n \in {o \in Recorded \ {m} : RecordOf(o) = b} : o = n
        BY <1>1, RecordedOnce DEF Recorded
      <4> QED BY <4>1, <4>2, OneOrNone
    <3>6. CASE RecordOf(m) = b
      <4>1. ~\E o \in Recorded \ {m} : RecordOf(o) = b
        BY <1>1, <3>6, RecordedOnce DEF Recorded
      <4>2. CountRecorded(b) = 1 /\ CountRecorded(b)' = 0
        BY <1>3, <3>4, <3>5, <3>6, <4>1
      <4>3. Count(b) = Cardinality(Leaving(b)) + CountRecorded(b)
        BY <1>1 DEF WhileApart, Balanced
      <4> QED BY <3>1, <3>3, <3>6, <4>2, <4>3
    <3>7. CASE RecordOf(m) # b
      <4>1. CountRecorded(b)' = CountRecorded(b)
        BY <3>4, <3>5, <3>7
      <4>2. Count(b) = Cardinality(Leaving(b)) + CountRecorded(b)
        BY <1>1 DEF WhileApart, Balanced
      <4> QED BY <3>1, <3>3, <3>7, <4>1, <4>2
    <3> QED BY <3>6, <3>7
  <2> QED BY <2>3, <2>4, <2>6 DEF WhileApart
<1> QED BY <1>7, <1>9, <1>10 DEF MemoryInv

\* Where a thread goes after memoryUnmap is no unmapping.
LEMMA AfterTypes ==
  ASSUME NEW d \in Lookups
  PROVE  After(d) \in Doings /\ After(d).at \in {"idle", "search"}
<1>1. d.after \in Sizes \cup {0} /\ SysStart \in 0 .. HostEnd
  BY AreaBounds DEF Lookups
<1>2. CASE d.after = 0
  BY <1>2 DEF After, Doings, Idle
<1>3. CASE d.after # 0
  BY <1>1, <1>3 DEF After, Doings, Searches
<1> QED BY <1>2, <1>3

\* findMemoryBlock finds the record of the mapping that was released.
LEMMA LookupStep ==
  ASSUME MemoryInv, NEW t \in Mappers, Lookup(t)
  PROVE  MemoryInv'
<1> DEFINE m == doing[t].mapping
           found == {i \in DOMAIN blocks : Covers(blocks[i], m.start)}
<1>1. MemoryTypeOK /\ WholeSize /\ MakersApart /\ (~raced => WhileApart)
  BY DEF MemoryInv
<1>2. doing[t].at = "lookup" /\ t \in At("lookup") /\ UNCHANGED <<mapped, blocks, raced>>
  BY DEF Lookup, At
<1>3. ~raced
  BY DEF Lookup, Goto
<1>4. doing[t] \in Lookups /\ m \in HostMappings /\ m.start \in Nat /\ m.size \in Nat \ {0}
  <2>1. doing[t] \in Lookups
    BY <1>1, <1>2, DoingTypes
  <2>2. m \in HostMappings
    BY <2>1 DEF Lookups
  <2>3. m.start \in 0 .. HostEnd /\ m.size \in Sizes
    BY <2>2 DEF HostMappings
  <2>4. m.size \in Nat \ {0}
    BY <2>3, AreaBounds
  <2> QED BY <2>1, <2>2, <2>3, <2>4
<1>5. PICK i \in DOMAIN blocks : /\ blocks[i] = RecordOf(m)
                                /\ \A j \in 1 .. i - 1 : ~Covers(blocks[j], m.start)
  BY <1>1, <1>2, <1>3 DEF WhileApart, FindsItsRecord
<1>6. blocks \in Seq(Records) /\ Len(blocks) \in Nat /\ i \in 1 .. Len(blocks)
  BY <1>1 DEF MemoryTypeOK
<1>7. Covers(blocks[i], m.start)
  BY <1>4, <1>5 DEF Covers, RecordOf
<1>8. ASSUME NEW h \in found, \A j \in found : h <= j
      PROVE  h = i
  <2>1. h \in 1 .. Len(blocks) /\ h <= i
    BY <1>6, <1>7, <1>8
  <2>2. h \notin 1 .. i - 1
    BY <1>5, <1>8
  <2> QED BY <1>6, <2>1, <2>2
<1> DEFINE d == [at |-> "erase", block |-> blocks[i], unmapping |-> doing[t]]
<1>9. Goto(t, d)
  <2>1. i \in found
    BY <1>7
  <2>2. PICK h \in found :
          /\ \A j \in found : h <= j
          /\ Goto(t, [at |-> "erase", block |-> blocks[h], unmapping |-> doing[t]])
    BY <2>1 DEF Lookup
  <2> QED BY <1>8, <2>2
<1>10. d \in Doings /\ d.at = "erase" /\ d.block = RecordOf(m) /\ d.unmapping = doing[t]
  <2>1. blocks[i] \in Records
    BY <1>6, ElementOfSeq
  <2> QED BY <1>4, <1>5, <2>1 DEF Doings
<1> HIDE DEF d
<1>11. /\ doing'[t] = d /\ \A u \in Mappers \ {t} : doing'[u] = doing[u]
       /\ doing' \in [Mappers -> Doings]
  BY <1>1, <1>9, <1>10, GotoAt
<1>12. MemoryTypeOK' /\ WholeSize'
  BY <1>1, <1>2, <1>11 DEF MemoryTypeOK, WholeSize
<1>13. Making' = Making /\ \A u \in Making : doing'[u] = doing[u]
  BY <1>2, <1>10, <1>11 DEF Making, At
<1>14. MakersApart' /\ Recorded' = Recorded
  BY <1>1, <1>2, <1>13 DEF MakersApart, Recorded, Making
<1>15. Unmapping = {t} /\ t \notin At("erase")
  BY <1>1, <1>2, <1>3 DEF WhileApart, OneUnmaps, Unmapping, At
<1>16. At("lookup")' = {} /\ At("erase")' = {t}
  BY <1>10, <1>11, <1>15 DEF Unmapping, At
<1>17. OneUnmaps' /\ FindsItsRecord' /\ ErasesItsRecord'
  BY <1>10, <1>11, <1>16 DEF OneUnmaps, Unmapping, FindsItsRecord, ErasesItsRecord
<1>18. \A b : Leaving(b)' = Leaving(b)
  <2>1. At("lookup") = {t} /\ At("erase") = {}
    BY <1>2, <1>15 DEF Unmapping
  <2> QED BY <1>10, <1>11, <1>16, <2>1 DEF Leaving
<1>19. Balanced'
  BY <1>1, <1>2, <1>3, <1>14, <1>18 DEF WhileApart, Balanced, Count, CountRecorded
<1> QED BY <1>12, <1>14, <1>17, <1>19 DEF MemoryInv, WhileApart

LEMMA RemovedFirst ==
  ASSUME NEW S, NEW s \in Seq(S), NEW e, NEW k \in 1 .. Len(s), s[k] = e
  PROVE  \E i \in 1 .. Len(s) : s[i] = e /\ RemoveFirst(s, e) = RemoveAt(s, i)
<1> DEFINE I == {i \in 1 .. Len(s) : s[i] = e}
           i == SelectInSeq(s, LAMBDA v : v = e)
<1>1. k \in I /\ I \in SUBSET Nat
  OBVIOUS
<1>2. \E x \in I : \A y \in I : x <= y
  BY <1>1, LeastNat
<1>3. i = Min(I)
  BY <1>1 DEF SelectInSeq
<1>4. Min(I) \in I
  BY <1>2 DEF Min
<1>5. RemoveFirst(s, e) = RemoveAt(s, i)
  BY <1>1 DEF RemoveFirst
<1> QED BY <1>3, <1>4, <1>5

\* The record that is erased is that of the mapping that was released; what
\* has been mapped anew meanwhile keeps its own.
LEMMA EraseStep ==
  ASSUME MemoryInv, NEW t \in Mappers, Erase(t)
  PROVE  MemoryInv'
<1> DEFINE e == doing[t].block
           next == After(doing[t].unmapping)
<1>1. MemoryTypeOK /\ WholeSize /\ MakersApart /\ WhileApart /\ ~raced
  BY DEF MemoryInv, Erase
<1>2. /\ doing[t].at = "erase" /\ t \in At("erase") /\ UNCHANGED mapped
      /\ blocks' = RemoveFirst(blocks, e)
      /\ raced' = (raced \/ ~LockIsFree)
  BY DEF Erase, At
<1>3. PICK lost \in SUBSET At("append") :
        doing' = [u \in Mappers |-> IF u = t THEN next ELSE IF u \in lost THEN Idle ELSE doing[u]]
  BY DEF Erase
<1>4. e \in Records /\ doing[t].unmapping \in Lookups
  BY <1>1, <1>2, DoingTypes
<1>5. next \in Doings /\ next.at \in {"idle", "search"}
  BY <1>4, AfterTypes
<1> HIDE DEF next
<1>6. Idle \in Doings /\ Idle.at = "idle"
  BY DEF Doings, Idle
<1>7. /\ doing' \in [Mappers -> Doings]
      /\ doing'[t] = next
      /\ \A u \in Mappers \ {t} : doing'[u] = IF u \in lost THEN Idle ELSE doing[u]
  BY <1>1, <1>3, <1>5, <1>6 DEF MemoryTypeOK
<1>8. Unmapping = {t} /\ At("lookup") = {} /\ At("erase") = {t}
  BY <1>1, <1>2 DEF WhileApart, OneUnmaps, Unmapping, At
<1>9. e = RecordOf(doing[t].unmapping.mapping)
  BY <1>1, <1>2 DEF WhileApart, ErasesItsRecord
<1>10. blocks \in Seq(Records) /\ Len(blocks) \in Nat
  BY <1>1 DEF MemoryTypeOK
<1>11. \A b : Leaving(b) = IF e = b THEN {t} ELSE {}
  BY <1>8, <1>9 DEF Leaving
<1>12. \A b : Cardinality(Leaving(b)) = IF e = b THEN 1 ELSE 0
  BY <1>11, FS_EmptySet, FS_Singleton
<1>13. \A b : CountRecorded(b) \in Nat
  BY <1>1, RecordedCount
<1>14. Places(blocks, e) # {}
  <2>1. Cardinality(Places(blocks, e)) # 0
    BY <1>1, <1>4, <1>12, <1>13 DEF WhileApart, Balanced, Count
  <2> QED BY <2>1, FS_EmptySet
<1>15. PICK i \in 1 .. Len(blocks) : blocks[i] = e /\ blocks' = RemoveAt(blocks, i)
  <2>1. PICK k \in 1 .. Len(blocks) : blocks[k] = e
    BY <1>14 DEF Places
  <2> QED BY <1>2, <1>10, <2>1, RemovedFirst
<1>16. MemoryTypeOK' /\ WholeSize'
  <2>1. blocks' \in Seq(Records)
    BY <1>10, <1>15, RemovedAt
  <2>2. raced' \in BOOLEAN
    BY <1>2
  <2> QED BY <1>1, <1>2, <1>7, <2>1, <2>2 DEF MemoryTypeOK, WholeSize
<1>17. Making' \subseteq Making /\ \A u \in Making' : doing'[u] = doing[u]
  BY <1>5, <1>6, <1>7 DEF Making, At
<1>18. MakersApart'
  BY <1>1, <1>2, <1>17 DEF MakersApart
<1>19. ASSUME ~raced' PROVE WhileApart'
  <2>1. lost = {}
    BY <1>2, <1>19 DEF LockIsFree
  <2>2. Making' = Making
    BY <1>2, <1>5, <1>7, <2>1 DEF Making, At
  <2>3. Recorded' = Recorded
    BY <1>2, <1>17, <2>2 DEF Recorded, Making
  <2>4. At("lookup")' = {} /\ At("erase")' = {}
    BY <1>5, <1>7, <1>8, <2>1 DEF At
  <2>5. OneUnmaps' /\ FindsItsRecord' /\ ErasesItsRecord'
    BY <2>4 DEF OneUnmaps, Unmapping, FindsItsRecord, ErasesItsRecord
  <2>6. Balanced'
    <3> SUFFICES ASSUME NEW b \in Records
                 PROVE  Count(b)' = Cardinality(Leaving(b)') + CountRecorded(b)'
      BY DEF Balanced
    <3>1. Count(b)' = Count(b) - IF e = b THEN 1 ELSE 0
      BY <1>10, <1>15, PlacesRemoved DEF Count
    <3>2. Leaving(b)' = {}
      BY <2>4 DEF Leaving
    <3>3. Cardinality(Leaving(b)') = 0
      BY <3>2, FS_EmptySet
    <3>4. CountRecorded(b)' = CountRecorded(b)
      BY <2>3 DEF CountRecorded
    <3>5. Count(b) = Cardinality(Leaving(b)) + CountRecorded(b)
      BY <1>1 DEF WhileApart, Balanced
    <3>6. CountRecorded(b) \in Nat /\ Cardinality(Leaving(b)) = IF e = b THEN 1 ELSE 0
      BY <1>12, <1>13
    <3> QED BY <3>1, <3>3, <3>4, <3>5, <3>6
  <2> QED BY <2>5, <2>6 DEF WhileApart
<1> QED BY <1>16, <1>18, <1>19 DEF MemoryInv

\* The invariant of the memory, for any threads, addresses and sizes.
THEOREM MemoryInvariant == MemorySpec => []MemoryInv
<1>1. MemoryInit => MemoryInv
  <2> SUFFICES ASSUME MemoryInit PROVE MemoryInv
    OBVIOUS
  <2> USE DEF MemoryInit
  <2>1. \A point : point # "idle" => At(point) = {}
    BY DEF At, Idle
  <2>2. Making = {} /\ Unmapping = {} /\ At("lookup") = {} /\ At("erase") = {}
    BY <2>1 DEF Making, Unmapping
  <2>3. MemoryTypeOK
    <3>1. blocks \in Seq(Records) /\ mapped \subseteq HostMappings
      OBVIOUS
    <3>2. doing \in [Mappers -> Doings]
      BY DEF Doings
    <3>3. raced \in BOOLEAN
      OBVIOUS
    <3> QED BY <3>1, <3>2, <3>3 DEF MemoryTypeOK
  <2>4. WholeSize /\ MakersApart
    BY <2>2 DEF WholeSize, MakersApart
  <2>5. OneUnmaps /\ FindsItsRecord /\ ErasesItsRecord
    BY <2>2 DEF OneUnmaps, FindsItsRecord, ErasesItsRecord
  <2>6. ASSUME NEW b PROVE Count(b) = Cardinality(Leaving(b)) + CountRecorded(b)
    <3>1. Places(blocks, b) = {} /\ Leaving(b) = {} /\ {o \in Recorded : RecordOf(o) = b} = {}
      BY <2>2 DEF Places, Leaving, Recorded
    <3>2. Count(b) = 0 /\ Cardinality(Leaving(b)) = 0 /\ CountRecorded(b) = 0
      <4>1. Cardinality({}) = 0
        BY FS_EmptySet
      <4> QED BY <3>1, <4>1, Zenon DEF Count, CountRecorded
    <3> QED BY <3>2
  <2> QED BY <2>3, <2>4, <2>5, <2>6 DEF MemoryInv, WhileApart, Balanced
<1>2. MemoryInv /\ [MemoryNext]_memoryVars => MemoryInv'
  <2> SUFFICES ASSUME MemoryInv, [MemoryNext]_memoryVars PROVE MemoryInv'
    OBVIOUS
  <2>1. ASSUME NEW t \in Mappers, NEW hint \in {SysStart, AppStart}, NEW size \in Sizes,
               NEW alignment \in Alignments, Map(t, hint, size, alignment)
        PROVE  MemoryInv'
    BY <2>1, MapStep
  <2>2. ASSUME NEW t \in Mappers, NEW size \in Sizes, Realloc(t, size) PROVE MemoryInv'
    <3>1. PICK m \in mapped : Release(t, m, size)
      BY <2>2 DEF Realloc
    <3> QED BY <3>1, ReleaseStep
  <2>3. ASSUME NEW t \in Mappers, Unmap(t) PROVE MemoryInv'
    <3>1. PICK m \in mapped : Release(t, m, 0)
      BY <2>3 DEF Unmap
    <3> QED BY <3>1, ReleaseStep
  <2>4. ASSUME NEW t \in Mappers, Search(t) \/ Allocate(t) PROVE MemoryInv'
    BY <2>4, SearchStep, AllocateStep
  <2>5. ASSUME NEW t \in Mappers, Record(t) \/ EndRecord(t) PROVE MemoryInv'
    BY <2>5, RecordStep, EndRecordStep
  <2>6. ASSUME NEW t \in Mappers, Lookup(t) \/ Erase(t) PROVE MemoryInv'
    BY <2>6, LookupStep, EraseStep
  <2>7. CASE UNCHANGED memoryVars
    <3>1. UNCHANGED <<mapped, blocks, doing, raced>>
      BY <2>7 DEF memoryVars
    <3> QED BY <3>1 DEF MemoryInv, MemoryTypeOK, WholeSize, MakersApart, Making, WhileApart, OneUnmaps,
                        Unmapping, At, FindsItsRecord, ErasesItsRecord, Balanced, Count, Leaving,
                        CountRecorded, Recorded
  <2> QED BY <2>1, <2>2, <2>3, <2>4, <2>5, <2>6, <2>7 DEF MemoryNext
<1> QED BY <1>1, <1>2, PTL DEF MemorySpec

\* As long as no two unmappings have overlapped and no removal has met an
\* append, every mapping has its record and every other record is on its way
\* out, whoever maps what an unmapping has given back before its record is
\* erased (Memory.cpp, memoryUnmap and allocateInternal).
THEOREM MemoryRecordsAreTheMappings == MemorySpec => []RecordsAreTheMappings
<1>1. MemoryInv => RecordsAreTheMappings
  <2> SUFFICES ASSUME MemoryInv, ~raced,
                      NEW b \in Range(blocks) \cup {RecordOf(m) : m \in Recorded}
               PROVE  Cardinality({i \in DOMAIN blocks : blocks[i] = b})
                        = Cardinality(Leaving(b)) + Cardinality({m \in Recorded : RecordOf(m) = b})
    BY DEF RecordsAreTheMappings
  <2>1. MemoryTypeOK /\ Balanced /\ blocks \in Seq(Records) /\ DOMAIN blocks = 1 .. Len(blocks)
    BY DEF MemoryInv, WhileApart, MemoryTypeOK
  <2>2. ASSUME b \in Range(blocks) PROVE b \in Records
    BY <2>1, <2>2, ElementOfSeq DEF Range
  <2>3. ASSUME NEW m \in Recorded PROVE RecordOf(m) \in Records
    BY <2>1 DEF Recorded, RecordOf, Records, HostMappings, MemoryTypeOK
  <2>4. b \in Records
    BY <2>2, <2>3
  <2> QED BY <2>1, <2>4 DEF Balanced, Count, CountRecorded, Places
<1> QED BY <1>1, MemoryInvariant, PTL

------------------------------------------------------------------------------
\* A flag that nobody has made and a semaphore of count 0, as they rest while
\* another object is looked at, satisfy the invariants too.
LEMMA RestIsSafe == MCInit => FlagInv /\ SemaTypeOK
<1> SUFFICES ASSUME MCInit PROVE FlagInv /\ SemaTypeOK
  OBVIOUS
<1>1. ASSUME FlagAtRest PROVE FlagInv
  <2>1. InWait = {} /\ returned = {} /\ anyWaiting = FALSE
    BY <1>1 DEF FlagAtRest, InWait
  <2>2. request \in [InWait -> Requests]
    BY <1>1, <2>1 DEF FlagAtRest
  <2>3. TypeOK
    BY <1>1, <2>1, <2>2 DEF FlagAtRest, TypeOK
  <2> QED BY <2>1, <2>3 DEF FlagInv, AtMostOne, MarkIsTrue, BlockedFindsPattern
<1>2. ASSUME SemaAtRest PROVE SemaTypeOK
  <2>1. InSemaWait = {} /\ count = 0 /\ sleeping = {} /\ woken = {} /\ timed = {}
    BY <1>2 DEF SemaAtRest, InSemaWait
  <2>2. need \in [InSemaWait -> Needs \cap (1 .. MaxCount)]
    BY <1>2, <2>1 DEF SemaAtRest
  <2> QED BY <2>1, <2>2, SemaphoreAssumption DEF SemaTypeOK
<1> QED BY <1>1, <1>2, FlagStart, SemaTypesFirst DEF MCInit

\* A step of one object is one of it and leaves the others at rest: the
\* invariants proved of each hold of all.
THEOREM KernelInvariant == MCSpec => [](FlagInv /\ SemaTypeOK) /\ MemorySpec
<1>1. MCInit => FlagInv /\ SemaTypeOK /\ MemoryInit
  BY RestIsSafe DEF MCInit
<1>2. [MCNext]_allVars => [Next]_vars /\ [SemaNext]_semaVars /\ [MemoryNext]_memoryVars
  BY DEF MCNext, allVars
<1>3. (FlagInv /\ SemaTypeOK) /\ [Next]_vars /\ [SemaNext]_semaVars => (FlagInv /\ SemaTypeOK)'
  BY FlagStep, SemaTypesKept
<1> QED BY <1>1, <1>2, <1>3, PTL DEF MCSpec, MemorySpec

\* Every variable of an event flag, of a semaphore and of the game's memory
\* keeps its type: who waits is on the condition variable or on its way from
\* it, the count is within its bounds, and the host's mappings are disjoint.
THEOREM KernelTypes == MCSpec => []KernelTypeOK
<1>1. FlagInv /\ SemaTypeOK /\ MemoryInv => KernelTypeOK
  BY DEF KernelTypeOK, FlagInv, MemoryInv
<1> QED BY <1>1, KernelInvariant, MemoryInvariant, PTL
===============================================================================
