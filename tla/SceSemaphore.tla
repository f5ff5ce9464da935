----------------------------- MODULE SceSemaphore -----------------------------
(***************************************************************************)
(* A counting semaphore under a mutex and a condition variable.  What a    *)
(* thread does while it holds the mutex is one step.  A thread    *)
(* that waits on the condition variable is sleeping until it is notified,  *)
(* then woken until it has the mutex again.                                *)
(*                                                                         *)
(* Source: SceModules/SceLibkernel/SceSemaphore.cpp.  Nothing calls Poll   *)
(* or Cancel.                                                              *)
(***************************************************************************)
EXTENDS Naturals, FiniteSets, Functions

CONSTANTS
  Waiters,   \* the threads that wait for it
  MaxCount,  \* m_maxCount, at least 1
  Signals,   \* counts the game signals, at least 1
  Needs      \* counts the game waits for, of which Wait() refuses 0

ASSUME SemaphoreAssumption ==
  /\ IsFiniteSet(Waiters)
  /\ MaxCount \in Nat /\ Signals \subseteq Nat /\ Needs \subseteq Nat

VARIABLES
  count,     \* m_count
  sleeping,  \* threads on the condition variable
  woken,     \* threads that have left it and want the mutex
  need,      \* what each of these waits for
  timed      \* those of them with a timeout

semaVars == <<count, sleeping, woken, need, timed>>

InSemaWait == sleeping \cup woken

SemaInit ==
  /\ count \in 0 .. MaxCount
  /\ sleeping = {} /\ woken = {}
  /\ need = [t \in {} |-> 0]
  /\ timed = {}

------------------------------------------------------------------------------
NotifySleeper ==
  \/ sleeping = {} /\ UNCHANGED <<sleeping, woken>>
  \/ \E t \in sleeping : sleeping' = sleeping \ {t} /\ woken' = woken \cup {t}

\* Fault: nobody is notified unless the count was zero.
SignalFromZero(n) ==
  /\ count + n <= MaxCount
  /\ count' = count + n
  /\ IF count = 0 THEN NotifySleeper ELSE UNCHANGED <<sleeping, woken>>
  /\ UNCHANGED <<need, timed>>

\* A signal that would exceed the maximum is refused and changes nothing.
Signal(n) ==
  /\ count + n <= MaxCount
  /\ count' = count + n
  /\ NotifySleeper
  /\ UNCHANGED <<need, timed>>

\* A thread leaves Wait(), with the count it came for or without.
Leave(t) ==
  /\ sleeping' = sleeping \ {t} /\ woken' = woken \ {t}
  /\ need' = Restrict(need, InSemaWait \ {t})
  /\ timed' = timed \ {t}

\* Wait() up to its return or to the condition variable.
SemaWait(t, n, isTimed) ==
  /\ t \notin InSemaWait
  /\ n >= 1 /\ n <= MaxCount
  /\ \/ /\ count >= n
        /\ count' = count - n
        /\ UNCHANGED <<sleeping, woken, need, timed>>
     \/ /\ count < n
        /\ sleeping' = sleeping \cup {t}
        /\ need' = [u \in InSemaWait \cup {t} |-> IF u = t THEN n ELSE need[u]]
        /\ timed' = IF isTimed THEN timed \cup {t} ELSE timed
        /\ UNCHANGED <<count, woken>>

\* A woken thread has the mutex again and tests the predicate.
SemaResume(t) ==
  /\ t \in woken
  /\ \/ /\ count >= need[t]
        /\ count' = count - need[t]
        /\ Leave(t)
     \/ /\ count < need[t]
        /\ sleeping' = sleeping \cup {t} /\ woken' = woken \ {t}
        /\ UNCHANGED <<count, need, timed>>

\* The time of wait_for is over; it tests the predicate a last time.
SemaTimeout(t) ==
  /\ t \in timed
  /\ count' = IF count >= need[t] THEN count - need[t] ELSE count
  /\ Leave(t)

SemaWakeSpuriously(t) ==
  /\ t \in sleeping
  /\ sleeping' = sleeping \ {t} /\ woken' = woken \cup {t}
  /\ UNCHANGED <<count, need, timed>>

SemaNext ==
  \/ \E n \in Signals : Signal(n)
  \/ \E t \in Waiters :
       \/ \E n \in Needs, isTimed \in BOOLEAN : SemaWait(t, n, isTimed)
       \/ SemaResume(t) \/ SemaTimeout(t) \/ SemaWakeSpuriously(t)

\* A woken thread gets the mutex; nothing else is sure to happen.
SemaFairness == \A t \in Waiters : WF_semaVars(SemaResume(t))

SemaSpec == SemaInit /\ [][SemaNext]_semaVars /\ SemaFairness

------------------------------------------------------------------------------
\* Every variable keeps its type; the count is never negative nor above its
\* maximum, whoever is notified and whoever comes first.
SemaTypeOK ==
  /\ count \in 0 .. MaxCount
  /\ sleeping \subseteq Waiters /\ woken \subseteq Waiters /\ sleeping \cap woken = {}
  /\ need \in [InSemaWait -> Needs \cap (1 .. MaxCount)]
  /\ timed \subseteq InSemaWait

\* A count that could be taken is on its way to somebody: while a thread
\* sleeps, the count is no more than the woken threads will take.
\* Signal() notifies one thread whatever the count it adds, so this holds only
\* of semaphores that are signalled and waited for by one at a time.
CountIsClaimed == sleeping # {} => count <= Cardinality(woken)

\* No thread is left in Wait() while the count it needs stays available, under
\* the same condition.
SemaForgetsNone ==
  \A t \in Waiters : ~ <>[](t \in InSemaWait /\ count >= need[t])
==============================================================================
