----------------------------- MODULE SceEventFlag -----------------------------
(***************************************************************************)
(* An event flag: a set of bits that threads set, and wait for under a     *)
(* mutex and a condition variable.  What a thread does while it holds the  *)
(* mutex is one step.  A thread that waits on the condition variable is in *)
(* waiting until it is notified, then in notified until it has the mutex   *)
(* again.                                                                  *)
(*                                                                         *)
(* Source: SceModules/SceLibkernel/SceEventFlag.cpp.  Poll, Clear and      *)
(* Cancel are not implemented there.                                       *)
(***************************************************************************)
EXTENDS Naturals, FiniteSets, Functions

CONSTANTS
  Threads,
  Bits,      \* the bits of the flag that are used
  Patterns,  \* sets of bits the game sets and waits for
  Requests   \* the waits the game makes, of those in AllRequests

AllRequests ==
  [pattern : Patterns, all : BOOLEAN, clear : {"nothing", "all", "pattern"}, timed : BOOLEAN]

ASSUME EventFlagAssumption ==
  /\ Patterns \subseteq (SUBSET Bits) \ {{}}
  /\ Requests \subseteq AllRequests

VARIABLES
  single,      \* IsSingleMode()
  bitPattern,  \* m_bitPattern, as the set of its bits
  anyWaiting,  \* m_anyWaiting
  waiting,     \* threads on the condition variable
  notified,    \* threads that have left it and want the mutex
  request,     \* what each of these called Wait() with
  returned     \* what the last step returned from a Wait(), if it did

vars == <<single, bitPattern, anyWaiting, waiting, notified, request, returned>>

InWait == waiting \cup notified

Returns ==
  [request : Requests, err : {"ok", "eperm", "etimedout"}, found : SUBSET Bits, blocked : BOOLEAN]

Init ==
  /\ single \in BOOLEAN
  /\ bitPattern \in {{}, Bits}
  /\ anyWaiting = FALSE
  /\ waiting = {} /\ notified = {}
  /\ request = [t \in {} |-> {}]
  /\ returned = {}

------------------------------------------------------------------------------
\* Fault: one thread is woken although several may wait.
NotifyOne(kept) ==
  \/ waiting = {} /\ kept = {}
  \/ \E t \in waiting : kept = waiting \ {t}

\* kept is what the notification leaves on the condition variable.
Notify(kept) ==
  \/ single /\ waiting = {} /\ kept = {}
  \/ single /\ \E t \in waiting : kept = waiting \ {t}
  \/ ~single /\ kept = {}

Set(pattern) ==
  /\ bitPattern' = bitPattern \cup pattern
  /\ \E kept \in SUBSET waiting :
       /\ Notify(kept)
       /\ waiting' = kept
       /\ notified' = notified \cup (waiting \ kept)
  /\ UNCHANGED <<anyWaiting, request>>
  /\ returned' = {}

------------------------------------------------------------------------------
\* The test before the wait, and the predicate of the wait.
IsConditionMet(r) ==
  IF r.all THEN bitPattern \subseteq r.pattern ELSE bitPattern \cap r.pattern # {}

Predicate(r) ==
  IF r.all THEN r.pattern \subseteq bitPattern ELSE bitPattern \cap r.pattern # {}

\* The bits after a wait whose condition is met.
Cleared(r) ==
  CASE r.clear = "nothing" -> bitPattern
    [] r.clear = "all"     -> {}
    [] r.clear = "pattern" -> bitPattern \ r.pattern

\* Fault: a wait that was refused clears the mark of the one that waits.
FinishAlways(t, r, err) ==
  /\ anyWaiting' = FALSE
  /\ returned' = {[request |-> r, err |-> err, found |-> bitPattern, blocked |-> t \in InWait]}
  /\ bitPattern' = IF err = "ok" THEN Cleared(r) ELSE bitPattern

\* What Wait() does before it returns.
Finish(t, r, err) ==
  /\ anyWaiting' = IF single /\ err # "eperm" THEN FALSE ELSE anyWaiting
  /\ returned' = {[request |-> r, err |-> err, found |-> bitPattern, blocked |-> t \in InWait]}
  /\ bitPattern' = IF err = "ok" THEN Cleared(r) ELSE bitPattern

\* Wait() up to its return or to the condition variable.
Wait(t, r) ==
  /\ t \notin InWait
  /\ UNCHANGED notified
  /\ \/ /\ single /\ anyWaiting
        /\ Finish(t, r, "eperm")
        /\ UNCHANGED <<waiting, request>>
     \/ /\ ~(single /\ anyWaiting)
        /\ IsConditionMet(r) \/ Predicate(r)
        /\ Finish(t, r, "ok")
        /\ UNCHANGED <<waiting, request>>
     \/ /\ ~(single /\ anyWaiting)
        /\ ~IsConditionMet(r) /\ ~Predicate(r)
        /\ waiting' = waiting \cup {t}
        /\ anyWaiting' = single
        /\ request' = [u \in InWait \cup {t} |-> IF u = t THEN r ELSE request[u]]
        /\ returned' = {}
        /\ UNCHANGED bitPattern

\* Fault: the predicate is not tested again.
ResumeUntested(t) ==
  /\ t \in notified
  /\ notified' = notified \ {t}
  /\ request' = Restrict(request, InWait \ {t})
  /\ Finish(t, request[t], "ok")
  /\ UNCHANGED waiting

\* A notified thread has the mutex again and tests the predicate.
Resume(t) ==
  /\ t \in notified
  /\ notified' = notified \ {t}
  /\ \/ /\ Predicate(request[t])
        /\ Finish(t, request[t], "ok")
        /\ request' = Restrict(request, InWait \ {t})
        /\ UNCHANGED waiting
     \/ /\ ~Predicate(request[t])
        /\ waiting' = waiting \cup {t}
        /\ returned' = {}
        /\ UNCHANGED <<bitPattern, anyWaiting, request>>

\* Fault: a thread whose time is over remains among the notified.
TimeoutStaying(t) ==
  /\ t \in InWait /\ request[t].timed
  /\ Finish(t, request[t], IF Predicate(request[t]) THEN "ok" ELSE "etimedout")
  /\ waiting' = waiting \ {t} /\ UNCHANGED notified
  /\ request' = Restrict(request, InWait \ {t})

\* The time of wait_for is over; it tests the predicate a last time.
Timeout(t) ==
  /\ t \in InWait /\ request[t].timed
  /\ Finish(t, request[t], IF Predicate(request[t]) THEN "ok" ELSE "etimedout")
  /\ waiting' = waiting \ {t} /\ notified' = notified \ {t}
  /\ request' = Restrict(request, InWait \ {t})

\* A condition variable may wake a thread that nobody notified.
WakeSpuriously(t) ==
  /\ t \in waiting
  /\ waiting' = waiting \ {t} /\ notified' = notified \cup {t}
  /\ returned' = {}
  /\ UNCHANGED <<bitPattern, anyWaiting, request>>

Next ==
  /\ \/ \E pattern \in Patterns : Set(pattern)
     \/ \E t \in Threads :
          \/ \E r \in Requests : Wait(t, r)
          \/ Resume(t) \/ Timeout(t) \/ WakeSpuriously(t)
  /\ UNCHANGED single

\* A notified thread gets the mutex; nothing else is sure to happen.
Fairness == \A t \in Threads : WF_vars(Resume(t) /\ UNCHANGED single)

Spec == Init /\ [][Next]_vars /\ Fairness

------------------------------------------------------------------------------
\* Every variable keeps its type.
TypeOK ==
  /\ single \in BOOLEAN /\ bitPattern \subseteq Bits
  /\ anyWaiting \in BOOLEAN
  /\ waiting \subseteq Threads /\ notified \subseteq Threads /\ waiting \cap notified = {}
  /\ request \in [InWait -> Requests]
  /\ returned \subseteq Returns

\* A flag for one thread has at most one thread in Wait(), and m_anyWaiting
\* says exactly whether it has, through refusals, timeouts and wake-ups.
SingleWaiter ==
  single => Cardinality(InWait) <= 1 /\ (anyWaiting <=> InWait # {})

Satisfies(bits, r) ==
  IF r.all THEN r.pattern \subseteq bits ELSE bits \cap r.pattern # {}

\* A thread that had to wait and returns OK found what it waited for, although
\* other threads clear bits between its notification and its return.
BlockedFindsPattern ==
  \A r \in returned : r.err = "ok" /\ r.blocked => Satisfies(r.found, r.request)

\* The same for every wait that returns OK.  A wait for all of a pattern that
\* does not block does not keep to it.
OkFindsPattern ==
  \A r \in returned : r.err = "ok" => Satisfies(r.found, r.request)

\* No thread is left in Wait() while what it waits for stays true: a wake-up
\* is never lost.
NoneForgotten ==
  \A t \in Threads : ~ <>[](t \in InWait /\ Satisfies(bitPattern, request[t]))
==============================================================================
