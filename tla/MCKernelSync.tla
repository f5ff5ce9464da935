----------------------------- MODULE MCKernelSync -----------------------------
(* An event flag, a semaphore or the memory of the game: a behaviour is of   *)
(* one of them, with the variables of the others at rest.                    *)
EXTENDS SceEventFlag, SceSemaphore, GuestMemory

VARIABLE object  \* which of the three

MCPatterns == {{1}, {1, 2}}
Request(pattern, all, clear, timeout) ==
  [pattern |-> pattern, all |-> all, clear |-> clear, timed |-> timeout]
MCRequests ==
  {Request({1}, TRUE, "pattern", FALSE), Request({1, 2}, TRUE, "nothing", TRUE),
   Request({1, 2}, FALSE, "nothing", FALSE), Request({1}, FALSE, "all", TRUE)}

allVars == <<object, vars, semaVars, memoryVars>>

FlagAtRest ==
  /\ single = FALSE /\ bitPattern = {} /\ anyWaiting = FALSE
  /\ waiting = {} /\ notified = {} /\ request = [t \in {} |-> {}] /\ returned = {}

SemaAtRest ==
  count = 0 /\ sleeping = {} /\ woken = {} /\ need = [t \in {} |-> 0] /\ timed = {}

MCInit ==
  /\ MemoryInit
  /\ \/ object = "flag" /\ Init /\ SemaAtRest
     \/ object = "semaphore" /\ SemaInit /\ FlagAtRest
     \/ object = "memory" /\ SemaAtRest /\ FlagAtRest

MCNext ==
  /\ UNCHANGED object
  /\ \/ object = "flag" /\ Next /\ UNCHANGED <<semaVars, memoryVars>>
     \/ object = "semaphore" /\ SemaNext /\ UNCHANGED <<vars, memoryVars>>
     \/ object = "memory" /\ MemoryNext /\ UNCHANGED <<vars, semaVars>>

MCSpec == MCInit /\ [][MCNext]_allVars /\ Fairness /\ SemaFairness

(* Every variable of the three keeps its type; the semaphore's count stays *)
(* between 0 and its maximum, the host's mappings are disjoint.            *)
KernelTypeOK == TypeOK /\ SemaTypeOK /\ MemoryTypeOK
==============================================================================
