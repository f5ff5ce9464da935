----------------------------- MODULE VltListLife -----------------------------
(***************************************************************************)
(* The life of a command list, as those who use lists may rely on it:      *)
(* abstract specification of Graphics/Violet/VltQueue.cpp, VltCmdList.cpp  *)
(* and VltRecycler.h.  A list belongs to one context from beginRecording   *)
(* to the end of submit(), and in between it is recorded, submitted,       *)
(* executed and returned, in this order.                                   *)
(*                                                                         *)
(* What the driver may break, if it fails, is that the list was executed   *)
(* when it is returned: a wait that ends with an error and a fence whose   *)
(* reset fails make the list they are for loose, and no other.             *)
(*                                                                         *)
(* How a list is found and kept (recycler, references, fences, the VkQueue *)
(* and its order) is in VltCommandLists, which implements this;            *)
(* VltDescriptorPools takes its steps by it.                               *)
(***************************************************************************)
EXTENDS VltThreads

CONSTANTS
  Lists,       \* identities a command list object can have
  DriverFails  \* whether waits and resets of fences may fail

VARIABLES
  owned,    \* context -> the list it records or submits
  stage,    \* context -> what is done with its list
  running,  \* lists the GPU has
  loose     \* lists whose fence does not tell whether the GPU has them

lifeVars == <<owned, stage, running, loose>>

LifeInit ==
  /\ owned = [c \in Contexts |-> Nil]
  /\ stage = [c \in Contexts |-> "idle"]
  /\ running = {}
  /\ loose = {}

\* The driver fails for the list.
Loosen(l) == DriverFails /\ loose' = loose \cup {l}

\* beginRecording, with a list that is no context's and that the GPU does not
\* have, unless it is loose.  A context that records already gives up its list
\* for it.
Begin(c) ==
  /\ stage[c] \in {"idle", "recording"}
  /\ stage' = [stage EXCEPT ![c] = "recording"]
  /\ \E l \in Lists :
       /\ \A d \in Contexts : owned[d] # l
       /\ owned' = [owned EXCEPT ![c] = l]
       /\ loose' \in {loose, loose \ {l}} \/ Loosen(l)
       /\ l \in running => l \in loose'
  /\ UNCHANGED running

\* The submission, which the driver may refuse.
Submitted(c) ==
  /\ stage[c] = "recording"
  /\ stage' = [stage EXCEPT ![c] = "pending"]
  /\ running' \in {running, running \cup {owned[c]}}
  /\ UNCHANGED <<owned, loose>>

\* The GPU is done with a list.
Finished(l) == running' = running \ {l} /\ UNCHANGED <<owned, stage, loose>>

\* The end of the wait: the list was executed by now, unless it is loose.
Executed(c) ==
  /\ stage[c] = "pending"
  /\ stage' = [stage EXCEPT ![c] = "executed"]
  /\ running' \in {running, running \ {owned[c]}}
  /\ loose' = loose \/ Loosen(owned[c])
  /\ owned[c] \in running' => owned[c] \in loose'
  /\ UNCHANGED owned

\* The end of submit(): the list may be given to another context.
Return(c) ==
  /\ stage[c] = "executed"
  /\ stage' = [stage EXCEPT ![c] = "idle"]
  /\ owned' = [owned EXCEPT ![c] = Nil]
  /\ UNCHANGED <<running, loose>>

LifeNext ==
  \/ \E c \in Contexts : Begin(c) \/ Submitted(c) \/ Executed(c) \/ Return(c)
  \/ \E l \in running : Finished(l)

LifeSpec == LifeInit /\ [][LifeNext]_lifeVars
==============================================================================
