-------------------------- MODULE MCVltCommandLists --------------------------
(* The command lists and the resources they track; or the descriptor pools   *)
(* they track; or the barriers, render passes and deferred clears that one   *)
(* context records.  A behaviour is of one of them, with the variables of    *)
(* the others at rest.                                                       *)
EXTENDS VltCommandLists, VltDescriptorPools, VltContext

(* Depth images are larger than colour images. *)
MCSides == [i \in Colors \cup Depths |-> IF i \in Colors THEN 1 ELSE 2]

VARIABLE part

commandVars == <<part, vars, poolVars, context>>

CommandsInit ==
  part \in {"lists", "pools", "context"} /\ Init /\ PoolsInit /\ ContextInit

CommandsNext ==
  /\ UNCHANGED part
  /\ \/ part = "lists" /\ Next /\ UNCHANGED <<poolVars, context>>
     \/ part = "pools" /\ PoolsNext /\ UNCHANGED <<vars, context>>
     \/ part = "context" /\ ContextNext /\ UNCHANGED <<vars, poolVars>>

(* A thread inside submit() is scheduled and the GPU makes progress. *)
CommandsSpec ==
  /\ CommandsInit /\ [][CommandsNext]_commandVars
  /\ \A c \in Contexts : WF_vars(part = "lists" /\ (Synchronize(c) \/ Reset(c) \/ Recycle(c)))
  /\ WF_vars(part = "lists" /\ GpuFinish)

(* Every variable of the three keeps its type. *)
CommandsTypeOK == TypeOK /\ PoolsTypeOK /\ ContextTypeOK
=============================================================================
