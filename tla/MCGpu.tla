-------------------------------- MODULE MCGpu --------------------------------
(* The labels, or the ring of a compute queue: a behaviour is of the one or  *)
(* of the other, with the variables of the other at rest.  (The threads that *)
(* ring the doorbell are the Computes of the labels.)                        *)
EXTENDS GnmLabels, SceComputeQueue

VARIABLE part

gpuPartVars == <<part, vars, ringVars>>

(* Init and RingInit determine their variables: a part that is not run stays *)
(* where it begins.                                                          *)
GpuInit == part \in {"labels", "ring"} /\ Init /\ RingInit

LabelStep == part = "labels" /\ Next /\ UNCHANGED <<part, ringVars>>
RingStep == part = "ring" /\ RingNext /\ UNCHANGED <<part, vars>>

RingFairness == WF_ringVars(part = "ring" /\ Driver)
LabelFairness ==
  /\ \A t \in Threads : WF_vars(part = "labels" /\ Proceed(t))
  /\ WF_vars(part = "labels" /\ Cleanup)
  /\ \A a \in Addrs : WF_vars(part = "labels" /\ RunTask(a))
  /\ \A q \in Queues : WF_vars(part = "labels" /\ GpuStep(q))

GpuSpec ==
  GpuInit /\ [][LabelStep \/ RingStep]_gpuPartVars /\ LabelFairness /\ RingFairness

(* Every variable of the labels and of the ring keeps its type.  *)
GpuTypeOK == TypeOK /\ RingTypeOK
==============================================================================
