-------------------------- MODULE VltDescriptorPools --------------------------
(***************************************************************************)
(* Descriptor pools.  A context allocates descriptor sets from one pool    *)
(* until it is full, for one command list after another; the list that is  *)
(* being recorded when it fills up tracks it, and resets and recycles it   *)
(* when it is reset itself.  The contexts share the recycler of the pools. *)
(*                                                                         *)
(* A list is known here by the context that records and submits it: no two *)
(* have one list, and it is reset after it was executed (VltCommandLists). *)
(* The waits for the lists and the resets of their fences succeed here: a  *)
(* list that one of them fails for may be reset while the GPU has it, and  *)
(* the pools it tracks with it.                                            *)
(*                                                                         *)
(* Source: Graphics/Violet/VltDescriptor.cpp, VltContext.cpp               *)
(* (allocateDescriptorSet), VltCmdList.cpp (reset), VltDevice.cpp,         *)
(* VltRecycler.h.                                                          *)
(***************************************************************************)
EXTENDS Naturals, Sequences, SequencesExt, VltThreads

CONSTANTS
  Pools,         \* identities a pool object can have
  PoolCapacity,  \* slots of m_recycledDescriptorPools
  MaxSets,       \* sets a pool holds (VltDescriptorPool)
  MaxPools       \* bound: pools a list tracks, and lists dropped

ASSUME PoolsAssumption == Nil \notin Pools
ASSUME PoolSizesAssumption == PoolCapacity \in Nat /\ MaxSets \in Nat \ {0}

VARIABLES
  phase,         \* context -> what is done to its list
  descPool,      \* context -> m_descPool
  allocated,     \* pool -> sets allocated since it was made or reset
  trackedPools,  \* context -> m_pools of the VltDescriptorPoolTracker of its list
  dropped,       \* m_pools of lists that are no context's and still referenced
  poolRecycler,  \* m_recycledDescriptorPools
  setsOf         \* context -> pools of the sets its list was recorded with

poolVars == <<phase, descPool, allocated, trackedPools, dropped, poolRecycler, setsOf>>

PoolsInit ==
  /\ phase = [c \in Contexts |-> "idle"]
  /\ descPool = [c \in Contexts |-> Nil]
  /\ allocated = [p \in Pools |-> 0]
  /\ trackedPools = [c \in Contexts |-> <<>>]
  /\ dropped = <<>>
  /\ poolRecycler = [objects |-> [i \in 1..PoolCapacity |-> Nil], id |-> 0]
  /\ setsOf = [c \in Contexts |-> {}]

\* retrieveObject copies out of its slot: a slot above m_objectId still
\* refers to its old pool.
ReferencedPools ==
  Range(descPool) \cup Range(poolRecycler.objects)
  \cup (UNION {Range(trackedPools[c]) : c \in Contexts})
  \cup (UNION {Range(d) : d \in Range(dropped)})
NewPools == Pools \ ReferencedPools

\* createDescriptorPool: a recycled pool if there is one, a new one otherwise.
\* One new pool is like any other.
CreateDescriptorPool(p) ==
  \/ /\ poolRecycler.id > 0
     /\ p = poolRecycler.objects[poolRecycler.id]
     /\ poolRecycler' = [poolRecycler EXCEPT !.id = @ - 1]
     /\ allocated' = [allocated EXCEPT ![p] = @ + 1]
  \/ /\ poolRecycler.id = 0
     /\ NewPools # {} /\ p = CHOOSE q \in NewPools : TRUE
     /\ allocated' = [allocated EXCEPT ![p] = 1]
     /\ UNCHANGED poolRecycler

Full(p) == allocated[p] = MaxSets

\* A command is recorded with a set of the pool, which the context keeps.
RecordWith(c, p) ==
  /\ setsOf' = [setsOf EXCEPT ![c] = @ \cup {p}]
  /\ descPool' = [descPool EXCEPT ![c] = p]

\* recycleDescriptorPool of one pool after the other: those for which the
\* buffer has no room are dropped.
Recycled(r, pools) ==
  LET room == PoolCapacity - r.id
      count == IF Len(pools) < room THEN Len(pools) ELSE room
  IN  [objects |-> [i \in 1..PoolCapacity |->
                      IF i - r.id \in 1..count THEN pools[i - r.id] ELSE r.objects[i]],
       id |-> r.id + count]

\* VltDescriptorPoolTracker::reset.
ResetPools(pools) ==
  /\ allocated' = [p \in Pools |-> IF p \in Range(pools) THEN 0 ELSE allocated[p]]
  /\ poolRecycler' = Recycled(poolRecycler, pools)

\* allocateDescriptorSet while the pool has room.
AllocateSet(c) ==
  /\ phase[c] = "recording"
  /\ descPool[c] # Nil /\ ~Full(descPool[c])
  /\ RecordWith(c, descPool[c])
  /\ allocated' = [allocated EXCEPT ![descPool[c]] = @ + 1]
  /\ UNCHANGED <<phase, trackedPools, dropped, poolRecycler>>

\* allocateDescriptorSet of a context without a pool.
AllocateFirstSet(c) ==
  /\ phase[c] = "recording"
  /\ descPool[c] = Nil
  /\ \E p \in Pools : CreateDescriptorPool(p) /\ RecordWith(c, p)
  /\ UNCHANGED <<phase, trackedPools, dropped>>

\* Fault: the full pool is reset at once, and allocated from again.
AllocateAfterReset(c) ==
  /\ phase[c] = "recording"
  /\ descPool[c] # Nil /\ Full(descPool[c])
  /\ ResetPools(<<descPool[c]>>)
  /\ setsOf' = [setsOf EXCEPT ![c] = @ \cup {descPool[c]}]
  /\ UNCHANGED <<phase, descPool, trackedPools, dropped>>

\* allocateDescriptorSet with a full pool: the list being recorded tracks it.
AllocateFromNext(c) ==
  /\ phase[c] = "recording"
  /\ descPool[c] # Nil /\ Full(descPool[c])
  /\ Len(trackedPools[c]) < MaxPools
  /\ trackedPools' = [trackedPools EXCEPT ![c] = Append(@, descPool[c])]
  /\ \E p \in Pools : CreateDescriptorPool(p) /\ RecordWith(c, p)
  /\ UNCHANGED <<phase, dropped>>

\* beginRecording.
BeginList(c) ==
  /\ phase[c] = "idle"
  /\ phase' = [phase EXCEPT ![c] = "recording"]
  /\ UNCHANGED <<descPool, allocated, trackedPools, dropped, poolRecycler, setsOf>>

\* beginRecording of a context that records already: its list is dropped, and
\* not reset before its last reference, a slot of the recycler, goes away.
BeginAnew(c) ==
  /\ phase[c] = "recording"
  /\ Len(dropped) < MaxPools
  /\ dropped' = Append(dropped, trackedPools[c])
  /\ trackedPools' = [trackedPools EXCEPT ![c] = <<>>]
  /\ setsOf' = [setsOf EXCEPT ![c] = {}]
  /\ UNCHANGED <<phase, descPool, allocated, poolRecycler>>

\* ~VltCommandList.
DestroyList(i) ==
  /\ ResetPools(dropped[i])
  /\ dropped' = RemoveAt(dropped, i)
  /\ UNCHANGED <<phase, descPool, trackedPools, setsOf>>

\* The submission, after which the GPU may use the sets.
SubmitList(c) ==
  /\ phase[c] = "recording"
  /\ phase' = [phase EXCEPT ![c] = "pending"]
  /\ UNCHANGED <<descPool, allocated, trackedPools, dropped, poolRecycler, setsOf>>

\* The fence is signalled.
ExecuteList(c) ==
  /\ phase[c] = "pending"
  /\ phase' = [phase EXCEPT ![c] = "executed"]
  /\ setsOf' = [setsOf EXCEPT ![c] = {}]
  /\ UNCHANGED <<descPool, allocated, trackedPools, dropped, poolRecycler>>

\* VltCommandList::reset of the list that was executed, and its recycling.
ResetList(c) ==
  /\ phase[c] = "executed"
  /\ phase' = [phase EXCEPT ![c] = "idle"]
  /\ ResetPools(trackedPools[c])
  /\ trackedPools' = [trackedPools EXCEPT ![c] = <<>>]
  /\ UNCHANGED <<descPool, dropped, setsOf>>

PoolsNext ==
  \/ \E c \in Contexts :
       \/ AllocateSet(c) \/ AllocateFirstSet(c) \/ AllocateFromNext(c)
       \/ BeginList(c) \/ BeginAnew(c) \/ SubmitList(c) \/ ExecuteList(c) \/ ResetList(c)
  \/ \E i \in DOMAIN dropped : DestroyList(i)

PoolsSpec == PoolsInit /\ [][PoolsNext]_poolVars

------------------------------------------------------------------------------
\* The list of a context, known by the context.
OwnList == [c \in Contexts |-> IF phase[c] = "idle" THEN Nil ELSE c]

PoolLife == INSTANCE VltListLife WITH
  Lists <- Contexts, owned <- OwnList, stage <- phase,
  running <- {c \in Contexts : phase[c] = "pending"}, loose <- {}, DriverFails <- FALSE

\* The lists the pools are tracked by are used as command lists are: what is
\* assumed of them here is what VltCommandLists guarantees when no wait and no
\* reset of a fence fails.
PoolListsFollowTheirLife == PoolLife!LifeSpec

\* Every variable keeps its type.
PoolsTypeOK ==
  /\ phase \in [Contexts -> {"idle", "recording", "pending", "executed"}]
  /\ descPool \in [Contexts -> Pools \cup {Nil}]
  /\ allocated \in [Pools -> 0..MaxSets]
  /\ trackedPools \in [Contexts -> Seq(Pools)]
  /\ dropped \in Seq(Seq(Pools))
  /\ poolRecycler \in [objects : [1..PoolCapacity -> Pools \cup {Nil}], id : 0..PoolCapacity]
  /\ setsOf \in [Contexts -> SUBSET Pools]

\* While a list is recorded or may be executed, the sets it was recorded with
\* stay valid: their pools are not reset, and no other context and no later
\* createDescriptorPool gets them, although a pool serves one list after
\* another and is reset with the last of them.
SetsOutliveTheirList ==
  \A c \in Contexts : \A p \in setsOf[c] :
    /\ allocated[p] > 0
    /\ \A i \in 1..poolRecycler.id : poolRecycler.objects[i] # p
    /\ \A d \in Contexts \ {c} : descPool[d] # p
==============================================================================
