--------------------------- MODULE MCVltMemoryChunk ---------------------------
(* VltMemoryChunk by itself and as VltFreeList implements it: a behaviour is *)
(* one of the set of slices, with every choice among the best slices, or one *)
(* of the vector, with the slices that it holds in freeList.                 *)
EXTENDS VltMemoryChunk

VARIABLES m_freeList, vector

allVars == <<freeList, live, m_freeList, vector>>

List == INSTANCE VltFreeList

MCInit ==
  \/ vector = FALSE /\ Init /\ m_freeList = <<>>
  \/ vector = TRUE /\ List!Init /\ freeList = List!ToSet(m_freeList)

SetStep == ~vector /\ Next /\ UNCHANGED <<m_freeList, vector>>

VectorStep ==
  /\ vector
  /\ List!Next
  /\ freeList' = List!ToSet(m_freeList')
  /\ UNCHANGED vector

MCSpec == MCInit /\ [][SetStep \/ VectorStep]_allVars

(* The vector with its first-found scan and its single pass implements the *)
(* set of slices: mapped to the set of its slices, every step of VltFreeList *)
(* is one of VltMemoryChunk.                                               *)
Chunk == INSTANCE VltMemoryChunk WITH
           freeList <- IF vector THEN List!ToSet(m_freeList) ELSE freeList
ImplementsChunk == Chunk!Spec
===============================================================================
