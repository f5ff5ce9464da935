--------------------------- MODULE MCVltMemoryParts ---------------------------
(***************************************************************************)
(* The memory of the device, level by level: a chunk and the vector that   *)
(* implements its free list (MCVltMemoryChunk), the allocator over heaps,  *)
(* types and chunks, and the staging buffers of a context.  A behaviour is *)
(* of one level, with the variables of the others at rest.                 *)
(***************************************************************************)
EXTENDS MCVltMemoryChunk, VltMemoryAllocator, VltStaging

VARIABLE level  \* "chunk", "allocator", "staging"

chunkVars == allVars
memoryVars == <<level, chunkVars, allocatorVars, stagingVars>>

ChunkAtRest == Init /\ m_freeList = <<>> /\ vector = FALSE
AllocatorAtRest == AllocatorInit
StagingAtRest == StagingInit

MemoryInit ==
  \/ level = "chunk" /\ MCInit /\ AllocatorAtRest /\ StagingAtRest
  \/ level = "allocator" /\ AllocatorInit /\ ChunkAtRest /\ StagingAtRest
  \/ level = "staging" /\ StagingInit /\ ChunkAtRest /\ AllocatorAtRest

ChunkStep ==
  level = "chunk" /\ (SetStep \/ VectorStep) /\ UNCHANGED <<level, allocatorVars, stagingVars>>
AllocatorStep ==
  level = "allocator" /\ AllocatorNext /\ UNCHANGED <<level, chunkVars, stagingVars>>
StagingStep ==
  level = "staging" /\ StagingNext /\ UNCHANGED <<level, chunkVars, allocatorVars>>

MemorySpec == MemoryInit /\ [][ChunkStep \/ AllocatorStep \/ StagingStep]_memoryVars

(* The types of the three levels.                                          *)
MemoryTypeOK == TypeOK /\ AllocatorTypeOK /\ StagingTypeOK
===============================================================================
