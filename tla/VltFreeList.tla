----------------------------- MODULE VltFreeList -----------------------------
(***************************************************************************)
(* A VltMemoryChunk with its free list kept as a vector.  It implements    *)
(* VltMemoryChunk, whose free list is the set of the vector's elements     *)
(* (MCVltMemoryChunk).                                                     *)
(***************************************************************************)
EXTENDS VltSliceList

CONSTANTS MemSize, Sizes, Aligns

VARIABLES m_freeList, live

vars == <<m_freeList, live>>

Init ==
  /\ m_freeList = <<Slice(0, MemSize)>>
  /\ live = {}

Alloc(size, align) ==
  /\ CanAlloc(m_freeList, size, align)
  /\ live' = live \cup {AllocSlice(m_freeList, size, align)}
  /\ m_freeList' = ListAfterAlloc(m_freeList, size, align)

Free(m) ==
  /\ m \in live
  /\ live' = live \ {m}
  /\ m_freeList' = ListAfterFree(m_freeList, m)

Next ==
  \/ \E size \in Sizes, align \in Aligns : Alloc(size, align)
  \/ \E m \in live : Free(m)

Spec == Init /\ [][Next]_vars

=============================================================================
