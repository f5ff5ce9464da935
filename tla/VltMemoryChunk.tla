--------------------------- MODULE VltMemoryChunk ---------------------------
(***************************************************************************)
(* One VltMemoryChunk: a block of device memory that is sub-allocated      *)
(* (Graphics/Violet/VltMemory.cpp).  Every call is made under the          *)
(* allocator's mutex, so each is one action.  live holds the VltMemory     *)
(* objects handed out and not yet destroyed.                               *)
(***************************************************************************)
EXTENDS VltSlices

CONSTANTS MemSize,  \* m_memory.memSize
          Sizes,    \* the sizes callers request
          Aligns    \* the alignments callers request

ASSUME ChunkAssumption ==
  /\ MemSize \in Nat \ {0}
  /\ Sizes \subseteq Nat \ {0}
  /\ Aligns \subseteq Nat \ {0}

VARIABLES freeList, live

vars == <<freeList, live>>

Init ==
  /\ freeList = {Slice(0, MemSize)}
  /\ live = {}

Alloc(size, align) ==
  \E s \in BestSlices(freeList, size) :
    /\ Fits(s, size, align)
    /\ freeList' = Carve(freeList, s, size, align)
    /\ live' = live \cup {Allocated(s, size, align)}

Free(m) ==
  /\ m \in live
  /\ live' = live \ {m}
  /\ freeList' = Coalesce(freeList, m)

IsEmpty == \E s \in freeList : freeList = {s} /\ s.length = MemSize

Next ==
  \/ \E size \in Sizes, align \in Aligns : Alloc(size, align)
  \/ \E m \in live : Free(m)

Spec == Init /\ [][Next]_vars

-----------------------------------------------------------------------------
TypeOK ==
  /\ freeList \subseteq SliceType
  /\ live \subseteq SliceType

Slices == freeList \cup live

(* No byte belongs to two slices: what is handed out is handed out once,   *)
(* and is not in the free list while it is in use.                         *)
NoOverlap ==
  /\ freeList \cap live = {}
  /\ \A s, t \in Slices : s # t => Disjoint(s, t)

(* No byte is lost: the free list and the live allocations cover exactly   *)
(* the chunk, whatever the alignment gaps were.                            *)
NoLeak ==
  /\ \A s \in Slices : End(s) <= MemSize
  /\ \A b \in 0 .. MemSize - 1 : \E s \in Slices : s.offset <= b /\ b < End(s)

(* free() leaves no two adjacent free slices, in whatever order the        *)
(* allocations die ("could not be reused for larger allocations").         *)
Coalesced == \A s, t \in freeList : End(s) # t.offset

(* isEmpty() looks only at the free list; the allocator destroys a chunk   *)
(* on its word, so it must be true exactly when no allocation is left.     *)
EmptyIsUnused == IsEmpty <=> live = {}
=============================================================================
