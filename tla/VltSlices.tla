------------------------------ MODULE VltSlices ------------------------------
(***************************************************************************)
(* Slices of one block of Vulkan device memory, and what                   *)
(* VltMemoryChunk::alloc and VltMemoryChunk::free do to a free list        *)
(* (Graphics/Violet/VltMemory.cpp).  The free list is a set here: which of *)
(* several equally good slices the scan meets first is left open.          *)
(* VltFreeList keeps the vector and its order.                             *)
(***************************************************************************)
EXTENDS Integers

Slice(offset, length) == [offset |-> offset, length |-> length]

SliceType == [offset : Nat, length : Nat \ {0}]

End(s) == s.offset + s.length

Disjoint(s, t) == End(s) <= t.offset \/ End(t) <= s.offset

(* util::align: the least multiple of a that is not below x; its callers   *)
(* here pass powers of two, for which the bit mask of the code computes it *)
Align(x, a) == x + ((a - (x % a)) % a)

-----------------------------------------------------------------------------
(* Worst fit, except that a slice of exactly the requested size wins.      *)
BestSlices(free, size) ==
  IF \E s \in free : s.length = size
  THEN {s \in free : s.length = size}
  ELSE {s \in free : \A t \in free : t.length <= s.length}

AllocStart(s, align) == Align(s.offset, align)
AllocEnd(s, size, align) == Align(AllocStart(s, align) + size, align)

Fits(s, size, align) == AllocEnd(s, size, align) <= End(s)

Allocated(s, size, align) ==
  Slice(AllocStart(s, align), AllocEnd(s, size, align) - AllocStart(s, align))

(* Fault: an empty remainder goes back to the free list.                   *)
RemaindersWithEmpty(s, from, to) ==
  {Slice(s.offset, from - s.offset), Slice(to, End(s) - to)}

(* What is left of s on either side of the allocation [from, to).          *)
Remainders(s, from, to) ==
  {r \in {Slice(s.offset, from - s.offset), Slice(to, End(s) - to)} : r.length # 0}

(* Fault: the tail is taken to begin where the unaligned request would end. *)
CarveUnaligned(free, s, size, align) ==
  (free \ {s}) \cup Remainders(s, AllocStart(s, align), s.offset + size)

(* Fault: the gap skipped for the alignment is forgotten.                  *)
CarveLosesGap(free, s, size, align) ==
  (free \ {s}) \cup Remainders(s, s.offset, AllocEnd(s, size, align))

Carve(free, s, size, align) ==
  (free \ {s}) \cup Remainders(s, AllocStart(s, align), AllocEnd(s, size, align))

(* The free slices that end where m begins, or begin where m ends, are     *)
(* merged with m into one slice.                                           *)
Before(free, m) == {s \in free : End(s) = m.offset}
After(free, m) == {s \in free : s.offset = End(m)}

MergedStart(free, m) ==
  IF Before(free, m) = {} THEN m.offset
                          ELSE (CHOOSE s \in Before(free, m) : TRUE).offset
MergedEnd(free, m) ==
  IF After(free, m) = {} THEN End(m)
                         ELSE End(CHOOSE s \in After(free, m) : TRUE)

(* Fault: only the slice that follows is absorbed.                         *)
CoalesceForward(free, m) ==
  (free \ After(free, m)) \cup {Slice(m.offset, MergedEnd(free, m) - m.offset)}

Coalesce(free, m) ==
  (free \ (Before(free, m) \cup After(free, m)))
    \cup {Slice(MergedStart(free, m), MergedEnd(free, m) - MergedStart(free, m))}
=============================================================================
