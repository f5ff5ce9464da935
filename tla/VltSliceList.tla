---------------------------- MODULE VltSliceList ----------------------------
(***************************************************************************)
(* The free list of a VltMemoryChunk as the vector the code keeps: the     *)
(* scan that picks a slice, the order of the push_backs and the single     *)
(* coalescing pass of free() (Graphics/Violet/VltMemory.cpp).              *)
(***************************************************************************)
EXTENDS VltSlices, Sequences, SequencesExt

(* The loop stops at the first exact match; otherwise it keeps the first   *)
(* of the longest slices.                                                  *)
BestFitIndex(list, size) ==  \* Fault: best fit instead of worst fit.
  LET fitting == {i \in DOMAIN list : list[i].length >= size}
      I == IF fitting = {} THEN DOMAIN list ELSE fitting
  IN  CHOOSE i \in I : \A j \in I : list[i].length <= list[j].length

BestIndex(list, size) ==
  LET exact == {i \in DOMAIN list : list[i].length = size}
      longest == {i \in DOMAIN list : \A j \in DOMAIN list : list[j].length <= list[i].length}
      First(I) == CHOOSE i \in I : \A j \in I : i <= j
  IN  IF exact # {} THEN First(exact) ELSE First(longest)

CanAlloc(list, size, align) ==
  /\ list # <<>>
  /\ Fits(list[BestIndex(list, size)], size, align)

AllocSlice(list, size, align) ==
  Allocated(list[BestIndex(list, size)], size, align)

ListAfterAlloc(list, size, align) ==
  LET i == BestIndex(list, size)
      s == list[i]
      from == AllocStart(s, align)
      to == AllocEnd(s, size, align)
      left == IF from # s.offset THEN <<Slice(s.offset, from - s.offset)>> ELSE <<>>
      right == IF to # End(s) THEN <<Slice(to, End(s) - to)>> ELSE <<>>
  IN  RemoveAt(list, i) \o left \o right

(* One pass from front to back: the slice being freed grows as it absorbs  *)
(* a neighbour, and the neighbour is erased.                               *)
AbsorbOne(acc, s) ==
  IF s.offset = End(acc.freed)
  THEN [acc EXCEPT !.freed = Slice(@.offset, @.length + s.length)]
  ELSE IF End(s) = acc.freed.offset
  THEN [acc EXCEPT !.freed = Slice(@.offset - s.length, @.length + s.length)]
  ELSE [acc EXCEPT !.kept = Append(@, s)]

(* The slice and the list after the first n slices have been looked at.     *)
Pass(list, m) ==
  LET after[n \in 0 .. Len(list)] ==
        IF n = 0 THEN [freed |-> m, kept |-> <<>>]
                 ELSE AbsorbOne(after[n - 1], list[n])
  IN  after

ListAfterFree(list, m) ==
  LET end == Pass(list, m)[Len(list)]
  IN  Append(end.kept, end.freed)

ListIsEmpty(list, memSize) == Len(list) = 1 /\ list[1].length = memSize
=============================================================================
