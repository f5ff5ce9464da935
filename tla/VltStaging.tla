------------------------------ MODULE VltStaging ------------------------------
(***************************************************************************)
(* The staging allocator of a recording context: a ring of host-visible    *)
(* buffers from which uploads, updates and downloads take slices that the  *)
(* command list reads when it is submitted.  A buffer is reused from its   *)
(* start as soon as its use count says that no list reads it.              *)
(*                                                                         *)
(* Source: Graphics/Violet/VltStaging.cpp and its callers in               *)
(* VltContext.cpp; Util/UtilMath.h (align).                                *)
(***************************************************************************)
EXTENDS Naturals, Sequences

CONSTANTS
  Buffers,         \* identities a staging buffer can have
  Nil,
  MaxBufferSize,   \* size of a ring buffer
  MaxBufferCount,  \* buffers kept besides the current one
  LineSize,        \* CACHE_LINE_SIZE
  DataSizes,       \* sizes of the data uploaded and downloaded
  UpdateSizes,     \* sizes of the data of updates
  AlignUp(_, _),   \* util::align
  MaxPending       \* bound: slices recorded in one command list

ASSUME StagingAssumption ==
  /\ Nil \notin Buffers
  /\ MaxBufferSize \in Nat /\ MaxBufferCount \in Nat \ {0} /\ LineSize \in Nat \ {0}
  /\ DataSizes \subseteq Nat \ {0} /\ UpdateSizes \subseteq Nat \ {0}
  /\ MaxPending \in Nat

\* Aligning to the line size rounds up, by less than a line.
ASSUME AlignAssumption ==
  \A x \in 0 .. MaxBufferSize + LineSize : AlignUp(x, LineSize) \in x .. x + LineSize

VARIABLES
  buffer,   \* m_buffer
  offset,   \* m_offset
  buffers,  \* m_buffers
  inUse,    \* buffers with a nonzero use count
  pending   \* slices written by the CPU that the list has yet to read

stagingVars == <<buffer, offset, buffers, inUse, pending>>

StagingInit ==
  /\ buffer = Nil
  /\ offset = 0
  /\ buffers = <<>>
  /\ inUse = {}
  /\ pending = <<>>

Held == {buffer} \cup {buffers[i] : i \in 1 .. Len(buffers)}
NewBuffers == Buffers \ (Held \cup inUse)

\* The current buffer, and where the next slice would start in it.
Current(new) == IF buffer = Nil THEN new ELSE buffer
Start(new, align) == AlignUp(IF Current(new) \in inUse THEN offset ELSE 0, align)

\* The outcome of alloc(): the allocator's next state and the slice's place.
TooLarge(new) ==
  [buffer |-> buffer, offset |-> offset, buffers |-> buffers, from |-> new, start |-> 0]

InCurrent(new, size, align) ==
  [buffer |-> Current(new), offset |-> AlignUp(Start(new, align) + size, align),
   buffers |-> buffers, from |-> Current(new), start |-> Start(new, align)]

\* The current buffer is put aside, if there is room, and the oldest one that
\* was put aside is taken unless it is in use.
Kept(new) ==
  IF Len(buffers) < MaxBufferCount THEN Append(buffers, Current(new)) ELSE buffers

\* Fault: the oldest buffer is taken without asking whether it is in use.
InOldestUnchecked(new, size, align) ==
  [buffer |-> Head(Kept(new)), offset |-> AlignUp(size, align), buffers |-> Tail(Kept(new)),
   from |-> Head(Kept(new)), start |-> 0]

InAnother(new, size, align) ==
  LET idle == Head(Kept(new)) \notin inUse
      next == IF idle THEN Head(Kept(new)) ELSE new
  IN  [buffer |-> next, offset |-> AlignUp(size, align),
       buffers |-> IF idle THEN Tail(Kept(new)) ELSE Kept(new),
       from |-> next, start |-> 0]

\* Fault: the slice is not checked against the end of the buffer.
AllocUnbounded(new, size, align) ==
  IF size > MaxBufferSize THEN TooLarge(new)
  ELSE InCurrent(new, size, align)

StagingAlloc(new, size, align) ==
  IF size > MaxBufferSize THEN TooLarge(new)
  ELSE IF Start(new, align) + size <= MaxBufferSize THEN InCurrent(new, size, align)
  ELSE InAnother(new, size, align)

\* size bytes of data are copied to where the slice starts.
Staged(a, size) == [buffer |-> a.from, first |-> a.start, end |-> a.start + size]

AllocatorBecomes(a) ==
  /\ buffer' = a.buffer
  /\ offset' = a.offset
  /\ buffers' = a.buffers

\* Stage data through the slice a: copy it, record the copy, track the buffer.
Stage(a, size) ==
  /\ AllocatorBecomes(a)
  /\ inUse' = inUse \cup {a.from}
  /\ pending' = Append(pending, Staged(a, size))

\* uploadBuffer and uploadImage.
Upload(size) ==
  /\ Len(pending) < MaxPending
  /\ \E new \in NewBuffers : Stage(StagingAlloc(new, size, LineSize), size)

\* updateBuffer and updateImage pass the arguments of alloc() in the other
\* order: a line is allocated, aligned to the size of the data.
Update(size) ==
  /\ Len(pending) < MaxPending
  /\ \E new \in NewBuffers : Stage(StagingAlloc(new, LineSize, size), size)

\* The list is submitted and waited for; its staged data have been read.  The
\* use counts go back, except those of a recycled list (VltLifetimeTracker):
\* here any of them may stay.  A buffer only the list referred to is gone.
ListCompletes ==
  /\ pending' = <<>>
  /\ \E used \in SUBSET inUse : inUse' = used \cap Held'

Flush ==
  /\ pending # <<>>
  /\ UNCHANGED <<buffer, offset, buffers>>
  /\ ListCompletes

\* downloadBuffer: the slice is written by the list it flushes, is read back
\* at once, and its buffer is not tracked.
Download(size) ==
  /\ \E new \in NewBuffers : AllocatorBecomes(StagingAlloc(new, size, LineSize))
  /\ ListCompletes

StagingNext ==
  \/ \E size \in DataSizes : Upload(size) \/ Download(size)
  \/ \E size \in UpdateSizes : Update(size)
  \/ Flush

StagingSpec == StagingInit /\ [][StagingNext]_stagingVars

------------------------------------------------------------------------------
\* Every variable keeps its type.
StagedSlices == [buffer : Buffers, first : Nat, end : Nat]
StagingTypeOK ==
  /\ buffer \in Buffers \cup {Nil}
  /\ offset \in Nat
  /\ buffers \in Seq(Buffers) /\ Len(buffers) <= MaxBufferCount
  /\ inUse \subseteq Buffers
  /\ pending \in Seq(StagedSlices)

\* Data staged for a list stay as they are until the list has read them: no
\* two pending slices share a byte, however buffers are reused
\* (VltStagingDataAlloc::alloc).
StagedDataIntact ==
  \A i, j \in 1 .. Len(pending) :
    i # j /\ pending[i].buffer = pending[j].buffer =>
      pending[i].end <= pending[j].first \/ pending[j].end <= pending[i].first

\* Every slice ends inside its buffer; a buffer made for one large slice has
\* the size of the slice and is not kept (VltStagingDataAlloc::alloc).
SlicesInside ==
  \A i \in 1 .. Len(pending) :
    \/ pending[i].end <= MaxBufferSize
    \/ pending[i].first = 0 /\ pending[i].buffer \notin Held

==============================================================================
