--------------------------- MODULE VltStagingProofs ---------------------------
(***************************************************************************)
(* Staged data stay intact, whatever the sizes, the order of the uploads   *)
(* and downloads and the use counts that recycled lists leave behind.      *)
(*                                                                         *)
(* The argument: a pending slice lies in a buffer that is in use           *)
(* (PendingInUse), and below the offset if the buffer is the current one   *)
(* (PendingBelow).  A slice is placed at the offset of the current buffer, *)
(* or at the start of a buffer that is not in use, so in either case clear *)
(* of the pending ones.                                                    *)
(***************************************************************************)
EXTENDS MCVltMemoryParts, VltMemoryAllocatorProofs, SequenceTheorems, TLAPS

PendingInUse == \A i \in 1 .. Len(pending) : pending[i].buffer \in inUse
PendingBelow ==
  \A i \in 1 .. Len(pending) : pending[i].buffer = buffer => pending[i].end <= offset

OffsetBounded == offset <= MaxBufferSize + LineSize

StagingInv ==
  /\ StagingTypeOK /\ OffsetBounded
  /\ PendingInUse /\ PendingBelow /\ StagedDataIntact

\* What alloc() returns: a next state of its type, and a slice that starts
\* above everything pending in the buffer it is taken from.  The slice is
\* within the offset if its buffer is current.
GoodAlloc(a, size) ==
  /\ a.buffer \in Buffers \cup {Nil} /\ a.from \in Buffers
  /\ a.offset \in Nat /\ a.offset <= MaxBufferSize + LineSize
  /\ a.buffers \in Seq(Buffers) /\ Len(a.buffers) <= MaxBufferCount
  /\ a.start \in Nat
  /\ \A i \in 1 .. Len(pending) : pending[i].buffer = a.from => pending[i].end <= a.start
  /\ a.buffer = a.from => a.start + size <= a.offset
  /\ \A i \in 1 .. Len(pending) : pending[i].buffer = a.buffer => pending[i].end <= a.offset

LEMMA AlignFacts ==
  ASSUME NEW x \in Nat, x <= MaxBufferSize + LineSize
  PROVE  AlignUp(x, LineSize) \in Nat /\ x <= AlignUp(x, LineSize)
           /\ AlignUp(x, LineSize) <= x + LineSize
  BY StagingAssumption, AlignAssumption

LEMMA PendingTypes ==
  ASSUME StagingTypeOK
  PROVE  \A i \in 1 .. Len(pending) : pending[i].end \in Nat /\ pending[i].first \in Nat
<1> TAKE i \in 1 .. Len(pending)
<1>1. pending \in Seq(StagedSlices)
  BY DEF StagingTypeOK
<1>2. pending[i] \in StagedSlices
  BY <1>1, ElementOfSeq
<1>3. QED BY <1>2 DEF StagedSlices

\* The buffers put aside keep their type and number, and there is an oldest.
LEMMA KeptFacts ==
  ASSUME StagingTypeOK, NEW new \in Buffers
  PROVE  /\ Kept(new) \in Seq(Buffers) /\ Len(Kept(new)) <= MaxBufferCount
         /\ Len(Kept(new)) > 0
         /\ Head(Kept(new)) \in Buffers
         /\ Tail(Kept(new)) \in Seq(Buffers) /\ Len(Tail(Kept(new))) <= MaxBufferCount
<1>1. Current(new) \in Buffers
  BY DEF Current, StagingTypeOK
<1>2. Kept(new) \in Seq(Buffers) /\ Len(Kept(new)) <= MaxBufferCount /\ Len(Kept(new)) > 0
  <2>1. CASE Len(buffers) < MaxBufferCount
    BY <1>1, <2>1, StagingAssumption DEF Kept, StagingTypeOK
  <2>2. CASE ~(Len(buffers) < MaxBufferCount)
    BY <2>2, StagingAssumption DEF Kept, StagingTypeOK
  <2>3. QED BY <2>1, <2>2
<1>3. Kept(new) # <<>>
  BY <1>2
<1>4. QED
  <2>1. /\ Head(Kept(new)) \in Buffers /\ Tail(Kept(new)) \in Seq(Buffers)
        /\ Len(Tail(Kept(new))) = Len(Kept(new)) - 1
    BY <1>2, <1>3, HeadTailProperties
  <2>2. QED BY <1>2, <2>1, StagingAssumption

LEMMA AllocIsGood ==
  ASSUME StagingInv, NEW new \in NewBuffers, NEW size \in Nat \ {0}
  PROVE  GoodAlloc(StagingAlloc(new, size, LineSize), size)
<1> DEFINE a == StagingAlloc(new, size, LineSize)
<1>1. new \in Buffers /\ new \notin inUse /\ new # buffer
  BY DEF NewBuffers, Held
<1>2. /\ size \in Nat /\ StagingTypeOK /\ OffsetBounded /\ PendingInUse /\ PendingBelow
      /\ MaxBufferSize \in Nat /\ LineSize \in Nat /\ size > 0
  BY StagingAssumption DEF StagingInv
<1>3. CASE size > MaxBufferSize
  <2>1. a = TooLarge(new)
    BY <1>3 DEF StagingAlloc
  <2>2. QED
    BY <2>1, <1>1, <1>2
       DEF GoodAlloc, TooLarge, StagingTypeOK, OffsetBounded, PendingInUse, PendingBelow, StagedSlices
<1>4. CASE size <= MaxBufferSize /\ Start(new, LineSize) + size <= MaxBufferSize
  <2>1. a = InCurrent(new, size, LineSize)
    BY <1>4, <1>2 DEF StagingAlloc
  <2>2. Current(new) \in Buffers
    BY <1>1, <1>2 DEF Current, StagingTypeOK
  <2>3. /\ Start(new, LineSize) \in Nat
        /\ Current(new) \in inUse => Current(new) = buffer /\ offset <= Start(new, LineSize)
    <3>1. CASE Current(new) \in inUse
      BY <3>1, <1>1, <1>2, AlignFacts DEF Start, Current, StagingTypeOK, OffsetBounded
    <3>2. CASE Current(new) \notin inUse
      BY <3>2, <1>2, AlignFacts DEF Start
    <3>3. QED BY <3>1, <3>2
  <2>4. /\ AlignUp(Start(new, LineSize) + size, LineSize) \in Nat
        /\ Start(new, LineSize) + size <= AlignUp(Start(new, LineSize) + size, LineSize)
        /\ AlignUp(Start(new, LineSize) + size, LineSize) <= MaxBufferSize + LineSize
    <3>1. /\ Start(new, LineSize) + size \in Nat
          /\ Start(new, LineSize) + size <= MaxBufferSize + LineSize
      BY <1>2, <1>4, <2>3
    <3>2. QED BY <3>1, <1>2, <1>4, <2>3, AlignFacts
  <2>5. \A i \in 1 .. Len(pending) :
          pending[i].buffer = Current(new) => pending[i].end <= Start(new, LineSize)
    <3> TAKE i \in 1 .. Len(pending)
    <3> HAVE pending[i].buffer = Current(new)
    <3>1. Current(new) = buffer /\ offset <= Start(new, LineSize) /\ pending[i].end <= offset
      BY <1>2, <2>3 DEF PendingInUse, PendingBelow
    <3>2. pending[i].end \in Nat /\ offset \in Nat
      BY <1>2, PendingTypes DEF StagingTypeOK
    <3>3. QED BY <3>1, <3>2, <2>3
  <2>6. \A i \in 1 .. Len(pending) : pending[i].end \in Nat
    BY <1>2, PendingTypes
  <2>7. /\ a.buffer = Current(new) /\ a.from = Current(new) /\ a.buffers = buffers
        /\ a.start = Start(new, LineSize)
        /\ a.offset = AlignUp(Start(new, LineSize) + size, LineSize)
    BY <2>1 DEF InCurrent
  <2>8. QED
    BY <2>2, <2>3, <2>4, <2>5, <2>6, <2>7, <1>2 DEF GoodAlloc, StagingTypeOK
<1>5. CASE size <= MaxBufferSize /\ ~(Start(new, LineSize) + size <= MaxBufferSize)
  <2>1. a = InAnother(new, size, LineSize)
    BY <1>5, <1>2 DEF StagingAlloc
  <2>2. AlignUp(size, LineSize) \in Nat /\ size <= AlignUp(size, LineSize)
          /\ AlignUp(size, LineSize) <= MaxBufferSize + LineSize
    BY <1>5, <1>2, AlignFacts
  <2>3. /\ a.buffer = a.from /\ a.start = 0 /\ a.offset = AlignUp(size, LineSize)
        /\ a.from \in Buffers /\ a.from \notin inUse
        /\ a.buffers \in Seq(Buffers) /\ Len(a.buffers) <= MaxBufferCount
    BY <2>1, <1>1, <1>2, KeptFacts DEF InAnother
  <2>4. \A i \in 1 .. Len(pending) : pending[i].buffer # a.from
    BY <2>3, <1>2 DEF PendingInUse
  <2>5. QED
    BY <2>2, <2>3, <2>4, <1>2 DEF GoodAlloc
<1>6. Start(new, LineSize) + size <= MaxBufferSize
        \/ ~(Start(new, LineSize) + size <= MaxBufferSize)
  OBVIOUS
<1>7. QED BY <1>2, <1>3, <1>4, <1>5, <1>6

\* What follows an allocation that stages its data in the list.
LEMMA StageKeeps ==
  ASSUME StagingInv, NEW a, NEW size \in Nat \ {0}, GoodAlloc(a, size), Stage(a, size)
  PROVE  StagingInv'
<1> DEFINE n == Len(pending)
           e == Staged(a, size)
<1>1. /\ StagingTypeOK /\ PendingInUse /\ PendingBelow /\ StagedDataIntact
      /\ size \in Nat /\ n \in Nat
  BY StagingAssumption DEF StagingInv, StagingTypeOK
<1>2. e \in StagedSlices /\ e.buffer = a.from /\ e.first = a.start /\ e.end = a.start + size
  BY <1>1 DEF Staged, StagedSlices, GoodAlloc
<1>3. /\ buffer' = a.buffer /\ offset' = a.offset /\ buffers' = a.buffers
      /\ inUse' = inUse \cup {a.from} /\ pending' = Append(pending, e)
  BY DEF Stage, AllocatorBecomes
<1>4. /\ Len(pending') = n + 1 /\ pending'[n + 1] = e
      /\ \A i \in 1 .. n : pending'[i] = pending[i]
      /\ pending' \in Seq(StagedSlices)
  BY <1>1, <1>2, <1>3 DEF StagingTypeOK
<1>5. \A i \in 1 .. n : pending[i].end \in Nat /\ pending[i].first \in Nat
  BY <1>1, PendingTypes
<1>6. StagingTypeOK' /\ OffsetBounded'
  BY <1>1, <1>3, <1>4 DEF StagingTypeOK, OffsetBounded, GoodAlloc
<1>7. PendingInUse'
  BY <1>1, <1>2, <1>3, <1>4 DEF PendingInUse
<1>8. PendingBelow'
  <2> SUFFICES ASSUME NEW i \in 1 .. n + 1, pending'[i].buffer = a.buffer
               PROVE  pending'[i].end <= a.offset
    BY <1>3, <1>4 DEF PendingBelow
  <2>1. CASE i \in 1 .. n
    BY <2>1, <1>4 DEF GoodAlloc
  <2>2. CASE i = n + 1
    BY <2>2, <1>2, <1>4 DEF GoodAlloc
  <2>3. QED BY <2>1, <2>2, <1>1
<1>9. StagedDataIntact'
  <2> SUFFICES ASSUME NEW i \in 1 .. n + 1, NEW j \in 1 .. n + 1, i # j,
                      pending'[i].buffer = pending'[j].buffer
               PROVE  pending'[i].end <= pending'[j].first \/ pending'[j].end <= pending'[i].first
    BY <1>4 DEF StagedDataIntact
  <2>1. CASE i \in 1 .. n /\ j \in 1 .. n
    BY <2>1, <1>1, <1>4 DEF StagedDataIntact
  <2>2. CASE i \in 1 .. n /\ j = n + 1
    BY <2>2, <1>2, <1>4 DEF GoodAlloc
  <2>3. CASE i = n + 1 /\ j \in 1 .. n
    BY <2>3, <1>2, <1>4 DEF GoodAlloc
  <2>4. QED BY <2>1, <2>2, <2>3, <1>1
<1>10. QED BY <1>6, <1>7, <1>8, <1>9 DEF StagingInv

\* Nothing is pending once the list has completed.
LEMMA CompletionKeeps ==
  ASSUME StagingInv, ListCompletes, (StagingTypeOK /\ OffsetBounded)' \/ UNCHANGED <<buffer, offset, buffers>>
  PROVE  StagingInv'
<1>1. pending' = <<>> /\ inUse' \subseteq Buffers
  BY DEF ListCompletes, StagingInv, StagingTypeOK
<1>2. StagingTypeOK' /\ OffsetBounded'
  BY <1>1 DEF StagingInv, StagingTypeOK, OffsetBounded
<1>3. QED
  BY <1>1, <1>2 DEF StagingInv, PendingInUse, PendingBelow, StagedDataIntact

LEMMA InvariantKept ==
  ASSUME UpdateSizes \subseteq {LineSize}, StagingInv, [StagingNext]_stagingVars
  PROVE  StagingInv'
<1>1. CASE \E size \in DataSizes : Upload(size)
  <2>1. PICK size \in DataSizes, new \in NewBuffers : Stage(StagingAlloc(new, size, LineSize), size)
    BY <1>1 DEF Upload
  <2>2. QED BY <2>1, AllocIsGood, StageKeeps, StagingAssumption
<1>2. CASE \E size \in DataSizes : Download(size)
  <2>1. PICK size \in DataSizes, new \in NewBuffers :
          AllocatorBecomes(StagingAlloc(new, size, LineSize)) /\ ListCompletes
    BY <1>2 DEF Download
  <2> DEFINE a == StagingAlloc(new, size, LineSize)
  <2>2. GoodAlloc(a, size)
    BY AllocIsGood, StagingAssumption
  <2>3. StagingTypeOK' /\ OffsetBounded'
    <3>1. pending' = <<>> /\ inUse' \subseteq Buffers
      BY <2>1 DEF ListCompletes, StagingInv, StagingTypeOK
    <3>2. buffer' = a.buffer /\ offset' = a.offset /\ buffers' = a.buffers
      BY <2>1 DEF AllocatorBecomes
    <3>3. QED BY <2>2, <3>1, <3>2 DEF GoodAlloc, StagingTypeOK, OffsetBounded
  <2>4. QED BY <2>1, <2>3, CompletionKeeps
<1>3. CASE Flush
  BY <1>3, CompletionKeeps DEF Flush
<1>4. CASE UNCHANGED stagingVars
  BY <1>4 DEF stagingVars, StagingInv, StagingTypeOK, OffsetBounded, PendingInUse, PendingBelow, StagedDataIntact
<1>5. CASE \E size \in UpdateSizes : Update(size)
  <2>1. PICK new \in NewBuffers : Stage(StagingAlloc(new, LineSize, LineSize), LineSize)
    BY <1>5 DEF Update
  <2>2. QED BY <2>1, AllocIsGood, StageKeeps, StagingAssumption
<1>6. QED BY <1>1, <1>2, <1>3, <1>4, <1>5 DEF StagingNext

LEMMA InvariantStarts ==
  ASSUME StagingInit
  PROVE  StagingInv
<1>1. pending = <<>> /\ buffers = <<>> /\ inUse = {} /\ buffer = Nil /\ offset = 0
  BY DEF StagingInit
<1>2. StagingTypeOK /\ OffsetBounded
  BY <1>1, StagingAssumption DEF StagingTypeOK, OffsetBounded
<1>3. QED
  BY <1>1, <1>2 DEF StagingInv, PendingInUse, PendingBelow, StagedDataIntact

\* The invariant of the staging allocator, for uploads and downloads of any
\* size and updates that fill one line exactly.
THEOREM StagingInvariant == UpdateSizes \subseteq {LineSize} => (StagingSpec => []StagingInv)
<1> SUFFICES ASSUME UpdateSizes \subseteq {LineSize} PROVE StagingSpec => []StagingInv
  OBVIOUS
<1>1. StagingInit => StagingInv
  BY InvariantStarts
<1>2. StagingInv /\ [StagingNext]_stagingVars => StagingInv'
  BY InvariantKept
<1>3. QED BY <1>1, <1>2, PTL DEF StagingSpec

\* The data staged by uploadBuffer and uploadImage, and by updates of one line,
\* stay intact until the command list has read them.
THEOREM StagedDataStayIntact == UpdateSizes \subseteq {LineSize} => (StagingSpec => []StagedDataIntact)
<1>1. StagingInv => StagedDataIntact
  BY DEF StagingInv
<1>2. QED BY <1>1, StagingInvariant, PTL

------------------------------------------------------------------------------
\* alloc() keeps only buffers it kept before and the new one, and of a slice
\* too large for a ring buffer not even that.
LEMMA KeptBuffers ==
  ASSUME StagingTypeOK, NEW new \in NewBuffers, NEW size \in Nat \ {0},
         AllocatorBecomes(StagingAlloc(new, size, LineSize))
  PROVE  /\ Held' \subseteq Held \cup {new}
         /\ size > MaxBufferSize => Held' = Held
<1> DEFINE a == StagingAlloc(new, size, LineSize)
<1>1. new \in Buffers /\ buffers \in Seq(Buffers) /\ MaxBufferCount \in Nat \ {0}
  BY StagingAssumption DEF NewBuffers, StagingTypeOK
<1>2. buffer' = a.buffer /\ buffers' = a.buffers
  BY DEF AllocatorBecomes
<1>3. Current(new) \in Held \cup {new}
  BY DEF Current, Held
<1>4. \A i \in 1 .. Len(Kept(new)) : Kept(new)[i] \in Held \cup {new}
  <2>1. CASE Len(buffers) < MaxBufferCount
    <3>1. Kept(new) = Append(buffers, Current(new))
      BY <2>1 DEF Kept
    <3>2. Current(new) \in Buffers
      BY <1>1 DEF Current, StagingTypeOK
    <3>3. /\ Len(Append(buffers, Current(new))) = Len(buffers) + 1 /\ Len(buffers) \in Nat
          /\ \A i \in 1 .. Len(buffers) : Append(buffers, Current(new))[i] = buffers[i]
          /\ Append(buffers, Current(new))[Len(buffers) + 1] = Current(new)
      BY <1>1, <3>2, AppendProperties, LenProperties
    <3>4. \A i \in 1 .. Len(buffers) + 1 : i \in 1 .. Len(buffers) \/ i = Len(buffers) + 1
      BY <3>3
    <3>5. QED BY <1>3, <3>1, <3>3, <3>4 DEF Held
  <2>2. CASE ~(Len(buffers) < MaxBufferCount)
    BY <2>2 DEF Kept, Held
  <2>3. QED BY <2>1, <2>2
<1>5. /\ Kept(new) \in Seq(Buffers) /\ Len(Kept(new)) \in Nat \ {0} /\ Kept(new) # <<>>
  <2>1. Kept(new) \in Seq(Buffers) /\ Len(Kept(new)) > 0
    BY <1>1, KeptFacts
  <2>2. QED BY <2>1, LenProperties, EmptySeq
<1>6. /\ Head(Kept(new)) = Kept(new)[1] /\ Len(Tail(Kept(new))) = Len(Kept(new)) - 1
      /\ \A i \in 1 .. Len(Tail(Kept(new))) : Tail(Kept(new))[i] = Kept(new)[i + 1]
  BY <1>5, HeadTailProperties
<1>7. /\ Head(Kept(new)) \in Held \cup {new}
      /\ \A i \in 1 .. Len(Tail(Kept(new))) : Tail(Kept(new))[i] \in Held \cup {new}
  <2>1. 1 \in 1 .. Len(Kept(new))
    BY <1>5
  <2>2. \A i \in 1 .. Len(Tail(Kept(new))) : i + 1 \in 1 .. Len(Kept(new))
    BY <1>5, <1>6
  <2>3. QED BY <1>4, <1>6, <2>1, <2>2
<1>8. /\ a.buffer \in Held \cup {new}
      /\ \A i \in 1 .. Len(a.buffers) : a.buffers[i] \in Held \cup {new}
  <2>1. CASE a = TooLarge(new)
    BY <2>1 DEF TooLarge, Held
  <2>2. CASE a = InCurrent(new, size, LineSize)
    BY <1>3, <2>2 DEF InCurrent, Held
  <2>3. CASE a = InAnother(new, size, LineSize)
    <3>1. CASE Head(Kept(new)) \notin inUse
      BY <1>7, <2>3, <3>1 DEF InAnother
    <3>2. CASE Head(Kept(new)) \in inUse
      BY <1>4, <2>3, <3>2 DEF InAnother
    <3>3. QED BY <3>1, <3>2
  <2>4. QED BY <2>1, <2>2, <2>3 DEF StagingAlloc
<1>9. size > MaxBufferSize => Held' = Held
  BY <1>2 DEF StagingAlloc, TooLarge, Held
<1>10. Held' \subseteq Held \cup {new}
  BY <1>2, <1>8 DEF Held
<1>11. QED BY <1>9, <1>10

\* A slice that does not fit into a ring buffer is the whole of a new one.
LEMMA AllocInside ==
  ASSUME StagingInv, NEW new \in NewBuffers, NEW size \in Nat \ {0}
  PROVE  LET a == StagingAlloc(new, size, LineSize) IN
           \/ size <= MaxBufferSize /\ a.start + size <= MaxBufferSize
           \/ size > MaxBufferSize /\ a.start = 0 /\ a.from = new
<1> DEFINE a == StagingAlloc(new, size, LineSize)
<1>1. MaxBufferSize \in Nat /\ size \in Nat
  BY StagingAssumption
<1>2. CASE size > MaxBufferSize
  BY <1>1, <1>2 DEF StagingAlloc, TooLarge
<1>3. CASE size <= MaxBufferSize /\ Start(new, LineSize) + size <= MaxBufferSize
  <2>1. a = InCurrent(new, size, LineSize)
    BY <1>1, <1>3 DEF StagingAlloc
  <2>2. a.start = Start(new, LineSize)
    BY <2>1 DEF InCurrent
  <2>3. QED BY <1>3, <2>2
<1>4. CASE size <= MaxBufferSize /\ ~(Start(new, LineSize) + size <= MaxBufferSize)
  <2>1. a = InAnother(new, size, LineSize)
    BY <1>1, <1>4 DEF StagingAlloc
  <2>2. a.start = 0
    BY <2>1 DEF InAnother
  <2>3. QED BY <1>1, <1>4, <2>2
<1>5. QED BY <1>1, <1>2, <1>3, <1>4

LEMMA StageInside ==
  ASSUME StagingInv, SlicesInside, NEW new \in NewBuffers, NEW size \in Nat \ {0},
         Stage(StagingAlloc(new, size, LineSize), size)
  PROVE  SlicesInside'
<1> DEFINE a == StagingAlloc(new, size, LineSize)
           n == Len(pending)
           e == Staged(a, size)
<1>1. PICK from \in Buffers, start \in Nat : a.from = from /\ a.start = start
  BY AllocIsGood DEF GoodAlloc
<1>2. e \in StagedSlices /\ e.buffer = a.from /\ e.first = a.start /\ e.end = a.start + size
  BY <1>1 DEF Staged, StagedSlices
<1>3. pending' = Append(pending, e) /\ pending \in Seq(StagedSlices)
  BY DEF Stage, StagingInv, StagingTypeOK
<1>4. /\ Len(pending') = n + 1 /\ pending'[n + 1] = e /\ n \in Nat
      /\ \A i \in 1 .. n : pending'[i] = pending[i]
  BY <1>2, <1>3, AppendProperties, LenProperties
<1>5. /\ Held' \subseteq Held \cup {new} /\ (size > MaxBufferSize => Held' = Held)
      /\ new \notin Held /\ new \notin inUse
  BY KeptBuffers DEF Stage, StagingInv, NewBuffers
<1>6. SUFFICES ASSUME NEW i \in 1 .. n + 1
               PROVE  \/ pending'[i].end <= MaxBufferSize
                      \/ pending'[i].first = 0 /\ pending'[i].buffer \notin Held'
  BY <1>4 DEF SlicesInside
<1>7. CASE i \in 1 .. n
  <2>1. pending[i].buffer # new
    BY <1>5, <1>7 DEF StagingInv, PendingInUse
  <2>2. QED BY <1>4, <1>5, <1>7, <2>1 DEF SlicesInside
<1>8. CASE i = n + 1
  <2>1. CASE size <= MaxBufferSize /\ a.start + size <= MaxBufferSize
    BY <1>2, <1>4, <1>8, <2>1
  <2>2. CASE size > MaxBufferSize /\ a.start = 0 /\ a.from = new
    BY <1>2, <1>4, <1>5, <1>8, <2>2
  <2>3. QED BY <2>1, <2>2, AllocInside
<1>9. QED BY <1>4, <1>7, <1>8

\* A slice ends inside its buffer: it lies in a ring buffer, below its size, or
\* is alone in a buffer of its own, which alloc() never takes another one from.
THEOREM StagedSlicesAreInside == UpdateSizes \subseteq {LineSize} => (StagingSpec => []SlicesInside)
<1> SUFFICES ASSUME UpdateSizes \subseteq {LineSize} PROVE StagingSpec => []SlicesInside
  OBVIOUS
<1>1. StagingInit => SlicesInside
  BY DEF StagingInit, SlicesInside
<1>2. StagingInv /\ SlicesInside /\ [StagingNext]_stagingVars => SlicesInside'
  <2> SUFFICES ASSUME StagingInv, SlicesInside, [StagingNext]_stagingVars PROVE SlicesInside'
    OBVIOUS
  <2>1. CASE \E size \in DataSizes : Upload(size)
    <3>1. PICK size \in DataSizes, new \in NewBuffers : Stage(StagingAlloc(new, size, LineSize), size)
      BY <2>1 DEF Upload
    <3>2. QED BY <3>1, StageInside, StagingAssumption
  <2>2. CASE \E size \in UpdateSizes : Update(size)
    <3>1. PICK new \in NewBuffers : Stage(StagingAlloc(new, LineSize, LineSize), LineSize)
      BY <2>2 DEF Update
    <3>2. QED BY <3>1, StageInside, StagingAssumption
  <2>3. CASE Flush \/ \E size \in DataSizes : Download(size)
    BY <2>3 DEF Flush, Download, ListCompletes, SlicesInside
  <2>4. CASE UNCHANGED stagingVars
    BY <2>4 DEF stagingVars, SlicesInside, Held
  <2>5. QED BY <2>1, <2>2, <2>3, <2>4 DEF StagingNext
<1>3. QED BY <1>1, <1>2, StagingInvariant, PTL DEF StagingSpec

------------------------------------------------------------------------------
(* The levels of the device's memory together.                                *)

\* A behaviour of one level, with the others at rest, is one of each level.
\* At rest the vector of a chunk is empty and freeList is not its set.
THEOREM MemoryIsItsParts == MemorySpec => MCSpec /\ AllocatorSpec /\ StagingSpec
<1>1. MemoryInit => MCInit /\ AllocatorInit /\ StagingInit
  BY DEF MemoryInit, ChunkAtRest, MCInit, AllocatorAtRest, StagingAtRest
<1>2. [ChunkStep \/ AllocatorStep \/ StagingStep]_memoryVars
        => /\ [SetStep \/ VectorStep]_allVars
           /\ [AllocatorNext]_allocatorVars /\ [StagingNext]_stagingVars
  BY DEF ChunkStep, AllocatorStep, StagingStep, memoryVars, chunkVars
<1>3. QED BY <1>1, <1>2, PTL DEF MemorySpec, MCSpec, AllocatorSpec, StagingSpec

\* The slices of a chunk are nonempty ranges, the vector's included, and the
\* allocator's pool and the staging buffers keep their types, for updates that
\* fill one line exactly.
THEOREM MemoryTypes == UpdateSizes \subseteq {LineSize} => (MemorySpec => []MemoryTypeOK)
<1>1. BothInv /\ [SetStep \/ VectorStep]_allVars => BothInv'
  BY BothNextInv
<1>2. MCSpec => []BothInv
  BY <1>1, BothInitInv, PTL DEF MCSpec
<1>3. BothInv /\ AllocatorTypeOK /\ StagingInv => MemoryTypeOK
  BY IInvIs DEF MemoryTypeOK, BothInv, StagingInv
<1>4. QED BY <1>2, <1>3, MemoryIsItsParts, AllocatorTypes, StagingInvariant, PTL
===============================================================================
