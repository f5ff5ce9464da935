------------------------- MODULE VltMemoryAllocator -------------------------
(***************************************************************************)
(* VltMemoryAllocator (Graphics/Violet/VltMemory.cpp): memory types with   *)
(* their lists of chunks, heaps with their statistics and budgets, and the *)
(* order in which alloc() falls back from one kind of memory to the next.  *)
(* alloc and free hold m_mutex from end to end, so each is one action; the *)
(* state they thread through their calls is the record `pool'.             *)
(***************************************************************************)
EXTENDS VltSliceList, FiniteSets

CONSTANTS
  Heaps,
  NumTypes,         \* memory types, in the order tryAlloc probes them
  HeapOf,           \* [1..NumTypes -> Heaps]
  PropFlags,        \* [1..NumTypes -> SUBSET Flags], propertyFlags
  HeapSize,         \* [Heaps -> Nat]
  Budget,           \* [Heaps -> Nat], 0 for a heap without a budget
  Requests,         \* what callers ask for: see RequestType
  DefaultChunk, SmallChunk, HostChunk,  \* 128, 16 and 64 MiB in the code
  ChunksPerHeap,    \* 15 in the code
  SmallThreshold,   \* 256 KiB in the code
  Grants,           \* subset of [Heaps -> Nat]: the largest block the driver gives
  MaxLive           \* bound: allocations alive at a time

Types == 1 .. NumTypes
Flags == {"DeviceLocal", "HostVisible", "HostCached"}
Hints == {"Small", "GpuReadable", "GpuWritable", "Transient", "IgnoreConstraints"}

RequestType ==
  [size : Nat \ {0}, align : Nat \ {0}, types : SUBSET Types, flags : SUBSET Flags,
   hints : SUBSET Hints, prefersDedicated : BOOLEAN, requiresDedicated : BOOLEAN]

ASSUME AllocatorAssumption ==
  /\ NumTypes \in Nat
  /\ HeapOf \in [Types -> Heaps]
  /\ PropFlags \in [Types -> SUBSET Flags]
  /\ HeapSize \in [Heaps -> Nat] /\ Budget \in [Heaps -> Nat]
  /\ Requests \subseteq RequestType
  /\ {DefaultChunk, SmallChunk, HostChunk, ChunksPerHeap} \subseteq Nat
  /\ Grants \subseteq [Heaps -> Nat]
  \* Vulkan: an implementation that requires a dedicated allocation prefers it
  /\ \A r \in Requests : r.requiresDedicated => r.prefersDedicated

VARIABLES
  pool,   \* [chunks : Types -> sequences of chunks, allocated, used : Heaps -> Nat]
  memories  \* the VltMemory objects not yet destroyed

allocatorVars == <<pool, memories>>

NoChunk == 0
NoMemory == [type |-> 0]

-----------------------------------------------------------------------------
(* Sizes and budgets *)

(* The size is halved until the heap has room for ChunksPerHeap chunks; as  *)
(* many halvings as the size has units reach 0.                             *)
Halve(size, h) == IF size * ChunksPerHeap > HeapSize[h] THEN size \div 2 ELSE size

HalveToFit(size, h) ==
  LET halved[n \in 0 .. size] == IF n = 0 THEN size ELSE Halve(halved[n - 1], h)
  IN  halved[size]

pickChunkSize(t, hints) ==
  LET wanted == IF "HostVisible" \in PropFlags[t] THEN HostChunk
                ELSE IF "Small" \in hints THEN SmallChunk ELSE DefaultChunk
  IN  HalveToFit(wanted, HeapOf[t])

shouldFreeEmptyChunks(p, h, size) ==
  p.allocated[h] + size > IF Budget[h] # 0 THEN Budget[h] ELSE (HeapSize[h] * 4) \div 5

OneFreeSlice(c) == Len(c.freeList) = 1  \* Fault: the length is not compared.

IsEmptyChunk(c) == ListIsEmpty(c.freeList, c.size)

(* The chunks of a list that are not empty, in their order.                 *)
ChunksInUse(chunks) ==
  LET inUse[n \in 0 .. Len(chunks)] ==
        IF n = 0 THEN <<>>
        ELSE IF IsEmptyChunk(chunks[n]) THEN inUse[n - 1] ELSE Append(inUse[n - 1], chunks[n])
  IN  inUse[Len(chunks)]

EmptySize(chunks) ==
  LET size[n \in 0 .. Len(chunks)] ==
        IF n = 0 THEN 0
        ELSE size[n - 1] + IF IsEmptyChunk(chunks[n]) THEN chunks[n].size ELSE 0
  IN  size[Len(chunks)]

(* What the destructors of the empty chunks of a heap give back.            *)
FreedSize(p, h) ==
  LET freed[n \in 0 .. NumTypes] ==
        IF n = 0 THEN 0
        ELSE freed[n - 1] + IF HeapOf[n] = h THEN EmptySize(p.chunks[n]) ELSE 0
  IN  freed[NumTypes]

SweptChunks(p, h) ==
  [t \in Types |-> IF HeapOf[t] = h THEN ChunksInUse(p.chunks[t]) ELSE p.chunks[t]]

(* Fault: the memory of the chunks that go is not subtracted. *)
DropEmptyChunks(p, h) == [p EXCEPT !.chunks = SweptChunks(p, h)]

freeEmptyChunks(p, h) ==
  [p EXCEPT !.chunks = SweptChunks(p, h), !.allocated[h] = @ - FreedSize(p, h)]

RelieveHeap(p, h, size) ==
  IF shouldFreeEmptyChunks(p, h, size) THEN freeEmptyChunks(p, h) ELSE p

(* vkAllocateMemory and vkMapMemory succeed or fail as the driver decides: *)
(* grant[h] is the largest block it gives during this call.                *)
DeviceGrants(p, h, size, grant) ==
  /\ Budget[h] # 0 => p.allocated[h] + size <= Budget[h]
  /\ size <= grant[h]

checkHints(chunk, hints) ==
  LET mask == IF "IgnoreConstraints" \in hints THEN {}
              ELSE {"Small", "GpuReadable", "GpuWritable", "Transient"}
  IN  chunk.hints \cap mask = hints \cap mask

ChunkServes(chunk, flags, size, align, hints) ==
  /\ chunk.flags = flags
  /\ checkHints(chunk, hints)
  /\ CanAlloc(chunk.freeList, size, align)

-----------------------------------------------------------------------------
(* Allocation.  Each helper returns the pool it leaves and the memory it   *)
(* found, NoMemory if none.                                                *)

HandlesInUse(p) ==
  (UNION {{p.chunks[t][i].id : i \in DOMAIN p.chunks[t]} : t \in Types})
    \cup {m.id : m \in {x \in memories : x.chunk = NoChunk}}

NewHandle(p) == CHOOSE n \in 1 .. Cardinality(HandlesInUse(p)) + 1 : n \notin HandlesInUse(p)

MemoryIn(t, chunk, slice) ==
  [type |-> t, id |-> chunk.id, chunk |-> chunk.id,
   offset |-> slice.offset, length |-> slice.length]

(* Fault: the free list is not updated. *)
TakeKeepingFree(p, t, i, size, align) ==
  LET c == p.chunks[t][i]
      m == MemoryIn(t, c, AllocSlice(c.freeList, size, align))
  IN  [pool |-> [p EXCEPT !.used[HeapOf[t]] = @ + m.length], memory |-> m]

(* Fault: the heap's statistics are not told. *)
TakeUncounted(p, t, i, size, align) ==
  LET c == p.chunks[t][i]
  IN  [pool |-> [p EXCEPT !.chunks[t][i].freeList = ListAfterAlloc(@, size, align)],
       memory |-> MemoryIn(t, c, AllocSlice(c.freeList, size, align))]

TakeFromChunk(p, t, i, size, align) ==
  LET c == p.chunks[t][i]
      m == MemoryIn(t, c, AllocSlice(c.freeList, size, align))
  IN  [pool |-> [p EXCEPT !.chunks[t][i].freeList = ListAfterAlloc(@, size, align),
                          !.used[HeapOf[t]] = @ + m.length],
       memory |-> m]

AllocDirect(p, t, size, grant) ==
  LET h == HeapOf[t]
      q == RelieveHeap(p, h, size)
      n == NewHandle(q)
  IN  IF DeviceGrants(q, h, size, grant)
      THEN [pool |-> [q EXCEPT !.allocated[h] = @ + size, !.used[h] = @ + size],
            memory |-> [type |-> t, id |-> n, chunk |-> NoChunk,
                        offset |-> 0, length |-> size]]
      ELSE [pool |-> q, memory |-> NoMemory]

AllocNewChunk(p, t, flags, size, align, hints, grant) ==
  LET h == HeapOf[t]
      chunkSize == pickChunkSize(t, hints)
      q == RelieveHeap(p, h, chunkSize)
      sizes == {s \in {chunkSize \div d : d \in {1, 2, 4, 8, 16, 32}} :
                  s >= size /\ DeviceGrants(q, h, s, grant)}
      memSize == CHOOSE s \in sizes : \A r \in sizes : r <= s
      chunk == [id |-> NewHandle(q), size |-> memSize, flags |-> flags, hints |-> hints,
                freeList |-> <<Slice(0, memSize)>>]
      r == [q EXCEPT !.chunks[t] = Append(@, chunk), !.allocated[h] = @ + memSize]
  IN  IF sizes = {} THEN [pool |-> q, memory |-> NoMemory]
      ELSE IF CanAlloc(chunk.freeList, size, align)
      THEN TakeFromChunk(r, t, Len(q.chunks[t]) + 1, size, align)
      ELSE [pool |-> r, memory |-> NoMemory]

tryAllocFromType(p, t, flags, size, align, hints, dedicated, grant) ==
  LET serving == {i \in DOMAIN p.chunks[t] : ChunkServes(p.chunks[t][i], flags, size, align, hints)}
  IN  IF size >= pickChunkSize(t, hints) \/ dedicated
      THEN AllocDirect(p, t, size, grant)
      ELSE IF serving # {}
      THEN TakeFromChunk(p, t, CHOOSE i \in serving : \A j \in serving : i <= j, size, align)
      ELSE AllocNewChunk(p, t, flags, size, align, hints, grant)

(* The first supported and adequate type that yields memory wins; what the *)
(* failed attempts did to the pool stays done.                             *)
NoneYet(p) == [pool |-> p, memory |-> NoMemory]

TryType(found, t, req, dedicated, flags, hints, grant) ==
  IF found.memory = NoMemory /\ t \in req.types /\ flags \subseteq PropFlags[t]
  THEN tryAllocFromType(found.pool, t, flags, req.size, req.align, hints, dedicated, grant)
  ELSE found

tryAlloc(p, req, dedicated, flags, hints, grant) ==
  LET tried[t \in 0 .. NumTypes] ==
        IF t = 0 THEN NoneYet(p)
        ELSE TryType(tried[t - 1], t, req, dedicated, flags, hints, grant)
  IN  tried[NumTypes]

AdjustedHints(req) ==
  LET sized == IF req.size <= SmallThreshold
               THEN (req.hints \cup {"Small"}) \ {"GpuWritable", "GpuReadable"}
               ELSE req.hints
  IN  IF "HostVisible" \in req.flags THEN sized \cap {"Transient"} ELSE sized

(* The attempts of alloc(), in order: as asked; without the dedicated      *)
(* allocation if it is only preferred; without the hint constraints; and   *)
(* then from slower memory, giving up DeviceLocal first.                   *)
Attempts(req) ==
  LET hints == AdjustedHints(req)
      loose == hints \cup {"IgnoreConstraints"}
      stillDedicated == req.prefersDedicated /\ req.requiresDedicated
      Attempt(d, f, h) == <<[dedicated |-> d, flags |-> f, hints |-> h]>>
  IN  Attempt(req.prefersDedicated, req.flags, hints)
      \o (IF req.prefersDedicated /\ ~req.requiresDedicated
          THEN Attempt(FALSE, req.flags, hints) ELSE <<>>)
      \o Attempt(FALSE, req.flags, loose)
      \o (IF req.flags \cap {"DeviceLocal", "HostCached"} # {}
          THEN Attempt(stillDedicated, req.flags \ {"DeviceLocal"}, loose) ELSE <<>>)
      \o (IF "HostCached" \in req.flags
          THEN Attempt(stillDedicated, req.flags \ {"DeviceLocal", "HostCached"}, loose)
          ELSE <<>>)

Attempted(found, a, req, grant) ==
  IF found.memory = NoMemory
  THEN tryAlloc(found.pool, req, a.dedicated, a.flags, a.hints, grant)
  ELSE found

AllocResult(p, req, grant) ==
  LET attempts == Attempts(req)
      after[n \in 0 .. Len(attempts)] ==
        IF n = 0 THEN NoneYet(p) ELSE Attempted(after[n - 1], attempts[n], req, grant)
  IN  after[Len(attempts)]

(* alloc(): an exhausted list of attempts raises an exception and leaves   *)
(* the pool as the attempts left it.                                       *)
AllocMemory(req) ==
  /\ Cardinality(memories) < MaxLive
  /\ \E grant \in Grants :
       LET r == AllocResult(pool, req, grant)
       IN  /\ pool' = r.pool
           /\ memories' = IF r.memory = NoMemory THEN memories
                        ELSE memories \cup {r.memory}

-----------------------------------------------------------------------------
(* Freeing *)

isCompatible(c, d) == c.flags = d.flags /\ c.hints = d.hints

(* Fault: chunks go only under memory pressure. *)
FreeUnderPressure(p, t, chunk) == shouldFreeEmptyChunks(p, HeapOf[t], 0)

shouldFreeChunk(p, t, chunk) ==
  \/ shouldFreeEmptyChunks(p, HeapOf[t], 0)
  \/ \E i \in DOMAIN p.chunks[t] :
       IsEmptyChunk(p.chunks[t][i]) /\ isCompatible(p.chunks[t][i], chunk)

(* A chunk that becomes empty moves to the end of the list, or goes.       *)
freeChunkMemory(p, t, id, slice) ==
  LET i == CHOOSE j \in DOMAIN p.chunks[t] : p.chunks[t][j].id = id
      c == [p.chunks[t][i] EXCEPT !.freeList = ListAfterFree(@, slice)]
      without == [p EXCEPT !.chunks[t] = RemoveAt(@, i)]
  IN  IF ~IsEmptyChunk(c) THEN [p EXCEPT !.chunks[t][i] = c]
      ELSE IF shouldFreeChunk(without, t, c)
      THEN [without EXCEPT !.allocated[HeapOf[t]] = @ - c.size]
      ELSE [without EXCEPT !.chunks[t] = Append(@, c)]

FreeMemory(m) ==
  LET h == HeapOf[m.type]
      p == [pool EXCEPT !.used[h] = @ - m.length]
  IN  /\ memories' = memories \ {m}
      /\ pool' = IF m.chunk # NoChunk
                 THEN freeChunkMemory(p, m.type, m.chunk, Slice(m.offset, m.length))
                 ELSE [p EXCEPT !.allocated[h] = @ - m.length]

AllocatorInit ==
  /\ pool = [chunks |-> [t \in Types |-> <<>>],
             allocated |-> [h \in Heaps |-> 0], used |-> [h \in Heaps |-> 0]]
  /\ memories = {}

AllocatorNext ==
  \/ \E req \in Requests : AllocMemory(req)
  \/ \E m \in memories : FreeMemory(m)

AllocatorSpec == AllocatorInit /\ [][AllocatorNext]_allocatorVars

-----------------------------------------------------------------------------
AllocatorTypeOK ==
  /\ pool.allocated \in [Heaps -> Nat] /\ pool.used \in [Heaps -> Nat]
  /\ \A t \in Types : \A i \in DOMAIN pool.chunks[t] :
       LET c == pool.chunks[t][i]
       IN  c.size \in Nat \ {0} /\ c.flags \subseteq Flags /\ c.hints \subseteq Hints
           /\ ToSet(c.freeList) \subseteq SliceType
  /\ \A m \in memories : m.type \in Types /\ m.length \in Nat \ {0}

ChunksOf(t) == ToSet(pool.chunks[t])

SlicesIn(held, t, id) ==
  {Slice(m.offset, m.length) : m \in {x \in held : x.type = t /\ x.chunk = id}}

LiveIn(t, c) == SlicesIn(memories, t, c.id)

(* A VltMemory keeps a raw pointer to its chunk: the chunk it came from is *)
(* in the list of its type as long as the memory lives, however many empty *)
(* chunks memory pressure has swept away in between.                       *)
NoDanglingChunk ==
  \A m \in memories : m.chunk # NoChunk =>
    Cardinality({c \in ChunksOf(m.type) : c.id = m.chunk}) = 1

(* In every chunk of every type the free slices and the live ones share no *)
(* byte and leave none out.                                                *)
ChunksPartitioned ==
  \A t \in Types : \A c \in ChunksOf(t) :
    LET slices == ToSet(c.freeList) \cup LiveIn(t, c)
    IN  /\ ToSet(c.freeList) \cap LiveIn(t, c) = {}
        /\ \A s, u \in slices : s # u => Disjoint(s, u)
        /\ \A b \in 0 .. c.size - 1 : \E s \in slices : s.offset <= b /\ b < End(s)

(* The statistics are what is really there, byte for byte: unsigned         *)
(* counters that are subtracted from on paths other than those that added   *)
(* to them.                                                                 *)
Bytes(x, size) == {x} \X (0 .. size - 1)

UsedBytes(held, h) == UNION {Bytes(m, m.length) : m \in {x \in held : HeapOf[x.type] = h}}

ChunksOn(p, h) == UNION {ToSet(p.chunks[t]) : t \in {u \in Types : HeapOf[u] = h}}
DirectOn(held, h) == {m \in held : HeapOf[m.type] = h /\ m.chunk = NoChunk}

AllocatedBytes(p, held, h) ==
  (UNION {Bytes(c.id, c.size) : c \in ChunksOn(p, h)})
    \cup (UNION {Bytes(m.id, m.length) : m \in DirectOn(held, h)})

StatisticsExact ==
  \A h \in Heaps :
    /\ pool.used[h] = Cardinality(UsedBytes(memories, h))
    /\ pool.allocated[h] = Cardinality(AllocatedBytes(pool, memories, h))

SpareApart(p) ==
  \A t \in Types : \A c, d \in ToSet(p.chunks[t]) :
    c # d /\ IsEmptyChunk(c) /\ IsEmptyChunk(d) => ~isCompatible(c, d)

(* "only keep one chunk of each type around to save memory"                *)
(* (VltMemory.cpp:563): no two empty chunks of a type are interchangeable. *)
OneSpareChunk == SpareApart(pool)

(* Where chunk sizes are multiples of the alignments, as powers of two are *)
(* as long as they are not smaller, a new chunk always holds what it was   *)
(* made for.                                                               *)
ChunksAreAligned ==
  \A r \in Requests, t \in Types, hints \in SUBSET Hints, d \in {1, 2, 4, 8, 16, 32} :
    LET size == pickChunkSize(t, hints) \div d
    IN  size >= r.size => size % r.align = 0
=============================================================================
