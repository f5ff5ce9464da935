---------------------- MODULE VltMemoryAllocatorProofs ----------------------
(***************************************************************************)
(* What VltMemoryAllocator promises, for any heaps, memory types, sizes,   *)
(* budgets, requests and grants of the driver.                             *)
(*                                                                         *)
(* The invariant PoolInv says of a pool and of the memories held in it     *)
(* that chunks are known by their handles, that memory of a chunk is of a  *)
(* chunk that is there, that every chunk is cut into free and held slices  *)
(* (Partition, of VltMemoryChunkProofs), and that the statistics count the *)
(* bytes.  It is proved of every intermediate pool alloc() and free() go   *)
(* through: a sweep of empty chunks, a direct allocation, a new chunk, a   *)
(* slice taken or given back, a chunk destroyed.                           *)
(***************************************************************************)
EXTENDS VltMemoryChunkProofs, VltMemoryAllocator, FiniteSetTheorems

-----------------------------------------------------------------------------
(* Recursion over 1 .. N with values in T: a solution exists.              *)
Solutions(T, N, first, G) ==
  {f \in [0 .. N -> T] : f[0] = first /\ \A n \in 1 .. N : f[n] = G[n][f[n - 1]]}

LEMMA Recursion ==
  ASSUME NEW T, NEW N \in Nat, NEW first \in T, NEW G \in [1 .. N -> [T -> T]]
  PROVE  Solutions(T, N, first, G) # {}
<1> DEFINE Solves(f, k) == f[0] = first /\ \A n \in 1 .. k : f[n] = G[n][f[n - 1]]
           Bad == {k \in 0 .. N : ~\E f \in [0 .. k -> T] : Solves(f, k)}
<1>1. 0 \notin Bad
  <2>1. Solves([n \in 0 .. 0 |-> first], 0) /\ [n \in 0 .. 0 |-> first] \in [0 .. 0 -> T]
    OBVIOUS
  <2> QED BY <2>1
<1>2. ASSUME NEW k \in 1 .. N, k - 1 \notin Bad PROVE k \notin Bad
  <2>1. k - 1 \in 0 .. N /\ k - 1 \in Nat
    OBVIOUS
  <2>2. PICK f \in [0 .. k - 1 -> T] : Solves(f, k - 1)
    BY <1>2, <2>1
  <2>3. PICK x : x = G[k][f[k - 1]]
    OBVIOUS
  <2>4. x \in T
    <3>1. f[k - 1] \in T
      BY <2>1
    <3> QED BY <2>3, <3>1
  <2> DEFINE g == [n \in 0 .. k |-> IF n = k THEN x ELSE f[n]]
  <2>5. g \in [0 .. k -> T]
    <3>1. \A n \in 0 .. k : n # k => n \in 0 .. k - 1
      OBVIOUS
    <3> QED BY <2>4, <3>1
  <2>6. Solves(g, k)
    <3>1. g[0] = first
      BY <2>2
    <3>2. ASSUME NEW n \in 1 .. k PROVE g[n] = G[n][g[n - 1]]
      <4>1. n - 1 \in 0 .. k /\ n - 1 # k /\ n \in 0 .. k
        OBVIOUS
      <4>2. g[n - 1] = f[n - 1]
        BY <4>1
      <4>3. CASE n = k
        <5>1. g[n] = x
          BY <4>3
        <5> HIDE DEF g
        <5> QED BY <2>3, <4>2, <4>3, <5>1
      <4>4. CASE n # k
        <5>1. n \in 1 .. k - 1 /\ g[n] = f[n]
          BY <4>4
        <5> HIDE DEF g
        <5> QED BY <2>2, <4>2, <5>1
      <4> QED BY <4>3, <4>4
    <3> HIDE DEF g
    <3> QED BY <3>1, <3>2
  <2> HIDE DEF Solves, g
  <2> QED BY <2>5, <2>6
<1>3. Bad = {}
  <2>1. SUFFICES ASSUME Bad # {} PROVE FALSE
    OBVIOUS
  <2>2. Bad \in SUBSET Nat
    OBVIOUS
  <2>3. PICK k \in Bad : \A j \in Bad : k <= j
    <3> HIDE DEF Bad
    <3> QED BY <2>1, <2>2, LeastNat
  <2>4. k \in 0 .. N /\ k # 0
    BY <1>1, <2>3
  <2>5. k \in 1 .. N /\ ~(k <= k - 1)
    BY <2>4
  <2>6. k - 1 \notin Bad
    <3> HIDE DEF Bad
    <3> QED BY <2>3, <2>5
  <2> HIDE DEF Bad
  <2> QED BY <1>2, <2>3, <2>5, <2>6
<1>4. \E f \in [0 .. N -> T] : Solves(f, N)
  <2>1. N \in 0 .. N
    OBVIOUS
  <2> HIDE DEF Solves
  <2> QED BY <1>3, <2>1
<1> QED BY <1>4 DEF Solutions

(* What holds at 0 and is passed on by every step holds at N.              *)
LEMMA Climb ==
  ASSUME NEW N \in Nat, NEW S, 0 \in S, \A n \in 1 .. N : n - 1 \in S => n \in S
  PROVE  \A n \in 0 .. N : n \in S
<1> DEFINE Bad == (0 .. N) \ S
<1>1. SUFFICES ASSUME Bad # {} PROVE FALSE
  OBVIOUS
<1>2. Bad \in SUBSET Nat
  OBVIOUS
<1>3. PICK k \in Bad : \A j \in Bad : k <= j
  <2> HIDE DEF Bad
  <2> QED BY <1>1, <1>2, LeastNat
<1>4. k \in 1 .. N /\ k - 1 \in 0 .. N /\ ~(k <= k - 1)
  BY <1>3
<1>5. k - 1 \in S
  BY <1>3, <1>4
<1> QED BY <1>3, <1>4, <1>5

-----------------------------------------------------------------------------
(* An element of a sequence without duplicates is replaced or removed.     *)
Put(s, i, x) == [s EXCEPT ![i] = x]

LEMMA ReplacedAt ==
  ASSUME NEW S, NEW s \in Seq(S), Distinct(s), NEW i \in 1 .. Len(s), NEW x \in S,
         \A j \in 1 .. Len(s) : j # i => s[j] # x
  PROVE  /\ Put(s, i, x) \in Seq(S) /\ Distinct(Put(s, i, x))
         /\ ToSet(Put(s, i, x)) = (ToSet(s) \ {s[i]}) \cup {x}
<1>1. PICK t : t = Put(s, i, x)
  OBVIOUS
<1>2. /\ t \in Seq(S) /\ Len(t) = Len(s) /\ t[i] = x
      /\ \A j \in 1 .. Len(s) : j # i => t[j] = s[j]
  BY <1>1 DEF Put
<1>3. \A j \in 1 .. Len(s) : j # i => s[j] \in ToSet(s) \ {s[i]} /\ s[j] # x
  BY InSet DEF Distinct
<1>4. Distinct(t)
  <2> SUFFICES ASSUME NEW j \in 1 .. Len(s), NEW k \in 1 .. Len(s), t[j] = t[k]
               PROVE  j = k
    BY <1>2 DEF Distinct
  <2>1. CASE j # i /\ k # i
    BY <1>2, <2>1 DEF Distinct
  <2>2. CASE j = i \/ k = i
    BY <1>2, <1>3, <2>2
  <2> QED BY <2>1, <2>2
<1>5. ToSet(t) = (ToSet(s) \ {s[i]}) \cup {x}
  <2>1. /\ ToSet(t) = {t[j] : j \in 1 .. Len(s)}
        /\ ToSet(s) = {s[j] : j \in 1 .. Len(s)}
    BY <1>2, InSet
  <2>2. ASSUME NEW y \in ToSet(t) PROVE y \in (ToSet(s) \ {s[i]}) \cup {x}
    <3>1. PICK j \in 1 .. Len(s) : y = t[j]
      BY <2>1
    <3> QED BY <1>2, <1>3, <3>1
  <2>3. ASSUME NEW y \in ToSet(s) \ {s[i]} PROVE y \in ToSet(t)
    <3>1. PICK j \in 1 .. Len(s) : y = s[j] /\ j # i
      BY <2>1, <2>3
    <3>2. t[j] = y
      BY <1>2, <3>1
    <3> QED BY <2>1, <3>2
  <2>4. x \in ToSet(t)
    BY <1>2, <2>1
  <2> QED BY <2>2, <2>3, <2>4
<1> QED BY <1>1, <1>2, <1>4, <1>5

LEMMA RemovedDistinct ==
  ASSUME NEW S, NEW s \in Seq(S), Distinct(s), NEW i \in 1 .. Len(s), NEW t, t = RemoveAt(s, i)
  PROVE  /\ t \in Seq(S) /\ Distinct(t)
         /\ ToSet(t) = ToSet(s) \ {s[i]}
<1>1. /\ t \in Seq(S) /\ Len(t) = Len(s) - 1 /\ Len(s) \in Nat
      /\ \A k \in 1 .. Len(s) - 1 : t[k] = s[IF k < i THEN k ELSE k + 1]
  BY RemovedAt
<1>2. \A k \in 1 .. Len(s) - 1 : /\ k < i => k \in 1 .. Len(s)
                                 /\ ~(k < i) => k + 1 \in 1 .. Len(s)
  BY <1>1
<1>3. Distinct(t)
  <2> SUFFICES ASSUME NEW j \in 1 .. Len(s) - 1, NEW k \in 1 .. Len(s) - 1, t[j] = t[k]
               PROVE  j = k
    BY <1>1 DEF Distinct
  <2>1. PICK a \in 1 .. Len(s) : a = IF j < i THEN j ELSE j + 1
    BY <1>2
  <2>2. PICK b \in 1 .. Len(s) : b = IF k < i THEN k ELSE k + 1
    BY <1>2
  <2>3. a = b
    BY <1>1, <2>1, <2>2 DEF Distinct
  <2> QED BY <2>1, <2>2, <2>3
<1>4. ToSet(t) = ToSet(s) \ {s[i]}
  <2>1. /\ ToSet(t) = {t[j] : j \in 1 .. Len(s) - 1}
        /\ ToSet(s) = {s[j] : j \in 1 .. Len(s)}
    BY <1>1, InSet
  <2>2. ASSUME NEW y \in ToSet(t) PROVE y \in ToSet(s) \ {s[i]}
    <3>1. PICK k \in 1 .. Len(s) - 1 : y = t[k]
      BY <2>1
    <3>2. PICK b \in 1 .. Len(s) : b = IF k < i THEN k ELSE k + 1
      BY <1>2
    <3>3. b # i /\ y = s[b]
      BY <1>1, <3>1, <3>2
    <3> QED BY <2>1, <3>3 DEF Distinct
  <2>3. ASSUME NEW y \in ToSet(s) \ {s[i]} PROVE y \in ToSet(t)
    <3>1. PICK b \in 1 .. Len(s) : y = s[b] /\ b # i
      BY <2>1
    <3>2. PICK k \in 1 .. Len(s) - 1 : b = IF k < i THEN k ELSE k + 1
      <4>1. CASE b < i
        <5>1. b \in 1 .. Len(s) - 1
          BY <1>1, <4>1
        <5> QED BY <4>1, <5>1
      <4>2. CASE ~(b < i)
        <5>1. b - 1 \in 1 .. Len(s) - 1 /\ ~(b - 1 < i) /\ (b - 1) + 1 = b
          BY <1>1, <3>1, <4>2
        <5> QED BY <5>1
      <4> QED BY <4>1, <4>2
    <3>3. t[k] = y
      BY <1>1, <3>1, <3>2
    <3> QED BY <2>1, <3>3
  <2> QED BY <2>2, <2>3
<1> QED BY <1>1, <1>3, <1>4

-----------------------------------------------------------------------------
(* Counting bytes.                                                         *)
LEMMA BytesCount ==
  ASSUME NEW x, NEW n \in Nat
  PROVE  IsFiniteSet(Bytes(x, n)) /\ Cardinality(Bytes(x, n)) = n
<1>1. IsFiniteSet({x}) /\ Cardinality({x}) = 1
  BY FS_Singleton
<1>2. IsFiniteSet(0 .. n - 1) /\ Cardinality(0 .. n - 1) = n
  BY FS_Interval
<1>3. PICK A : A = {x}
  OBVIOUS
<1>4. PICK B : B = 0 .. n - 1
  OBVIOUS
<1>5. /\ IsFiniteSet(A) /\ Cardinality(A) = 1
      /\ IsFiniteSet(B) /\ Cardinality(B) = n
  BY <1>1, <1>2, <1>3, <1>4
<1>6. IsFiniteSet(A \X B) /\ Cardinality(A \X B) = Cardinality(A) * Cardinality(B)
  BY <1>5, FS_Product
<1>7. Bytes(x, n) = A \X B
  BY <1>3, <1>4 DEF Bytes
<1> QED BY <1>5, <1>6, <1>7

LEMMA BytesAdded ==
  ASSUME NEW S, IsFiniteSet(S), NEW x, NEW n \in Nat, S \cap Bytes(x, n) = {}
  PROVE  /\ IsFiniteSet(S \cup Bytes(x, n))
         /\ Cardinality(S \cup Bytes(x, n)) = Cardinality(S) + n
<1>1. IsFiniteSet(Bytes(x, n)) /\ Cardinality(Bytes(x, n)) = n
  BY BytesCount
<1>2. Cardinality(S) \in Nat /\ Cardinality({}) = 0
  BY FS_CardinalityType, FS_EmptySet
<1>3. /\ IsFiniteSet(S \cup Bytes(x, n))
      /\ Cardinality(S \cup Bytes(x, n))
           = Cardinality(S) + Cardinality(Bytes(x, n)) - Cardinality(S \cap Bytes(x, n))
  BY <1>1, FS_Union
<1>4. Cardinality(S \cap Bytes(x, n)) = 0
  BY <1>2
<1> QED BY <1>1, <1>2, <1>3, <1>4

LEMMA BytesRemoved ==
  ASSUME NEW S, IsFiniteSet(S), NEW x, NEW n \in Nat, Bytes(x, n) \subseteq S
  PROVE  /\ IsFiniteSet(S \ Bytes(x, n))
         /\ Cardinality(S \ Bytes(x, n)) = Cardinality(S) - n
         /\ Cardinality(S) \in Nat /\ Cardinality(S) - n \in Nat
<1>1. IsFiniteSet(Bytes(x, n)) /\ Cardinality(Bytes(x, n)) = n
  BY BytesCount
<1>2. S \cap Bytes(x, n) = Bytes(x, n)
  OBVIOUS
<1>3. /\ IsFiniteSet(S \ Bytes(x, n))
      /\ Cardinality(S \ Bytes(x, n)) = Cardinality(S) - Cardinality(S \cap Bytes(x, n))
  BY FS_Difference
<1>4. Cardinality(S) \in Nat /\ Cardinality(S \ Bytes(x, n)) \in Nat
  BY <1>3, FS_CardinalityType
<1> QED BY <1>1, <1>2, <1>3, <1>4

-----------------------------------------------------------------------------
(* The allocator's invariant, of any pool p and the memories L that are    *)
(* held in it.                                                             *)
ChunkType ==
  [id : Nat \ {0}, size : Nat \ {0}, flags : SUBSET Flags, hints : SUBSET Hints,
   freeList : Seq(SliceType)]

MemoryType == [type : Types, id : Nat \ {0}, chunk : Nat, offset : Nat, length : Nat \ {0}]

PoolType ==
  [chunks : [Types -> Seq(ChunkType)], allocated : [Heaps -> Nat], used : [Heaps -> Nat]]

ChunkSet(p, t) == ToSet(p.chunks[t])

\* A chunk is in one place of one list, and is known by its handle.
ChunksApart(p) ==
  /\ \A t \in Types : Distinct(p.chunks[t])
  /\ \A t, u \in Types : \A c \in ChunkSet(p, t), d \in ChunkSet(p, u) :
       c.id = d.id => t = u /\ c = d

\* Memory is of a chunk that is there, or its handle is its own.
MemoriesFound(p, L) ==
  \A m \in L :
    /\ m.chunk # NoChunk => m.id = m.chunk /\ \E c \in ChunkSet(p, m.type) : c.id = m.id
    /\ m.chunk = NoChunk =>
         /\ \A t \in Types : \A c \in ChunkSet(p, t) : c.id # m.id
         /\ \A x \in L : x.chunk = NoChunk /\ x.id = m.id => x = m

ChunkCut(c, S) == Distinct(c.freeList) /\ Partition(ToSet(c.freeList), S, c.size)

ChunksCut(p, L) ==
  \A t \in Types : \A c \in ChunkSet(p, t) : ChunkCut(c, SlicesIn(L, t, c.id))

Counted(p, L) ==
  \A h \in Heaps :
    /\ IsFiniteSet(UsedBytes(L, h)) /\ p.used[h] = Cardinality(UsedBytes(L, h))
    /\ IsFiniteSet(AllocatedBytes(p, L, h))
    /\ p.allocated[h] = Cardinality(AllocatedBytes(p, L, h))

Handles(p, L) ==
  (UNION {{c.id : c \in ChunkSet(p, t)} : t \in Types})
    \cup {m.id : m \in {x \in L : x.chunk = NoChunk}}

PoolInv(p, L) ==
  /\ p \in PoolType /\ L \subseteq MemoryType
  /\ ChunksApart(p)
  /\ MemoriesFound(p, L)
  /\ ChunksCut(p, L)
  /\ Counted(p, L)
  /\ IsFiniteSet(Handles(p, L))

-----------------------------------------------------------------------------
(* Steps from one pool and set of memories to another, under names that    *)
(* the provers need not look into.                                         *)
With(L, m) == L \cup {m}
Without(L, m) == L \ {m}

OthersKept(p, q, t) == \A u \in Types \ {t} : ChunkSet(q, u) = ChunkSet(p, u)

Gains(p, q, t, c) == ChunkSet(q, t) = ChunkSet(p, t) \cup {c} /\ OthersKept(p, q, t)

Loses(p, q, t, c) ==
  c \in ChunkSet(p, t) /\ ChunkSet(q, t) = ChunkSet(p, t) \ {c} /\ OthersKept(p, q, t)

Swaps(p, q, t, c, d) ==
  /\ c \in ChunkSet(p, t) /\ d.id = c.id /\ d.size = c.size
  /\ ChunkSet(q, t) = (ChunkSet(p, t) \ {c}) \cup {d} /\ OthersKept(p, q, t)

-----------------------------------------------------------------------------
(* The slices held in a chunk. *)
LEMMA SlicesAdd ==
  ASSUME NEW L, NEW m, NEW t, NEW n
  PROVE  SlicesIn(With(L, m), t, n) =
           IF m.type = t /\ m.chunk = n
           THEN SlicesIn(L, t, n) \cup {Slice(m.offset, m.length)} ELSE SlicesIn(L, t, n)
BY DEF SlicesIn, With

SlicesLeft(L, m, t, n) ==
  SlicesIn(Without(L, m), t, n) =
    IF m.type = t /\ m.chunk = n
    THEN SlicesIn(L, t, n) \ {Slice(m.offset, m.length)} ELSE SlicesIn(L, t, n)

LEMMA SlicesRemove ==
  ASSUME NEW p, NEW L, L \subseteq MemoryType, MemoriesFound(p, L),
         NEW m \in L, NEW t, NEW n, n # NoChunk
  PROVE  SlicesLeft(L, m, t, n)
<1>1. \A x \in L : x.chunk # NoChunk => x.id = x.chunk
  BY DEF MemoriesFound
<1>2. ASSUME NEW x \in L, x.type = m.type, x.chunk = m.chunk, m.chunk # NoChunk,
             Slice(x.offset, x.length) = Slice(m.offset, m.length)
      PROVE  x = m
  <2>1. x.offset = m.offset /\ x.length = m.length
    BY <1>2 DEF Slice
  <2>2. x.id = m.id
    BY <1>1, <1>2
  <2>3. x \in MemoryType /\ m \in MemoryType
    OBVIOUS
  <2> QED BY <1>2, <2>1, <2>2, <2>3 DEF MemoryType
<1>3. CASE m.type = t /\ m.chunk = n
  <2>1. ASSUME NEW s \in SlicesIn(Without(L, m), t, n)
        PROVE  s \in SlicesIn(L, t, n) /\ s # Slice(m.offset, m.length)
    <3>1. PICK x \in Without(L, m) : x.type = t /\ x.chunk = n /\ s = Slice(x.offset, x.length)
      BY DEF SlicesIn, Without
    <3> QED BY <1>2, <1>3, <3>1 DEF SlicesIn, Without
  <2>2. ASSUME NEW s \in SlicesIn(L, t, n), s # Slice(m.offset, m.length)
        PROVE  s \in SlicesIn(Without(L, m), t, n)
    BY <2>2 DEF SlicesIn, Without
  <2> QED BY <1>3, <2>1, <2>2 DEF SlicesLeft
<1>4. CASE ~(m.type = t /\ m.chunk = n)
  BY <1>4 DEF SlicesLeft, SlicesIn, Without
<1> QED BY <1>3, <1>4

(* The bytes in use and allocated. *)
LEMMA ByteOwner ==
  ASSUME NEW x, NEW n, NEW z \in Bytes(x, n)
  PROVE  z = <<x, z[2]>> /\ z[1] = x
BY DEF Bytes

LEMMA UsedAdd ==
  ASSUME NEW L, NEW m, m \notin L, NEW h
  PROVE  /\ HeapOf[m.type] = h =>
              /\ UsedBytes(With(L, m), h) = UsedBytes(L, h) \cup Bytes(m, m.length)
              /\ UsedBytes(L, h) \cap Bytes(m, m.length) = {}
         /\ HeapOf[m.type] # h => UsedBytes(With(L, m), h) = UsedBytes(L, h)
<1>1. \A z : z \in UsedBytes(L, h) <=> \E x \in L : HeapOf[x.type] = h /\ z \in Bytes(x, x.length)
  BY DEF UsedBytes, With
<1>2. \A z : z \in UsedBytes(With(L, m), h) <=>
               \E x \in L \cup {m} : HeapOf[x.type] = h /\ z \in Bytes(x, x.length)
  BY DEF UsedBytes, With
<1>3. \A z, x : z \in Bytes(x, x.length) => z[1] = x
  BY ByteOwner
<1>4. \A z : z \in Bytes(m, m.length) => z \notin UsedBytes(L, h)
  BY <1>1, <1>3
<1>5. ASSUME HeapOf[m.type] = h, NEW z
      PROVE  z \in UsedBytes(With(L, m), h) <=> z \in UsedBytes(L, h) \/ z \in Bytes(m, m.length)
  BY <1>1, <1>2, <1>5
<1>6. ASSUME HeapOf[m.type] # h, NEW z
      PROVE  z \in UsedBytes(With(L, m), h) <=> z \in UsedBytes(L, h)
  BY <1>1, <1>2, <1>6
<1>7. HeapOf[m.type] = h => UsedBytes(With(L, m), h) = UsedBytes(L, h) \cup Bytes(m, m.length)
  BY <1>5
<1>8. HeapOf[m.type] # h => UsedBytes(With(L, m), h) = UsedBytes(L, h)
  BY <1>6
<1> QED BY <1>4, <1>7, <1>8

LEMMA UsedRemove ==
  ASSUME NEW L, NEW m \in L, NEW h
  PROVE  /\ HeapOf[m.type] = h =>
              /\ UsedBytes(Without(L, m), h) = UsedBytes(L, h) \ Bytes(m, m.length)
              /\ Bytes(m, m.length) \subseteq UsedBytes(L, h)
         /\ HeapOf[m.type] # h => UsedBytes(Without(L, m), h) = UsedBytes(L, h)
<1>1. \A z : z \in UsedBytes(L, h) <=> \E x \in L : HeapOf[x.type] = h /\ z \in Bytes(x, x.length)
  BY DEF UsedBytes, Without
<1>2. \A z : z \in UsedBytes(Without(L, m), h) <=>
               \E x \in L \ {m} : HeapOf[x.type] = h /\ z \in Bytes(x, x.length)
  BY DEF UsedBytes, Without
<1>3. \A z, x : z \in Bytes(x, x.length) => z[1] = x
  BY ByteOwner
<1> QED BY <1>1, <1>2, <1>3

LEMMA AllocatedIs ==
  ASSUME NEW p, NEW L, NEW h
  PROVE  \A z : z \in AllocatedBytes(p, L, h) <=>
           \/ \E t \in Types : HeapOf[t] = h /\ \E c \in ChunkSet(p, t) : z \in Bytes(c.id, c.size)
           \/ \E m \in L : HeapOf[m.type] = h /\ m.chunk = NoChunk /\ z \in Bytes(m.id, m.length)
<1>1. \A c : c \in ChunksOn(p, h) <=> \E t \in Types : HeapOf[t] = h /\ c \in ChunkSet(p, t)
  BY DEF ChunksOn, ChunkSet
<1>2. \A m : m \in DirectOn(L, h) <=> m \in L /\ HeapOf[m.type] = h /\ m.chunk = NoChunk
  BY DEF DirectOn
<1>3. \A z : z \in AllocatedBytes(p, L, h) <=>
           \/ \E c \in ChunksOn(p, h) : z \in Bytes(c.id, c.size)
           \/ \E m \in DirectOn(L, h) : z \in Bytes(m.id, m.length)
  BY DEF AllocatedBytes
<1> QED BY <1>1, <1>2, <1>3

(* A chunk that comes or goes takes its bytes with it.                     *)
BytesGained(p, q, L, t, c, h) ==
  /\ HeapOf[t] = h =>
       /\ AllocatedBytes(q, L, h) = AllocatedBytes(p, L, h) \cup Bytes(c.id, c.size)
       /\ AllocatedBytes(p, L, h) \cap Bytes(c.id, c.size) = {}
  /\ HeapOf[t] # h => AllocatedBytes(q, L, h) = AllocatedBytes(p, L, h)

BytesLost(p, q, L, t, c, h) ==
  /\ HeapOf[t] = h =>
       /\ AllocatedBytes(q, L, h) = AllocatedBytes(p, L, h) \ Bytes(c.id, c.size)
       /\ Bytes(c.id, c.size) \subseteq AllocatedBytes(p, L, h)
  /\ HeapOf[t] # h => AllocatedBytes(q, L, h) = AllocatedBytes(p, L, h)

LEMMA ChunkBytesAdded ==
  ASSUME NEW p, NEW q, NEW L, NEW t \in Types, NEW c, Gains(p, q, t, c),
         c.id \notin Handles(p, L), NEW h
  PROVE  BytesGained(p, q, L, t, c, h)
<1>1. /\ ChunkSet(q, t) = ChunkSet(p, t) \cup {c}
      /\ \A u \in Types \ {t} : ChunkSet(q, u) = ChunkSet(p, u)
  BY DEF Gains, OthersKept
<1>2. /\ \A u \in Types : \A d \in ChunkSet(p, u) : d.id # c.id
      /\ \A m \in L : m.chunk = NoChunk => m.id # c.id
  BY DEF Handles
<1>3. \A z, x, n : z \in Bytes(x, n) => z[1] = x
  BY ByteOwner
<1>4. HeapOf[t] = h => \A z : z \in AllocatedBytes(p, L, h) => z \notin Bytes(c.id, c.size)
  BY <1>2, <1>3, AllocatedIs
<1>5. HeapOf[t] # h => AllocatedBytes(q, L, h) = AllocatedBytes(p, L, h)
  <2> SUFFICES ASSUME HeapOf[t] # h, NEW z
               PROVE  z \in AllocatedBytes(q, L, h) <=> z \in AllocatedBytes(p, L, h)
    OBVIOUS
  <2>1. \A u \in Types : HeapOf[u] = h => ChunkSet(q, u) = ChunkSet(p, u)
    BY <1>1
  <2>2. z \in AllocatedBytes(q, L, h) => z \in AllocatedBytes(p, L, h)
    BY <2>1, AllocatedIs
  <2>3. z \in AllocatedBytes(p, L, h) => z \in AllocatedBytes(q, L, h)
    BY <2>1, AllocatedIs
  <2> QED BY <2>2, <2>3
<1>6. HeapOf[t] = h =>
        AllocatedBytes(q, L, h) = AllocatedBytes(p, L, h) \cup Bytes(c.id, c.size)
  <2> SUFFICES ASSUME HeapOf[t] = h, NEW z
               PROVE  z \in AllocatedBytes(q, L, h) <=>
                        z \in AllocatedBytes(p, L, h) \/ z \in Bytes(c.id, c.size)
    OBVIOUS
  <2>1. z \in AllocatedBytes(q, L, h) => z \in AllocatedBytes(p, L, h) \/ z \in Bytes(c.id, c.size)
    BY <1>1, AllocatedIs
  <2>2. z \in AllocatedBytes(p, L, h) => z \in AllocatedBytes(q, L, h)
    BY <1>1, AllocatedIs
  <2>3. z \in Bytes(c.id, c.size) => z \in AllocatedBytes(q, L, h)
    BY <1>1, AllocatedIs
  <2> QED BY <2>1, <2>2, <2>3
<1> QED BY <1>4, <1>5, <1>6 DEF BytesGained

LEMMA ChunkBytesRemoved ==
  ASSUME NEW p, NEW q, NEW L, NEW t \in Types, NEW c, Loses(p, q, t, c),
         ChunksApart(p), MemoriesFound(p, L), NEW h
  PROVE  BytesLost(p, q, L, t, c, h)
<1>1. /\ c \in ChunkSet(p, t) /\ ChunkSet(q, t) = ChunkSet(p, t) \ {c}
      /\ \A u \in Types \ {t} : ChunkSet(q, u) = ChunkSet(p, u)
  BY DEF Loses, OthersKept
<1>2. /\ \A u \in Types : \A d \in ChunkSet(p, u) : d.id = c.id => u = t /\ d = c
      /\ \A m \in L : m.chunk = NoChunk => m.id # c.id
  BY <1>1 DEF ChunksApart, MemoriesFound
<1>3. \A z, x, n : z \in Bytes(x, n) => z[1] = x
  BY ByteOwner
<1>4. HeapOf[t] = h => \A z : z \in Bytes(c.id, c.size) => z \in AllocatedBytes(p, L, h)
  BY <1>1, AllocatedIs
<1>5. HeapOf[t] # h => AllocatedBytes(q, L, h) = AllocatedBytes(p, L, h)
  <2> SUFFICES ASSUME HeapOf[t] # h, NEW z
               PROVE  z \in AllocatedBytes(q, L, h) <=> z \in AllocatedBytes(p, L, h)
    OBVIOUS
  <2>1. \A u \in Types : HeapOf[u] = h => ChunkSet(q, u) = ChunkSet(p, u)
    BY <1>1
  <2>2. z \in AllocatedBytes(q, L, h) => z \in AllocatedBytes(p, L, h)
    BY <2>1, AllocatedIs
  <2>3. z \in AllocatedBytes(p, L, h) => z \in AllocatedBytes(q, L, h)
    BY <2>1, AllocatedIs
  <2> QED BY <2>2, <2>3
<1>6. HeapOf[t] = h =>
        AllocatedBytes(q, L, h) = AllocatedBytes(p, L, h) \ Bytes(c.id, c.size)
  <2> SUFFICES ASSUME HeapOf[t] = h, NEW z
               PROVE  z \in AllocatedBytes(q, L, h) <=>
                        z \in AllocatedBytes(p, L, h) /\ z \notin Bytes(c.id, c.size)
    OBVIOUS
  <2>1. z \in AllocatedBytes(q, L, h) => z \in AllocatedBytes(p, L, h)
    BY <1>1, AllocatedIs
  <2>2. z \in AllocatedBytes(q, L, h) => z \notin Bytes(c.id, c.size)
    <3> SUFFICES ASSUME z \in AllocatedBytes(q, L, h), z \in Bytes(c.id, c.size) PROVE FALSE
      OBVIOUS
    <3>1. z[1] = c.id
      BY <1>3
    <3>2. CASE \E u \in Types : HeapOf[u] = h /\ \E d \in ChunkSet(q, u) : z \in Bytes(d.id, d.size)
      <4>1. PICK u \in Types : \E d \in ChunkSet(q, u) : z \in Bytes(d.id, d.size)
        BY <3>2
      <4>2. PICK d \in ChunkSet(q, u) : z \in Bytes(d.id, d.size)
        BY <4>1
      <4>3. d.id = c.id /\ d \in ChunkSet(p, u)
        BY <1>1, <1>3, <3>1, <4>2
      <4> QED BY <1>1, <1>2, <4>2, <4>3
    <3>3. CASE \E m \in L : HeapOf[m.type] = h /\ m.chunk = NoChunk /\ z \in Bytes(m.id, m.length)
      BY <1>2, <1>3, <3>1, <3>3
    <3> QED BY <3>2, <3>3, AllocatedIs
  <2>3. z \in AllocatedBytes(p, L, h) /\ z \notin Bytes(c.id, c.size) => z \in AllocatedBytes(q, L, h)
    <3> SUFFICES ASSUME z \in AllocatedBytes(p, L, h), z \notin Bytes(c.id, c.size)
                 PROVE  z \in AllocatedBytes(q, L, h)
      OBVIOUS
    <3>1. CASE \E u \in Types : HeapOf[u] = h /\ \E d \in ChunkSet(p, u) : z \in Bytes(d.id, d.size)
      <4>1. PICK u \in Types : HeapOf[u] = h /\ \E d \in ChunkSet(p, u) : z \in Bytes(d.id, d.size)
        BY <3>1
      <4>2. PICK d \in ChunkSet(p, u) : z \in Bytes(d.id, d.size)
        BY <4>1
      <4>3. d \in ChunkSet(q, u)
        BY <1>1, <4>2
      <4> QED BY <4>1, <4>2, <4>3, AllocatedIs
    <3>2. CASE \E m \in L : HeapOf[m.type] = h /\ m.chunk = NoChunk /\ z \in Bytes(m.id, m.length)
      BY <3>2, AllocatedIs
    <3> QED BY <3>1, <3>2, AllocatedIs
  <2> QED BY <2>1, <2>2, <2>3
<1> QED BY <1>4, <1>5, <1>6 DEF BytesLost

(* A change of a free list leaves the bytes of its chunk as they are.      *)
LEMMA ChunkBytesKept ==
  ASSUME NEW p, NEW q, NEW L, NEW t \in Types, NEW c, NEW d, Swaps(p, q, t, c, d), NEW h
  PROVE  /\ AllocatedBytes(q, L, h) = AllocatedBytes(p, L, h)
         /\ Handles(q, L) = Handles(p, L)
<1>1. /\ c \in ChunkSet(p, t) /\ d.id = c.id /\ d.size = c.size
      /\ ChunkSet(q, t) = (ChunkSet(p, t) \ {c}) \cup {d}
      /\ \A u \in Types \ {t} : ChunkSet(q, u) = ChunkSet(p, u)
  BY DEF Swaps, OthersKept
<1>2. \A u \in Types : \A e \in ChunkSet(q, u) :
        \E f \in ChunkSet(p, u) : f.id = e.id /\ f.size = e.size
  <2> TAKE u \in Types
  <2> TAKE e \in ChunkSet(q, u)
  <2>1. CASE u = t /\ e = d
    BY <1>1, <2>1
  <2>2. CASE ~(u = t /\ e = d)
    <3>1. e \in ChunkSet(p, u)
      BY <1>1, <2>2
    <3> QED BY <3>1
  <2> QED BY <2>1, <2>2
<1>3. \A u \in Types : \A e \in ChunkSet(p, u) :
        \E f \in ChunkSet(q, u) : f.id = e.id /\ f.size = e.size
  <2> TAKE u \in Types
  <2> TAKE e \in ChunkSet(p, u)
  <2>1. CASE u = t /\ e = c
    BY <1>1, <2>1
  <2>2. CASE ~(u = t /\ e = c)
    <3>1. e \in ChunkSet(q, u)
      BY <1>1, <2>2
    <3> QED BY <3>1
  <2> QED BY <2>1, <2>2
<1>4. \A z : z \in AllocatedBytes(q, L, h) => z \in AllocatedBytes(p, L, h)
  BY <1>2, AllocatedIs
<1>5. \A z : z \in AllocatedBytes(p, L, h) => z \in AllocatedBytes(q, L, h)
  BY <1>3, AllocatedIs
<1>6. \A z : z \in Handles(q, L) => z \in Handles(p, L)
  BY <1>2 DEF Handles
<1>7. \A z : z \in Handles(p, L) => z \in Handles(q, L)
  BY <1>3 DEF Handles
<1> QED BY <1>4, <1>5, <1>6, <1>7

-----------------------------------------------------------------------------
(* A new handle is one that nothing holds.                                 *)
LEMMA HandleIsNew ==
  ASSUME NEW p \in PoolType, IsFiniteSet(Handles(p, memories))
  PROVE  NewHandle(p) \in Nat \ {0} /\ NewHandle(p) \notin Handles(p, memories)
<1>1. PICK H : H = Handles(p, memories)
  OBVIOUS
<1>2. HandlesInUse(p) = H
  <2>1. ASSUME NEW t \in Types
        PROVE  {p.chunks[t][i].id : i \in DOMAIN p.chunks[t]} = {c.id : c \in ChunkSet(p, t)}
    BY DEF ChunkSet, ToSet
  <2>2. ASSUME NEW z
        PROVE  (\E t \in Types : z \in {p.chunks[t][i].id : i \in DOMAIN p.chunks[t]})
                 <=> (\E t \in Types : z \in {c.id : c \in ChunkSet(p, t)})
    BY <2>1
  <2>3. PICK D : D = {m.id : m \in {x \in memories : x.chunk = NoChunk}}
    OBVIOUS
  <2>4. \A z : z \in HandlesInUse(p) <=>
          (\E t \in Types : z \in {p.chunks[t][i].id : i \in DOMAIN p.chunks[t]}) \/ z \in D
    BY <2>3 DEF HandlesInUse
  <2>5. \A z : z \in H <=> (\E t \in Types : z \in {c.id : c \in ChunkSet(p, t)}) \/ z \in D
    BY <1>1, <2>3 DEF Handles
  <2> QED BY <2>2, <2>4, <2>5
<1>3. Cardinality(H) \in Nat
  BY <1>1, FS_CardinalityType
<1>4. PICK n : n = Cardinality(H)
  OBVIOUS
<1>5. PICK I : I = 1 .. n + 1
  OBVIOUS
<1>6. Cardinality(I) = n + 1
  <2>1. Cardinality(1 .. n + 1) = IF 1 > n + 1 THEN 0 ELSE (n + 1) - 1 + 1
    BY <1>3, <1>4, FS_Interval
  <2> QED BY <1>3, <1>4, <1>5, <2>1
<1>7. \E k \in I : k \notin H
  <2>1. SUFFICES ASSUME I \subseteq H PROVE FALSE
    OBVIOUS
  <2>2. Cardinality(I) <= Cardinality(H)
    BY <1>1, <2>1, FS_Subset
  <2> QED BY <1>3, <1>4, <1>6, <2>2
<1>8. NewHandle(p) = CHOOSE k \in I : k \notin H
  BY <1>2, <1>4, <1>5 DEF NewHandle
<1>9. NewHandle(p) \in I /\ NewHandle(p) \notin H
  BY <1>7, <1>8
<1> QED BY <1>1, <1>3, <1>4, <1>5, <1>9

(* The sizes of chunks are natural numbers.                                *)
LEMMA HalvedType ==
  ASSUME NEW size \in Nat, NEW h \in Heaps
  PROVE  HalveToFit(size, h) \in Nat
<1>1. ASSUME NEW x \in Nat PROVE Halve(x, h) \in Nat
  BY DEF Halve
<1> DEFINE Is(f) == f = [n \in 0 .. size |-> IF n = 0 THEN size ELSE Halve(f[n - 1], h)]
           G == [n \in 1 .. size |-> [x \in Nat |-> Halve(x, h)]]
<1>2. PICK T : T = Nat
  OBVIOUS
<1>3. PICK g \in [0 .. size -> T] : g[0] = size /\ \A n \in 1 .. size : g[n] = G[n][g[n - 1]]
  <2>1. G \in [1 .. size -> [T -> T]]
    BY <1>1, <1>2
  <2>2. PICK first \in T : first = size
    BY <1>2
  <2>3. PICK GG \in [1 .. size -> [T -> T]] : GG = G
    BY <2>1
  <2>4. Solutions(T, size, first, GG) # {}
    BY Recursion
  <2>5. \E g \in [0 .. size -> T] : g[0] = first /\ \A n \in 1 .. size : g[n] = GG[n][g[n - 1]]
    BY <2>4 DEF Solutions
  <2> HIDE DEF G
  <2> QED BY <2>2, <2>3, <2>5
<1>4. \A n \in 0 .. size : g[n] = IF n = 0 THEN size ELSE Halve(g[n - 1], h)
  <2>1. ASSUME NEW n \in 1 .. size PROVE g[n] = Halve(g[n - 1], h)
    <3>1. n - 1 \in 0 .. size
      OBVIOUS
    <3>2. g[n - 1] \in Nat
      BY <1>2, <3>1
    <3> QED BY <1>3, <3>2
  <2> QED BY <1>3, <2>1
<1>5. Is(g)
  BY <1>4
<1>6. PICK f : f = CHOOSE x : Is(x)
  OBVIOUS
<1>7. Is(f)
  <2> HIDE DEF Is
  <2> QED BY <1>5, <1>6
<1>8. HalveToFit(size, h) = f[size]
  BY <1>6 DEF HalveToFit
<1>9. f[0] = size /\ \A n \in 1 .. size : f[n] = Halve(f[n - 1], h)
  BY <1>7
<1>10. PICK S : S = {n \in 0 .. size : f[n] \in Nat}
  OBVIOUS
<1>11. 0 \in S
  BY <1>9, <1>10
<1>12. ASSUME NEW n \in 1 .. size, n - 1 \in S PROVE n \in S
  <2>1. PICK x \in Nat : x = f[n - 1]
    BY <1>10, <1>12
  <2>2. f[n] = Halve(x, h)
    BY <1>9, <2>1
  <2>3. f[n] \in Nat
    BY <1>1, <2>2
  <2> QED BY <1>10, <2>3
<1>13. \A n \in 0 .. size : n \in S
  BY <1>11, <1>12, Climb
<1> QED BY <1>8, <1>10, <1>13

LEMMA PickType ==
  ASSUME NEW t \in Types, NEW hints
  PROVE  pickChunkSize(t, hints) \in Nat
<1>1. HeapOf[t] \in Heaps /\ HostChunk \in Nat /\ SmallChunk \in Nat /\ DefaultChunk \in Nat
  BY AllocatorAssumption
<1> QED BY <1>1, HalvedType DEF pickChunkSize

-----------------------------------------------------------------------------
(* A chunk is empty exactly when no memory is held in it.                  *)
LEMMA EmptyIs ==
  ASSUME NEW c \in ChunkType, NEW S, ChunkCut(c, S)
  PROVE  IsEmptyChunk(c) <=> S = {}
<1>1. PICK list \in Seq(SliceType) : list = c.freeList
  BY DEF ChunkType
<1>2. PICK n \in Nat \ {0} : n = c.size
  BY DEF ChunkType
<1>3. Distinct(list) /\ Partition(ToSet(list), S, n)
  BY <1>1, <1>2 DEF ChunkCut
<1>4. Alone(ToSet(list), n) <=> S = {}
  BY <1>3, AloneIsUnused
<1>5. ToSet(list) = {list[i] : i \in 1 .. Len(list)} /\ Len(list) \in Nat
  BY InSet
<1>6. ASSUME ListIsEmpty(list, n) PROVE Alone(ToSet(list), n)
  <2>1. Len(list) = 1 /\ list[1].length = n
    BY <1>6 DEF ListIsEmpty
  <2>2. \A i : i \in 1 .. Len(list) <=> i = 1
    BY <2>1
  <2>3. ToSet(list) = {list[1]}
    BY <1>5, <2>2
  <2> QED BY <2>1, <2>3 DEF Alone
<1>7. ASSUME Alone(ToSet(list), n) PROVE ListIsEmpty(list, n)
  <2>1. PICK s \in ToSet(list) : ToSet(list) = {s} /\ s.length = n
    BY <1>7 DEF Alone
  <2>2. \A i \in 1 .. Len(list) : list[i] = s
    BY <1>5, <2>1
  <2>3. Len(list) # 0
    BY <1>5, <2>1
  <2>4. 1 \in 1 .. Len(list)
    BY <1>5, <2>3
  <2>5. ~(Len(list) >= 2)
    <3>1. SUFFICES ASSUME Len(list) >= 2 PROVE FALSE
      OBVIOUS
    <3>2. 2 \in 1 .. Len(list)
      BY <1>5, <3>1
    <3>3. list[1] = list[2]
      BY <2>2, <2>4, <3>2
    <3>4. 1 = 2
      BY <1>3, <2>4, <3>2, <3>3 DEF Distinct
    <3> QED BY <3>4
  <2>6. PICK k \in Nat : k = Len(list)
    BY <1>5
  <2>7. k = 1
    <3>1. k # 0 /\ ~(k >= 2)
      BY <2>3, <2>5, <2>6
    <3> QED BY <3>1
  <2> QED BY <2>1, <2>2, <2>4, <2>6, <2>7 DEF ListIsEmpty
<1>8. IsEmptyChunk(c) <=> ListIsEmpty(list, n)
  BY <1>1, <1>2 DEF IsEmptyChunk
<1> QED BY <1>4, <1>6, <1>7, <1>8

-----------------------------------------------------------------------------
(* The sweep keeps the chunks that are in use.                             *)
LEMMA InUseIs ==
  ASSUME NEW chunks \in Seq(ChunkType), Distinct(chunks)
  PROVE  /\ ChunksInUse(chunks) \in Seq(ChunkType) /\ Distinct(ChunksInUse(chunks))
         /\ ToSet(ChunksInUse(chunks)) = {c \in ToSet(chunks) : ~IsEmptyChunk(c)}
<1>1. PICK N \in Nat : N = Len(chunks)
  OBVIOUS
<1>2. \A n \in 1 .. N : chunks[n] \in ChunkType
  BY <1>1
<1> DEFINE Step(n, x) == IF IsEmptyChunk(chunks[n]) THEN x ELSE Append(x, chunks[n])
           Is(f) == f = [n \in 0 .. N |-> IF n = 0 THEN <<>> ELSE Step(n, f[n - 1])]
<1>3. PICK T : T = Seq(ChunkType)
  OBVIOUS
<1>4. \E g : Is(g)
  <2> DEFINE G == [n \in 1 .. N |-> [x \in T |-> Step(n, x)]]
  <2>1. \A n \in 1 .. N : \A x \in T : Step(n, x) \in T
    BY <1>2, <1>3, AppendProperties
  <2>2. PICK GG \in [1 .. N -> [T -> T]] : GG = G
    <3> HIDE DEF Step
    <3> QED BY <2>1
  <2>3. PICK first \in T : first = <<>>
    <3>1. <<>> \in Seq(ChunkType)
      OBVIOUS
    <3> QED BY <1>3, <3>1
  <2>4. Solutions(T, N, first, GG) # {}
    BY Recursion
  <2>5. PICK g \in [0 .. N -> T] : g[0] = first /\ \A n \in 1 .. N : g[n] = GG[n][g[n - 1]]
    BY <2>4 DEF Solutions
  <2>6. \A n \in 0 .. N : g[n] = IF n = 0 THEN <<>> ELSE Step(n, g[n - 1])
    <3>1. ASSUME NEW n \in 1 .. N PROVE g[n] = Step(n, g[n - 1])
      <4>1. n - 1 \in 0 .. N
        OBVIOUS
      <4>2. g[n - 1] \in T
        BY <4>1
      <4> HIDE DEF Step
      <4> QED BY <2>2, <2>5, <4>2
    <3> HIDE DEF Step
    <3> QED BY <2>3, <2>5, <3>1
  <2>7. Is(g)
    <3> HIDE DEF Step
    <3> QED BY <2>6
  <2> QED BY <2>7
<1>5. PICK f : f = CHOOSE x : Is(x)
  OBVIOUS
<1>6. Is(f)
  <2> HIDE DEF Is
  <2> QED BY <1>4, <1>5
<1>7. ChunksInUse(chunks) = f[N]
  BY <1>1, <1>5 DEF ChunksInUse
<1>8. f[0] = <<>> /\ \A n \in 1 .. N : f[n] = Step(n, f[n - 1])
  <2> HIDE DEF Step
  <2> QED BY <1>6
<1> DEFINE Kept(n) == {chunks[i] : i \in {j \in 1 .. n : ~IsEmptyChunk(chunks[j])}}
           Good(n) == f[n] \in Seq(ChunkType) /\ Distinct(f[n]) /\ ToSet(f[n]) = Kept(n)
<1>9. PICK S : S = {n \in 0 .. N : Good(n)}
  OBVIOUS
<1>10. 0 \in S
  <2>1. <<>> \in Seq(ChunkType) /\ Distinct(<<>>) /\ ToSet(<<>>) = {}
    BY DEF Distinct, ToSet
  <2>2. Kept(0) = {}
    OBVIOUS
  <2>3. Good(0)
    <3> HIDE DEF Kept
    <3> QED BY <1>8, <2>1, <2>2
  <2> QED BY <1>9, <2>3
<1>11. ASSUME NEW n \in 1 .. N, n - 1 \in S PROVE n \in S
  <2>1. Good(n - 1)
    BY <1>9, <1>11
  <2>2. PICK s \in Seq(ChunkType) : s = f[n - 1]
    BY <2>1
  <2>3. PICK c \in ChunkType : c = chunks[n]
    BY <1>2
  <2>4. f[n] = IF IsEmptyChunk(c) THEN s ELSE Append(s, c)
    BY <1>8, <2>2, <2>3
  <2>5. Distinct(s) /\ ToSet(s) = Kept(n - 1)
    BY <2>1, <2>2
  <2>6. Kept(n) = IF IsEmptyChunk(c) THEN Kept(n - 1) ELSE Kept(n - 1) \cup {c}
    <3>1. \A j : j \in 1 .. n <=> j \in 1 .. n - 1 \/ j = n
      OBVIOUS
    <3>2. \A z : z \in Kept(n) <=> \E j \in 1 .. n : ~IsEmptyChunk(chunks[j]) /\ z = chunks[j]
      OBVIOUS
    <3>3. \A z : z \in Kept(n - 1)
                   <=> \E j \in 1 .. n - 1 : ~IsEmptyChunk(chunks[j]) /\ z = chunks[j]
      OBVIOUS
    <3> HIDE DEF Kept
    <3>4. ASSUME IsEmptyChunk(c), NEW z PROVE z \in Kept(n) <=> z \in Kept(n - 1)
      BY <2>3, <3>1, <3>2, <3>3, <3>4
    <3>5. ASSUME ~IsEmptyChunk(c), NEW z PROVE z \in Kept(n) <=> z \in Kept(n - 1) \/ z = c
      BY <2>3, <3>1, <3>2, <3>3, <3>5
    <3> QED BY <3>4, <3>5
  <2>7. c \notin Kept(n - 1)
    <3>1. SUFFICES ASSUME c \in Kept(n - 1) PROVE FALSE
      OBVIOUS
    <3>2. PICK j \in 1 .. n - 1 : c = chunks[j]
      BY <3>1
    <3>3. j \in 1 .. Len(chunks) /\ n \in 1 .. Len(chunks) /\ j # n
      BY <1>1, <3>2
    <3> QED BY <2>3, <3>2, <3>3 DEF Distinct
  <2>8. Good(n)
    <3> HIDE DEF Kept
    <3>1. CASE IsEmptyChunk(c)
      BY <2>4, <2>5, <2>6, <3>1
    <3>2. CASE ~IsEmptyChunk(c)
      <4>1. /\ Append(s, c) \in Seq(ChunkType) /\ Distinct(Append(s, c))
            /\ ToSet(Append(s, c)) = ToSet(s) \cup {c}
        BY <2>5, <2>7, AppendDistinct
      <4> QED BY <2>4, <2>5, <2>6, <3>2, <4>1
    <3> QED BY <3>1, <3>2
  <2> QED BY <1>9, <2>8
<1>12. \A n \in 0 .. N : n \in S
  BY <1>10, <1>11, Climb
<1>13. Good(N)
  <2> HIDE DEF Good
  <2> QED BY <1>9, <1>12
<1>14. Kept(N) = {c \in ToSet(chunks) : ~IsEmptyChunk(c)}
  <2>1. ToSet(chunks) = {chunks[i] : i \in 1 .. N}
    BY <1>1, InSet
  <2> QED BY <2>1
<1> HIDE DEF Kept
<1> QED BY <1>7, <1>13, <1>14

-----------------------------------------------------------------------------
(* The size of the empty chunks is the number of their bytes.              *)
EmptyBytes(chunks, n) ==
  UNION {Bytes(chunks[i].id, chunks[i].size) : i \in {j \in 1 .. n : IsEmptyChunk(chunks[j])}}

LEMMA EmptySizeIs ==
  ASSUME NEW chunks \in Seq(ChunkType),
         \A i, j \in 1 .. Len(chunks) : chunks[i].id = chunks[j].id => i = j
  PROVE  /\ EmptySize(chunks) \in Nat
         /\ IsFiniteSet(EmptyBytes(chunks, Len(chunks)))
         /\ EmptySize(chunks) = Cardinality(EmptyBytes(chunks, Len(chunks)))
<1>1. PICK N \in Nat : N = Len(chunks)
  OBVIOUS
<1>2. \A n \in 1 .. N : chunks[n].size \in Nat
  <2>1. \A n \in 1 .. N : chunks[n] \in ChunkType
    BY <1>1
  <2> QED BY <2>1 DEF ChunkType
<1> DEFINE Step(n, x) == x + IF IsEmptyChunk(chunks[n]) THEN chunks[n].size ELSE 0
           Is(f) == f = [n \in 0 .. N |-> IF n = 0 THEN 0 ELSE Step(n, f[n - 1])]
<1>3. PICK T : T = Nat
  OBVIOUS
<1>4. \E g : Is(g)
  <2> DEFINE G == [n \in 1 .. N |-> [x \in T |-> Step(n, x)]]
  <2>1. \A n \in 1 .. N : \A x \in T : Step(n, x) \in T
    BY <1>2, <1>3
  <2>2. PICK GG \in [1 .. N -> [T -> T]] : GG = G
    <3> HIDE DEF Step
    <3> QED BY <2>1
  <2>3. PICK first \in T : first = 0
    BY <1>3
  <2>4. Solutions(T, N, first, GG) # {}
    BY Recursion
  <2>5. PICK g \in [0 .. N -> T] : g[0] = first /\ \A n \in 1 .. N : g[n] = GG[n][g[n - 1]]
    BY <2>4 DEF Solutions
  <2>6. \A n \in 0 .. N : g[n] = IF n = 0 THEN 0 ELSE Step(n, g[n - 1])
    <3>1. ASSUME NEW n \in 1 .. N PROVE g[n] = Step(n, g[n - 1])
      <4>1. n - 1 \in 0 .. N
        OBVIOUS
      <4>2. g[n - 1] \in T
        BY <4>1
      <4> HIDE DEF Step
      <4> QED BY <2>2, <2>5, <4>2
    <3> HIDE DEF Step
    <3> QED BY <2>3, <2>5, <3>1
  <2>7. Is(g)
    <3> HIDE DEF Step
    <3> QED BY <2>6
  <2> QED BY <2>7
<1>5. PICK f : f = CHOOSE x : Is(x)
  OBVIOUS
<1>6. Is(f)
  <2> HIDE DEF Is
  <2> QED BY <1>4, <1>5
<1>7. EmptySize(chunks) = f[N]
  BY <1>1, <1>5 DEF EmptySize
<1>8. f[0] = 0 /\ \A n \in 1 .. N : f[n] = Step(n, f[n - 1])
  <2> HIDE DEF Step
  <2> QED BY <1>6
<1> DEFINE Good(n) == /\ f[n] \in Nat /\ IsFiniteSet(EmptyBytes(chunks, n))
                      /\ f[n] = Cardinality(EmptyBytes(chunks, n))
<1>9. PICK S : S = {n \in 0 .. N : Good(n)}
  OBVIOUS
<1>10. 0 \in S
  <2>1. EmptyBytes(chunks, 0) = {}
    BY DEF EmptyBytes
  <2>2. IsFiniteSet(EmptyBytes(chunks, 0)) /\ Cardinality(EmptyBytes(chunks, 0)) = 0
    BY <2>1, FS_EmptySet
  <2>3. f[0] = 0
    BY <1>8
  <2>4. Good(0)
    BY <2>2, <2>3
  <2> HIDE DEF Good
  <2> QED BY <1>9, <2>4
<1>11. ASSUME NEW n \in 1 .. N, n - 1 \in S PROVE n \in S
  <2>1. Good(n - 1)
    BY <1>9, <1>11
  <2>2. PICK s \in Nat : s = f[n - 1]
    BY <2>1
  <2>3. PICK c : c = chunks[n]
    OBVIOUS
  <2>4. c.size \in Nat
    BY <1>2, <2>3
  <2>5. f[n] = s + IF IsEmptyChunk(c) THEN c.size ELSE 0
    BY <1>8, <2>2, <2>3
  <2>6. PICK B : B = EmptyBytes(chunks, n - 1)
    OBVIOUS
  <2>7. PICK C : C = EmptyBytes(chunks, n)
    OBVIOUS
  <2>8. \A j : j \in 1 .. n <=> j \in 1 .. n - 1 \/ j = n
    OBVIOUS
  <2>9. \A z : z \in C <=> \E j \in 1 .. n : /\ IsEmptyChunk(chunks[j])
                                             /\ z \in Bytes(chunks[j].id, chunks[j].size)
    BY <2>7 DEF EmptyBytes
  <2>10. \A z : z \in B <=> \E j \in 1 .. n - 1 : /\ IsEmptyChunk(chunks[j])
                                                  /\ z \in Bytes(chunks[j].id, chunks[j].size)
    BY <2>6 DEF EmptyBytes
  <2>11. IsFiniteSet(B) /\ s = Cardinality(B)
    BY <2>1, <2>2, <2>6
  <2>12. f[n] \in Nat /\ IsFiniteSet(C) /\ f[n] = Cardinality(C)
    <3>1. CASE IsEmptyChunk(c)
      <4>1. B \cap Bytes(c.id, c.size) = {}
        <5>1. SUFFICES ASSUME NEW z \in B, z \in Bytes(c.id, c.size) PROVE FALSE
          OBVIOUS
        <5>2. PICK j \in 1 .. n - 1 : z \in Bytes(chunks[j].id, chunks[j].size)
          BY <2>10
        <5>3. chunks[j].id = chunks[n].id
          BY <2>3, <5>1, <5>2, ByteOwner
        <5>4. j \in 1 .. Len(chunks) /\ n \in 1 .. Len(chunks) /\ j # n
          BY <1>1, <5>2
        <5> QED BY <5>3, <5>4
      <4>2. C = B \cup Bytes(c.id, c.size)
        <5>1. ASSUME NEW z PROVE z \in C <=> z \in B \/ z \in Bytes(c.id, c.size)
          BY <2>3, <2>8, <2>9, <2>10, <3>1
        <5> QED BY <5>1
      <4>3. IsFiniteSet(C) /\ Cardinality(C) = Cardinality(B) + c.size
        BY <2>4, <2>11, <4>1, <4>2, BytesAdded
      <4> QED BY <2>4, <2>5, <2>11, <3>1, <4>3
    <3>2. CASE ~IsEmptyChunk(c)
      <4>1. C = B
        <5>1. ASSUME NEW z PROVE z \in C <=> z \in B
          BY <2>3, <2>8, <2>9, <2>10, <3>2
        <5> QED BY <5>1
      <4> QED BY <2>5, <2>11, <3>2, <4>1
    <3> QED BY <3>1, <3>2
  <2> QED BY <1>9, <2>7, <2>12
<1>12. \A n \in 0 .. N : n \in S
  BY <1>10, <1>11, Climb
<1>13. Good(N)
  <2> HIDE DEF Good
  <2> QED BY <1>9, <1>12
<1> QED BY <1>1, <1>7, <1>13

LEMMA EmptyBytesIs ==
  ASSUME NEW chunks \in Seq(ChunkType)
  PROVE  \A z : z \in EmptyBytes(chunks, Len(chunks)) <=>
           \E c \in ToSet(chunks) : IsEmptyChunk(c) /\ z \in Bytes(c.id, c.size)
<1>1. ToSet(chunks) = {chunks[i] : i \in 1 .. Len(chunks)}
  BY InSet
<1>2. \A z : z \in EmptyBytes(chunks, Len(chunks)) <=>
        \E i \in 1 .. Len(chunks) : /\ IsEmptyChunk(chunks[i])
                                    /\ z \in Bytes(chunks[i].id, chunks[i].size)
  BY DEF EmptyBytes
<1> QED BY <1>1, <1>2

(* What the sweep of a heap gives back is the number of bytes it removes.  *)
SweptBytes(p, h, n) ==
  UNION {EmptyBytes(p.chunks[t], Len(p.chunks[t])) : t \in {u \in 1 .. n : HeapOf[u] = h}}

LEMMA ChunksType ==
  ASSUME NEW p \in PoolType, NEW t \in Types
  PROVE  /\ p.chunks[t] \in Seq(ChunkType)
         /\ ChunkSet(p, t) = {p.chunks[t][i] : i \in 1 .. Len(p.chunks[t])}
         /\ ChunkSet(p, t) \subseteq ChunkType
<1>1. p.chunks[t] \in Seq(ChunkType)
  BY DEF PoolType
<1>2. PICK s \in Seq(ChunkType) : s = p.chunks[t]
  BY <1>1
<1>3. ToSet(s) = {s[i] : i \in 1 .. Len(s)} /\ ToSet(s) \subseteq ChunkType
  BY InSet
<1> QED BY <1>2, <1>3 DEF ChunkSet

LEMMA EmptyBytesOf ==
  ASSUME NEW p \in PoolType, ChunksApart(p), NEW t \in Types,
         NEW E, E = EmptyBytes(p.chunks[t], Len(p.chunks[t]))
  PROVE  /\ EmptySize(p.chunks[t]) \in Nat
         /\ IsFiniteSet(E)
         /\ EmptySize(p.chunks[t]) = Cardinality(E)
         /\ \A z : z \in E <=> \E c \in ChunkSet(p, t) : IsEmptyChunk(c) /\ z \in Bytes(c.id, c.size)
<1>1. PICK s \in Seq(ChunkType) : s = p.chunks[t]
  BY ChunksType
<1>2. ASSUME NEW i \in 1 .. Len(s), NEW j \in 1 .. Len(s), s[i].id = s[j].id PROVE i = j
  <2>1. s[i] \in ChunkSet(p, t) /\ s[j] \in ChunkSet(p, t)
    BY <1>1, ChunksType
  <2>2. s[i] = s[j]
    BY <1>2, <2>1 DEF ChunksApart
  <2> QED BY <1>1, <2>2 DEF ChunksApart, Distinct
<1>3. /\ EmptySize(s) \in Nat
      /\ IsFiniteSet(EmptyBytes(s, Len(s)))
      /\ EmptySize(s) = Cardinality(EmptyBytes(s, Len(s)))
  BY <1>2, EmptySizeIs
<1>4. \A z : z \in EmptyBytes(s, Len(s)) <=>
        \E c \in ToSet(s) : IsEmptyChunk(c) /\ z \in Bytes(c.id, c.size)
  BY EmptyBytesIs
<1> QED BY <1>1, <1>3, <1>4 DEF ChunkSet

LEMMA FreedSizeIs ==
  ASSUME NEW p \in PoolType, ChunksApart(p), NEW h
  PROVE  /\ FreedSize(p, h) \in Nat
         /\ IsFiniteSet(SweptBytes(p, h, NumTypes))
         /\ FreedSize(p, h) = Cardinality(SweptBytes(p, h, NumTypes))
<1>1. PICK N \in Nat : N = NumTypes
  BY AllocatorAssumption
<1>2. \A n \in 1 .. N : n \in Types
  BY <1>1 DEF Types
<1> DEFINE Add(n) == IF HeapOf[n] = h THEN EmptySize(p.chunks[n]) ELSE 0
           Is(f) == f = [n \in 0 .. N |-> IF n = 0 THEN 0 ELSE f[n - 1] + Add(n)]
<1>3. \A n \in 1 .. N : Add(n) \in Nat
  BY <1>2, EmptyBytesOf
<1>4. PICK T : T = Nat
  OBVIOUS
<1>5. \E g : Is(g)
  <2> DEFINE G == [n \in 1 .. N |-> [x \in T |-> x + Add(n)]]
  <2>1. \A n \in 1 .. N : \A x \in T : x + Add(n) \in T
    <3> HIDE DEF Add
    <3> QED BY <1>3, <1>4
  <2>2. PICK GG \in [1 .. N -> [T -> T]] : GG = G
    <3> HIDE DEF Add
    <3> QED BY <2>1
  <2>3. PICK first \in T : first = 0
    BY <1>4
  <2>4. Solutions(T, N, first, GG) # {}
    BY Recursion
  <2>5. PICK g \in [0 .. N -> T] : g[0] = first /\ \A n \in 1 .. N : g[n] = GG[n][g[n - 1]]
    BY <2>4 DEF Solutions
  <2>6. \A n \in 0 .. N : g[n] = IF n = 0 THEN 0 ELSE g[n - 1] + Add(n)
    <3>1. ASSUME NEW n \in 1 .. N PROVE g[n] = g[n - 1] + Add(n)
      <4>1. n - 1 \in 0 .. N
        OBVIOUS
      <4>2. g[n - 1] \in T
        BY <4>1
      <4> HIDE DEF Add
      <4> QED BY <2>2, <2>5, <4>2
    <3> HIDE DEF Add
    <3> QED BY <2>3, <2>5, <3>1
  <2>7. Is(g)
    <3> HIDE DEF Add
    <3> QED BY <2>6
  <2> QED BY <2>7
<1>6. PICK f : f = CHOOSE x : Is(x)
  OBVIOUS
<1>7. Is(f)
  <2> HIDE DEF Is
  <2> QED BY <1>5, <1>6
<1>8. FreedSize(p, h) = f[N]
  BY <1>1, <1>6 DEF FreedSize
<1>9. f[0] = 0 /\ \A n \in 1 .. N : f[n] = f[n - 1] + Add(n)
  <2> HIDE DEF Add
  <2> QED BY <1>7
<1> DEFINE Good(n) == /\ f[n] \in Nat /\ IsFiniteSet(SweptBytes(p, h, n))
                      /\ f[n] = Cardinality(SweptBytes(p, h, n))
<1>10. PICK S : S = {n \in 0 .. N : Good(n)}
  OBVIOUS
<1>11. 0 \in S
  <2>1. SweptBytes(p, h, 0) = {}
    BY DEF SweptBytes
  <2>2. IsFiniteSet(SweptBytes(p, h, 0)) /\ Cardinality(SweptBytes(p, h, 0)) = 0
    BY <2>1, FS_EmptySet
  <2>3. f[0] = 0
    BY <1>9
  <2>4. Good(0)
    BY <2>2, <2>3
  <2> HIDE DEF Good
  <2> QED BY <1>10, <2>4
<1>12. ASSUME NEW n \in 1 .. N, n - 1 \in S PROVE n \in S
  <2>1. Good(n - 1)
    <3> HIDE DEF Good
    <3> QED BY <1>10, <1>12
  <2>2. PICK x \in Nat : x = f[n - 1]
    BY <2>1
  <2>3. PICK B : B = SweptBytes(p, h, n - 1)
    OBVIOUS
  <2>4. PICK C : C = SweptBytes(p, h, n)
    OBVIOUS
  <2>5. PICK E : E = EmptyBytes(p.chunks[n], Len(p.chunks[n]))
    OBVIOUS
  <2>6. IsFiniteSet(B) /\ x = Cardinality(B)
    BY <2>1, <2>2, <2>3
  <2>7. /\ IsFiniteSet(E) /\ EmptySize(p.chunks[n]) = Cardinality(E)
        /\ EmptySize(p.chunks[n]) \in Nat
        /\ \A z : z \in E <=> \E c \in ChunkSet(p, n) : IsEmptyChunk(c) /\ z \in Bytes(c.id, c.size)
    <3>1. PICK t \in Types : t = n
      BY <1>2
    <3>2. E = EmptyBytes(p.chunks[t], Len(p.chunks[t]))
      BY <2>5, <3>1
    <3>3. /\ IsFiniteSet(E) /\ EmptySize(p.chunks[t]) = Cardinality(E)
          /\ EmptySize(p.chunks[t]) \in Nat
          /\ \A z : z \in E <=> \E c \in ChunkSet(p, t) : IsEmptyChunk(c) /\ z \in Bytes(c.id, c.size)
      BY <3>2, EmptyBytesOf
    <3> QED BY <3>1, <3>3
  <2>8. \A j : j \in 1 .. n <=> j \in 1 .. n - 1 \/ j = n
    OBVIOUS
  <2>9. \A z : z \in C <=> \E j \in 1 .. n : /\ HeapOf[j] = h
                                             /\ z \in EmptyBytes(p.chunks[j], Len(p.chunks[j]))
    BY <2>4 DEF SweptBytes
  <2>10. \A z : z \in B <=> \E j \in 1 .. n - 1 : /\ HeapOf[j] = h
                                                  /\ z \in EmptyBytes(p.chunks[j], Len(p.chunks[j]))
    BY <2>3 DEF SweptBytes
  <2>11. f[n] = x + IF HeapOf[n] = h THEN EmptySize(p.chunks[n]) ELSE 0
    BY <1>9, <2>2
  <2>12. f[n] \in Nat /\ IsFiniteSet(C) /\ f[n] = Cardinality(C)
    <3>1. CASE HeapOf[n] = h
      <4>1. B \cap E = {}
        <5>1. SUFFICES ASSUME NEW z \in B, z \in E PROVE FALSE
          OBVIOUS
        <5>2. PICK j \in 1 .. n - 1 : z \in EmptyBytes(p.chunks[j], Len(p.chunks[j]))
          BY <2>10
        <5>3. j \in Types /\ n \in Types /\ j # n
          BY <1>2, <5>2
        <5>4. PICK c \in ChunkSet(p, j) : z \in Bytes(c.id, c.size)
          BY <5>2, <5>3, EmptyBytesOf
        <5>5. PICK d \in ChunkSet(p, n) : z \in Bytes(d.id, d.size)
          BY <2>7, <5>1
        <5>6. c.id = d.id
          BY <5>4, <5>5, ByteOwner
        <5> QED BY <5>3, <5>4, <5>5, <5>6 DEF ChunksApart
      <4>2. C = B \cup E
        <5>1. ASSUME NEW z PROVE z \in C <=> z \in B \/ z \in E
          BY <2>5, <2>8, <2>9, <2>10, <3>1
        <5> QED BY <5>1
      <4>3. /\ IsFiniteSet(B \cup E)
            /\ Cardinality(B \cup E) = Cardinality(B) + Cardinality(E) - Cardinality(B \cap E)
        BY <2>6, <2>7, FS_Union
      <4>4. Cardinality(B \cap E) = 0
        BY <4>1, FS_EmptySet
      <4>5. f[n] = x + EmptySize(p.chunks[n])
        BY <2>11, <3>1
      <4>6. PICK y \in Nat : y = EmptySize(p.chunks[n])
        BY <2>7
      <4>7. Cardinality(C) = x + y - 0
        BY <2>6, <2>7, <4>2, <4>3, <4>4, <4>6
      <4>8. f[n] = x + y
        BY <4>5, <4>6
      <4> QED BY <4>2, <4>3, <4>7, <4>8
    <3>2. CASE HeapOf[n] # h
      <4>1. C = B
        <5>1. ASSUME NEW z PROVE z \in C <=> z \in B
          BY <2>8, <2>9, <2>10, <3>2
        <5> QED BY <5>1
      <4>2. f[n] = x
        BY <2>11, <3>2
      <4> QED BY <2>6, <4>1, <4>2
    <3> QED BY <3>1, <3>2
  <2>13. Good(n)
    BY <2>4, <2>12
  <2> HIDE DEF Good
  <2> QED BY <1>10, <2>13
<1>13. \A n \in 0 .. N : n \in S
  BY <1>11, <1>12, Climb
<1>14. Good(N)
  <2> HIDE DEF Good
  <2> QED BY <1>10, <1>13
<1> QED BY <1>1, <1>8, <1>14

(* The sweep takes away exactly its bytes.                                 *)
LEMMA SweptBytesAre ==
  ASSUME NEW p \in PoolType, ChunksApart(p), NEW h
  PROVE  \A z : z \in SweptBytes(p, h, NumTypes) <=>
           \E t \in Types : HeapOf[t] = h /\
             \E c \in ChunkSet(p, t) : IsEmptyChunk(c) /\ z \in Bytes(c.id, c.size)
<1>1. \A z : z \in SweptBytes(p, h, NumTypes) <=>
        \E t \in Types : HeapOf[t] = h /\ z \in EmptyBytes(p.chunks[t], Len(p.chunks[t]))
  BY DEF SweptBytes, Types
<1>2. ASSUME NEW t \in Types
      PROVE  \A z : z \in EmptyBytes(p.chunks[t], Len(p.chunks[t])) <=>
                      \E c \in ChunkSet(p, t) : IsEmptyChunk(c) /\ z \in Bytes(c.id, c.size)
  BY EmptyBytesOf
<1> QED BY <1>1, <1>2

(* A sweep removes the chunks in which no memory is held, and no other.    *)
LEMMA SweepInv ==
  ASSUME NEW p, NEW L, PoolInv(p, L), NEW h \in Heaps, NEW q, q = freeEmptyChunks(p, h)
  PROVE  /\ PoolInv(q, L)
         /\ \A t \in Types : ChunkSet(q, t) \subseteq ChunkSet(p, t)
<1>1. /\ p \in PoolType /\ L \subseteq MemoryType /\ ChunksApart(p) /\ MemoriesFound(p, L)
      /\ ChunksCut(p, L) /\ Counted(p, L) /\ IsFiniteSet(Handles(p, L))
  BY DEF PoolInv
<1>2. PICK freed \in Nat : /\ freed = FreedSize(p, h)
                           /\ IsFiniteSet(SweptBytes(p, h, NumTypes))
                           /\ freed = Cardinality(SweptBytes(p, h, NumTypes))
  BY <1>1, FreedSizeIs
<1>3. /\ q.chunks = SweptChunks(p, h)
      /\ q.allocated = [p.allocated EXCEPT ![h] = @ - freed]
      /\ q.used = p.used
      /\ q = [chunks |-> q.chunks, allocated |-> q.allocated, used |-> q.used]
  BY <1>1, <1>2 DEF freeEmptyChunks, PoolType
<1>4. ASSUME NEW t \in Types
      PROVE  /\ q.chunks[t] \in Seq(ChunkType) /\ Distinct(q.chunks[t])
             /\ HeapOf[t] = h => ChunkSet(q, t) = {c \in ChunkSet(p, t) : ~IsEmptyChunk(c)}
             /\ HeapOf[t] # h => ChunkSet(q, t) = ChunkSet(p, t)
  <2>1. PICK s \in Seq(ChunkType) : s = p.chunks[t]
    BY <1>1, ChunksType
  <2>2. Distinct(s) /\ ChunkSet(p, t) = ToSet(s)
    BY <1>1, <2>1 DEF ChunksApart, ChunkSet
  <2>3. /\ ChunksInUse(s) \in Seq(ChunkType) /\ Distinct(ChunksInUse(s))
        /\ ToSet(ChunksInUse(s)) = {c \in ToSet(s) : ~IsEmptyChunk(c)}
    BY <2>2, InUseIs
  <2>4. q.chunks[t] = IF HeapOf[t] = h THEN ChunksInUse(s) ELSE s
    BY <1>3, <2>1 DEF SweptChunks
  <2> QED BY <2>2, <2>3, <2>4 DEF ChunkSet
<1>5. \A t \in Types : ChunkSet(q, t) \subseteq ChunkSet(p, t)
  <2>1. TAKE t \in Types
  <2>2. CASE HeapOf[t] = h
    BY <1>4, <2>2
  <2>3. CASE HeapOf[t] # h
    BY <1>4, <2>3
  <2> QED BY <2>2, <2>3
<1>6. ASSUME NEW x PROVE AllocatedBytes(q, L, x) = IF x = h THEN AllocatedBytes(p, L, h) \ SweptBytes(p, h, NumTypes)
                                                   ELSE AllocatedBytes(p, L, x)
  <2>1. ASSUME x # h PROVE AllocatedBytes(q, L, x) = AllocatedBytes(p, L, x)
    <3>1. \A t \in Types : HeapOf[t] = x => ChunkSet(q, t) = ChunkSet(p, t)
      BY <1>4, <2>1
    <3>2. ASSUME NEW z PROVE z \in AllocatedBytes(q, L, x) => z \in AllocatedBytes(p, L, x)
      BY <3>1, AllocatedIs
    <3>3. ASSUME NEW z PROVE z \in AllocatedBytes(p, L, x) => z \in AllocatedBytes(q, L, x)
      BY <3>1, AllocatedIs
    <3> QED BY <3>2, <3>3
  <2>2. AllocatedBytes(q, L, h) = AllocatedBytes(p, L, h) \ SweptBytes(p, h, NumTypes)
    <3>1. ASSUME NEW z \in AllocatedBytes(q, L, h)
          PROVE  z \in AllocatedBytes(p, L, h) /\ z \notin SweptBytes(p, h, NumTypes)
      <4>1. CASE \E t \in Types : HeapOf[t] = h /\ \E c \in ChunkSet(q, t) : z \in Bytes(c.id, c.size)
        <5>1. PICK t \in Types : HeapOf[t] = h /\ \E c \in ChunkSet(q, t) : z \in Bytes(c.id, c.size)
          BY <4>1
        <5>2. PICK c \in ChunkSet(q, t) : z \in Bytes(c.id, c.size)
          BY <5>1
        <5>3. c \in ChunkSet(p, t) /\ ~IsEmptyChunk(c)
          BY <1>4, <5>1, <5>2
        <5>4. z \in AllocatedBytes(p, L, h)
          BY <5>1, <5>2, <5>3, AllocatedIs
        <5>5. z \notin SweptBytes(p, h, NumTypes)
          <6>1. SUFFICES ASSUME z \in SweptBytes(p, h, NumTypes) PROVE FALSE
            OBVIOUS
          <6>2. PICK u \in Types : \E d \in ChunkSet(p, u) : IsEmptyChunk(d) /\ z \in Bytes(d.id, d.size)
            BY <1>1, <6>1, SweptBytesAre
          <6>3. PICK d \in ChunkSet(p, u) : IsEmptyChunk(d) /\ z \in Bytes(d.id, d.size)
            BY <6>2
          <6>4. c.id = d.id
            BY <5>2, <6>3, ByteOwner
          <6> QED BY <1>1, <5>3, <6>3, <6>4 DEF ChunksApart
        <5> QED BY <5>4, <5>5
      <4>2. CASE \E m \in L : HeapOf[m.type] = h /\ m.chunk = NoChunk /\ z \in Bytes(m.id, m.length)
        <5>1. z \in AllocatedBytes(p, L, h)
          BY <4>2, AllocatedIs
        <5>2. z \notin SweptBytes(p, h, NumTypes)
          <6>1. SUFFICES ASSUME z \in SweptBytes(p, h, NumTypes) PROVE FALSE
            OBVIOUS
          <6>2. PICK u \in Types : \E d \in ChunkSet(p, u) : IsEmptyChunk(d) /\ z \in Bytes(d.id, d.size)
            BY <1>1, <6>1, SweptBytesAre
          <6>3. PICK d \in ChunkSet(p, u) : z \in Bytes(d.id, d.size)
            BY <6>2
          <6>4. PICK m \in L : m.chunk = NoChunk /\ z \in Bytes(m.id, m.length)
            BY <4>2
          <6>5. m.id = d.id
            BY <6>3, <6>4, ByteOwner
          <6> QED BY <1>1, <6>3, <6>4, <6>5 DEF MemoriesFound
        <5> QED BY <5>1, <5>2
      <4> QED BY <4>1, <4>2, AllocatedIs
    <3>2. ASSUME NEW z \in AllocatedBytes(p, L, h), z \notin SweptBytes(p, h, NumTypes)
          PROVE  z \in AllocatedBytes(q, L, h)
      <4>1. CASE \E t \in Types : HeapOf[t] = h /\ \E c \in ChunkSet(p, t) : z \in Bytes(c.id, c.size)
        <5>1. PICK t \in Types : HeapOf[t] = h /\ \E c \in ChunkSet(p, t) : z \in Bytes(c.id, c.size)
          BY <4>1
        <5>2. PICK c \in ChunkSet(p, t) : z \in Bytes(c.id, c.size)
          BY <5>1
        <5>3. ~IsEmptyChunk(c)
          BY <1>1, <3>2, <5>1, <5>2, SweptBytesAre
        <5>4. c \in ChunkSet(q, t)
          BY <1>4, <5>1, <5>3
        <5> QED BY <5>1, <5>2, <5>4, AllocatedIs
      <4>2. CASE \E m \in L : HeapOf[m.type] = h /\ m.chunk = NoChunk /\ z \in Bytes(m.id, m.length)
        BY <4>2, AllocatedIs
      <4> QED BY <4>1, <4>2, AllocatedIs
    <3> QED BY <3>1, <3>2
  <2> QED BY <2>1, <2>2
<1>7. SweptBytes(p, h, NumTypes) \subseteq AllocatedBytes(p, L, h)
  <2> SUFFICES ASSUME NEW z \in SweptBytes(p, h, NumTypes) PROVE z \in AllocatedBytes(p, L, h)
    OBVIOUS
  <2>1. PICK t \in Types : HeapOf[t] = h /\ \E c \in ChunkSet(p, t) : z \in Bytes(c.id, c.size)
    BY <1>1, SweptBytesAre
  <2> QED BY <2>1, AllocatedIs
<1>8. Counted(q, L) /\ q.allocated \in [Heaps -> Nat]
  <2>1. PICK A : A = AllocatedBytes(p, L, h)
    OBVIOUS
  <2>2. PICK B : B = SweptBytes(p, h, NumTypes)
    OBVIOUS
  <2>3. IsFiniteSet(A) /\ p.allocated[h] = Cardinality(A)
    BY <1>1, <2>1 DEF Counted
  <2>4. B \subseteq A /\ freed = Cardinality(B)
    BY <1>2, <1>7, <2>1, <2>2
  <2>5. IsFiniteSet(A \ B) /\ Cardinality(A \ B) = Cardinality(A) - Cardinality(A \cap B)
    BY <2>3, FS_Difference
  <2>6. A \cap B = B
    BY <2>4
  <2>7. Cardinality(A \ B) \in Nat
    BY <2>5, FS_CardinalityType
  <2>8. AllocatedBytes(q, L, h) = A \ B
    BY <1>6, <2>1, <2>2
  <2>9. p.allocated \in [Heaps -> Nat]
    BY <1>1 DEF PoolType
  <2>10. q.allocated[h] = Cardinality(A \ B)
    BY <1>3, <2>3, <2>4, <2>5, <2>6, <2>9
  <2>11. q.allocated \in [Heaps -> Nat]
    <3>1. p.allocated[h] - freed \in Nat
      BY <2>3, <2>4, <2>5, <2>6, <2>7
    <3> QED BY <1>3, <2>9, <3>1
  <2>12. ASSUME NEW x \in Heaps
         PROVE  /\ IsFiniteSet(UsedBytes(L, x)) /\ q.used[x] = Cardinality(UsedBytes(L, x))
                /\ IsFiniteSet(AllocatedBytes(q, L, x))
                /\ q.allocated[x] = Cardinality(AllocatedBytes(q, L, x))
    <3>1. IsFiniteSet(UsedBytes(L, x)) /\ q.used[x] = Cardinality(UsedBytes(L, x))
      BY <1>1, <1>3 DEF Counted
    <3>2. CASE x = h
      BY <2>5, <2>8, <2>10, <3>1, <3>2
    <3>3. CASE x # h
      <4>1. AllocatedBytes(q, L, x) = AllocatedBytes(p, L, x)
        BY <1>6, <3>3
      <4>2. q.allocated[x] = p.allocated[x]
        BY <1>3, <2>9, <3>3
      <4>3. /\ IsFiniteSet(AllocatedBytes(p, L, x))
            /\ p.allocated[x] = Cardinality(AllocatedBytes(p, L, x))
        BY <1>1 DEF Counted
      <4> QED BY <3>1, <4>1, <4>2, <4>3
    <3> QED BY <3>2, <3>3
  <2> QED BY <2>11, <2>12 DEF Counted
<1>9. q \in PoolType
  <2>1. q.chunks \in [Types -> Seq(ChunkType)]
    <3>1. \A t \in Types : q.chunks[t] \in Seq(ChunkType)
      BY <1>4
    <3>2. q.chunks = [t \in Types |-> q.chunks[t]]
      BY <1>3 DEF SweptChunks
    <3> QED BY <3>1, <3>2
  <2>2. q.used \in [Heaps -> Nat]
    BY <1>1, <1>3 DEF PoolType
  <2> QED BY <1>3, <1>8, <2>1, <2>2 DEF PoolType
<1>10. ChunksApart(q)
  <2>1. \A t \in Types : Distinct(q.chunks[t])
    BY <1>4
  <2>2. \A t, u \in Types : \A c \in ChunkSet(q, t), d \in ChunkSet(q, u) :
          c.id = d.id => t = u /\ c = d
    BY <1>1, <1>5 DEF ChunksApart
  <2> QED BY <2>1, <2>2 DEF ChunksApart
<1>11. MemoriesFound(q, L)
  <2> SUFFICES ASSUME NEW m \in L
               PROVE  /\ m.chunk # NoChunk =>
                           m.id = m.chunk /\ \E c \in ChunkSet(q, m.type) : c.id = m.id
                      /\ m.chunk = NoChunk =>
                           /\ \A t \in Types : \A c \in ChunkSet(q, t) : c.id # m.id
                           /\ \A x \in L : x.chunk = NoChunk /\ x.id = m.id => x = m
    BY DEF MemoriesFound
  <2>1. CASE m.chunk = NoChunk
    BY <1>1, <1>5, <2>1 DEF MemoriesFound
  <2>2. CASE m.chunk # NoChunk
    <3>1. m.id = m.chunk /\ m.type \in Types
      BY <1>1, <2>2 DEF MemoriesFound, MemoryType
    <3>2. PICK c \in ChunkSet(p, m.type) : c.id = m.id
      BY <1>1, <2>2 DEF MemoriesFound
    <3>3. ChunkCut(c, SlicesIn(L, m.type, c.id))
      BY <1>1, <3>1 DEF ChunksCut
    <3>4. Slice(m.offset, m.length) \in SlicesIn(L, m.type, c.id)
      BY <3>1, <3>2 DEF SlicesIn
    <3>5. c \in ChunkType
      BY <1>1, <3>1, ChunksType
    <3>6. ~IsEmptyChunk(c)
      BY <3>3, <3>4, <3>5, EmptyIs
    <3>7. c \in ChunkSet(q, m.type)
      BY <1>4, <3>1, <3>6
    <3> QED BY <2>2, <3>1, <3>2, <3>7
  <2> QED BY <2>1, <2>2
<1>12. ChunksCut(q, L)
  BY <1>1, <1>5 DEF ChunksCut
<1>13. IsFiniteSet(Handles(q, L))
  <2>1. Handles(q, L) \subseteq Handles(p, L)
    BY <1>5 DEF Handles
  <2> QED BY <1>1, <2>1, FS_Subset
<1> QED BY <1>1, <1>5, <1>8, <1>9, <1>10, <1>11, <1>12, <1>13 DEF PoolInv

-----------------------------------------------------------------------------
(* A chunk c of type t is cut anew, into d, as the memory m comes or goes. *)
Recuts(p, L, q, LL, t, c, d, m) ==
  /\ PoolInv(p, L) /\ t \in Types /\ d \in ChunkType
  /\ q.chunks \in [Types -> Seq(ChunkType)]
  /\ Distinct(q.chunks[t]) /\ \A u \in Types \ {t} : q.chunks[u] = p.chunks[u]
  /\ Swaps(p, q, t, c, d)
  /\ m.type = t /\ m.chunk = c.id /\ m.id = c.id
  /\ \A x : x # m => (x \in LL <=> x \in L)
  /\ ChunkCut(d, SlicesIn(LL, t, c.id))

LEMMA Recut ==
  ASSUME NEW p, NEW L, NEW q, NEW LL, NEW t, NEW c, NEW d, NEW m,
         Recuts(p, L, q, LL, t, c, d, m)
  PROVE  /\ ChunksApart(q) /\ MemoriesFound(q, LL) /\ ChunksCut(q, LL)
         /\ \A h : AllocatedBytes(q, LL, h) = AllocatedBytes(p, L, h)
         /\ Handles(q, LL) = Handles(p, L)
<1>1. /\ PoolInv(p, L) /\ t \in Types /\ d \in ChunkType
      /\ Distinct(q.chunks[t]) /\ \A u \in Types \ {t} : q.chunks[u] = p.chunks[u]
      /\ c \in ChunkSet(p, t) /\ d.id = c.id /\ d.size = c.size
      /\ m.type = t /\ m.chunk = c.id /\ m.id = c.id
      /\ \A x : x # m => (x \in LL <=> x \in L)
      /\ ChunkCut(d, SlicesIn(LL, t, c.id))
  BY DEF Recuts, Swaps
<1>2. /\ p \in PoolType /\ L \subseteq MemoryType /\ ChunksApart(p) /\ MemoriesFound(p, L)
      /\ ChunksCut(p, L)
  BY <1>1 DEF PoolInv
<1>3. ChunkSet(q, t) = (ChunkSet(p, t) \ {c}) \cup {d}
  BY DEF Recuts, Swaps
<1>4. \A u \in Types \ {t} : ChunkSet(q, u) = ChunkSet(p, u)
  BY DEF Recuts, Swaps, OthersKept
<1>5. c.id # NoChunk
  <2>1. d.id \in Nat \ {0}
    BY <1>1 DEF ChunkType
  <2> QED BY <1>1, <2>1 DEF NoChunk
\* Every chunk stands for one that was there, with its handle and size.
<1>6. ASSUME NEW u \in Types, NEW e \in ChunkSet(q, u)
      PROVE  \/ u = t /\ e = d
             \/ e \in ChunkSet(p, u) /\ ~(u = t /\ e.id = c.id)
  <2>1. CASE u = t /\ e # d
    <3>1. e \in ChunkSet(p, t) /\ e # c
      BY <1>3, <2>1
    <3>2. e.id # c.id
      BY <1>1, <1>2, <3>1 DEF ChunksApart
    <3> QED BY <2>1, <3>1, <3>2
  <2>2. CASE u # t
    BY <1>4, <2>2
  <2> QED BY <2>1, <2>2
<1>7. ChunksApart(q)
  <2>1. \A u \in Types : Distinct(q.chunks[u])
    BY <1>1, <1>2 DEF ChunksApart
  <2>2. ASSUME NEW u \in Types, NEW v \in Types, NEW e \in ChunkSet(q, u), NEW f \in ChunkSet(q, v),
               e.id = f.id
        PROVE  u = v /\ e = f
    <3>1. CASE e \in ChunkSet(p, u) /\ f \in ChunkSet(p, v)
      BY <1>2, <2>2, <3>1 DEF ChunksApart
    <3>2. CASE u = t /\ e = d /\ f \in ChunkSet(p, v) /\ ~(v = t /\ f.id = c.id)
      <4>1. f.id = c.id
        BY <1>1, <2>2, <3>2
      <4>2. v = t
        BY <1>1, <1>2, <3>2, <4>1 DEF ChunksApart
      <4> QED BY <3>2, <4>1, <4>2
    <3>3. CASE v = t /\ f = d /\ e \in ChunkSet(p, u) /\ ~(u = t /\ e.id = c.id)
      <4>1. e.id = c.id
        BY <1>1, <2>2, <3>3
      <4>2. u = t
        BY <1>1, <1>2, <3>3, <4>1 DEF ChunksApart
      <4> QED BY <3>3, <4>1, <4>2
    <3>4. CASE u = t /\ e = d /\ v = t /\ f = d
      BY <3>4
    <3> QED BY <1>6, <3>1, <3>2, <3>3, <3>4
  <2> QED BY <2>1, <2>2 DEF ChunksApart
<1>8. ASSUME NEW u, NEW n, n # NoChunk, ~(u = t /\ n = c.id)
      PROVE  SlicesIn(LL, u, n) = SlicesIn(L, u, n)
  <2>1. \A x : x.type = u /\ x.chunk = n => x # m
    BY <1>1, <1>8
  <2>2. {x \in LL : x.type = u /\ x.chunk = n} = {x \in L : x.type = u /\ x.chunk = n}
    BY <1>1, <2>1
  <2> QED BY <2>2 DEF SlicesIn
<1>9. ChunksCut(q, LL)
  <2> SUFFICES ASSUME NEW u \in Types, NEW e \in ChunkSet(q, u)
               PROVE  ChunkCut(e, SlicesIn(LL, u, e.id))
    BY DEF ChunksCut
  <2>1. CASE u = t /\ e = d
    BY <1>1, <2>1
  <2>2. CASE e \in ChunkSet(p, u) /\ ~(u = t /\ e.id = c.id)
    <3>1. e.id # NoChunk
      <4>1. e \in ChunkType
        BY <1>2, <2>2, ChunksType
      <4> QED BY <4>1 DEF ChunkType, NoChunk
    <3>2. SlicesIn(LL, u, e.id) = SlicesIn(L, u, e.id)
      BY <1>8, <2>2, <3>1
    <3>3. ChunkCut(e, SlicesIn(L, u, e.id))
      BY <1>2, <2>2 DEF ChunksCut
    <3> QED BY <3>2, <3>3
  <2> QED BY <1>6, <2>1, <2>2
<1>10. \A x : x.chunk = NoChunk => (x \in LL <=> x \in L)
  BY <1>1, <1>5
<1>11. MemoriesFound(q, LL)
  <2> SUFFICES ASSUME NEW x \in LL
               PROVE  /\ x.chunk # NoChunk =>
                           x.id = x.chunk /\ \E e \in ChunkSet(q, x.type) : e.id = x.id
                      /\ x.chunk = NoChunk =>
                           /\ \A u \in Types : \A e \in ChunkSet(q, u) : e.id # x.id
                           /\ \A y \in LL : y.chunk = NoChunk /\ y.id = x.id => y = x
    BY DEF MemoriesFound
  <2>1. CASE x.chunk = NoChunk
    <3>1. x \in L
      BY <1>10, <2>1
    <3>2. /\ \A u \in Types : \A e \in ChunkSet(p, u) : e.id # x.id
          /\ \A y \in L : y.chunk = NoChunk /\ y.id = x.id => y = x
      BY <1>2, <2>1, <3>1 DEF MemoriesFound
    <3>3. \A u \in Types : \A e \in ChunkSet(q, u) : e.id # x.id
      BY <1>1, <1>2, <1>6, <3>2
    <3>4. \A y \in LL : y.chunk = NoChunk /\ y.id = x.id => y = x
      BY <1>10, <3>2
    <3> QED BY <2>1, <3>3, <3>4
  <2>2. CASE x = m
    <3>1. d \in ChunkSet(q, t)
      BY <1>3
    <3> QED BY <1>1, <1>5, <2>2, <3>1
  <2>3. CASE x # m /\ x.chunk # NoChunk
    <3>1. x \in L
      BY <1>1, <2>3
    <3>2. x.id = x.chunk /\ x.type \in Types
      BY <1>2, <2>3, <3>1 DEF MemoriesFound, MemoryType
    <3>3. PICK e \in ChunkSet(p, x.type) : e.id = x.id
      BY <1>2, <2>3, <3>1 DEF MemoriesFound
    <3>4. CASE x.type = t /\ e = c
      <4>1. d \in ChunkSet(q, x.type)
        BY <1>3, <3>4
      <4> QED BY <1>1, <2>3, <3>2, <3>3, <3>4, <4>1
    <3>5. CASE ~(x.type = t /\ e = c)
      <4>1. e \in ChunkSet(q, x.type)
        BY <1>3, <1>4, <3>2, <3>5
      <4> QED BY <2>3, <3>2, <3>3, <4>1
    <3> QED BY <3>4, <3>5
  <2> QED BY <2>1, <2>2, <2>3
<1>12. ASSUME NEW h
       PROVE  AllocatedBytes(q, L, h) = AllocatedBytes(p, L, h) /\ Handles(q, L) = Handles(p, L)
  <2>1. Swaps(p, q, t, c, d)
    BY DEF Recuts
  <2> QED BY <1>1, <2>1, ChunkBytesKept
<1>13. \A h : DirectOn(LL, h) = DirectOn(L, h)
  BY <1>10 DEF DirectOn
<1>14. \A h : AllocatedBytes(q, LL, h) = AllocatedBytes(q, L, h)
  BY <1>13 DEF AllocatedBytes
<1>15. {x \in LL : x.chunk = NoChunk} = {x \in L : x.chunk = NoChunk}
  BY <1>10
<1>16. Handles(q, LL) = Handles(q, L)
  BY <1>15 DEF Handles
<1> QED BY <1>7, <1>9, <1>11, <1>12, <1>14, <1>16

-----------------------------------------------------------------------------
(* Taking memory from a chunk that has room for it.                        *)
LEMMA TakeInv ==
  ASSUME NEW p, NEW L, PoolInv(p, L), NEW t \in Types, NEW i \in 1 .. Len(p.chunks[t]),
         NEW size \in Nat \ {0}, NEW align \in Nat \ {0},
         CanAlloc(p.chunks[t][i].freeList, size, align),
         NEW r, r = TakeFromChunk(p, t, i, size, align)
  PROVE  /\ r.memory \in MemoryType /\ r.memory \notin L
         /\ PoolInv(r.pool, With(L, r.memory))
         /\ \A u \in Types : \A e \in ChunkSet(r.pool, u) :
              IsEmptyChunk(e) => e \in ChunkSet(p, u)
<1>1. /\ p \in PoolType /\ L \subseteq MemoryType /\ ChunksApart(p) /\ MemoriesFound(p, L)
      /\ ChunksCut(p, L) /\ Counted(p, L) /\ IsFiniteSet(Handles(p, L))
  BY DEF PoolInv
<1>2. PICK chunks \in Seq(ChunkType) : chunks = p.chunks[t]
  BY <1>1, ChunksType
<1>3. i \in 1 .. Len(chunks) /\ Distinct(chunks) /\ ChunkSet(p, t) = ToSet(chunks)
  BY <1>1, <1>2 DEF ChunksApart, ChunkSet
<1>4. PICK c \in ChunkType : c = chunks[i]
  BY <1>3
<1>5. c \in ChunkSet(p, t)
  BY <1>3, <1>4, InSet
<1>6. PICK list \in Seq(SliceType) : list = c.freeList
  BY DEF ChunkType
<1>7. PICK n \in Nat \ {0} : n = c.size
  BY DEF ChunkType
<1>8. PICK S : S = SlicesIn(L, t, c.id)
  OBVIOUS
<1>9. Distinct(list) /\ Partition(ToSet(list), S, n) /\ CanAlloc(list, size, align)
  BY <1>1, <1>2, <1>4, <1>5, <1>6, <1>7, <1>8 DEF ChunksCut, ChunkCut
<1>10. PICK s : s = list[BestIndex(list, size)]
  OBVIOUS
<1>11. PICK new : new = ListAfterAlloc(list, size, align)
  OBVIOUS
<1>12. PICK a : a = Allocated(s, size, align)
  OBVIOUS
<1>13. /\ s \in BestSlices(ToSet(list), size) /\ Fits(s, size, align)
       /\ new \in Seq(SliceType) /\ Distinct(new)
       /\ ToSet(new) = Carve(ToSet(list), s, size, align)
  BY <1>9, <1>10, <1>11, VectorAlloc
<1>14. s \in ToSet(list)
  BY <1>13 DEF BestSlices
<1>15. Partition(ToSet(new), S \cup {a}, n) /\ a \notin S
  BY <1>9, <1>12, <1>13, <1>14, AllocPartition
<1>16. a \in SliceType
  BY <1>15 DEF Partition
<1>17. AllocSlice(list, size, align) = a
  BY <1>10, <1>12 DEF AllocSlice
<1>18. PICK m : m = MemoryIn(t, c, a)
  OBVIOUS
<1>19. /\ m \in MemoryType /\ m.type = t /\ m.chunk = c.id /\ m.id = c.id
       /\ Slice(m.offset, m.length) = a
  BY <1>16, <1>18 DEF MemoryIn, MemoryType, SliceType, Slice, ChunkType
<1>20. m \notin L
  BY <1>8, <1>15, <1>19 DEF SlicesIn
<1>21. PICK d : d = [c EXCEPT !.freeList = new]
  OBVIOUS
<1>22. d \in ChunkType /\ d.id = c.id /\ d.size = n /\ d.freeList = new
  BY <1>7, <1>13, <1>21 DEF ChunkType
<1>23. PICK after : after = Put(chunks, i, d)
  OBVIOUS
<1>24. \A j \in 1 .. Len(chunks) : j # i => chunks[j] # d
  <2> SUFFICES ASSUME NEW j \in 1 .. Len(chunks), chunks[j] = d PROVE j = i
    OBVIOUS
  <2>1. d \in ChunkSet(p, t)
    BY <1>3, InSet
  <2>2. chunks[j] = chunks[i]
    BY <1>1, <1>4, <1>5, <1>22, <2>1 DEF ChunksApart
  <2> QED BY <1>3, <2>2 DEF Distinct
<1>25. after \in Seq(ChunkType) /\ Distinct(after) /\ ToSet(after) = (ChunkSet(p, t) \ {c}) \cup {d}
  <2>1. d \in ChunkType /\ i \in 1 .. Len(chunks) /\ Distinct(chunks)
    BY <1>3, <1>22
  <2>2. /\ Put(chunks, i, d) \in Seq(ChunkType) /\ Distinct(Put(chunks, i, d))
        /\ ToSet(Put(chunks, i, d)) = (ToSet(chunks) \ {chunks[i]}) \cup {d}
    BY <2>1, <1>24, ReplacedAt
  <2> QED BY <1>3, <1>4, <1>23, <2>2
<1>26. PICK h \in Heaps : h = HeapOf[t]
  BY AllocatorAssumption
<1>27. PICK LL : LL = With(L, m)
  OBVIOUS
<1>28. SlicesIn(LL, t, c.id) = S \cup {a}
  <2>1. PICK k : k = c.id
    OBVIOUS
  <2>2. SlicesIn(With(L, m), t, k) =
          IF m.type = t /\ m.chunk = k
          THEN SlicesIn(L, t, k) \cup {Slice(m.offset, m.length)} ELSE SlicesIn(L, t, k)
    BY SlicesAdd
  <2> QED BY <1>8, <1>19, <1>27, <2>1, <2>2
<1>29. ChunkCut(d, SlicesIn(LL, t, c.id))
  BY <1>13, <1>15, <1>22, <1>28 DEF ChunkCut
<1>30. PICK q : q = r.pool
  OBVIOUS
<1>31. /\ r.memory = m
       /\ q = [p EXCEPT !.chunks[t][i].freeList = ListAfterAlloc(@, size, align),
                        !.used[h] = @ + m.length]
  BY <1>2, <1>4, <1>6, <1>17, <1>18, <1>26, <1>30 DEF TakeFromChunk
<1>32. p.chunks \in [Types -> Seq(ChunkType)] /\ p.used \in [Heaps -> Nat] /\ p.allocated \in [Heaps -> Nat]
  BY <1>1 DEF PoolType
<1>33. /\ q.chunks = [p.chunks EXCEPT ![t] = after]
       /\ q.used = [p.used EXCEPT ![h] = @ + m.length]
       /\ q.allocated = p.allocated
       /\ q = [chunks |-> q.chunks, allocated |-> q.allocated, used |-> q.used]
  <2>1. q.chunks = [p.chunks EXCEPT ![t] = [p.chunks[t] EXCEPT ![i] =
                      [p.chunks[t][i] EXCEPT !.freeList = ListAfterAlloc(@, size, align)]]]
    BY <1>1, <1>31 DEF PoolType
  <2>2. [p.chunks[t][i] EXCEPT !.freeList = ListAfterAlloc(@, size, align)] = d
    BY <1>2, <1>4, <1>6, <1>11, <1>21
  <2> QED BY <1>1, <1>2, <1>23, <1>31, <2>1, <2>2 DEF PoolType, Put
<1>34. LL = L \cup {m}
  BY <1>27 DEF With
<1>35. /\ q.chunks \in [Types -> Seq(ChunkType)]
       /\ q.chunks[t] = after /\ \A u \in Types \ {t} : q.chunks[u] = p.chunks[u]
       /\ ChunkSet(q, t) = (ChunkSet(p, t) \ {c}) \cup {d}
       /\ \A u \in Types \ {t} : ChunkSet(q, u) = ChunkSet(p, u)
  <2>1. /\ q.chunks \in [Types -> Seq(ChunkType)]
        /\ q.chunks[t] = after /\ \A u \in Types \ {t} : q.chunks[u] = p.chunks[u]
    BY <1>25, <1>32, <1>33
  <2> QED BY <1>25, <2>1 DEF ChunkSet
<1>36. Recuts(p, L, q, LL, t, c, d, m)
  <2>1. Swaps(p, q, t, c, d)
    BY <1>5, <1>7, <1>22, <1>35 DEF Swaps, OthersKept
  <2>2. \A x : x # m => (x \in LL <=> x \in L)
    BY <1>34
  <2> QED BY <1>19, <1>22, <1>25, <1>29, <1>35, <2>1, <2>2 DEF Recuts
<1>37. /\ ChunksApart(q) /\ MemoriesFound(q, LL) /\ ChunksCut(q, LL)
       /\ \A x : AllocatedBytes(q, LL, x) = AllocatedBytes(p, L, x)
       /\ Handles(q, LL) = Handles(p, L)
  BY <1>36, Recut
<1>38. m.length \in Nat
  BY <1>19 DEF MemoryType
<1>39. q \in PoolType
  <2>1. q.used \in [Heaps -> Nat]
    <3>1. p.used[h] + m.length \in Nat
      BY <1>32, <1>38
    <3> QED BY <1>32, <1>33, <3>1
  <2> QED BY <1>32, <1>33, <1>35, <2>1 DEF PoolType
<1>40. Counted(q, LL)
  <2> SUFFICES ASSUME NEW x \in Heaps
               PROVE  /\ IsFiniteSet(UsedBytes(LL, x)) /\ q.used[x] = Cardinality(UsedBytes(LL, x))
                      /\ IsFiniteSet(AllocatedBytes(q, LL, x))
                      /\ q.allocated[x] = Cardinality(AllocatedBytes(q, LL, x))
    BY DEF Counted
  <2>1. /\ IsFiniteSet(UsedBytes(L, x)) /\ p.used[x] = Cardinality(UsedBytes(L, x))
        /\ IsFiniteSet(AllocatedBytes(p, L, x))
        /\ p.allocated[x] = Cardinality(AllocatedBytes(p, L, x))
    BY <1>1 DEF Counted
  <2>2. /\ IsFiniteSet(AllocatedBytes(q, LL, x))
        /\ q.allocated[x] = Cardinality(AllocatedBytes(q, LL, x))
    BY <1>33, <1>37, <2>1
  <2>3. CASE x = h
    <3>1. /\ UsedBytes(LL, x) = UsedBytes(L, x) \cup Bytes(m, m.length)
          /\ UsedBytes(L, x) \cap Bytes(m, m.length) = {}
      <4>1. HeapOf[m.type] = x
        BY <1>19, <1>26, <2>3
      <4> QED BY <1>20, <1>27, <4>1, UsedAdd
    <3>2. /\ IsFiniteSet(UsedBytes(LL, x))
          /\ Cardinality(UsedBytes(LL, x)) = Cardinality(UsedBytes(L, x)) + m.length
      <4>1. PICK A : A = UsedBytes(L, x)
        OBVIOUS
      <4>2. IsFiniteSet(A) /\ A \cap Bytes(m, m.length) = {}
        BY <2>1, <3>1, <4>1
      <4>3. /\ IsFiniteSet(A \cup Bytes(m, m.length))
            /\ Cardinality(A \cup Bytes(m, m.length)) = Cardinality(A) + m.length
        BY <1>38, <4>2, BytesAdded
      <4> QED BY <3>1, <4>1, <4>3
    <3>3. q.used[x] = p.used[x] + m.length
      BY <1>32, <1>33, <2>3
    <3> QED BY <2>1, <2>2, <3>2, <3>3
  <2>4. CASE x # h
    <3>1. UsedBytes(LL, x) = UsedBytes(L, x)
      <4>1. HeapOf[m.type] # x
        BY <1>19, <1>26, <2>4
      <4> QED BY <1>20, <1>27, <4>1, UsedAdd
    <3>2. q.used[x] = p.used[x]
      BY <1>32, <1>33, <2>4
    <3> QED BY <2>1, <2>2, <3>1, <3>2
  <2> QED BY <2>3, <2>4
<1>41. PoolInv(q, LL)
  BY <1>1, <1>19, <1>34, <1>39, <1>40, <1>37 DEF PoolInv
<1>42. ~IsEmptyChunk(d)
  BY <1>22, <1>28, <1>29, EmptyIs
<1>43. \A u \in Types : \A e \in ChunkSet(q, u) : IsEmptyChunk(e) => e \in ChunkSet(p, u)
  <2> TAKE u \in Types
  <2> TAKE e \in ChunkSet(q, u)
  <2>1. CASE u = t
    BY <1>35, <1>42, <2>1
  <2>2. CASE u # t
    BY <1>35, <2>2
  <2> QED BY <2>1, <2>2
<1> QED BY <1>19, <1>20, <1>27, <1>30, <1>31, <1>41, <1>43

-----------------------------------------------------------------------------
(* What an attempt to allocate yields: memory that was not there, or the   *)
(* pool as the attempt left it.                                            *)
ResultType == [pool : PoolType, memory : MemoryType \cup {NoMemory}]

Yields(r, L) ==
  /\ r \in ResultType
  /\ \/ r.memory = NoMemory /\ PoolInv(r.pool, L)
     \/ r.memory \in MemoryType /\ r.memory \notin L /\ PoolInv(r.pool, With(L, r.memory))

\* The chunks of q that are empty were in p.
NoNewSpare(p, q) ==
  \A u \in Types : \A e \in ChunkSet(q, u) : IsEmptyChunk(e) => e \in ChunkSet(p, u)

LEMMA SpareKept ==
  ASSUME NEW p, NEW q, SpareApart(p), NoNewSpare(p, q)
  PROVE  SpareApart(q)
BY DEF SpareApart, NoNewSpare, ChunkSet

LEMMA SpareTwice ==
  ASSUME NEW p, NEW q, NEW r, NoNewSpare(p, q), NoNewSpare(q, r)
  PROVE  NoNewSpare(p, r)
BY DEF NoNewSpare

LEMMA RelieveInv ==
  ASSUME NEW p, NEW L, PoolInv(p, L), NEW h \in Heaps, NEW size, NEW q, q = RelieveHeap(p, h, size)
  PROVE  PoolInv(q, L) /\ NoNewSpare(p, q)
<1>1. CASE q = p
  BY <1>1 DEF NoNewSpare
<1>2. CASE q = freeEmptyChunks(p, h)
  <2>1. PoolInv(q, L) /\ \A t \in Types : ChunkSet(q, t) \subseteq ChunkSet(p, t)
    BY <1>2, SweepInv
  <2> QED BY <2>1 DEF NoNewSpare
<1> QED BY <1>1, <1>2 DEF RelieveHeap

-----------------------------------------------------------------------------
(* Memory of its own comes and goes with its bytes.                        *)
LEMMA DirectBytesAdded ==
  ASSUME NEW p, NEW L, NEW m, m.chunk = NoChunk, m.id \notin Handles(p, L), NEW h
  PROVE  /\ HeapOf[m.type] = h =>
              /\ AllocatedBytes(p, With(L, m), h) = AllocatedBytes(p, L, h) \cup Bytes(m.id, m.length)
              /\ AllocatedBytes(p, L, h) \cap Bytes(m.id, m.length) = {}
         /\ HeapOf[m.type] # h => AllocatedBytes(p, With(L, m), h) = AllocatedBytes(p, L, h)
<1>1. /\ \A u \in Types : \A d \in ChunkSet(p, u) : d.id # m.id
      /\ \A x \in L : x.chunk = NoChunk => x.id # m.id
  BY DEF Handles
<1>2. \A z, x, n : z \in Bytes(x, n) => z[1] = x
  BY ByteOwner
<1>3. \A x : x \in With(L, m) <=> x \in L \/ x = m
  BY DEF With
<1>4. ASSUME NEW z
      PROVE  z \in AllocatedBytes(p, With(L, m), h) <=>
               z \in AllocatedBytes(p, L, h) \/ (HeapOf[m.type] = h /\ z \in Bytes(m.id, m.length))
  <2>1. z \in AllocatedBytes(p, With(L, m), h) =>
          z \in AllocatedBytes(p, L, h) \/ (HeapOf[m.type] = h /\ z \in Bytes(m.id, m.length))
    BY <1>3, AllocatedIs
  <2>2. z \in AllocatedBytes(p, L, h) => z \in AllocatedBytes(p, With(L, m), h)
    BY <1>3, AllocatedIs
  <2>3. HeapOf[m.type] = h /\ z \in Bytes(m.id, m.length) => z \in AllocatedBytes(p, With(L, m), h)
    BY <1>3, AllocatedIs
  <2> QED BY <2>1, <2>2, <2>3
<1>5. \A z : z \in AllocatedBytes(p, L, h) => z \notin Bytes(m.id, m.length)
  BY <1>1, <1>2, AllocatedIs
<1>6. HeapOf[m.type] = h =>
        AllocatedBytes(p, With(L, m), h) = AllocatedBytes(p, L, h) \cup Bytes(m.id, m.length)
  BY <1>4
<1>7. HeapOf[m.type] # h => AllocatedBytes(p, With(L, m), h) = AllocatedBytes(p, L, h)
  BY <1>4
<1> QED BY <1>5, <1>6, <1>7

LEMMA DirectBytesRemoved ==
  ASSUME NEW p, NEW L, NEW m \in L, m.chunk = NoChunk, MemoriesFound(p, L), NEW h
  PROVE  /\ HeapOf[m.type] = h =>
              /\ AllocatedBytes(p, Without(L, m), h) = AllocatedBytes(p, L, h) \ Bytes(m.id, m.length)
              /\ Bytes(m.id, m.length) \subseteq AllocatedBytes(p, L, h)
         /\ HeapOf[m.type] # h => AllocatedBytes(p, Without(L, m), h) = AllocatedBytes(p, L, h)
<1>1. /\ \A u \in Types : \A d \in ChunkSet(p, u) : d.id # m.id
      /\ \A x \in L : x.chunk = NoChunk /\ x.id = m.id => x = m
  BY DEF MemoriesFound
<1>2. \A z, x, n : z \in Bytes(x, n) => z[1] = x
  BY ByteOwner
<1>3. \A x : x \in Without(L, m) <=> x \in L /\ x # m
  BY DEF Without
<1>4. ASSUME NEW z, z \in AllocatedBytes(p, Without(L, m), h)
      PROVE  z \in AllocatedBytes(p, L, h) /\ z \notin Bytes(m.id, m.length)
  <2>1. z \in AllocatedBytes(p, L, h)
    BY <1>3, <1>4, AllocatedIs
  <2>2. CASE \E t \in Types : HeapOf[t] = h /\ \E c \in ChunkSet(p, t) : z \in Bytes(c.id, c.size)
    BY <1>1, <1>2, <2>1, <2>2
  <2>3. CASE \E x \in Without(L, m) : HeapOf[x.type] = h /\ x.chunk = NoChunk /\ z \in Bytes(x.id, x.length)
    BY <1>1, <1>2, <1>3, <2>1, <2>3
  <2> QED BY <1>4, <2>2, <2>3, AllocatedIs
<1>5. ASSUME NEW z, z \in AllocatedBytes(p, L, h), z \notin Bytes(m.id, m.length) \/ HeapOf[m.type] # h
      PROVE  z \in AllocatedBytes(p, Without(L, m), h)
  BY <1>3, <1>5, AllocatedIs
<1>6. HeapOf[m.type] = h => \A z : z \in Bytes(m.id, m.length) => z \in AllocatedBytes(p, L, h)
  BY AllocatedIs
<1>7. HeapOf[m.type] = h =>
        AllocatedBytes(p, Without(L, m), h) = AllocatedBytes(p, L, h) \ Bytes(m.id, m.length)
  BY <1>4, <1>5
<1>8. HeapOf[m.type] # h => AllocatedBytes(p, Without(L, m), h) = AllocatedBytes(p, L, h)
  BY <1>4, <1>5
<1> QED BY <1>6, <1>7, <1>8

-----------------------------------------------------------------------------
(* What a pool counts depends on its lists only through their chunks.      *)
LEMMA SameChunks ==
  ASSUME NEW p, NEW q, q.chunks = p.chunks
  PROVE  /\ \A t : ChunkSet(q, t) = ChunkSet(p, t)
         /\ \A L, h : AllocatedBytes(q, L, h) = AllocatedBytes(p, L, h)
         /\ \A L : Handles(q, L) = Handles(p, L)
<1>1. \A t : ChunkSet(q, t) = ChunkSet(p, t)
  BY DEF ChunkSet
<1>2. \A h : ChunksOn(q, h) = ChunksOn(p, h)
  BY DEF ChunksOn
<1>3. \A L, h : AllocatedBytes(q, L, h) = AllocatedBytes(p, L, h)
  BY <1>2 DEF AllocatedBytes
<1>4. \A L : Handles(q, L) = Handles(p, L)
  BY <1>1 DEF Handles
<1> QED BY <1>1, <1>3, <1>4

(* A direct allocation. *)
LEMMA DirectInv ==
  ASSUME NEW p, PoolInv(p, memories), NEW t \in Types, NEW size \in Nat \ {0}, NEW grant,
         NEW r, r = AllocDirect(p, t, size, grant)
  PROVE  Yields(r, memories) /\ NoNewSpare(p, r.pool)
<1>1. PICK L : L = memories
  OBVIOUS
<1>2. PICK h \in Heaps : h = HeapOf[t]
  BY AllocatorAssumption
<1>3. PICK q : q = RelieveHeap(p, h, size)
  OBVIOUS
<1>4. PoolInv(q, L) /\ NoNewSpare(p, q)
  BY <1>1, <1>3, RelieveInv
<1>5. /\ q \in PoolType /\ L \subseteq MemoryType /\ ChunksApart(q) /\ MemoriesFound(q, L)
      /\ ChunksCut(q, L) /\ Counted(q, L) /\ IsFiniteSet(Handles(q, L))
  BY <1>4 DEF PoolInv
<1>6. PICK n \in Nat \ {0} : n = NewHandle(q) /\ n \notin Handles(q, L)
  BY <1>1, <1>5, HandleIsNew
<1>7. CASE ~DeviceGrants(q, h, size, grant)
  <2>1. r = [pool |-> q, memory |-> NoMemory]
    BY <1>2, <1>3, <1>7 DEF AllocDirect
  <2>2. r \in ResultType
    BY <1>5, <2>1 DEF ResultType
  <2> QED BY <1>1, <1>4, <2>1, <2>2 DEF Yields
<1>8. CASE DeviceGrants(q, h, size, grant)
  <2>1. PICK m : m = [type |-> t, id |-> n, chunk |-> NoChunk, offset |-> 0, length |-> size]
    OBVIOUS
  <2>2. /\ m \in MemoryType /\ m.chunk = NoChunk /\ m.id = n /\ m.type = t /\ m.length = size
    BY <2>1 DEF MemoryType, NoChunk
  <2>3. PICK qq : qq = [q EXCEPT !.allocated[h] = @ + size, !.used[h] = @ + size]
    OBVIOUS
  <2>4. r = [pool |-> qq, memory |-> m]
    BY <1>2, <1>3, <1>6, <1>8, <2>1, <2>3 DEF AllocDirect
  <2>5. /\ qq.chunks = q.chunks
        /\ qq.allocated = [q.allocated EXCEPT ![h] = @ + size]
        /\ qq.used = [q.used EXCEPT ![h] = @ + size]
        /\ qq = [chunks |-> qq.chunks, allocated |-> qq.allocated, used |-> qq.used]
    BY <1>5, <2>3 DEF PoolType
  <2>6. /\ q.chunks \in [Types -> Seq(ChunkType)] /\ q.allocated \in [Heaps -> Nat]
        /\ q.used \in [Heaps -> Nat]
    BY <1>5 DEF PoolType
  <2>7. qq \in PoolType
    <3>1. q.used[h] + size \in Nat /\ q.allocated[h] + size \in Nat
      BY <2>6
    <3>2. qq.allocated \in [Heaps -> Nat] /\ qq.used \in [Heaps -> Nat]
      BY <2>5, <2>6, <3>1
    <3> QED BY <2>5, <2>6, <3>2 DEF PoolType
  <2>8. /\ \A u : ChunkSet(qq, u) = ChunkSet(q, u)
        /\ \A x : AllocatedBytes(qq, With(L, m), x) = AllocatedBytes(q, With(L, m), x)
        /\ Handles(qq, With(L, m)) = Handles(q, With(L, m))
    BY <2>5, SameChunks
  <2>9. PICK LL : LL = With(L, m)
    OBVIOUS
  <2>10. LL = L \cup {m}
    BY <2>9 DEF With
  <2>11. /\ \A u \in Types : \A c \in ChunkSet(q, u) : c.id # n
         /\ \A x \in L : x.chunk = NoChunk => x.id # n
    BY <1>6 DEF Handles
  <2>12. m \notin L
    BY <2>2, <2>11
  <2>13. ChunksApart(qq)
    BY <1>5, <2>5, <2>8 DEF ChunksApart
  <2>14. MemoriesFound(qq, LL)
    <3> SUFFICES ASSUME NEW x \in LL
                 PROVE  /\ x.chunk # NoChunk =>
                             x.id = x.chunk /\ \E c \in ChunkSet(q, x.type) : c.id = x.id
                        /\ x.chunk = NoChunk =>
                             /\ \A u \in Types : \A c \in ChunkSet(q, u) : c.id # x.id
                             /\ \A y \in LL : y.chunk = NoChunk /\ y.id = x.id => y = x
      BY <2>8 DEF MemoriesFound
    <3>1. CASE x = m
      <4>1. \A y \in LL : y.chunk = NoChunk /\ y.id = x.id => y = x
        BY <2>2, <2>10, <2>11, <3>1
      <4> QED BY <2>2, <2>11, <3>1, <4>1
    <3>2. CASE x # m
      <4>1. x \in L
        BY <2>10, <3>2
      <4>2. ASSUME x.chunk = NoChunk
            PROVE  /\ \A u \in Types : \A c \in ChunkSet(q, u) : c.id # x.id
                   /\ \A y \in LL : y.chunk = NoChunk /\ y.id = x.id => y = x
        BY <1>5, <2>2, <2>10, <2>11, <4>1, <4>2 DEF MemoriesFound
      <4>3. x.chunk # NoChunk => x.id = x.chunk /\ \E c \in ChunkSet(q, x.type) : c.id = x.id
        BY <1>5, <4>1 DEF MemoriesFound
      <4> QED BY <4>2, <4>3
    <3> QED BY <3>1, <3>2
  <2>15. ChunksCut(qq, LL)
    <3> SUFFICES ASSUME NEW u \in Types, NEW c \in ChunkSet(q, u)
                 PROVE  ChunkCut(c, SlicesIn(LL, u, c.id))
      BY <2>8 DEF ChunksCut
    <3>1. c.id # NoChunk
      <4>1. c \in ChunkType
        BY <1>5, ChunksType
      <4> QED BY <4>1 DEF ChunkType, NoChunk
    <3>2. PICK k : k = c.id
      OBVIOUS
    <3>3. SlicesIn(With(L, m), u, k) =
            IF m.type = u /\ m.chunk = k
            THEN SlicesIn(L, u, k) \cup {Slice(m.offset, m.length)} ELSE SlicesIn(L, u, k)
      BY SlicesAdd
    <3>4. SlicesIn(LL, u, c.id) = SlicesIn(L, u, c.id)
      BY <2>2, <2>9, <3>1, <3>2, <3>3
    <3> QED BY <1>5, <3>4 DEF ChunksCut
  <2>16. IsFiniteSet(Handles(qq, LL))
    <3>1. Handles(q, LL) = Handles(q, L) \cup {n}
      <4>1. PICK C : C = UNION {{c.id : c \in ChunkSet(q, u)} : u \in Types}
        OBVIOUS
      <4>2. {x.id : x \in {y \in LL : y.chunk = NoChunk}}
              = {x.id : x \in {y \in L : y.chunk = NoChunk}} \cup {n}
        BY <2>2, <2>10
      <4>3. /\ Handles(q, LL) = C \cup {x.id : x \in {y \in LL : y.chunk = NoChunk}}
            /\ Handles(q, L) = C \cup {x.id : x \in {y \in L : y.chunk = NoChunk}}
        BY <4>1 DEF Handles
      <4> QED BY <4>2, <4>3
    <3>2. IsFiniteSet(Handles(q, L) \cup {n})
      BY <1>5, FS_AddElement
    <3> QED BY <2>8, <2>9, <3>1, <3>2
  <2>17. Counted(qq, LL)
    <3> SUFFICES ASSUME NEW x \in Heaps
                 PROVE  /\ IsFiniteSet(UsedBytes(LL, x)) /\ qq.used[x] = Cardinality(UsedBytes(LL, x))
                        /\ IsFiniteSet(AllocatedBytes(qq, LL, x))
                        /\ qq.allocated[x] = Cardinality(AllocatedBytes(qq, LL, x))
      BY DEF Counted
    <3>1. PICK A : A = AllocatedBytes(q, L, x)
      OBVIOUS
    <3>2. PICK U : U = UsedBytes(L, x)
      OBVIOUS
    <3>3. /\ IsFiniteSet(U) /\ q.used[x] = Cardinality(U)
          /\ IsFiniteSet(A) /\ q.allocated[x] = Cardinality(A)
      BY <1>5, <3>1, <3>2 DEF Counted
    <3>4. AllocatedBytes(qq, LL, x) = AllocatedBytes(q, With(L, m), x)
      BY <2>8, <2>9
    <3>5. CASE x = h
      <4>1. HeapOf[m.type] = x
        BY <1>2, <2>2, <3>5
      <4>2. m.id \notin Handles(q, L)
        BY <1>6, <2>2
      <4>3. /\ AllocatedBytes(q, With(L, m), x) = AllocatedBytes(q, L, x) \cup Bytes(m.id, m.length)
            /\ AllocatedBytes(q, L, x) \cap Bytes(m.id, m.length) = {}
        <5>1. m.chunk = NoChunk
          BY <2>2
        <5>2. /\ HeapOf[m.type] = x =>
                   /\ AllocatedBytes(q, With(L, m), x) = AllocatedBytes(q, L, x) \cup Bytes(m.id, m.length)
                   /\ AllocatedBytes(q, L, x) \cap Bytes(m.id, m.length) = {}
              /\ HeapOf[m.type] # x => AllocatedBytes(q, With(L, m), x) = AllocatedBytes(q, L, x)
          BY <4>2, <5>1, DirectBytesAdded
        <5> QED BY <4>1, <5>2
      <4>4. /\ UsedBytes(With(L, m), x) = UsedBytes(L, x) \cup Bytes(m, m.length)
            /\ UsedBytes(L, x) \cap Bytes(m, m.length) = {}
        BY <2>12, <4>1, UsedAdd
      <4>5. /\ IsFiniteSet(A \cup Bytes(n, size))
            /\ Cardinality(A \cup Bytes(n, size)) = Cardinality(A) + size
        BY <2>2, <3>1, <3>3, <4>3, BytesAdded
      <4>6. /\ IsFiniteSet(U \cup Bytes(m, size))
            /\ Cardinality(U \cup Bytes(m, size)) = Cardinality(U) + size
        BY <2>2, <3>2, <3>3, <4>4, BytesAdded
      <4>7. qq.used[x] = q.used[x] + size /\ qq.allocated[x] = q.allocated[x] + size
        BY <2>5, <2>6, <3>5
      <4>8. AllocatedBytes(qq, LL, x) = A \cup Bytes(n, size)
        BY <2>2, <3>1, <3>4, <4>3
      <4>9. UsedBytes(LL, x) = U \cup Bytes(m, size)
        BY <2>2, <2>9, <3>2, <4>4
      <4> QED BY <3>3, <4>5, <4>6, <4>7, <4>8, <4>9
    <3>6. CASE x # h
      <4>1. HeapOf[m.type] # x
        BY <1>2, <2>2, <3>6
      <4>2. m.id \notin Handles(q, L)
        BY <1>6, <2>2
      <4>3. AllocatedBytes(q, With(L, m), x) = AllocatedBytes(q, L, x)
        <5>1. m.chunk = NoChunk
          BY <2>2
        <5>2. /\ HeapOf[m.type] = x =>
                   /\ AllocatedBytes(q, With(L, m), x) = AllocatedBytes(q, L, x) \cup Bytes(m.id, m.length)
                   /\ AllocatedBytes(q, L, x) \cap Bytes(m.id, m.length) = {}
              /\ HeapOf[m.type] # x => AllocatedBytes(q, With(L, m), x) = AllocatedBytes(q, L, x)
          BY <4>2, <5>1, DirectBytesAdded
        <5> QED BY <4>1, <5>2
      <4>4. UsedBytes(With(L, m), x) = UsedBytes(L, x)
        BY <2>12, <4>1, UsedAdd
      <4>5. qq.used[x] = q.used[x] /\ qq.allocated[x] = q.allocated[x]
        BY <2>5, <2>6, <3>6
      <4> QED BY <2>9, <3>1, <3>2, <3>3, <3>4, <4>3, <4>4, <4>5
    <3> QED BY <3>5, <3>6
  <2>18. LL \subseteq MemoryType
    BY <1>5, <2>2, <2>10
  <2>19. PoolInv(qq, LL)
    BY <2>7, <2>13, <2>14, <2>15, <2>16, <2>17, <2>18 DEF PoolInv
  <2>20. NoNewSpare(p, qq)
    BY <1>4, <2>8 DEF NoNewSpare
  <2>21. r \in ResultType /\ r.pool = qq /\ r.memory = m
    BY <2>2, <2>4, <2>7 DEF ResultType
  <2> QED BY <1>1, <2>2, <2>9, <2>12, <2>19, <2>20, <2>21 DEF Yields
<1> QED BY <1>7, <1>8

-----------------------------------------------------------------------------
(* A size that is not above an aligned one is not above it when aligned.   *)
LEMMA TimesUp ==
  ASSUME NEW a \in Nat, NEW b \in Nat, NEW c \in Nat, b <= c
  PROVE  a * b <= a * c
<1>1. PICK k \in Nat : k = c - b
  OBVIOUS
<1>2. c = b + k
  BY <1>1
<1>3. a * c = a * b + a * k
  BY <1>2
<1>4. a * k \in Nat /\ a * b \in Nat
  OBVIOUS
<1> QED BY <1>3, <1>4

LEMMA AlignFits ==
  ASSUME NEW x \in Nat, NEW n \in Nat, NEW a \in Nat \ {0}, x <= n, n % a = 0
  PROVE  Align(x, a) <= n
<1>1. PICK r \in 0 .. a - 1 : r = x % a
  OBVIOUS
<1>2. PICK j \in Nat : j = x \div a
  OBVIOUS
<1>3. PICK k \in Nat : k = n \div a
  OBVIOUS
<1>4. x = a * j + r
  BY <1>1, <1>2
<1>5. n = a * k
  BY <1>3
<1>6. CASE r = 0
  <2>1. (a - r) % a = 0
    BY <1>6
  <2>2. Align(x, a) = x
    BY <1>1, <2>1 DEF Align
  <2> QED BY <2>2
<1>7. CASE r # 0
  <2>1. (a - r) % a = a - r
    <3>1. a - r \in 0 .. a - 1
      BY <1>7
    <3> QED BY <3>1
  <2>2. Align(x, a) = a * j + a
    <3>1. Align(x, a) = x + (a - r)
      BY <1>1, <2>1 DEF Align
    <3>2. PICK y \in Nat : y = a * j
      OBVIOUS
    <3>3. x + (a - r) = y + a
      BY <1>4, <3>2
    <3> QED BY <3>1, <3>2, <3>3
  <2>3. ~(k <= j)
    <3>1. SUFFICES ASSUME k <= j PROVE FALSE
      OBVIOUS
    <3>2. a * k <= a * j
      BY <3>1, TimesUp
    <3>3. a * j \in Nat /\ a * k \in Nat
      OBVIOUS
    <3> QED BY <1>4, <1>5, <1>7, <3>2, <3>3
  <2>4. a * (j + 1) <= a * k
    BY <2>3, TimesUp
  <2>5. a * (j + 1) = a * j + a
    OBVIOUS
  <2> QED BY <1>5, <2>2, <2>4, <2>5
<1> QED BY <1>6, <1>7

LEMMA GreatestNat ==
  ASSUME NEW S \in SUBSET Nat, S # {}, NEW n \in Nat, \A x \in S : x <= n
  PROVE  \E x \in S : \A y \in S : y <= x
<1>1. PICK T : T = {n - x : x \in S}
  OBVIOUS
<1>2. T \in SUBSET Nat /\ T # {}
  <2>1. \A x \in S : n - x \in Nat
    OBVIOUS
  <2>2. PICK x : x \in S
    OBVIOUS
  <2>3. n - x \in T
    BY <1>1, <2>2
  <2>4. \A y \in T : y \in Nat
    BY <1>1, <2>1
  <2> QED BY <2>3, <2>4
<1>3. PICK k \in T : \A j \in T : k <= j
  BY <1>2, LeastNat
<1>4. PICK x \in S : k = n - x
  BY <1>1, <1>3
<1>5. ASSUME NEW y \in S PROVE y <= x
  <2>1. n - y \in T
    BY <1>1
  <2>2. n - x <= n - y
    BY <1>3, <1>4, <2>1
  <2> QED BY <2>2
<1> QED BY <1>5

-----------------------------------------------------------------------------
(* A chunk is added.                                                       *)
CountsMore(p, q, h, n) ==
  /\ q.used = p.used
  /\ \A x \in Heaps : q.allocated[x] = IF x = h THEN p.allocated[x] + n ELSE p.allocated[x]

LEMMA ChunkCounted ==
  ASSUME NEW p, NEW L, NEW q, NEW t \in Types, NEW c, Gains(p, q, t, c), c.id \notin Handles(p, L),
         Counted(p, L), NEW n \in Nat, n = c.size, CountsMore(p, q, HeapOf[t], n)
  PROVE  Counted(q, L)
<1>1. \A x : BytesGained(p, q, L, t, c, x)
  BY ChunkBytesAdded
<1>2. PICK h : h = HeapOf[t]
  OBVIOUS
<1> SUFFICES ASSUME NEW x \in Heaps
             PROVE  /\ IsFiniteSet(UsedBytes(L, x)) /\ q.used[x] = Cardinality(UsedBytes(L, x))
                    /\ IsFiniteSet(AllocatedBytes(q, L, x))
                    /\ q.allocated[x] = Cardinality(AllocatedBytes(q, L, x))
  BY DEF Counted
<1>3. PICK A : A = AllocatedBytes(p, L, x)
  OBVIOUS
<1>4. /\ IsFiniteSet(UsedBytes(L, x)) /\ q.used[x] = Cardinality(UsedBytes(L, x))
      /\ IsFiniteSet(A) /\ p.allocated[x] = Cardinality(A)
  BY <1>3 DEF Counted, CountsMore
<1>5. /\ HeapOf[t] = x =>
            /\ AllocatedBytes(q, L, x) = AllocatedBytes(p, L, x) \cup Bytes(c.id, c.size)
            /\ AllocatedBytes(p, L, x) \cap Bytes(c.id, c.size) = {}
      /\ HeapOf[t] # x => AllocatedBytes(q, L, x) = AllocatedBytes(p, L, x)
  BY <1>1 DEF BytesGained
<1>6. CASE x = h
  <2>1. AllocatedBytes(q, L, x) = A \cup Bytes(c.id, n) /\ A \cap Bytes(c.id, n) = {}
    BY <1>2, <1>3, <1>5, <1>6
  <2>2. IsFiniteSet(A \cup Bytes(c.id, n)) /\ Cardinality(A \cup Bytes(c.id, n)) = Cardinality(A) + n
    BY <1>4, <2>1, BytesAdded
  <2>3. q.allocated[x] = p.allocated[x] + n
    BY <1>2, <1>6 DEF CountsMore
  <2> QED BY <1>4, <2>1, <2>2, <2>3
<1>7. CASE x # h
  <2>1. AllocatedBytes(q, L, x) = A
    BY <1>2, <1>3, <1>5, <1>7
  <2>2. q.allocated[x] = p.allocated[x]
    BY <1>2, <1>7 DEF CountsMore
  <2> QED BY <1>4, <2>1, <2>2
<1> QED BY <1>6, <1>7

FreshChunk(id, n, flags, hints) ==
  [id |-> id, size |-> n, flags |-> flags, hints |-> hints, freeList |-> <<Slice(0, n)>>]

Adds(p, q, t, c) ==
  q = [p EXCEPT !.chunks[t] = Append(@, c), !.allocated[HeapOf[t]] = @ + c.size]

\* The pool and the place of the chunk in it.
Added(p, q, L, t, c, k) ==
  /\ PoolInv(q, L) /\ k \in 1 .. Len(q.chunks[t]) /\ q.chunks[t][k] = c
  /\ Gains(p, q, t, c)

LEMMA ChunkAdded ==
  ASSUME NEW p, NEW L, PoolInv(p, L), NEW t \in Types, NEW n \in Nat \ {0},
         NEW id \in Nat \ {0}, id \notin Handles(p, L),
         NEW flags \in SUBSET Flags, NEW hints \in SUBSET Hints,
         NEW c, c = FreshChunk(id, n, flags, hints), NEW q, Adds(p, q, t, c)
  PROVE  Added(p, q, L, t, c, Len(p.chunks[t]) + 1)
<1>1. c = [id |-> id, size |-> n, flags |-> flags, hints |-> hints, freeList |-> <<Slice(0, n)>>]
  BY DEF FreshChunk
<1>2. q = [p EXCEPT !.chunks[t] = Append(@, c), !.allocated[HeapOf[t]] = @ + n]
  BY <1>1 DEF Adds
<1>3. /\ p \in PoolType /\ L \subseteq MemoryType /\ ChunksApart(p) /\ MemoriesFound(p, L)
      /\ ChunksCut(p, L) /\ Counted(p, L) /\ IsFiniteSet(Handles(p, L))
  BY DEF PoolInv
<1>4. PICK h \in Heaps : h = HeapOf[t]
  BY AllocatorAssumption
<1>5. PICK s : s = Slice(0, n)
  OBVIOUS
<1>6. s \in SliceType
  BY <1>5 DEF Slice, SliceType
<1>7. /\ c \in ChunkType /\ c.id = id /\ c.size = n /\ c.freeList = <<s>>
  BY <1>1, <1>5, <1>6 DEF ChunkType
<1>8. ChunkCut(c, {})
  <2>1. ToSet(<<s>>) = {s} /\ Distinct(<<s>>)
    BY DEF ToSet, Distinct
  <2>2. Partition({s}, {}, n)
    BY <1>5, NewPartition
  <2> QED BY <1>7, <2>1, <2>2 DEF ChunkCut
<1>9. PICK chunks \in Seq(ChunkType) : chunks = p.chunks[t]
  BY <1>3, ChunksType
<1>10. Distinct(chunks) /\ ChunkSet(p, t) = ToSet(chunks)
  BY <1>3, <1>9 DEF ChunksApart, ChunkSet
<1>11. /\ \A u \in Types : \A d \in ChunkSet(p, u) : d.id # id
      /\ \A m \in L : m.chunk = NoChunk => m.id # id
  BY DEF Handles
<1>12. c \notin ToSet(chunks)
  BY <1>7, <1>10, <1>11
<1>13. /\ Append(chunks, c) \in Seq(ChunkType) /\ Distinct(Append(chunks, c))
       /\ ToSet(Append(chunks, c)) = ToSet(chunks) \cup {c}
  BY <1>7, <1>10, <1>12, AppendDistinct
<1>14. p.chunks \in [Types -> Seq(ChunkType)] /\ p.used \in [Heaps -> Nat] /\ p.allocated \in [Heaps -> Nat]
  BY <1>3 DEF PoolType
<1>15. /\ q.chunks = [p.chunks EXCEPT ![t] = Append(chunks, c)]
       /\ q.allocated = [p.allocated EXCEPT ![h] = @ + n]
       /\ q.used = p.used
       /\ q = [chunks |-> q.chunks, allocated |-> q.allocated, used |-> q.used]
  BY <1>2, <1>3, <1>4, <1>9 DEF PoolType
<1>16. /\ q.chunks \in [Types -> Seq(ChunkType)] /\ q.chunks[t] = Append(chunks, c)
       /\ \A u \in Types \ {t} : q.chunks[u] = p.chunks[u]
  BY <1>13, <1>14, <1>15
<1>17. /\ ChunkSet(q, t) = ChunkSet(p, t) \cup {c}
       /\ \A u \in Types \ {t} : ChunkSet(q, u) = ChunkSet(p, u)
  BY <1>10, <1>13, <1>16 DEF ChunkSet
<1>18. q \in PoolType
  <2>1. PICK v \in Nat : v = p.allocated[h] + n
    BY <1>14
  <2>2. q.allocated \in [Heaps -> Nat]
    <3>1. PICK f \in [Heaps -> Nat] : f = p.allocated
      BY <1>14
    <3>2. q.allocated = [f EXCEPT ![h] = v]
      BY <1>15, <2>1, <3>1
    <3>3. [f EXCEPT ![h] = v] \in [Heaps -> Nat]
      OBVIOUS
    <3> QED BY <3>2, <3>3
  <2> QED BY <1>14, <1>15, <1>16, <2>2 DEF PoolType
<1>19. \A u \in Types : \A e \in ChunkSet(q, u) : (u = t /\ e = c) \/ e \in ChunkSet(p, u)
  <2> TAKE u \in Types
  <2> TAKE e \in ChunkSet(q, u)
  <2>1. CASE u = t
    BY <1>17, <2>1
  <2>2. CASE u # t
    BY <1>17, <2>2
  <2> QED BY <2>1, <2>2
<1>20. ChunksApart(q)
  <2>1. ASSUME NEW u \in Types PROVE Distinct(q.chunks[u])
    <3>1. CASE u = t
      BY <1>13, <1>16, <3>1
    <3>2. CASE u # t
      BY <1>3, <1>16, <3>2 DEF ChunksApart
    <3> QED BY <3>1, <3>2
  <2>2. ASSUME NEW u \in Types, NEW v \in Types, NEW e \in ChunkSet(q, u), NEW f \in ChunkSet(q, v),
               e.id = f.id
        PROVE  u = v /\ e = f
    <3>1. CASE e \in ChunkSet(p, u) /\ f \in ChunkSet(p, v)
      BY <1>3, <2>2, <3>1 DEF ChunksApart
    <3>2. CASE u = t /\ e = c /\ f \in ChunkSet(p, v)
      BY <1>7, <1>11, <2>2, <3>2
    <3>3. CASE v = t /\ f = c /\ e \in ChunkSet(p, u)
      BY <1>7, <1>11, <2>2, <3>3
    <3>4. CASE u = t /\ e = c /\ v = t /\ f = c
      BY <3>4
    <3> QED BY <1>19, <3>1, <3>2, <3>3, <3>4
  <2> QED BY <2>1, <2>2 DEF ChunksApart
<1>21. \A u \in Types : ChunkSet(p, u) \subseteq ChunkSet(q, u)
  <2> TAKE u \in Types
  <2>1. CASE u = t
    BY <1>17, <2>1
  <2>2. CASE u # t
    BY <1>17, <2>2
  <2> QED BY <2>1, <2>2
<1>22. MemoriesFound(q, L)
  <2> SUFFICES ASSUME NEW m \in L
               PROVE  /\ m.chunk # NoChunk =>
                           m.id = m.chunk /\ \E e \in ChunkSet(q, m.type) : e.id = m.id
                      /\ m.chunk = NoChunk =>
                           /\ \A u \in Types : \A e \in ChunkSet(q, u) : e.id # m.id
                           /\ \A x \in L : x.chunk = NoChunk /\ x.id = m.id => x = m
    BY DEF MemoriesFound
  <2>1. m.type \in Types
    BY <1>3 DEF MemoryType
  <2>2. CASE m.chunk = NoChunk
    <3>1. /\ \A u \in Types : \A e \in ChunkSet(p, u) : e.id # m.id
          /\ \A x \in L : x.chunk = NoChunk /\ x.id = m.id => x = m
      BY <1>3, <2>2 DEF MemoriesFound
    <3>2. \A u \in Types : \A e \in ChunkSet(q, u) : e.id # m.id
      BY <1>7, <1>11, <1>19, <2>2, <3>1
    <3> QED BY <2>2, <3>1, <3>2
  <2>3. CASE m.chunk # NoChunk
    <3>1. m.id = m.chunk /\ \E e \in ChunkSet(p, m.type) : e.id = m.id
      BY <1>3, <2>3 DEF MemoriesFound
    <3> QED BY <1>21, <2>1, <2>3, <3>1
  <2> QED BY <2>2, <2>3
<1>23. ChunksCut(q, L)
  <2> SUFFICES ASSUME NEW u \in Types, NEW e \in ChunkSet(q, u)
               PROVE  ChunkCut(e, SlicesIn(L, u, e.id))
    BY DEF ChunksCut
  <2>1. CASE e \in ChunkSet(p, u)
    BY <1>3, <2>1 DEF ChunksCut
  <2>2. CASE u = t /\ e = c
    <3>1. ASSUME NEW m \in L, m.type = t, m.chunk = id PROVE FALSE
      <4>1. m.chunk # NoChunk
        BY <3>1 DEF NoChunk
      <4>2. m.id = id /\ \E d \in ChunkSet(p, t) : d.id = m.id
        BY <1>3, <3>1, <4>1 DEF MemoriesFound
      <4> QED BY <1>11, <4>2
    <3>2. SlicesIn(L, t, id) = {}
      BY <3>1 DEF SlicesIn
    <3> QED BY <1>7, <1>8, <2>2, <3>2
  <2> QED BY <1>19, <2>1, <2>2
<1>24. Gains(p, q, t, c)
  BY <1>17 DEF Gains, OthersKept
<1>25. Counted(q, L)
  <2>1. c.id \notin Handles(p, L) /\ c.size = n
    BY <1>7
  <2>2. CountsMore(p, q, HeapOf[t], n)
    BY <1>4, <1>7, <1>14, <1>15 DEF CountsMore
  <2>3. Counted(p, L)
    BY <1>3
  <2> HIDE DEF PoolInv
  <2> QED BY <1>24, <2>1, <2>2, <2>3, ChunkCounted
<1>26. IsFiniteSet(Handles(q, L))
  <2>1. ASSUME NEW z \in Handles(q, L) PROVE z \in Handles(p, L) \cup {id}
    <3>1. CASE \E u \in Types : \E e \in ChunkSet(q, u) : z = e.id
      BY <1>7, <1>19, <3>1 DEF Handles
    <3>2. CASE \E m \in L : m.chunk = NoChunk /\ z = m.id
      BY <3>2 DEF Handles
    <3> QED BY <3>1, <3>2 DEF Handles
  <2>2. IsFiniteSet(Handles(p, L) \cup {id})
    BY <1>3, FS_AddElement
  <2>3. Handles(q, L) \in SUBSET (Handles(p, L) \cup {id})
    BY <2>1
  <2> QED BY <2>2, <2>3, FS_Subset
<1>27. PoolInv(q, L)
  BY <1>3, <1>18, <1>20, <1>22, <1>23, <1>25, <1>26 DEF PoolInv
<1>28. /\ Len(chunks) \in Nat /\ Len(Append(chunks, c)) = Len(chunks) + 1
       /\ Append(chunks, c)[Len(chunks) + 1] = c
  BY <1>7, AppendProperties, LenProperties
<1>29. Len(p.chunks[t]) + 1 \in 1 .. Len(q.chunks[t]) /\ q.chunks[t][Len(p.chunks[t]) + 1] = c
  BY <1>9, <1>16, <1>28
<1> QED BY <1>24, <1>27, <1>29 DEF Added

LEMMA TakeYields ==
  ASSUME NEW p, NEW L, PoolInv(p, L), NEW t \in Types, NEW i \in 1 .. Len(p.chunks[t]),
         NEW size \in Nat \ {0}, NEW align \in Nat \ {0},
         CanAlloc(p.chunks[t][i].freeList, size, align),
         NEW r, r = TakeFromChunk(p, t, i, size, align)
  PROVE  Yields(r, L) /\ NoNewSpare(p, r.pool)
<1>1. /\ r.memory \in MemoryType /\ r.memory \notin L
      /\ PoolInv(r.pool, With(L, r.memory))
      /\ \A u \in Types : \A e \in ChunkSet(r.pool, u) :
           IsEmptyChunk(e) => e \in ChunkSet(p, u)
  BY TakeInv
<1>2. r = [pool |-> r.pool, memory |-> r.memory]
  BY DEF TakeFromChunk
<1>3. r.pool \in PoolType
  BY <1>1 DEF PoolInv
<1>4. r \in ResultType
  BY <1>1, <1>2, <1>3 DEF ResultType
<1>5. Yields(r, L)
  BY <1>1, <1>4 DEF Yields
<1>6. NoNewSpare(p, r.pool)
  BY <1>1 DEF NoNewSpare
<1> QED BY <1>5, <1>6

LEMMA NotNoMemory == ASSUME NEW m \in MemoryType PROVE m # NoMemory
BY DEF MemoryType, NoMemory, Types

(* A block of its own serves a request that is not larger.                 *)
LEMMA FreshFits ==
  ASSUME NEW n \in Nat \ {0}, NEW size \in Nat, NEW align \in Nat \ {0},
         size <= n, n % align = 0
  PROVE  CanAlloc(<<Slice(0, n)>>, size, align)
<1>1. PICK s : s = Slice(0, n)
  OBVIOUS
<1>2. s \in SliceType /\ s.offset = 0 /\ s.length = n
  BY <1>1 DEF Slice, SliceType
<1>3. PICK list \in Seq(SliceType) : list = <<s>>
  <2>1. <<s>> \in Seq(SliceType)
    BY <1>2
  <2> QED BY <2>1
<1>4. list # <<>> /\ Len(list) = 1 /\ list[1] = s /\ ToSet(list) = {s}
  BY <1>3 DEF ToSet
<1>5. Inside(ToSet(list), n)
  BY <1>2, <1>4 DEF Inside, End
<1>6. BestIndex(list, size) \in 1 .. Len(list)
  BY <1>4, <1>5, BestIsBest
<1>7. list[BestIndex(list, size)] = s
  BY <1>4, <1>6
<1>8. Align(0, align) = 0
  <2>1. align % align = 0 /\ 0 % align = 0
    OBVIOUS
  <2> QED BY <2>1 DEF Align
<1>9. Align(size, align) <= n
  BY AlignFits
<1>10. AllocEnd(s, size, align) <= End(s)
  BY <1>2, <1>8, <1>9 DEF AllocEnd, AllocStart, End
<1>11. CanAlloc(list, size, align)
  BY <1>4, <1>7, <1>10 DEF CanAlloc, Fits
<1> QED BY <1>1, <1>3, <1>11

-----------------------------------------------------------------------------
(* A new chunk, of as much of the chosen size as the driver grants.        *)
Divisors == {1, 2, 4, 8, 16, 32}

AlignedFor(t, hints, size, align) ==
  \A d \in Divisors :
    pickChunkSize(t, hints) \div d >= size => (pickChunkSize(t, hints) \div d) % align = 0

LEMMA NewChunkInv ==
  ASSUME NEW p, PoolInv(p, memories), NEW t \in Types, NEW flags \in SUBSET Flags,
         NEW hints \in SUBSET Hints, NEW size \in Nat \ {0}, NEW align \in Nat \ {0},
         NEW grant, NEW r, r = AllocNewChunk(p, t, flags, size, align, hints, grant)
  PROVE  /\ Yields(r, memories)
         /\ AlignedFor(t, hints, size, align) => NoNewSpare(p, r.pool)
<1>1. PICK L : L = memories
  OBVIOUS
<1>2. PICK h \in Heaps : h = HeapOf[t]
  BY AllocatorAssumption
<1>3. PICK most \in Nat : most = pickChunkSize(t, hints)
  BY PickType
<1>4. PICK q : q = RelieveHeap(p, h, most)
  OBVIOUS
<1>5. PoolInv(q, L) /\ NoNewSpare(p, q)
  BY <1>1, <1>4, RelieveInv
<1>6. q \in PoolType /\ IsFiniteSet(Handles(q, L))
  BY <1>5 DEF PoolInv
<1>7. PICK id \in Nat \ {0} : id = NewHandle(q) /\ id \notin Handles(q, L)
  BY <1>1, <1>6, HandleIsNew
<1>8. PICK sizes : sizes = {s \in {most \div d : d \in Divisors} :
                              s >= size /\ DeviceGrants(q, h, s, grant)}
  OBVIOUS
<1>9. CASE sizes = {}
  <2>1. r = [pool |-> q, memory |-> NoMemory]
    BY <1>2, <1>3, <1>4, <1>8, <1>9 DEF AllocNewChunk, Divisors
  <2>2. r \in ResultType
    BY <1>6, <2>1 DEF ResultType
  <2> QED BY <1>1, <1>5, <2>1, <2>2 DEF Yields
<1>10. CASE sizes # {}
  <2>1. \A d \in Divisors : most \div d \in Nat /\ most \div d <= most
    BY DEF Divisors
  <2>2. sizes \in SUBSET Nat /\ \A s \in sizes : s <= most
    BY <1>8, <2>1
  <2>3. \E s \in sizes : \A x \in sizes : x <= s
    BY <1>10, <2>2, GreatestNat
  <2>4. PICK n \in sizes : n = CHOOSE s \in sizes : \A x \in sizes : x <= s
    BY <2>3
  <2>5. n \in Nat /\ n >= size
    BY <1>8, <2>2
  <2>6. \E d \in Divisors : n = most \div d
    BY <1>8
  <2>7. n \in Nat \ {0} /\ n >= size /\ \E d \in Divisors : n = most \div d
    BY <2>5, <2>6
  <2>8. PICK c : c = FreshChunk(id, n, flags, hints)
    OBVIOUS
  <2>9. c = [id |-> id, size |-> n, flags |-> flags, hints |-> hints, freeList |-> <<Slice(0, n)>>]
    BY <2>8 DEF FreshChunk
  <2>10. PICK qq : qq = [q EXCEPT !.chunks[t] = Append(@, c), !.allocated[HeapOf[t]] = @ + n]
    OBVIOUS
  <2>11. Adds(q, qq, t, c)
    BY <2>9, <2>10 DEF Adds
  <2>12. PICK k : k = Len(q.chunks[t]) + 1
    OBVIOUS
  <2>13. Added(q, qq, L, t, c, Len(q.chunks[t]) + 1)
    <3>1. PICK N : N = n
      OBVIOUS
    <3>2. N \in Nat \ {0} /\ c = FreshChunk(id, N, flags, hints)
      BY <2>7, <2>8, <3>1
    <3>3. PoolInv(q, L) /\ id \notin Handles(q, L)
      BY <1>5, <1>7
    <3> QED BY <2>11, <3>2, <3>3, ChunkAdded
  <2>14. /\ PoolInv(qq, L) /\ k \in 1 .. Len(qq.chunks[t]) /\ qq.chunks[t][k] = c
        /\ ChunkSet(qq, t) = ChunkSet(q, t) \cup {c}
        /\ \A u \in Types \ {t} : ChunkSet(qq, u) = ChunkSet(q, u)
    BY <2>12, <2>13 DEF Added, Gains, OthersKept
  <2>15. r = IF CanAlloc(c.freeList, size, align) THEN TakeFromChunk(qq, t, k, size, align)
             ELSE [pool |-> qq, memory |-> NoMemory]
    <3> DEFINE heap == HeapOf[t]
               chosen == pickChunkSize(t, hints)
               relieved == RelieveHeap(p, heap, chosen)
               granted == {s \in {chosen \div d : d \in {1, 2, 4, 8, 16, 32}} :
                             s >= size /\ DeviceGrants(relieved, heap, s, grant)}
               Made(Q, N) == [id |-> NewHandle(Q), size |-> N, flags |-> flags, hints |-> hints,
                              freeList |-> <<Slice(0, N)>>]
               Grown(Q, N) == [Q EXCEPT !.chunks[t] = Append(@, Made(Q, N)),
                                        !.allocated[HeapOf[t]] = @ + N]
               Outcome(Q, N) == IF CanAlloc(Made(Q, N).freeList, size, align)
                                THEN TakeFromChunk(Grown(Q, N), t, Len(Q.chunks[t]) + 1, size, align)
                                ELSE [pool |-> Grown(Q, N), memory |-> NoMemory]
               Largest(S) == CHOOSE s \in S : \A x \in S : x <= s
    <3>1. r = IF granted = {} THEN [pool |-> relieved, memory |-> NoMemory]
              ELSE Outcome(relieved, Largest(granted))
      BY DEF AllocNewChunk
    <3>2. relieved = q
      BY <1>2, <1>3, <1>4
    <3>3. granted = sizes
      BY <1>2, <1>3, <1>8, <3>2 DEF Divisors
    <3>4. Largest(sizes) = n
      BY <2>4
    <3>5. Made(q, n) = c
      BY <1>7, <2>9
    <3>6. Grown(q, n) = qq
      BY <2>10, <3>5
    <3>7. r = Outcome(q, n)
      <4> HIDE DEF granted, relieved, Outcome, Largest
      <4> QED BY <1>10, <3>1, <3>2, <3>3, <3>4
    <3>8. Outcome(q, n) = IF CanAlloc(c.freeList, size, align)
                          THEN TakeFromChunk(qq, t, k, size, align)
                          ELSE [pool |-> qq, memory |-> NoMemory]
      <4> HIDE DEF Made, Grown
      <4> QED BY <2>12, <3>5, <3>6
    <3> QED BY <3>7, <3>8
  <2>16. CASE ~CanAlloc(c.freeList, size, align)
    <3>1. r = [pool |-> qq, memory |-> NoMemory]
      BY <2>15, <2>16
    <3>2. qq \in PoolType
      BY <2>14 DEF PoolInv
    <3>3. r \in ResultType
      BY <3>1, <3>2 DEF ResultType
    <3>4. Yields(r, memories)
      BY <1>1, <2>14, <3>1, <3>3 DEF Yields
    <3>5. ~AlignedFor(t, hints, size, align)
      <4>1. SUFFICES ASSUME AlignedFor(t, hints, size, align) PROVE FALSE
        OBVIOUS
      <4>2. n % align = 0
        BY <1>3, <2>7, <4>1 DEF AlignedFor
      <4>3. CanAlloc(<<Slice(0, n)>>, size, align)
        BY <2>7, <4>2, FreshFits
      <4> QED BY <2>9, <2>16, <4>3
    <3> QED BY <3>4, <3>5
  <2>17. CASE CanAlloc(c.freeList, size, align)
    <3>1. r = TakeFromChunk(qq, t, k, size, align)
      BY <2>15, <2>17
    <3>2. CanAlloc(qq.chunks[t][k].freeList, size, align)
      BY <2>14, <2>17
    <3>3. Yields(r, L) /\ NoNewSpare(qq, r.pool)
      BY <2>14, <3>1, <3>2, TakeYields
    <3>4. r.memory # NoMemory
      BY <2>14, <3>1, TakeInv, <3>2, NotNoMemory
    <3>5. ASSUME NEW u \in Types, NEW e \in ChunkSet(r.pool, u), IsEmptyChunk(e)
          PROVE  e \in ChunkSet(p, u)
      <4>1. PICK m : m = r.memory
        OBVIOUS
      <4>2. m.type = t /\ m.chunk = c.id
        BY <2>14, <3>1, <4>1 DEF TakeFromChunk, MemoryIn
      <4>3. m # NoMemory
        BY <4>1, <3>4
      <4>4. PoolInv(r.pool, With(L, m))
        BY <3>3, <4>1, <4>3 DEF Yields
      <4>5. e \in ChunkSet(qq, u)
        BY <3>3, <3>5 DEF NoNewSpare
      <4>6. CASE u = t /\ e = c
        <5>1. r.pool \in PoolType /\ ChunksCut(r.pool, With(L, m))
          BY <4>4 DEF PoolInv
        <5>2. e \in ChunkType
          BY <5>1, ChunksType
        <5>3. ChunkCut(e, SlicesIn(With(L, m), t, c.id))
          BY <3>5, <4>6, <5>1 DEF ChunksCut
        <5>4. SlicesIn(With(L, m), t, c.id) # {}
          BY <4>2 DEF SlicesIn, With
        <5>5. PICK S : S = SlicesIn(With(L, m), t, c.id)
          OBVIOUS
        <5>6. IsEmptyChunk(e) <=> S = {}
          BY <5>2, <5>3, <5>5, EmptyIs
        <5> QED BY <3>5, <5>4, <5>5, <5>6
      <4>7. CASE ~(u = t /\ e = c)
        <5>1. e \in ChunkSet(q, u)
          BY <2>14, <4>5, <4>7
        <5> QED BY <1>5, <3>5, <5>1 DEF NoNewSpare
      <4> QED BY <4>6, <4>7
    <3> QED BY <1>1, <3>3, <3>5 DEF NoNewSpare
  <2> QED BY <2>16, <2>17
<1> QED BY <1>9, <1>10

-----------------------------------------------------------------------------
(* An attempt with one memory type. *)
TypeYields(p, r, t, hints, size, align) ==
  /\ Yields(r, memories)
  /\ AlignedFor(t, hints, size, align) => NoNewSpare(p, r.pool)

FirstOf(I) == CHOOSE i \in I : \A j \in I : i <= j

LEMMA FirstOfIs ==
  ASSUME NEW I, I \subseteq Nat, I # {}
  PROVE  FirstOf(I) \in I
BY FirstIs DEF FirstOf

LEMMA TypeInv ==
  ASSUME NEW p, PoolInv(p, memories), NEW t \in Types, NEW flags \in SUBSET Flags,
         NEW hints \in SUBSET Hints, NEW size \in Nat \ {0}, NEW align \in Nat \ {0},
         NEW dedicated, NEW grant,
         NEW r, r = tryAllocFromType(p, t, flags, size, align, hints, dedicated, grant)
  PROVE  TypeYields(p, r, t, hints, size, align)
<1> DEFINE Serving == {i \in DOMAIN p.chunks[t] :
                         ChunkServes(p.chunks[t][i], flags, size, align, hints)}
<1>1. r = IF size >= pickChunkSize(t, hints) \/ dedicated THEN AllocDirect(p, t, size, grant)
          ELSE IF Serving # {}
          THEN TakeFromChunk(p, t, FirstOf(Serving), size, align)
          ELSE AllocNewChunk(p, t, flags, size, align, hints, grant)
  BY DEF tryAllocFromType, FirstOf
<1>2. PICK serving : serving = Serving
  OBVIOUS
<1>3. \/ r = AllocDirect(p, t, size, grant)
      \/ serving # {} /\ r = TakeFromChunk(p, t, FirstOf(serving), size, align)
      \/ r = AllocNewChunk(p, t, flags, size, align, hints, grant)
  <2> HIDE DEF Serving
  <2> QED BY <1>2, <1>1
<1>4. CASE r = AllocDirect(p, t, size, grant)
  <2>1. Yields(r, memories) /\ NoNewSpare(p, r.pool)
    BY <1>4, DirectInv
  <2> QED BY <2>1 DEF TypeYields
<1>5. CASE serving # {} /\ r = TakeFromChunk(p, t, FirstOf(serving), size, align)
  <2>1. p \in PoolType
    BY DEF PoolInv
  <2>2. PICK chunks \in Seq(ChunkType) : chunks = p.chunks[t]
    BY <2>1, ChunksType
  <2>3. serving \subseteq 1 .. Len(chunks) /\ Len(chunks) \in Nat
    BY <1>2, <2>2
  <2>4. FirstOf(serving) \in serving
    <3>1. serving \subseteq Nat
      BY <2>3
    <3> QED BY <1>5, <3>1, FirstOfIs
  <2>5. PICK i \in serving : i = FirstOf(serving)
    BY <2>4
  <2>6. i \in 1 .. Len(p.chunks[t]) /\ CanAlloc(p.chunks[t][i].freeList, size, align)
    BY <1>2, <2>2, <2>3 DEF ChunkServes
  <2>7. r = TakeFromChunk(p, t, i, size, align)
    BY <1>5, <2>5
  <2>8. Yields(r, memories) /\ NoNewSpare(p, r.pool)
    BY <2>6, <2>7, TakeYields
  <2> QED BY <2>8 DEF TypeYields
<1>6. CASE r = AllocNewChunk(p, t, flags, size, align, hints, grant)
  <2>1. /\ Yields(r, memories)
        /\ AlignedFor(t, hints, size, align) => NoNewSpare(p, r.pool)
    BY <1>6, NewChunkInv
  <2> QED BY <2>1 DEF TypeYields
<1> QED BY <1>3, <1>4, <1>5, <1>6

-----------------------------------------------------------------------------
(* What every attempt hands to the next.                                   *)
GoodResults ==
  {r \in ResultType : Yields(r, memories) /\ (ChunksAreAligned => SpareApart(r.pool))}

LEMMA TryInv ==
  ASSUME NEW found \in GoodResults, NEW t \in Types, NEW req \in Requests, NEW dedicated,
         NEW flags \in SUBSET Flags, NEW hints \in SUBSET Hints, NEW grant
  PROVE  TryType(found, t, req, dedicated, flags, hints, grant) \in GoodResults
<1>1. PICK p : p = found.pool
  OBVIOUS
<1>2. PICK r : r = tryAllocFromType(p, t, flags, req.size, req.align, hints, dedicated, grant)
  OBVIOUS
<1>3. CASE found.memory = NoMemory
  <2>1. req.size \in Nat \ {0} /\ req.align \in Nat \ {0}
    BY AllocatorAssumption DEF RequestType
  <2>2. PoolInv(p, memories)
    BY <1>1, <1>3, NotNoMemory DEF GoodResults, Yields
  <2>3. PICK size \in Nat \ {0} : size = req.size
    BY <2>1
  <2>4. PICK align \in Nat \ {0} : align = req.align
    BY <2>1
  <2>5. r = tryAllocFromType(p, t, flags, size, align, hints, dedicated, grant)
    BY <1>2, <2>3, <2>4
  <2>6. TypeYields(p, r, t, hints, size, align)
    BY <2>2, <2>5, TypeInv
  <2>7. ChunksAreAligned => AlignedFor(t, hints, size, align)
    BY <2>3, <2>4 DEF ChunksAreAligned, AlignedFor, Divisors
  <2>8. ChunksAreAligned => SpareApart(p)
    BY <1>1 DEF GoodResults
  <2>9. ChunksAreAligned => NoNewSpare(p, r.pool)
    BY <2>6, <2>7 DEF TypeYields
  <2>10. ChunksAreAligned => SpareApart(r.pool)
    BY <2>8, <2>9, SpareKept
  <2>11. r \in ResultType /\ Yields(r, memories)
    BY <2>6 DEF TypeYields, Yields
  <2>12. r \in GoodResults
    BY <2>10, <2>11 DEF GoodResults
  <2> QED BY <1>1, <1>2, <2>12 DEF TryType
<1>4. CASE found.memory # NoMemory
  BY <1>4 DEF TryType
<1> QED BY <1>3, <1>4

(* The types are tried in turn. *)
LEMMA TypesInv ==
  ASSUME NEW p, PoolInv(p, memories), ChunksAreAligned => SpareApart(p), NEW req \in Requests,
         NEW dedicated, NEW flags \in SUBSET Flags, NEW hints \in SUBSET Hints, NEW grant
  PROVE  tryAlloc(p, req, dedicated, flags, hints, grant) \in GoodResults
<1>1. NoneYet(p) \in GoodResults
  <2>1. NoneYet(p) = [pool |-> p, memory |-> NoMemory] /\ p \in PoolType
    BY DEF NoneYet, PoolInv
  <2>2. NoneYet(p) \in ResultType
    BY <2>1 DEF ResultType
  <2>3. Yields(NoneYet(p), memories)
    BY <2>1, <2>2 DEF Yields
  <2> QED BY <2>1, <2>2, <2>3 DEF GoodResults
<1> DEFINE Step(x, n) == TryType(x, n, req, dedicated, flags, hints, grant)
           Is(f) == f = [t \in 0 .. NumTypes |-> IF t = 0 THEN NoneYet(p) ELSE Step(f[t - 1], t)]
<1>2. PICK T : T = GoodResults
  OBVIOUS
<1>3. NumTypes \in Nat /\ Types = 1 .. NumTypes
  BY AllocatorAssumption DEF Types
<1>4. ASSUME NEW n \in 1 .. NumTypes, NEW x \in T PROVE Step(x, n) \in T
  <2>1. n \in Types /\ x \in GoodResults
    BY <1>2, <1>3
  <2> QED BY <1>2, <2>1, TryInv
<1> HIDE DEF Step
<1>5. PICK GG : GG = [n \in 1 .. NumTypes |-> [x \in T |-> Step(x, n)]]
  OBVIOUS
<1>6. GG \in [1 .. NumTypes -> [T -> T]]
  BY <1>4, <1>5
<1>7. PICK first \in T : first = NoneYet(p)
  BY <1>1, <1>2
<1>8. PICK g \in [0 .. NumTypes -> T] :
        g[0] = first /\ \A n \in 1 .. NumTypes : g[n] = GG[n][g[n - 1]]
  <2>1. Solutions(T, NumTypes, first, GG) # {}
    BY <1>3, <1>6, Recursion
  <2> QED BY <2>1 DEF Solutions
<1>9. \A n \in 0 .. NumTypes : g[n] = IF n = 0 THEN NoneYet(p) ELSE Step(g[n - 1], n)
  <2>1. ASSUME NEW n \in 1 .. NumTypes PROVE g[n] = Step(g[n - 1], n)
    <3>1. n - 1 \in 0 .. NumTypes
      BY <1>3
    <3>2. g[n - 1] \in T
      BY <3>1
    <3>3. GG[n][g[n - 1]] = Step(g[n - 1], n)
      BY <1>5, <3>2
    <3> QED BY <1>8, <3>3
  <2> QED BY <1>3, <1>7, <1>8, <2>1
<1>10. Is(g)
  BY <1>9
<1>11. PICK f : f = CHOOSE x : Is(x)
  OBVIOUS
<1>12. Is(f)
  <2> HIDE DEF Is
  <2> QED BY <1>10, <1>11
<1>13. tryAlloc(p, req, dedicated, flags, hints, grant) = f[NumTypes]
  BY <1>11 DEF tryAlloc, Step
<1>14. f[0] = NoneYet(p) /\ \A n \in 1 .. NumTypes : f[n] = Step(f[n - 1], n)
  BY <1>3, <1>12
<1>15. PICK S : S = {n \in 0 .. NumTypes : f[n] \in T}
  OBVIOUS
<1>16. 0 \in S
  BY <1>3, <1>7, <1>14, <1>15
<1>17. ASSUME NEW n \in 1 .. NumTypes, n - 1 \in S PROVE n \in S
  <2>1. f[n - 1] \in T
    BY <1>15, <1>17
  <2>2. f[n] \in T
    BY <1>4, <1>14, <2>1
  <2> QED BY <1>3, <1>15, <2>2
<1> HIDE DEF Is
<1>18. \A n \in 0 .. NumTypes : n \in S
  BY <1>3, <1>16, <1>17, Climb
<1> QED BY <1>2, <1>3, <1>13, <1>15, <1>18

-----------------------------------------------------------------------------
(* The attempts of alloc(), in turn. *)
AttemptType == [dedicated : BOOLEAN, flags : SUBSET Flags, hints : SUBSET Hints]

LEMMA AttemptsType ==
  ASSUME NEW req \in Requests
  PROVE  Attempts(req) \in Seq(AttemptType)
<1>1. /\ req.flags \in SUBSET Flags /\ req.hints \in SUBSET Hints
      /\ req.prefersDedicated \in BOOLEAN /\ req.requiresDedicated \in BOOLEAN
  BY AllocatorAssumption DEF RequestType
<1>2. PICK hints : hints = AdjustedHints(req)
  OBVIOUS
<1>3. hints \in SUBSET Hints
  BY <1>1, <1>2 DEF AdjustedHints, Hints
<1>4. PICK loose : loose = hints \cup {"IgnoreConstraints"}
  OBVIOUS
<1>5. loose \in SUBSET Hints
  BY <1>3, <1>4 DEF Hints
<1>6. PICK still \in BOOLEAN : still = (req.prefersDedicated /\ req.requiresDedicated)
  BY <1>1
<1> DEFINE Attempt(d, f, h) == <<[dedicated |-> d, flags |-> f, hints |-> h]>>
<1>7. \A d \in BOOLEAN, f \in SUBSET Flags, h \in SUBSET Hints : Attempt(d, f, h) \in Seq(AttemptType)
  BY DEF AttemptType
<1>8. PICK a \in Seq(AttemptType) : a = Attempt(req.prefersDedicated, req.flags, hints)
  BY <1>1, <1>3, <1>7
<1>9. PICK b : b = IF req.prefersDedicated /\ ~req.requiresDedicated
                   THEN Attempt(FALSE, req.flags, hints) ELSE <<>>
  OBVIOUS
<1>10. b \in Seq(AttemptType)
  <2>1. Attempt(FALSE, req.flags, hints) \in Seq(AttemptType)
    BY <1>1, <1>3, <1>7
  <2> HIDE DEF Attempt
  <2>2. CASE req.prefersDedicated /\ ~req.requiresDedicated
    BY <1>9, <2>1, <2>2
  <2>3. CASE ~(req.prefersDedicated /\ ~req.requiresDedicated)
    <3>1. b = <<>>
      BY <1>9, <2>3
    <3> QED BY <3>1
  <2> QED BY <2>2, <2>3
<1>11. PICK c \in Seq(AttemptType) : c = Attempt(FALSE, req.flags, loose)
  BY <1>1, <1>5, <1>7
<1>12. PICK d \in Seq(AttemptType) :
         d = IF req.flags \cap {"DeviceLocal", "HostCached"} # {}
             THEN Attempt(still, req.flags \ {"DeviceLocal"}, loose) ELSE <<>>
  <2>1. req.flags \ {"DeviceLocal"} \in SUBSET Flags
    BY <1>1
  <2> HIDE DEF Attempt
  <2>2. /\ Attempt(still, req.flags \ {"DeviceLocal"}, loose) \in Seq(AttemptType)
        /\ <<>> \in Seq(AttemptType)
    BY <1>5, <1>7, <2>1
  <2> QED BY <2>2
<1>13. PICK e \in Seq(AttemptType) :
         e = IF "HostCached" \in req.flags
             THEN Attempt(still, req.flags \ {"DeviceLocal", "HostCached"}, loose) ELSE <<>>
  <2>1. req.flags \ {"DeviceLocal", "HostCached"} \in SUBSET Flags
    BY <1>1
  <2> HIDE DEF Attempt
  <2>2. /\ Attempt(still, req.flags \ {"DeviceLocal", "HostCached"}, loose) \in Seq(AttemptType)
        /\ <<>> \in Seq(AttemptType)
    BY <1>5, <1>7, <2>1
  <2> QED BY <2>2
<1>14. Attempts(req) = a \o b \o c \o d \o e
  BY <1>2, <1>4, <1>6, <1>8, <1>9, <1>11, <1>12, <1>13 DEF Attempts
<1>15. a \o b \o c \o d \o e \in Seq(AttemptType)
  BY <1>10
<1> QED BY <1>14, <1>15

LEMMA AttemptInv ==
  ASSUME NEW found \in GoodResults, NEW a \in AttemptType, NEW req \in Requests, NEW grant
  PROVE  Attempted(found, a, req, grant) \in GoodResults
<1>1. CASE found.memory = NoMemory
  <2>1. PICK p : p = found.pool
    OBVIOUS
  <2>2. PoolInv(p, memories)
    BY <1>1, <2>1, NotNoMemory DEF GoodResults, Yields
  <2>3. ChunksAreAligned => SpareApart(p)
    BY <2>1 DEF GoodResults
  <2>4. PICK flags \in SUBSET Flags : flags = a.flags
    BY DEF AttemptType
  <2>5. PICK hints \in SUBSET Hints : hints = a.hints
    BY DEF AttemptType
  <2>6. PICK dedicated : dedicated = a.dedicated
    OBVIOUS
  <2>7. tryAlloc(p, req, dedicated, flags, hints, grant) \in GoodResults
    BY <2>2, <2>3, TypesInv
  <2> QED BY <1>1, <2>1, <2>4, <2>5, <2>6, <2>7 DEF Attempted
<1>2. CASE found.memory # NoMemory
  BY <1>2 DEF Attempted
<1> QED BY <1>1, <1>2

LEMMA ResultInv ==
  ASSUME NEW p, PoolInv(p, memories), ChunksAreAligned => SpareApart(p), NEW req \in Requests, NEW grant
  PROVE  AllocResult(p, req, grant) \in GoodResults
<1>1. NoneYet(p) \in GoodResults
  <2>1. NoneYet(p) = [pool |-> p, memory |-> NoMemory] /\ p \in PoolType
    BY DEF NoneYet, PoolInv
  <2>2. NoneYet(p) \in ResultType
    BY <2>1 DEF ResultType
  <2>3. Yields(NoneYet(p), memories)
    BY <2>1, <2>2 DEF Yields
  <2> QED BY <2>1, <2>2, <2>3 DEF GoodResults
<1>2. PICK attempts \in Seq(AttemptType) : attempts = Attempts(req)
  BY AttemptsType
<1>3. PICK N \in Nat : N = Len(attempts)
  OBVIOUS
<1> DEFINE Step(x, n) == Attempted(x, attempts[n], req, grant)
           Is(f) == f = [n \in 0 .. N |-> IF n = 0 THEN NoneYet(p) ELSE Step(f[n - 1], n)]
<1>4. PICK T : T = GoodResults
  OBVIOUS
<1>5. ASSUME NEW n \in 1 .. N, NEW x \in T PROVE Step(x, n) \in T
  <2>1. PICK a \in AttemptType : a = attempts[n]
    BY <1>3
  <2>2. Attempted(x, a, req, grant) \in GoodResults
    BY <1>4, AttemptInv
  <2> QED BY <1>4, <2>1, <2>2
<1>6. AllocResult(p, req, grant) = (CHOOSE f : Is(f))[N]
  BY <1>2, <1>3 DEF AllocResult
<1> HIDE DEF Step
<1>7. PICK GG : GG = [n \in 1 .. N |-> [x \in T |-> Step(x, n)]]
  OBVIOUS
<1>8. GG \in [1 .. N -> [T -> T]]
  BY <1>5, <1>7
<1>9. PICK first \in T : first = NoneYet(p)
  BY <1>1, <1>4
<1>10. PICK g \in [0 .. N -> T] : g[0] = first /\ \A n \in 1 .. N : g[n] = GG[n][g[n - 1]]
  <2>1. Solutions(T, N, first, GG) # {}
    BY <1>8, Recursion
  <2> QED BY <2>1 DEF Solutions
<1>11. \A n \in 0 .. N : g[n] = IF n = 0 THEN NoneYet(p) ELSE Step(g[n - 1], n)
  <2>1. ASSUME NEW n \in 1 .. N PROVE g[n] = Step(g[n - 1], n)
    <3>1. n - 1 \in 0 .. N
      OBVIOUS
    <3>2. g[n - 1] \in T
      BY <3>1
    <3>3. GG[n][g[n - 1]] = Step(g[n - 1], n)
      BY <1>7, <3>2
    <3> QED BY <1>10, <3>3
  <2> QED BY <1>9, <1>10, <2>1
<1>12. Is(g)
  BY <1>11
<1>13. PICK f : f = CHOOSE x : Is(x)
  OBVIOUS
<1>14. Is(f)
  <2> HIDE DEF Is
  <2> QED BY <1>12, <1>13
<1>15. f[0] = NoneYet(p) /\ \A n \in 1 .. N : f[n] = Step(f[n - 1], n)
  BY <1>14
<1> HIDE DEF Is
<1>16. PICK S : S = {n \in 0 .. N : f[n] \in T}
  OBVIOUS
<1>17. 0 \in S
  BY <1>9, <1>15, <1>16
<1>18. ASSUME NEW n \in 1 .. N, n - 1 \in S PROVE n \in S
  <2>1. f[n - 1] \in T
    BY <1>16, <1>18
  <2>2. f[n] \in T
    BY <1>5, <1>15, <2>1
  <2> QED BY <1>16, <2>2
<1>19. \A n \in 0 .. N : n \in S
  BY <1>17, <1>18, Climb
<1> QED BY <1>4, <1>6, <1>13, <1>16, <1>19

-----------------------------------------------------------------------------
(* The invariant of the allocator, and the steps that keep it.             *)
AllocatorInv ==
  /\ PoolInv(pool, memories)
  /\ ChunksAreAligned => SpareApart(pool)

LEMMA AllocInv ==
  ASSUME AllocatorInv, NEW req \in Requests, AllocMemory(req)
  PROVE  AllocatorInv'
<1>1. PICK grant \in Grants :
        LET r == AllocResult(pool, req, grant)
        IN  /\ pool' = r.pool
            /\ memories' = IF r.memory = NoMemory THEN memories ELSE memories \cup {r.memory}
  BY DEF AllocMemory
<1>2. PICK r : r = AllocResult(pool, req, grant)
  OBVIOUS
<1>3. /\ pool' = r.pool
      /\ memories' = IF r.memory = NoMemory THEN memories ELSE memories \cup {r.memory}
  BY <1>1, <1>2
<1>4. r \in GoodResults
  <2>1. PICK p : p = pool
    OBVIOUS
  <2>2. PoolInv(p, memories) /\ (ChunksAreAligned => SpareApart(p))
    BY <2>1 DEF AllocatorInv
  <2>3. r = AllocResult(p, req, grant)
    BY <1>2, <2>1
  <2> QED BY <2>2, <2>3, ResultInv
<1>5. PoolInv(r.pool, memories')
  <2>1. CASE r.memory = NoMemory
    BY <1>3, <1>4, <2>1, NotNoMemory DEF GoodResults, Yields
  <2>2. CASE r.memory # NoMemory
    BY <1>3, <1>4, <2>2 DEF GoodResults, Yields, With
  <2> QED BY <2>1, <2>2
<1>6. ChunksAreAligned => SpareApart(r.pool)
  BY <1>4 DEF GoodResults
<1> QED BY <1>3, <1>5, <1>6 DEF AllocatorInv, ChunksAreAligned

-----------------------------------------------------------------------------
(* The statistics as memory, or a chunk, goes.                             *)
Less(f, g, h, n) ==
  /\ g \in [Heaps -> Int]
  /\ \A x \in Heaps : g[x] = IF x = h THEN f[x] - n ELSE f[x]

UsedIs(p, L) ==
  /\ p.used \in [Heaps -> Nat]
  /\ \A x \in Heaps : IsFiniteSet(UsedBytes(L, x)) /\ p.used[x] = Cardinality(UsedBytes(L, x))

AllocatedCounted(p, L) ==
  /\ p.allocated \in [Heaps -> Nat]
  /\ \A x \in Heaps :
       IsFiniteSet(AllocatedBytes(p, L, x)) /\ p.allocated[x] = Cardinality(AllocatedBytes(p, L, x))

LEMMA CountedIs ==
  ASSUME NEW p, NEW L, UsedIs(p, L), AllocatedCounted(p, L)
  PROVE  Counted(p, L)
BY DEF UsedIs, AllocatedCounted, Counted

LEMMA IsCounted ==
  ASSUME NEW p, NEW L, PoolInv(p, L)
  PROVE  UsedIs(p, L) /\ AllocatedCounted(p, L)
<1>1. p \in PoolType /\ Counted(p, L)
  BY DEF PoolInv
<1>2. p.used \in [Heaps -> Nat] /\ p.allocated \in [Heaps -> Nat]
  BY <1>1 DEF PoolType
<1> QED BY <1>1, <1>2 DEF UsedIs, AllocatedCounted, Counted

LEMMA NatValued ==
  ASSUME NEW g \in [Heaps -> Int], \A x \in Heaps : g[x] \in Nat
  PROVE  g \in [Heaps -> Nat]
OBVIOUS

LEMMA UsedReleased ==
  ASSUME NEW p, NEW L, UsedIs(p, L), NEW m \in L, m \in MemoryType, NEW q,
         Less(p.used, q.used, HeapOf[m.type], m.length)
  PROVE  UsedIs(q, Without(L, m))
<1>1. PICK LL : LL = Without(L, m)
  OBVIOUS
<1>2. PICK n \in Nat : n = m.length
  BY DEF MemoryType
<1>3. PICK h : h = HeapOf[m.type]
  OBVIOUS
<1>4. ASSUME NEW x \in Heaps
      PROVE  /\ IsFiniteSet(UsedBytes(LL, x)) /\ q.used[x] = Cardinality(UsedBytes(LL, x))
             /\ q.used[x] \in Nat
  <2>1. PICK U : U = UsedBytes(L, x)
    OBVIOUS
  <2>2. IsFiniteSet(U) /\ p.used[x] = Cardinality(U) /\ p.used[x] \in Nat
    BY <2>1 DEF UsedIs
  <2>3. CASE x = h
    <3>1. HeapOf[m.type] = x
      BY <1>3, <2>3
    <3>2. /\ UsedBytes(Without(L, m), x) = UsedBytes(L, x) \ Bytes(m, m.length)
          /\ Bytes(m, m.length) \subseteq UsedBytes(L, x)
      BY <3>1, UsedRemove
    <3>3. UsedBytes(LL, x) = U \ Bytes(m, n) /\ Bytes(m, n) \subseteq U
      BY <1>1, <1>2, <2>1, <3>2
    <3>4. /\ IsFiniteSet(U \ Bytes(m, n)) /\ Cardinality(U \ Bytes(m, n)) = Cardinality(U) - n
          /\ Cardinality(U) - n \in Nat
      BY <2>2, <3>3, BytesRemoved
    <3>5. q.used[x] = p.used[x] - n
      BY <1>2, <1>3, <2>3 DEF Less
    <3> QED BY <2>2, <3>3, <3>4, <3>5
  <2>4. CASE x # h
    <3>1. HeapOf[m.type] # x
      BY <1>3, <2>4
    <3>2. UsedBytes(Without(L, m), x) = UsedBytes(L, x)
      BY <3>1, UsedRemove
    <3>3. q.used[x] = p.used[x]
      BY <1>3, <2>4 DEF Less
    <3> QED BY <1>1, <2>1, <2>2, <3>2, <3>3
  <2> QED BY <2>3, <2>4
<1>5. q.used \in [Heaps -> Nat]
  <2>1. PICK g \in [Heaps -> Int] : g = q.used
    BY DEF Less
  <2>2. \A x \in Heaps : g[x] \in Nat
    BY <1>4, <2>1
  <2> QED BY <2>1, <2>2, NatValued
<1> QED BY <1>1, <1>4, <1>5 DEF UsedIs

LEMMA ChunkReleased ==
  ASSUME NEW p, NEW L, AllocatedCounted(p, L), ChunksApart(p), MemoriesFound(p, L),
         NEW q, NEW t \in Types, NEW c \in ChunkType, Loses(p, q, t, c),
         Less(p.allocated, q.allocated, HeapOf[t], c.size)
  PROVE  AllocatedCounted(q, L)
<1>1. \A x : BytesLost(p, q, L, t, c, x)
  BY ChunkBytesRemoved
<1>2. PICK n \in Nat : n = c.size
  BY DEF ChunkType
<1>3. PICK h : h = HeapOf[t]
  OBVIOUS
<1>4. ASSUME NEW x \in Heaps
      PROVE  /\ IsFiniteSet(AllocatedBytes(q, L, x))
             /\ q.allocated[x] = Cardinality(AllocatedBytes(q, L, x))
             /\ q.allocated[x] \in Nat
  <2>1. PICK A : A = AllocatedBytes(p, L, x)
    OBVIOUS
  <2>2. IsFiniteSet(A) /\ p.allocated[x] = Cardinality(A) /\ p.allocated[x] \in Nat
    BY <2>1 DEF AllocatedCounted
  <2>3. CASE x = h
    <3>1. AllocatedBytes(q, L, x) = A \ Bytes(c.id, n) /\ Bytes(c.id, n) \subseteq A
      BY <1>1, <1>2, <1>3, <2>1, <2>3 DEF BytesLost
    <3>2. /\ IsFiniteSet(A \ Bytes(c.id, n)) /\ Cardinality(A \ Bytes(c.id, n)) = Cardinality(A) - n
          /\ Cardinality(A) - n \in Nat
      BY <2>2, <3>1, BytesRemoved
    <3>3. q.allocated[x] = p.allocated[x] - n
      BY <1>2, <1>3, <2>3 DEF Less
    <3> QED BY <2>2, <3>1, <3>2, <3>3
  <2>4. CASE x # h
    <3>1. AllocatedBytes(q, L, x) = A
      BY <1>1, <1>3, <2>1, <2>4 DEF BytesLost
    <3>2. q.allocated[x] = p.allocated[x]
      BY <1>3, <2>4 DEF Less
    <3> QED BY <2>2, <3>1, <3>2
  <2> QED BY <2>3, <2>4
<1>5. q.allocated \in [Heaps -> Nat]
  <2>1. PICK g \in [Heaps -> Int] : g = q.allocated
    BY DEF Less
  <2>2. \A x \in Heaps : g[x] \in Nat
    BY <1>4, <2>1
  <2> QED BY <2>1, <2>2, NatValued
<1> QED BY <1>4, <1>5 DEF AllocatedCounted

LEMMA DirectReleased ==
  ASSUME NEW p, NEW L, AllocatedCounted(p, L), MemoriesFound(p, L),
         NEW m \in L, m \in MemoryType, m.chunk = NoChunk, NEW q, q.chunks = p.chunks,
         Less(p.allocated, q.allocated, HeapOf[m.type], m.length)
  PROVE  AllocatedCounted(q, Without(L, m))
<1>1. PICK LL : LL = Without(L, m)
  OBVIOUS
<1>2. PICK n \in Nat : n = m.length
  BY DEF MemoryType
<1>3. PICK h : h = HeapOf[m.type]
  OBVIOUS
<1>4. \A x : AllocatedBytes(q, LL, x) = AllocatedBytes(p, Without(L, m), x)
  BY <1>1, SameChunks
<1>5. ASSUME NEW x \in Heaps
      PROVE  /\ IsFiniteSet(AllocatedBytes(q, LL, x))
             /\ q.allocated[x] = Cardinality(AllocatedBytes(q, LL, x))
             /\ q.allocated[x] \in Nat
  <2>1. PICK A : A = AllocatedBytes(p, L, x)
    OBVIOUS
  <2>2. IsFiniteSet(A) /\ p.allocated[x] = Cardinality(A) /\ p.allocated[x] \in Nat
    BY <2>1 DEF AllocatedCounted
  <2>3. /\ HeapOf[m.type] = x =>
              /\ AllocatedBytes(p, Without(L, m), x) = AllocatedBytes(p, L, x) \ Bytes(m.id, m.length)
              /\ Bytes(m.id, m.length) \subseteq AllocatedBytes(p, L, x)
        /\ HeapOf[m.type] # x => AllocatedBytes(p, Without(L, m), x) = AllocatedBytes(p, L, x)
    BY DirectBytesRemoved
  <2>4. CASE x = h
    <3>1. AllocatedBytes(q, LL, x) = A \ Bytes(m.id, n) /\ Bytes(m.id, n) \subseteq A
      BY <1>4, <1>2, <1>3, <2>1, <2>4, <2>3
    <3>2. /\ IsFiniteSet(A \ Bytes(m.id, n)) /\ Cardinality(A \ Bytes(m.id, n)) = Cardinality(A) - n
          /\ Cardinality(A) - n \in Nat
      BY <2>2, <3>1, BytesRemoved
    <3>3. q.allocated[x] = p.allocated[x] - n
      BY <1>2, <1>3, <2>4 DEF Less
    <3> QED BY <2>2, <3>1, <3>2, <3>3
  <2>5. CASE x # h
    <3>1. AllocatedBytes(q, LL, x) = A
      BY <1>4, <1>3, <2>1, <2>5, <2>3
    <3>2. q.allocated[x] = p.allocated[x]
      BY <1>3, <2>5 DEF Less
    <3> QED BY <2>2, <3>1, <3>2
  <2> QED BY <2>4, <2>5
<1>6. q.allocated \in [Heaps -> Nat]
  <2>1. PICK g \in [Heaps -> Int] : g = q.allocated
    BY DEF Less
  <2>2. \A x \in Heaps : g[x] \in Nat
    BY <1>5, <2>1
  <2> QED BY <2>1, <2>2, NatValued
<1> QED BY <1>1, <1>5, <1>6 DEF AllocatedCounted

-----------------------------------------------------------------------------
(* The steps of free(), each from a pool to a pool. *)
IsPool(q) == q = [chunks |-> q.chunks, allocated |-> q.allocated, used |-> q.used]

\* Memory goes back to its chunk: c becomes d.
Releases(p, L, q, t, c, d, m) ==
  /\ IsPool(q) /\ m \in L
  /\ Recuts(p, L, q, Without(L, m), t, c, d, m)
  /\ Less(p.used, q.used, HeapOf[t], m.length)
  /\ q.allocated = p.allocated

LEMMA ReleaseInv ==
  ASSUME NEW p, NEW L, NEW q, NEW t, NEW c, NEW d, NEW m, Releases(p, L, q, t, c, d, m)
  PROVE  PoolInv(q, Without(L, m))
<1>1. PICK LL : LL = Without(L, m)
  OBVIOUS
<1>2. /\ IsPool(q) /\ m \in L /\ Recuts(p, L, q, LL, t, c, d, m)
      /\ Less(p.used, q.used, HeapOf[t], m.length) /\ q.allocated = p.allocated
  BY <1>1 DEF Releases
<1>3. /\ PoolInv(p, L) /\ t \in Types /\ q.chunks \in [Types -> Seq(ChunkType)] /\ m.type = t
  BY <1>2 DEF Recuts
<1>4. /\ ChunksApart(q) /\ MemoriesFound(q, LL) /\ ChunksCut(q, LL)
      /\ \A x : AllocatedBytes(q, LL, x) = AllocatedBytes(p, L, x)
      /\ Handles(q, LL) = Handles(p, L)
  BY <1>2, Recut
<1>5. L \subseteq MemoryType /\ IsFiniteSet(Handles(p, L))
  BY <1>3 DEF PoolInv
<1>6. UsedIs(p, L) /\ AllocatedCounted(p, L)
  BY <1>3, IsCounted
<1>7. UsedIs(q, LL)
  <2>1. Less(p.used, q.used, HeapOf[m.type], m.length)
    BY <1>2, <1>3
  <2>2. m \in L /\ m \in MemoryType
    BY <1>2, <1>5
  <2>3. UsedIs(q, Without(L, m))
    BY <1>6, <2>1, <2>2, UsedReleased
  <2> QED BY <1>1, <2>3
<1>8. AllocatedCounted(q, LL)
  BY <1>2, <1>4, <1>6 DEF AllocatedCounted
<1>9. Counted(q, LL)
  BY <1>7, <1>8, CountedIs
<1>10. q \in PoolType
  <2>1. q.used \in [Heaps -> Nat] /\ q.allocated \in [Heaps -> Nat]
    BY <1>7, <1>8 DEF UsedIs, AllocatedCounted
  <2> QED BY <1>2, <1>3, <2>1 DEF IsPool, PoolType
<1>11. LL \subseteq MemoryType /\ IsFiniteSet(Handles(q, LL))
  BY <1>1, <1>4, <1>5 DEF Without
<1> QED BY <1>1, <1>4, <1>9, <1>10, <1>11 DEF PoolInv

\* An empty chunk is destroyed.
Drops(p, q, t, c) ==
  /\ IsPool(q) /\ IsEmptyChunk(c)
  /\ q.chunks \in [Types -> Seq(ChunkType)] /\ \A u \in Types : Distinct(q.chunks[u])
  /\ Loses(p, q, t, c)
  /\ Less(p.allocated, q.allocated, HeapOf[t], c.size)
  /\ q.used = p.used

LEMMA DropInv ==
  ASSUME NEW p, NEW L, PoolInv(p, L), NEW q, NEW t \in Types, NEW c, Drops(p, q, t, c)
  PROVE  PoolInv(q, L)
<1>1. /\ p \in PoolType /\ L \subseteq MemoryType /\ ChunksApart(p) /\ MemoriesFound(p, L)
      /\ ChunksCut(p, L) /\ IsFiniteSet(Handles(p, L))
  BY DEF PoolInv
<1>2. /\ IsPool(q) /\ IsEmptyChunk(c)
      /\ q.chunks \in [Types -> Seq(ChunkType)] /\ \A u \in Types : Distinct(q.chunks[u])
      /\ Loses(p, q, t, c) /\ Less(p.allocated, q.allocated, HeapOf[t], c.size)
      /\ q.used = p.used
  BY DEF Drops
<1>3. /\ c \in ChunkSet(p, t) /\ ChunkSet(q, t) = ChunkSet(p, t) \ {c}
      /\ \A u \in Types \ {t} : ChunkSet(q, u) = ChunkSet(p, u)
  BY <1>2 DEF Loses, OthersKept
<1>4. c \in ChunkType
  BY <1>1, <1>3, ChunksType
<1>5. \A u \in Types : \A e \in ChunkSet(q, u) : e \in ChunkSet(p, u)
  <2> TAKE u \in Types
  <2>1. CASE u = t
    BY <1>3, <2>1
  <2>2. CASE u # t
    BY <1>3, <2>2
  <2> QED BY <2>1, <2>2
<1>6. \A u \in Types : \A e \in ChunkSet(p, u) : e.id # c.id => e \in ChunkSet(q, u)
  <2> TAKE u \in Types
  <2>1. CASE u = t
    BY <1>3, <2>1
  <2>2. CASE u # t
    BY <1>3, <2>2
  <2> QED BY <2>1, <2>2
<1>7. SlicesIn(L, t, c.id) = {}
  <2>1. ChunkCut(c, SlicesIn(L, t, c.id))
    BY <1>1, <1>3 DEF ChunksCut
  <2>2. PICK S : S = SlicesIn(L, t, c.id)
    OBVIOUS
  <2>3. IsEmptyChunk(c) <=> S = {}
    BY <1>4, <2>1, <2>2, EmptyIs
  <2> QED BY <1>2, <2>2, <2>3
<1>8. ASSUME NEW m \in L, m.chunk # NoChunk PROVE m.chunk # c.id
  <2>1. m.id = m.chunk /\ \E e \in ChunkSet(p, m.type) : e.id = m.id
    BY <1>1, <1>8 DEF MemoriesFound
  <2>2. m.type \in Types
    BY <1>1 DEF MemoryType
  <2>3. SUFFICES ASSUME m.chunk = c.id PROVE FALSE
    OBVIOUS
  <2>4. m.type = t
    BY <1>1, <1>3, <2>1, <2>2, <2>3 DEF ChunksApart
  <2>5. Slice(m.offset, m.length) \in SlicesIn(L, t, c.id)
    BY <2>3, <2>4 DEF SlicesIn
  <2> QED BY <1>7, <2>5
<1>9. ChunksApart(q)
  <2>1. \A u, v \in Types : \A e \in ChunkSet(q, u), f \in ChunkSet(q, v) :
          e.id = f.id => u = v /\ e = f
    BY <1>1, <1>5 DEF ChunksApart
  <2> QED BY <1>2, <2>1 DEF ChunksApart
<1>10. MemoriesFound(q, L)
  <2> SUFFICES ASSUME NEW m \in L
               PROVE  /\ m.chunk # NoChunk =>
                           m.id = m.chunk /\ \E e \in ChunkSet(q, m.type) : e.id = m.id
                      /\ m.chunk = NoChunk =>
                           /\ \A u \in Types : \A e \in ChunkSet(q, u) : e.id # m.id
                           /\ \A x \in L : x.chunk = NoChunk /\ x.id = m.id => x = m
    BY DEF MemoriesFound
  <2>1. m.type \in Types
    BY <1>1 DEF MemoryType
  <2>2. CASE m.chunk = NoChunk
    <3>1. /\ \A u \in Types : \A e \in ChunkSet(p, u) : e.id # m.id
          /\ \A x \in L : x.chunk = NoChunk /\ x.id = m.id => x = m
      BY <1>1, <2>2 DEF MemoriesFound
    <3> QED BY <1>5, <2>2, <3>1
  <2>3. CASE m.chunk # NoChunk
    <3>1. m.id = m.chunk /\ \E e \in ChunkSet(p, m.type) : e.id = m.id
      BY <1>1, <2>3 DEF MemoriesFound
    <3>2. m.id # c.id
      BY <1>8, <2>3, <3>1
    <3> QED BY <1>6, <2>1, <2>3, <3>1, <3>2
  <2> QED BY <2>2, <2>3
<1>11. ChunksCut(q, L)
  BY <1>1, <1>5 DEF ChunksCut
<1>12. UsedIs(p, L) /\ AllocatedCounted(p, L)
  BY IsCounted
<1>13. UsedIs(q, L)
  BY <1>2, <1>12 DEF UsedIs
<1>14. AllocatedCounted(q, L)
  BY <1>1, <1>2, <1>4, <1>12, ChunkReleased
<1>15. Counted(q, L)
  BY <1>13, <1>14, CountedIs
<1>16. q \in PoolType
  <2>1. q.used \in [Heaps -> Nat] /\ q.allocated \in [Heaps -> Nat]
    BY <1>13, <1>14 DEF UsedIs, AllocatedCounted
  <2> QED BY <1>2, <2>1 DEF IsPool, PoolType
<1>17. IsFiniteSet(Handles(q, L))
  <2>1. ASSUME NEW z \in Handles(q, L) PROVE z \in Handles(p, L)
    <3>1. CASE \E u \in Types : \E e \in ChunkSet(q, u) : z = e.id
      BY <1>5, <3>1 DEF Handles
    <3>2. CASE \E m \in L : m.chunk = NoChunk /\ z = m.id
      BY <3>2 DEF Handles
    <3> QED BY <3>1, <3>2 DEF Handles
  <2>2. Handles(q, L) \in SUBSET Handles(p, L)
    BY <2>1
  <2> QED BY <1>1, <2>2, FS_Subset
<1> QED BY <1>1, <1>9, <1>10, <1>11, <1>15, <1>16, <1>17 DEF PoolInv

\* Memory of its own is given back to the driver.
GivesBack(p, q, m) ==
  /\ IsPool(q) /\ q.chunks = p.chunks /\ m.chunk = NoChunk
  /\ Less(p.used, q.used, HeapOf[m.type], m.length)
  /\ Less(p.allocated, q.allocated, HeapOf[m.type], m.length)

LEMMA GiveBackInv ==
  ASSUME NEW p, NEW L, PoolInv(p, L), NEW q, NEW m \in L, GivesBack(p, q, m)
  PROVE  PoolInv(q, Without(L, m)) /\ NoNewSpare(p, q)
<1>1. /\ p \in PoolType /\ L \subseteq MemoryType /\ ChunksApart(p) /\ MemoriesFound(p, L)
      /\ ChunksCut(p, L) /\ IsFiniteSet(Handles(p, L))
  BY DEF PoolInv
<1>2. /\ IsPool(q) /\ q.chunks = p.chunks /\ m.chunk = NoChunk
      /\ Less(p.used, q.used, HeapOf[m.type], m.length)
      /\ Less(p.allocated, q.allocated, HeapOf[m.type], m.length)
  BY DEF GivesBack
<1>3. PICK LL : LL = Without(L, m)
  OBVIOUS
<1>4. LL = L \ {m}
  BY <1>3 DEF Without
<1>5. \A u : ChunkSet(q, u) = ChunkSet(p, u)
  BY <1>2, SameChunks
<1>6. UsedIs(p, L) /\ AllocatedCounted(p, L)
  BY IsCounted
<1>7. m \in MemoryType
  BY <1>1
<1>8. UsedIs(q, LL)
  BY <1>2, <1>3, <1>6, <1>7, UsedReleased
<1>9. AllocatedCounted(q, LL)
  BY <1>1, <1>2, <1>3, <1>6, <1>7, DirectReleased
<1>10. Counted(q, LL)
  BY <1>8, <1>9, CountedIs
<1>11. q \in PoolType
  <2>1. q.used \in [Heaps -> Nat] /\ q.allocated \in [Heaps -> Nat]
    BY <1>8, <1>9 DEF UsedIs, AllocatedCounted
  <2>2. q.chunks \in [Types -> Seq(ChunkType)]
    BY <1>1, <1>2 DEF PoolType
  <2> QED BY <1>2, <2>1, <2>2 DEF IsPool, PoolType
<1>12. ChunksApart(q)
  BY <1>1, <1>2, <1>5 DEF ChunksApart
<1>13. MemoriesFound(q, LL)
  BY <1>1, <1>4, <1>5 DEF MemoriesFound
<1>14. ChunksCut(q, LL)
  <2> SUFFICES ASSUME NEW u \in Types, NEW c \in ChunkSet(p, u)
               PROVE  ChunkCut(c, SlicesIn(LL, u, c.id))
    BY <1>5 DEF ChunksCut
  <2>1. c.id # NoChunk
    <3>1. c \in ChunkType
      BY <1>1, ChunksType
    <3> QED BY <3>1 DEF ChunkType, NoChunk
  <2>2. SlicesIn(LL, u, c.id) = SlicesIn(L, u, c.id)
    BY <1>2, <1>4, <2>1 DEF SlicesIn
  <2> QED BY <1>1, <2>2 DEF ChunksCut
<1>15. IsFiniteSet(Handles(q, LL))
  <2>1. ASSUME NEW z \in Handles(q, LL) PROVE z \in Handles(p, L)
    <3>1. CASE \E u \in Types : \E e \in ChunkSet(q, u) : z = e.id
      BY <1>5, <3>1 DEF Handles
    <3>2. CASE \E x \in LL : x.chunk = NoChunk /\ z = x.id
      BY <1>4, <3>2 DEF Handles
    <3> QED BY <3>1, <3>2 DEF Handles
  <2>2. Handles(q, LL) \in SUBSET Handles(p, L)
    BY <2>1
  <2> QED BY <1>1, <2>2, FS_Subset
<1>16. LL \subseteq MemoryType
  BY <1>1, <1>4
<1>17. NoNewSpare(p, q)
  BY <1>5 DEF NoNewSpare
<1> QED BY <1>3, <1>10, <1>11, <1>12, <1>13, <1>14, <1>15, <1>16, <1>17 DEF PoolInv

-----------------------------------------------------------------------------
(* The chunk d is what c becomes when its slice m is free again.           *)
Mends(p, L, t, c, d, m) ==
  /\ PoolInv(p, L) /\ t \in Types /\ m \in L
  /\ c \in ChunkSet(p, t) /\ d \in ChunkType /\ d.id = c.id /\ d.size = c.size
  /\ m.type = t /\ m.chunk = c.id /\ m.id = c.id
  /\ ChunkCut(d, SlicesIn(Without(L, m), t, c.id))

LEMMA MendIs ==
  ASSUME NEW p, NEW L, PoolInv(p, L), NEW m \in L, NEW c, c \in ChunkSet(p, m.type),
         m.chunk # NoChunk, c.id = m.chunk, NEW d,
         d = [c EXCEPT !.freeList = ListAfterFree(@, Slice(m.offset, m.length))]
  PROVE  Mends(p, L, m.type, c, d, m)
<1>1. /\ p \in PoolType /\ L \subseteq MemoryType /\ MemoriesFound(p, L) /\ ChunksCut(p, L)
  BY DEF PoolInv
<1>2. PICK t \in Types : t = m.type
  BY <1>1 DEF MemoryType
<1>3. c \in ChunkType
  BY <1>1, <1>2, ChunksType
<1>4. PICK list \in Seq(SliceType) : list = c.freeList
  BY <1>3 DEF ChunkType
<1>5. PICK n \in Nat \ {0} : n = c.size
  BY <1>3 DEF ChunkType
<1>6. PICK S : S = SlicesIn(L, t, c.id)
  OBVIOUS
<1>7. Distinct(list) /\ Partition(ToSet(list), S, n)
  BY <1>1, <1>2, <1>4, <1>5, <1>6 DEF ChunksCut, ChunkCut
<1>8. PICK s : s = Slice(m.offset, m.length)
  OBVIOUS
<1>9. s \in S
  BY <1>2, <1>6, <1>8 DEF SlicesIn
<1>10. PICK new : new = ListAfterFree(list, s)
  OBVIOUS
<1>11. new \in Seq(SliceType) /\ Distinct(new) /\ ToSet(new) = Coalesce(ToSet(list), s)
  BY <1>7, <1>9, <1>10, VectorFree
<1>12. Partition(ToSet(new), S \ {s}, n)
  <2>1. PICK F : F = ToSet(list)
    OBVIOUS
  <2>2. Partition(Coalesce(F, s), S \ {s}, n)
    BY <1>7, <1>9, <2>1, FreePartition
  <2> QED BY <1>11, <2>1, <2>2
<1>13. SlicesIn(Without(L, m), t, c.id) = S \ {s}
  <2>1. PICK k : k = c.id
    OBVIOUS
  <2>2. k # NoChunk
    BY <2>1
  <2>3. SlicesLeft(L, m, t, k)
    BY <1>1, <2>2, SlicesRemove
  <2> QED BY <1>2, <1>6, <1>8, <2>1, <2>3 DEF SlicesLeft
<1>14. d \in ChunkType /\ d.id = c.id /\ d.size = c.size /\ d.freeList = new
  BY <1>3, <1>4, <1>8, <1>10, <1>11 DEF ChunkType
<1>15. ChunkCut(d, SlicesIn(Without(L, m), t, c.id))
  BY <1>5, <1>11, <1>12, <1>13, <1>14 DEF ChunkCut
<1>16. m.id = c.id
  BY <1>1 DEF MemoriesFound
<1> QED BY <1>2, <1>14, <1>15, <1>16 DEF Mends

\* The list of its type now holds d for c, at whichever place.
Relisted(p, q, t, c, d, m) ==
  /\ IsPool(q)
  /\ q.chunks \in [Types -> Seq(ChunkType)] /\ Distinct(q.chunks[t])
  /\ \A u \in Types \ {t} : q.chunks[u] = p.chunks[u]
  /\ ChunkSet(q, t) = (ChunkSet(p, t) \ {c}) \cup {d}
  /\ Less(p.used, q.used, HeapOf[t], m.length)
  /\ q.allocated = p.allocated

LEMMA MendedInv ==
  ASSUME NEW p, NEW L, NEW t, NEW c, NEW d, NEW m, Mends(p, L, t, c, d, m),
         NEW q, Relisted(p, q, t, c, d, m)
  PROVE  PoolInv(q, Without(L, m))
<1>1. /\ PoolInv(p, L) /\ t \in Types /\ m \in L
      /\ c \in ChunkSet(p, t) /\ d \in ChunkType /\ d.id = c.id /\ d.size = c.size
      /\ m.type = t /\ m.chunk = c.id /\ m.id = c.id
      /\ ChunkCut(d, SlicesIn(Without(L, m), t, c.id))
  BY DEF Mends
<1>2. /\ IsPool(q)
      /\ q.chunks \in [Types -> Seq(ChunkType)] /\ Distinct(q.chunks[t])
      /\ \A u \in Types \ {t} : q.chunks[u] = p.chunks[u]
      /\ ChunkSet(q, t) = (ChunkSet(p, t) \ {c}) \cup {d}
      /\ Less(p.used, q.used, HeapOf[t], m.length) /\ q.allocated = p.allocated
  BY DEF Relisted
<1>3. \A u \in Types \ {t} : ChunkSet(q, u) = ChunkSet(p, u)
  BY <1>2 DEF ChunkSet
<1>4. Swaps(p, q, t, c, d)
  BY <1>1, <1>2, <1>3 DEF Swaps, OthersKept
<1>5. \A x : x # m => (x \in Without(L, m) <=> x \in L)
  BY DEF Without
<1>6. Recuts(p, L, q, Without(L, m), t, c, d, m)
  BY <1>1, <1>2, <1>4, <1>5 DEF Recuts
<1>7. Releases(p, L, q, t, c, d, m)
  BY <1>1, <1>2, <1>6 DEF Releases
<1> QED BY <1>7, ReleaseInv

-----------------------------------------------------------------------------
LEMMA LessIs ==
  ASSUME NEW f \in [Heaps -> Nat], NEW h \in Heaps, NEW n \in Nat,
         NEW g, g = [f EXCEPT ![h] = @ - n]
  PROVE  Less(f, g, h, n)
<1>1. g = [x \in Heaps |-> IF x = h THEN f[x] - n ELSE f[x]]
  OBVIOUS
<1>2. \A x \in Heaps : (IF x = h THEN f[x] - n ELSE f[x]) \in Int
  OBVIOUS
<1>3. g \in [Heaps -> Int]
  BY <1>1, <1>2
<1>4. \A x \in Heaps : g[x] = IF x = h THEN f[x] - n ELSE f[x]
  BY <1>1
<1> QED BY <1>3, <1>4 DEF Less

\* Memory is freed from the pool p, which becomes q.
Freed(p, L, q, m) ==
  /\ PoolInv(q, Without(L, m))
  /\ SpareApart(p) => SpareApart(q)

LEMMA FreeChunkInv ==
  ASSUME NEW p, NEW L, PoolInv(p, L), NEW m \in L, m.chunk # NoChunk,
         NEW q0, q0 = [p EXCEPT !.used[HeapOf[m.type]] = @ - m.length],
         NEW q, q = freeChunkMemory(q0, m.type, m.chunk, Slice(m.offset, m.length))
  PROVE  Freed(p, L, q, m)
<1>1. /\ p \in PoolType /\ L \subseteq MemoryType /\ ChunksApart(p) /\ MemoriesFound(p, L)
  BY DEF PoolInv
<1>2. PICK t \in Types : t = m.type
  BY <1>1 DEF MemoryType
<1>3. PICK h \in Heaps : h = HeapOf[t]
  BY AllocatorAssumption
<1>4. PICK len \in Nat : len = m.length
  BY <1>1 DEF MemoryType
<1>5. PICK chunks \in Seq(ChunkType) : chunks = p.chunks[t]
  BY <1>1, ChunksType
<1>6. Distinct(chunks) /\ ChunkSet(p, t) = ToSet(chunks)
  BY <1>1, <1>5 DEF ChunksApart, ChunkSet
<1>7. p.chunks \in [Types -> Seq(ChunkType)] /\ p.used \in [Heaps -> Nat] /\ p.allocated \in [Heaps -> Nat]
  BY <1>1 DEF PoolType
<1>8. /\ q0.chunks = p.chunks /\ q0.allocated = p.allocated
      /\ q0.used = [p.used EXCEPT ![h] = @ - len]
      /\ q0 = [chunks |-> p.chunks, allocated |-> p.allocated, used |-> q0.used]
  BY <1>1, <1>2, <1>3, <1>4 DEF PoolType
<1>9. Less(p.used, q0.used, HeapOf[t], m.length)
  <2>1. PICK f \in [Heaps -> Nat] : f = p.used
    BY <1>7
  <2>2. PICK g : g = [f EXCEPT ![h] = @ - len]
    OBVIOUS
  <2>3. Less(f, g, h, len)
    BY <2>2, LessIs
  <2> QED BY <1>3, <1>4, <1>8, <2>1, <2>2, <2>3
<1>10. PICK i : i = CHOOSE j \in DOMAIN chunks : chunks[j].id = m.chunk
  OBVIOUS
<1>11. i \in 1 .. Len(chunks) /\ chunks[i].id = m.chunk
  <2>1. \E e \in ToSet(chunks) : e.id = m.chunk
    BY <1>1, <1>2, <1>6 DEF MemoriesFound
  <2>2. \E j \in 1 .. Len(chunks) : chunks[j].id = m.chunk
    BY <2>1, InSet
  <2> QED BY <1>10, <2>2
<1>12. PICK c \in ChunkType : c = chunks[i]
  BY <1>11
<1>13. c \in ChunkSet(p, t) /\ c.id = m.chunk
  BY <1>6, <1>11, <1>12, InSet
<1>14. PICK d : d = [c EXCEPT !.freeList = ListAfterFree(@, Slice(m.offset, m.length))]
  OBVIOUS
<1>15. Mends(p, L, t, c, d, m)
  <2>1. c \in ChunkSet(p, m.type)
    BY <1>2, <1>13
  <2>2. Mends(p, L, m.type, c, d, m)
    BY <1>13, <1>14, <2>1, MendIs
  <2> QED BY <1>2, <2>2
<1>16. d \in ChunkType /\ d.id = c.id /\ d.size = c.size
  BY <1>15 DEF Mends
<1>17. PICK without : without = [q0 EXCEPT !.chunks[t] = RemoveAt(@, i)]
  OBVIOUS
<1>18. q = IF ~IsEmptyChunk(d) THEN [q0 EXCEPT !.chunks[t][i] = d]
           ELSE IF shouldFreeChunk(without, t, d)
           THEN [without EXCEPT !.allocated[h] = @ - d.size]
           ELSE [without EXCEPT !.chunks[t] = Append(@, d)]
  <2>1. q = LET j == CHOOSE k \in DOMAIN q0.chunks[t] : q0.chunks[t][k].id = m.chunk
                cc == [q0.chunks[t][j] EXCEPT !.freeList = ListAfterFree(@, Slice(m.offset, m.length))]
                ww == [q0 EXCEPT !.chunks[t] = RemoveAt(@, j)]
            IN  IF ~IsEmptyChunk(cc) THEN [q0 EXCEPT !.chunks[t][j] = cc]
                ELSE IF shouldFreeChunk(ww, t, cc)
                THEN [ww EXCEPT !.allocated[HeapOf[t]] = @ - cc.size]
                ELSE [ww EXCEPT !.chunks[t] = Append(@, cc)]
    <3>1. q = freeChunkMemory(q0, t, m.chunk, Slice(m.offset, m.length))
      BY <1>2
    <3> QED BY <3>1 DEF freeChunkMemory
  <2>2. q0.chunks[t] = chunks
    BY <1>5, <1>8
  <2>3. (CHOOSE k \in DOMAIN q0.chunks[t] : q0.chunks[t][k].id = m.chunk) = i
    BY <1>10, <2>2
  <2>4. [q0.chunks[t][i] EXCEPT !.freeList = ListAfterFree(@, Slice(m.offset, m.length))] = d
    BY <1>12, <1>14, <2>2
  <2> QED BY <1>3, <1>17, <2>1, <2>3, <2>4
\* The chunk is told apart from the others of its list.
<1>19. \A j \in 1 .. Len(chunks) : j # i => chunks[j] # d
  <2> SUFFICES ASSUME NEW j \in 1 .. Len(chunks), chunks[j] = d PROVE j = i
    OBVIOUS
  <2>1. d \in ChunkSet(p, t)
    BY <1>6, InSet
  <2>2. chunks[j] = chunks[i]
    BY <1>1, <1>12, <1>13, <1>16, <2>1 DEF ChunksApart
  <2> QED BY <1>6, <1>11, <2>2 DEF Distinct
<1>20. PICK after : after = Put(chunks, i, d)
  OBVIOUS
<1>21. after \in Seq(ChunkType) /\ Distinct(after) /\ ToSet(after) = (ChunkSet(p, t) \ {c}) \cup {d}
  <2>1. /\ Put(chunks, i, d) \in Seq(ChunkType) /\ Distinct(Put(chunks, i, d))
        /\ ToSet(Put(chunks, i, d)) = (ToSet(chunks) \ {chunks[i]}) \cup {d}
    BY <1>6, <1>11, <1>16, <1>19, ReplacedAt
  <2> QED BY <1>6, <1>12, <1>20, <2>1
<1>22. PICK rest : rest = RemoveAt(chunks, i)
  OBVIOUS
<1>23. rest \in Seq(ChunkType) /\ Distinct(rest) /\ ToSet(rest) = ChunkSet(p, t) \ {c}
  <2>1. /\ rest \in Seq(ChunkType) /\ Distinct(rest) /\ ToSet(rest) = ToSet(chunks) \ {chunks[i]}
    BY <1>6, <1>11, <1>22, RemovedDistinct
  <2> QED BY <1>6, <1>12, <2>1
<1>24. d \notin ToSet(rest)
  <2> SUFFICES ASSUME d \in ChunkSet(p, t) PROVE d = c
    BY <1>23
  <2> QED BY <1>1, <1>13, <1>16 DEF ChunksApart
<1>25. /\ without.chunks = [p.chunks EXCEPT ![t] = rest] /\ without.allocated = p.allocated
       /\ without.used = q0.used
       /\ without = [chunks |-> without.chunks, allocated |-> p.allocated, used |-> q0.used]
  BY <1>5, <1>8, <1>17, <1>22
\* The pool with d where c was.
<1>26. PICK q1 : q1 = [chunks |-> [p.chunks EXCEPT ![t] = after],
                       allocated |-> p.allocated, used |-> q0.used]
  OBVIOUS
<1>27. /\ q1.chunks \in [Types -> Seq(ChunkType)] /\ q1.chunks[t] = after
       /\ \A u \in Types \ {t} : q1.chunks[u] = p.chunks[u]
       /\ IsPool(q1) /\ q1.used = q0.used /\ q1.allocated = p.allocated
  BY <1>7, <1>21, <1>26 DEF IsPool
<1>28. Relisted(p, q1, t, c, d, m)
  <2>1. ChunkSet(q1, t) = (ChunkSet(p, t) \ {c}) \cup {d} /\ Distinct(q1.chunks[t])
    BY <1>21, <1>27 DEF ChunkSet
  <2> QED BY <1>9, <1>27, <2>1 DEF Relisted
<1>29. PoolInv(q1, Without(L, m))
  BY <1>15, <1>28, MendedInv
<1>30. CASE ~IsEmptyChunk(d)
  <2>1. q = q1
    BY <1>5, <1>8, <1>18, <1>20, <1>26, <1>30 DEF Put
  <2>2. NoNewSpare(p, q)
    <3> SUFFICES ASSUME NEW u \in Types, NEW e \in ChunkSet(q, u), IsEmptyChunk(e)
                 PROVE  e \in ChunkSet(p, u)
      BY DEF NoNewSpare
    <3>1. CASE u = t
      BY <1>21, <1>27, <1>30, <2>1, <3>1 DEF ChunkSet
    <3>2. CASE u # t
      BY <1>27, <2>1, <3>2 DEF ChunkSet
    <3> QED BY <3>1, <3>2
  <2>3. SpareApart(p) => SpareApart(q)
    BY <2>2, SpareKept
  <2> QED BY <1>29, <2>1, <2>3 DEF Freed
<1>31. CASE IsEmptyChunk(d) /\ shouldFreeChunk(without, t, d)
  <2>1. q = [without EXCEPT !.allocated[h] = @ - d.size]
    BY <1>18, <1>31
  <2>2. PICK size \in Nat : size = d.size
    BY <1>16 DEF ChunkType
  <2>3. /\ q.chunks = [p.chunks EXCEPT ![t] = rest] /\ q.used = q0.used
        /\ q.allocated = [p.allocated EXCEPT ![h] = @ - size]
        /\ IsPool(q)
    BY <1>25, <2>1, <2>2 DEF IsPool
  <2>4. /\ q.chunks \in [Types -> Seq(ChunkType)] /\ q.chunks[t] = rest
        /\ \A u \in Types \ {t} : q.chunks[u] = p.chunks[u]
    BY <1>7, <1>23, <2>3
  <2>5. /\ ChunkSet(q, t) = ChunkSet(p, t) \ {c}
        /\ \A u \in Types \ {t} : ChunkSet(q, u) = ChunkSet(p, u)
    BY <1>23, <2>4 DEF ChunkSet
  <2>6. /\ ChunkSet(q1, t) = (ChunkSet(p, t) \ {c}) \cup {d}
        /\ \A u \in Types \ {t} : ChunkSet(q1, u) = ChunkSet(p, u)
    BY <1>21, <1>27 DEF ChunkSet
  <2>7. Loses(q1, q, t, d)
    <3>1. d \in ChunkSet(q1, t) /\ ChunkSet(q, t) = ChunkSet(q1, t) \ {d}
      BY <1>23, <1>24, <2>5, <2>6
    <3>2. \A u \in Types \ {t} : ChunkSet(q, u) = ChunkSet(q1, u)
      BY <2>5, <2>6
    <3> QED BY <3>1, <3>2 DEF Loses, OthersKept
  <2>8. Less(q1.allocated, q.allocated, HeapOf[t], d.size)
    <3>1. PICK f \in [Heaps -> Nat] : f = p.allocated
      BY <1>7
    <3>2. PICK g : g = [f EXCEPT ![h] = @ - size]
      OBVIOUS
    <3>3. Less(f, g, h, size)
      BY <3>2, LessIs
    <3> QED BY <1>3, <1>27, <2>2, <2>3, <3>1, <3>2, <3>3
  <2>9. \A u \in Types : Distinct(q.chunks[u])
    <3> TAKE u \in Types
    <3>1. CASE u = t
      BY <1>23, <2>4, <3>1
    <3>2. CASE u # t
      BY <1>1, <2>4, <3>2 DEF ChunksApart
    <3> QED BY <3>1, <3>2
  <2>10. Drops(q1, q, t, d)
    BY <1>27, <1>31, <2>3, <2>4, <2>7, <2>8, <2>9 DEF Drops
  <2>11. PoolInv(q, Without(L, m))
    <3>1. PICK LL : LL = Without(L, m)
      OBVIOUS
    <3>2. PoolInv(q1, LL)
      BY <1>29, <3>1
    <3>3. PoolInv(q, LL)
      BY <2>10, <3>2, DropInv
    <3> QED BY <3>1, <3>3
  <2>12. NoNewSpare(p, q)
    <3> SUFFICES ASSUME NEW u \in Types, NEW e \in ChunkSet(q, u)
                 PROVE  e \in ChunkSet(p, u)
      BY DEF NoNewSpare
    <3>1. CASE u = t
      BY <2>5, <3>1
    <3>2. CASE u # t
      BY <2>5, <3>2
    <3> QED BY <3>1, <3>2
  <2>13. SpareApart(p) => SpareApart(q)
    BY <2>12, SpareKept
  <2> QED BY <2>11, <2>13 DEF Freed
<1>32. CASE IsEmptyChunk(d) /\ ~shouldFreeChunk(without, t, d)
  <2>1. q = [without EXCEPT !.chunks[t] = Append(@, d)]
    BY <1>18, <1>32
  <2>2. /\ q.chunks = [without.chunks EXCEPT ![t] = Append(@, d)]
        /\ q.used = q0.used /\ q.allocated = p.allocated /\ IsPool(q)
    BY <1>25, <2>1 DEF IsPool
  <2>3. without.chunks[t] = rest
    BY <1>7, <1>25
  <2>4. q.chunks = [p.chunks EXCEPT ![t] = Append(rest, d)]
    BY <1>7, <1>25, <2>2, <2>3
  <2>5. /\ Append(rest, d) \in Seq(ChunkType) /\ Distinct(Append(rest, d))
        /\ ToSet(Append(rest, d)) = ToSet(rest) \cup {d}
    BY <1>16, <1>23, <1>24, AppendDistinct
  <2>6. /\ q.chunks \in [Types -> Seq(ChunkType)] /\ q.chunks[t] = Append(rest, d)
        /\ \A u \in Types \ {t} : q.chunks[u] = p.chunks[u]
    BY <1>7, <2>4, <2>5
  <2>7. ChunkSet(q, t) = (ChunkSet(p, t) \ {c}) \cup {d}
    BY <1>23, <2>5, <2>6 DEF ChunkSet
  <2>8. Relisted(p, q, t, c, d, m)
    BY <1>9, <2>2, <2>5, <2>6, <2>7 DEF Relisted
  <2>9. PoolInv(q, Without(L, m))
    BY <1>15, <2>8, MendedInv
  <2>10. \A e \in ToSet(rest) : IsEmptyChunk(e) => ~isCompatible(e, d)
    <3>1. \A j \in DOMAIN rest : IsEmptyChunk(rest[j]) => ~isCompatible(rest[j], d)
      BY <1>32, <2>3 DEF shouldFreeChunk
    <3> QED BY <1>23, <3>1, InSet
  <2>11. SpareApart(p) => SpareApart(q)
    <3> SUFFICES ASSUME SpareApart(p), NEW u \in Types,
                        NEW e \in ChunkSet(q, u), NEW f \in ChunkSet(q, u),
                        e # f, IsEmptyChunk(e), IsEmptyChunk(f)
                 PROVE  ~isCompatible(e, f)
      BY DEF SpareApart, ChunkSet
    <3>1. CASE e \in ChunkSet(p, u) /\ f \in ChunkSet(p, u)
      BY <3>1 DEF SpareApart, ChunkSet
    <3>2. CASE u = t /\ e = d
      <4>1. f \in ToSet(rest)
        BY <1>23, <2>7, <3>2
      <4>2. ~isCompatible(f, d)
        BY <2>10, <4>1
      <4> QED BY <3>2, <4>2 DEF isCompatible
    <3>3. CASE u = t /\ f = d
      <4>1. e \in ToSet(rest)
        BY <1>23, <2>7, <3>3
      <4>2. ~isCompatible(e, d)
        BY <2>10, <4>1
      <4> QED BY <3>3, <4>2
    <3>4. u # t => ChunkSet(q, u) = ChunkSet(p, u)
      BY <2>6 DEF ChunkSet
    <3> QED BY <2>7, <3>1, <3>2, <3>3, <3>4
  <2> QED BY <2>9, <2>11 DEF Freed
<1> QED BY <1>30, <1>31, <1>32

LEMMA FreeInv ==
  ASSUME AllocatorInv, NEW m \in memories, FreeMemory(m)
  PROVE  AllocatorInv'
<1>1. PICK p : p = pool
  OBVIOUS
<1>2. PICK L : L = memories
  OBVIOUS
<1>3. PoolInv(p, L) /\ m \in L
  BY <1>1, <1>2 DEF AllocatorInv
<1>4. PICK q : q = pool'
  OBVIOUS
<1>5. memories' = Without(L, m)
  BY <1>2 DEF FreeMemory, Without
<1>6. PICK q0 : q0 = [p EXCEPT !.used[HeapOf[m.type]] = @ - m.length]
  OBVIOUS
<1>7. q = IF m.chunk # NoChunk
          THEN freeChunkMemory(q0, m.type, m.chunk, Slice(m.offset, m.length))
          ELSE [q0 EXCEPT !.allocated[HeapOf[m.type]] = @ - m.length]
  BY <1>1, <1>4, <1>6 DEF FreeMemory
<1>8. Freed(p, L, q, m)
  <2>1. CASE m.chunk # NoChunk
    <3>1. q = freeChunkMemory(q0, m.type, m.chunk, Slice(m.offset, m.length))
      BY <1>7, <2>1
    <3> QED BY <1>3, <1>6, <2>1, <3>1, FreeChunkInv
  <2>2. CASE m.chunk = NoChunk
    <3>1. p \in PoolType /\ m \in MemoryType
      BY <1>3 DEF PoolInv
    <3>2. PICK h \in Heaps : h = HeapOf[m.type]
      BY <3>1, AllocatorAssumption DEF MemoryType
    <3>3. PICK n \in Nat : n = m.length
      BY <3>1 DEF MemoryType
    <3>4. PICK f \in [Heaps -> Nat] : f = p.used
      BY <3>1 DEF PoolType
    <3>5. PICK g \in [Heaps -> Nat] : g = p.allocated
      BY <3>1 DEF PoolType
    <3>6. q = [q0 EXCEPT !.allocated[h] = @ - n]
      BY <1>7, <2>2, <3>2, <3>3
    <3>7. /\ q.chunks = p.chunks /\ IsPool(q)
          /\ q.used = [f EXCEPT ![h] = @ - n] /\ q.allocated = [g EXCEPT ![h] = @ - n]
      BY <1>6, <3>1, <3>2, <3>3, <3>4, <3>5, <3>6 DEF PoolType, IsPool
    <3>8. PICK ff : ff = [f EXCEPT ![h] = @ - n]
      OBVIOUS
    <3>9. PICK gg : gg = [g EXCEPT ![h] = @ - n]
      OBVIOUS
    <3>10. Less(f, ff, h, n) /\ Less(g, gg, h, n)
      BY <3>8, <3>9, LessIs
    <3>11. GivesBack(p, q, m)
      BY <2>2, <3>2, <3>3, <3>4, <3>5, <3>7, <3>8, <3>9, <3>10 DEF GivesBack
    <3>12. PoolInv(q, Without(L, m)) /\ NoNewSpare(p, q)
      BY <1>3, <3>11, GiveBackInv
    <3> QED BY <3>12, SpareKept DEF Freed
  <2> QED BY <2>1, <2>2
<1>9. PoolInv(q, Without(L, m)) /\ (SpareApart(p) => SpareApart(q))
  BY <1>8 DEF Freed
<1>10. ChunksAreAligned => SpareApart(q)
  BY <1>1, <1>9 DEF AllocatorInv
<1> QED BY <1>4, <1>5, <1>9, <1>10 DEF AllocatorInv, ChunksAreAligned

LEMMA InitAllocatorInv == AllocatorInit => AllocatorInv
<1> SUFFICES ASSUME AllocatorInit PROVE AllocatorInv
  OBVIOUS
<1>1. PICK p : p = pool
  OBVIOUS
<1>2. /\ p.chunks = [t \in Types |-> <<>>] /\ p.allocated = [h \in Heaps |-> 0]
      /\ p.used = [h \in Heaps |-> 0] /\ IsPool(p)
  BY <1>1 DEF AllocatorInit, IsPool
<1>3. p \in PoolType
  <2>1. p.chunks \in [Types -> Seq(ChunkType)]
    BY <1>2
  <2>2. p.allocated \in [Heaps -> Nat] /\ p.used \in [Heaps -> Nat]
    BY <1>2
  <2> QED BY <1>2, <2>1, <2>2 DEF PoolType, IsPool
<1>4. \A t \in Types : p.chunks[t] = <<>> /\ ChunkSet(p, t) = {}
  BY <1>2 DEF ChunkSet, ToSet
<1>5. ChunksApart(p)
  BY <1>4 DEF ChunksApart, Distinct
<1>6. MemoriesFound(p, {}) /\ ChunksCut(p, {})
  BY <1>4 DEF MemoriesFound, ChunksCut
<1>7. Counted(p, {})
  <2> SUFFICES ASSUME NEW h \in Heaps
               PROVE  /\ IsFiniteSet(UsedBytes({}, h)) /\ p.used[h] = Cardinality(UsedBytes({}, h))
                      /\ IsFiniteSet(AllocatedBytes(p, {}, h))
                      /\ p.allocated[h] = Cardinality(AllocatedBytes(p, {}, h))
    BY DEF Counted
  <2>1. UsedBytes({}, h) = {}
    BY DEF UsedBytes
  <2>2. AllocatedBytes(p, {}, h) = {}
    <3> SUFFICES ASSUME NEW z \in AllocatedBytes(p, {}, h) PROVE FALSE
      OBVIOUS
    <3> QED BY <1>4, AllocatedIs
  <2>3. IsFiniteSet({}) /\ Cardinality({}) = 0
    BY FS_EmptySet
  <2> QED BY <1>2, <2>1, <2>2, <2>3
<1>8. IsFiniteSet(Handles(p, {}))
  <2>1. Handles(p, {}) = {}
    BY <1>4 DEF Handles
  <2> QED BY <2>1, FS_EmptySet
<1>9. SpareApart(p)
  BY <1>4 DEF SpareApart, ChunkSet
<1>10. PoolInv(p, {})
  BY <1>3, <1>5, <1>6, <1>7, <1>8 DEF PoolInv
<1> QED BY <1>1, <1>9, <1>10 DEF AllocatorInv, AllocatorInit

LEMMA NextAllocatorInv == AllocatorInv /\ [AllocatorNext]_allocatorVars => AllocatorInv'
<1> SUFFICES ASSUME AllocatorInv, [AllocatorNext]_allocatorVars PROVE AllocatorInv'
  OBVIOUS
<1>1. ASSUME NEW req \in Requests, AllocMemory(req) PROVE AllocatorInv'
  BY <1>1, AllocInv
<1>2. ASSUME NEW m \in memories, FreeMemory(m) PROVE AllocatorInv'
  BY <1>2, FreeInv
<1>3. CASE UNCHANGED allocatorVars
  BY <1>3 DEF allocatorVars, AllocatorInv, ChunksAreAligned
<1> QED BY <1>1, <1>2, <1>3 DEF AllocatorNext

-----------------------------------------------------------------------------
(* In every reachable state of the allocator, whatever the heaps, the      *)
(* budgets, the sizes of chunks, the requests and what the driver grants,  *)
(* the pool and the memories held in it satisfy the invariant.             *)
THEOREM AllocatorInvariant == AllocatorSpec => []AllocatorInv
<1>1. QED
  BY InitAllocatorInv, NextAllocatorInv, PTL DEF AllocatorSpec

\* The pool and the memories keep their types.
THEOREM AllocatorTypes == AllocatorSpec => []AllocatorTypeOK
<1>1. AllocatorInv => AllocatorTypeOK
  <2> SUFFICES ASSUME AllocatorInv PROVE AllocatorTypeOK
    OBVIOUS
  <2>1. pool \in PoolType /\ memories \subseteq MemoryType
    BY DEF AllocatorInv, PoolInv
  <2>2. pool.allocated \in [Heaps -> Nat] /\ pool.used \in [Heaps -> Nat]
    BY <2>1 DEF PoolType
  <2>3. ASSUME NEW t \in Types, NEW i \in DOMAIN pool.chunks[t], NEW c, c = pool.chunks[t][i]
        PROVE  /\ c.size \in Nat \ {0} /\ c.flags \subseteq Flags /\ c.hints \subseteq Hints
               /\ ToSet(c.freeList) \subseteq SliceType
    <3>1. PICK chunks \in Seq(ChunkType) : chunks = pool.chunks[t]
      BY <2>1, ChunksType
    <3>2. c \in ChunkType
      BY <2>3, <3>1
    <3>3. PICK list \in Seq(SliceType) : list = c.freeList
      BY <3>2 DEF ChunkType
    <3>4. ToSet(list) \subseteq SliceType
      BY InSet
    <3> QED BY <3>2, <3>3, <3>4 DEF ChunkType
  <2>4. \A m \in memories : m.type \in Types /\ m.length \in Nat \ {0}
    BY <2>1 DEF MemoryType
  <2> QED BY <2>2, <2>3, <2>4 DEF AllocatorTypeOK
<1>2. QED
  BY <1>1, AllocatorInvariant, PTL

(* The chunk a memory points to stays in the list of its type until the    *)
(* memory is freed, whatever is swept under memory pressure in between.    *)
THEOREM MemoryKeepsItsChunk == AllocatorSpec => []NoDanglingChunk
<1>1. AllocatorInv => NoDanglingChunk
  <2> SUFFICES ASSUME AllocatorInv, NEW m \in memories, m.chunk # NoChunk
               PROVE  Cardinality({c \in ChunksOf(m.type) : c.id = m.chunk}) = 1
    BY DEF NoDanglingChunk
  <2>1. /\ memories \subseteq MemoryType /\ ChunksApart(pool) /\ MemoriesFound(pool, memories)
    BY DEF AllocatorInv, PoolInv
  <2>2. m.type \in Types
    BY <2>1 DEF MemoryType
  <2>3. PICK c \in ChunkSet(pool, m.type) : c.id = m.chunk
    BY <2>1 DEF MemoriesFound
  <2>4. {e \in ChunksOf(m.type) : e.id = m.chunk} = {c}
    BY <2>1, <2>2, <2>3 DEF ChunksApart, ChunksOf, ChunkSet
  <2> QED BY <2>4, FS_Singleton
<1>2. QED
  BY <1>1, AllocatorInvariant, PTL

(* In every chunk of every type the free slices and those held outside     *)
(* share no byte and leave none out.                                       *)
THEOREM AllocatorChunksPartitioned == AllocatorSpec => []ChunksPartitioned
<1>1. AllocatorInv => ChunksPartitioned
  <2> SUFFICES ASSUME AllocatorInv, NEW t \in Types, NEW c \in ChunksOf(t), NEW F, F = ToSet(c.freeList),
                      NEW S, S = LiveIn(t, c)
               PROVE  /\ F \cap S = {}
                      /\ \A s, u \in F \cup S : s # u => Disjoint(s, u)
                      /\ \A b \in 0 .. c.size - 1 : \E s \in F \cup S : s.offset <= b /\ b < End(s)
    BY DEF ChunksPartitioned
  <2>1. ChunkCut(c, SlicesIn(memories, t, c.id))
    BY DEF AllocatorInv, PoolInv, ChunksCut, ChunksOf, ChunkSet
  <2>2. Partition(F, S, c.size)
    BY <2>1 DEF ChunkCut, LiveIn
  <2> QED BY <2>2 DEF Partition, Separate, Covering
<1>2. QED
  BY <1>1, AllocatorInvariant, PTL

(* The statistics of every heap are the bytes that are really allocated    *)
(* and really in use: no path subtracts what another did not add.          *)
THEOREM AllocatorStatisticsExact == AllocatorSpec => []StatisticsExact
<1>1. AllocatorInv => StatisticsExact
  BY DEF AllocatorInv, PoolInv, Counted, StatisticsExact
<1>2. QED
  BY <1>1, AllocatorInvariant, PTL

(* No two empty chunks of a type are interchangeable, where the sizes of   *)
(* chunks suit the alignments that are asked for.                          *)
THEOREM OneSpareChunkOfAKind == ChunksAreAligned => (AllocatorSpec => []OneSpareChunk)
<1> SUFFICES ASSUME ChunksAreAligned PROVE AllocatorSpec => []OneSpareChunk
  OBVIOUS
<1>1. AllocatorInv => OneSpareChunk
  BY DEF AllocatorInv, OneSpareChunk
<1>2. QED
  BY <1>1, AllocatorInvariant, PTL
=============================================================================
