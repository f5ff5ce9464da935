------------------------ MODULE VltMemoryChunkProofs ------------------------
(***************************************************************************)
(* Proofs about VltMemoryChunk, for every chunk size and every set of      *)
(* request sizes and alignments.                                           *)
(***************************************************************************)
EXTENDS MCVltMemoryChunk, VltSliceList, SequenceTheorems, NaturalsInduction,
        WellFoundedInduction, TLAPS

(* util::align never moves an offset down. *)
LEMMA AlignRoundsUp ==
  ASSUME NEW x \in Nat, NEW a \in Nat \ {0}
  PROVE  /\ Align(x, a) \in Nat
         /\ x <= Align(x, a)
<1>1. x % a \in 0 .. a - 1
  OBVIOUS
<1>2. (a - (x % a)) % a \in 0 .. a - 1
  BY <1>1
<1>3. QED
  BY <1>1, <1>2 DEF Align

-----------------------------------------------------------------------------
(* Two slices that both hold some byte are not disjoint. *)
LEMMA Meet ==
  ASSUME NEW s \in SliceType, NEW t \in SliceType, NEW b \in Int,
         s.offset <= b, b < End(s), t.offset <= b, b < End(t)
  PROVE  ~Disjoint(s, t)
BY DEF SliceType, Disjoint, End

(* An allocation and the remainders around it cut the chosen slice into    *)
(* pieces: they stay inside it, they are disjoint and they cover it.       *)
LEMMA Pieces ==
  ASSUME NEW s \in SliceType, NEW size \in Nat \ {0}, NEW align \in Nat \ {0},
         Fits(s, size, align),
         NEW a, a = Allocated(s, size, align),
         NEW R, R = Remainders(s, AllocStart(s, align), AllocEnd(s, size, align))
  PROVE  /\ a \in SliceType
         /\ R \subseteq SliceType
         /\ \A p \in R \cup {a} : s.offset <= p.offset /\ End(p) <= End(s)
         /\ \A p \in R : Disjoint(p, a)
         /\ \A p, q \in R : p # q => Disjoint(p, q)
         /\ \A p, q \in R : End(p) # q.offset
         /\ \A b \in s.offset .. End(s) - 1 :
              \E p \in R \cup {a} : p.offset <= b /\ b < End(p)
<1> DEFINE from == AllocStart(s, align)
           to == AllocEnd(s, size, align)
           left == Slice(s.offset, from - s.offset)
           right == Slice(to, End(s) - to)
<1>1. /\ s.offset \in Nat
      /\ s.length \in Nat \ {0}
      /\ End(s) = s.offset + s.length
  BY DEF SliceType, End
<1>2. from \in Nat /\ s.offset <= from
  BY <1>1, AlignRoundsUp DEF AllocStart
<1>3. to \in Nat /\ from + size <= to
  BY <1>2, AlignRoundsUp DEF AllocEnd
<1>4. to <= End(s)
  BY DEF Fits
<1>5. /\ a = [offset |-> from, length |-> to - from]
      /\ left = [offset |-> s.offset, length |-> from - s.offset]
      /\ right = [offset |-> to, length |-> End(s) - to]
  BY DEF Allocated, Slice
<1>6. R = {r \in {left, right} : r.length # 0}
  BY DEF Remainders
<1> HIDE DEF from, to, left, right
<1>7. a \in SliceType
  BY <1>1, <1>2, <1>3, <1>5 DEF SliceType
<1>8. R \subseteq SliceType
  BY <1>1, <1>2, <1>3, <1>4, <1>5, <1>6 DEF SliceType
<1>9. \A p \in R \cup {a} : s.offset <= p.offset /\ End(p) <= End(s)
  BY <1>1, <1>2, <1>3, <1>4, <1>5, <1>6 DEF End
<1>10. \A p \in R : Disjoint(p, a)
  BY <1>1, <1>2, <1>3, <1>4, <1>5, <1>6 DEF Disjoint, End
<1>11. \A p, q \in R : p # q => Disjoint(p, q)
  BY <1>1, <1>2, <1>3, <1>4, <1>5, <1>6 DEF Disjoint, End
<1>12. \A p, q \in R : End(p) # q.offset
  BY <1>1, <1>2, <1>3, <1>4, <1>5, <1>6 DEF End
<1>13. ASSUME NEW b \in s.offset .. End(s) - 1
       PROVE  \E p \in R \cup {a} : p.offset <= b /\ b < End(p)
  <2>1. CASE b < from
    <3>1. left \in R
      BY <2>1, <1>1, <1>2, <1>5, <1>6
    <3>2. QED
      BY <3>1, <2>1, <1>1, <1>2, <1>5 DEF End
  <2>2. CASE from <= b /\ b < to
    BY <2>2, <1>1, <1>2, <1>3, <1>5 DEF End
  <2>3. CASE to <= b
    <3>1. right \in R
      BY <2>3, <1>1, <1>3, <1>4, <1>5, <1>6
    <3>2. QED
      BY <3>1, <2>3, <1>1, <1>3, <1>4, <1>5 DEF End
  <2>4. QED
    BY <2>1, <2>2, <2>3, <1>1, <1>2, <1>3
<1>14. QED
  BY <1>7, <1>8, <1>9, <1>10, <1>11, <1>12, <1>13

LEMMA NotSelfDisjoint ==
  ASSUME NEW s \in SliceType
  PROVE  ~Disjoint(s, s)
BY DEF SliceType, Disjoint, End

-----------------------------------------------------------------------------
(* The inductive invariant, of any free list F, live slices L and size n:  *)
(* together they are disjoint, inside and everywhere, and the free ones do *)
(* not touch.                                                              *)
Separate(S) == \A s, t \in S : s # t => Disjoint(s, t)
Inside(S, n) == \A s \in S : End(s) <= n
Covering(S, n) == \A b \in 0 .. n - 1 : \E s \in S : s.offset <= b /\ b < End(s)
Apart(F) == \A s, t \in F : End(s) # t.offset

Partition(F, L, n) ==
  /\ F \subseteq SliceType /\ L \subseteq SliceType
  /\ F \cap L = {}
  /\ Separate(F \cup L)
  /\ Inside(F \cup L, n)
  /\ Covering(F \cup L, n)
  /\ Apart(F)

IInv == Partition(freeList, live, MemSize)

(* A chunk nothing was taken from.                                         *)
LEMMA NewPartition ==
  ASSUME NEW n \in Nat \ {0}
  PROVE  Partition({Slice(0, n)}, {}, n)
<1>1. PICK s : s = Slice(0, n)
  OBVIOUS
<1>2. s \in SliceType /\ s.offset = 0 /\ End(s) = n
  BY <1>1 DEF SliceType, Slice, End
<1>3. Separate({s}) /\ Inside({s}, n) /\ Covering({s}, n)
  BY <1>2 DEF Separate, Inside, Covering
<1>4. Apart({s})
  BY <1>2 DEF Apart
<1>5. {s} \cup {} = {s}
  OBVIOUS
<1>6. Partition({s}, {}, n)
  BY <1>2, <1>3, <1>4, <1>5 DEF Partition
<1> QED BY <1>1, <1>6

(* Replacing a free slice by pieces of it keeps the invariant. *)
LEMMA AllocPartition ==
  ASSUME NEW F, NEW L, NEW n \in Nat, Partition(F, L, n),
         NEW size \in Nat \ {0}, NEW align \in Nat \ {0}, NEW s \in F, Fits(s, size, align),
         NEW FF, FF = Carve(F, s, size, align),
         NEW LL, LL = L \cup {Allocated(s, size, align)}
  PROVE  /\ Partition(FF, LL, n)
         /\ Allocated(s, size, align) \notin L
<1> DEFINE a == Allocated(s, size, align)
           R == Remainders(s, AllocStart(s, align), AllocEnd(s, size, align))
<1>2. s \in F /\ s \in SliceType
  BY DEF Partition
<1>4. /\ FF = (F \ {s}) \cup R
      /\ LL = L \cup {a}
  BY DEF Carve
<1>5. /\ a \in SliceType
      /\ R \subseteq SliceType
      /\ \A p \in R \cup {a} : s.offset <= p.offset /\ End(p) <= End(s)
      /\ \A p \in R : Disjoint(p, a)
      /\ \A p, q \in R : p # q => Disjoint(p, q)
      /\ \A p, q \in R : End(p) # q.offset
      /\ \A b \in s.offset .. End(s) - 1 :
           \E p \in R \cup {a} : p.offset <= b /\ b < End(p)
  BY <1>2, Pieces
<1> HIDE DEF a, R
<1>6. FF \subseteq SliceType /\ LL \subseteq SliceType
  BY <1>4, <1>5 DEF Partition
<1>7. \A u \in (F \cup L) \ {s} : u \in SliceType /\ Disjoint(u, s)
  BY <1>2 DEF Partition, Separate
<1>8. ASSUME NEW u \in (F \cup L) \ {s}, NEW p \in R \cup {a}
      PROVE  Disjoint(u, p) /\ Disjoint(p, u)
  <2>1. p \in SliceType /\ s.offset <= p.offset /\ End(p) <= End(s)
    BY <1>5
  <2>2. QED
    BY <1>2, <1>7, <2>1 DEF Disjoint, SliceType, End
<1>9. FF \cup LL = ((F \cup L) \ {s}) \cup R \cup {a}
  BY <1>2, <1>4 DEF Partition, Separate
<1>10. FF \cap LL = {} /\ Separate(FF \cup LL)
  <2>1. FF \cap LL = {}
    <3>1. a \notin F \ {s}
      BY <1>8, <1>5, NotSelfDisjoint
    <3>2. a \notin R
      BY <1>5, NotSelfDisjoint
    <3>3. ASSUME NEW p \in R PROVE p \notin L
      <4>1. s \notin L
        BY <1>2 DEF Partition, Separate
      <4>2. QED
        BY <4>1, <1>8, <1>5, NotSelfDisjoint
    <3>4. (F \ {s}) \cap L = {}
      BY DEF Partition, Separate
    <3>5. QED
      BY <3>1, <3>2, <3>3, <3>4, <1>4
  <2>2. ASSUME NEW u \in (FF \cup LL), NEW v \in (FF \cup LL), u # v
        PROVE  Disjoint(u, v)
    <3>1. CASE u \in (F \cup L) \ {s} /\ v \in (F \cup L) \ {s}
      BY <3>1, <2>2 DEF Partition, Separate
    <3>2. CASE u \in (F \cup L) \ {s} /\ v \in R \cup {a}
      BY <3>2, <1>8
    <3>3. CASE u \in R \cup {a} /\ v \in (F \cup L) \ {s}
      BY <3>3, <1>8
    <3>4. CASE u \in R \cup {a} /\ v \in R \cup {a}
      BY <3>4, <2>2, <1>5 DEF Disjoint
    <3>5. QED
      BY <3>1, <3>2, <3>3, <3>4, <1>9
  <2>3. QED
    BY <2>1, <2>2 DEF Separate
<1>11. Inside(FF \cup LL, n) /\ Covering(FF \cup LL, n)
  <2>1. \A u \in (FF \cup LL) : End(u) <= n
    <3>1. ASSUME NEW p \in R \cup {a} PROVE End(p) <= n
      <4>1. End(s) <= n
        BY <1>2 DEF Partition, Inside, Covering
      <4>2. p \in SliceType /\ End(p) <= End(s)
        BY <1>5
      <4>3. QED
        BY <4>1, <4>2, <1>2 DEF SliceType, End
    <3>2. QED
      BY <3>1, <1>9 DEF Partition, Inside, Covering
  <2>2. ASSUME NEW b \in 0 .. n - 1
        PROVE  \E u \in (FF \cup LL) : u.offset <= b /\ b < End(u)
    <3>1. PICK u \in (F \cup L) : u.offset <= b /\ b < End(u)
      BY DEF Partition, Inside, Covering
    <3>2. CASE u = s
      <4>1. b \in s.offset .. End(s) - 1
        BY <3>1, <3>2, <1>2 DEF SliceType, End
      <4>2. QED
        BY <4>1, <1>5, <1>9
    <3>3. CASE u # s
      BY <3>1, <3>3, <1>9
    <3>4. QED
      BY <3>2, <3>3
  <2>3. QED
    BY <2>1, <2>2 DEF Inside, Covering
<1>12. Apart(FF)
  <2>1. ASSUME NEW u \in FF, NEW v \in FF
        PROVE  End(u) # v.offset
    <3>1. CASE u \in F \ {s} /\ v \in F \ {s}
      BY <3>1 DEF Partition, Apart
    <3>2. CASE u \in F \ {s} /\ v \in R
      <4>1. /\ u \in SliceType /\ Disjoint(u, s)
            /\ End(u) # s.offset
        BY <3>2, <1>2, <1>7 DEF Partition, Apart
      <4>2. v \in SliceType /\ s.offset <= v.offset /\ End(v) <= End(s)
        BY <3>2, <1>5
      <4>3. QED
        BY <4>1, <4>2, <1>2 DEF SliceType, Disjoint, End
    <3>3. CASE u \in R /\ v \in F \ {s}
      <4>1. /\ v \in SliceType /\ Disjoint(v, s)
            /\ End(s) # v.offset
        BY <3>3, <1>2, <1>7 DEF Partition, Apart
      <4>2. u \in SliceType /\ s.offset <= u.offset /\ End(u) <= End(s)
        BY <3>3, <1>5
      <4>3. QED
        BY <4>1, <4>2, <1>2 DEF SliceType, Disjoint, End
    <3>4. CASE u \in R /\ v \in R
      BY <3>4, <1>5
    <3>5. QED
      BY <3>1, <3>2, <3>3, <3>4, <1>4
  <2>2. QED
    BY <2>1 DEF Apart
<1>13. a \notin L
  BY <1>5, <1>7, <1>8, <1>2, NotSelfDisjoint DEF Partition
<1>14. QED
  BY <1>6, <1>10, <1>11, <1>12, <1>13 DEF Partition, a

-----------------------------------------------------------------------------
(* The slice that free() builds around m: it holds m and the free slices   *)
(* it absorbs, and nothing else reaches into it or touches it.             *)
LEMMA MergedSlice ==
  ASSUME NEW F, NEW L, NEW n \in Nat, Partition(F, L, n), NEW m \in L,
         NEW g, g = Slice(MergedStart(F, m),
                          MergedEnd(F, m) - MergedStart(F, m)),
         NEW A, A = Before(F, m) \cup After(F, m)
  PROVE  /\ g \in SliceType
         /\ End(g) <= n
         /\ \A u \in A \cup {m} : g.offset <= u.offset /\ End(u) <= End(g)
         /\ \A u \in (F \cup L) \ (A \cup {m}) : Disjoint(u, g) /\ Disjoint(g, u)
         /\ \A u \in F \ A : End(u) # g.offset /\ End(g) # u.offset
<1> DEFINE lo == MergedStart(F, m)
           hi == MergedEnd(F, m)
<1>1. m \in SliceType /\ End(m) <= n
  BY DEF Partition, Inside, Covering
<1>2. \A u \in (F \cup L) : u \in SliceType
  BY DEF Partition
<1>3. \A u \in F : u \in (F \cup L) /\ u # m
  BY DEF Partition, Separate
<1>4. m \in (F \cup L)
  OBVIOUS
<1>5. \A u, v \in (F \cup L) : u # v => Disjoint(u, v)
  BY DEF Partition, Separate
<1>6. \A u, v \in F : End(u) # v.offset
  BY DEF Partition, Apart
<1>7. \/ Before(F, m) = {} /\ lo = m.offset
      \/ \E l \in F : End(l) = m.offset /\ lo = l.offset
  BY DEF MergedStart, Before
<1>8. \/ After(F, m) = {} /\ hi = End(m)
      \/ \E r \in F : r.offset = End(m) /\ hi = End(r)
  BY DEF MergedEnd, After
<1>9. lo \in Nat /\ lo <= m.offset
  BY <1>1, <1>2, <1>3, <1>7 DEF SliceType, End
<1>10. hi \in Nat /\ End(m) <= hi /\ hi <= n
  <2>1. \A u \in (F \cup L) : End(u) <= n
    BY DEF Partition, Inside, Covering
  <2>2. QED
    BY <2>1, <1>1, <1>2, <1>3, <1>8 DEF SliceType, End
<1>11. g = [offset |-> lo, length |-> hi - lo]
  BY DEF Slice
<1> HIDE DEF lo, hi
<1>12. g \in SliceType /\ g.offset = lo /\ End(g) = hi
  BY <1>1, <1>9, <1>10, <1>11 DEF SliceType, End
<1>13. ASSUME NEW u \in (F \cup L), u # m, End(u) = m.offset
       PROVE  /\ \A v \in (F \cup L) : End(v) = m.offset => v = u
  BY <1>13, <1>1, <1>2, <1>5 DEF Disjoint, SliceType, End
<1>14. ASSUME NEW u \in (F \cup L), u # m, u.offset = End(m)
       PROVE  \A v \in (F \cup L) : v.offset = End(m) => v = u
  BY <1>14, <1>1, <1>2, <1>5 DEF Disjoint, SliceType, End
<1>15. ASSUME NEW u \in A \cup {m}
       PROVE  lo <= u.offset /\ End(u) <= hi
  <2>1. CASE u = m
    BY <2>1, <1>9, <1>10
  <2>2. CASE u \in Before(F, m)
    <3>1. u \in F /\ End(u) = m.offset /\ u \in (F \cup L) /\ u # m
      BY <2>2, <1>3 DEF Before
    <3>2. lo = u.offset
      BY <3>1, <2>2, <1>7, <1>3, <1>13
    <3>3. QED
      BY <3>1, <3>2, <1>1, <1>2, <1>10 DEF SliceType, End
  <2>3. CASE u \in After(F, m)
    <3>1. u \in F /\ u.offset = End(m) /\ u \in (F \cup L) /\ u # m
      BY <2>3, <1>3 DEF After
    <3>2. hi = End(u)
      BY <3>1, <2>3, <1>8, <1>3, <1>14
    <3>3. QED
      BY <3>1, <3>2, <1>1, <1>2, <1>9 DEF SliceType, End
  <2>4. QED
    BY <2>1, <2>2, <2>3
<1>16. ASSUME NEW u \in (F \cup L) \ (A \cup {m})
       PROVE  End(u) <= lo \/ hi <= u.offset
  <2>1. u \in SliceType /\ Disjoint(u, m)
    BY <1>2, <1>4, <1>5
  <2>2. CASE End(u) <= m.offset
    <3>1. CASE Before(F, m) = {} /\ lo = m.offset
      BY <2>2, <3>1
    <3>2. CASE \E l \in F : End(l) = m.offset /\ lo = l.offset
      <4>1. PICK l \in F : End(l) = m.offset /\ lo = l.offset
        BY <3>2
      <4>2. l \in A /\ l \in (F \cup L) /\ l \in SliceType /\ Disjoint(u, l)
        BY <4>1, <1>2, <1>3, <1>5 DEF Before
      <4>3. QED
        BY <4>1, <4>2, <2>1, <2>2 DEF Disjoint, SliceType, End
    <3>3. QED
      BY <3>1, <3>2, <1>7
  <2>3. CASE End(m) <= u.offset
    <3>1. CASE After(F, m) = {} /\ hi = End(m)
      BY <2>3, <3>1
    <3>2. CASE \E r \in F : r.offset = End(m) /\ hi = End(r)
      <4>1. PICK r \in F : r.offset = End(m) /\ hi = End(r)
        BY <3>2
      <4>2. r \in A /\ r \in (F \cup L) /\ r \in SliceType /\ Disjoint(u, r)
        BY <4>1, <1>2, <1>3, <1>5 DEF After
      <4>3. QED
        BY <4>1, <4>2, <2>1, <2>3 DEF Disjoint, SliceType, End
    <3>3. QED
      BY <3>1, <3>2, <1>8
  <2>4. QED
    BY <2>1, <2>2, <2>3 DEF Disjoint
<1>17. ASSUME NEW u \in F \ A
       PROVE  End(u) # lo /\ hi # u.offset
  <2>1. End(u) # m.offset /\ u.offset # End(m)
    BY DEF Before, After
  <2>2. QED
    BY <2>1, <1>6, <1>7, <1>8
<1>18. QED
  BY <1>10, <1>12, <1>15, <1>16, <1>17 DEF Disjoint

(* Returning a slice to the free list keeps the invariant. *)
LEMMA FreePartition ==
  ASSUME NEW F, NEW L, NEW n \in Nat, Partition(F, L, n), NEW m \in L
  PROVE  Partition(Coalesce(F, m), L \ {m}, n)
<1> DEFINE LL == L \ {m}
           FF == Coalesce(F, m)
<1>0. PICK A : A = Before(F, m) \cup After(F, m)
  OBVIOUS
<1>10. PICK g : g = Slice(MergedStart(F, m), MergedEnd(F, m) - MergedStart(F, m))
  OBVIOUS
<1>1. FF = (F \ A) \cup {g}
  BY <1>0, <1>10 DEF Coalesce
<1>2. /\ g \in SliceType
      /\ End(g) <= n
      /\ \A u \in A \cup {m} : g.offset <= u.offset /\ End(u) <= End(g)
      /\ \A u \in (F \cup L) \ (A \cup {m}) : Disjoint(u, g) /\ Disjoint(g, u)
      /\ \A u \in F \ A : End(u) # g.offset /\ End(g) # u.offset
  BY <1>0, <1>10, MergedSlice
<1>3. A \subseteq F
  BY <1>0 DEF Before, After
<1> HIDE DEF FF
<1>4. FF \subseteq SliceType /\ LL \subseteq SliceType
  BY <1>1, <1>2 DEF Partition
<1>5. /\ FF \cup LL = ((F \cup L) \ (A \cup {m})) \cup {g}
      /\ FF \cup LL = ((F \cup L) \ (A \cup {m})) \cup {g}
      /\ F \cap L = {}
  BY <1>1, <1>3 DEF Partition, Separate
<1>6. FF \cap LL = {} /\ Separate(FF \cup LL)
  <2>1. g \notin L \ {m}
    <3>1. SUFFICES ASSUME g \in L \ {m} PROVE FALSE
      OBVIOUS
    <3>2. g \in (F \cup L) \ (A \cup {m})
      BY <3>1, <1>3, <1>5
    <3>3. QED
      BY <3>2, <1>2, NotSelfDisjoint
  <2>2. FF \cap LL = {}
    BY <2>1, <1>1, <1>5
  <2>3. ASSUME NEW u \in (FF \cup LL), NEW v \in (FF \cup LL), u # v
        PROVE  Disjoint(u, v)
    BY <2>3, <1>2, <1>5 DEF Partition, Separate
  <2>4. QED
    BY <2>2, <2>3 DEF Partition, Separate
<1>7. Inside(FF \cup LL, n) /\ Covering(FF \cup LL, n)
  <2>1. \A u \in (FF \cup LL) : End(u) <= n
    BY <1>2, <1>5 DEF Partition, Inside, Covering
  <2>2. ASSUME NEW b \in 0 .. n - 1
        PROVE  \E u \in (FF \cup LL) : u.offset <= b /\ b < End(u)
    <3>1. PICK u \in (F \cup L) : u.offset <= b /\ b < End(u)
      BY DEF Partition, Inside, Covering
    <3>2. CASE u \in A \cup {m}
      <4>1. g.offset <= u.offset /\ End(u) <= End(g) /\ u \in SliceType
        BY <3>2, <1>2 DEF Partition
      <4>2. g.offset <= b /\ b < End(g)
        BY <4>1, <3>1, <1>2 DEF SliceType, End
      <4>3. QED
        BY <4>2, <1>5
    <3>3. CASE u \notin A \cup {m}
      BY <3>1, <3>3, <1>5
    <3>4. QED
      BY <3>2, <3>3
  <2>3. QED
    BY <2>1, <2>2 DEF Inside, Covering
<1>8. Apart(FF)
  <2>1. ASSUME NEW u \in FF, NEW v \in FF
        PROVE  End(u) # v.offset
    <3>1. CASE u = g /\ v = g
      <4>1. g \in SliceType
        BY <1>2
      <4>2. End(g) # g.offset
        BY <4>1 DEF SliceType, End
      <4> QED BY <3>1, <4>2
    <3>2. CASE u \in F \ A /\ v \in F \ A
      BY <3>2 DEF Partition, Apart
    <3>3. CASE (u = g /\ v \in F \ A) \/ (u \in F \ A /\ v = g)
      BY <3>3, <1>2
    <3>4. QED
      BY <3>1, <3>2, <3>3, <1>1
  <2>2. QED
    BY <2>1 DEF Apart
<1>9. QED
  BY <1>4, <1>6, <1>7, <1>8 DEF Partition, FF

(* The free list is a single slice of the whole size exactly when nothing  *)
(* is live.                                                                *)
Alone(F, n) == \E s \in F : F = {s} /\ s.length = n

LEMMA AloneIsUnused ==
  ASSUME NEW F, NEW L, NEW n \in Nat \ {0}, Partition(F, L, n)
  PROVE  Alone(F, n) <=> L = {}
<1>1. ASSUME Alone(F, n) PROVE L = {}
  <2>1. PICK s \in F : F = {s} /\ s.length = n
    BY <1>1 DEF Alone
  <2>2. s \in SliceType /\ s.offset = 0 /\ End(s) = n
    BY <2>1, <1>1 DEF Partition, Inside, Covering, SliceType, End
  <2>3. SUFFICES ASSUME NEW m \in L PROVE FALSE
    OBVIOUS
  <2>4. m \in SliceType /\ End(m) <= n /\ Disjoint(m, s)
    BY <2>1, <1>1 DEF Partition, Inside, Covering, Separate
  <2>5. QED
    BY <2>2, <2>4 DEF SliceType, Disjoint, End
<1>2. ASSUME L = {} PROVE Alone(F, n)
  <2>1. F \cup L = F
    BY <1>2
  <2>2. PICK s \in F : s.offset <= 0 /\ 0 < End(s)
    BY <2>1, <1>2 DEF Partition, Inside, Covering
  <2>3. \A u \in F : u \in SliceType /\ End(u) <= n
    BY <2>1, <1>2 DEF Partition, Inside, Covering
  <2>4. s.offset = 0
    BY <2>2, <2>3 DEF SliceType
  <2>5. End(s) = n
    <3>1. SUFFICES ASSUME End(s) # n PROVE FALSE
      OBVIOUS
    <3>2. End(s) \in 0 .. n - 1
      BY <3>1, <2>3 DEF SliceType, End
    <3>3. PICK t \in F : t.offset <= End(s) /\ End(s) < End(t)
      BY <3>2, <2>1, <1>2 DEF Partition, Inside, Covering
    <3>4. s # t /\ Disjoint(s, t) /\ End(s) # t.offset
      BY <3>3, <2>1, <2>3, <1>2 DEF Partition, Separate, Apart, SliceType, End
    <3>5. QED
      BY <3>3, <3>4, <2>3, <2>4 DEF Disjoint, SliceType, End
  <2>6. ASSUME NEW t \in F PROVE t = s
    BY <2>1, <2>3, <2>4, <2>5, <1>2 DEF Partition, Separate, Disjoint, SliceType, End
  <2>7. s.length = n
    BY <2>3, <2>4, <2>5 DEF SliceType, End
  <2>8. QED
    BY <2>6, <2>7 DEF Alone
<1> QED BY <1>1, <1>2

-----------------------------------------------------------------------------
(* The specification keeps the partition.                                  *)
LEMMA IInvIs == IInv <=> TypeOK /\ NoOverlap /\ NoLeak /\ Coalesced
BY DEF IInv, Partition, TypeOK, NoOverlap, NoLeak, Coalesced, Slices, Separate, Inside,
       Covering, Apart

LEMMA InitIInv == Init => IInv
BY NewPartition, ChunkAssumption DEF Init, IInv

LEMMA AllocIInv ==
  ASSUME IInv, NEW size \in Sizes, NEW align \in Aligns, Alloc(size, align)
  PROVE  IInv'
<1>1. PICK s \in BestSlices(freeList, size) :
        /\ Fits(s, size, align)
        /\ freeList' = Carve(freeList, s, size, align)
        /\ live' = live \cup {Allocated(s, size, align)}
  BY DEF Alloc
<1>2. s \in freeList
  BY DEF BestSlices
<1>3. size \in Nat \ {0} /\ align \in Nat \ {0} /\ MemSize \in Nat
  BY ChunkAssumption
<1> QED BY <1>1, <1>2, <1>3, AllocPartition DEF IInv

LEMMA FreeIInv ==
  ASSUME IInv, NEW m, Free(m)
  PROVE  IInv'
BY FreePartition, ChunkAssumption DEF IInv, Free

LEMMA NextIInv == IInv /\ [Next]_vars => IInv'
<1> SUFFICES ASSUME IInv, [Next]_vars PROVE IInv'
  OBVIOUS
<1>1. CASE \E size \in Sizes, align \in Aligns : Alloc(size, align)
  BY <1>1, AllocIInv
<1>2. CASE \E m \in live : Free(m)
  BY <1>2, FreeIInv
<1>3. CASE UNCHANGED vars
  BY <1>3 DEF vars, IInv
<1>4. QED
  BY <1>1, <1>2, <1>3 DEF Next

(* The free list and the live allocations partition the chunk, and the     *)
(* free list is coalesced, in every reachable state.                       *)
THEOREM ChunkInvariant == Spec => []IInv
<1>1. QED
  BY InitIInv, NextIInv, PTL DEF Spec

(* Nothing is handed out twice. *)
THEOREM ChunkNoOverlap == Spec => []NoOverlap
<1>1. IInv => NoOverlap
  BY IInvIs
<1>2. QED
  BY <1>1, ChunkInvariant, PTL

(* Nothing is lost. *)
THEOREM ChunkNoLeak == Spec => []NoLeak
<1>1. IInv => NoLeak
  BY IInvIs
<1>2. QED
  BY <1>1, ChunkInvariant, PTL

(* isEmpty() tells the allocator exactly when no allocation is left. *)
THEOREM ChunkEmptyIsUnused == Spec => []EmptyIsUnused
<1>1. IInv => EmptyIsUnused
  BY AloneIsUnused, ChunkAssumption DEF IInv, EmptyIsUnused, IsEmpty, Alone
<1>2. QED
  BY <1>1, ChunkInvariant, PTL

\* Freeing merges a slice with both its neighbours, so free slices never touch
\* (VltMemoryChunk::free).
THEOREM ChunkCoalesced == Spec => []Coalesced
<1>1. IInv => Coalesced
  BY IInvIs
<1>2. QED
  BY <1>1, ChunkInvariant, PTL

-----------------------------------------------------------------------------
(* The vector.                                                             *)
(* A set of naturals has a least element, which gives induction.           *)
LEMMA LeastNat ==
  ASSUME NEW T \in SUBSET Nat, T # {}
  PROVE  \E x \in T : \A y \in T : x <= y
<1>1. PICK x \in T : \A y \in T : ~(<<y, x>> \in OpToRel(<, Nat))
  BY NatLessThanWellFounded, WFMin
<1>2. ASSUME NEW y \in T PROVE x <= y
  <2>1. ~(y < x)
    BY <1>1 DEF OpToRel
  <2> QED BY <2>1
<1> QED BY <1>2

Begun(m) == [freed |-> m, kept |-> <<>>]

(* The recursion that Pass is defined by has a solution.                   *)
LEMMA PassIs ==
  ASSUME NEW S, NEW list \in Seq(S), NEW m
  PROVE  /\ Pass(list, m)[0] = Begun(m)
         /\ \A n \in 1 .. Len(list) : Pass(list, m)[n] = AbsorbOne(Pass(list, m)[n - 1], list[n])
<1> DEFINE P(k) == \E f : f = [n \in 0 .. k |-> IF n = 0 THEN Begun(m) ELSE AbsorbOne(f[n - 1], list[n])]
           Bad == {k \in 0 .. Len(list) : ~P(k)}
<1>1. Len(list) \in Nat
  OBVIOUS
<1>2. P(0)
  <2>1. [n \in 0 .. 0 |-> Begun(m)] = [n \in 0 .. 0 |-> IF n = 0 THEN Begun(m) ELSE AbsorbOne([i \in 0 .. 0 |-> Begun(m)][n - 1], list[n])]
    OBVIOUS
  <2> QED BY <2>1
<1>3. ASSUME NEW k \in Nat, P(k) PROVE P(k + 1)
  <2>1. PICK f : f = [n \in 0 .. k |-> IF n = 0 THEN Begun(m) ELSE AbsorbOne(f[n - 1], list[n])]
    BY <1>3
  <2> DEFINE g == [n \in 0 .. k + 1 |-> IF n = k + 1 THEN AbsorbOne(f[k], list[k + 1]) ELSE f[n]]
             h == [n \in 0 .. k + 1 |-> IF n = 0 THEN Begun(m) ELSE AbsorbOne(g[n - 1], list[n])]
  <2>2. ASSUME NEW n \in 0 .. k + 1 PROVE g[n] = h[n]
    <3>1. CASE n = k + 1
      <4>1. g[n - 1] = f[k] /\ n # 0
        BY <3>1
      <4> QED BY <3>1, <4>1
    <3>2. CASE n \in 1 .. k
      <4>1. g[n - 1] = f[n - 1] /\ g[n] = f[n] /\ n # 0
        BY <3>2
      <4>2. f[n] = AbsorbOne(f[n - 1], list[n])
        BY <2>1, <3>2
      <4> QED BY <3>2, <4>1, <4>2
    <3>3. CASE n = 0
      BY <2>1, <3>3
    <3> QED BY <3>1, <3>2, <3>3
  <2>3. g = h
    BY <2>2
  <2> QED BY <2>3
<1>4. Bad = {}
  <2>1. SUFFICES ASSUME Bad # {} PROVE FALSE
    OBVIOUS
  <2>2. Bad \in SUBSET Nat
    OBVIOUS
  <2>3. PICK k \in Bad : \A j \in Bad : k <= j
    <3> HIDE DEF Bad
    <3> QED BY <2>1, <2>2, LeastNat
  <2> HIDE DEF P
  <2>4. k # 0 /\ k - 1 \in Nat /\ k - 1 \notin Bad /\ k \in 0 .. Len(list)
    BY <1>2, <2>3
  <2>5. P(k - 1)
    BY <2>4
  <2>6. P((k - 1) + 1)
    BY <1>3, <2>4, <2>5
  <2>7. (k - 1) + 1 = k
    BY <2>4
  <2> QED BY <2>3, <2>6, <2>7
<1>5. P(Len(list))
  <2> HIDE DEF P
  <2> QED BY <1>1, <1>4
<1> HIDE DEF P, Bad
<1> DEFINE Is(f) == f = [n \in 0 .. Len(list) |-> IF n = 0 THEN Begun(m) ELSE AbsorbOne(f[n - 1], list[n])]
<1>6. \E f : Is(f)
  BY <1>5 DEF P
<1>7. Pass(list, m) = CHOOSE f : Is(f)
  BY DEF Pass, Begun
<1>8. Is(Pass(list, m))
  <2> HIDE DEF Is
  <2> QED BY <1>6, <1>7
<1>9. PICK f : f = Pass(list, m)
  OBVIOUS
<1>10. f = [n \in 0 .. Len(list) |-> IF n = 0 THEN Begun(m) ELSE AbsorbOne(f[n - 1], list[n])]
  BY <1>8, <1>9
<1>11. f[0] = Begun(m) /\ \A n \in 1 .. Len(list) : f[n] = AbsorbOne(f[n - 1], list[n])
  BY <1>10
<1> QED BY <1>9, <1>11
Distinct(list) == \A i, j \in 1 .. Len(list) : list[i] = list[j] => i = j

LEMMA InSet ==
  ASSUME NEW S, NEW list \in Seq(S)
  PROVE  /\ ToSet(list) = {list[i] : i \in 1 .. Len(list)}
         /\ ToSet(list) \subseteq S
         /\ \A i \in 1 .. Len(list) : list[i] \in S
BY DEF ToSet

(* A sequence of slices within n has one of the longest.                   *)
LEMMA LongestExists ==
  ASSUME NEW list \in Seq(SliceType), list # <<>>, NEW n \in Nat, Inside(ToSet(list), n)
  PROVE  \E i \in 1 .. Len(list) : \A j \in 1 .. Len(list) : list[j].length <= list[i].length
<1> DEFINE T == {n - list[i].length : i \in 1 .. Len(list)}
<1>1. \A i \in 1 .. Len(list) : list[i].length \in Nat /\ list[i].length <= n
  <2> TAKE i \in 1 .. Len(list)
  <2>1. list[i] \in ToSet(list) /\ list[i] \in SliceType
    BY InSet
  <2>2. End(list[i]) <= n
    BY <2>1 DEF Inside
  <2> QED BY <2>1, <2>2 DEF End, SliceType
<1>2. T \in SUBSET Nat
  BY <1>1
<1>3. Len(list) \in Nat /\ 1 \in 1 .. Len(list)
  OBVIOUS
<1>4. T # {}
  BY <1>3
<1>5. PICK x \in T : \A y \in T : x <= y
  <2> HIDE DEF T
  <2> QED BY <1>2, <1>4, LeastNat
<1>6. PICK i \in 1 .. Len(list) : x = n - list[i].length
  BY <1>5
<1>7. ASSUME NEW j \in 1 .. Len(list) PROVE list[j].length <= list[i].length
  <2>1. x <= n - list[j].length
    BY <1>5
  <2> QED BY <1>1, <1>6, <2>1
<1> QED BY <1>7

LEMMA FirstIs ==
  ASSUME NEW I, I \subseteq Nat, I # {}
  PROVE  (CHOOSE i \in I : \A j \in I : i <= j) \in I
BY LeastNat

(* What the scan stops at is one of the slices that alloc() may choose.    *)
LEMMA BestIsBest ==
  ASSUME NEW list \in Seq(SliceType), list # <<>>, NEW n \in Nat, Inside(ToSet(list), n),
         NEW size
  PROVE  /\ BestIndex(list, size) \in 1 .. Len(list)
         /\ list[BestIndex(list, size)] \in BestSlices(ToSet(list), size)
<1> DEFINE exact == {i \in DOMAIN list : list[i].length = size}
           longest == {i \in DOMAIN list : \A j \in DOMAIN list : list[j].length <= list[i].length}
           First(I) == CHOOSE i \in I : \A j \in I : i <= j
<1>1. DOMAIN list = 1 .. Len(list) /\ Len(list) \in Nat
  OBVIOUS
<1>2. BestIndex(list, size) = IF exact # {} THEN First(exact) ELSE First(longest)
  BY DEF BestIndex
<1>3. longest # {}
  BY <1>1, LongestExists
<1>4. \A I : I \subseteq Nat /\ I # {} => First(I) \in I
  BY FirstIs
<1>5. exact \subseteq Nat /\ longest \subseteq Nat
  BY <1>1
<1>6. CASE exact # {}
  <2>1. BestIndex(list, size) \in exact
    <3> HIDE DEF exact, longest, First
    <3> QED BY <1>2, <1>4, <1>5, <1>6
  <2>2. PICK i \in 1 .. Len(list) : i = BestIndex(list, size) /\ list[i].length = size
    BY <1>1, <2>1
  <2>3. list[i] \in ToSet(list)
    BY <2>2, InSet
  <2> QED BY <2>2, <2>3 DEF BestSlices
<1>7. CASE exact = {}
  <2>1. BestIndex(list, size) \in longest
    <3> HIDE DEF exact, longest, First
    <3> QED BY <1>2, <1>3, <1>4, <1>5, <1>7
  <2>2. PICK i \in 1 .. Len(list) :
          /\ i = BestIndex(list, size)
          /\ \A j \in 1 .. Len(list) : list[j].length <= list[i].length
    BY <1>1, <2>1
  <2>3. \A t \in ToSet(list) : t.length # size /\ t.length <= list[i].length
    BY <1>1, <1>7, <2>2, InSet
  <2>4. list[i] \in ToSet(list)
    BY <2>2, InSet
  <2> QED BY <2>2, <2>3, <2>4 DEF BestSlices
<1> QED BY <1>6, <1>7

LEMMA SeqSubset ==
  ASSUME NEW S, NEW T, S \subseteq T, NEW list \in Seq(S)
  PROVE  list \in Seq(T)
<1>1. list = [i \in 1 .. Len(list) |-> list[i]] /\ Len(list) \in Nat
  OBVIOUS
<1>2. \A i \in 1 .. Len(list) : list[i] \in T
  OBVIOUS
<1>3. [i \in 1 .. Len(list) |-> list[i]] \in Seq(T)
  BY <1>1, <1>2
<1> QED BY <1>1, <1>3

LEMMA ConcatAt ==
  ASSUME NEW S, NEW s \in Seq(S), NEW t \in Seq(S), NEW k \in 1 .. Len(s) + Len(t)
  PROVE  (s \o t)[k] = IF k <= Len(s) THEN s[k] ELSE t[k - Len(s)]
BY ConcatProperties

LEMMA ConcatDistinct ==
  ASSUME NEW S, NEW s \in Seq(S), NEW t \in Seq(S), Distinct(s), Distinct(t),
         \A x \in ToSet(t) : x \notin ToSet(s)
  PROVE  /\ s \o t \in Seq(S) /\ Distinct(s \o t)
         /\ ToSet(s \o t) = ToSet(s) \cup ToSet(t)
<1>1. /\ s \o t \in Seq(S) /\ Len(s \o t) = Len(s) + Len(t)
      /\ Len(s) \in Nat /\ Len(t) \in Nat
  BY ConcatProperties
<1>2. \A k \in 1 .. Len(s) : (s \o t)[k] = s[k]
  BY <1>1, ConcatAt
<1>3. \A k \in 1 .. Len(t) : (s \o t)[Len(s) + k] = t[k]
  <2> TAKE k \in 1 .. Len(t)
  <2>1. Len(s) + k \in 1 .. Len(s) + Len(t) /\ ~(Len(s) + k <= Len(s)) /\ (Len(s) + k) - Len(s) = k
    BY <1>1
  <2> QED BY <2>1, ConcatAt
<1>4. \A k \in 1 .. Len(s \o t) :
        \/ k \in 1 .. Len(s)
        \/ \E l \in 1 .. Len(t) : k = Len(s) + l
  <2> SUFFICES ASSUME NEW k \in 1 .. Len(s \o t), k \notin 1 .. Len(s)
               PROVE  \E l \in 1 .. Len(t) : k = Len(s) + l
    OBVIOUS
  <2>1. k - Len(s) \in 1 .. Len(t) /\ k = Len(s) + (k - Len(s))
    BY <1>1
  <2> QED BY <2>1
<1>5. \A k \in 1 .. Len(s) : k \in 1 .. Len(s \o t)
  BY <1>1
<1>6. \A k \in 1 .. Len(t) : Len(s) + k \in 1 .. Len(s \o t)
  BY <1>1
<1>7. /\ ToSet(s \o t) = {(s \o t)[k] : k \in 1 .. Len(s \o t)}
      /\ ToSet(s) = {s[k] : k \in 1 .. Len(s)} /\ ToSet(t) = {t[k] : k \in 1 .. Len(t)}
  BY <1>1, InSet
<1>8. ToSet(s \o t) = ToSet(s) \cup ToSet(t)
  <2>1. ASSUME NEW x \in ToSet(s \o t) PROVE x \in ToSet(s) \cup ToSet(t)
    <3>1. PICK k \in 1 .. Len(s \o t) : x = (s \o t)[k]
      BY <1>7, <2>1
    <3> QED BY <1>2, <1>3, <1>4, <1>7, <3>1
  <2>2. ASSUME NEW x \in ToSet(s) PROVE x \in ToSet(s \o t)
    BY <1>2, <1>5, <1>7, <2>2
  <2>3. ASSUME NEW x \in ToSet(t) PROVE x \in ToSet(s \o t)
    BY <1>3, <1>6, <1>7, <2>3
  <2> QED BY <2>1, <2>2, <2>3
<1>9. Distinct(s \o t)
  <2> SUFFICES ASSUME NEW k \in 1 .. Len(s \o t), NEW l \in 1 .. Len(s \o t),
                      (s \o t)[k] = (s \o t)[l]
               PROVE  k = l
    BY DEF Distinct
  <2>1. CASE k \in 1 .. Len(s) /\ l \in 1 .. Len(s)
    BY <1>2, <2>1 DEF Distinct
  <2>2. CASE k \notin 1 .. Len(s) /\ l \notin 1 .. Len(s)
    <3>1. PICK i \in 1 .. Len(t) : k = Len(s) + i
      BY <1>4, <2>2
    <3>2. PICK j \in 1 .. Len(t) : l = Len(s) + j
      BY <1>4, <2>2
    <3>3. t[i] = t[j]
      BY <1>3, <3>1, <3>2
    <3> QED BY <3>1, <3>2, <3>3 DEF Distinct
  <2>3. CASE k \in 1 .. Len(s) /\ l \notin 1 .. Len(s)
    <3>1. PICK j \in 1 .. Len(t) : l = Len(s) + j
      BY <1>4, <2>3
    <3> QED BY <1>2, <1>3, <1>7, <2>3, <3>1
  <2>4. CASE k \notin 1 .. Len(s) /\ l \in 1 .. Len(s)
    <3>1. PICK j \in 1 .. Len(t) : k = Len(s) + j
      BY <1>4, <2>4
    <3> QED BY <1>2, <1>3, <1>7, <2>4, <3>1
  <2> QED BY <2>1, <2>2, <2>3, <2>4
<1> QED BY <1>1, <1>8, <1>9

LEMMA RemovedAt ==
  ASSUME NEW S, NEW s \in Seq(S), NEW m \in 1..Len(s)
  PROVE  /\ RemoveAt(s, m) \in Seq(S) /\ Len(RemoveAt(s, m)) = Len(s) - 1
         /\ \A k \in 1..Len(s) - 1 :
              RemoveAt(s, m)[k] = s[IF k < m THEN k ELSE k + 1]
<1> DEFINE n == Len(s)
<1>1. n \in Nat /\ m \in 1..n
  OBVIOUS
<1>2. PICK u : u = SubSeq(s, 1, m - 1)
  OBVIOUS
<1>3. PICK v : v = SubSeq(s, m + 1, n)
  OBVIOUS
<1>4. u \in Seq(S) /\ Len(u) = m - 1 /\ \A k \in 1..m - 1 : u[k] = s[k]
  BY <1>1, <1>2
<1>5. v \in Seq(S) /\ Len(v) = n - m /\ \A k \in 1..n - m : v[k] = s[m + k]
  BY <1>1, <1>3
<1>6. RemoveAt(s, m) = u \o v
  BY <1>2, <1>3 DEF RemoveAt
<1>7. u \o v \in Seq(S) /\ Len(u \o v) = n - 1
  BY <1>1, <1>4, <1>5, ConcatProperties
<1>8. ASSUME NEW k \in 1..n - 1 PROVE (u \o v)[k] = s[IF k < m THEN k ELSE k + 1]
  <2>1. (u \o v)[k] = IF k <= Len(u) THEN u[k] ELSE v[k - Len(u)]
    <3>1. k \in 1..Len(u) + Len(v)
      BY <1>1, <1>4, <1>5
    <3> QED BY <1>4, <1>5, <3>1, ConcatAt
  <2>2. CASE k < m
    BY <1>1, <1>4, <2>1, <2>2
  <2>3. CASE ~(k < m)
    <3>1. k - (m - 1) \in 1..n - m /\ m + (k - (m - 1)) = k + 1
      BY <1>1, <2>3
    <3> QED BY <1>1, <1>4, <1>5, <2>1, <2>3, <3>1
  <2> QED BY <2>2, <2>3
<1> QED BY <1>6, <1>7, <1>8

(* What alloc() does to the vector is what it does to the set.             *)
LEMMA VectorAlloc ==
  ASSUME NEW list \in Seq(SliceType), Distinct(list), NEW L, NEW n \in Nat,
         Partition(ToSet(list), L, n),
         NEW size \in Nat \ {0}, NEW align \in Nat \ {0}, CanAlloc(list, size, align),
         NEW s, s = list[BestIndex(list, size)],
         NEW new, new = ListAfterAlloc(list, size, align)
  PROVE  /\ s \in BestSlices(ToSet(list), size) /\ Fits(s, size, align)
         /\ new \in Seq(SliceType) /\ Distinct(new)
         /\ ToSet(new) = Carve(ToSet(list), s, size, align)
<1> DEFINE from == AllocStart(s, align)
           to == AllocEnd(s, size, align)
           left == IF from # s.offset THEN <<Slice(s.offset, from - s.offset)>> ELSE <<>>
           right == IF to # End(s) THEN <<Slice(to, End(s) - to)>> ELSE <<>>
           R == Remainders(s, from, to)
           F == ToSet(list)
<1>1. PICK i : i = BestIndex(list, size)
  OBVIOUS
<1>2. list # <<>> /\ Fits(s, size, align)
  BY DEF CanAlloc
<1>3. i \in 1 .. Len(list) /\ s = list[i] /\ s \in BestSlices(F, size)
  <2>1. Inside(ToSet(list), n)
    BY DEF Partition, Inside
  <2> QED BY <1>1, <1>2, <2>1, BestIsBest
<1>4. s \in SliceType /\ s \in F
  BY <1>3, InSet
<1>5. /\ \A p \in R : p \in SliceType /\ Disjoint(p, Allocated(s, size, align))
      /\ \A p \in R : s.offset <= p.offset /\ End(p) <= End(s)
      /\ \A p, q \in R : End(p) # q.offset
  <2>1. PICK r : r = Remainders(s, AllocStart(s, align), AllocEnd(s, size, align))
    OBVIOUS
  <2>2. PICK a : a = Allocated(s, size, align)
    OBVIOUS
  <2>3. /\ r \subseteq SliceType
        /\ \A p \in r \cup {a} : s.offset <= p.offset /\ End(p) <= End(s)
        /\ \A p \in r : Disjoint(p, a)
        /\ \A p, q \in r : End(p) # q.offset
    BY <1>2, <1>4, <2>1, <2>2, Pieces
  <2> QED BY <2>1, <2>2, <2>3
<1>6. /\ s.offset \in Nat /\ End(s) \in Nat /\ from \in Nat /\ to \in Nat
      /\ s.offset <= from /\ from < to /\ to <= End(s)
  <2>1. s.offset \in Nat /\ End(s) \in Nat
    BY <1>4 DEF SliceType, End
  <2>2. from \in Nat /\ s.offset <= from
    BY <2>1, AlignRoundsUp DEF AllocStart
  <2>3. to \in Nat /\ from + size <= to
    <3>1. from + size \in Nat
      BY <2>2
    <3>2. to = Align(from + size, align)
      BY DEF AllocEnd
    <3> QED BY <3>1, <3>2, AlignRoundsUp
  <2>4. to <= End(s)
    BY <1>2 DEF Fits
  <2> HIDE DEF from, to
  <2> QED BY <2>1, <2>2, <2>3, <2>4
<1>7. PICK u : u = RemoveAt(list, i)
  OBVIOUS
<1>8. /\ u \in Seq(SliceType) /\ Len(u) = Len(list) - 1
      /\ \A k \in 1 .. Len(list) - 1 : u[k] = list[IF k < i THEN k ELSE k + 1]
  BY <1>3, <1>7, RemovedAt
<1>9. /\ left \in Seq(R) /\ Distinct(left)
      /\ ToSet(left) = {p \in {Slice(s.offset, from - s.offset)} : p.length # 0}
  <2>1. CASE from # s.offset
    <3>1. PICK p : p = Slice(s.offset, from - s.offset)
      OBVIOUS
    <3>2. p \in R /\ p.length # 0
      BY <1>6, <2>1, <3>1 DEF Remainders, Slice
    <3>3. left = <<p>>
      BY <2>1, <3>1
    <3>4. ToSet(<<p>>) = {p} /\ Distinct(<<p>>) /\ <<p>> \in Seq(R)
      BY <3>2 DEF ToSet, Distinct
    <3> QED BY <3>1, <3>2, <3>3, <3>4
  <2>2. CASE from = s.offset
    <3>1. left = <<>>
      BY <2>2
    <3>2. ToSet(<<>>) = {} /\ Distinct(<<>>) /\ <<>> \in Seq(R)
      BY DEF ToSet, Distinct
    <3>3. {p \in {Slice(s.offset, from - s.offset)} : p.length # 0} = {}
      BY <1>6, <2>2 DEF Slice
    <3> QED BY <3>1, <3>2, <3>3
  <2> QED BY <2>1, <2>2
<1>10. /\ right \in Seq(R) /\ Distinct(right)
       /\ ToSet(right) = {p \in {Slice(to, End(s) - to)} : p.length # 0}
  <2>1. CASE to # End(s)
    <3>1. PICK p : p = Slice(to, End(s) - to)
      OBVIOUS
    <3>2. p \in R /\ p.length # 0
      BY <1>6, <2>1, <3>1 DEF Remainders, Slice
    <3>3. right = <<p>>
      BY <2>1, <3>1
    <3>4. ToSet(<<p>>) = {p} /\ Distinct(<<p>>) /\ <<p>> \in Seq(R)
      BY <3>2 DEF ToSet, Distinct
    <3> QED BY <3>1, <3>2, <3>3, <3>4
  <2>2. CASE to = End(s)
    <3>1. right = <<>>
      BY <2>2
    <3>2. ToSet(<<>>) = {} /\ Distinct(<<>>) /\ <<>> \in Seq(R)
      BY DEF ToSet, Distinct
    <3>3. {p \in {Slice(to, End(s) - to)} : p.length # 0} = {}
      BY <1>6, <2>2 DEF Slice
    <3> QED BY <3>1, <3>2, <3>3
  <2> QED BY <2>1, <2>2
<1>11. ToSet(u) = F \ {s} /\ Distinct(u)
  <2>1. Len(list) \in Nat
    OBVIOUS
  <2>2. ASSUME NEW t \in ToSet(u) PROVE t \in F \ {s}
    <3>1. PICK k \in 1 .. Len(list) - 1 : t = u[k]
      BY <1>8, <2>2, InSet
    <3>2. PICK j \in 1 .. Len(list) : j # i /\ t = list[j]
      <4>1. u[k] = list[IF k < i THEN k ELSE k + 1]
        BY <1>8
      <4>2. CASE k < i
        <5>1. k \in 1 .. Len(list) /\ k # i
          BY <1>3, <2>1, <4>2
        <5> QED BY <3>1, <4>1, <4>2, <5>1
      <4>3. CASE ~(k < i)
        <5>1. k + 1 \in 1 .. Len(list) /\ k + 1 # i
          BY <1>3, <2>1, <4>3
        <5> QED BY <3>1, <4>1, <4>3, <5>1
      <4> QED BY <4>2, <4>3
    <3> QED BY <1>3, <3>2, InSet DEF Distinct
  <2>3. ASSUME NEW t \in F \ {s} PROVE t \in ToSet(u)
    <3>1. PICK j \in 1 .. Len(list) : t = list[j]
      BY <2>3, InSet
    <3>2. j # i
      BY <1>3, <2>3, <3>1
    <3>3. \E k \in 1 .. Len(list) - 1 : u[k] = list[j]
      <4>1. CASE j < i
        <5>1. j \in 1 .. Len(list) - 1
          BY <1>3, <2>1, <4>1
        <5> QED BY <1>8, <4>1, <5>1
      <4>2. CASE j > i
        <5>1. j - 1 \in 1 .. Len(list) - 1 /\ ~(j - 1 < i) /\ (j - 1) + 1 = j
          BY <1>3, <2>1, <4>2
        <5> QED BY <1>8, <5>1
      <4> QED BY <1>3, <3>2, <4>1, <4>2
    <3> QED BY <1>8, <3>1, <3>3, InSet
  <2>4. Distinct(u)
    <3> SUFFICES ASSUME NEW k \in 1 .. Len(u), NEW l \in 1 .. Len(u), u[k] = u[l]
                 PROVE  k = l
      BY DEF Distinct
    <3>1. PICK a \in 1 .. Len(list) : a = IF k < i THEN k ELSE k + 1
      BY <1>3, <1>8, <2>1
    <3>2. PICK b \in 1 .. Len(list) : b = IF l < i THEN l ELSE l + 1
      BY <1>3, <1>8, <2>1
    <3>3. list[a] = list[b]
      BY <1>8, <2>1, <3>1, <3>2
    <3>4. a = b
      BY <3>3 DEF Distinct
    <3> QED BY <1>3, <3>1, <3>2, <3>4
  <2> QED BY <2>2, <2>3, <2>4
<1>12. new = (u \o left) \o right
  BY <1>1, <1>7 DEF ListAfterAlloc
<1>13. R = ToSet(left) \cup ToSet(right)
  BY <1>9, <1>10 DEF Remainders
<1>14. \A p \in R : p \notin F \ {s}
  <2> SUFFICES ASSUME NEW p \in R, p \in F, p # s PROVE FALSE
    OBVIOUS
  <2>1. p \in SliceType /\ s.offset <= p.offset /\ End(p) <= End(s)
    BY <1>5
  <2>2. Disjoint(p, s)
    BY <1>4 DEF Partition, Separate
  <2>3. p.offset < End(p) /\ s.offset < End(s)
    BY <1>4, <2>1 DEF SliceType, End
  <2> QED BY <1>4, <2>1, <2>2, <2>3 DEF Disjoint, SliceType, End
<1>15. \A p \in ToSet(left) : p \notin ToSet(right)
  <2> SUFFICES ASSUME NEW p, p = Slice(s.offset, from - s.offset), p = Slice(to, End(s) - to)
               PROVE  FALSE
    BY <1>9, <1>10
  <2>1. p.offset = s.offset /\ p.offset = to
    BY DEF Slice
  <2> QED BY <1>6, <2>1
<1> HIDE DEF left, right, R, F, from, to
<1>16. left \in Seq(SliceType) /\ right \in Seq(SliceType)
  <2>1. R \subseteq SliceType
    BY <1>5
  <2> QED BY <1>9, <1>10, <2>1, SeqSubset
<1>17. /\ u \o left \in Seq(SliceType) /\ Distinct(u \o left)
       /\ ToSet(u \o left) = (F \ {s}) \cup ToSet(left)
  <2>1. \A x \in ToSet(left) : x \notin ToSet(u)
    BY <1>11, <1>13, <1>14
  <2>2. Distinct(u) /\ Distinct(left) /\ u \in Seq(SliceType) /\ left \in Seq(SliceType)
    BY <1>8, <1>9, <1>11, <1>16
  <2> QED BY <1>11, <2>1, <2>2, ConcatDistinct
<1>18. /\ (u \o left) \o right \in Seq(SliceType) /\ Distinct((u \o left) \o right)
       /\ ToSet((u \o left) \o right) = ((F \ {s}) \cup ToSet(left)) \cup ToSet(right)
  <2>1. PICK v : v = u \o left
    OBVIOUS
  <2>2. v \in Seq(SliceType) /\ Distinct(v) /\ ToSet(v) = (F \ {s}) \cup ToSet(left)
    BY <1>17, <2>1
  <2>3. \A x \in ToSet(right) : x \notin ToSet(v)
    BY <1>13, <1>14, <1>15, <2>2
  <2>4. v \o right \in Seq(SliceType) /\ Distinct(v \o right) /\ ToSet(v \o right) = ToSet(v) \cup ToSet(right)
    BY <1>10, <1>16, <2>2, <2>3, ConcatDistinct
  <2> QED BY <2>1, <2>2, <2>4
<1>19. ToSet(new) = (F \ {s}) \cup R
  BY <1>12, <1>13, <1>18
<1> QED BY <1>2, <1>3, <1>12, <1>18, <1>19 DEF Carve, R, F, from, to

(* What the pass has done after k slices: the slice being freed reaches to *)
(* the neighbours it has met, and the others have been kept.               *)
Neighbour(s, m) == End(s) = m.offset \/ s.offset = End(m)

PassInv(list, m, k, acc) ==
  /\ acc = [freed |-> acc.freed, kept |-> acc.kept]
  /\ acc.freed \in SliceType /\ acc.kept \in Seq(SliceType) /\ Distinct(acc.kept)
  /\ ToSet(acc.kept) = {s \in {list[i] : i \in 1 .. k} : ~Neighbour(s, m)}
  /\ \/ /\ acc.freed.offset = m.offset
        /\ \A i \in 1 .. k : End(list[i]) # m.offset
     \/ \E i \in 1 .. k : End(list[i]) = m.offset /\ acc.freed.offset = list[i].offset
  /\ \/ /\ End(acc.freed) = End(m)
        /\ \A i \in 1 .. k : list[i].offset # End(m)
     \/ \E i \in 1 .. k : list[i].offset = End(m) /\ End(acc.freed) = End(list[i])

LEMMA AppendDistinct ==
  ASSUME NEW S, NEW list \in Seq(S), Distinct(list), NEW x \in S, x \notin ToSet(list)
  PROVE  /\ Append(list, x) \in Seq(S) /\ Distinct(Append(list, x))
         /\ ToSet(Append(list, x)) = ToSet(list) \cup {x}
<1> DEFINE n == Len(list)
           new == Append(list, x)
<1>1. /\ new \in Seq(S) /\ Len(new) = n + 1 /\ n \in Nat
      /\ new[n + 1] = x /\ \A i \in 1 .. n : new[i] = list[i]
  OBVIOUS
<1>2. \A i \in 1 .. n : list[i] # x
  BY InSet
<1> HIDE DEF new, n
<1>3. Distinct(new)
  <2> SUFFICES ASSUME NEW i \in 1 .. n + 1, NEW j \in 1 .. n + 1, new[i] = new[j]
               PROVE  i = j
    BY <1>1 DEF Distinct
  <2>1. CASE i \in 1 .. n /\ j \in 1 .. n
    BY <1>1, <2>1 DEF Distinct, n
  <2>2. CASE i = n + 1 \/ j = n + 1
    BY <1>1, <1>2, <2>2
  <2> QED BY <1>1, <2>1, <2>2
<1>4. ToSet(new) = ToSet(list) \cup {x}
  <2>1. ToSet(new) = {new[i] : i \in 1 .. n + 1} /\ ToSet(list) = {list[i] : i \in 1 .. n}
    BY <1>1, InSet DEF n
  <2>2. 1 .. n + 1 = (1 .. n) \cup {n + 1}
    BY <1>1
  <2> QED BY <1>1, <2>1, <2>2
<1> QED BY <1>1, <1>3, <1>4 DEF new

LEMMA AbsorbStep ==
  ASSUME NEW list \in Seq(SliceType), Distinct(list), NEW L, NEW n \in Nat,
         Partition(ToSet(list), L, n), NEW m \in L,
         NEW k \in 1 .. Len(list), NEW acc, PassInv(list, m, k - 1, acc)
  PROVE  PassInv(list, m, k, AbsorbOne(acc, list[k]))
<1>1. PICK s : s = list[k]
  OBVIOUS
<1>2. PICK g : g = acc.freed
  OBVIOUS
<1>3. PICK kept : kept = acc.kept
  OBVIOUS
<1>4. /\ acc = [freed |-> g, kept |-> kept]
      /\ g \in SliceType /\ kept \in Seq(SliceType) /\ Distinct(kept)
      /\ ToSet(kept) = {t \in {list[i] : i \in 1 .. k - 1} : ~Neighbour(t, m)}
  BY <1>2, <1>3 DEF PassInv
<1>5. /\ \/ g.offset = m.offset /\ \A i \in 1 .. k - 1 : End(list[i]) # m.offset
         \/ \E i \in 1 .. k - 1 : End(list[i]) = m.offset /\ g.offset = list[i].offset
      /\ \/ End(g) = End(m) /\ \A i \in 1 .. k - 1 : list[i].offset # End(m)
         \/ \E i \in 1 .. k - 1 : list[i].offset = End(m) /\ End(g) = End(list[i])
  BY <1>2 DEF PassInv
<1>6. /\ \A i \in 1 .. Len(list) : list[i] \in SliceType
      /\ m \in SliceType /\ s \in SliceType
      /\ \A i, j \in 1 .. Len(list) : End(list[i]) # list[j].offset
      /\ \A i \in 1 .. Len(list) : Disjoint(list[i], m)
      /\ \A i, j \in 1 .. Len(list) : i # j => Disjoint(list[i], list[j])
  <2>1. \A i \in 1 .. Len(list) : list[i] \in ToSet(list) /\ list[i] \in SliceType
    BY InSet
  <2>2. m \notin ToSet(list)
    BY DEF Partition
  <2> QED BY <1>1, <2>1, <2>2 DEF Partition, Apart, Separate, Distinct
<1>7. k \in Nat /\ k - 1 \in Nat /\ Len(list) \in Nat /\ 1 .. k = (1 .. k - 1) \cup {k}
      /\ k \notin 1 .. k - 1 /\ \A i \in 1 .. k - 1 : i \in 1 .. Len(list)
  OBVIOUS
<1>8. \A x \in SliceType : x.offset \in Nat /\ x.length \in Nat \ {0} /\ End(x) = x.offset + x.length
  BY DEF SliceType, End
\* Of the slices met so far none but s touches m where s does.
<1>9. /\ s.offset = End(g) <=> s.offset = End(m)
      /\ End(s) = g.offset <=> End(s) = m.offset
  <2>1. ASSUME NEW i \in 1 .. k - 1, list[i].offset = End(m), s.offset = End(m) PROVE FALSE
    <3>1. Disjoint(list[i], s) /\ list[i] \in SliceType
      BY <1>1, <1>6, <1>7
    <3>2. /\ s.offset \in Nat /\ s.length \in Nat \ {0} /\ End(s) = s.offset + s.length
          /\ list[i].offset \in Nat /\ list[i].length \in Nat \ {0}
          /\ End(list[i]) = list[i].offset + list[i].length
      BY <1>6, <1>8, <3>1
    <3> QED BY <2>1, <3>1, <3>2 DEF Disjoint
  <2>2. ASSUME NEW i \in 1 .. k - 1, End(list[i]) = m.offset, End(s) = m.offset PROVE FALSE
    <3>1. Disjoint(list[i], s) /\ list[i] \in SliceType
      BY <1>1, <1>6, <1>7
    <3>2. /\ s.offset \in Nat /\ s.length \in Nat \ {0} /\ End(s) = s.offset + s.length
          /\ list[i].offset \in Nat /\ list[i].length \in Nat \ {0}
          /\ End(list[i]) = list[i].offset + list[i].length
      BY <1>6, <1>8, <3>1
    <3> QED BY <2>2, <3>1, <3>2 DEF Disjoint
  <2>3. s.offset = End(g) <=> s.offset = End(m)
    BY <1>1, <1>5, <1>6, <1>7, <2>1
  <2>4. End(s) = g.offset <=> End(s) = m.offset
    BY <1>1, <1>5, <1>6, <1>7, <2>2
  <2> QED BY <2>3, <2>4
<1>10. ~(s.offset = End(m) /\ End(s) = m.offset)
  <2>1. /\ s.offset \in Nat /\ s.length \in Nat \ {0} /\ End(s) = s.offset + s.length
        /\ m.offset \in Nat /\ m.length \in Nat \ {0} /\ End(m) = m.offset + m.length
    BY <1>6, <1>8
  <2> QED BY <2>1
<1>11. CASE s.offset = End(g)
  <2>1. PICK h : h = Slice(g.offset, g.length + s.length)
    OBVIOUS
  <2>2. AbsorbOne(acc, s) = [freed |-> h, kept |-> kept]
    BY <1>4, <1>11, <2>1 DEF AbsorbOne
  <2>3. h \in SliceType /\ h.offset = g.offset /\ End(h) = End(s)
    <3>1. /\ s.offset \in Nat /\ s.length \in Nat \ {0} /\ End(s) = s.offset + s.length
          /\ g.offset \in Nat /\ g.length \in Nat \ {0} /\ End(g) = g.offset + g.length
      BY <1>4, <1>6, <1>8
    <3>2. h = [offset |-> g.offset, length |-> g.length + s.length]
      BY <2>1 DEF Slice
    <3>3. h \in SliceType
      BY <3>1, <3>2 DEF SliceType
    <3> QED BY <1>11, <3>1, <3>2, <3>3 DEF End
  <2>4. Neighbour(s, m) /\ End(s) # m.offset /\ s.offset = End(m)
    BY <1>9, <1>10, <1>11 DEF Neighbour
  <2>5. ToSet(kept) = {t \in {list[i] : i \in 1 .. k} : ~Neighbour(t, m)}
    BY <1>1, <1>4, <1>7, <2>4
  <2>6. \/ h.offset = m.offset /\ \A i \in 1 .. k : End(list[i]) # m.offset
        \/ \E i \in 1 .. k : End(list[i]) = m.offset /\ h.offset = list[i].offset
    BY <1>1, <1>5, <1>7, <2>3, <2>4
  <2>7. \E i \in 1 .. k : list[i].offset = End(m) /\ End(h) = End(list[i])
    BY <1>1, <1>7, <2>3, <2>4
  <2> QED BY <1>1, <1>4, <2>2, <2>3, <2>5, <2>6, <2>7 DEF PassInv
<1>12. CASE s.offset # End(g) /\ End(s) = g.offset
  <2>1. PICK h : h = Slice(g.offset - s.length, g.length + s.length)
    OBVIOUS
  <2>2. AbsorbOne(acc, s) = [freed |-> h, kept |-> kept]
    BY <1>4, <1>12, <2>1 DEF AbsorbOne
  <2>3. h \in SliceType /\ h.offset = s.offset /\ End(h) = End(g)
    <3>1. /\ s.offset \in Nat /\ s.length \in Nat \ {0} /\ End(s) = s.offset + s.length
          /\ g.offset \in Nat /\ g.length \in Nat \ {0} /\ End(g) = g.offset + g.length
      BY <1>4, <1>6, <1>8
    <3>2. h = [offset |-> g.offset - s.length, length |-> g.length + s.length]
      BY <2>1 DEF Slice
    <3>3. g.offset - s.length = s.offset
      BY <1>12, <3>1
    <3>4. h \in SliceType
      BY <3>1, <3>2, <3>3 DEF SliceType
    <3> QED BY <1>12, <3>1, <3>2, <3>3, <3>4 DEF End
  <2>4. Neighbour(s, m) /\ End(s) = m.offset /\ s.offset # End(m)
    BY <1>9, <1>12 DEF Neighbour
  <2>5. ToSet(kept) = {t \in {list[i] : i \in 1 .. k} : ~Neighbour(t, m)}
    BY <1>1, <1>4, <1>7, <2>4
  <2>6. \/ End(h) = End(m) /\ \A i \in 1 .. k : list[i].offset # End(m)
        \/ \E i \in 1 .. k : list[i].offset = End(m) /\ End(h) = End(list[i])
    BY <1>1, <1>5, <1>7, <2>3, <2>4
  <2>7. \E i \in 1 .. k : End(list[i]) = m.offset /\ h.offset = list[i].offset
    BY <1>1, <1>7, <2>3, <2>4
  <2> QED BY <1>1, <1>4, <2>2, <2>3, <2>5, <2>6, <2>7 DEF PassInv
<1>13. CASE s.offset # End(g) /\ End(s) # g.offset
  <2>1. PICK new : new = Append(kept, s)
    OBVIOUS
  <2>2. AbsorbOne(acc, s) = [freed |-> g, kept |-> new]
    BY <1>4, <1>13, <2>1 DEF AbsorbOne
  <2>3. ~Neighbour(s, m) /\ End(s) # m.offset /\ s.offset # End(m)
    BY <1>9, <1>13 DEF Neighbour
  <2>4. s \notin ToSet(kept)
    BY <1>1, <1>4, <1>7 DEF Distinct
  <2>5. new \in Seq(SliceType) /\ Distinct(new) /\ ToSet(new) = ToSet(kept) \cup {s}
    BY <1>4, <1>6, <2>1, <2>4, AppendDistinct
  <2>6. ToSet(new) = {t \in {list[i] : i \in 1 .. k} : ~Neighbour(t, m)}
    BY <1>1, <1>4, <1>7, <2>3, <2>5
  <2>7. \/ g.offset = m.offset /\ \A i \in 1 .. k : End(list[i]) # m.offset
        \/ \E i \in 1 .. k : End(list[i]) = m.offset /\ g.offset = list[i].offset
    BY <1>1, <1>5, <1>7, <2>3
  <2>8. \/ End(g) = End(m) /\ \A i \in 1 .. k : list[i].offset # End(m)
        \/ \E i \in 1 .. k : list[i].offset = End(m) /\ End(g) = End(list[i])
    BY <1>1, <1>5, <1>7, <2>3
  <2> QED BY <1>1, <1>4, <2>2, <2>5, <2>6, <2>7, <2>8 DEF PassInv
<1> QED BY <1>1, <1>11, <1>12, <1>13

(* What free() does to the vector is what it does to the set.              *)
LEMMA VectorFree ==
  ASSUME NEW list \in Seq(SliceType), Distinct(list), NEW L, NEW n \in Nat,
         Partition(ToSet(list), L, n), NEW m \in L,
         NEW new, new = ListAfterFree(list, m)
  PROVE  /\ new \in Seq(SliceType) /\ Distinct(new)
         /\ ToSet(new) = Coalesce(ToSet(list), m)
<1>0. PICK F : F = ToSet(list)
  OBVIOUS
<1> DEFINE N == Len(list)
           Bad == {k \in 0 .. N : ~PassInv(list, m, k, Pass(list, m)[k])}
<1>1. N \in Nat /\ m \in SliceType
  BY DEF Partition
<1>2. PassInv(list, m, 0, Pass(list, m)[0])
  <2>1. Pass(list, m)[0] = [freed |-> m, kept |-> <<>>]
    BY PassIs DEF Begun
  <2>2. ToSet(<<>>) = {} /\ Distinct(<<>>) /\ <<>> \in Seq(SliceType)
    BY DEF ToSet, Distinct
  <2>3. 1 .. 0 = {}
    OBVIOUS
  <2> QED BY <1>1, <2>1, <2>2, <2>3 DEF PassInv
<1>3. ASSUME NEW k \in 1 .. N, PassInv(list, m, k - 1, Pass(list, m)[k - 1])
      PROVE  PassInv(list, m, k, Pass(list, m)[k])
  <2>1. Pass(list, m)[k] = AbsorbOne(Pass(list, m)[k - 1], list[k])
    BY PassIs
  <2> QED BY <1>3, <2>1, AbsorbStep
<1>4. Bad = {}
  <2>1. SUFFICES ASSUME Bad # {} PROVE FALSE
    OBVIOUS
  <2>2. Bad \in SUBSET Nat
    OBVIOUS
  <2>3. PICK k \in Bad : \A j \in Bad : k <= j
    <3> HIDE DEF Bad
    <3> QED BY <2>1, <2>2, LeastNat
  <2>4. k # 0 /\ k \in 1 .. N /\ k - 1 \in 0 .. N /\ k - 1 \notin Bad
    BY <1>1, <1>2, <2>3
  <2> QED BY <1>3, <2>3, <2>4
<1>5. PICK acc : acc = Pass(list, m)[N]
  OBVIOUS
<1>6. PassInv(list, m, N, acc)
  BY <1>1, <1>4, <1>5
<1>7. PICK g : g = acc.freed
  OBVIOUS
<1>8. PICK kept : kept = acc.kept
  OBVIOUS
<1>9. new = Append(kept, g)
  BY <1>5, <1>7, <1>8 DEF ListAfterFree
<1>10. PICK A : A = Before(F, m) \cup After(F, m)
  OBVIOUS
<1>11. /\ g \in SliceType /\ kept \in Seq(SliceType) /\ Distinct(kept)
       /\ ToSet(kept) = {s \in F : ~Neighbour(s, m)}
       /\ \/ g.offset = m.offset /\ \A s \in F : End(s) # m.offset
          \/ \E s \in F : End(s) = m.offset /\ g.offset = s.offset
       /\ \/ End(g) = End(m) /\ \A s \in F : s.offset # End(m)
          \/ \E s \in F : s.offset = End(m) /\ End(g) = End(s)
  BY <1>0, <1>6, <1>7, <1>8, InSet DEF PassInv
<1>12. ToSet(kept) = F \ A
  BY <1>10, <1>11 DEF Before, After, Neighbour
<1>13. g.offset = MergedStart(F, m)
  <2>1. CASE Before(F, m) = {}
    BY <1>11, <2>1 DEF Before, MergedStart
  <2>2. CASE Before(F, m) # {}
    <3>1. PICK s : s = CHOOSE b \in Before(F, m) : TRUE
      OBVIOUS
    <3>2. s \in F /\ End(s) = m.offset /\ MergedStart(F, m) = s.offset
      BY <2>2, <3>1 DEF Before, MergedStart
    <3>3. PICK t \in F : End(t) = m.offset /\ g.offset = t.offset
      BY <1>11, <3>2
    <3>4. s = t
      <4>1. s \in SliceType /\ t \in SliceType /\ (s # t => Disjoint(s, t))
        BY <1>0, <3>2, <3>3 DEF Partition, Separate
      <4> QED BY <3>2, <3>3, <4>1 DEF Disjoint, SliceType, End
    <3> QED BY <3>2, <3>3, <3>4
  <2> QED BY <2>1, <2>2
<1>14. End(g) = MergedEnd(F, m)
  <2>1. CASE After(F, m) = {}
    BY <1>11, <2>1 DEF After, MergedEnd
  <2>2. CASE After(F, m) # {}
    <3>1. PICK s : s = CHOOSE a \in After(F, m) : TRUE
      OBVIOUS
    <3>2. s \in F /\ s.offset = End(m) /\ MergedEnd(F, m) = End(s)
      BY <2>2, <3>1 DEF After, MergedEnd
    <3>3. PICK t \in F : t.offset = End(m) /\ End(g) = End(t)
      BY <1>11, <3>2
    <3>4. s = t
      <4>1. s \in SliceType /\ t \in SliceType /\ (s # t => Disjoint(s, t))
        BY <1>0, <3>2, <3>3 DEF Partition, Separate
      <4> QED BY <3>2, <3>3, <4>1 DEF Disjoint, SliceType, End
    <3> QED BY <3>2, <3>3, <3>4
  <2> QED BY <2>1, <2>2
<1>15. g = Slice(MergedStart(F, m), MergedEnd(F, m) - MergedStart(F, m))
  <2>1. g = [offset |-> g.offset, length |-> g.length] /\ g.length = End(g) - g.offset
    BY <1>11 DEF SliceType, End
  <2> QED BY <1>13, <1>14, <2>1 DEF Slice
<1>16. g \notin F \ A
  <2>1. \A u \in (F \cup L) \ (A \cup {m}) : Disjoint(u, g)
    BY <1>0, <1>10, <1>15, MergedSlice
  <2>2. m \notin F
    BY <1>0 DEF Partition
  <2> QED BY <1>11, <2>1, <2>2, NotSelfDisjoint
<1>17. new \in Seq(SliceType) /\ Distinct(new) /\ ToSet(new) = (F \ A) \cup {g}
  BY <1>9, <1>11, <1>12, <1>16, AppendDistinct
<1>18. Coalesce(F, m) = (F \ A) \cup {g}
  BY <1>10, <1>15 DEF Coalesce
<1> QED BY <1>0, <1>17, <1>18

-----------------------------------------------------------------------------
(* The vector implements the set (MCVltMemoryChunk).                       *)
VectorInv ==
  vector => /\ m_freeList \in Seq(SliceType)
            /\ Distinct(m_freeList)
            /\ freeList = ToSet(m_freeList)

BothInv == IInv /\ VectorInv /\ vector \in BOOLEAN

(* The instance's operators are those of VltSliceList.                     *)
LEMMA SameOperators ==
  ASSUME NEW list, NEW size, NEW align, NEW m
  PROVE  /\ List!ToSet(list) = ToSet(list)
         /\ List!CanAlloc(list, size, align) = CanAlloc(list, size, align)
         /\ List!AllocSlice(list, size, align) = AllocSlice(list, size, align)
         /\ List!ListAfterAlloc(list, size, align) = ListAfterAlloc(list, size, align)
         /\ List!ListAfterFree(list, m) = ListAfterFree(list, m)
<1>1. List!ToSet(list) = ToSet(list)
  BY DEF List!ToSet, ToSet
<1>2. List!BestIndex(list, size) = BestIndex(list, size)
  BY DEF List!BestIndex, BestIndex
<1>3. \A s : /\ List!AllocStart(s, align) = AllocStart(s, align)
             /\ List!AllocEnd(s, size, align) = AllocEnd(s, size, align)
             /\ List!End(s) = End(s)
  BY DEF List!AllocStart, AllocStart, List!AllocEnd, AllocEnd, List!Align, Align, List!End, End
<1>4. \A o, l : List!Slice(o, l) = Slice(o, l)
  BY DEF List!Slice, Slice
<1>5. List!CanAlloc(list, size, align) = CanAlloc(list, size, align)
  BY <1>2, <1>3 DEF List!CanAlloc, CanAlloc, List!Fits, Fits
<1>6. List!AllocSlice(list, size, align) = AllocSlice(list, size, align)
  BY <1>2, <1>3, <1>4 DEF List!AllocSlice, AllocSlice, List!Allocated, Allocated
<1>7. List!ListAfterAlloc(list, size, align) = ListAfterAlloc(list, size, align)
  BY <1>2, <1>3, <1>4 DEF List!ListAfterAlloc, ListAfterAlloc, List!RemoveAt, RemoveAt
<1>8. \A acc, s : List!AbsorbOne(acc, s) = AbsorbOne(acc, s)
  BY <1>3, <1>4 DEF List!AbsorbOne, AbsorbOne
<1>9. List!Pass(list, m) = Pass(list, m)
  BY <1>8 DEF List!Pass, Pass
<1>10. List!ListAfterFree(list, m) = ListAfterFree(list, m)
  BY <1>9 DEF List!ListAfterFree, ListAfterFree
<1> QED BY <1>1, <1>5, <1>6, <1>7, <1>10

(* A step of the vector is a step of the set.                              *)
LEMMA VectorStepIs ==
  ASSUME BothInv, VectorStep
  PROVE  Next /\ VectorInv'
<1>1. /\ vector /\ vector' = vector
      /\ freeList' = ToSet(m_freeList')
      /\ m_freeList \in Seq(SliceType) /\ Distinct(m_freeList)
      /\ freeList = ToSet(m_freeList)
      /\ Partition(freeList, live, MemSize)
  BY SameOperators DEF VectorStep, BothInv, VectorInv, IInv
<1>2. MemSize \in Nat
  BY ChunkAssumption
<1>3. ASSUME NEW size \in Sizes, NEW align \in Aligns, List!Alloc(size, align)
      PROVE  Next /\ VectorInv'
  <2>1. /\ CanAlloc(m_freeList, size, align)
        /\ live' = live \cup {AllocSlice(m_freeList, size, align)}
        /\ m_freeList' = ListAfterAlloc(m_freeList, size, align)
    BY <1>3, SameOperators DEF List!Alloc
  <2>2. size \in Nat \ {0} /\ align \in Nat \ {0}
    BY ChunkAssumption
  <2>3. PICK s : s = m_freeList[BestIndex(m_freeList, size)]
    OBVIOUS
  <2>4. /\ s \in BestSlices(ToSet(m_freeList), size) /\ Fits(s, size, align)
        /\ m_freeList' \in Seq(SliceType) /\ Distinct(m_freeList')
        /\ ToSet(m_freeList') = Carve(ToSet(m_freeList), s, size, align)
    BY <1>1, <1>2, <2>1, <2>2, <2>3, VectorAlloc
  <2>5. AllocSlice(m_freeList, size, align) = Allocated(s, size, align)
    BY <2>3 DEF AllocSlice
  <2>6. Alloc(size, align)
    BY <1>1, <2>1, <2>4, <2>5 DEF Alloc
  <2> QED BY <1>1, <2>4, <2>6 DEF Next, VectorInv
<1>4. ASSUME NEW m \in live, List!Free(m)
      PROVE  Next /\ VectorInv'
  <2>1. live' = live \ {m} /\ m_freeList' = ListAfterFree(m_freeList, m)
    BY <1>4, SameOperators DEF List!Free
  <2>2. /\ m_freeList' \in Seq(SliceType) /\ Distinct(m_freeList')
        /\ ToSet(m_freeList') = Coalesce(ToSet(m_freeList), m)
    BY <1>1, <1>2, <2>1, VectorFree
  <2>3. Free(m)
    BY <1>1, <2>1, <2>2 DEF Free
  <2> QED BY <1>1, <2>2, <2>3 DEF Next, VectorInv
<1> QED BY <1>3, <1>4 DEF VectorStep, List!Next

LEMMA BothInitInv == MCInit => BothInv
<1>1. ASSUME vector = FALSE, Init PROVE BothInv
  BY <1>1, InitIInv DEF BothInv, VectorInv
<1>2. ASSUME vector = TRUE, List!Init, freeList = List!ToSet(m_freeList) PROVE BothInv
  <2>1. PICK s : s = Slice(0, MemSize)
    OBVIOUS
  <2>2. m_freeList = <<s>> /\ live = {} /\ freeList = ToSet(m_freeList)
    BY <1>2, <2>1, SameOperators DEF List!Init, List!Slice, Slice
  <2>3. ToSet(<<s>>) = {s} /\ Distinct(<<s>>)
    BY DEF ToSet, Distinct
  <2>4. Init
    BY <2>1, <2>2, <2>3 DEF Init
  <2>5. s \in SliceType
    BY <2>1, ChunkAssumption DEF Slice, SliceType
  <2> QED BY <1>2, <2>2, <2>3, <2>4, <2>5, InitIInv DEF BothInv, VectorInv
<1> QED BY <1>1, <1>2 DEF MCInit

LEMMA BothNextInv ==
  ASSUME BothInv, [SetStep \/ VectorStep]_allVars
  PROVE  BothInv' /\ [Next]_vars
<1>1. CASE SetStep
  <2>1. Next /\ ~vector /\ vector' = vector
    BY <1>1 DEF SetStep
  <2>2. IInv'
    BY <2>1, NextIInv DEF BothInv
  <2> QED BY <2>1, <2>2 DEF BothInv, VectorInv
<1>2. CASE VectorStep
  <2>1. Next /\ VectorInv' /\ vector' = vector
    BY <1>2, VectorStepIs DEF VectorStep
  <2>2. IInv'
    BY <2>1, NextIInv DEF BothInv
  <2> QED BY <2>1, <2>2 DEF BothInv
<1>3. CASE UNCHANGED allVars
  <2>1. UNCHANGED <<freeList, live, m_freeList, vector>>
    BY <1>3 DEF allVars
  <2>2. IInv' /\ VectorInv'
    BY <2>1 DEF BothInv, IInv, VectorInv
  <2> QED BY <2>1, <2>2 DEF BothInv, vars
<1> QED BY <1>1, <1>2, <1>3

(* Under the invariant the mapped variable is freeList, so that a step of  *)
(* the set is one of the instance.                                         *)
LEMMA MappedIs ==
  ASSUME BothInv
  PROVE  (IF vector THEN List!ToSet(m_freeList) ELSE freeList) = freeList
BY SameOperators DEF BothInv, VectorInv

(* The instance's operators are those of VltSlices.                        *)
LEMMA ChunkOperators ==
  ASSUME NEW F, NEW s, NEW size, NEW align
  PROVE  /\ Chunk!Slice(size, align) = Slice(size, align)
         /\ Chunk!BestSlices(F, size) = BestSlices(F, size)
         /\ Chunk!Fits(s, size, align) = Fits(s, size, align)
         /\ Chunk!Carve(F, s, size, align) = Carve(F, s, size, align)
         /\ Chunk!Allocated(s, size, align) = Allocated(s, size, align)
         /\ Chunk!Coalesce(F, s) = Coalesce(F, s)
<1>1. \A o, l : Chunk!Slice(o, l) = Slice(o, l)
  BY DEF Chunk!Slice, Slice
<1>2. \A t : /\ Chunk!AllocStart(t, align) = AllocStart(t, align)
             /\ Chunk!AllocEnd(t, size, align) = AllocEnd(t, size, align)
             /\ Chunk!End(t) = End(t)
  BY DEF Chunk!AllocStart, AllocStart, Chunk!AllocEnd, AllocEnd, Chunk!Align, Align, Chunk!End, End
<1>3. Chunk!BestSlices(F, size) = BestSlices(F, size)
  BY DEF Chunk!BestSlices, BestSlices
<1>4. Chunk!Fits(s, size, align) = Fits(s, size, align)
  BY <1>2 DEF Chunk!Fits, Fits
<1>5. Chunk!Carve(F, s, size, align) = Carve(F, s, size, align)
  <2>1. \A from, to : Chunk!Remainders(s, from, to) = Remainders(s, from, to)
    BY <1>1, <1>2 DEF Chunk!Remainders, Remainders
  <2> QED BY <1>2, <2>1 DEF Chunk!Carve, Carve
<1>6. Chunk!Allocated(s, size, align) = Allocated(s, size, align)
  BY <1>1, <1>2 DEF Chunk!Allocated, Allocated
<1>7. Chunk!Coalesce(F, s) = Coalesce(F, s)
  <2>1. Chunk!Before(F, s) = Before(F, s) /\ Chunk!After(F, s) = After(F, s)
    BY <1>2 DEF Chunk!Before, Before, Chunk!After, After
  <2>2. Chunk!MergedStart(F, s) = MergedStart(F, s)
    BY <2>1 DEF Chunk!MergedStart, MergedStart
  <2>3. Chunk!MergedEnd(F, s) = MergedEnd(F, s)
    BY <1>2, <2>1 DEF Chunk!MergedEnd, MergedEnd
  <2> QED BY <1>1, <2>1, <2>2, <2>3 DEF Chunk!Coalesce, Coalesce
<1> QED BY <1>1, <1>3, <1>4, <1>5, <1>6, <1>7

LEMMA MappedStep ==
  ASSUME BothInv, BothInv', [Next]_vars
  PROVE  [Chunk!Next]_(Chunk!vars)
<1> DEFINE mapped == IF vector THEN List!ToSet(m_freeList) ELSE freeList
<1>1. mapped = freeList
  BY MappedIs
<1>2. mapped' = freeList'
  <2>1. ASSUME vector' PROVE List!ToSet(m_freeList)' = freeList'
    <3>1. freeList' = ToSet(m_freeList')
      BY <2>1 DEF BothInv, VectorInv, ToSet
    <3> QED BY <3>1, SameOperators DEF List!ToSet, ToSet
  <2> QED BY <2>1
<1>3. ASSUME NEW size \in Sizes, NEW align \in Aligns, Alloc(size, align)
      PROVE  Chunk!Alloc(size, align)
  <2>1. PICK s \in BestSlices(freeList, size) :
               /\ Fits(s, size, align)
               /\ freeList' = Carve(freeList, s, size, align)
               /\ live' = live \cup {Allocated(s, size, align)}
    BY <1>3 DEF Alloc
  <2>2. /\ s \in Chunk!BestSlices(mapped, size)
        /\ Chunk!Fits(s, size, align)
        /\ mapped' = Chunk!Carve(mapped, s, size, align)
        /\ live' = live \cup {Chunk!Allocated(s, size, align)}
    <3> HIDE DEF mapped
    <3> QED BY <1>1, <1>2, <2>1, ChunkOperators
  <2> QED BY <2>2 DEF Chunk!Alloc
<1>4. ASSUME NEW m \in live, Free(m)
      PROVE  Chunk!Free(m)
  <2>1. live' = live \ {m} /\ freeList' = Coalesce(freeList, m)
    BY <1>4 DEF Free
  <2>2. mapped' = Chunk!Coalesce(mapped, m)
    <3> HIDE DEF mapped
    <3> QED BY <1>1, <1>2, <2>1, ChunkOperators
  <2> QED BY <2>1, <2>2 DEF Chunk!Free
<1>5. ASSUME UNCHANGED vars PROVE UNCHANGED Chunk!vars
  <2>1. freeList' = freeList /\ live' = live
    BY <1>5 DEF vars
  <2>2. mapped' = mapped
    <3> HIDE DEF mapped
    <3> QED BY <1>1, <1>2, <2>1
  <2> QED BY <2>1, <2>2 DEF Chunk!vars
<1> QED BY <1>3, <1>4, <1>5 DEF Next, Chunk!Next

LEMMA MappedInit == MCInit => Chunk!Init
<1>1. SUFFICES ASSUME MCInit PROVE Chunk!Init
  OBVIOUS
<1> DEFINE mapped == IF vector THEN List!ToSet(m_freeList) ELSE freeList
<1>2. mapped = freeList
  BY <1>1, BothInitInv, MappedIs
<1>3. freeList = {Slice(0, MemSize)} /\ live = {}
  <2>1. ASSUME List!Init, freeList = List!ToSet(m_freeList)
        PROVE  freeList = {Slice(0, MemSize)} /\ live = {}
    <3>1. PICK s : s = Slice(0, MemSize)
      OBVIOUS
    <3>2. m_freeList = <<s>> /\ live = {} /\ freeList = ToSet(m_freeList)
      BY <2>1, <3>1, SameOperators DEF List!Init, List!Slice, Slice
    <3>3. ToSet(<<s>>) = {s}
      BY DEF ToSet
    <3> QED BY <3>1, <3>2, <3>3
  <2> QED BY <1>1, <2>1 DEF MCInit, Init
<1>4. mapped = {Chunk!Slice(0, MemSize)}
  <2> HIDE DEF mapped
  <2> QED BY <1>2, <1>3, ChunkOperators
<1> QED BY <1>3, <1>4 DEF Chunk!Init

(* The vector with its first-found scan and its single pass implements the *)
(* set of slices (VltMemoryChunk::alloc, VltMemoryChunk::free): with the   *)
(* set of the vector's elements as the free list, every step of the vector *)
(* is a step of VltMemoryChunk.                                            *)
THEOREM VectorImplementsChunk == MCSpec => ImplementsChunk
<1>1. BothInv /\ [SetStep \/ VectorStep]_allVars => BothInv'
  BY BothNextInv
<1>2. BothInv /\ BothInv' /\ [SetStep \/ VectorStep]_allVars => [Chunk!Next]_(Chunk!vars)
  BY BothNextInv, MappedStep
<1> QED BY BothInitInv, MappedInit, <1>1, <1>2, PTL DEF MCSpec, ImplementsChunk, Chunk!Spec
=============================================================================
