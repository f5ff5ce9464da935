--------------------------- MODULE VltContextProofs ---------------------------
(***************************************************************************)
(* What VltContext promises, for any images, sizes of them and buffers.    *)
(*                                                                         *)
(* The inductive invariant is Rest: between two operations the context is  *)
(* outside a pass (Outside) or in one (InPass), and what is stale has a    *)
(* clear deferred (Kept).  Sound(s, w) is the part of it that every        *)
(* intermediate context of an operation satisfies as well: the registered  *)
(* stages wait for every pending access, every registered move leaves from *)
(* the layout its image is in, and w says the layout each image will be in *)
(* when the registered barriers have been recorded.  Between(s, w) adds    *)
(* that every pending access is covered by a registered slice.  An         *)
(* operation is followed step by step: which layouts w its recorded        *)
(* barriers, passes and clears lead to, and that what it uses next is      *)
(* settled by then.                                                        *)
(***************************************************************************)
EXTENDS VltContext, TLAPS, NaturalsInduction, WellFoundedInduction

Stages == {"transfer", "compute", "shader", "depth", "color"}
SliceType == [resource : Images \cup Buffers, first : Nat, size : Nat]
AccessType == [slice : SliceType, write : BOOLEAN, stage : Stages]
EntryType == [slice : SliceType, write : BOOLEAN]
MoveType == [image : Images, old : Layouts, new : Layouts]
BarriersType == [stages : SUBSET Stages, slices : SUBSET EntryType, moves : SUBSET MoveType]
AspectNames == {"color", "depth", "stencil"}
ClearType == {c \in [image : Images, aspects : SUBSET AspectNames] :
                c.aspects # {} /\ c.aspects \subseteq Aspects(c.image)}

ContextType ==
  [targets : SUBSET Images, framebuffer : SUBSET Images, dirty : BOOLEAN, bound : BOOLEAN,
   rtLayouts : [Images -> Layouts], loads : [Images -> Layouts],
   clears : [Images -> SUBSET AspectNames], deferred : Seq(ClearType),
   barriers : BarriersType, layout : [Images -> Layouts],
   pending : SUBSET AccessType, raced : SUBSET (Images \cup Buffers),
   misplaced : SUBSET Images, stale : SUBSET (Images \X AspectNames),
   overtaken : SUBSET Images, late : SUBSET Images]

\* What no barrier and no command changes.
KeepsControl(s, t) ==
  /\ t.targets = s.targets /\ t.framebuffer = s.framebuffer /\ t.dirty = s.dirty
  /\ t.bound = s.bound /\ t.rtLayouts = s.rtLayouts /\ t.loads = s.loads
  /\ t.clears = s.clears /\ t.deferred = s.deferred /\ t.late = s.late
  /\ t.overtaken = s.overtaken

LEMMA LayoutFacts ==
  /\ InfoLayouts \in [Images -> Layouts] /\ BoundLayouts \in [Images -> Layouts]
  /\ \A i \in Images : /\ InfoLayout(i) \in Layouts /\ BoundLayout(i) \in Layouts
                       /\ ClearLayout(i) \in Layouts /\ TransferLayout(i) \in Layouts
                       /\ InfoLayout(i) # BoundLayout(i)
                       /\ InfoLayout(i) # "undefined" /\ BoundLayout(i) # "undefined"
                       /\ ClearLayout(i) # "undefined"
                       /\ TransferLayout(i) # "undefined"
                       /\ PassStage(i) \in {"color", "depth"}
  /\ "undefined" \in Layouts
BY ContextAssumption
   DEF InfoLayouts, BoundLayouts, Layouts, InfoLayout, BoundLayout, ClearLayout, TransferLayout,
       PickLayout, Images, PassStage

LEMMA UseIs ==
  ASSUME NEW s \in ContextType, NEW A \in SUBSET AccessType, NEW t, t = Use(s, A)
  PROVE  /\ t \in ContextType /\ KeepsControl(s, t)
         /\ t.barriers = s.barriers /\ t.layout = s.layout
         /\ t.misplaced = s.misplaced /\ t.stale = s.stale
         /\ t.pending = s.pending \cup A
         /\ (\A p \in s.pending, a \in A : Overlap(p.slice, a.slice) => ~p.write /\ ~a.write)
              => t.raced = s.raced
<1> DEFINE R == {a.slice.resource : a \in {a \in A :
                        \E p \in s.pending : Overlap(p.slice, a.slice) /\ (p.write \/ a.write)}}
<1>1. R \subseteq Images \cup Buffers
  BY DEF AccessType, SliceType
<1>2. t = [s EXCEPT !.pending = s.pending \cup A, !.raced = s.raced \cup R]
  BY DEF Use
<1>3. (\A p \in s.pending, a \in A : Overlap(p.slice, a.slice) => ~p.write /\ ~a.write) => R = {}
  OBVIOUS
<1> HIDE DEF R
<1>4. s.pending \cup A \in SUBSET AccessType /\ s.raced \cup R \in SUBSET (Images \cup Buffers)
  BY <1>1 DEF ContextType
<1>5. t \in ContextType
  BY <1>2, <1>4 DEF ContextType
<1> QED BY <1>2, <1>3, <1>5 DEF ContextType, KeepsControl

LEMMA NotMisplaced ==
  ASSUME NEW s \in ContextType, NEW X, X = {}
  PROVE  [s EXCEPT !.misplaced = @ \cup X] = s
BY DEF ContextType

LEMMA SeeIs ==
  ASSUME NEW s \in ContextType, NEW images, 
         \A i \in images \ s.late : s.stale \cap AspectsOf({i}) = {}
  PROVE  See(s, images) = s
<1>1. {i \in images \ s.late : s.stale \cap AspectsOf({i}) # {}} = {}
  OBVIOUS
<1>2. See(s, images) = [s EXCEPT !.overtaken = s.overtaken \cup {}]
  BY <1>1 DEF See
<1> QED BY <1>2 DEF ContextType

LEMMA AspectsOfIs ==
  ASSUME NEW I \in SUBSET Images
  PROVE  /\ AspectsOf(I) \in SUBSET (Images \X AspectNames)
         /\ \A i \in Images : \A a : <<i, a>> \in AspectsOf(I) <=> i \in I /\ a \in Aspects(i)
BY DEF AspectsOf, Aspects, AspectNames

LEMMA ClearedIs ==
  ASSUME NEW s \in ContextType, NEW i \in Images, NEW A \in SUBSET AspectNames, NEW t,
         t = Cleared(s, i, A)
  PROVE  /\ t \in ContextType /\ KeepsControl(s, t)
         /\ t.barriers = s.barriers /\ t.layout = s.layout
         /\ t.misplaced = s.misplaced /\ t.raced = s.raced /\ t.pending = s.pending
         /\ t.stale = s.stale \ ({i} \X A)
<1>1. t = [s EXCEPT !.stale = s.stale \ ({i} \X A)]
  BY DEF Cleared
<1> DEFINE S == s.stale \ ({i} \X A)
<1>2. S \in SUBSET (Images \X AspectNames)
  BY DEF ContextType
<1> HIDE DEF S
<1>3. t \in ContextType
  BY <1>1, <1>2 DEF ContextType
<1> QED BY <1>1, <1>3 DEF ContextType, KeepsControl, S

OneMoveEach(M) == \A m, n \in M : m.image = n.image => m = n
Lost(M) == {m.image : m \in {n \in M : n.old = "undefined"}}

BarrierEffect(s, t, S, M) ==
  /\ t \in ContextType /\ KeepsControl(s, t) /\ t.barriers = s.barriers
  /\ t.pending = {p \in s.pending : WaitedBy[p.stage] \cap S = {}}
  /\ \A m \in M : t.layout[m.image] = m.new
  /\ \A i \in Images : (\A m \in M : m.image # i) => t.layout[i] = s.layout[i]
  /\ t.stale = s.stale \cup AspectsOf(Lost(M))
  /\ (\A m \in M : m.old # "undefined" => s.layout[m.image] \in {"undefined", m.old})
       => t.misplaced = s.misplaced
  /\ (\A m \in M, p \in t.pending : p.slice.resource # m.image) => t.raced = s.raced

LEMMA BarrierIs ==
  ASSUME NEW s \in ContextType, NEW S \in SUBSET Stages, NEW M \in SUBSET MoveType,
         OneMoveEach(M), NEW t, t = Barrier(s, S, M)
  PROVE  BarrierEffect(s, t, S, M)
<1> DEFINE MoveOf(i) == CHOOSE m \in M : m.image = i
           moved == {m.image : m \in M}
           left == {p \in s.pending : WaitedBy[p.stage] \cap S = {}}
           layout == [i \in Images |-> IF i \in moved THEN MoveOf(i).new ELSE s.layout[i]]
           lost == {i \in moved : MoveOf(i).old = "undefined"}
           wrong == {i \in moved : MoveOf(i).old # "undefined" /\ s.layout[i] \notin {"undefined", MoveOf(i).old}}
           races == {i \in moved : \/ \E p \in left : p.slice.resource = i
                                  \/ \E m, n \in M : m.image = i /\ n.image = i /\ m # n}
<1>1. \A m \in M : MoveOf(m.image) = m
  BY DEF OneMoveEach
<1>2. moved \subseteq Images
  BY DEF MoveType
<1>3. lost = Lost(M)
  <2>1. ASSUME NEW i \in lost PROVE i \in Lost(M)
    <3>1. PICK m \in M : i = m.image
      OBVIOUS
    <3>2. m.old = "undefined"
      BY <1>1, <3>1
    <3> QED BY <3>1, <3>2 DEF Lost
  <2>2. ASSUME NEW i \in Lost(M) PROVE i \in lost
    <3>1. PICK m \in M : i = m.image /\ m.old = "undefined"
      BY DEF Lost
    <3> QED BY <1>1, <3>1
  <2> HIDE DEF lost
  <2> QED BY <2>1, <2>2
<1>4. (\A m \in M : m.old # "undefined" => s.layout[m.image] \in {"undefined", m.old}) => wrong = {}
  BY <1>1
<1>5. (\A m \in M, p \in left : p.slice.resource # m.image) => races = {}
  BY DEF OneMoveEach
<1>6. layout \in [Images -> Layouts]
  BY <1>1 DEF MoveType, ContextType
<1>7. /\ \A m \in M : layout[m.image] = m.new
      /\ \A i \in Images : (\A m \in M : m.image # i) => layout[i] = s.layout[i]
  <2>1. \A m \in M : m.image \in Images /\ m.image \in moved
    BY <1>2
  <2> HIDE DEF MoveOf
  <2> QED BY <1>1, <2>1
<1>8. AspectsOf(lost) \in SUBSET (Images \X AspectNames)
  BY <1>2, AspectsOfIs
<1>9. wrong \subseteq Images /\ races \subseteq Images \cup Buffers /\ left \subseteq AccessType
  BY <1>2 DEF ContextType
<1>10. t = [s EXCEPT !.pending = left, !.layout = layout, !.stale = s.stale \cup AspectsOf(lost),
                     !.misplaced = s.misplaced \cup wrong, !.raced = s.raced \cup races]
  BY DEF Barrier
<1> HIDE DEF left, layout, lost, wrong, races, moved
<1>11. t \in ContextType
  <2>1. /\ s.stale \cup AspectsOf(lost) \in SUBSET (Images \X AspectNames)
        /\ s.misplaced \cup wrong \in SUBSET Images /\ left \in SUBSET AccessType
        /\ s.raced \cup races \in SUBSET (Images \cup Buffers)
    BY <1>8, <1>9 DEF ContextType
  <2>2. PICK a \in SUBSET (Images \X AspectNames), b \in SUBSET Images, c \in SUBSET AccessType,
             d \in SUBSET (Images \cup Buffers) :
          t = [s EXCEPT !.pending = c, !.layout = layout, !.stale = a, !.misplaced = b, !.raced = d]
    BY <1>10, <2>1
  <2> QED BY <1>6, <2>2 DEF ContextType
<1>12. /\ KeepsControl(s, t) /\ t.barriers = s.barriers /\ t.pending = left /\ t.layout = layout
       /\ t.stale = s.stale \cup AspectsOf(lost) /\ t.misplaced = s.misplaced \cup wrong
       /\ t.raced = s.raced \cup races
  BY <1>10 DEF ContextType, KeepsControl
<1>13. t.pending = {p \in s.pending : WaitedBy[p.stage] \cap S = {}}
  BY <1>12 DEF left
<1> HIDE DEF MoveOf
<1> QED BY <1>3, <1>4, <1>5, <1>7, <1>11, <1>12, <1>13 DEF BarrierEffect

\* The commands recorded so far have had no further effect.
KeepsEffects(s, t) ==
  /\ t.layout = s.layout /\ t.pending = s.pending /\ t.raced = s.raced
  /\ t.misplaced = s.misplaced /\ t.stale = s.stale

Registers(s, t, S, E, M) ==
  /\ t \in ContextType /\ KeepsControl(s, t) /\ KeepsEffects(s, t)
  /\ t.barriers.stages = s.barriers.stages \cup S
  /\ t.barriers.slices = s.barriers.slices \cup E
  /\ t.barriers.moves = s.barriers.moves \cup M

LEMMA RegistersIs ==
  ASSUME NEW s \in ContextType, NEW S \in SUBSET Stages, NEW E \in SUBSET EntryType,
         NEW M \in SUBSET MoveType
  PROVE  Registers(s, Register(s, S, E, M), S, E, M)
<1> DEFINE t == Register(s, S, E, M)
           B == [stages |-> s.barriers.stages \cup S, slices |-> s.barriers.slices \cup E,
                 moves |-> s.barriers.moves \cup M]
<1>1. s.barriers \in BarriersType
  BY DEF ContextType
<1>2. B \in BarriersType
  BY <1>1 DEF BarriersType
<1>3. /\ B.stages = s.barriers.stages \cup S /\ B.slices = s.barriers.slices \cup E
      /\ B.moves = s.barriers.moves \cup M
  OBVIOUS
<1>4. t = [s EXCEPT !.barriers = B]
  BY DEF Register
<1> HIDE DEF B, t
<1>5. t \in ContextType
  BY <1>2, <1>4 DEF ContextType
<1>6. Registers(s, t, S, E, M)
  BY <1>3, <1>4, <1>5 DEF ContextType, KeepsControl, KeepsEffects, Registers
<1> QED BY <1>6 DEF t

LEMMA EntryIs ==
  ASSUME NEW slice \in SliceType, NEW write \in BOOLEAN
  PROVE  Entry(slice, write) \in EntryType /\ Entry(slice, write).slice = slice
         /\ Entry(slice, write).write = write
BY DEF Entry, EntryType

LEMMA AccessSliceIs ==
  ASSUME NEW s \in ContextType, NEW slice \in SliceType, NEW write \in BOOLEAN,
         NEW stage \in Stages
  PROVE  Registers(s, AccessSlice(s, slice, write, stage), {stage}, {Entry(slice, write)}, {})
BY EntryIs, RegistersIs DEF AccessSlice

LEMMA MovesIs ==
  ASSUME NEW i \in Images, NEW old \in Layouts, NEW new \in Layouts
  PROVE  /\ Moves(i, old, new) \in SUBSET MoveType
         /\ \A m \in Moves(i, old, new) :
              m.image = i /\ m.old = old /\ m.new = new /\ old # new
         /\ old # new => \E m \in Moves(i, old, new) : m.image = i
         /\ OneMoveEach(Moves(i, old, new))
<1>1. CASE old = new
  BY <1>1 DEF Moves, OneMoveEach
<1>2. CASE old # new
  <2>1. Moves(i, old, new) = {[image |-> i, old |-> old, new |-> new]}
    BY <1>2 DEF Moves
  <2>2. [image |-> i, old |-> old, new |-> new] \in MoveType
    BY DEF MoveType
  <2> QED BY <1>2, <2>1, <2>2 DEF OneMoveEach
<1> QED BY <1>1, <1>2

LEMMA WholeIs == \A i \in Images : Whole(i) \in SliceType /\ Whole(i).resource = i
BY DEF Whole, Slice, SliceType

LEMMA AccessImageIs ==
  ASSUME NEW s \in ContextType, NEW i \in Images, NEW old \in Layouts, NEW new \in Layouts,
         NEW stage \in Stages
  PROVE  Registers(s, AccessImage(s, i, old, new, TRUE, stage), {stage},
                   {Entry(Whole(i), TRUE)}, Moves(i, old, new))
<1>1. {Entry(Whole(i), TRUE)} \in SUBSET EntryType
  BY WholeIs, EntryIs
<1>2. Moves(i, old, new) \in SUBSET MoveType
  BY MovesIs
<1>3. (TRUE \/ old # new) = TRUE
  OBVIOUS
<1> QED BY <1>1, <1>2, <1>3, RegistersIs DEF AccessImage

LEMMA AccessSlicesIs ==
  ASSUME NEW s \in ContextType, NEW slices \in SUBSET SliceType, NEW write \in BOOLEAN,
         NEW stage \in Stages
  PROVE  Registers(s, AccessSlices(s, slices, write, stage), {stage : slice \in slices},
                   {Entry(slice, write) : slice \in slices}, {})
<1>1. {Entry(slice, write) : slice \in slices} \in SUBSET EntryType
  BY EntryIs
<1>2. {stage : slice \in slices} \in SUBSET Stages
  OBVIOUS
<1> QED BY <1>1, <1>2, RegistersIs DEF AccessSlices

AttachmentStages(I) == {PassStage(i) : i \in I}
AttachmentEntries(I) == {Entry(Whole(i), TRUE) : i \in I}
AttachmentMoves(I, old, new) == UNION {Moves(i, old[i], new[i]) : i \in I}

LEMMA AccessAttachmentsIs ==
  ASSUME NEW s \in ContextType, NEW I \in SUBSET Images, NEW old \in [Images -> Layouts],
         NEW new \in [Images -> Layouts]
  PROVE  Registers(s, AccessAttachments(s, I, old, new), AttachmentStages(I),
                   AttachmentEntries(I), AttachmentMoves(I, old, new))
<1>1. {PassStage(i) : i \in I} \in SUBSET Stages
  BY LayoutFacts DEF Stages
<1>2. {Entry(Whole(i), TRUE) : i \in I} \in SUBSET EntryType
  <2>1. \A i \in I : Entry(Whole(i), TRUE) \in EntryType
    BY WholeIs, EntryIs
  <2> QED BY <2>1
<1>3. UNION {Moves(i, old[i], new[i]) : i \in I} \in SUBSET MoveType
  <2>1. \A i \in I : Moves(i, old[i], new[i]) \in SUBSET MoveType
    BY MovesIs
  <2> QED BY <2>1
<1> QED
  BY <1>1, <1>2, <1>3, RegistersIs
     DEF AccessAttachments, AttachmentStages, AttachmentEntries, AttachmentMoves

LEMMA PostBarriersIs ==
  ASSUME NEW s \in ContextType
  PROVE  Registers(s, PostBarriers(s), {PassStage(i) : i \in s.framebuffer}, {}, {})
<1>1. {PassStage(i) : i \in s.framebuffer} \in SUBSET Stages
  BY LayoutFacts DEF Stages, ContextType
<1> QED BY <1>1, RegistersIs DEF PostBarriers

LEMMA RegistersTwice ==
  ASSUME NEW s, NEW t, NEW u, NEW S, NEW E, NEW M, NEW S2, NEW E2, NEW M2,
         Registers(s, t, S, E, M), Registers(t, u, S2, E2, M2)
  PROVE  Registers(s, u, S \cup S2, E \cup E2, M \cup M2)
BY DEF Registers, KeepsControl, KeepsEffects

-----------------------------------------------------------------------------
Waited(s) == \A p \in s.pending : WaitedBy[p.stage] \cap s.barriers.stages # {}

MovesKnown(s) ==
  /\ OneMoveEach(s.barriers.moves)
  /\ \A m \in s.barriers.moves : Entry(Whole(m.image), TRUE) \in s.barriers.slices
  /\ s.barriers.slices # {} => s.barriers.stages # {}

WholeImages(A) == \A p \in A : p.slice.resource \in Images => p.slice = Whole(p.slice.resource)

Tracked(s, w) ==
  /\ \A m \in s.barriers.moves :
       m.new = w[m.image] /\ (m.old # "undefined" => s.layout[m.image] \in {"undefined", m.old})
  /\ \A i \in Images :
       (\A m \in s.barriers.moves : m.image # i) => s.layout[i] \in {"undefined", w[i]}

Sound(s, w) ==
  /\ s \in ContextType
  /\ Waited(s) /\ MovesKnown(s) /\ WholeImages(s.pending) /\ Tracked(s, w)
  /\ s.raced = {} /\ s.misplaced = {}

LEMMA NoBarriersIs ==
  ASSUME NEW b \in BarriersType, b.stages = {}, b.slices = {}, b.moves = {}
  PROVE  b = NoBarriers
BY DEF BarriersType, NoBarriers

LEMMA RecordCommandsIs ==
  ASSUME NEW w, NEW s, Sound(s, w), NEW t, t = RecordCommands(s)
  PROVE  /\ Sound(t, w) /\ KeepsControl(s, t) /\ t.pending = {} /\ t.barriers = NoBarriers
         /\ t.stale = s.stale \cup AspectsOf(Lost(s.barriers.moves))
<1>1. s \in ContextType /\ s.barriers \in BarriersType
  BY DEF Sound, ContextType
<1> DEFINE S == s.barriers.stages
           M == s.barriers.moves
<1>2. S \in SUBSET Stages /\ M \in SUBSET MoveType /\ OneMoveEach(M)
  BY <1>1 DEF BarriersType, Sound, MovesKnown
<1>3. CASE S = {}
  <2>1. s.barriers.slices = {} /\ M = {} /\ s.pending = {}
    BY <1>3 DEF Sound, MovesKnown, Waited
  <2>2. s.barriers = NoBarriers
    BY <1>1, <1>3, <2>1, NoBarriersIs
  <2>3. t = s
    BY <1>3 DEF RecordCommands
  <2>4. AspectsOf(Lost(M)) = {}
    BY <2>1 DEF Lost, AspectsOf
  <2> QED BY <2>1, <2>2, <2>3, <2>4 DEF KeepsControl
<1>4. CASE S # {}
  <2>1. PICK u : u = Barrier(s, S, M)
    OBVIOUS
  <2>2. t = [u EXCEPT !.barriers = NoBarriers]
    BY <1>4, <2>1 DEF RecordCommands
  <2>3. BarrierEffect(s, u, S, M)
    <3> HIDE DEF S, M
    <3> QED BY <1>1, <1>2, <2>1, BarrierIs
  <2>4. u.pending = {}
    BY <2>3 DEF Sound, Waited, BarrierEffect
  <2>5. u.misplaced = {} /\ u.raced = {}
    BY <2>3, <2>4 DEF Sound, Tracked, BarrierEffect
  <2>6. NoBarriers \in BarriersType /\ NoBarriers.stages = {} /\ NoBarriers.slices = {}
        /\ NoBarriers.moves = {}
    BY DEF NoBarriers, BarriersType
  <2>7. /\ t \in ContextType /\ KeepsControl(u, t) /\ t.barriers = NoBarriers
        /\ t.pending = {} /\ t.misplaced = {} /\ t.raced = {} /\ t.stale = u.stale
        /\ t.layout = u.layout
    BY <2>2, <2>3, <2>4, <2>5, <2>6 DEF ContextType, KeepsControl, BarrierEffect
  <2>8. ASSUME NEW i \in Images PROVE t.layout[i] \in {"undefined", w[i]}
    <3>1. CASE \A m \in M : m.image # i
      BY <2>3, <2>7, <3>1 DEF Sound, Tracked, BarrierEffect
    <3>2. CASE \E m \in M : m.image = i
      BY <2>3, <2>7, <3>2 DEF Sound, Tracked, BarrierEffect
    <3> QED BY <3>1, <3>2
  <2>9. Sound(t, w)
    BY <2>6, <2>7, <2>8 DEF Sound, Waited, MovesKnown, WholeImages, Tracked, OneMoveEach
  <2> QED BY <2>3, <2>7, <2>9 DEF KeepsControl, BarrierEffect
<1> QED BY <1>3, <1>4

-----------------------------------------------------------------------------
Registered(s) ==
  \A p \in s.pending : \E e \in s.barriers.slices : e.slice = p.slice /\ (p.write => e.write)

Between(s, w) ==
  /\ Sound(s, w) /\ Registered(s)
  /\ \A m \in s.barriers.moves : m.old # "undefined"

LEMMA RecordIsBetween ==
  ASSUME NEW w, NEW s, Between(s, w), NEW t, t = RecordCommands(s)
  PROVE  /\ Between(t, w) /\ KeepsControl(s, t) /\ t.pending = {} /\ t.barriers = NoBarriers
         /\ t.stale = s.stale
<1>1. /\ Sound(t, w) /\ KeepsControl(s, t) /\ t.pending = {} /\ t.barriers = NoBarriers
      /\ t.stale = s.stale \cup AspectsOf(Lost(s.barriers.moves))
  BY RecordCommandsIs DEF Between
<1>2. AspectsOf(Lost(s.barriers.moves)) = {}
  BY DEF Between, Lost, AspectsOf
<1>3. NoBarriers.moves = {}
  BY DEF NoBarriers
<1> QED BY <1>1, <1>2, <1>3 DEF Between, Registered

\* What was dirty has been recorded.
Recorded(s, t, w, reads, writes) ==
  /\ Between(t, w) /\ KeepsControl(s, t) /\ t.stale = s.stale
  /\ \A r \in reads : ~Dirty(t, r, FALSE)
  /\ \A x \in writes : ~Dirty(t, x, TRUE)

LEMMA RecordIfDirtyIs ==
  ASSUME NEW w, NEW s, Between(s, w), NEW reads, NEW writes, NEW t,
         t = RecordIfDirty(s, reads, writes)
  PROVE  Recorded(s, t, w, reads, writes)
<1>1. CASE t = s
  <2>1. CASE (\E r \in reads : Dirty(s, r, FALSE)) \/ (\E x \in writes : Dirty(s, x, TRUE))
    <3>1. t = RecordCommands(s)
      BY <2>1 DEF RecordIfDirty
    <3>2. Between(t, w) /\ KeepsControl(s, t) /\ t.barriers = NoBarriers /\ t.stale = s.stale
      BY <3>1, RecordIsBetween
    <3>3. NoBarriers.slices = {}
      BY DEF NoBarriers
    <3> QED BY <3>2, <3>3 DEF Dirty, Recorded
  <2>2. CASE ~((\E r \in reads : Dirty(s, r, FALSE)) \/ (\E x \in writes : Dirty(s, x, TRUE)))
    BY <1>1, <2>2 DEF KeepsControl, Recorded
  <2> QED BY <2>1, <2>2
<1>2. CASE t # s
  <2>1. t = RecordCommands(s)
    BY <1>2 DEF RecordIfDirty
  <2>2. Between(t, w) /\ KeepsControl(s, t) /\ t.barriers = NoBarriers /\ t.stale = s.stale
    BY <2>1, RecordIsBetween
  <2>3. NoBarriers.slices = {}
    BY DEF NoBarriers
  <2> QED BY <2>2, <2>3 DEF Dirty, Recorded
<1> QED BY <1>1, <1>2

LEMMA OverlapIs ==
  /\ \A x, y \in SliceType : Overlap(x, y) => Overlap(y, x) /\ x.resource = y.resource
  /\ \A i \in Images : Overlap(Whole(i), Whole(i))
BY DEF Overlap, SliceType, Whole, Slice

LEMMA NotDirtyIs ==
  ASSUME NEW w, NEW s, Between(s, w), NEW x \in SliceType, NEW write \in BOOLEAN,
         ~Dirty(s, x, write)
  PROVE  \A p \in s.pending : Overlap(p.slice, x) => ~p.write /\ ~write
<1> SUFFICES ASSUME NEW p \in s.pending, Overlap(p.slice, x) PROVE ~p.write /\ ~write
  OBVIOUS
<1>1. PICK e \in s.barriers.slices : e.slice = p.slice /\ (p.write => e.write)
  BY DEF Between, Registered
<1>2. p.slice \in SliceType
  BY DEF Between, Sound, ContextType, AccessType
<1>3. Overlap(x, e.slice)
  BY <1>1, <1>2, OverlapIs
<1>4. ~(write \/ e.write)
  BY <1>3 DEF Dirty
<1> QED BY <1>1, <1>4

\* No move of the image is left to do, and no use of it to wait for.
Settled(s, w, i) ==
  (\A m \in s.barriers.moves : m.image # i) /\ s.layout[i] \in {"undefined", w[i]}
Unused(s, i) == \A p \in s.pending : p.slice.resource # i

LEMMA CleanImageIs ==
  ASSUME NEW w, NEW s, Between(s, w), NEW i \in Images, NEW write \in BOOLEAN,
         ~Dirty(s, Whole(i), write)
  PROVE  Settled(s, w, i) /\ (write => Unused(s, i))
<1>1. \A m \in s.barriers.moves : m.image # i
  <2> SUFFICES ASSUME NEW m \in s.barriers.moves, m.image = i PROVE FALSE
    OBVIOUS
  <2>1. Entry(Whole(i), TRUE) \in s.barriers.slices
    BY DEF Between, Sound, MovesKnown
  <2>2. Entry(Whole(i), TRUE).slice = Whole(i) /\ Entry(Whole(i), TRUE).write = TRUE
    BY DEF Entry
  <2>3. Overlap(Whole(i), Whole(i))
    BY OverlapIs
  <2> QED BY <2>1, <2>2, <2>3 DEF Dirty
<1>2. s.layout[i] \in {"undefined", w[i]}
  BY <1>1 DEF Between, Sound, Tracked
<1>3. ASSUME write, NEW p \in s.pending, p.slice.resource = i PROVE FALSE
  <2>1. p.slice = Whole(i)
    BY <1>3 DEF Between, Sound, WholeImages
  <2>2. Overlap(p.slice, Whole(i))
    BY <2>1, OverlapIs
  <2>3. Whole(i) \in SliceType
    BY WholeIs
  <2> QED BY <1>3, <2>2, <2>3, NotDirtyIs
<1> QED BY <1>1, <1>2, <1>3 DEF Settled, Unused

\* Only the slices looked at matter for what is dirty.
LEMMA DirtyIs ==
  ASSUME NEW s, NEW t, t.barriers = s.barriers, NEW x, NEW write
  PROVE  ~Dirty(s, x, write) => ~Dirty(t, x, write)
BY DEF Dirty

Acquired(s, t, v, i, old) ==
  /\ Between(t, v) /\ KeepsControl(s, t) /\ t.barriers = s.barriers
  /\ t.stale \subseteq s.stale \cup AspectsOf({i})
  /\ old # "undefined" => t.stale = s.stale

LEMMA AcquireIs ==
  ASSUME NEW w \in [Images -> Layouts], NEW s, Between(s, w), NEW i \in Images,
         ~Dirty(s, Whole(i), TRUE),
         NEW old \in {"undefined", w[i]}, NEW new \in Layouts, new # "undefined",
         NEW S \in SUBSET Stages, NEW t, t = Acquire(s, i, old, new, S),
         NEW v, v = [w EXCEPT ![i] = new]
  PROVE  Acquired(s, t, v, i, old)
<1> DEFINE M == Moves(i, old, new)
<1>1. s \in ContextType /\ "undefined" \in Layouts
  BY LayoutFacts DEF Between, Sound
<1>2. M \in SUBSET MoveType /\ OneMoveEach(M)
      /\ (\A m \in M : m.image = i /\ m.old = old /\ m.new = new)
      /\ (old # new => \E m \in M : m.image = i)
  BY <1>1, MovesIs
<1>3. t = Barrier(s, S, M)
  BY DEF Acquire
<1> HIDE DEF M
<1>4. BarrierEffect(s, t, S, M)
  BY <1>1, <1>2, <1>3, BarrierIs
<1>5. /\ \A m \in s.barriers.moves : m.image # i
      /\ s.layout[i] \in {"undefined", w[i]}
      /\ \A p \in s.pending : p.slice.resource # i
  <2>1. Settled(s, w, i) /\ Unused(s, i)
    BY CleanImageIs
  <2> QED BY <2>1 DEF Settled, Unused
<1>6. t.pending \subseteq s.pending
  BY <1>4 DEF BarrierEffect
<1>7. t.misplaced = {} /\ t.raced = {}
  BY <1>2, <1>4, <1>5, <1>6 DEF BarrierEffect, Between, Sound
<1>8. t.layout[i] \in {"undefined", new}
  <2>1. CASE old = new
    <3>1. t.layout[i] = s.layout[i]
      BY <1>2, <1>4, <2>1 DEF BarrierEffect, M, Moves
    <3> QED BY <1>5, <2>1, <3>1
  <2>2. CASE old # new
    BY <1>2, <1>4, <2>2 DEF BarrierEffect
  <2> QED BY <2>1, <2>2
<1>9. \A j \in Images : j # i => t.layout[j] = s.layout[j]
  BY <1>2, <1>4 DEF BarrierEffect
<1>10. v[i] = new /\ \A j \in Images : j # i => v[j] = w[j]
  OBVIOUS
<1>11. t.barriers = s.barriers /\ t \in ContextType /\ KeepsControl(s, t)
  BY <1>4 DEF BarrierEffect
<1>12. s.barriers.moves \subseteq MoveType
  BY <1>1 DEF ContextType, BarriersType
<1>13. Tracked(t, v)
  <2>1. ASSUME NEW m \in s.barriers.moves
        PROVE  m.new = v[m.image] /\ (m.old # "undefined" => t.layout[m.image] \in {"undefined", m.old})
    <3>1. m.image \in Images /\ m.image # i
      BY <1>5, <1>12 DEF MoveType
    <3> QED BY <1>9, <1>10, <3>1 DEF Between, Sound, Tracked
  <2>2. ASSUME NEW j \in Images, \A m \in s.barriers.moves : m.image # j
        PROVE  t.layout[j] \in {"undefined", v[j]}
    BY <1>8, <1>9, <1>10, <2>2 DEF Between, Sound, Tracked
  <2> QED BY <1>11, <2>1, <2>2 DEF Tracked
<1>14. Between(t, v)
  BY <1>6, <1>7, <1>11, <1>13 DEF Between, Sound, Waited, MovesKnown, WholeImages, Registered
<1>15. t.stale \subseteq s.stale \cup AspectsOf({i}) /\ (old # "undefined" => t.stale = s.stale)
  <2>1. t.stale = s.stale \cup AspectsOf(Lost(M))
    BY <1>4 DEF BarrierEffect
  <2>2. Lost(M) \subseteq {i} /\ (old # "undefined" => Lost(M) = {})
    BY <1>2 DEF Lost
  <2>3. AspectsOf(Lost(M)) \subseteq AspectsOf({i}) /\ (old # "undefined" => AspectsOf(Lost(M)) = {})
    BY <2>2 DEF AspectsOf
  <2> QED BY <2>1, <2>3
<1> QED BY <1>11, <1>14, <1>15 DEF Acquired

-----------------------------------------------------------------------------
\* A command has accessed A, and may have had its images cleared.
Performs(s, t, A) ==
  /\ t \in ContextType /\ KeepsControl(s, t) /\ t.barriers = s.barriers /\ t.layout = s.layout
  /\ t.raced = s.raced /\ t.misplaced = s.misplaced /\ t.pending = s.pending \cup A

\* The registration covers the accesses, and the moves are of images that
\* have none pending.
Covers(s, A, S, E, M) ==
  /\ \A a \in A : /\ WaitedBy[a.stage] \cap S # {}
                  /\ \E e \in E : e.slice = a.slice /\ (a.write => e.write)
  /\ E # {} => S # {}
  /\ M \subseteq MoveType /\ OneMoveEach(M)
  /\ \A m \in M : /\ Entry(Whole(m.image), TRUE) \in E
                  /\ m.old # "undefined" /\ s.layout[m.image] \in {"undefined", m.old}
                  /\ \A n \in s.barriers.moves : n.image # m.image

\* v is what w becomes by the moves.
Becomes(w, v, M) ==
  /\ \A m \in M : v[m.image] = m.new
  /\ \A i \in Images : (\A m \in M : m.image # i) => v[i] = w[i]

Leads(s, t, u, v) == Between(u, v) /\ KeepsControl(s, u) /\ u.stale = t.stale

LEMMA PerformedIs ==
  ASSUME NEW w, NEW v, NEW s, NEW t, NEW u, NEW A, NEW S, NEW E, NEW M,
         Between(s, w), Performs(s, t, A), WholeImages(A), Registers(t, u, S, E, M),
         Covers(s, A, S, E, M), Becomes(w, v, M)
  PROVE  Leads(s, t, u, v)
<1>1. /\ u \in ContextType /\ KeepsControl(s, u) /\ u.stale = t.stale
      /\ u.pending = s.pending \cup A /\ u.raced = {} /\ u.misplaced = {} /\ u.layout = s.layout
      /\ u.barriers.stages = s.barriers.stages \cup S
      /\ u.barriers.slices = s.barriers.slices \cup E
      /\ u.barriers.moves = s.barriers.moves \cup M
  BY DEF Performs, Registers, KeepsControl, KeepsEffects, Between, Sound
<1>2. s.barriers.moves \subseteq MoveType
  BY DEF Between, Sound, ContextType, BarriersType
<1>3. Waited(u)
  BY <1>1 DEF Waited, Between, Sound, Covers
<1>4. Registered(u)
  BY <1>1 DEF Registered, Between, Covers
<1>5. WholeImages(u.pending)
  BY <1>1 DEF WholeImages, Between, Sound
<1>6. MovesKnown(u)
  <2>1. OneMoveEach(u.barriers.moves)
    BY <1>1 DEF OneMoveEach, Between, Sound, MovesKnown, Covers
  <2>2. \A m \in u.barriers.moves : Entry(Whole(m.image), TRUE) \in u.barriers.slices
    BY <1>1 DEF Between, Sound, MovesKnown, Covers
  <2>3. u.barriers.slices # {} => u.barriers.stages # {}
    BY <1>1 DEF Between, Sound, MovesKnown, Covers
  <2> QED BY <2>1, <2>2, <2>3 DEF MovesKnown
<1>7. Tracked(u, v)
  <2>1. ASSUME NEW m \in M
        PROVE  m.new = v[m.image] /\ (m.old # "undefined" => u.layout[m.image] \in {"undefined", m.old})
    BY <1>1 DEF Covers, Becomes
  <2>2. ASSUME NEW m \in s.barriers.moves
        PROVE  m.new = v[m.image] /\ (m.old # "undefined" => u.layout[m.image] \in {"undefined", m.old})
    <3>1. m.image \in Images /\ \A n \in M : n.image # m.image
      BY <1>2 DEF MoveType, Covers
    <3>2. v[m.image] = w[m.image]
      BY <3>1 DEF Becomes
    <3> QED BY <1>1, <3>2 DEF Between, Sound, Tracked
  <2>3. ASSUME NEW i \in Images, \A m \in u.barriers.moves : m.image # i
        PROVE  u.layout[i] \in {"undefined", v[i]}
    <3>1. (\A m \in s.barriers.moves : m.image # i) /\ (\A m \in M : m.image # i)
      BY <1>1, <2>3
    <3> QED BY <1>1, <3>1 DEF Between, Sound, Tracked, Becomes
  <2> QED BY <1>1, <2>1, <2>2, <2>3 DEF Tracked
<1>8. \A m \in u.barriers.moves : m.old # "undefined"
  BY <1>1 DEF Between, Covers
<1> QED BY <1>1, <1>3, <1>4, <1>5, <1>6, <1>7, <1>8 DEF Between, Sound, Leads

-----------------------------------------------------------------------------
LEMMA WaitedByIs ==
  /\ \A st \in {"transfer", "compute", "depth", "color"} : st \in WaitedBy[st]
  /\ "color" \in WaitedBy["depth"] /\ "depth" \in WaitedBy["shader"] /\ "color" \in WaitedBy["shader"]
  /\ {"depth", "color"} \subseteq Stages /\ {"transfer", "compute", "shader"} \subseteq Stages
BY DEF WaitedBy, Stages

LEMMA AccessingIs ==
  ASSUME NEW slice \in SliceType, NEW write \in BOOLEAN, NEW stage \in Stages
  PROVE  /\ Accessing(slice, write, stage) \in AccessType
         /\ Accessing(slice, write, stage).slice = slice
         /\ Accessing(slice, write, stage).write = write
         /\ Accessing(slice, write, stage).stage = stage
BY DEF Accessing, AccessType

\* The conclusion of UseIs about a command that conflicts with nothing.
LEMMA UsePerforms ==
  ASSUME NEW s \in ContextType, NEW A \in SUBSET AccessType, NEW t, t = Use(s, A),
         \A p \in s.pending, a \in A : Overlap(p.slice, a.slice) => ~p.write /\ ~a.write
  PROVE  Performs(s, t, A) /\ t.stale = s.stale
BY UseIs DEF Performs

LEMMA ClearedPerforms ==
  ASSUME NEW s, NEW t, NEW A, Performs(s, t, A), NEW i \in Images, NEW B \in SUBSET AspectNames,
         NEW u, u = Cleared(t, i, B)
  PROVE  /\ Performs(s, u, A) /\ u.stale \subseteq t.stale
         /\ \A a \in B : <<i, a>> \notin u.stale
<1>1. /\ u \in ContextType /\ KeepsControl(t, u)
      /\ u.barriers = t.barriers /\ u.layout = t.layout
      /\ u.misplaced = t.misplaced /\ u.raced = t.raced /\ u.pending = t.pending
      /\ u.stale = t.stale \ ({i} \X B)
  BY ClearedIs DEF Performs
<1> QED BY <1>1 DEF Performs, KeepsControl

\* An attachment or the destination of a copy: moved to the layout of the
\* command, used by it alone, and left to be moved to the next layout.
LEMMA ImageUsed ==
  ASSUME NEW w \in [Images -> Layouts], NEW s, Between(s, w), NEW i \in Images,
         ~Dirty(s, Whole(i), TRUE), w[i] # "undefined",
         NEW stage \in {"transfer", "depth", "color"},
         NEW t, Performs(s, t, {Accessing(Whole(i), TRUE, stage)}),
         NEW store \in Layouts,
         NEW u, u = AccessImage(t, i, w[i], store, TRUE, stage),
         NEW v, v = [w EXCEPT ![i] = store]
  PROVE  Leads(s, t, u, v)
<1> DEFINE A == {Accessing(Whole(i), TRUE, stage)}
           E == {Entry(Whole(i), TRUE)}
           M == Moves(i, w[i], store)
<1>1. stage \in Stages /\ Whole(i) \in SliceType /\ Whole(i).resource = i /\ t \in ContextType
  BY WaitedByIs, WholeIs DEF Performs
<1>2. Accessing(Whole(i), TRUE, stage).slice = Whole(i) /\ Accessing(Whole(i), TRUE, stage).write = TRUE
      /\ Accessing(Whole(i), TRUE, stage).stage = stage
  BY DEF Accessing
<1>3. Entry(Whole(i), TRUE).slice = Whole(i) /\ Entry(Whole(i), TRUE).write = TRUE
  BY <1>1, EntryIs
<1>4. Registers(t, u, {stage}, E, M)
  BY <1>1, AccessImageIs
<1>5. M \in SUBSET MoveType /\ OneMoveEach(M)
      /\ (\A m \in M : m.image = i /\ m.old = w[i] /\ m.new = store)
      /\ (w[i] # store => \E m \in M : m.image = i)
  BY MovesIs
<1>6. M = {} => w[i] = store
  BY <1>5
<1>7. Settled(s, w, i)
  BY CleanImageIs
<1>8. WaitedBy[stage] \cap {stage} # {}
  BY WaitedByIs
<1>9. Covers(s, A, {stage}, E, M)
  <2>1. \A a \in A : /\ WaitedBy[a.stage] \cap {stage} # {}
                     /\ \E e \in E : e.slice = a.slice /\ (a.write => e.write)
    BY <1>2, <1>3, <1>8
  <2>2. \A m \in M : /\ Entry(Whole(m.image), TRUE) \in E
                     /\ m.old # "undefined" /\ s.layout[m.image] \in {"undefined", m.old}
                     /\ \A n \in s.barriers.moves : n.image # m.image
    BY <1>5, <1>7 DEF Settled
  <2> HIDE DEF A, E, M
  <2> QED BY <1>5, <2>1, <2>2 DEF Covers
<1>10. Becomes(w, v, M)
  BY <1>5 DEF Becomes
<1>11. WholeImages(A)
  BY <1>1, <1>2 DEF WholeImages
<1> HIDE DEF A, E, M
<1>12. Performs(s, t, A)
  BY DEF A
<1>13. Leads(s, t, u, v)
  <2>1. PICK S : S = {stage}
    OBVIOUS
  <2>2. Registers(t, u, S, E, M) /\ Covers(s, A, S, E, M)
    BY <1>4, <1>9, <2>1
  <2> QED BY <1>10, <1>11, <1>12, <2>2, PerformedIs
<1> QED BY <1>13

LEMMA UseImage ==
  ASSUME NEW w, NEW s, Between(s, w), NEW i \in Images, ~Dirty(s, Whole(i), TRUE),
         NEW stage \in Stages,
         NEW t, t = Use(s, {Accessing(Whole(i), TRUE, stage)})
  PROVE  Performs(s, t, {Accessing(Whole(i), TRUE, stage)}) /\ t.stale = s.stale
<1> DEFINE a == Accessing(Whole(i), TRUE, stage)
<1>1. Whole(i) \in SliceType /\ Whole(i).resource = i /\ s \in ContextType
  BY WholeIs DEF Between, Sound
<1>2. a \in AccessType /\ a.slice = Whole(i)
  BY <1>1, AccessingIs
<1>3. Unused(s, i)
  BY CleanImageIs
<1> HIDE DEF a
<1>4. ASSUME NEW p \in s.pending PROVE ~Overlap(p.slice, a.slice)
  <2>1. p.slice \in SliceType
    BY <1>1 DEF ContextType, AccessType
  <2> QED BY <1>1, <1>2, <1>3, <2>1, OverlapIs DEF Unused
<1>5. PICK A : A = {a}
  OBVIOUS
<1>6. t = Use(s, A) /\ A \in SUBSET AccessType
  BY <1>2, <1>5 DEF a
<1>7. \A p \in s.pending, b \in A : Overlap(p.slice, b.slice) => ~p.write /\ ~b.write
  BY <1>4, <1>5
<1>8. Performs(s, t, A) /\ t.stale = s.stale
  BY <1>1, <1>6, <1>7, UsePerforms
<1> QED BY <1>5, <1>8 DEF a

\* The effect of a clear in a pass of its own: the image is left to be moved to
\* the layout store, and the aspects are what was called for.
Clears(s, t, w, clear, store) ==
  /\ Between(t, [w EXCEPT ![clear.image] = store]) /\ KeepsControl(s, t)
  /\ t.stale \subseteq s.stale
  /\ \A a \in clear.aspects : <<clear.image, a>> \notin t.stale

LEMMA ClearInPassIs ==
  ASSUME NEW w \in [Images -> Layouts], NEW s, Between(s, w), NEW clear \in ClearType,
         NEW load \in {"undefined", w[clear.image]}, w[clear.image] # "undefined",
         load = "undefined" => clear.aspects = Aspects(clear.image),
         NEW store \in Layouts, NEW t, t = ClearInPass(s, clear, load, store)
  PROVE  Clears(s, t, w, clear, store)
<1>1. PICK i \in Images : i = clear.image
  BY DEF ClearType
<1>2. PICK layout : layout = ClearLayout(i)
  OBVIOUS
<1>3. PICK stage : stage = PassStage(i)
  OBVIOUS
<1>4. PICK clean : clean = RecordIfDirty(s, {}, {Whole(i)})
  OBVIOUS
<1>5. PICK moved : moved = IF load = layout THEN clean ELSE Acquire(clean, i, load, layout, {stage})
  OBVIOUS
<1>6. PICK access : access = Accessing(Whole(i), TRUE, stage)
  OBVIOUS
<1>7. PICK used : used = Use(moved, {access})
  OBVIOUS
<1>8. PICK done : done = Cleared(used, i, clear.aspects)
  OBVIOUS
<1>9. /\ layout \in Layouts /\ layout # "undefined" /\ stage \in {"depth", "color"} /\ stage \in Stages
      /\ clear.aspects \in SUBSET AspectNames
  BY <1>1, <1>2, <1>3, LayoutFacts DEF Stages, ClearType
<1>10. /\ Between(clean, w) /\ KeepsControl(s, clean) /\ clean.stale = s.stale
       /\ ~Dirty(clean, Whole(i), TRUE)
  <2>1. PICK R, W : R = {} /\ W = {Whole(i)}
    OBVIOUS
  <2>2. Recorded(s, clean, w, R, W)
    BY <1>4, <2>1, RecordIfDirtyIs
  <2> QED BY <2>1, <2>2 DEF Recorded
<1> DEFINE v == [w EXCEPT ![i] = layout]
<1>11. v \in [Images -> Layouts] /\ v[i] = layout
  BY <1>9
<1>12. /\ Between(moved, v) /\ KeepsControl(clean, moved) /\ moved.barriers = clean.barriers
       /\ moved.stale \subseteq clean.stale \cup AspectsOf({i})
       /\ load # "undefined" => moved.stale = clean.stale
  <2>1. CASE load = layout
    <3>1. v = w
      BY <1>1, <1>9, <2>1
    <3> QED BY <1>5, <1>10, <2>1, <3>1 DEF KeepsControl
  <2>2. CASE load # layout
    <3>1. PICK S \in SUBSET Stages : S = {stage}
      BY <1>9
    <3>2. moved = Acquire(clean, i, load, layout, S) /\ load \in {"undefined", w[i]}
      BY <1>1, <1>5, <2>2, <3>1
    <3>3. PICK x : x = v
      OBVIOUS
    <3>4. Acquired(clean, moved, x, i, load)
      BY <1>9, <1>10, <3>2, <3>3, AcquireIs
    <3> QED BY <3>3, <3>4 DEF Acquired
  <2> QED BY <2>1, <2>2
<1> HIDE DEF v
<1>13. ~Dirty(moved, Whole(i), TRUE)
  BY <1>10, <1>12, DirtyIs
<1>14. moved.layout[i] \in {"undefined", layout} /\ moved \in ContextType
  <2>1. Settled(moved, v, i)
    BY <1>12, <1>13, CleanImageIs
  <2> QED BY <1>11, <1>12, <2>1 DEF Settled, Between, Sound
<1>15. InLayouts(moved, {i}, ClearLayout) = moved
  <2>1. {j \in {i} : moved.layout[j] # "undefined" /\ moved.layout[j] # ClearLayout(j)} = {}
    BY <1>2, <1>14
  <2> QED BY <1>14, <2>1, NotMisplaced DEF InLayouts
<1>16. Performs(moved, used, {access}) /\ used.stale = moved.stale
  BY <1>6, <1>7, <1>9, <1>12, <1>13, UseImage
<1>17. /\ Performs(moved, done, {access}) /\ done.stale \subseteq used.stale
       /\ \A a \in clear.aspects : <<i, a>> \notin done.stale
       /\ done.stale = used.stale \ ({i} \X clear.aspects)
  <2>1. done.stale = used.stale \ ({i} \X clear.aspects)
    BY <1>8, <1>9, <1>16, ClearedIs DEF Performs
  <2> QED BY <1>8, <1>9, <1>16, <2>1, ClearedPerforms
<1>18. t = AccessImage(done, i, v[i], store, TRUE, stage)
  <2>1. t = AccessImage(Cleared(Use(InLayouts(moved, {i}, ClearLayout), {access}), i, clear.aspects),
                        i, layout, store, TRUE, stage)
    BY <1>1, <1>2, <1>3, <1>4, <1>5, <1>6 DEF ClearInPass
  <2> QED BY <1>7, <1>8, <1>11, <1>15, <2>1
<1>19. /\ Between(t, [v EXCEPT ![i] = store]) /\ KeepsControl(moved, t) /\ t.stale = done.stale
  <2>1. PICK x : x = [v EXCEPT ![i] = store]
    OBVIOUS
  <2>2. Performs(moved, done, {Accessing(Whole(i), TRUE, stage)}) /\ v[i] # "undefined"
    BY <1>6, <1>9, <1>11, <1>17
  <2>3. Leads(moved, done, t, x)
    BY <1>9, <1>11, <1>12, <1>13, <1>18, <2>1, <2>2, ImageUsed
  <2> QED BY <2>1, <2>3 DEF Leads
<1>20. [v EXCEPT ![i] = store] = [w EXCEPT ![i] = store]
  BY DEF v
<1>21. t.stale \subseteq s.stale
  <2>1. CASE load # "undefined"
    BY <1>10, <1>12, <1>16, <1>17, <1>19, <2>1
  <2>2. CASE load = "undefined"
    <3>1. AspectsOf({i}) \subseteq {i} \X clear.aspects
      BY <1>1, <2>2 DEF AspectsOf
    <3> QED BY <1>10, <1>12, <1>16, <1>17, <1>19, <3>1
  <2> QED BY <2>1, <2>2
<1>22. KeepsControl(s, t)
  BY <1>10, <1>12, <1>19 DEF KeepsControl
<1> QED BY <1>1, <1>17, <1>19, <1>20, <1>21, <1>22 DEF Clears

-----------------------------------------------------------------------------
\* While clears are flushed: the layout an image will be in when the barriers
\* have been recorded.  With a pass to follow, loads says so.
Wanted(s, pass) ==
  IF pass THEN [i \in Images |-> IF s.loads[i] = BoundLayout(i) THEN BoundLayout(i) ELSE InfoLayout(i)]
  ELSE InfoLayouts

SameFrame(s, t) ==
  /\ t.targets = s.targets /\ t.framebuffer = s.framebuffer /\ t.dirty = s.dirty
  /\ t.bound = s.bound /\ t.rtLayouts = s.rtLayouts /\ t.deferred = s.deferred
  /\ t.late = s.late /\ t.overtaken = s.overtaken

\* What has been folded into the pass: colour attachments, cleared as a whole.
FoldsOf(first, s, i) ==
  /\ s.loads[i] \in {"undefined", InfoLayout(i), BoundLayout(i)}
  /\ ~Attached(first, i) => s.loads[i] = InfoLayout(i)
  /\ s.loads[i] = "undefined" => i \in Colors /\ s.clears[i] = Aspects(i)
  /\ s.loads[i] # "undefined" => s.clears[i] = {}
  /\ i \in Colors => s.loads[i] # BoundLayout(i)

Folds(first, s, pass) ==
  IF pass THEN \A i \in Images : FoldsOf(first, s, i)
  ELSE s.loads = first.loads /\ s.clears = first.clears

Flushing(first, s, pass) ==
  Between(s, Wanted(s, pass)) /\ SameFrame(first, s) /\ Folds(first, s, pass)

\* A clear has been performed, or folded into the pass.
Done(first, s, t, pass, clear) ==
  /\ Flushing(first, t, pass) /\ t.stale \subseteq s.stale
  /\ \A a \in clear.aspects : <<clear.image, a>> \in t.stale => a \in t.clears[clear.image]
  /\ \A j \in Images : s.clears[j] \subseteq t.clears[j]

LEMMA WantedType ==
  ASSUME NEW s, NEW pass \in BOOLEAN
  PROVE  /\ Wanted(s, pass) \in [Images -> Layouts]
         /\ \A i \in Images : Wanted(s, pass)[i] \in {InfoLayout(i), BoundLayout(i)}
<1>1. \A i \in Images : InfoLayout(i) \in Layouts /\ BoundLayout(i) \in Layouts
  BY LayoutFacts
<1>2. CASE pass
  BY <1>1, <1>2 DEF Wanted
<1>3. CASE ~pass
  BY <1>1, <1>3 DEF Wanted, InfoLayouts
<1> QED BY <1>2, <1>3

\* What is bound to be loaded and cleared changes nothing recorded.
LEMMA BetweenKept ==
  ASSUME NEW w, NEW s, Between(s, w), NEW t \in ContextType, KeepsEffects(s, t),
         t.barriers = s.barriers
  PROVE  Between(t, w)
BY DEF Between, Sound, Waited, MovesKnown, Tracked, Registered, KeepsEffects

FoldedIn(s, t, i, A, x) ==
  /\ t \in ContextType /\ KeepsEffects(s, t) /\ SameFrame(s, t) /\ t.barriers = s.barriers
  /\ t.clears = [s.clears EXCEPT ![i] = A] /\ t.loads = [s.loads EXCEPT ![i] = x]

LEMMA FoldedIs ==
  ASSUME NEW s \in ContextType, NEW i \in Images, NEW A \in SUBSET AspectNames, NEW x \in Layouts, NEW t,
         t = [s EXCEPT !.clears[i] = A, !.loads[i] = x]
  PROVE  FoldedIn(s, t, i, A, x)
<1> DEFINE C == [s.clears EXCEPT ![i] = A]
           L == [s.loads EXCEPT ![i] = x]
<1>1. C \in [Images -> SUBSET AspectNames] /\ L \in [Images -> Layouts]
  BY DEF ContextType
<1>2. t = [s EXCEPT !.clears = C, !.loads = L]
  OBVIOUS
<1> HIDE DEF C, L
<1>3. t \in ContextType
  BY <1>1, <1>2 DEF ContextType
<1> QED BY <1>2, <1>3 DEF ContextType, KeepsEffects, SameFrame, C, L, FoldedIn

LEMMA FoldClear ==
  ASSUME NEW first, NEW s, Flushing(first, s, TRUE), NEW clear \in ClearType,
         NEW i \in Colors, i = clear.image, Attached(first, i),
         NEW t, t = [s EXCEPT !.clears[i] = clear.aspects, !.loads[i] = "undefined"]
  PROVE  Done(first, s, t, TRUE, clear)
<1>1. clear.aspects = Aspects(i) /\ clear.aspects \in SUBSET AspectNames /\ i \in Images
  BY DEF ClearType, Aspects, AspectNames, Images
<1>2. s \in ContextType /\ s.loads \in [Images -> Layouts] /\ s.clears \in [Images -> SUBSET AspectNames]
  BY DEF Flushing, Between, Sound, ContextType
<1>3. PICK A, x : A = clear.aspects /\ x = "undefined"
  OBVIOUS
<1>4. x \in Layouts /\ A \in SUBSET AspectNames /\ t = [s EXCEPT !.clears[i] = A, !.loads[i] = x]
  BY <1>1, <1>3, LayoutFacts
<1>5. /\ t \in ContextType /\ KeepsEffects(s, t) /\ SameFrame(s, t) /\ t.barriers = s.barriers
      /\ t.clears = [s.clears EXCEPT ![i] = A] /\ t.loads = [s.loads EXCEPT ![i] = x]
  <2>1. FoldedIn(s, t, i, A, x)
    BY <1>1, <1>2, <1>4, FoldedIs
  <2> QED BY <2>1 DEF FoldedIn
<1>6. /\ t.clears[i] = Aspects(i) /\ t.loads[i] = "undefined"
      /\ \A j \in Images : j # i => t.clears[j] = s.clears[j] /\ t.loads[j] = s.loads[j]
  BY <1>1, <1>2, <1>3, <1>5
<1>7. \A j \in Images : FoldsOf(first, s, j)
  BY DEF Flushing, Folds
<1>8. ASSUME NEW j \in Images PROVE FoldsOf(first, t, j)
  <2>1. CASE j = i
    BY <1>6, <2>1, LayoutFacts DEF FoldsOf
  <2>2. CASE j # i
    BY <1>6, <1>7, <2>2 DEF FoldsOf
  <2> QED BY <2>1, <2>2
<1>9. Wanted(t, TRUE) = Wanted(s, TRUE)
  <2>1. s.loads[i] # BoundLayout(i) /\ t.loads[i] # BoundLayout(i)
    BY <1>1, <1>6, <1>7, LayoutFacts DEF FoldsOf
  <2>2. \A j \in Images : (t.loads[j] = BoundLayout(j)) <=> (s.loads[j] = BoundLayout(j))
    BY <1>6, <2>1
  <2> QED BY <2>2 DEF Wanted
<1>10. Between(t, Wanted(t, TRUE))
  BY <1>5, <1>9, BetweenKept DEF Flushing
<1>11. Flushing(first, t, TRUE)
  BY <1>5, <1>8, <1>10 DEF Flushing, Folds, SameFrame
<1>12. t.stale = s.stale
  BY <1>5 DEF KeepsEffects
<1>13. \A j \in Images : s.clears[j] \subseteq t.clears[j]
  BY <1>1, <1>6, <1>7 DEF FoldsOf
<1> QED BY <1>1, <1>6, <1>11, <1>12, <1>13 DEF Done

LEMMA ClearAttached ==
  ASSUME NEW first, NEW s, Flushing(first, s, TRUE), NEW clear \in ClearType,
         NEW i \in Images, i = clear.image, i \notin Colors, Attached(first, i),
         NEW one, one = [s EXCEPT !.loads[i] = BoundLayout(i)],
         NEW load, load = IF clear.aspects = Aspects(i) THEN "undefined" ELSE s.loads[i],
         NEW t, t = ClearInPass(one, clear, load, BoundLayout(i))
  PROVE  Done(first, s, t, TRUE, clear)
<1>1. s \in ContextType /\ s.loads \in [Images -> Layouts] /\ s.clears \in [Images -> SUBSET AspectNames]
      /\ Between(s, Wanted(s, TRUE))
  BY DEF Flushing, Between, Sound, ContextType
<1>2. PICK w : w = Wanted(s, TRUE)
  OBVIOUS
<1>3. PICK A, x : A = s.clears[i] /\ x = BoundLayout(i)
  OBVIOUS
<1>4. x \in Layouts /\ A \in SUBSET AspectNames /\ x # "undefined" /\ x # InfoLayout(i)
  BY <1>1, <1>3, LayoutFacts
<1>5. one = [s EXCEPT !.clears[i] = A, !.loads[i] = x]
  <2>1. [s.clears EXCEPT ![i] = A] = s.clears
    BY <1>1, <1>3
  <2>2. [s EXCEPT !.clears[i] = A, !.loads[i] = x] =
          [s EXCEPT !.clears = [s.clears EXCEPT ![i] = A], !.loads = [s.loads EXCEPT ![i] = x]]
    OBVIOUS
  <2>3. one = [s EXCEPT !.loads = [s.loads EXCEPT ![i] = x]]
    BY <1>3
  <2>4. [s EXCEPT !.clears = s.clears, !.loads = [s.loads EXCEPT ![i] = x]]
          = [s EXCEPT !.loads = [s.loads EXCEPT ![i] = x]]
    <3>1. PICK L : L = [s.loads EXCEPT ![i] = x]
      OBVIOUS
    <3>2. [s EXCEPT !.clears = s.clears, !.loads = L] = [s EXCEPT !.loads = L]
      BY <1>1 DEF ContextType
    <3> QED BY <3>1, <3>2
  <2> QED BY <2>1, <2>2, <2>3, <2>4
<1>6. FoldedIn(s, one, i, A, x)
  BY <1>1, <1>4, <1>5, FoldedIs
<1>7. /\ one \in ContextType /\ KeepsEffects(s, one) /\ SameFrame(s, one) /\ one.barriers = s.barriers
      /\ one.clears[i] = s.clears[i] /\ one.loads[i] = x
      /\ \A j \in Images : j # i => one.clears[j] = s.clears[j] /\ one.loads[j] = s.loads[j]
  BY <1>1, <1>3, <1>6 DEF FoldedIn
<1>8. Between(one, w)
  BY <1>1, <1>2, <1>7, BetweenKept
<1>9. \A j \in Images : FoldsOf(first, s, j)
  BY DEF Flushing, Folds
<1>10. s.loads[i] \in {InfoLayout(i), x} /\ s.clears[i] = {}
  BY <1>3, <1>9 DEF FoldsOf
<1>11. w \in [Images -> Layouts] /\ w[i] = s.loads[i] /\ w[i] # "undefined"
  <2>1. w \in [Images -> Layouts]
    BY <1>2, WantedType
  <2>2. w[i] = IF s.loads[i] = BoundLayout(i) THEN BoundLayout(i) ELSE InfoLayout(i)
    BY <1>2 DEF Wanted
  <2> QED BY <1>3, <1>10, <2>1, <2>2, LayoutFacts
<1>12. load \in {"undefined", w[clear.image]}
       /\ (load = "undefined" => clear.aspects = Aspects(clear.image))
  BY <1>11
<1>13. t = ClearInPass(one, clear, load, x)
  BY <1>3
<1>14. Clears(one, t, w, clear, x)
  BY <1>4, <1>8, <1>11, <1>12, <1>13, ClearInPassIs
<1>15. /\ t.loads = one.loads /\ t.clears = one.clears /\ SameFrame(one, t)
       /\ t.stale \subseteq one.stale /\ \A a \in clear.aspects : <<i, a>> \notin t.stale
       /\ Between(t, [w EXCEPT ![i] = x])
  BY <1>14 DEF Clears, KeepsControl, SameFrame
<1>16. ASSUME NEW j \in Images PROVE FoldsOf(first, t, j)
  <2>1. CASE j = i
    BY <1>3, <1>4, <1>7, <1>10, <1>15, <2>1 DEF FoldsOf
  <2>2. CASE j # i
    <3>1. t.loads[j] = s.loads[j] /\ t.clears[j] = s.clears[j]
      BY <1>7, <1>15, <2>2
    <3>2. FoldsOf(first, s, j)
      BY <1>9
    <3> QED BY <3>1, <3>2 DEF FoldsOf
  <2> QED BY <2>1, <2>2
<1>17. Wanted(t, TRUE) = [w EXCEPT ![i] = x]
  <2>1. \A j \in Images :
          Wanted(t, TRUE)[j] = IF t.loads[j] = BoundLayout(j) THEN BoundLayout(j) ELSE InfoLayout(j)
    BY DEF Wanted
  <2>2. \A j \in Images :
          w[j] = IF s.loads[j] = BoundLayout(j) THEN BoundLayout(j) ELSE InfoLayout(j)
    BY <1>2 DEF Wanted
  <2>3. ASSUME NEW j \in Images PROVE Wanted(t, TRUE)[j] = [w EXCEPT ![i] = x][j]
    <3>1. CASE j = i
      <4>1. t.loads[j] = BoundLayout(j) /\ [w EXCEPT ![i] = x][j] = x
        BY <1>3, <1>7, <1>11, <1>15, <3>1
      <4> QED BY <1>3, <2>1, <3>1, <4>1
    <3>2. CASE j # i
      <4>1. t.loads[j] = s.loads[j] /\ [w EXCEPT ![i] = x][j] = w[j]
        BY <1>7, <1>11, <1>15, <3>2
      <4>2. Wanted(t, TRUE)[j] = IF t.loads[j] = BoundLayout(j) THEN BoundLayout(j) ELSE InfoLayout(j)
        BY <2>1
      <4>3. w[j] = IF s.loads[j] = BoundLayout(j) THEN BoundLayout(j) ELSE InfoLayout(j)
        BY <2>2
      <4>4. Wanted(t, TRUE)[j] = w[j]
        BY <4>1, <4>2, <4>3
      <4> QED BY <4>1, <4>4
    <3> QED BY <3>1, <3>2
  <2>4. PICK a, b : a = Wanted(t, TRUE) /\ b = [w EXCEPT ![i] = x]
    OBVIOUS
  <2>5. a \in [Images -> Layouts] /\ b \in [Images -> Layouts]
    BY <1>4, <1>11, <2>4, WantedType
  <2>6. \A j \in Images : a[j] = b[j]
    BY <2>3, <2>4
  <2>7. a = b
    BY <2>5, <2>6
  <2> QED BY <2>4, <2>7
<1>18. Flushing(first, t, TRUE)
  BY <1>7, <1>15, <1>16, <1>17 DEF Flushing, Folds, SameFrame
<1>19. t.stale \subseteq s.stale
  BY <1>7, <1>15 DEF KeepsEffects
<1>20. \A j \in Images : s.clears[j] \subseteq t.clears[j]
  BY <1>7, <1>15
<1> QED BY <1>15, <1>18, <1>19, <1>20 DEF Done

LEMMA ClearAlone ==
  ASSUME NEW first, NEW pass \in BOOLEAN, NEW s, Flushing(first, s, pass), NEW clear \in ClearType,
         NEW i \in Images, i = clear.image, pass => ~Attached(first, i),
         NEW load, load = IF clear.aspects = Aspects(i) THEN "undefined" ELSE InfoLayout(i),
         NEW t, t = ClearInPass(s, clear, load, InfoLayout(i))
  PROVE  Done(first, s, t, pass, clear)
<1>1. PICK w, x : w = Wanted(s, pass) /\ x = InfoLayout(i)
  OBVIOUS
<1>2. Between(s, w) /\ w \in [Images -> Layouts] /\ x \in Layouts /\ x # "undefined"
  BY <1>1, WantedType, LayoutFacts DEF Flushing
<1>3. w[i] = x
  <2>1. CASE pass
    <3>1. s.loads[i] = x /\ x # BoundLayout(i)
      BY <1>1, <2>1, LayoutFacts DEF Flushing, Folds, FoldsOf
    <3> QED BY <1>1, <2>1, <3>1 DEF Wanted
  <2>2. CASE ~pass
    BY <1>1, <2>2 DEF Wanted, InfoLayouts
  <2> QED BY <2>1, <2>2
<1>4. Clears(s, t, w, clear, x)
  <2>1. t = ClearInPass(s, clear, load, x) /\ load \in {"undefined", w[clear.image]}
        /\ (load = "undefined" => clear.aspects = Aspects(clear.image))
    BY <1>1, <1>2, <1>3
  <2> QED BY <1>2, <1>3, <2>1, ClearInPassIs
<1>5. [w EXCEPT ![i] = x] = w
  BY <1>2, <1>3
<1>6. /\ Between(t, w) /\ t.loads = s.loads /\ t.clears = s.clears /\ SameFrame(s, t)
      /\ t.stale \subseteq s.stale /\ \A a \in clear.aspects : <<i, a>> \notin t.stale
  BY <1>4, <1>5 DEF Clears, KeepsControl, SameFrame
<1>7. Wanted(t, pass) = w
  BY <1>1, <1>6 DEF Wanted
<1>8. Folds(first, t, pass)
  BY <1>6 DEF Flushing, Folds, FoldsOf
<1>9. Flushing(first, t, pass)
  BY <1>6, <1>7, <1>8 DEF Flushing, SameFrame
<1> QED BY <1>6, <1>9 DEF Done

LEMMA PerformClearIs ==
  ASSUME NEW first, NEW pass \in BOOLEAN, NEW s, Flushing(first, s, pass), NEW clear \in ClearType,
         NEW t, t = PerformClear(s, clear, pass /\ Attached(first, clear.image))
  PROVE  Done(first, s, t, pass, clear)
<1>1. PICK i \in Images : i = clear.image
  BY DEF ClearType
<1>2. clear.aspects # {} /\ clear.aspects \subseteq Aspects(i)
  BY <1>1 DEF ClearType
<1>3. CASE pass /\ Attached(first, i)
  <2>1. pass = TRUE /\ (pass /\ Attached(first, clear.image)) = TRUE
    BY <1>1, <1>3
  <2>2. t = PerformClear(s, clear, TRUE)
    BY <1>1, <1>3
  <2>3. CASE i \in Colors
    <3>1. Aspects(i) = {"color"} /\ WritableAspects(BoundLayout(i)) = {"color"}
      BY <2>3 DEF Aspects, WritableAspects, BoundLayout
    <3>2. clear.aspects = Aspects(i)
      BY <1>2, <3>1
    <3>3. t = [s EXCEPT !.clears[i] = clear.aspects, !.loads[i] = "undefined"]
      BY <1>1, <2>2, <3>1, <3>2 DEF PerformClear
    <3> QED BY <1>1, <1>3, <2>1, <2>3, <3>3, FoldClear
  <2>4. CASE i \notin Colors
    <3>1. WritableAspects(BoundLayout(i)) = {}
      BY <2>4 DEF WritableAspects, BoundLayout
    <3>2. PICK one : one = [s EXCEPT !.loads[i] = BoundLayout(i)]
      OBVIOUS
    <3>3. PICK load : load = IF clear.aspects = Aspects(i) THEN "undefined" ELSE s.loads[i]
      OBVIOUS
    <3>4. t = ClearInPass(one, clear, load, BoundLayout(i))
      BY <1>1, <1>2, <2>2, <3>1, <3>2, <3>3 DEF PerformClear
    <3> QED BY <1>1, <1>3, <2>1, <2>4, <3>2, <3>3, <3>4, ClearAttached
  <2> QED BY <2>3, <2>4
<1>4. CASE ~(pass /\ Attached(first, i))
  <2>1. t = PerformClear(s, clear, FALSE)
    BY <1>1, <1>4
  <2>2. PICK load : load = IF clear.aspects = Aspects(i) THEN "undefined" ELSE InfoLayout(i)
    OBVIOUS
  <2>3. t = ClearInPass(s, clear, load, InfoLayout(i))
    BY <1>1, <2>1, <2>2 DEF PerformClear
  <2> QED BY <1>1, <1>4, <2>2, <2>3, ClearAlone
<1> QED BY <1>3, <1>4

-----------------------------------------------------------------------------
(* The clears are flushed one after the other.                             *)
LEMMA LeastNat ==
  ASSUME NEW T \in SUBSET Nat, T # {}
  PROVE  \E x \in T : \A y \in T : x <= y
<1>1. PICK x \in T : \A y \in T : ~(<<y, x>> \in OpToRel(<, Nat))
  BY NatLessThanWellFounded, WFMin
<1>2. ASSUME NEW y \in T PROVE x <= y
  <2>1. ~(y < x)
    BY <1>1 DEF OpToRel
  <2> QED BY <2>1
<1> QED BY <1>2

(* Recursion over 1 .. N with values in T: a solution exists.              *)
Solutions(T, N, first, G) ==
  {f \in [0 .. N -> T] : f[0] = first /\ \A n \in 1 .. N : f[n] = G[n][f[n - 1]]}

LEMMA Recursion ==
  ASSUME NEW T, NEW N \in Nat, NEW first \in T, NEW G \in [1 .. N -> [T -> T]]
  PROVE  Solutions(T, N, first, G) # {}
<1> DEFINE Solves(f, k) == f[0] = first /\ \A n \in 1 .. k : f[n] = G[n][f[n - 1]]
           Bad == {k \in 0 .. N : ~\E f \in [0 .. k -> T] : Solves(f, k)}
<1>1. 0 \notin Bad
  <2>1. Solves([n \in 0 .. 0 |-> first], 0) /\ [n \in 0 .. 0 |-> first] \in [0 .. 0 -> T]
    OBVIOUS
  <2> QED BY <2>1
<1>2. ASSUME NEW k \in 1 .. N, k - 1 \notin Bad PROVE k \notin Bad
  <2>1. k - 1 \in 0 .. N /\ k - 1 \in Nat
    OBVIOUS
  <2>2. PICK f \in [0 .. k - 1 -> T] : Solves(f, k - 1)
    BY <1>2, <2>1
  <2>3. PICK x : x = G[k][f[k - 1]]
    OBVIOUS
  <2>4. x \in T
    <3>1. f[k - 1] \in T
      BY <2>1
    <3> QED BY <2>3, <3>1
  <2> DEFINE g == [n \in 0 .. k |-> IF n = k THEN x ELSE f[n]]
  <2>5. g \in [0 .. k -> T]
    <3>1. \A n \in 0 .. k : n # k => n \in 0 .. k - 1
      OBVIOUS
    <3> QED BY <2>4, <3>1
  <2>6. Solves(g, k)
    <3>1. g[0] = first
      BY <2>2
    <3>2. ASSUME NEW n \in 1 .. k PROVE g[n] = G[n][g[n - 1]]
      <4>1. n - 1 \in 0 .. k /\ n - 1 # k /\ n \in 0 .. k
        OBVIOUS
      <4>2. g[n - 1] = f[n - 1]
        BY <4>1
      <4>3. CASE n = k
        <5>1. g[n] = x
          BY <4>3
        <5> HIDE DEF g
        <5> QED BY <2>3, <4>2, <4>3, <5>1
      <4>4. CASE n # k
        <5>1. n \in 1 .. k - 1 /\ g[n] = f[n]
          BY <4>4
        <5> HIDE DEF g
        <5> QED BY <2>2, <4>2, <5>1
      <4> QED BY <4>3, <4>4
    <3> HIDE DEF g
    <3> QED BY <3>1, <3>2
  <2> HIDE DEF Solves, g
  <2> QED BY <2>5, <2>6
<1>3. Bad = {}
  <2>1. SUFFICES ASSUME Bad # {} PROVE FALSE
    OBVIOUS
  <2>2. Bad \in SUBSET Nat
    OBVIOUS
  <2>3. PICK k \in Bad : \A j \in Bad : k <= j
    <3> HIDE DEF Bad
    <3> QED BY <2>1, <2>2, LeastNat
  <2>4. k \in 0 .. N /\ k # 0
    BY <1>1, <2>3
  <2>5. k \in 1 .. N /\ ~(k <= k - 1)
    BY <2>4
  <2>6. k - 1 \notin Bad
    <3> HIDE DEF Bad
    <3> QED BY <2>3, <2>5
  <2> HIDE DEF Bad
  <2> QED BY <1>2, <2>3, <2>5, <2>6
<1>4. \E f \in [0 .. N -> T] : Solves(f, N)
  <2>1. N \in 0 .. N
    OBVIOUS
  <2> HIDE DEF Solves
  <2> QED BY <1>3, <2>1
<1> QED BY <1>4 DEF Solutions

(* What holds at 0 and is passed on by every step holds at N.              *)
LEMMA Climb ==
  ASSUME NEW N \in Nat, NEW S, 0 \in S, \A n \in 1 .. N : n - 1 \in S => n \in S
  PROVE  \A n \in 0 .. N : n \in S
<1> DEFINE Bad == (0 .. N) \ S
<1>1. SUFFICES ASSUME Bad # {} PROVE FALSE
  OBVIOUS
<1>2. Bad \in SUBSET Nat
  OBVIOUS
<1>3. PICK k \in Bad : \A j \in Bad : k <= j
  <2> HIDE DEF Bad
  <2> QED BY <1>1, <1>2, LeastNat
<1>4. k \in 1 .. N /\ k - 1 \in 0 .. N /\ ~(k <= k - 1)
  BY <1>3
<1>5. k - 1 \in S
  BY <1>3, <1>4
<1> QED BY <1>3, <1>4, <1>5

\* Every aspect whose contents are not those called for has a clear deferred,
\* of images whose clears have not been put off.
Kept(s) ==
  \A i \in Images \ s.late, a \in AspectNames : <<i, a>> \in s.stale =>
    \E k \in DOMAIN s.deferred : s.deferred[k].image = i /\ a \in s.deferred[k].aspects

Flushed(s, t, pass) ==
  /\ Between(t, Wanted(t, pass)) /\ Folds(s, t, pass)
  /\ t.targets = s.targets /\ t.framebuffer = s.framebuffer /\ t.dirty = s.dirty
  /\ t.bound = s.bound /\ t.rtLayouts = s.rtLayouts /\ t.late = s.late
  /\ t.overtaken = s.overtaken /\ t.deferred = <<>>
  /\ \A i \in Images \ s.late, a \in AspectNames : <<i, a>> \in t.stale => a \in t.clears[i]

LEMMA FlushClearsIs ==
  ASSUME NEW pass \in BOOLEAN, NEW s, Flushing(s, s, pass), Kept(s),
         NEW t, t = FlushClears(s, pass)
  PROVE  Flushed(s, t, pass)
<1>1. PICK D \in Seq(ClearType) : D = s.deferred
  BY DEF Flushing, Between, Sound, ContextType
<1>2. PICK N \in Nat : N = Len(D)
  OBVIOUS
<1>3. \A n \in 1 .. N : D[n] \in ClearType
  BY <1>2
<1> DEFINE Step(n, x) == PerformClear(x, D[n], pass /\ Attached(s, D[n].image))
           Is(f) == f = [n \in 0 .. N |-> IF n = 0 THEN s ELSE Step(n, f[n - 1])]
<1>4. ASSUME NEW n \in 1 .. N, NEW x, Flushing(s, x, pass) PROVE Done(s, x, Step(n, x), pass, D[n])
  <2>1. PICK c \in ClearType : c = D[n]
    BY <1>3
  <2>2. PICK y : y = PerformClear(x, c, pass /\ Attached(s, c.image))
    OBVIOUS
  <2>3. Done(s, x, y, pass, c)
    BY <1>4, <2>2, PerformClearIs
  <2> QED BY <2>1, <2>2, <2>3
<1>5. PICK T : T = {x \in ContextType : Flushing(s, x, pass)}
  OBVIOUS
<1>6. \A n \in 1 .. N : \A x \in T : Step(n, x) \in T
  <2> SUFFICES ASSUME NEW n \in 1 .. N, NEW x \in T PROVE Step(n, x) \in T
    OBVIOUS
  <2>1. PICK y : y = Step(n, x)
    OBVIOUS
  <2>2. Flushing(s, y, pass)
    BY <1>4, <1>5, <2>1 DEF Done
  <2>3. y \in ContextType
    BY <2>2 DEF Flushing, Between, Sound
  <2> QED BY <1>5, <2>1, <2>2, <2>3
<1> HIDE DEF Step
<1>7. \E g : Is(g)
  <2> DEFINE G == [n \in 1 .. N |-> [x \in T |-> Step(n, x)]]
  <2>1. PICK GG \in [1 .. N -> [T -> T]] : GG = G
    BY <1>6
  <2>2. PICK first \in T : first = s
    BY <1>5 DEF Flushing, Between, Sound
  <2>3. Solutions(T, N, first, GG) # {}
    BY Recursion
  <2>4. PICK g \in [0 .. N -> T] : g[0] = first /\ \A n \in 1 .. N : g[n] = GG[n][g[n - 1]]
    BY <2>3 DEF Solutions
  <2>5. \A n \in 0 .. N : g[n] = IF n = 0 THEN s ELSE Step(n, g[n - 1])
    <3>1. ASSUME NEW n \in 1 .. N PROVE g[n] = Step(n, g[n - 1])
      <4>1. n - 1 \in 0 .. N
        OBVIOUS
      <4>2. g[n - 1] \in T
        BY <4>1
      <4> QED BY <2>1, <2>4, <4>2
    <3> QED BY <2>2, <2>4, <3>1
  <2>6. Is(g)
    BY <2>5
  <2> QED BY <2>6
<1>8. PICK f : f = CHOOSE x : Is(x)
  OBVIOUS
<1>9. Is(f)
  <2> HIDE DEF Is
  <2> QED BY <1>7, <1>8
<1>10. t = [f[N] EXCEPT !.deferred = <<>>]
  BY <1>1, <1>2, <1>8 DEF FlushClears, Step
<1>11. f[0] = s /\ \A n \in 1 .. N : f[n] = Step(n, f[n - 1])
  BY <1>9
<1> DEFINE Left(n) ==
      \A i \in Images \ s.late, a \in AspectNames : <<i, a>> \in f[n].stale =>
        \/ a \in f[n].clears[i]
        \/ \E k \in n + 1 .. N : D[k].image = i /\ a \in D[k].aspects
           Good(n) == Flushing(s, f[n], pass) /\ Left(n)
<1>12. PICK S : S = {n \in 0 .. N : Good(n)}
  OBVIOUS
<1>13. 0 \in S
  <2>1. DOMAIN D = 1 .. N
    BY <1>2
  <2>2. Left(0)
    BY <1>1, <1>11, <2>1 DEF Kept
  <2> QED BY <1>11, <1>12, <2>2
<1>14. ASSUME NEW n \in 1 .. N, n - 1 \in S PROVE n \in S
  <2>1. PICK x : x = f[n - 1]
    OBVIOUS
  <2>2. PICK y : y = f[n]
    OBVIOUS
  <2>3. Done(s, x, y, pass, D[n])
    <3>1. Flushing(s, x, pass) /\ y = Step(n, x)
      BY <1>11, <1>12, <1>14, <2>1, <2>2
    <3> QED BY <1>4, <3>1 DEF Step
  <2>4. Left(n)
    <3> SUFFICES ASSUME NEW i \in Images \ s.late, NEW a \in AspectNames, <<i, a>> \in y.stale,
                        a \notin y.clears[i]
                 PROVE  \E k \in n + 1 .. N : D[k].image = i /\ a \in D[k].aspects
      BY <2>2
    <3>1. <<i, a>> \in x.stale /\ a \notin x.clears[i]
      BY <2>3 DEF Done
    <3>2. PICK k \in (n - 1) + 1 .. N : D[k].image = i /\ a \in D[k].aspects
      BY <1>12, <1>14, <2>1, <3>1
    <3>3. k # n
      BY <2>3, <3>2 DEF Done
    <3> QED BY <3>2, <3>3
  <2> QED BY <1>12, <2>2, <2>3, <2>4 DEF Done
<1>15. N \in 0 .. N /\ \A n \in 0 .. N : n \in S
  <2>1. \A n \in 0 .. N : n \in S
    BY <1>13, <1>14, Climb
  <2> QED BY <2>1
<1>16. PICK u : u = f[N]
  OBVIOUS
<1>17. /\ Flushing(s, u, pass)
       /\ \A i \in Images \ s.late, a \in AspectNames : <<i, a>> \in u.stale => a \in u.clears[i]
  <2>1. Good(N)
    BY <1>12, <1>15
  <2>2. N + 1 .. N = {}
    OBVIOUS
  <2> QED BY <1>16, <2>1, <2>2
<1> HIDE DEF Is, Good, Left
<1>18. t = [u EXCEPT !.deferred = <<>>] /\ u \in ContextType
  BY <1>10, <1>16, <1>17 DEF Flushing, Between, Sound
<1>19. /\ t \in ContextType /\ KeepsEffects(u, t) /\ t.barriers = u.barriers
       /\ t.loads = u.loads /\ t.clears = u.clears /\ t.deferred = <<>>
       /\ t.targets = u.targets /\ t.framebuffer = u.framebuffer /\ t.dirty = u.dirty
       /\ t.bound = u.bound /\ t.rtLayouts = u.rtLayouts /\ t.late = u.late
       /\ t.overtaken = u.overtaken
  <2>1. <<>> \in Seq(ClearType)
    OBVIOUS
  <2>2. PICK e \in Seq(ClearType) : e = <<>>
    BY <2>1
  <2>3. t = [u EXCEPT !.deferred = e]
    BY <1>18, <2>2
  <2>4. t \in ContextType
    BY <1>18, <2>3 DEF ContextType
  <2> QED BY <1>18, <2>2, <2>3, <2>4 DEF ContextType, KeepsEffects
<1>20. Between(t, Wanted(t, pass))
  <2>1. Wanted(t, pass) = Wanted(u, pass)
    BY <1>19 DEF Wanted
  <2> QED BY <1>17, <1>19, <2>1, BetweenKept DEF Flushing
<1>21. Folds(s, t, pass)
  BY <1>17, <1>19 DEF Flushing, Folds, FoldsOf
<1>22. t.stale = u.stale
  BY <1>19 DEF KeepsEffects
<1> QED BY <1>17, <1>19, <1>20, <1>21, <1>22 DEF Flushed, Flushing, SameFrame

-----------------------------------------------------------------------------
LEMMA SoundKept ==
  ASSUME NEW w, NEW s, Sound(s, w), NEW t \in ContextType, KeepsEffects(s, t),
         t.barriers = s.barriers
  PROVE  Sound(t, w)
BY DEF Sound, Waited, MovesKnown, Tracked, KeepsEffects

LEMMA AttachmentMovesIs ==
  ASSUME NEW I \in SUBSET Images, NEW old \in [Images -> Layouts], NEW new \in [Images -> Layouts]
  PROVE  /\ AttachmentMoves(I, old, new) \in SUBSET MoveType
         /\ OneMoveEach(AttachmentMoves(I, old, new))
         /\ \A m \in AttachmentMoves(I, old, new) :
              m.image \in I /\ m.old = old[m.image] /\ m.new = new[m.image]
         /\ \A i \in I : old[i] # new[i] => \E m \in AttachmentMoves(I, old, new) : m.image = i
<1> DEFINE M == AttachmentMoves(I, old, new)
<1>1. ASSUME NEW i \in I PROVE /\ Moves(i, old[i], new[i]) \in SUBSET MoveType
                               /\ \A m \in Moves(i, old[i], new[i]) :
                                    m.image = i /\ m.old = old[i] /\ m.new = new[i]
                               /\ old[i] # new[i] => \E m \in Moves(i, old[i], new[i]) : m.image = i
  BY MovesIs
<1>2. \A m \in M : \E i \in I : m \in Moves(i, old[i], new[i])
  BY DEF AttachmentMoves
<1>3. \A i \in I : Moves(i, old[i], new[i]) \subseteq M
  BY DEF AttachmentMoves
<1> HIDE DEF M
<1>4. M \in SUBSET MoveType /\ \A m \in M : m.image \in I /\ m.old = old[m.image] /\ m.new = new[m.image]
  BY <1>1, <1>2
<1>5. \A i \in I : old[i] # new[i] => \E m \in M : m.image = i
  BY <1>1, <1>3
<1>6. OneMoveEach(M)
  BY <1>4 DEF OneMoveEach, MoveType
<1> QED BY <1>4, <1>5, <1>6 DEF M

\* Attachments are left to be moved to the layouts new.
Moved(s, t, v, I, old) ==
  /\ Sound(t, v) /\ KeepsControl(s, t) /\ t.stale = s.stale
  /\ \A m \in t.barriers.moves : m \in s.barriers.moves \/ (m.image \in I /\ m.old = old[m.image])

LEMMA AttachmentsMovedIs ==
  ASSUME NEW w, NEW v, NEW s, Sound(s, w), NEW I \in SUBSET Images,
         NEW old \in [Images -> Layouts], NEW new \in [Images -> Layouts],
         \A i \in I : /\ old[i] # new[i] /\ \A m \in s.barriers.moves : m.image # i
                      /\ old[i] = "undefined" \/ s.layout[i] \in {"undefined", old[i]},
         \A i \in Images : v[i] = IF i \in I THEN new[i] ELSE w[i],
         NEW t, t = AccessAttachments(s, I, old, new)
  PROVE  Moved(s, t, v, I, old)
<1> DEFINE M == AttachmentMoves(I, old, new)
           E == AttachmentEntries(I)
           S == AttachmentStages(I)
<1>1. s \in ContextType /\ s.barriers.moves \subseteq MoveType
  BY DEF Sound, ContextType, BarriersType
<1>2. Registers(s, t, S, E, M)
  BY <1>1, AccessAttachmentsIs
<1>3. /\ M \in SUBSET MoveType /\ OneMoveEach(M)
      /\ \A m \in M : m.image \in I /\ m.old = old[m.image] /\ m.new = new[m.image]
      /\ \A i \in I : \E m \in M : m.image = i
  BY AttachmentMovesIs
<1>4. E # {} => S # {}
  <2>1. CASE I = {}
    BY <2>1 DEF AttachmentEntries
  <2>2. ASSUME NEW i \in I PROVE PassStage(i) \in S
    BY DEF AttachmentStages
  <2> QED BY <2>1, <2>2
<1>5. \A i \in I : Entry(Whole(i), TRUE) \in E
  BY DEF AttachmentEntries
<1> HIDE DEF M, E, S
<1>6. /\ t \in ContextType /\ KeepsControl(s, t) /\ KeepsEffects(s, t)
      /\ t.barriers.stages = s.barriers.stages \cup S
      /\ t.barriers.slices = s.barriers.slices \cup E
      /\ t.barriers.moves = s.barriers.moves \cup M
  BY <1>2 DEF Registers
<1>7. t.layout = s.layout /\ t.pending = s.pending /\ t.raced = {} /\ t.misplaced = {} /\ t.stale = s.stale
  BY <1>6 DEF KeepsEffects, Sound
<1>8. Waited(t) /\ WholeImages(t.pending)
  BY <1>6, <1>7 DEF Waited, Sound
<1>9. MovesKnown(t)
  <2>1. OneMoveEach(t.barriers.moves)
    BY <1>3, <1>6 DEF OneMoveEach, Sound, MovesKnown
  <2>2. \A m \in t.barriers.moves : Entry(Whole(m.image), TRUE) \in t.barriers.slices
    BY <1>3, <1>5, <1>6 DEF Sound, MovesKnown
  <2>3. t.barriers.slices # {} => t.barriers.stages # {}
    BY <1>4, <1>6 DEF Sound, MovesKnown
  <2> QED BY <2>1, <2>2, <2>3 DEF MovesKnown
<1>10. Tracked(t, v)
  <2>1. ASSUME NEW m \in M
        PROVE  m.new = v[m.image] /\ (m.old # "undefined" => t.layout[m.image] \in {"undefined", m.old})
    BY <1>3, <1>7
  <2>2. ASSUME NEW m \in s.barriers.moves
        PROVE  m.new = v[m.image] /\ (m.old # "undefined" => t.layout[m.image] \in {"undefined", m.old})
    <3>1. m.image \in Images /\ m.image \notin I
      BY <1>1 DEF MoveType
    <3> QED BY <1>7, <3>1 DEF Sound, Tracked
  <2>3. ASSUME NEW i \in Images, \A m \in t.barriers.moves : m.image # i
        PROVE  t.layout[i] \in {"undefined", v[i]}
    <3>1. i \notin I /\ \A m \in s.barriers.moves : m.image # i
      BY <1>3, <1>6, <2>3
    <3> QED BY <1>7, <3>1 DEF Sound, Tracked
  <2> QED BY <1>6, <2>1, <2>2, <2>3 DEF Tracked
<1>11. \A m \in t.barriers.moves : m \in s.barriers.moves \/ (m.image \in I /\ m.old = old[m.image])
  BY <1>3, <1>6
<1> QED BY <1>6, <1>7, <1>8, <1>9, <1>10, <1>11 DEF Sound, Moved

-----------------------------------------------------------------------------
\* Between two operations: no pass is bound and images are on their way to the
\* layouts they are kept in, or a pass is bound and nothing but the end of its
\* attachments is registered.
Outside(s) == Between(s, InfoLayouts) /\ s.rtLayouts = InfoLayouts

PassLayouts(images) ==
  [i \in Images |-> IF i \in images THEN BoundLayout(i) ELSE InfoLayout(i)]

InPass(s) ==
  /\ Sound(s, s.rtLayouts) /\ s.rtLayouts = PassLayouts(s.framebuffer) /\ s.framebuffer # {}
  /\ s.barriers.slices = {} /\ s.barriers.moves = {}
  /\ s.barriers.stages = {PassStage(i) : i \in s.framebuffer}
  /\ \A p \in s.pending : p.write => p.slice.resource \in s.framebuffer

Unloaded(s) ==
  s.loads = BoundLayouts /\ (\A i \in Images : s.clears[i] = {}) /\ s.overtaken = {} /\ Kept(s)

Steady(s) == (IF s.bound THEN InPass(s) ELSE Outside(s)) /\ Unloaded(s)

Spilled(s, t) ==
  /\ Outside(t) /\ Unloaded(t) /\ ~t.bound
  /\ t.targets = s.targets /\ t.framebuffer = s.framebuffer /\ t.dirty = s.dirty
  /\ t.late = s.late
  /\ t.deferred = IF s.bound THEN s.deferred ELSE <<>>

LEMMA SpillUnbound ==
  ASSUME NEW s, Steady(s), ~s.bound, NEW t, t = Spill(s)
  PROVE  Spilled(s, t)
<1>1. t = FlushClears(s, FALSE)
  BY DEF Spill
<1>2. Between(s, InfoLayouts) /\ s.rtLayouts = InfoLayouts /\ Unloaded(s)
  BY DEF Steady, Outside
<1>3. Flushing(s, s, FALSE) /\ Kept(s)
  BY <1>2 DEF Flushing, Wanted, SameFrame, Folds, Unloaded
<1>4. Flushed(s, t, FALSE)
  BY <1>1, <1>3, FlushClearsIs
<1>5. Between(t, InfoLayouts) /\ t.rtLayouts = InfoLayouts /\ t.loads = s.loads /\ t.clears = s.clears
  BY <1>2, <1>4 DEF Flushed, Wanted, Folds
<1>6. Kept(t)
  BY <1>2, <1>4, <1>5 DEF Kept, Unloaded, Flushed
<1> QED BY <1>2, <1>4, <1>5, <1>6 DEF Spilled, Flushed, Outside, Unloaded

LEMMA SpillBound ==
  ASSUME NEW s, Steady(s), s.bound, NEW t, t = Spill(s)
  PROVE  Spilled(s, t)
<1>1. PICK F \in SUBSET Images : F = s.framebuffer
  BY DEF Steady, InPass, Sound, ContextType
<1>2. InPass(s) /\ Unloaded(s) /\ s \in ContextType
  BY DEF Steady, InPass, Sound
<1>3. PICK ended : ended = [s EXCEPT !.bound = FALSE]
  OBVIOUS
<1>4. /\ ended \in ContextType /\ KeepsEffects(s, ended) /\ ended.barriers = s.barriers
      /\ ended.rtLayouts = s.rtLayouts /\ ended.framebuffer = F /\ ended.targets = s.targets
      /\ ended.dirty = s.dirty /\ ended.late = s.late /\ ended.deferred = s.deferred
      /\ ended.loads = s.loads /\ ended.clears = s.clears /\ ended.overtaken = s.overtaken
      /\ ended.bound = FALSE
  BY <1>1, <1>2, <1>3 DEF ContextType, KeepsEffects
<1>5. PICK old \in [Images -> Layouts], new \in [Images -> Layouts] :
        old = s.rtLayouts /\ new = InfoLayouts
  BY <1>2, LayoutFacts DEF ContextType
<1>6. \A i \in Images : /\ old[i] = IF i \in F THEN BoundLayout(i) ELSE InfoLayout(i)
                        /\ new[i] = InfoLayout(i)
  BY <1>1, <1>2, <1>5 DEF InPass, PassLayouts, InfoLayouts
<1>7. PICK x : x = AccessAttachments(ended, F, old, new)
  OBVIOUS
<1>8. PICK y : y = [x EXCEPT !.rtLayouts = new]
  OBVIOUS
<1>9. t = RecordCommands(y)
  <2>1. s.barriers.slices = {}
    BY <1>2 DEF InPass
  <2>2. t = RecordCommands(TransitionLayouts(ended))
    BY <1>3, <2>1 DEF Spill
  <2>3. {i \in ended.framebuffer : ended.rtLayouts[i] # InfoLayout(i)} = F
    <3>1. ASSUME NEW i \in F PROVE old[i] # InfoLayout(i)
      BY <1>6, LayoutFacts
    <3>2. {i \in F : old[i] # InfoLayout(i)} = F
      BY <3>1
    <3> QED BY <1>4, <1>5, <3>2
  <2>4. TransitionLayouts(ended) = [AccessAttachments(ended, F, old, new) EXCEPT !.rtLayouts = new]
    BY <1>4, <1>5, <2>3 DEF TransitionLayouts
  <2> QED BY <1>7, <1>8, <2>2, <2>4
<1>10. Sound(ended, old)
  BY <1>2, <1>4, <1>5, SoundKept DEF InPass
<1>11. ended.barriers.moves = {}
  BY <1>2, <1>4 DEF InPass
<1>12. \A i \in F : /\ old[i] # new[i] /\ \A m \in ended.barriers.moves : m.image # i
                    /\ old[i] = "undefined" \/ ended.layout[i] \in {"undefined", old[i]}
  BY <1>6, <1>10, <1>11, LayoutFacts DEF Sound, Tracked
<1>13. \A i \in Images : new[i] = IF i \in F THEN new[i] ELSE old[i]
  BY <1>6
<1>14. Moved(ended, x, new, F, old)
  BY <1>7, <1>10, <1>12, <1>13, AttachmentsMovedIs
<1>15. x \in ContextType /\ Sound(x, new) /\ KeepsControl(ended, x) /\ x.stale = ended.stale
  BY <1>14 DEF Moved, Sound
<1>16. /\ y \in ContextType /\ KeepsEffects(x, y) /\ y.barriers = x.barriers
       /\ y.rtLayouts = new /\ y.framebuffer = x.framebuffer /\ y.targets = x.targets
       /\ y.dirty = x.dirty /\ y.late = x.late /\ y.deferred = x.deferred
       /\ y.loads = x.loads /\ y.clears = x.clears /\ y.overtaken = x.overtaken
       /\ y.bound = x.bound
  BY <1>8, <1>15 DEF ContextType, KeepsEffects
<1>17. Sound(y, new)
  BY <1>15, <1>16, SoundKept
<1>18. /\ Sound(t, new) /\ KeepsControl(y, t) /\ t.pending = {} /\ t.barriers = NoBarriers
       /\ t.stale = y.stale \cup AspectsOf(Lost(y.barriers.moves))
  BY <1>9, <1>17, RecordCommandsIs
<1>19. t.stale = s.stale
  <2>1. \A m \in y.barriers.moves : m.old # "undefined"
    <3> SUFFICES ASSUME NEW m \in x.barriers.moves PROVE m.old # "undefined"
      BY <1>16
    <3>1. m.image \in F /\ m.old = old[m.image]
      BY <1>11, <1>14 DEF Moved
    <3>2. old[m.image] = BoundLayout(m.image)
      BY <1>6, <3>1
    <3> QED BY <3>1, <3>2, LayoutFacts
  <2>2. AspectsOf(Lost(y.barriers.moves)) = {}
    BY <2>1 DEF Lost, AspectsOf
  <2> QED BY <1>4, <1>15, <1>16, <1>18, <2>2 DEF KeepsEffects
<1>20. Between(t, new)
  <2>1. NoBarriers.moves = {}
    BY DEF NoBarriers
  <2> QED BY <1>18, <2>1 DEF Between, Registered
<1>21. /\ t.rtLayouts = new /\ t.targets = s.targets /\ t.framebuffer = s.framebuffer
       /\ t.dirty = s.dirty /\ t.late = s.late /\ t.deferred = s.deferred
       /\ t.loads = s.loads /\ t.clears = s.clears /\ t.overtaken = s.overtaken /\ ~t.bound
  BY <1>1, <1>4, <1>15, <1>16, <1>18 DEF KeepsControl
<1>22. Unloaded(t)
  BY <1>2, <1>19, <1>21 DEF Unloaded, Kept
<1> QED BY <1>5, <1>20, <1>21, <1>22 DEF Spilled, Outside

LEMMA SpillIs ==
  ASSUME NEW s, Steady(s), NEW t, t = Spill(s)
  PROVE  Spilled(s, t)
BY SpillUnbound, SpillBound

-----------------------------------------------------------------------------
\* The attachments of the pass that is about to begin are moved to the layouts
\* they are bound with.
Initialised(s, t, F) ==
  /\ Sound(t, PassLayouts(F)) /\ KeepsControl(s, t) /\ t.pending = {} /\ t.barriers = NoBarriers
  /\ \A i \in Images, a \in AspectNames : <<i, a>> \in t.stale =>
       <<i, a>> \in s.stale \/ (i \in F /\ a \in s.clears[i])

LEMMA InitBarriersIs ==
  ASSUME NEW first, NEW s, Between(s, Wanted(s, TRUE)), Folds(first, s, TRUE),
         NEW F \in SUBSET Images, F = s.framebuffer, F = first.framebuffer,
         NEW t, t = InitBarriers(s)
  PROVE  Initialised(s, t, F)
<1>1. PICK w : w = Wanted(s, TRUE)
  OBVIOUS
<1>2. PICK W : W = {Whole(i) : i \in F}
  OBVIOUS
<1>3. PICK clean : clean = RecordIfDirty(s, {}, W)
  OBVIOUS
<1>4. Recorded(s, clean, w, {}, W)
  <2>1. PICK R : R = {}
    OBVIOUS
  <2>2. Recorded(s, clean, w, R, W)
    BY <1>1, <1>3, <2>1, RecordIfDirtyIs
  <2> QED BY <2>1, <2>2
<1>5. /\ Between(clean, w) /\ KeepsControl(s, clean) /\ clean.stale = s.stale
      /\ \A i \in F : ~Dirty(clean, Whole(i), TRUE)
  BY <1>2, <1>4 DEF Recorded
<1>6. \A i \in F : Settled(clean, w, i)
  <2> SUFFICES ASSUME NEW i \in F PROVE Settled(clean, w, i)
    OBVIOUS
  <2> QED BY <1>5, CleanImageIs
<1>7. PICK old \in [Images -> Layouts], new \in [Images -> Layouts] :
        old = s.loads /\ new = BoundLayouts
  BY LayoutFacts DEF Between, Sound, ContextType
<1>8. PICK I \in SUBSET Images : I = {i \in F : old[i] # BoundLayout(i)}
  OBVIOUS
<1>9. PICK x : x = AccessAttachments(clean, I, old, new)
  OBVIOUS
<1>10. t = RecordCommands(x)
  BY <1>2, <1>3, <1>7, <1>8, <1>9 DEF InitBarriers
<1>11. \A i \in Images : FoldsOf(first, s, i)
  BY DEF Folds
<1>12. \A i \in Images : w[i] = IF old[i] = BoundLayout(i) THEN BoundLayout(i) ELSE InfoLayout(i)
  BY <1>1, <1>7 DEF Wanted
<1>13. \A i \in Images : new[i] = BoundLayout(i)
  BY <1>7 DEF BoundLayouts
<1>14. \A i \in I : /\ old[i] # new[i] /\ \A m \in clean.barriers.moves : m.image # i
                    /\ old[i] = "undefined" \/ clean.layout[i] \in {"undefined", old[i]}
  <2> SUFFICES ASSUME NEW i \in I
               PROVE  /\ old[i] # new[i] /\ \A m \in clean.barriers.moves : m.image # i
                      /\ old[i] = "undefined" \/ clean.layout[i] \in {"undefined", old[i]}
    OBVIOUS
  <2>1. i \in F /\ i \in Images /\ old[i] # BoundLayout(i)
    BY <1>8
  <2>2. w[i] = InfoLayout(i) /\ new[i] = BoundLayout(i)
    BY <1>12, <1>13, <2>1
  <2>3. old[i] \in {"undefined", InfoLayout(i)}
    BY <1>7, <1>11, <2>1 DEF FoldsOf
  <2> QED BY <1>6, <2>1, <2>2, <2>3 DEF Settled
<1>15. PICK v : v = PassLayouts(F)
  OBVIOUS
<1>16. \A i \in Images : v[i] = IF i \in I THEN new[i] ELSE w[i]
  <2> SUFFICES ASSUME NEW i \in Images PROVE v[i] = IF i \in I THEN new[i] ELSE w[i]
    OBVIOUS
  <2>1. v[i] = IF i \in F THEN BoundLayout(i) ELSE InfoLayout(i)
    BY <1>15 DEF PassLayouts
  <2>2. CASE i \in F
    BY <1>8, <1>12, <1>13, <2>1, <2>2
  <2>3. CASE i \notin F
    <3>1. old[i] = InfoLayout(i)
      BY <1>7, <1>11, <2>3 DEF FoldsOf, Attached
    <3> QED BY <1>8, <1>12, <2>1, <2>3, <3>1
  <2> QED BY <2>2, <2>3
<1>17. Sound(clean, w)
  BY <1>5 DEF Between
<1>18. Moved(clean, x, v, I, old)
  BY <1>9, <1>14, <1>16, <1>17, AttachmentsMovedIs
<1>19. /\ Sound(t, v) /\ KeepsControl(x, t) /\ t.pending = {} /\ t.barriers = NoBarriers
       /\ t.stale = x.stale \cup AspectsOf(Lost(x.barriers.moves))
  BY <1>10, <1>18, RecordCommandsIs DEF Moved
<1>20. KeepsControl(s, t)
  BY <1>5, <1>18, <1>19 DEF Moved, KeepsControl
<1>21. \A i \in Images, a \in AspectNames : <<i, a>> \in t.stale =>
         <<i, a>> \in s.stale \/ (i \in F /\ a \in s.clears[i])
  <2> SUFFICES ASSUME NEW i \in Images, NEW a \in AspectNames, <<i, a>> \in t.stale,
                      <<i, a>> \notin s.stale
               PROVE  i \in F /\ a \in s.clears[i]
    OBVIOUS
  <2>1. <<i, a>> \in AspectsOf(Lost(x.barriers.moves))
    BY <1>5, <1>18, <1>19 DEF Moved
  <2>2. i \in Lost(x.barriers.moves) /\ a \in Aspects(i)
    BY <2>1 DEF AspectsOf
  <2>3. PICK m \in x.barriers.moves : m.image = i /\ m.old = "undefined"
    BY <2>2 DEF Lost
  <2>4. m \notin clean.barriers.moves
    BY <1>5, <2>3 DEF Between
  <2>5. i \in I /\ old[i] = "undefined"
    BY <1>18, <2>3, <2>4 DEF Moved
  <2> QED BY <1>7, <1>8, <1>11, <2>2, <2>5 DEF FoldsOf
<1> QED BY <1>15, <1>19, <1>20, <1>21 DEF Initialised

PassBegun(s, t, F) ==
  /\ Sound(t, PassLayouts(F)) /\ KeepsControl(s, t)
  /\ t.barriers.slices = {} /\ t.barriers.moves = {}
  /\ t.barriers.stages = {PassStage(i) : i \in F}
  /\ \A p \in t.pending : p.write => p.slice.resource \in F
  /\ \A i \in Images, a \in AspectNames : <<i, a>> \in t.stale =>
       <<i, a>> \in s.stale /\ ~(i \in F /\ a \in s.clears[i])

PassAccesses(F) == {Accessing(Whole(i), TRUE, PassStage(i)) : i \in F}

LEMMA PassAccessesIs ==
  ASSUME NEW F \in SUBSET Images
  PROVE  /\ PassAccesses(F) \in SUBSET AccessType /\ WholeImages(PassAccesses(F))
         /\ \A p \in PassAccesses(F) : /\ p.slice.resource \in F
                                       /\ p.stage = PassStage(p.slice.resource)
<1>1. ASSUME NEW i \in F
      PROVE  /\ Accessing(Whole(i), TRUE, PassStage(i)) \in AccessType
             /\ Accessing(Whole(i), TRUE, PassStage(i)).slice = Whole(i)
             /\ Accessing(Whole(i), TRUE, PassStage(i)).stage = PassStage(i)
             /\ Whole(i).resource = i
  <2>1. PassStage(i) \in Stages
    BY LayoutFacts DEF Stages
  <2>2. Whole(i) \in SliceType /\ Whole(i).resource = i
    BY WholeIs
  <2>3. PICK sl \in SliceType, st \in Stages : sl = Whole(i) /\ st = PassStage(i)
    BY <2>1, <2>2
  <2>4. Accessing(sl, TRUE, st) \in AccessType /\ Accessing(sl, TRUE, st).slice = sl
        /\ Accessing(sl, TRUE, st).stage = st
    BY AccessingIs
  <2> QED BY <2>2, <2>3, <2>4
<1>2. ASSUME NEW p \in PassAccesses(F)
      PROVE  /\ p \in AccessType /\ p.slice = Whole(p.slice.resource) /\ p.slice.resource \in F
             /\ p.stage = PassStage(p.slice.resource)
  <2>1. PICK i \in F : p = Accessing(Whole(i), TRUE, PassStage(i))
    BY DEF PassAccesses
  <2> QED BY <1>1, <2>1
<1> QED BY <1>2 DEF WholeImages

LEMMA BindFramebufferIs ==
  ASSUME NEW first, NEW s, Between(s, Wanted(s, TRUE)), Folds(first, s, TRUE),
         NEW F \in SUBSET Images, F = s.framebuffer, F = first.framebuffer, F # {},
         NEW t, t = BindFramebuffer(s)
  PROVE  PassBegun(s, t, F)
<1>1. PICK init : init = InitBarriers(s)
  OBVIOUS
<1>2. Initialised(s, init, F)
  BY <1>1, InitBarriersIs
<1>3. PICK v : v = PassLayouts(F)
  OBVIOUS
<1>4. /\ Sound(init, v) /\ KeepsControl(s, init) /\ init.pending = {} /\ init.barriers = NoBarriers
      /\ init \in ContextType /\ init.framebuffer = F
  BY <1>2, <1>3 DEF Initialised, KeepsControl, Sound
<1>5. PICK post : post = PostBarriers(init)
  OBVIOUS
<1>6. PICK S : S = {PassStage(i) : i \in F}
  OBVIOUS
<1>7. Registers(init, post, S, {}, {})
  <2>1. Registers(init, PostBarriers(init), {PassStage(i) : i \in init.framebuffer}, {}, {})
    BY <1>4, PostBarriersIs
  <2> QED BY <1>4, <1>5, <1>6, <2>1
<1>8. /\ post \in ContextType /\ KeepsControl(init, post) /\ KeepsEffects(init, post)
      /\ post.barriers.stages = S /\ post.barriers.slices = {} /\ post.barriers.moves = {}
  BY <1>4, <1>7 DEF Registers, NoBarriers
<1>9. \A i \in Images : post.layout[i] \in {"undefined", v[i]}
  BY <1>4, <1>8 DEF Sound, Tracked, KeepsEffects, NoBarriers
<1>10. \A i \in Images : v[i] = IF i \in F THEN BoundLayout(i) ELSE InfoLayout(i)
  BY <1>3 DEF PassLayouts
<1>11. InLayouts(post, F, BoundLayout) = post
  <2>1. {i \in F : post.layout[i] # "undefined" /\ post.layout[i] # BoundLayout(i)} = {}
    BY <1>9, <1>10
  <2> QED BY <1>8, <2>1, NotMisplaced DEF InLayouts
<1>12. PICK A \in SUBSET AccessType : A = PassAccesses(F)
  BY PassAccessesIs
<1>13. PICK used : used = Use(post, A)
  OBVIOUS
<1>14. Performs(post, used, A) /\ used.stale = post.stale
  <2>1. post.pending = {}
    BY <1>4, <1>8 DEF KeepsEffects
  <2>2. \A p \in post.pending, a \in A : Overlap(p.slice, a.slice) => ~p.write /\ ~a.write
    BY <2>1
  <2> QED BY <1>8, <1>13, <2>2, UsePerforms
<1>15. /\ used \in ContextType /\ KeepsControl(post, used) /\ used.barriers = post.barriers
       /\ used.layout = init.layout /\ used.pending = A /\ used.raced = {} /\ used.misplaced = {}
       /\ used.stale = init.stale
  BY <1>4, <1>8, <1>14 DEF Performs, KeepsEffects, Sound
<1>16. Sound(used, v)
  <2>1. Waited(used)
    <3> SUFFICES ASSUME NEW p \in A PROVE WaitedBy[p.stage] \cap used.barriers.stages # {}
      BY <1>15 DEF Waited
    <3>1. p.slice.resource \in F /\ p.stage = PassStage(p.slice.resource)
      BY <1>12, PassAccessesIs
    <3>2. p.stage \in S /\ p.stage \in {"depth", "color"}
      BY <1>6, <3>1, LayoutFacts
    <3> QED BY <1>8, <1>15, <3>2, WaitedByIs
  <2>2. MovesKnown(used)
    BY <1>8, <1>15 DEF MovesKnown, OneMoveEach
  <2>3. WholeImages(used.pending)
    BY <1>12, <1>15, PassAccessesIs
  <2>4. Tracked(used, v)
    BY <1>8, <1>9, <1>15 DEF Tracked, KeepsEffects
  <2> QED BY <1>15, <2>1, <2>2, <2>3, <2>4 DEF Sound
<1>17. PICK X : X = UNION {{i} \X s.clears[i] : i \in F}
  OBVIOUS
<1>18. t = [used EXCEPT !.stale = used.stale \ X]
  BY <1>1, <1>4, <1>5, <1>8, <1>11, <1>12, <1>13, <1>17 DEF BindFramebuffer, PassAccesses
<1>19. PICK Y \in SUBSET (Images \X AspectNames) : Y = used.stale \ X
  BY <1>15 DEF ContextType
<1>20. /\ t \in ContextType /\ KeepsControl(used, t) /\ t.barriers = used.barriers /\ t.stale = Y
       /\ t.layout = used.layout /\ t.pending = used.pending /\ t.raced = used.raced
       /\ t.misplaced = used.misplaced
  <2>1. t = [used EXCEPT !.stale = Y]
    BY <1>18, <1>19
  <2>2. t \in ContextType
    BY <1>15, <2>1 DEF ContextType
  <2> QED BY <1>15, <2>1, <2>2 DEF ContextType, KeepsControl
<1>21. Sound(t, v)
  BY <1>16, <1>20 DEF Sound, Waited, MovesKnown, Tracked
<1>22. KeepsControl(s, t)
  BY <1>4, <1>8, <1>15, <1>20 DEF KeepsControl
<1>23. ASSUME NEW i \in Images, NEW a \in AspectNames, <<i, a>> \in t.stale
       PROVE  <<i, a>> \in s.stale /\ ~(i \in F /\ a \in s.clears[i])
  <2>1. <<i, a>> \in init.stale /\ <<i, a>> \notin X
    BY <1>15, <1>19, <1>20, <1>23
  <2>2. ~(i \in F /\ a \in s.clears[i])
    BY <1>17, <2>1
  <2> QED BY <1>2, <2>1, <2>2 DEF Initialised
<1>24. \A p \in t.pending : p.slice.resource \in F
  BY <1>12, <1>15, <1>20, PassAccessesIs
<1> QED BY <1>3, <1>6, <1>8, <1>15, <1>20, <1>21, <1>22, <1>23, <1>24 DEF PassBegun

Started(s, t) ==
  /\ InPass(t) /\ Unloaded(t) /\ t.bound /\ t.deferred = <<>>
  /\ t.targets = s.targets /\ t.framebuffer = s.framebuffer /\ t.dirty = s.dirty
  /\ t.late = s.late
  /\ \A i \in Images \ t.late, a \in AspectNames : <<i, a>> \notin t.stale

LEMMA StartRenderPassIs ==
  ASSUME NEW s, Steady(s), ~s.bound, s.framebuffer # {}, NEW t, t = StartRenderPass(s)
  PROVE  Started(s, t)
<1>1. Between(s, InfoLayouts) /\ s.rtLayouts = InfoLayouts /\ Unloaded(s) /\ s \in ContextType
  BY DEF Steady, Outside, Between, Sound
<1>2. PICK F \in SUBSET Images : F = s.framebuffer
  BY <1>1 DEF ContextType
<1>3. PICK first : first = [s EXCEPT !.loads = s.rtLayouts]
  OBVIOUS
<1>4. /\ first \in ContextType /\ KeepsEffects(s, first) /\ first.barriers = s.barriers
      /\ first.rtLayouts = s.rtLayouts /\ first.framebuffer = F /\ first.targets = s.targets
      /\ first.dirty = s.dirty /\ first.late = s.late /\ first.deferred = s.deferred
      /\ first.loads = InfoLayouts /\ first.clears = s.clears /\ first.overtaken = s.overtaken
      /\ first.bound = s.bound
  BY <1>1, <1>2, <1>3 DEF ContextType, KeepsEffects
<1>5. \A i \in Images : first.loads[i] = InfoLayout(i) /\ first.clears[i] = {}
  BY <1>1, <1>4 DEF InfoLayouts, Unloaded
<1>6. Wanted(first, TRUE) = InfoLayouts
  BY <1>5, LayoutFacts DEF Wanted, InfoLayouts
<1>7. Flushing(first, first, TRUE)
  <2>1. Between(first, Wanted(first, TRUE))
    BY <1>1, <1>4, <1>6, BetweenKept
  <2>2. \A i \in Images : FoldsOf(first, first, i)
    BY <1>5, LayoutFacts DEF FoldsOf
  <2> QED BY <2>1, <2>2 DEF Flushing, SameFrame, Folds
<1>8. Kept(first)
  BY <1>1, <1>4 DEF Unloaded, Kept, KeepsEffects
<1>9. PICK u : u = FlushClears(first, TRUE)
  OBVIOUS
<1>10. Flushed(first, u, TRUE)
  BY <1>7, <1>8, <1>9, FlushClearsIs
<1>11. PICK b : b = BindFramebuffer(u)
  OBVIOUS
<1>12. PassBegun(u, b, F)
  <2>1. u.framebuffer = F /\ first.framebuffer = F /\ F # {}
    BY <1>2, <1>4, <1>10 DEF Flushed
  <2> QED BY <1>10, <1>11, <2>1, BindFramebufferIs DEF Flushed
<1>13. PICK v : v = PassLayouts(F)
  OBVIOUS
<1>14. PICK w \in [Images -> Layouts] : w = v
  <2>1. \A i \in Images : InfoLayout(i) \in Layouts /\ BoundLayout(i) \in Layouts
    BY LayoutFacts
  <2> QED BY <1>13, <2>1 DEF PassLayouts
<1>15. PICK x \in [Images -> Layouts], y \in [Images -> SUBSET AspectNames] :
         x = BoundLayouts /\ y = [i \in Images |-> {}]
  BY LayoutFacts
<1>16. b \in ContextType
  BY <1>12 DEF PassBegun, Sound
<1>17. t = [b EXCEPT !.bound = TRUE, !.rtLayouts = w, !.loads = x, !.clears = y]
  <2>1. t = ResetOps([b EXCEPT !.bound = TRUE, !.rtLayouts = w])
    BY <1>2, <1>3, <1>9, <1>11, <1>13, <1>14 DEF StartRenderPass, PassLayouts
  <2> QED BY <1>15, <2>1 DEF ResetOps
<1>18. t \in ContextType
  BY <1>16, <1>17 DEF ContextType
<1>19. /\ KeepsEffects(b, t) /\ t.barriers = b.barriers /\ t.bound = TRUE /\ t.rtLayouts = w
       /\ t.loads = x /\ t.clears = y /\ t.framebuffer = b.framebuffer /\ t.targets = b.targets
       /\ t.dirty = b.dirty /\ t.late = b.late /\ t.deferred = b.deferred
       /\ t.overtaken = b.overtaken
  BY <1>16, <1>17 DEF ContextType, KeepsEffects
<1>20. /\ t.framebuffer = F /\ t.targets = s.targets /\ t.dirty = s.dirty /\ t.late = s.late
       /\ t.deferred = <<>> /\ t.overtaken = {}
  <2>1. /\ b.framebuffer = F /\ b.targets = u.targets /\ b.dirty = u.dirty /\ b.late = u.late
        /\ b.deferred = u.deferred /\ b.overtaken = u.overtaken
    BY <1>4, <1>10, <1>12 DEF PassBegun, KeepsControl, Flushed
  <2> QED BY <1>1, <1>4, <1>10, <1>19, <2>1 DEF Flushed, Unloaded
<1>21. ASSUME NEW i \in Images \ t.late, NEW a \in AspectNames PROVE <<i, a>> \notin t.stale
  <2>1. SUFFICES ASSUME <<i, a>> \in t.stale PROVE FALSE
    OBVIOUS
  <2>2. <<i, a>> \in u.stale /\ ~(i \in F /\ a \in u.clears[i])
    BY <1>12, <1>19, <2>1 DEF PassBegun, KeepsEffects
  <2>3. a \in u.clears[i] /\ i \notin F
    BY <1>4, <1>10, <1>20, <2>2 DEF Flushed
  <2>4. FoldsOf(first, u, i) /\ ~Attached(first, i)
    BY <1>4, <1>10, <2>3 DEF Flushed, Folds, Attached
  <2> QED BY <2>3, <2>4, LayoutFacts DEF FoldsOf
<1>22. InPass(t)
  <2>1. Sound(t, w)
    BY <1>12, <1>13, <1>14, <1>18, <1>19, SoundKept DEF PassBegun
  <2> QED BY <1>2, <1>12, <1>13, <1>14, <1>19, <1>20, <2>1 DEF InPass, PassBegun, KeepsEffects
<1>23. Unloaded(t)
  BY <1>15, <1>19, <1>20, <1>21 DEF Unloaded, Kept
<1> QED BY <1>2, <1>19, <1>20, <1>21, <1>22, <1>23 DEF Started

-----------------------------------------------------------------------------
\* Nothing called for is missing from the images, but for those put off.
Fresh(s, images) == \A i \in images \ s.late, a \in AspectNames : <<i, a>> \notin s.stale
PutOffOf(s, images) ==
  \A k \in DOMAIN s.deferred : s.deferred[k].image \in images => s.deferred[k].image \in s.late

LEMMA FreshIs ==
  ASSUME NEW s, Kept(s), NEW images \in SUBSET Images, PutOffOf(s, images)
  PROVE  Fresh(s, images)
<1> SUFFICES ASSUME NEW i \in images \ s.late, NEW a \in AspectNames, <<i, a>> \in s.stale
             PROVE  FALSE
  BY DEF Fresh
<1>1. PICK k \in DOMAIN s.deferred : s.deferred[k].image = i
  BY DEF Kept
<1> QED BY <1>1 DEF PutOffOf

LEMMA SeeFresh ==
  ASSUME NEW s \in ContextType, NEW images \in SUBSET Images, Fresh(s, images)
  PROVE  See(s, images) = s
<1>1. ASSUME NEW i \in images \ s.late PROVE s.stale \cap AspectsOf({i}) = {}
  <2> SUFFICES ASSUME NEW x \in s.stale, x \in AspectsOf({i}) PROVE FALSE
    OBVIOUS
  <2>1. PICK j \in Images, a \in AspectNames : x = <<j, a>>
    BY DEF ContextType
  <2>2. j = i
    BY <2>1 DEF AspectsOf
  <2> QED BY <2>1, <2>2 DEF Fresh
<1> QED BY <1>1, SeeIs

\* What putting off changes.
OnlyLate(s, t) ==
  /\ KeepsEffects(s, t) /\ t.barriers = s.barriers
  /\ t.targets = s.targets /\ t.framebuffer = s.framebuffer /\ t.dirty = s.dirty
  /\ t.bound = s.bound /\ t.rtLayouts = s.rtLayouts /\ t.loads = s.loads
  /\ t.clears = s.clears /\ t.deferred = s.deferred /\ t.overtaken = s.overtaken

PutOffEffect(s, t, images) == Steady(t) /\ OnlyLate(s, t) /\ PutOffOf(t, images)

LEMMA SteadyType == ASSUME NEW s, Steady(s) PROVE s \in ContextType
BY DEF Steady, InPass, Outside, Between, Sound

LEMMA PutOffIs ==
  ASSUME NEW s, Steady(s), NEW images \in SUBSET Images, NEW t, t = PutOff(s, images)
  PROVE  PutOffEffect(s, t, images)
<1>1. s \in ContextType
  BY SteadyType
<1>2. PICK L : L = s.late \cup (images \cap {s.deferred[k].image : k \in DOMAIN s.deferred})
  OBVIOUS
<1>3. L \in SUBSET Images
  BY <1>1, <1>2 DEF ContextType
<1>4. t = [s EXCEPT !.late = L]
  BY <1>2 DEF PutOff
<1>5. t \in ContextType
  BY <1>1, <1>3, <1>4 DEF ContextType
<1>6. OnlyLate(s, t) /\ t.late = L
  BY <1>1, <1>4 DEF ContextType, OnlyLate, KeepsEffects
<1>7. Unloaded(t)
  BY <1>2, <1>6 DEF Steady, Unloaded, Kept, OnlyLate, KeepsEffects
<1>8. CASE s.bound
  <2>1. Sound(t, t.rtLayouts)
    BY <1>5, <1>6, <1>8, SoundKept DEF Steady, InPass, OnlyLate
  <2>2. InPass(t)
    BY <1>6, <1>8, <2>1 DEF Steady, InPass, OnlyLate, KeepsEffects
  <2> QED BY <1>2, <1>6, <1>7, <1>8, <2>2 DEF PutOffEffect, Steady, OnlyLate, PutOffOf
<1>9. CASE ~s.bound
  <2>1. Between(t, InfoLayouts)
    BY <1>5, <1>6, <1>9, BetweenKept DEF Steady, Outside, OnlyLate
  <2>2. Outside(t)
    BY <1>6, <1>9, <2>1 DEF Steady, Outside, OnlyLate
  <2> QED BY <1>2, <1>6, <1>7, <1>9, <2>2 DEF PutOffEffect, Steady, OnlyLate, PutOffOf
<1> QED BY <1>8, <1>9

Rest(s) == Steady(s) /\ (~s.dirty => s.framebuffer = s.targets)

\* The targets have become the framebuffer.
Updated(s, t) ==
  Steady(t) /\ ~t.bound /\ ~t.dirty /\ t.framebuffer = s.targets /\ t.targets = s.targets

LEMMA UpdateFramebufferIs ==
  ASSUME NEW s, Steady(s), NEW t, t = UpdateFramebuffer(s)
  PROVE  Updated(s, t)
<1>1. s \in ContextType
  BY SteadyType
<1>2. PICK clean : clean = [s EXCEPT !.dirty = FALSE]
  OBVIOUS
<1>3. /\ clean \in ContextType /\ KeepsEffects(s, clean) /\ clean.barriers = s.barriers
      /\ clean.targets = s.targets /\ clean.framebuffer = s.framebuffer /\ clean.dirty = FALSE
      /\ clean.bound = s.bound /\ clean.rtLayouts = s.rtLayouts /\ clean.loads = s.loads
      /\ clean.clears = s.clears /\ clean.deferred = s.deferred
      /\ clean.overtaken = s.overtaken /\ clean.late = s.late
  BY <1>1, <1>2 DEF ContextType, KeepsEffects
<1>4. Steady(clean)
  <2>1. Unloaded(clean)
    BY <1>3 DEF Steady, Unloaded, Kept, KeepsEffects
  <2>2. CASE s.bound
    <3>1. Sound(clean, clean.rtLayouts)
      BY <1>3, <2>2, SoundKept DEF Steady, InPass
    <3> QED BY <1>3, <2>1, <2>2, <3>1 DEF Steady, InPass, KeepsEffects
  <2>3. CASE ~s.bound
    <3>1. Between(clean, InfoLayouts)
      BY <1>3, <2>3, BetweenKept DEF Steady, Outside
    <3> QED BY <1>3, <2>1, <2>3, <3>1 DEF Steady, Outside
  <2> QED BY <2>2, <2>3
<1>5. PICK u : u = Spill(clean)
  OBVIOUS
<1>6. Spilled(clean, u)
  BY <1>4, <1>5, SpillIs
<1>7. u \in ContextType /\ u.rtLayouts = InfoLayouts
  BY <1>6 DEF Spilled, Outside, Between, Sound
<1>8. PICK T \in SUBSET Images : T = s.targets
  BY <1>1 DEF ContextType
<1>9. [i \in Images |-> IF i \in s.framebuffer \cap T THEN u.rtLayouts[i] ELSE InfoLayout(i)] = InfoLayouts
  BY <1>7 DEF InfoLayouts
<1>10. t = [u EXCEPT !.framebuffer = T, !.rtLayouts = InfoLayouts]
  BY <1>2, <1>5, <1>8, <1>9 DEF UpdateFramebuffer
<1>11. t = [u EXCEPT !.framebuffer = T]
  BY <1>7, <1>10 DEF ContextType
<1>12. t \in ContextType
  BY <1>7, <1>11 DEF ContextType
<1>13. /\ KeepsEffects(u, t) /\ t.barriers = u.barriers
       /\ t.targets = u.targets /\ t.framebuffer = T /\ t.dirty = u.dirty
       /\ t.bound = u.bound /\ t.rtLayouts = u.rtLayouts /\ t.loads = u.loads
       /\ t.clears = u.clears /\ t.deferred = u.deferred
       /\ t.overtaken = u.overtaken /\ t.late = u.late
  BY <1>7, <1>11 DEF ContextType, KeepsEffects
<1>14. Unloaded(t)
  BY <1>6, <1>13 DEF Spilled, Unloaded, Kept, KeepsEffects
<1>15. Outside(t)
  <2>1. Between(t, InfoLayouts)
    BY <1>6, <1>12, <1>13, BetweenKept DEF Spilled, Outside
  <2> QED BY <1>6, <1>13, <2>1 DEF Spilled, Outside
<1> QED BY <1>3, <1>6, <1>8, <1>13, <1>14, <1>15 DEF Updated, Steady, Spilled

-----------------------------------------------------------------------------
\* What commands access.
Accesses(U, write, stage) == {Accessing(u, write, stage) : u \in U}
BufferSlices == {x \in SliceType : x.resource \in Buffers}
Used(images, slices) == {Whole(i) : i \in images} \cup slices

LEMMA UsedIs ==
  ASSUME NEW images \in SUBSET Images, NEW slices \in SUBSET BufferSlices
  PROVE  /\ Used(images, slices) \in SUBSET SliceType
         /\ \A u \in Used(images, slices) :
              \/ u.resource \in images /\ u = Whole(u.resource)
              \/ u.resource \in Buffers /\ u.resource \notin Images
         /\ \A i \in images : Whole(i) \in Used(images, slices)
<1>1. \A i \in images : Whole(i) \in SliceType /\ Whole(i).resource = i
  BY WholeIs
<1> QED BY <1>1, ContextAssumption DEF Used, BufferSlices, Images

LEMMA AccessesAre ==
  ASSUME NEW U \in SUBSET SliceType, \A u \in U : u.resource \in Images => u = Whole(u.resource),
         NEW write \in BOOLEAN, NEW stage \in Stages
  PROVE  /\ Accesses(U, write, stage) \in SUBSET AccessType
         /\ WholeImages(Accesses(U, write, stage))
         /\ \A a \in Accesses(U, write, stage) : a.slice \in U /\ a.write = write /\ a.stage = stage
<1>1. ASSUME NEW u \in U
      PROVE  /\ Accessing(u, write, stage) \in AccessType
             /\ Accessing(u, write, stage).slice = u
             /\ Accessing(u, write, stage).write = write
             /\ Accessing(u, write, stage).stage = stage
  BY AccessingIs
<1>2. \A a \in Accesses(U, write, stage) : /\ a \in AccessType /\ a.slice \in U
                                           /\ a.write = write /\ a.stage = stage
  BY <1>1 DEF Accesses
<1> QED BY <1>2 DEF WholeImages

Drawn(s, t) == InPass(t) /\ Unloaded(t) /\ KeepsControl(s, t)

LEMMA DrawnIs ==
  ASSUME NEW s, InPass(s), Unloaded(s), NEW images \in SUBSET Images,
         images \cap s.framebuffer = {}, NEW buffers \in SUBSET BufferSlices,
         Fresh(s, s.framebuffer \cup images),
         NEW t, t = See(InLayouts(Use(s, Accesses(Used(images, buffers), FALSE, "shader")),
                                  images, InfoLayout), s.framebuffer \cup images)
  PROVE  Drawn(s, t)
<1>1. s \in ContextType /\ s.framebuffer \subseteq Images
  BY DEF InPass, Sound, ContextType
<1>2. PICK U \in SUBSET SliceType : U = Used(images, buffers)
  BY UsedIs
<1>3. \A u \in U : \/ u.resource \in images /\ u = Whole(u.resource)
                   \/ u.resource \in Buffers /\ u.resource \notin Images
  BY <1>2, UsedIs
<1>4. PICK A \in SUBSET AccessType : A = Accesses(U, FALSE, "shader")
  <2>1. "shader" \in Stages
    BY DEF Stages
  <2> QED BY <1>3, <2>1, AccessesAre
<1>5. WholeImages(A) /\ \A a \in A : a.slice \in U /\ a.write = FALSE /\ a.stage = "shader"
  <2>1. "shader" \in Stages
    BY DEF Stages
  <2> QED BY <1>3, <1>4, <2>1, AccessesAre
<1>6. PICK used : used = Use(s, A)
  OBVIOUS
<1>7. ASSUME NEW p \in s.pending, NEW a \in A, Overlap(p.slice, a.slice)
      PROVE  ~p.write /\ ~a.write
  <2>1. p.slice \in SliceType
    BY <1>1 DEF ContextType, AccessType
  <2>2. p.slice.resource = a.slice.resource
    BY <1>5, <1>7, <2>1, OverlapIs
  <2>3. a.slice.resource \notin s.framebuffer
    BY <1>1, <1>3, <1>5
  <2> QED BY <1>5, <2>2, <2>3 DEF InPass
<1>8. Performs(s, used, A) /\ used.stale = s.stale
  BY <1>1, <1>6, <1>7, UsePerforms
<1>9. used \in ContextType /\ KeepsControl(s, used) /\ used.barriers = s.barriers
      /\ used.layout = s.layout /\ used.pending = s.pending \cup A
      /\ used.raced = {} /\ used.misplaced = {}
  BY <1>8 DEF Performs, InPass, Sound
<1>10. \A i \in Images : i \notin s.framebuffer => s.layout[i] \in {"undefined", InfoLayout(i)}
  BY DEF InPass, Sound, Tracked, PassLayouts
<1>11. InLayouts(used, images, InfoLayout) = used
  <2>1. {i \in images : used.layout[i] # "undefined" /\ used.layout[i] # InfoLayout(i)} = {}
    BY <1>9, <1>10
  <2> QED BY <1>9, <2>1, NotMisplaced DEF InLayouts
<1>12. See(used, s.framebuffer \cup images) = used
  <2>1. Fresh(used, s.framebuffer \cup images)
    BY <1>8, <1>9 DEF Fresh, KeepsControl
  <2>2. PICK I \in SUBSET Images : I = s.framebuffer \cup images
    BY <1>1
  <2> QED BY <1>9, <2>1, <2>2, SeeFresh
<1>13. t = used
  BY <1>2, <1>4, <1>6, <1>11, <1>12
<1>14. Sound(used, used.rtLayouts)
  <2>1. Waited(used)
    <3>1. \A p \in s.pending : WaitedBy[p.stage] \cap s.barriers.stages # {}
      BY DEF InPass, Sound, Waited
    <3>2. PICK f \in s.framebuffer : TRUE
      BY DEF InPass
    <3>3. PassStage(f) \in s.barriers.stages /\ PassStage(f) \in {"depth", "color"}
      BY <1>1, LayoutFacts DEF InPass
    <3>4. \A a \in A : WaitedBy[a.stage] \cap s.barriers.stages # {}
      BY <1>5, <3>3, WaitedByIs
    <3> QED BY <1>9, <3>1, <3>4 DEF Waited
  <2>2. MovesKnown(used) /\ Tracked(used, used.rtLayouts)
    BY <1>9 DEF InPass, Sound, MovesKnown, Tracked, KeepsControl
  <2>3. WholeImages(used.pending)
    BY <1>5, <1>9 DEF WholeImages, InPass, Sound
  <2> QED BY <1>9, <2>1, <2>2, <2>3 DEF Sound
<1>15. InPass(used)
  BY <1>5, <1>9, <1>14 DEF InPass, KeepsControl
<1>16. Unloaded(used)
  BY <1>8, <1>9 DEF Unloaded, Kept, KeepsControl
<1> QED BY <1>9, <1>13, <1>15, <1>16 DEF Drawn

-----------------------------------------------------------------------------
\* The slices commands use outside a pass.
LEMMA BuffersAre ==
  /\ WholeBuffers \in SUBSET BufferSlices /\ BufferUnits \in SUBSET BufferSlices
  /\ \A b \in WholeBuffers : /\ [b EXCEPT !.size = 0] \in SliceType
                             /\ [b EXCEPT !.size = 0].resource \notin Images
BY ContextAssumption
   DEF WholeBuffers, BufferUnits, BufferSlices, Slice, SliceType, Images

SpilledFor(s, t, images) ==
  /\ Outside(t) /\ Unloaded(t) /\ ~t.bound /\ PutOffOf(t, images)
  /\ t.targets = s.targets /\ t.framebuffer = s.framebuffer /\ t.dirty = s.dirty

LEMMA SpillForIs ==
  ASSUME Steady(context), NEW images \in SUBSET Images, NEW t, t = SpillFor(images)
  PROVE  SpilledFor(context, t, images)
<1>1. CASE context.bound
  <2>1. PICK u : u = PutOff(context, images)
    OBVIOUS
  <2>2. PutOffEffect(context, u, images)
    BY <2>1, PutOffIs
  <2>3. t = Spill(u) /\ Steady(u)
    BY <1>1, <2>1, <2>2 DEF SpillFor, PutOffEffect
  <2>4. Spilled(u, t)
    BY <2>3, SpillIs
  <2> QED BY <1>1, <2>2, <2>4 DEF PutOffEffect, OnlyLate, Spilled, SpilledFor, PutOffOf
<1>2. CASE ~context.bound
  <2>1. Spilled(context, t)
    BY <1>2, SpillIs DEF SpillFor
  <2> QED BY <1>2, <2>1 DEF Spilled, SpilledFor, PutOffOf
<1> QED BY <1>1, <1>2

LEMMA CommandPerforms ==
  ASSUME NEW w, NEW s, Between(s, w), NEW A \in SUBSET AccessType,
         \A a \in A : ~Dirty(s, a.slice, a.write), NEW t, t = Use(s, A)
  PROVE  Performs(s, t, A) /\ t.stale = s.stale
<1>1. s \in ContextType
  BY DEF Between, Sound
<1>2. ASSUME NEW p \in s.pending, NEW a \in A, Overlap(p.slice, a.slice)
      PROVE  ~p.write /\ ~a.write
  <2>1. PICK x \in SliceType, z \in BOOLEAN : x = a.slice /\ z = a.write
    BY DEF AccessType
  <2>2. ~Dirty(s, x, z)
    BY <2>1
  <2>3. \A q \in s.pending : Overlap(q.slice, x) => ~q.write /\ ~z
    BY <2>2, NotDirtyIs
  <2> QED BY <1>2, <2>1, <2>3
<1> QED BY <1>1, <1>2, UsePerforms

\* A command has been recorded outside a pass: it has left less undone.
Executed(s, t) == Between(t, InfoLayouts) /\ KeepsControl(s, t) /\ t.stale \subseteq s.stale

LEMMA ExecutedIs ==
  ASSUME NEW s, Outside(s), Unloaded(s), ~s.bound, NEW t, Executed(s, t)
  PROVE  Steady(t)
<1>1. Outside(t) /\ ~t.bound
  BY DEF Executed, Outside, KeepsControl
<1>2. Kept(t)
  BY DEF Executed, Unloaded, Kept, KeepsControl
<1> QED BY <1>1, <1>2 DEF Executed, Unloaded, Steady, KeepsControl

\* What a command that moves no image registers covers its accesses.
Registering(A, S, E) ==
  /\ \A a \in A : /\ WaitedBy[a.stage] \cap S # {}
                  /\ \E e \in E : e.slice = a.slice /\ (a.write => e.write)
  /\ E # {} => S # {}

LEMMA RegisteredIs ==
  ASSUME NEW w, NEW s, Between(s, w), NEW t, NEW u, NEW A, NEW S, NEW E,
         Performs(s, t, A), WholeImages(A), Registers(t, u, S, E, {}), Registering(A, S, E)
  PROVE  Leads(s, t, u, w)
<1>1. PICK M : M = {}
  OBVIOUS
<1>2. Covers(s, A, S, E, M)
  BY <1>1 DEF Covers, Registering, OneMoveEach
<1>3. Becomes(w, w, M)
  BY <1>1 DEF Becomes
<1>4. Registers(t, u, S, E, M)
  BY <1>1
<1> QED BY <1>2, <1>3, <1>4, PerformedIs

LEMMA DispatchedIs ==
  ASSUME NEW s, Outside(s), Unloaded(s), NEW images \in SUBSET Images, PutOffOf(s, images),
         NEW slices \in SUBSET BufferSlices, NEW write \in BOOLEAN,
         NEW U, U = Used(images, slices), NEW clean,
         clean = IF write THEN RecordIfDirty(s, {}, U) ELSE RecordIfDirty(s, U, {}),
         NEW t, t = AccessSlices(See(InLayouts(Use(clean, Accesses(U, write, "compute")),
                                               images, InfoLayout), images), U, write, "compute")
  PROVE  Executed(s, t)
<1>1. PICK w : w = InfoLayouts
  OBVIOUS
<1>2. Between(s, w) /\ s \in ContextType
  BY <1>1 DEF Outside, Between, Sound
<1>3. /\ Between(clean, w) /\ KeepsControl(s, clean) /\ clean.stale = s.stale
      /\ \A u \in U : ~Dirty(clean, u, write)
  <2>1. PICK N : N = {}
    OBVIOUS
  <2>2. CASE write
    <3>1. Recorded(s, clean, w, N, U)
      BY <1>2, <2>1, <2>2, RecordIfDirtyIs
    <3> QED BY <2>2, <3>1 DEF Recorded
  <2>3. CASE ~write
    <3>1. Recorded(s, clean, w, U, N)
      BY <1>2, <2>1, <2>3, RecordIfDirtyIs
    <3>2. write = FALSE
      BY <2>3
    <3> QED BY <3>1, <3>2 DEF Recorded
  <2> QED BY <2>2, <2>3
<1>4. /\ U \in SUBSET SliceType
      /\ \A u \in U : u.resource \in Images => u = Whole(u.resource)
      /\ \A i \in images : Whole(i) \in U
  BY UsedIs
<1>5. PICK A \in SUBSET AccessType : A = Accesses(U, write, "compute")
  BY <1>4, WaitedByIs, AccessesAre
<1>6. WholeImages(A) /\ \A a \in A : a.slice \in U /\ a.write = write /\ a.stage = "compute"
  BY <1>4, <1>5, WaitedByIs, AccessesAre
<1>7. PICK used : used = Use(clean, A)
  OBVIOUS
<1>8. Performs(clean, used, A) /\ used.stale = s.stale
  <2>1. \A a \in A : ~Dirty(clean, a.slice, a.write)
    BY <1>3, <1>6
  <2> QED BY <1>3, <1>7, <2>1, CommandPerforms
<1>9. used \in ContextType /\ KeepsControl(s, used) /\ used.layout = clean.layout
  BY <1>3, <1>8 DEF Performs, KeepsControl
<1>10. ASSUME NEW i \in images PROVE used.layout[i] \in {"undefined", InfoLayout(i)}
  <2>1. ~Dirty(clean, Whole(i), write)
    BY <1>3, <1>4
  <2>2. Settled(clean, w, i)
    BY <1>3, <2>1, CleanImageIs
  <2> QED BY <1>1, <1>9, <2>2 DEF Settled, InfoLayouts
<1>11. InLayouts(used, images, InfoLayout) = used
  <2>1. {i \in images : used.layout[i] # "undefined" /\ used.layout[i] # InfoLayout(i)} = {}
    BY <1>10
  <2> QED BY <1>9, <2>1, NotMisplaced DEF InLayouts
<1>12. See(used, images) = used
  <2>1. Fresh(s, images)
    BY FreshIs DEF Unloaded
  <2>2. Fresh(used, images)
    BY <1>8, <1>9, <2>1 DEF Fresh, KeepsControl
  <2> QED BY <1>9, <2>2, SeeFresh
<1>13. t = AccessSlices(used, U, write, "compute")
  BY <1>5, <1>7, <1>11, <1>12
<1>14. PICK S, E : S = {"compute" : u \in U} /\ E = {Entry(u, write) : u \in U}
  OBVIOUS
<1>15. Registers(used, t, S, E, {})
  <2>1. PICK stage \in Stages : stage = "compute"
    BY WaitedByIs
  <2>2. Registers(used, AccessSlices(used, U, write, stage),
                  {stage : u \in U}, {Entry(u, write) : u \in U}, {})
    BY <1>4, <1>9, AccessSlicesIs
  <2> QED BY <1>13, <1>14, <2>1, <2>2
<1>16. Registering(A, S, E)
  <2>1. \A u \in U : "compute" \in S /\ Entry(u, write) \in E
    BY <1>14
  <2>2. \A u \in U : Entry(u, write).slice = u /\ Entry(u, write).write = write
    BY DEF Entry
  <2>3. E # {} => U # {}
    BY <1>14
  <2>4. \A a \in A : /\ WaitedBy[a.stage] \cap S # {}
                     /\ \E e \in E : e.slice = a.slice /\ (a.write => e.write)
    BY <1>6, <2>1, <2>2, WaitedByIs
  <2> QED BY <2>1, <2>3, <2>4 DEF Registering
<1>17. Leads(clean, used, t, w)
  BY <1>3, <1>6, <1>8, <1>15, <1>16, RegisteredIs
<1> QED BY <1>1, <1>3, <1>8, <1>17 DEF Leads, Executed, KeepsControl

\* Accesses of transfers to buffers.
LEMMA TransferredIs ==
  ASSUME NEW s, Outside(s), NEW reads \in SUBSET BufferSlices, NEW writes \in SUBSET BufferSlices,
         NEW clean, clean = RecordIfDirty(s, reads, writes),
         NEW A, A = Accesses(reads, FALSE, "transfer") \cup Accesses(writes, TRUE, "transfer"),
         NEW used, used = Use(clean, A),
         NEW t, NEW S, NEW E, Registers(used, t, S, E, {}), Registering(A, S, E)
  PROVE  Executed(s, t)
<1>1. PICK w : w = InfoLayouts
  OBVIOUS
<1>2. Between(s, w)
  BY <1>1 DEF Outside
<1>3. Recorded(s, clean, w, reads, writes)
  BY <1>2, RecordIfDirtyIs
<1>4. "transfer" \in Stages
  BY WaitedByIs
<1>5. \A u \in BufferSlices : u \in SliceType /\ u.resource \notin Images
  BY ContextAssumption DEF BufferSlices, Images
<1>6. ASSUME NEW U \in SUBSET BufferSlices, NEW write \in BOOLEAN
      PROVE  /\ Accesses(U, write, "transfer") \in SUBSET AccessType
             /\ WholeImages(Accesses(U, write, "transfer"))
             /\ \A a \in Accesses(U, write, "transfer") : a.slice \in U /\ a.write = write
  <2>1. U \in SUBSET SliceType /\ \A u \in U : u.resource \in Images => u = Whole(u.resource)
    BY <1>5
  <2> QED BY <1>4, <2>1, AccessesAre
<1>7. A \in SUBSET AccessType /\ WholeImages(A)
  BY <1>6 DEF WholeImages
<1>8. \A a \in A : ~Dirty(clean, a.slice, a.write)
  <2> SUFFICES ASSUME NEW a \in A PROVE ~Dirty(clean, a.slice, a.write)
    OBVIOUS
  <2>1. CASE a \in Accesses(reads, FALSE, "transfer")
    <3>1. a.slice \in reads /\ a.write = FALSE
      BY <1>6, <2>1
    <3> QED BY <1>3, <3>1 DEF Recorded
  <2>2. CASE a \in Accesses(writes, TRUE, "transfer")
    <3>1. a.slice \in writes /\ a.write = TRUE
      BY <1>6, <2>2
    <3> QED BY <1>3, <3>1 DEF Recorded
  <2> QED BY <2>1, <2>2
<1>9. Performs(clean, used, A) /\ used.stale = clean.stale
  BY <1>3, <1>7, <1>8, CommandPerforms DEF Recorded
<1>10. Leads(clean, used, t, w)
  BY <1>3, <1>7, <1>9, RegisteredIs DEF Recorded
<1> QED BY <1>1, <1>3, <1>9, <1>10 DEF Recorded, Leads, Executed, KeepsControl

-----------------------------------------------------------------------------
\* Every operation leaves the context as it must be between operations.
LEMMA RestIs ==
  ASSUME Rest(context)
  PROVE  Steady(context) /\ context \in ContextType
BY SteadyType DEF Rest

LEMMA AfterSpill ==
  ASSUME Rest(context), NEW images, NEW s, SpilledFor(context, s, images),
         NEW t, Executed(s, t)
  PROVE  Rest(t)
<1>1. Steady(t)
  BY ExecutedIs DEF SpilledFor
<1> QED BY <1>1 DEF Rest, Executed, SpilledFor, KeepsControl

LEMMA DispatchRests ==
  ASSUME Rest(context), NEW images \in SUBSET Images, NEW slices \in SUBSET BufferSlices,
         NEW write \in BOOLEAN, Dispatch(images, slices, write)
  PROVE  Rest(context')
<1>1. PICK r : r = IF context.bound THEN Spill(context) ELSE context
  OBVIOUS
<1>2. /\ Steady(r) /\ ~r.bound /\ r.targets = context.targets
      /\ r.framebuffer = context.framebuffer /\ r.dirty = context.dirty
  <2>1. CASE context.bound
    <3>1. Spilled(context, r)
      BY <1>1, <2>1, SpillIs, RestIs
    <3> QED BY <3>1 DEF Spilled, Steady
  <2>2. CASE ~context.bound
    BY <1>1, <2>2, RestIs
  <2> QED BY <2>1, <2>2
<1>3. PICK s : s = PutOff(r, images)
  OBVIOUS
<1>4. PutOffEffect(r, s, images)
  BY <1>2, <1>3, PutOffIs
<1>5. /\ Outside(s) /\ Unloaded(s) /\ ~s.bound /\ PutOffOf(s, images)
      /\ s.targets = context.targets /\ s.framebuffer = context.framebuffer
      /\ s.dirty = context.dirty
  BY <1>2, <1>4 DEF PutOffEffect, OnlyLate, Steady
<1>6. PICK U : U = Used(images, slices)
  OBVIOUS
<1>7. PICK clean : clean = IF write THEN RecordIfDirty(s, {}, U) ELSE RecordIfDirty(s, U, {})
  OBVIOUS
<1>8. PICK t : t = AccessSlices(See(InLayouts(Use(clean, Accesses(U, write, "compute")),
                                              images, InfoLayout), images), U, write, "compute")
  OBVIOUS
<1>9. context' = t
  BY <1>1, <1>3, <1>6, <1>7, <1>8 DEF Dispatch, Used, Accesses
<1>10. Executed(s, t)
  BY <1>5, <1>6, <1>7, <1>8, DispatchedIs
<1>11. Steady(t)
  BY <1>5, <1>10, ExecutedIs
<1> QED BY <1>5, <1>9, <1>10, <1>11 DEF Executed, KeepsControl, Rest

LEMMA CopyBufferRests ==
  ASSUME Rest(context), NEW src \in BufferSlices, NEW dst \in BufferSlices, CopyBuffer(src, dst)
  PROVE  Rest(context')
<1>1. PICK s : s = SpillFor({})
  OBVIOUS
<1>2. SpilledFor(context, s, {})
  BY <1>1, SpillForIs, RestIs
<1>3. PICK reads \in SUBSET BufferSlices, writes \in SUBSET BufferSlices :
        reads = {src} /\ writes = {dst}
  OBVIOUS
<1>4. PICK clean : clean = RecordIfDirty(s, reads, writes)
  OBVIOUS
<1>5. PICK A : A = Accesses(reads, FALSE, "transfer") \cup Accesses(writes, TRUE, "transfer")
  OBVIOUS
<1>6. A = {Accessing(src, FALSE, "transfer"), Accessing(dst, TRUE, "transfer")}
  BY <1>3, <1>5 DEF Accesses
<1>7. PICK used : used = Use(clean, A)
  OBVIOUS
<1>8. PICK one : one = AccessSlice(used, src, FALSE, "transfer")
  OBVIOUS
<1>9. PICK t : t = AccessSlice(one, dst, TRUE, "transfer")
  OBVIOUS
<1>10. context' = t
  BY <1>1, <1>3, <1>4, <1>6, <1>7, <1>8, <1>9 DEF CopyBuffer
<1>11. src \in SliceType /\ dst \in SliceType /\ "transfer" \in Stages
  BY WaitedByIs DEF BufferSlices
<1>12. used \in ContextType
  <2>1. A \in SUBSET AccessType
    <3>1. Accessing(src, FALSE, "transfer") \in AccessType
      BY <1>11 DEF Accessing, AccessType
    <3>2. Accessing(dst, TRUE, "transfer") \in AccessType
      BY <1>11 DEF Accessing, AccessType
    <3> QED BY <1>6, <3>1, <3>2
  <2>2. Recorded(s, clean, InfoLayouts, reads, writes)
    BY <1>2, <1>4, RecordIfDirtyIs DEF SpilledFor, Outside
  <2>3. clean \in ContextType
    BY <2>2 DEF Recorded, Between, Sound
  <2> QED BY <1>7, <2>1, <2>3, UseIs
<1>13. PICK S, E1, E2 : S = {"transfer"} /\ E1 = {Entry(src, FALSE)} /\ E2 = {Entry(dst, TRUE)}
  OBVIOUS
<1>14. Registers(used, one, S, E1, {})
  <2>1. Registers(used, AccessSlice(used, src, FALSE, "transfer"), {"transfer"},
                  {Entry(src, FALSE)}, {})
    BY <1>11, <1>12, AccessSliceIs
  <2> QED BY <1>8, <1>13, <2>1
<1>15. Registers(one, t, S, E2, {})
  <2>1. one \in ContextType
    BY <1>14 DEF Registers
  <2>2. Registers(one, AccessSlice(one, dst, TRUE, "transfer"), {"transfer"},
                  {Entry(dst, TRUE)}, {})
    BY <1>11, <2>1, AccessSliceIs
  <2> QED BY <1>9, <1>13, <2>2
<1>16. PICK E : E = E1 \cup E2
  OBVIOUS
<1>17. Registers(used, t, S, E, {})
  <2>1. PICK M : M = {}
    OBVIOUS
  <2>2. Registers(used, t, S \cup S, E1 \cup E2, M \cup M)
    BY <1>14, <1>15, <2>1, RegistersTwice
  <2>3. S \cup S = S /\ M \cup M = {}
    BY <2>1
  <2> QED BY <1>16, <2>2, <2>3
<1>18. Registering(A, S, E)
  <2>1. ASSUME NEW a \in A
        PROVE  WaitedBy[a.stage] \cap S # {} /\ \E e \in E : e.slice = a.slice /\ (a.write => e.write)
    <3>1. a.stage = "transfer"
      BY <1>6 DEF Accessing
    <3>2. CASE a = Accessing(src, FALSE, "transfer")
      BY <1>13, <1>16, <3>1, <3>2, WaitedByIs DEF Accessing, Entry
    <3>3. CASE a = Accessing(dst, TRUE, "transfer")
      BY <1>13, <1>16, <3>1, <3>3, WaitedByIs DEF Accessing, Entry
    <3> QED BY <1>6, <3>2, <3>3
  <2> QED BY <1>13, <2>1 DEF Registering
<1>19. Executed(s, t)
  BY <1>2, <1>4, <1>5, <1>7, <1>17, <1>18, TransferredIs DEF SpilledFor
<1> QED BY <1>2, <1>10, <1>19, AfterSpill

LEMMA UpdateBufferRests ==
  ASSUME Rest(context), NEW slice \in BufferSlices, UpdateBuffer(slice)
  PROVE  Rest(context')
<1>1. PICK s : s = SpillFor({})
  OBVIOUS
<1>2. SpilledFor(context, s, {})
  BY <1>1, SpillForIs, RestIs
<1>3. PICK reads \in SUBSET BufferSlices, writes \in SUBSET BufferSlices :
        reads = {} /\ writes = {slice}
  OBVIOUS
<1>4. PICK clean : clean = RecordIfDirty(s, reads, writes)
  OBVIOUS
<1>5. PICK A : A = Accesses(reads, FALSE, "transfer") \cup Accesses(writes, TRUE, "transfer")
  OBVIOUS
<1>6. A = {Accessing(slice, TRUE, "transfer")}
  BY <1>3, <1>5 DEF Accesses
<1>7. PICK used : used = Use(clean, A)
  OBVIOUS
<1>8. PICK t : t = AccessSlice(used, slice, TRUE, "transfer")
  OBVIOUS
<1>9. context' = t
  BY <1>1, <1>3, <1>4, <1>6, <1>7, <1>8 DEF UpdateBuffer
<1>10. slice \in SliceType /\ "transfer" \in Stages
  BY WaitedByIs DEF BufferSlices
<1>11. used \in ContextType
  <2>1. A \in SUBSET AccessType
    <3>1. Accessing(slice, TRUE, "transfer") \in AccessType
      BY <1>10 DEF Accessing, AccessType
    <3> QED BY <1>6, <3>1
  <2>2. Recorded(s, clean, InfoLayouts, reads, writes)
    BY <1>2, <1>4, RecordIfDirtyIs DEF SpilledFor, Outside
  <2>3. clean \in ContextType
    BY <2>2 DEF Recorded, Between, Sound
  <2> QED BY <1>7, <2>1, <2>3, UseIs
<1>12. PICK S, E : S = {"transfer"} /\ E = {Entry(slice, TRUE)}
  OBVIOUS
<1>13. Registers(used, t, S, E, {})
  <2>1. Registers(used, AccessSlice(used, slice, TRUE, "transfer"), {"transfer"},
                  {Entry(slice, TRUE)}, {})
    BY <1>10, <1>11, AccessSliceIs
  <2> QED BY <1>8, <1>12, <2>1
<1>14. Registering(A, S, E)
  <2>1. ASSUME NEW a \in A
        PROVE  WaitedBy[a.stage] \cap S # {} /\ \E e \in E : e.slice = a.slice /\ (a.write => e.write)
    BY <1>6, <1>12, WaitedByIs DEF Accessing, Entry
  <2> QED BY <1>12, <2>1 DEF Registering
<1>15. Executed(s, t)
  BY <1>2, <1>4, <1>5, <1>7, <1>13, <1>14, TransferredIs DEF SpilledFor
<1> QED BY <1>2, <1>9, <1>15, AfterSpill

LEMMA CopyBufferToImageRests ==
  ASSUME Rest(context), NEW i \in Images, NEW full \in BOOLEAN, NEW src \in WholeBuffers,
         CopyBufferToImage(i, full, src)
  PROVE  Rest(context')
<1>1. PICK I \in SUBSET Images : I = {i}
  OBVIOUS
<1>2. PICK s : s = SpillFor(I)
  OBVIOUS
<1>3. SpilledFor(context, s, I)
  BY <1>2, SpillForIs, RestIs
<1>4. PICK w \in [Images -> Layouts] : w = InfoLayouts
  BY LayoutFacts
<1>5. PICK empty \in SliceType : empty = [src EXCEPT !.size = 0]
  BY BuffersAre
<1>6. PICK clean : clean = RecordIfDirty(s, {empty}, {Whole(i)})
  OBVIOUS
<1>7. PICK transfer \in Layouts : transfer = TransferLayout(i)
  BY LayoutFacts
<1>8. transfer # "undefined" /\ w[i] = InfoLayout(i) /\ w[i] # "undefined" /\ w[i] \in Layouts
  BY <1>4, <1>7, LayoutFacts DEF InfoLayouts
<1>9. PICK old : old = IF full THEN "undefined" ELSE InfoLayout(i)
  OBVIOUS
<1>10. PICK moved : moved = Acquire(clean, i, old, transfer, {})
  OBVIOUS
<1>11. PICK access : access = Accessing(Whole(i), TRUE, "transfer")
  OBVIOUS
<1>12. PICK copied : copied = Use(moved, {access})
  OBVIOUS
<1>13. PICK seen : seen = IF full THEN Cleared(copied, i, Aspects(i)) ELSE copied
  OBVIOUS
<1>14. PICK one : one = AccessImage(seen, i, transfer, InfoLayout(i), TRUE, "transfer")
  OBVIOUS
<1>15. PICK t : t = AccessSlice(one, empty, FALSE, "transfer")
  OBVIOUS
<1>16. Between(s, w)
  BY <1>3, <1>4 DEF SpilledFor, Outside
<1>17. /\ Between(clean, w) /\ KeepsControl(s, clean) /\ clean.stale = s.stale
       /\ ~Dirty(clean, Whole(i), TRUE)
  <2>1. PICK R, W : R = {empty} /\ W = {Whole(i)}
    OBVIOUS
  <2>2. Recorded(s, clean, w, R, W)
    BY <1>6, <1>16, <2>1, RecordIfDirtyIs
  <2> QED BY <2>1, <2>2 DEF Recorded
<1>18. PICK v : v = [w EXCEPT ![i] = transfer]
  OBVIOUS
<1>19. v \in [Images -> Layouts] /\ v[i] = transfer
  BY <1>18
<1>20. /\ Between(moved, v) /\ KeepsControl(clean, moved) /\ moved.barriers = clean.barriers
       /\ moved.stale \subseteq clean.stale \cup AspectsOf({i})
       /\ ~full => moved.stale = clean.stale
  <2>1. PICK S \in SUBSET Stages : S = {}
    OBVIOUS
  <2>2. moved = Acquire(clean, i, old, transfer, S) /\ old \in {"undefined", w[i]}
    BY <1>8, <1>9, <1>10, <2>1
  <2>3. Acquired(clean, moved, v, i, old)
    BY <1>8, <1>17, <1>18, <2>2, AcquireIs
  <2>4. ~full => old # "undefined"
    BY <1>8, <1>9
  <2> QED BY <2>3, <2>4 DEF Acquired
<1>21. ~Dirty(moved, Whole(i), TRUE)
  BY <1>17, <1>20, DirtyIs
<1>22. moved \in ContextType /\ moved.layout[i] \in {"undefined", transfer}
  <2>1. Settled(moved, v, i)
    BY <1>20, <1>21, CleanImageIs
  <2> QED BY <1>19, <1>20, <2>1 DEF Settled, Between, Sound
<1>23. InLayouts(moved, {i}, TransferLayout) = moved
  <2>1. {j \in {i} : moved.layout[j] # "undefined" /\ moved.layout[j] # TransferLayout(j)} = {}
    BY <1>7, <1>22
  <2> QED BY <1>22, <2>1, NotMisplaced DEF InLayouts
<1>24. "transfer" \in {"transfer", "depth", "color"} /\ "transfer" \in Stages
  BY WaitedByIs
<1>25. Performs(moved, copied, {access}) /\ copied.stale = moved.stale
  BY <1>11, <1>12, <1>20, <1>21, <1>24, UseImage
<1>26. Fresh(s, I)
  <2>1. Kept(s) /\ PutOffOf(s, I)
    BY <1>3 DEF SpilledFor, Unloaded
  <2> QED BY <2>1, FreshIs
<1>27. ~full => See(copied, I) = copied
  <2>1. ASSUME ~full PROVE Fresh(copied, I)
    BY <1>17, <1>20, <1>25, <1>26, <2>1 DEF Fresh, Performs, KeepsControl
  <2>2. copied \in ContextType
    BY <1>25 DEF Performs
  <2> QED BY <2>1, <2>2, SeeFresh
<1>28. context' = t
  <2>1. CASE full
    BY <1>1, <1>2, <1>5, <1>6, <1>7, <1>9, <1>10, <1>11, <1>12, <1>13, <1>14, <1>15, <1>23, <2>1
       DEF CopyBufferToImage
  <2>2. CASE ~full
    <3>1. See(copied, {i}) = copied
      BY <1>1, <1>27, <2>2
    <3> QED BY <1>1, <1>2, <1>5, <1>6, <1>7, <1>9, <1>10, <1>11, <1>12, <1>13, <1>14, <1>15, <1>23, <2>2, <3>1
       DEF CopyBufferToImage
  <2> QED BY <2>1, <2>2
<1>29. Performs(moved, seen, {access}) /\ seen.stale \subseteq s.stale
  <2>1. CASE full
    <3>1. Aspects(i) \in SUBSET AspectNames
      BY DEF Aspects, AspectNames
    <3>2. PICK A \in SUBSET AspectNames : A = Aspects(i)
      BY <3>1
    <3>3. seen = Cleared(copied, i, A)
      BY <1>13, <2>1, <3>2
    <3>4. PICK B : B = {access}
      OBVIOUS
    <3>5. Performs(moved, copied, B)
      BY <1>25, <3>4
    <3>6. Performs(moved, seen, B) /\ seen.stale \subseteq copied.stale
          /\ \A a \in A : <<i, a>> \notin seen.stale
      BY <3>3, <3>5, ClearedPerforms
    <3>7. seen.stale \cap AspectsOf({i}) = {}
      BY <3>2, <3>6 DEF AspectsOf
    <3> QED BY <1>17, <1>20, <1>25, <3>4, <3>6, <3>7
  <2>2. CASE ~full
    BY <1>13, <1>17, <1>20, <1>25, <2>2
  <2> QED BY <2>1, <2>2
<1>30. PICK x \in Layouts : x = InfoLayout(i)
  BY <1>4, <1>8
<1>31. PICK z : z = [v EXCEPT ![i] = x]
  OBVIOUS
<1>32. z = w
  <2>1. [[w EXCEPT ![i] = transfer] EXCEPT ![i] = w[i]] = w
    OBVIOUS
  <2> QED BY <1>8, <1>18, <1>30, <1>31, <2>1
<1>33. Leads(moved, seen, one, z)
  <2>1. one = AccessImage(seen, i, v[i], x, TRUE, "transfer") /\ v[i] # "undefined"
    BY <1>8, <1>14, <1>19, <1>30
  <2>2. Performs(moved, seen, {Accessing(Whole(i), TRUE, "transfer")})
    BY <1>11, <1>29
  <2> QED BY <1>19, <1>20, <1>21, <1>24, <1>31, <2>1, <2>2, ImageUsed
<1>34. Between(one, w) /\ KeepsControl(moved, one) /\ one.stale = seen.stale /\ one \in ContextType
  BY <1>32, <1>33 DEF Leads, Between, Sound
<1>35. PICK S, E : S = {"transfer"} /\ E = {Entry(empty, FALSE)}
  OBVIOUS
<1>36. Registers(one, t, S, E, {})
  <2>1. Registers(one, AccessSlice(one, empty, FALSE, "transfer"), {"transfer"},
                  {Entry(empty, FALSE)}, {})
    BY <1>24, <1>34, AccessSliceIs
  <2> QED BY <1>15, <1>35, <2>1
<1>37. Leads(one, one, t, w)
  <2>1. PICK N : N = {}
    OBVIOUS
  <2>2. Performs(one, one, N)
    BY <1>34, <2>1 DEF Performs, KeepsControl
  <2>3. WholeImages(N) /\ Registering(N, S, E)
    BY <1>35, <2>1 DEF WholeImages, Registering
  <2> QED BY <1>34, <1>36, <2>2, <2>3, RegisteredIs
<1>38. Executed(s, t)
  <2>1. Between(t, w) /\ KeepsControl(one, t) /\ t.stale = one.stale
    BY <1>37 DEF Leads
  <2> QED BY <1>4, <1>17, <1>20, <1>29, <1>34, <2>1 DEF Executed, KeepsControl
<1> QED BY <1>3, <1>28, <1>38, AfterSpill

LEMMA ReadbackRests ==
  ASSUME Rest(context), EmitReadbackBarrier
  PROVE  Rest(context')
<1>1. PICK s : s = SpillFor({})
  OBVIOUS
<1>2. SpilledFor(context, s, {})
  BY <1>1, SpillForIs, RestIs
<1>3. PICK S \in SUBSET Stages, M \in SUBSET MoveType : S = {"color"} /\ M = {}
  BY WaitedByIs
<1>4. PICK t : t = Barrier(s, S, M)
  OBVIOUS
<1>5. context' = t
  BY <1>1, <1>3, <1>4 DEF EmitReadbackBarrier
<1>6. Between(s, InfoLayouts) /\ s \in ContextType
  BY <1>2 DEF SpilledFor, Outside, Between, Sound
<1>7. BarrierEffect(s, t, S, M)
  <2>1. OneMoveEach(M)
    BY <1>3 DEF OneMoveEach
  <2> QED BY <1>4, <1>6, <2>1, BarrierIs
<1>8. /\ t \in ContextType /\ KeepsControl(s, t) /\ t.barriers = s.barriers
      /\ t.pending \subseteq s.pending /\ t.raced = s.raced /\ t.misplaced = s.misplaced
      /\ \A i \in Images : t.layout[i] = s.layout[i]
  BY <1>3, <1>7 DEF BarrierEffect
<1>9. t.stale = s.stale
  <2>1. AspectsOf(Lost(M)) = {}
    BY <1>3 DEF Lost, AspectsOf
  <2> QED BY <1>7, <2>1 DEF BarrierEffect
<1>10. s.barriers.moves \subseteq MoveType
  BY <1>6 DEF ContextType, BarriersType
<1>11. Tracked(t, InfoLayouts)
  BY <1>6, <1>8, <1>10 DEF Between, Sound, Tracked, MoveType
<1>12. Between(t, InfoLayouts)
  BY <1>6, <1>8, <1>11 DEF Between, Sound, Waited, MovesKnown, WholeImages, Registered
<1>13. Executed(s, t)
  BY <1>8, <1>9, <1>12 DEF Executed
<1> QED BY <1>2, <1>5, <1>13, AfterSpill

LEMMA FlushRests ==
  ASSUME Rest(context), FlushCommandList
  PROVE  Rest(context')
<1>1. PICK s : s = Spill(context)
  OBVIOUS
<1>2. Spilled(context, s)
  BY <1>1, SpillIs, RestIs
<1>3. PICK ended : ended = RecordCommands(s)
  OBVIOUS
<1>4. /\ Between(ended, InfoLayouts) /\ KeepsControl(s, ended) /\ ended.pending = {}
      /\ ended.stale = s.stale /\ ended \in ContextType
  <2>1. Between(s, InfoLayouts)
    BY <1>2 DEF Spilled, Outside
  <2>2. Between(ended, InfoLayouts) /\ KeepsControl(s, ended) /\ ended.pending = {}
        /\ ended.stale = s.stale
    BY <1>3, <2>1, RecordIsBetween
  <2> QED BY <2>2 DEF Between, Sound
<1>5. context' = [ended EXCEPT !.dirty = TRUE]
  <2>1. context' = [ended EXCEPT !.pending = {}, !.dirty = TRUE]
    BY <1>1, <1>3 DEF FlushCommandList
  <2> QED BY <1>4, <2>1 DEF ContextType
<1>6. PICK t : t = [ended EXCEPT !.dirty = TRUE]
  OBVIOUS
<1>7. /\ t \in ContextType /\ KeepsEffects(ended, t) /\ t.barriers = ended.barriers
      /\ t.targets = ended.targets /\ t.framebuffer = ended.framebuffer /\ t.dirty = TRUE
      /\ t.bound = ended.bound /\ t.rtLayouts = ended.rtLayouts /\ t.loads = ended.loads
      /\ t.clears = ended.clears /\ t.deferred = ended.deferred
      /\ t.overtaken = ended.overtaken /\ t.late = ended.late
  BY <1>4, <1>6 DEF ContextType, KeepsEffects
<1>8. Outside(t)
  <2>1. Between(t, InfoLayouts)
    BY <1>4, <1>7, BetweenKept
  <2> QED BY <1>2, <1>4, <1>7, <2>1 DEF Spilled, Outside, KeepsControl
<1>9. Unloaded(t)
  BY <1>2, <1>4, <1>7 DEF Spilled, Unloaded, Kept, KeepsControl, KeepsEffects
<1> QED BY <1>2, <1>4, <1>5, <1>6, <1>7, <1>8, <1>9 DEF Rest, Steady, Spilled, KeepsControl

\* What has been put off says nothing of what has been recorded.
LEMMA SteadyKept ==
  ASSUME NEW s, Steady(s), NEW t \in ContextType, KeepsControl([s EXCEPT !.deferred = t.deferred], t),
         t.barriers = s.barriers, t.layout = s.layout, t.pending = s.pending, t.raced = s.raced,
         t.misplaced = s.misplaced, Kept(t)
  PROVE  Steady(t)
<1>1. s \in ContextType
  BY SteadyType
<1>2. /\ t.framebuffer = s.framebuffer /\ t.bound = s.bound /\ t.rtLayouts = s.rtLayouts
      /\ t.loads = s.loads /\ t.clears = s.clears /\ t.overtaken = s.overtaken
  BY <1>1 DEF KeepsControl, ContextType
<1>3. ASSUME NEW w, Sound(s, w) PROVE Sound(t, w)
  BY <1>3 DEF Sound, Waited, MovesKnown, Tracked
<1>4. Unloaded(t)
  BY <1>2 DEF Steady, Unloaded
<1>5. CASE s.bound
  <2>1. Sound(t, t.rtLayouts)
    BY <1>2, <1>3, <1>5 DEF Steady, InPass
  <2> QED BY <1>2, <1>4, <1>5, <2>1 DEF Steady, InPass
<1>6. CASE ~s.bound
  <2>1. Sound(t, InfoLayouts)
    BY <1>3, <1>6 DEF Steady, Outside, Between
  <2>2. Outside(t)
    BY <1>2, <1>6, <2>1 DEF Steady, Outside, Between, Registered
  <2> QED BY <1>2, <1>4, <1>6, <2>2 DEF Steady
<1> QED BY <1>5, <1>6

\* A clear has been deferred.
Deferring(s, t) ==
  /\ t \in ContextType /\ KeepsControl([s EXCEPT !.deferred = t.deferred], t)
  /\ t.barriers = s.barriers /\ t.layout = s.layout /\ t.pending = s.pending
  /\ t.raced = s.raced /\ t.misplaced = s.misplaced /\ Kept(t)
  /\ t.targets = s.targets /\ t.framebuffer = s.framebuffer /\ t.dirty = s.dirty

LEMMA DeferClearIs ==
  ASSUME NEW s, Steady(s), NEW i \in Images, NEW aspects \in SUBSET Aspects(i), aspects # {},
         NEW t, t = DeferClear(s, i, aspects)
  PROVE  Deferring(s, t)
<1>1. s \in ContextType /\ s.deferred \in Seq(ClearType) /\ Kept(s)
  BY SteadyType DEF ContextType, Steady, Unloaded
<1>2. aspects \in SUBSET AspectNames
  BY DEF Aspects, AspectNames
<1>3. PICK D \in Seq(ClearType) : D = s.deferred
  BY <1>1
<1>4. \A k \in 1 .. Len(D) : D[k] \in ClearType
  OBVIOUS
<1>5. DOMAIN D = 1 .. Len(D) /\ Len(D) \in Nat
  OBVIOUS
<1>6. PICK clear : clear = [image |-> i, aspects |-> aspects]
  OBVIOUS
<1>7. clear \in ClearType /\ clear.image = i /\ clear.aspects = aspects
  BY <1>2, <1>6 DEF ClearType
<1> DEFINE merged == [k \in DOMAIN D |->
                        IF D[k].image = i THEN [D[k] EXCEPT !.aspects = @ \cup aspects] ELSE D[k]]
<1>8. \A k \in 1 .. Len(D) :
        /\ merged[k] \in ClearType /\ merged[k].image = D[k].image
        /\ D[k].aspects \subseteq merged[k].aspects
        /\ D[k].image = i => aspects \subseteq merged[k].aspects
  <2> SUFFICES ASSUME NEW k \in 1 .. Len(D)
               PROVE  /\ merged[k] \in ClearType /\ merged[k].image = D[k].image
                      /\ D[k].aspects \subseteq merged[k].aspects
                      /\ D[k].image = i => aspects \subseteq merged[k].aspects
    OBVIOUS
  <2>1. PICK c \in ClearType : c = D[k]
    BY <1>4
  <2>2. merged[k] = IF c.image = i THEN [c EXCEPT !.aspects = c.aspects \cup aspects] ELSE c
    BY <1>5, <2>1
  <2>3. CASE c.image = i
    <3>1. PICK A \in SUBSET AspectNames : A = c.aspects \cup aspects
      BY <1>2 DEF ClearType
    <3>2. merged[k] = [c EXCEPT !.aspects = A]
      BY <2>2, <2>3, <3>1
    <3>3. [c EXCEPT !.aspects = A] \in [image : Images, aspects : SUBSET AspectNames]
          /\ [c EXCEPT !.aspects = A].image = c.image /\ [c EXCEPT !.aspects = A].aspects = A
      BY DEF ClearType
    <3>4. A # {} /\ A \subseteq Aspects(c.image)
      BY <2>3, <3>1 DEF ClearType
    <3> HIDE DEF merged
    <3> QED BY <2>1, <3>1, <3>2, <3>3, <3>4 DEF ClearType
  <2>4. CASE c.image # i
    <3> HIDE DEF merged
    <3> QED BY <2>1, <2>2, <2>4
  <2> QED BY <2>3, <2>4
<1>9. merged \in Seq(ClearType) /\ DOMAIN merged = 1 .. Len(D)
  <2>1. merged \in [1 .. Len(D) -> ClearType]
    <3>1. merged = [k \in 1 .. Len(D) |-> merged[k]]
      BY <1>5
    <3> HIDE DEF merged
    <3> QED BY <1>8, <3>1
  <2> HIDE DEF merged
  <2> QED BY <1>5, <2>1
<1> HIDE DEF merged
<1>10. PICK E : E = IF \E k \in DOMAIN D : D[k].image = i THEN merged ELSE Append(D, clear)
  OBVIOUS
<1>11. /\ E \in Seq(ClearType)
       /\ \A k \in DOMAIN D : /\ k \in DOMAIN E /\ E[k].image = D[k].image
                              /\ D[k].aspects \subseteq E[k].aspects
       /\ \E k \in DOMAIN E : E[k].image = i /\ aspects \subseteq E[k].aspects
  <2>1. CASE \E k \in DOMAIN D : D[k].image = i
    BY <1>5, <1>8, <1>9, <1>10, <2>1
  <2>2. CASE ~\E k \in DOMAIN D : D[k].image = i
    <3>1. E = Append(D, clear)
      BY <1>10, <2>2
    <3>2. /\ E \in Seq(ClearType) /\ DOMAIN E = 1 .. Len(D) + 1
          /\ \A k \in 1 .. Len(D) : E[k] = D[k] /\ E[Len(D) + 1] = clear
      BY <1>7, <3>1
    <3>3. E[Len(D) + 1] = clear
      BY <3>1
    <3> QED BY <1>5, <1>7, <3>2, <3>3
  <2> QED BY <2>1, <2>2
<1>12. PICK X \in SUBSET (Images \X AspectNames) : X = s.stale \cup ({i} \X aspects)
  BY <1>1, <1>2 DEF ContextType
<1>13. t = [s EXCEPT !.stale = X, !.deferred = E]
  BY <1>3, <1>6, <1>10, <1>12 DEF DeferClear, merged
<1>14. t \in ContextType
  BY <1>1, <1>11, <1>13 DEF ContextType
<1>15. /\ t.deferred = E /\ t.stale = X /\ t.late = s.late
       /\ KeepsControl([s EXCEPT !.deferred = t.deferred], t)
       /\ t.barriers = s.barriers /\ t.layout = s.layout /\ t.pending = s.pending
       /\ t.raced = s.raced /\ t.misplaced = s.misplaced
       /\ t.targets = s.targets /\ t.framebuffer = s.framebuffer /\ t.dirty = s.dirty
  BY <1>1, <1>13 DEF ContextType, KeepsControl
<1>16. Kept(t)
  <2> SUFFICES ASSUME NEW j \in Images \ s.late, NEW a \in AspectNames, <<j, a>> \in X
               PROVE  \E k \in DOMAIN E : E[k].image = j /\ a \in E[k].aspects
    BY <1>15 DEF Kept
  <2>1. CASE <<j, a>> \in s.stale
    <3>1. PICK k \in DOMAIN D : D[k].image = j /\ a \in D[k].aspects
      BY <1>1, <1>3, <2>1 DEF Kept
    <3> QED BY <1>11, <3>1
  <2>2. CASE <<j, a>> \in {i} \X aspects
    <3>1. j = i /\ a \in aspects
      BY <2>2
    <3> QED BY <1>11, <3>1
  <2> QED BY <1>12, <2>1, <2>2
<1> QED BY <1>14, <1>15, <1>16 DEF Deferring

LEMMA ClearRests ==
  ASSUME Rest(context), NEW i \in context.targets, NEW aspects \in SUBSET Aspects(i),
         aspects # {}, ClearRenderTarget(i, aspects)
  PROVE  Rest(context')
<1>1. Steady(context) /\ context \in ContextType
  BY RestIs
<1>2. i \in Images
  BY <1>1 DEF ContextType
<1>3. CASE Attached(context, i) /\ context.bound
  <2>1. PICK A \in SUBSET AspectNames : A = aspects
    BY DEF Aspects, AspectNames
  <2>2. PICK t : t = Cleared(context, i, A)
    OBVIOUS
  <2>3. context' = t
    BY <1>3, <2>1, <2>2 DEF ClearRenderTarget
  <2>4. /\ t \in ContextType /\ KeepsControl(context, t)
        /\ t.barriers = context.barriers /\ t.layout = context.layout
        /\ t.misplaced = context.misplaced /\ t.raced = context.raced
        /\ t.pending = context.pending /\ t.stale = context.stale \ ({i} \X A)
    BY <1>1, <1>2, <2>2, ClearedIs
  <2>5. KeepsControl([context EXCEPT !.deferred = t.deferred], t)
    BY <1>1, <2>4 DEF KeepsControl, ContextType
  <2>6. Kept(t)
    BY <1>1, <2>4 DEF Steady, Unloaded, Kept, KeepsControl
  <2>7. Steady(t)
    BY <1>1, <2>4, <2>5, <2>6, SteadyKept
  <2> QED BY <2>3, <2>4, <2>7 DEF Rest, KeepsControl
<1>4. CASE ~(Attached(context, i) /\ context.bound)
  <2>1. PICK t : t = DeferClear(context, i, aspects)
    OBVIOUS
  <2>2. context' = t
    BY <1>4, <2>1 DEF ClearRenderTarget
  <2>3. Deferring(context, t)
    BY <1>1, <1>2, <2>1, DeferClearIs
  <2>4. Steady(t)
    BY <1>1, <2>3, SteadyKept DEF Deferring
  <2> QED BY <2>2, <2>3, <2>4 DEF Rest, Deferring
<1> QED BY <1>3, <1>4

LEMMA BindRests ==
  ASSUME Rest(context), NEW targets \in SUBSET Images, BindRenderTargets(targets)
  PROVE  Rest(context')
<1>1. PICK s : s = context
  OBVIOUS
<1>2. Steady(s) /\ s \in ContextType
  BY <1>1, RestIs
<1>3. PICK x \in [Images -> Layouts], y \in [Images -> SUBSET AspectNames], d \in BOOLEAN :
        x = BoundLayouts /\ y = [i \in Images |-> {}] /\ d = (s.framebuffer # targets)
  BY LayoutFacts
<1>4. PICK t : t = [s EXCEPT !.loads = x, !.clears = y, !.targets = targets, !.dirty = d]
  OBVIOUS
<1>5. context' = t
  BY <1>1, <1>3, <1>4 DEF BindRenderTargets, ResetOps
<1>6. t \in ContextType
  BY <1>2, <1>4 DEF ContextType
<1>7. /\ KeepsEffects(s, t) /\ t.barriers = s.barriers /\ t.bound = s.bound
      /\ t.targets = targets /\ t.framebuffer = s.framebuffer /\ t.dirty = d
      /\ t.rtLayouts = s.rtLayouts /\ t.loads = x /\ t.clears = y /\ t.deferred = s.deferred
      /\ t.overtaken = s.overtaken /\ t.late = s.late
  BY <1>2, <1>4 DEF ContextType, KeepsEffects
<1>8. Unloaded(t)
  BY <1>2, <1>3, <1>7 DEF Steady, Unloaded, Kept, KeepsEffects
<1>9. Steady(t)
  <2>1. CASE s.bound
    <3>1. Sound(t, t.rtLayouts)
      BY <1>2, <1>6, <1>7, <2>1, SoundKept DEF Steady, InPass
    <3> QED BY <1>2, <1>7, <1>8, <2>1, <3>1 DEF Steady, InPass, KeepsEffects
  <2>2. CASE ~s.bound
    <3>1. Between(t, InfoLayouts)
      BY <1>2, <1>6, <1>7, <2>2, BetweenKept DEF Steady, Outside
    <3> QED BY <1>2, <1>7, <1>8, <2>2, <3>1 DEF Steady, Outside
  <2> QED BY <2>1, <2>2
<1>10. ~t.dirty => t.framebuffer = t.targets
  BY <1>3, <1>7
<1> QED BY <1>5, <1>9, <1>10 DEF Rest

LEMMA DrawRests ==
  ASSUME Rest(context), context.targets # {}, NEW images \in SUBSET Images,
         NEW buffers \in SUBSET BufferSlices, Draw(images, buffers)
  PROVE  Rest(context')
<1>1. PICK s : s = IF context.dirty THEN UpdateFramebuffer(context) ELSE context
  OBVIOUS
<1>2. /\ Steady(s) /\ s.framebuffer = context.targets /\ s.targets = context.targets
      /\ s \in ContextType
  <2>1. CASE context.dirty
    <3>1. Updated(context, s)
      BY <1>1, <2>1, UpdateFramebufferIs, RestIs
    <3> QED BY <3>1, SteadyType DEF Updated
  <2>2. CASE ~context.dirty
    BY <1>1, <2>2, RestIs DEF Rest
  <2> QED BY <2>1, <2>2
<1>3. PICK I \in SUBSET Images : I = s.framebuffer \cup images
  BY <1>2 DEF ContextType
<1>4. PICK p : p = IF s.bound THEN PutOff(s, I) ELSE StartRenderPass(s)
  OBVIOUS
<1>5. /\ InPass(p) /\ Unloaded(p) /\ p.bound /\ Fresh(p, I)
      /\ p.framebuffer = s.framebuffer /\ p.targets = s.targets
  <2>1. CASE s.bound
    <3>1. PutOffEffect(s, p, I)
      BY <1>2, <1>4, <2>1, PutOffIs
    <3>2. Kept(p) /\ PutOffOf(p, I)
      BY <3>1 DEF PutOffEffect, Steady, Unloaded
    <3>3. Fresh(p, I)
      BY <3>2, FreshIs
    <3> QED BY <2>1, <3>1, <3>3 DEF PutOffEffect, OnlyLate, Steady
  <2>2. CASE ~s.bound
    <3>1. Started(s, p)
      BY <1>2, <1>4, <2>2, StartRenderPassIs
    <3>2. Fresh(p, I)
      BY <1>3, <3>1 DEF Started, Fresh
    <3> QED BY <3>1, <3>2 DEF Started
  <2> QED BY <2>1, <2>2
<1>6. PICK t : t = See(InLayouts(Use(p, Accesses(Used(images, buffers), FALSE, "shader")),
                                 images, InfoLayout), I)
  OBVIOUS
<1>7. context' = t /\ images \cap s.framebuffer = {}
  BY <1>1, <1>3, <1>4, <1>6 DEF Draw, Used, Accesses
<1>8. Drawn(p, t)
  <2>1. I = p.framebuffer \cup images
    BY <1>3, <1>5
  <2> QED BY <1>5, <1>6, <1>7, <2>1, DrawnIs
<1>9. Steady(t) /\ t.framebuffer = t.targets
  BY <1>2, <1>5, <1>8 DEF Drawn, KeepsControl, Steady
<1> QED BY <1>7, <1>9 DEF Rest

-----------------------------------------------------------------------------
LEMMA InitRests ==
  ASSUME ContextInit
  PROVE  Rest(context)
<1>1. PICK x \in [Images -> Layouts], y \in [Images -> SUBSET AspectNames],
           z \in [Images -> Layouts], d \in Seq(ClearType), b \in BarriersType,
           w \in [Images -> Layouts] :
        /\ x = BoundLayouts /\ y = [i \in Images |-> {}] /\ d = <<>> /\ b = NoBarriers
        /\ z = [i \in Images |-> IF i \in Colors THEN InfoLayout(i) ELSE "undefined"]
        /\ w = InfoLayouts
  <2>1. BoundLayouts \in [Images -> Layouts] /\ InfoLayouts \in [Images -> Layouts]
    BY LayoutFacts
  <2>2. [i \in Images |-> IF i \in Colors THEN InfoLayout(i) ELSE "undefined"] \in [Images -> Layouts]
    BY LayoutFacts
  <2>3. [i \in Images |-> {}] \in [Images -> SUBSET AspectNames] /\ <<>> \in Seq(ClearType)
    OBVIOUS
  <2>4. NoBarriers \in BarriersType
    BY DEF NoBarriers, BarriersType
  <2> QED BY <2>1, <2>2, <2>3, <2>4
<1>2. PICK s : s = [targets |-> {}, framebuffer |-> {}, dirty |-> TRUE, bound |-> FALSE,
                    rtLayouts |-> w, loads |-> x, clears |-> y, deferred |-> d, barriers |-> b,
                    layout |-> z, pending |-> {}, raced |-> {}, misplaced |-> {}, stale |-> {},
                    overtaken |-> {}, late |-> {}]
  OBVIOUS
<1>3. context = s
  BY <1>1, <1>2 DEF ContextInit
<1>4. s \in ContextType
  BY <1>2 DEF ContextType
<1>5. b.stages = {} /\ b.slices = {} /\ b.moves = {}
  BY <1>1 DEF NoBarriers
<1>6. Tracked(s, w)
  BY <1>1, <1>2, <1>5 DEF Tracked, InfoLayouts
<1>7. Between(s, w)
  BY <1>2, <1>4, <1>5, <1>6 DEF Between, Sound, Waited, MovesKnown, WholeImages, Registered, OneMoveEach
<1>8. Unloaded(s)
  BY <1>1, <1>2 DEF Unloaded, Kept
<1> QED BY <1>1, <1>2, <1>3, <1>7, <1>8 DEF Rest, Steady, Outside

ContextInv == Rest(context)

LEMMA CommandRests ==
  ASSUME ContextInv, Command
  PROVE  Rest(context')
<1>1. Rest(context)
  BY DEF ContextInv
<1>2. {} \in SUBSET Images /\ {} \in SUBSET BufferSlices
      /\ \A i \in Images : {i} \in SUBSET Images
  OBVIOUS
<1>3. /\ \A b \in WholeBuffers : b \in BufferSlices /\ {b} \in SUBSET BufferSlices
      /\ \A u \in BufferUnits : u \in BufferSlices
  BY BuffersAre
<1>4. ASSUME context.targets # {}, NEW i \in Images, Draw({i}, {}) PROVE Rest(context')
  BY <1>1, <1>2, <1>4, DrawRests
<1>5. ASSUME context.targets # {}, NEW b \in WholeBuffers, Draw({}, {b}) PROVE Rest(context')
  BY <1>1, <1>2, <1>3, <1>5, DrawRests
<1>6. ASSUME NEW i \in Images, NEW write \in BOOLEAN, Dispatch({i}, {}, write) PROVE Rest(context')
  BY <1>1, <1>2, <1>6, DispatchRests
<1>7. ASSUME NEW b \in WholeBuffers, NEW write \in BOOLEAN, Dispatch({}, {b}, write)
      PROVE  Rest(context')
  BY <1>1, <1>2, <1>3, <1>7, DispatchRests
<1>8. ASSUME NEW src \in BufferUnits, NEW dst \in BufferUnits, CopyBuffer(src, dst)
      PROVE  Rest(context')
  BY <1>1, <1>3, <1>8, CopyBufferRests
<1>9. ASSUME NEW dst \in BufferUnits, UpdateBuffer(dst) PROVE Rest(context')
  BY <1>1, <1>3, <1>9, UpdateBufferRests
<1>10. ASSUME NEW i \in Images, NEW full \in BOOLEAN, NEW src \in WholeBuffers,
              CopyBufferToImage(i, full, src)
       PROVE  Rest(context')
  BY <1>1, <1>10, CopyBufferToImageRests
<1> QED BY <1>4, <1>5, <1>6, <1>7, <1>8, <1>9, <1>10 DEF Command

(* Between two operations of a context, either no pass is bound and every   *)
(* image is in, or has a barrier registered that moves it to, the layout it *)
(* is kept in, or a pass is bound whose attachments are in the layouts of   *)
(* the pass with nothing but its end registered.  Every access that is      *)
(* pending is waited for by the registered stages and, outside a pass,      *)
(* covered by a registered slice; and whatever is stale has its clear       *)
(* deferred (VltContext.cpp, spillRenderPass, startRenderPass, flushClears; *)
(* VltBarrier.cpp).                                                         *)
THEOREM ContextInvariant == ContextSpec => []ContextInv
<1>1. ContextInit => ContextInv
  BY InitRests DEF ContextInv
<1>2. ContextInv /\ [ContextNext]_context => ContextInv'
  <2> SUFFICES ASSUME ContextInv, [ContextNext]_context PROVE ContextInv'
    OBVIOUS
  <2>1. Rest(context) /\ context \in ContextType
    BY RestIs DEF ContextInv
  <2>2. CASE UNCHANGED context
    BY <2>2 DEF ContextInv
  <2>3. ASSUME NEW targets \in Targets, BindRenderTargets(targets) PROVE ContextInv'
    BY <2>1, <2>3, BindRests DEF ContextInv, Targets
  <2>4. ASSUME NEW i \in context.targets, NEW aspects \in (SUBSET Aspects(i)) \ {{}},
               ClearRenderTarget(i, aspects)
        PROVE  ContextInv'
    <3>1. aspects \in SUBSET Aspects(i) /\ aspects # {}
      OBVIOUS
    <3> QED BY <2>1, <2>4, <3>1, ClearRests DEF ContextInv
  <2>5. CASE Command
    BY <2>5, CommandRests DEF ContextInv
  <2>6. CASE EmitReadbackBarrier
    BY <2>1, <2>6, ReadbackRests DEF ContextInv
  <2>7. CASE FlushCommandList
    BY <2>1, <2>7, FlushRests DEF ContextInv
  <2> QED BY <2>2, <2>3, <2>4, <2>5, <2>6, <2>7 DEF ContextNext
<1> QED BY <1>1, <1>2, PTL DEF ContextSpec

LEMMA WhatRests ==
  ASSUME ContextInv
  PROVE  /\ context \in ContextType
         /\ context.raced = {} /\ context.misplaced = {} /\ context.overtaken = {}
         /\ context.loads = BoundLayouts /\ \A i \in Images : context.clears[i] = {}
<1>1. Steady(context) /\ context \in ContextType
  BY RestIs DEF ContextInv
<1>2. context.raced = {} /\ context.misplaced = {}
  BY <1>1 DEF Steady, InPass, Outside, Between, Sound
<1> QED BY <1>1, <1>2 DEF Steady, Unloaded

(* The fields of a context keep their types, and between two operations no  *)
(* load or clear of a pass is left behind (VltContext::resetRenderPassOps). *)
THEOREM ContextTypes == ContextSpec => []ContextTypeOK
<1>1. ContextInv => ContextTypeOK
  <2> SUFFICES ASSUME ContextInv PROVE ContextTypeOK
    OBVIOUS
  <2>1. context \in ContextType /\ context.loads = BoundLayouts
        /\ \A i \in Images : context.clears[i] = {}
    BY WhatRests
  <2>2. context.clears = [i \in Images |-> {}]
    BY <2>1 DEF ContextType
  <2>3. ASSUME NEW k \in DOMAIN context.deferred PROVE context.deferred[k].image \in Images
    <3>1. PICK d \in Seq(ClearType) : d = context.deferred
      BY <2>1 DEF ContextType
    <3>2. k \in 1 .. Len(d)
      BY <3>1
    <3>3. d[k] \in ClearType
      BY <3>2
    <3> QED BY <3>1, <3>3 DEF ClearType
  <2>4. context.barriers.stages \subseteq DOMAIN WaitedBy
    BY <2>1 DEF ContextType, BarriersType, Stages, WaitedBy
  <2>5. /\ context.targets \cup context.framebuffer \subseteq Images
        /\ context.dirty \in BOOLEAN /\ context.bound \in BOOLEAN
        /\ context.rtLayouts \in [Images -> Layouts] /\ context.layout \in [Images -> Layouts]
    BY <2>1 DEF ContextType
  <2> QED BY <2>1, <2>2, <2>3, <2>4, <2>5 DEF ContextTypeOK
<1> QED BY <1>1, ContextInvariant, PTL

(* Whatever draws, dispatches, copies and clears a context records, a       *)
(* barrier has waited for every access before a command that conflicts with *)
(* it (VltBarrierSet, VltContext::commitComputePrevBarriers, copyBuffer).   *)
THEOREM ContextCommandsDoNotRace == ContextSpec => []NoCommandRaces
<1>1. ContextInv => NoCommandRaces
  BY WhatRests DEF NoCommandRaces
<1> QED BY <1>1, ContextInvariant, PTL

(* Every barrier, pass, copy and descriptor names the layout the image is   *)
(* in (VltContext::transitionRenderTargetLayouts, performClear).            *)
THEOREM ContextTracksLayouts == ContextSpec => []LayoutsAreTracked
<1>1. ContextInv => LayoutsAreTracked
  BY WhatRests DEF LayoutsAreTracked
<1> QED BY <1>1, ContextInvariant, PTL

(* A clear that is put off is done before a command comes to the image,     *)
(* whether it is folded into a pass or done in one of its own, unless the   *)
(* command came while it was put off (VltContext::flushClears,              *)
(* performClear).                                                           *)
THEOREM ContextClearsKeepTheirPlace == ContextSpec => []ClearsKeepTheirPlace
<1>1. ContextInv => ClearsKeepTheirPlace
  BY WhatRests DEF ClearsKeepTheirPlace
<1> QED BY <1>1, ContextInvariant, PTL
===============================================================================
