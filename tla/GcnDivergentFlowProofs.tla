----------------------- MODULE GcnDivergentFlowProofs -----------------------
(***************************************************************************)
(* Splitting a block into groups keeps every lane's instructions, whatever *)
(* the block: for each place the loop has passed, the instruction is       *)
(* either in the output or in the group that waits to be inserted, the     *)
(* group lies behind the output, and of the instructions that may write    *)
(* EXEC only V_CMPX has been passed since the open If was opened.          *)
(***************************************************************************)
EXTENDS GcnDivergentFlow, SequenceTheorems, TLAPS

Increasing(g) == \A k, l \in 1..Len(g) : k < l => g[k] < g[l]

Ordered(s) ==
  \A k, l \in 1..Len(s) : k < l /\ SameLane(s[k], s[l]) => s[k].at < s[l].at

Behind(s, p) == \A e \in Members(s) : e.at < p

\* The loop's bookkeeping.
GroupInv ==
  /\ Increasing(group)
  /\ \A p \in Members(group) :
       /\ p \in 1..(i - 1)
       /\ Behind(out, p)
       /\ IF open = 0 THEN code[p] \in Execute ELSE open <= p /\ code[p] \in Divergent

ClearInv ==
  /\ Increasing(zs)
  /\ open = 0 => zs = <<>>
  /\ \A p \in Members(zs) : p \in 1..(i - 1) /\ open <= p /\ code[p] \in ZeroScalar

ScopeInv ==
  /\ open < i
  /\ open # 0 =>
       /\ \A p \in open..(i - 1) : code[p] \in WritesExec => code[p] = "cmpx"
       /\ \A e \in Members(out) : e.side # "if" => e.at < open

PassedInv ==
  \A p \in 1..(i - 1) :
    /\ code[p] = "scalar" => Emitted(out, p, "both") \/ (open = 0 /\ p \in Members(group))
    /\ code[p] \in Divergent => Emitted(out, p, "if") \/ (open # 0 /\ p \in Members(group))
    /\ code[p] \in ZeroScalar => Emitted(out, p, "else") \/ p \in Members(zs)

LoopInv ==
  /\ i <= Len(code) + 1
  /\ Behind(out, i)
  /\ GroupInv /\ ClearInv /\ ScopeInv /\ PassedInv

DivergeInv ==
  /\ FlowTypeOK /\ Len(code) > 0
  /\ OrderKept /\ ExecIsCurrent /\ NothingLost
  /\ ~done => LoopInv

------------------------------------------------------------------------------
LEMMA MembersConcat ==
  ASSUME NEW S, NEW s \in Seq(S), NEW t \in Seq(S)
  PROVE  Members(s \o t) = Members(s) \cup Members(t)
<1>1. Len(s \o t) = Len(s) + Len(t) /\ Len(s) \in Nat /\ Len(t) \in Nat
  BY ConcatProperties, LenProperties
<1>2. \A k \in 1..Len(s) + Len(t) : (s \o t)[k] = IF k <= Len(s) THEN s[k] ELSE t[k - Len(s)]
  BY ConcatProperties
<1>3. ASSUME NEW x \in Members(s \o t) PROVE x \in Members(s) \cup Members(t)
  <2>1. PICK k \in 1..Len(s) + Len(t) : x = (s \o t)[k]
    BY <1>1, <1>3 DEF Members
  <2>2. k <= Len(s) => k \in 1..Len(s)
    BY <1>1
  <2>3. ~(k <= Len(s)) => k - Len(s) \in 1..Len(t)
    BY <1>1
  <2>4. QED BY <2>1, <2>2, <2>3, <1>2 DEF Members
<1>4. ASSUME NEW x \in Members(s) PROVE x \in Members(s \o t)
  <2>1. PICK k \in 1..Len(s) : x = s[k]
    BY <1>4 DEF Members
  <2>2. k \in 1..Len(s) + Len(t) /\ k <= Len(s)
    BY <1>1
  <2>3. QED BY <2>1, <2>2, <1>1, <1>2 DEF Members
<1>5. ASSUME NEW x \in Members(t) PROVE x \in Members(s \o t)
  <2>1. PICK k \in 1..Len(t) : x = t[k]
    BY <1>5 DEF Members
  <2>2. /\ k + Len(s) \in 1..Len(s) + Len(t) /\ ~(k + Len(s) <= Len(s))
        /\ k + Len(s) - Len(s) = k
    BY <1>1
  <2>3. QED BY <2>1, <2>2, <1>1, <1>2 DEF Members
<1>6. QED BY <1>3, <1>4, <1>5

LEMMA MembersAppend ==
  ASSUME NEW g \in Seq(Nat), NEW p \in Nat
  PROVE  /\ Append(g, p) \in Seq(Nat)
         /\ Members(Append(g, p)) = Members(g) \cup {p}
         /\ Increasing(g) /\ (\A q \in Members(g) : q < p) => Increasing(Append(g, p))
<1>1. /\ Append(g, p) \in Seq(Nat) /\ Len(Append(g, p)) = Len(g) + 1 /\ Len(g) \in Nat
      /\ \A k \in 1..Len(g) : Append(g, p)[k] = g[k]
      /\ Append(g, p)[Len(g) + 1] = p
  BY AppendProperties, LenProperties
<1>2. 1..(Len(g) + 1) = (1..Len(g)) \cup {Len(g) + 1}
  BY <1>1
<1>3. Members(Append(g, p)) = Members(g) \cup {p}
  BY <1>1, <1>2 DEF Members
<1>4. ASSUME Increasing(g), \A q \in Members(g) : q < p
      PROVE  Increasing(Append(g, p))
  <2> SUFFICES ASSUME NEW k \in 1..(Len(g) + 1), NEW l \in 1..(Len(g) + 1), k < l
               PROVE  Append(g, p)[k] < Append(g, p)[l]
    BY <1>1 DEF Increasing
  <2>1. k \in 1..Len(g)
    BY <1>1
  <2>2. CASE l = Len(g) + 1
    BY <1>1, <1>4, <2>1, <2>2 DEF Members
  <2>3. CASE l \in 1..Len(g)
    BY <1>1, <1>4, <2>1, <2>3 DEF Increasing
  <2>4. QED BY <1>2, <2>2, <2>3
<1>5. QED BY <1>1, <1>3, <1>4

LEMMA MembersSingle ==
  ASSUME NEW p \in Nat
  PROVE  /\ <<p>> \in Seq(Nat) /\ Members(<<p>>) = {p} /\ Increasing(<<p>>)
         /\ <<>> \in Seq(Nat) /\ Members(<<>>) = {} /\ Increasing(<<>>)
  BY DEF Members, Increasing

\* A run of entries is the places, on one side of one If.
LEMMA EntriesFacts ==
  ASSUME NEW g \in Seq(Nat), NEW side \in Sides, open \in Nat
  PROVE  /\ Entries(g, side) \in Seq(OutEntry)
         /\ Members(Entries(g, side)) =
              {[at |-> p, side |-> side, scope |-> IF side = "both" THEN 0 ELSE open] :
                 p \in Members(g)}
         /\ Increasing(g) => Ordered(Entries(g, side))
<1> DEFINE sc == IF side = "both" THEN 0 ELSE open
           t == [k \in 1..Len(g) |-> [at |-> g[k], side |-> side, scope |-> sc]]
<1>1. Len(g) \in Nat /\ \A k \in 1..Len(g) : g[k] \in Nat
  BY ElementOfSeq, LenProperties
<1>2. \A k \in 1..Len(g) : [at |-> g[k], side |-> side, scope |-> sc] \in OutEntry
  BY <1>1 DEF OutEntry
<1>3. t \in [1..Len(g) -> OutEntry]
  BY <1>2
<1>4. t \in Seq(OutEntry) /\ Len(t) = Len(g)
  BY <1>1, <1>3, SeqDef, LenProperties
<1>5. Members(t) = {[at |-> p, side |-> side, scope |-> sc] : p \in Members(g)}
  BY <1>4 DEF Members
<1>6. Increasing(g) => Ordered(t)
  BY <1>4 DEF Increasing, Ordered
<1>7. QED BY <1>4, <1>5, <1>6 DEF Entries

LEMMA MemberAt == ASSUME NEW s \in Seq(OutEntry), NEW e \in Members(s) PROVE e.at \in Nat
<1>1. e \in OutEntry
  BY ElementOfSeq DEF Members
<1>2. QED BY <1>1 DEF OutEntry

LEMMA OrderedConcat ==
  ASSUME NEW s \in Seq(OutEntry), NEW t \in Seq(OutEntry), Ordered(s), Ordered(t),
         \A x \in Members(s), y \in Members(t) : SameLane(x, y) => x.at < y.at
  PROVE  Ordered(s \o t)
<1>1. Len(s \o t) = Len(s) + Len(t) /\ Len(s) \in Nat /\ Len(t) \in Nat
  BY ConcatProperties, LenProperties
<1>2. \A k \in 1..Len(s) + Len(t) : (s \o t)[k] = IF k <= Len(s) THEN s[k] ELSE t[k - Len(s)]
  BY ConcatProperties
<1> SUFFICES ASSUME NEW k \in 1..Len(s) + Len(t), NEW l \in 1..Len(s) + Len(t), k < l,
                    SameLane((s \o t)[k], (s \o t)[l])
             PROVE  (s \o t)[k].at < (s \o t)[l].at
  BY <1>1 DEF Ordered
<1>3. CASE l <= Len(s)
  <2>1. k \in 1..Len(s) /\ l \in 1..Len(s)
    BY <1>1, <1>3
  <2>2. (s \o t)[k] = s[k] /\ (s \o t)[l] = s[l]
    BY <1>2, <2>1
  <2>3. QED BY <2>1, <2>2 DEF Ordered
<1>4. CASE ~(k <= Len(s))
  <2>1. k - Len(s) \in 1..Len(t) /\ l - Len(s) \in 1..Len(t) /\ k - Len(s) < l - Len(s)
        /\ ~(l <= Len(s))
    BY <1>1, <1>4
  <2>2. (s \o t)[k] = t[k - Len(s)] /\ (s \o t)[l] = t[l - Len(s)]
    BY <1>2, <1>4, <2>1
  <2>3. QED BY <2>1, <2>2 DEF Ordered
<1>5. CASE k <= Len(s) /\ ~(l <= Len(s))
  <2>1. k \in 1..Len(s) /\ l - Len(s) \in 1..Len(t)
    BY <1>1, <1>5
  <2>2. (s \o t)[k] = s[k] /\ (s \o t)[l] = t[l - Len(s)]
    BY <1>2, <1>5
  <2>3. QED BY <2>1, <2>2 DEF Members
<1>6. QED BY <1>1, <1>3, <1>4, <1>5

------------------------------------------------------------------------------
\* The loop between two instructions.
Looping ==
  /\ FlowTypeOK /\ Len(code) > 0 /\ ~done
  /\ OrderKept /\ ExecIsCurrent
  /\ LoopInv

\* The entries a group makes.
Made(places, side, sc) ==
  {[at |-> p, side |-> side, scope |-> sc] : p \in Members(places)}

GroupSide == IF open = 0 THEN "both" ELSE "if"

\* Inserting the group keeps the order and puts each entry where it belongs.
LEMMA InsertFacts ==
  ASSUME Looping
  PROVE  /\ InsertGroup \in Seq(OutEntry)
         /\ Members(InsertGroup) = Members(out) \cup Made(group, GroupSide, open)
         /\ Ordered(InsertGroup)
         /\ \A e \in Members(InsertGroup) : e.at < i /\ InPlace(e)
<1> DEFINE t == Entries(group, GroupSide)
<1>1. /\ open \in Nat /\ i \in Nat /\ group \in Seq(Nat) /\ out \in Seq(OutEntry)
      /\ code \in Seq(Kinds) /\ Len(code) \in Nat /\ i <= Len(code) + 1
  BY LenProperties DEF Looping, FlowTypeOK, LoopInv
<1>2. GroupSide \in Sides /\ (GroupSide = "both" <=> open = 0)
  BY DEF GroupSide, Sides
<1>3. t \in Seq(OutEntry) /\ Members(t) = Made(group, GroupSide, open) /\ Ordered(t)
  <2>1. (IF GroupSide = "both" THEN 0 ELSE open) = open
    BY <1>2
  <2>2. Increasing(group)
    BY DEF Looping, LoopInv, GroupInv
  <2>3. QED BY <1>1, <1>2, <2>1, <2>2, EntriesFacts DEF Made
<1>4. InsertGroup = out \o t
  BY DEF InsertGroup, GroupSide
<1>5. Members(InsertGroup) = Members(out) \cup Members(t) /\ InsertGroup \in Seq(OutEntry)
  BY <1>1, <1>3, <1>4, MembersConcat, ConcatProperties
<1>6. Ordered(InsertGroup)
  <2>1. \A x \in Members(out), y \in Members(t) : x.at < y.at
    BY <1>3 DEF Made, Looping, LoopInv, GroupInv, Behind
  <2>2. Ordered(out)
    BY DEF Looping, OrderKept, Ordered
  <2>3. QED BY <1>1, <1>3, <1>4, <2>1, <2>2, OrderedConcat
<1>7. ASSUME NEW e \in Members(t) PROVE e.at < i /\ InPlace(e)
  <2>1. PICK p \in Members(group) : e = [at |-> p, side |-> GroupSide, scope |-> open]
    BY <1>3, <1>7 DEF Made
  <2>2. p \in 1..(i - 1) /\ p \in 1..Len(code) /\ p < i
    BY <1>1 DEF Looping, LoopInv, GroupInv
  <2>3. CASE open = 0
    <3>1. code[p] \in Execute
      BY <2>3 DEF Looping, LoopInv, GroupInv
    <3>2. QED BY <2>1, <2>2, <2>3, <3>1 DEF InPlace, GroupSide
  <2>4. CASE open # 0
    <3>1. code[p] \in Divergent /\ open <= p
      BY <2>4 DEF Looping, LoopInv, GroupInv
    <3>2. \A q \in open..p : code[q] \in WritesExec => code[q] = "cmpx"
      <4>1. open..p \subseteq open..(i - 1)
        BY <1>1, <2>2
      <4>2. QED BY <4>1, <2>4 DEF Looping, LoopInv, ScopeInv
    <3>3. QED BY <2>1, <2>2, <2>4, <3>1, <3>2 DEF InPlace, GroupSide
  <2>5. QED BY <2>3, <2>4
<1>8. \A e \in Members(out) : e.at < i /\ InPlace(e)
  BY DEF Looping, LoopInv, Behind, ExecIsCurrent
<1>9. QED BY <1>3, <1>5, <1>6, <1>7, <1>8

\* So does closing the scope: what is cleared was compared behind the If, and
\* only the If's own side stands there.
LEMMA CloseFacts ==
  ASSUME Looping, open # 0
  PROVE  /\ CloseScope \in Seq(OutEntry)
         /\ Members(CloseScope) = Members(InsertGroup) \cup Made(zs, "else", open)
         /\ Ordered(CloseScope)
         /\ \A e \in Members(CloseScope) : e.at < i /\ InPlace(e)
<1> DEFINE t == Entries(zs, "else")
<1>1. /\ open \in Nat /\ i \in Nat /\ zs \in Seq(Nat)
      /\ code \in Seq(Kinds) /\ Len(code) \in Nat /\ i <= Len(code) + 1
  BY LenProperties DEF Looping, FlowTypeOK, LoopInv
<1>2. t \in Seq(OutEntry) /\ Members(t) = Made(zs, "else", open) /\ Ordered(t)
  <2>1. (IF "else" = "both" THEN 0 ELSE open) = open /\ "else" \in Sides
    BY DEF Sides
  <2>2. Increasing(zs)
    BY DEF Looping, LoopInv, ClearInv
  <2>3. QED BY <1>1, <2>1, <2>2, EntriesFacts DEF Made
<1>3. /\ CloseScope = InsertGroup \o t
      /\ InsertGroup \in Seq(OutEntry) /\ Ordered(InsertGroup)
      /\ Members(InsertGroup) = Members(out) \cup Made(group, GroupSide, open)
      /\ \A e \in Members(InsertGroup) : e.at < i /\ InPlace(e)
  BY InsertFacts DEF CloseScope
<1>4. Members(CloseScope) = Members(InsertGroup) \cup Members(t) /\ CloseScope \in Seq(OutEntry)
  BY <1>2, <1>3, MembersConcat, ConcatProperties
<1>5. ASSUME NEW x \in Members(InsertGroup), NEW y \in Members(t), SameLane(x, y)
      PROVE  x.at < y.at
  <2>1. y.side = "else" /\ y.at \in Members(zs)
    BY <1>2, <1>5 DEF Made
  <2>2. x.side # "if"
    BY <1>5, <2>1 DEF SameLane
  <2>3. x \in Members(out)
    BY <1>3, <1>5, <2>2 DEF Made, GroupSide
  <2>4. x.at < open
    BY <2>2, <2>3 DEF Looping, LoopInv, ScopeInv
  <2>5. open <= y.at /\ y.at \in Nat
    BY <1>1, <2>1 DEF Looping, LoopInv, ClearInv
  <2>6. x.at \in Nat
    BY <2>3, MemberAt DEF Looping, FlowTypeOK
  <2>7. QED BY <1>1, <2>4, <2>5, <2>6
<1>6. Ordered(CloseScope)
  BY <1>2, <1>3, <1>5, OrderedConcat
<1>7. ASSUME NEW e \in Members(t) PROVE e.at < i /\ InPlace(e)
  <2>1. PICK p \in Members(zs) : e = [at |-> p, side |-> "else", scope |-> open]
    BY <1>2, <1>7 DEF Made
  <2>2. p \in 1..(i - 1) /\ p \in 1..Len(code) /\ p < i /\ open <= p /\ code[p] \in ZeroScalar
    BY <1>1 DEF Looping, LoopInv, ClearInv
  <2>3. \A q \in open..p : code[q] \in WritesExec => code[q] = "cmpx"
    <3>1. open..p \subseteq open..(i - 1)
      BY <1>1, <2>2
    <3>2. QED BY <3>1 DEF Looping, LoopInv, ScopeInv
  <2>4. QED BY <2>1, <2>2, <2>3 DEF InPlace
<1>8. QED BY <1>2, <1>3, <1>4, <1>6, <1>7

------------------------------------------------------------------------------
\* While the block is not through, NothingLost says nothing.
LEMMA InvIsLooping ==
  /\ DivergeInv /\ ~done => Looping
  /\ Looping => DivergeInv
BY DEF DivergeInv, Looping, NothingLost

\* What has been passed is in the output once the group is inserted.
LEMMA PassedByInsert ==
  ASSUME Looping, Members(InsertGroup) \subseteq Members(out')
  PROVE  \A p \in 1..(i - 1) :
           /\ code[p] = "scalar" => Emitted(out', p, "both")
           /\ code[p] \in Divergent => Emitted(out', p, "if")
           /\ code[p] \in ZeroScalar => Emitted(out', p, "else") \/ p \in Members(zs)
<1>1. ASSUME NEW p, NEW side, Emitted(out, p, side) PROVE Emitted(out', p, side)
  BY <1>1, InsertFacts DEF Emitted
<1>2. ASSUME NEW p \in Members(group) PROVE Emitted(out', p, GroupSide)
  <2>1. [at |-> p, side |-> GroupSide, scope |-> open] \in Members(out')
    BY <1>2, InsertFacts DEF Made
  <2>2. QED BY <2>1 DEF Emitted
<1>3. SUFFICES ASSUME NEW p \in 1..(i - 1)
               PROVE  /\ code[p] = "scalar" => Emitted(out', p, "both")
                      /\ code[p] \in Divergent => Emitted(out', p, "if")
                      /\ code[p] \in ZeroScalar => Emitted(out', p, "else") \/ p \in Members(zs)
  OBVIOUS
<1>4. /\ code[p] = "scalar" => Emitted(out, p, "both") \/ (open = 0 /\ p \in Members(group))
      /\ code[p] \in Divergent => Emitted(out, p, "if") \/ (open # 0 /\ p \in Members(group))
      /\ code[p] \in ZeroScalar => Emitted(out, p, "else") \/ p \in Members(zs)
  BY <1>3 DEF Looping, LoopInv, PassedInv
<1>5. QED BY <1>1, <1>2, <1>4 DEF GroupSide

THEOREM KeepStep == DivergeInv /\ Keep => DivergeInv'
<1> SUFFICES ASSUME DivergeInv, Keep PROVE DivergeInv'
  OBVIOUS
<1> DEFINE g == [p \in 1..Len(code) |-> p]
<1>1. /\ code \in Seq(Kinds) /\ Len(code) \in Nat /\ open \in Nat
      /\ \A p \in 1..Len(code) : code[p] \in Kinds
  BY LenProperties, ElementOfSeq DEF DivergeInv, FlowTypeOK
<1>2. g \in Seq(Nat) /\ Len(g) = Len(code)
  <2>1. g \in [1..Len(code) -> Nat]
    BY <1>1
  <2>2. QED BY <1>1, <2>1, SeqDef, LenProperties
<1>3. Members(g) = 1..Len(code) /\ Increasing(g)
  BY <1>2 DEF Members, Increasing
<1>4. /\ out' \in Seq(OutEntry) /\ Ordered(out')
      /\ Members(out') = {[at |-> p, side |-> "both", scope |-> 0] : p \in 1..Len(code)}
  BY <1>1, <1>2, <1>3, EntriesFacts DEF Keep, Sides
<1>5. \A p \in 1..Len(code) : code[p] \in Execute
  BY <1>1 DEF Keep, NeedDiverge, Kinds
<1>6. FlowTypeOK' /\ (Len(code) > 0)'
  BY <1>4 DEF Keep, DivergeInv, FlowTypeOK
<1>7. OrderKept'
  BY <1>4 DEF OrderKept, Ordered
<1>8. ExecIsCurrent'
  BY <1>4, <1>5 DEF ExecIsCurrent, InPlace, Keep
<1>9. NothingLost'
  <2>1. ASSUME NEW p \in 1..Len(code) PROVE Emitted(out', p, "both")
    <3>1. [at |-> p, side |-> "both", scope |-> 0] \in Members(out')
      BY <1>4
    <3>2. QED BY <3>1 DEF Emitted
  <2>2. \A p \in 1..Len(code) : ~(code[p] \in Divergent) /\ ~(code[p] \in ZeroScalar)
    BY <1>5 DEF Execute, Divergent, ZeroScalar, Nop
  <2>3. code' = code
    BY DEF Keep
  <2>4. QED BY <2>1, <2>2, <2>3 DEF NothingLost
<1>10. QED BY <1>6, <1>7, <1>8, <1>9 DEF DivergeInv, Keep

\* An instruction that is passed is one place further, and not behind the end.
LEMMA Passing ==
  ASSUME DivergeInv, NEW kinds, AtInstruction(kinds), Advance
  PROVE  /\ Looping /\ i \in 1..Len(code) /\ i' = i + 1 /\ i' <= Len(code') + 1
         /\ code' = code /\ done' = done /\ code[i] \in kinds
         /\ i' \in Nat \ {0} /\ open \in Nat /\ group \in Seq(Nat) /\ zs \in Seq(Nat)
         /\ out \in Seq(OutEntry) /\ code \in Seq(Kinds) /\ code[i] \in Kinds
         /\ 1..(i' - 1) = (1..(i - 1)) \cup {i}
<1>1. i \in Nat \ {0} /\ code \in Seq(Kinds) /\ Len(code) \in Nat /\ i <= Len(code)
  BY LenProperties DEF DivergeInv, FlowTypeOK, AtInstruction, LastPlace
<1>2. i' - 1 = i /\ 1..i = (1..(i - 1)) \cup {i}
  BY <1>1 DEF Advance
<1>3. QED BY <1>1, <1>2, ElementOfSeq, InvIsLooping
             DEF DivergeInv, FlowTypeOK, AtInstruction, Advance

THEOREM SkipWaitStep == DivergeInv /\ SkipWait => DivergeInv'
<1> SUFFICES ASSUME DivergeInv, SkipWait PROVE DivergeInv'
  OBVIOUS
<1>1. /\ Looping /\ i \in 1..Len(code) /\ i' = i + 1 /\ i' <= Len(code') + 1
      /\ code' = code /\ done' = done /\ code[i] = "wait"
      /\ i' \in Nat \ {0} /\ open \in Nat /\ group \in Seq(Nat) /\ zs \in Seq(Nat)
      /\ out \in Seq(OutEntry) /\ code \in Seq(Kinds)
      /\ 1..(i' - 1) = (1..(i - 1)) \cup {i}
  BY Passing DEF SkipWait
<1>2. open # 0 /\ out' = InsertGroup /\ group' = <<>> /\ open' = open /\ zs' = zs
  BY DEF SkipWait
<1>3. /\ out' \in Seq(OutEntry) /\ Ordered(out')
      /\ Members(out') = Members(out) \cup Made(group, "if", open)
      /\ \A e \in Members(out') : e.at < i /\ InPlace(e)
  BY <1>1, <1>2, InsertFacts DEF GroupSide
<1>4. FlowTypeOK' /\ OrderKept' /\ ExecIsCurrent'
  <2>1. FlowTypeOK'
    BY <1>1, <1>2, <1>3, MembersSingle DEF FlowTypeOK, Looping
  <2>2. OrderKept'
    BY <1>3 DEF OrderKept, Ordered
  <2>3. ExecIsCurrent'
    BY <1>1, <1>3 DEF ExecIsCurrent, InPlace
  <2>4. QED BY <2>1, <2>2, <2>3
<1>5. Behind(out', i')
  <2>1. \A e \in Members(out') : e.at < i + 1
    BY <1>1, <1>3, MemberAt
  <2>2. QED BY <1>1, <2>1 DEF Behind
<1>6. GroupInv' /\ ClearInv'
  BY <1>1, <1>2, MembersSingle DEF GroupInv, ClearInv, Looping, LoopInv
<1>7. ScopeInv'
  <2>1. code[i] \in WritesExec => code[i] = "cmpx"
    BY <1>1 DEF WritesExec
  <2>2. \A p \in open..i : code[p] \in WritesExec => code[p] = "cmpx"
    BY <1>1, <1>2, <2>1 DEF ScopeInv, Looping, LoopInv
  <2>3. \A e \in Members(out') : e.side # "if" => e.at < open
    BY <1>1, <1>2, <1>3 DEF ScopeInv, Looping, LoopInv, Made
  <2>4. i' - 1 = i /\ open < i'
    BY <1>1, <1>2 DEF ScopeInv, Looping, LoopInv
  <2>5. QED BY <1>1, <1>2, <2>2, <2>3, <2>4 DEF ScopeInv
<1>8. PassedInv'
  <2>1. ~(code[i] \in Divergent) /\ ~(code[i] \in ZeroScalar) /\ code[i] # "scalar"
    BY <1>1 DEF Divergent, ZeroScalar, Nop
  <2>2. QED BY <1>1, <1>2, <2>1, PassedByInsert DEF PassedInv
<1>9. QED BY <1>1, <1>4, <1>5, <1>6, <1>7, <1>8, InvIsLooping
          DEF DivergeInv, LoopInv, Looping, NothingLost

THEOREM AddDivergentStep == DivergeInv /\ AddDivergent => DivergeInv'
<1> SUFFICES ASSUME DivergeInv, AddDivergent PROVE DivergeInv'
  OBVIOUS
<1>1. /\ Looping /\ i \in 1..Len(code) /\ i' = i + 1 /\ i' <= Len(code') + 1
      /\ code' = code /\ done' = done /\ code[i] \in Divergent
      /\ i' \in Nat \ {0} /\ open \in Nat /\ group \in Seq(Nat) /\ zs \in Seq(Nat)
      /\ out \in Seq(OutEntry) /\ code \in Seq(Kinds)
      /\ 1..(i' - 1) = (1..(i - 1)) \cup {i}
  BY Passing DEF AddDivergent
<1>2. zs' = IF code[i] \in ZeroScalar THEN Append(zs, i) ELSE zs
  BY DEF AddDivergent
<1>3. Behind(out, i) /\ GroupInv /\ ClearInv /\ ScopeInv /\ PassedInv
  BY <1>1 DEF Looping, LoopInv
<1>4. /\ code[i] # "scalar" /\ ~(code[i] \in Execute)
      /\ code[i] \in WritesExec => code[i] = "cmpx"
  BY <1>1 DEF Divergent, ZeroScalar, Nop, Execute, WritesExec
\* In either case what was passed is emitted or waits on the If's side.
<1>5. CASE open = 0
  <2>1. out' = InsertGroup /\ group' = <<i>> /\ open' = i
    BY <1>5 DEF AddDivergent
  <2>2. /\ out' \in Seq(OutEntry) /\ Ordered(out')
        /\ Members(out') = Members(out) \cup Made(group, "both", 0)
        /\ \A e \in Members(out') : e.at < i /\ InPlace(e)
    BY <1>1, <1>5, <2>1, InsertFacts DEF GroupSide
  <2>3. group' \in Seq(Nat) /\ Members(group') = {i} /\ Increasing(group')
    BY <1>1, <2>1, MembersSingle
  <2>4. zs = <<>>
    BY <1>3, <1>5 DEF ClearInv
  <2>5. /\ zs' \in Seq(Nat) /\ Increasing(zs')
        /\ Members(zs') = IF code[i] \in ZeroScalar THEN {i} ELSE {}
    <3>1. CASE code[i] \in ZeroScalar
      <4>1. zs' = Append(zs, i) /\ Members(zs) = {} /\ Increasing(zs)
        BY <1>2, <2>4, <3>1, MembersSingle
      <4>2. Members(zs') = Members(zs) \cup {i} /\ zs' \in Seq(Nat) /\ Increasing(zs')
        BY <1>1, <4>1, MembersAppend
      <4>3. QED BY <3>1, <4>1, <4>2
    <3>2. CASE ~(code[i] \in ZeroScalar)
      BY <1>2, <2>4, <3>2, MembersSingle
    <3>3. QED BY <3>1, <3>2
  <2>6. FlowTypeOK'
    BY <1>1, <2>1, <2>2, <2>3, <2>5 DEF FlowTypeOK, Looping
  <2>7. OrderKept'
    BY <2>2 DEF OrderKept, Ordered
  <2>8. ExecIsCurrent'
    BY <1>1, <2>2 DEF ExecIsCurrent, InPlace
  <2>9. Behind(out', i')
    <3>1. \A e \in Members(out') : e.at < i + 1
      BY <1>1, <2>2, MemberAt
    <3>2. QED BY <1>1, <3>1 DEF Behind
  <2>10. GroupInv'
    <3>1. Behind(out', i)
      BY <2>2 DEF Behind
    <3>2. i \in 1..(i' - 1) /\ ~(open' = 0) /\ open' <= i
      BY <1>1, <2>1
    <3>3. QED BY <1>1, <2>3, <3>1, <3>2 DEF GroupInv
  <2>11. ClearInv'
    BY <1>1, <2>1, <2>5 DEF ClearInv
  <2>12. ScopeInv'
    <3>1. \A q \in i..i : code[q] \in WritesExec => code[q] = "cmpx"
      BY <1>1, <1>4
    <3>2. i' - 1 = i /\ i < i'
      BY <1>1
    <3>3. QED BY <1>1, <2>1, <2>2, <3>1, <3>2 DEF ScopeInv
  <2>13. PassedInv'
    <3>1. \A p \in 1..(i - 1) :
            /\ code[p] = "scalar" => Emitted(out', p, "both")
            /\ code[p] \in Divergent => Emitted(out', p, "if")
            /\ code[p] \in ZeroScalar => Emitted(out', p, "else") \/ p \in Members(zs)
      BY <1>1, <2>1, PassedByInsert
    <3>2. \A p : ~(p \in Members(zs))
      BY <2>4, MembersSingle
    <3>3. open' # 0
      BY <1>1, <2>1
    <3>4. QED BY <1>1, <1>4, <2>3, <2>5, <3>1, <3>2, <3>3 DEF PassedInv
  <2>14. QED BY <1>1, <2>6, <2>7, <2>8, <2>9, <2>10, <2>11, <2>12, <2>13, InvIsLooping
             DEF DivergeInv, LoopInv, Looping, NothingLost
<1>6. CASE open # 0
  <2>1. out' = out /\ group' = Append(group, i) /\ open' = open
    BY <1>6 DEF AddDivergent
  <2>2. /\ group' \in Seq(Nat) /\ Members(group') = Members(group) \cup {i}
        /\ Increasing(group')
    <3>1. \A q \in Members(group) : q < i
      BY <1>1, <1>3 DEF GroupInv
    <3>2. QED BY <1>1, <1>3, <2>1, <3>1, MembersAppend DEF GroupInv
  <2>3. /\ zs' \in Seq(Nat) /\ Increasing(zs')
        /\ Members(zs') = Members(zs) \cup (IF code[i] \in ZeroScalar THEN {i} ELSE {})
    <3>1. \A q \in Members(zs) : q < i
      BY <1>1, <1>3 DEF ClearInv
    <3>2. QED BY <1>1, <1>2, <1>3, <3>1, MembersAppend DEF ClearInv
  <2>4. FlowTypeOK' /\ OrderKept' /\ ExecIsCurrent'
    BY <1>1, <2>1, <2>2, <2>3 DEF FlowTypeOK, OrderKept, ExecIsCurrent, InPlace, Looping
  <2>5. Behind(out', i')
    <3>1. \A e \in Members(out) : e.at < i + 1
      BY <1>1, <1>3, MemberAt DEF Behind
    <3>2. QED BY <1>1, <2>1, <3>1 DEF Behind
  <2>6. GroupInv'
    <3>1. i \in 1..(i' - 1) /\ open <= i /\ open # 0
      BY <1>1, <1>3, <1>6 DEF ScopeInv
    <3>2. QED BY <1>1, <1>3, <1>6, <2>1, <2>2, <3>1 DEF GroupInv
  <2>7. ClearInv'
    <3>1. open <= i
      BY <1>1, <1>3 DEF ScopeInv
    <3>2. QED BY <1>1, <1>3, <1>6, <2>1, <2>3, <3>1 DEF ClearInv
  <2>8. ScopeInv'
    <3>1. open..(i' - 1) = (open..(i - 1)) \cup {i} /\ open < i'
      BY <1>1, <1>3 DEF ScopeInv
    <3>2. QED BY <1>1, <1>3, <1>4, <2>1, <3>1 DEF ScopeInv
  <2>9. PassedInv'
    BY <1>1, <1>3, <1>4, <1>6, <2>1, <2>2, <2>3 DEF PassedInv
  <2>10. QED BY <1>1, <2>4, <2>5, <2>6, <2>7, <2>8, <2>9, InvIsLooping
             DEF DivergeInv, LoopInv, Looping, NothingLost
<1>7. QED BY <1>5, <1>6

\* What the closed scope adds for the comparisons.
LEMMA PassedByClose ==
  ASSUME Looping, open # 0, out' = CloseScope
  PROVE  \A p \in 1..(i - 1) :
           /\ code[p] = "scalar" => Emitted(out', p, "both")
           /\ code[p] \in Divergent => Emitted(out', p, "if")
           /\ code[p] \in ZeroScalar => Emitted(out', p, "else")
<1>1. Members(out') = Members(InsertGroup) \cup Made(zs, "else", open)
  BY CloseFacts
<1>2. ASSUME NEW p \in Members(zs) PROVE Emitted(out', p, "else")
  <2>1. [at |-> p, side |-> "else", scope |-> open] \in Members(out')
    BY <1>1 DEF Made
  <2>2. QED BY <2>1 DEF Emitted
<1>3. \A p \in 1..(i - 1) :
        /\ code[p] = "scalar" => Emitted(out', p, "both")
        /\ code[p] \in Divergent => Emitted(out', p, "if")
        /\ code[p] \in ZeroScalar => Emitted(out', p, "else") \/ p \in Members(zs)
  BY <1>1, PassedByInsert
<1>4. QED BY <1>2, <1>3

THEOREM AddExecuteStep == DivergeInv /\ AddExecute => DivergeInv'
<1> SUFFICES ASSUME DivergeInv, AddExecute PROVE DivergeInv'
  OBVIOUS
<1>1. /\ Looping /\ i \in 1..Len(code) /\ i' = i + 1 /\ i' <= Len(code') + 1
      /\ code' = code /\ done' = done /\ code[i] \in Execute
      /\ i' \in Nat \ {0} /\ open \in Nat /\ group \in Seq(Nat) /\ zs \in Seq(Nat)
      /\ out \in Seq(OutEntry) /\ code \in Seq(Kinds)
      /\ 1..(i' - 1) = (1..(i - 1)) \cup {i}
  BY Passing DEF AddExecute
<1>2. Behind(out, i) /\ GroupInv /\ ClearInv /\ ScopeInv /\ PassedInv
  BY <1>1 DEF Looping, LoopInv
<1>3. ~(code[i] \in Divergent) /\ ~(code[i] \in ZeroScalar)
  BY <1>1 DEF Divergent, ZeroScalar, Nop, Execute
<1>4. CASE open # 0
  <2>1. out' = CloseScope /\ group' = <<i>> /\ zs' = <<>> /\ open' = 0
    BY <1>4 DEF AddExecute
  <2>2. /\ out' \in Seq(OutEntry) /\ Ordered(out')
        /\ \A e \in Members(out') : e.at < i /\ InPlace(e)
    BY <1>1, <1>4, <2>1, CloseFacts
  <2>3. /\ group' \in Seq(Nat) /\ Members(group') = {i} /\ Increasing(group')
        /\ zs' \in Seq(Nat) /\ Members(zs') = {} /\ Increasing(zs')
    BY <1>1, <2>1, MembersSingle
  <2>4. FlowTypeOK'
    BY <1>1, <2>1, <2>2, <2>3 DEF FlowTypeOK, Looping
  <2>5. OrderKept' /\ ExecIsCurrent'
    BY <1>1, <2>2 DEF OrderKept, Ordered, ExecIsCurrent, InPlace
  <2>6. Behind(out', i')
    <3>1. \A e \in Members(out') : e.at < i + 1
      BY <1>1, <2>2, MemberAt
    <3>2. QED BY <1>1, <3>1 DEF Behind
  <2>7. GroupInv'
    <3>1. Behind(out', i)
      BY <2>2 DEF Behind
    <3>2. i \in 1..(i' - 1)
      BY <1>1
    <3>3. QED BY <1>1, <2>1, <2>3, <3>1, <3>2 DEF GroupInv
  <2>8. ClearInv' /\ ScopeInv'
    BY <1>1, <2>1, <2>3 DEF ClearInv, ScopeInv
  <2>9. PassedInv'
    <3>1. \A p \in 1..(i - 1) :
            /\ code[p] = "scalar" => Emitted(out', p, "both")
            /\ code[p] \in Divergent => Emitted(out', p, "if")
            /\ code[p] \in ZeroScalar => Emitted(out', p, "else")
      BY <1>1, <1>4, <2>1, PassedByClose
    <3>2. QED BY <1>1, <1>3, <2>1, <2>3, <3>1 DEF PassedInv
  <2>10. QED BY <1>1, <2>4, <2>5, <2>6, <2>7, <2>8, <2>9, InvIsLooping
             DEF DivergeInv, LoopInv, Looping, NothingLost
<1>5. CASE open = 0
  <2>1. out' = out /\ group' = Append(group, i) /\ open' = open /\ zs' = zs
    BY <1>5 DEF AddExecute
  <2>2. /\ group' \in Seq(Nat) /\ Members(group') = Members(group) \cup {i}
        /\ Increasing(group')
    <3>1. \A q \in Members(group) : q < i
      BY <1>1, <1>2 DEF GroupInv
    <3>2. QED BY <1>1, <1>2, <2>1, <3>1, MembersAppend DEF GroupInv
  <2>3. FlowTypeOK' /\ OrderKept' /\ ExecIsCurrent'
    BY <1>1, <2>1, <2>2 DEF FlowTypeOK, OrderKept, ExecIsCurrent, InPlace, Looping
  <2>4. Behind(out', i')
    <3>1. \A e \in Members(out) : e.at < i + 1
      BY <1>1, <1>2, MemberAt DEF Behind
    <3>2. QED BY <1>1, <2>1, <3>1 DEF Behind
  <2>5. GroupInv'
    <3>1. i \in 1..(i' - 1)
      BY <1>1
    <3>2. QED BY <1>1, <1>2, <1>5, <2>1, <2>2, <3>1 DEF GroupInv
  <2>6. ClearInv' /\ ScopeInv'
    BY <1>1, <1>2, <1>5, <2>1, MembersSingle DEF ClearInv, ScopeInv
  <2>7. PassedInv'
    BY <1>1, <1>2, <1>3, <1>5, <2>1, <2>2 DEF PassedInv
  <2>8. QED BY <1>1, <2>3, <2>4, <2>5, <2>6, <2>7, InvIsLooping
             DEF DivergeInv, LoopInv, Looping, NothingLost
<1>6. QED BY <1>4, <1>5

THEOREM FinishStep == DivergeInv /\ Finish => DivergeInv'
<1> SUFFICES ASSUME DivergeInv, Finish PROVE DivergeInv'
  OBVIOUS
<1>1. /\ Looping /\ i > LastPlace /\ code' = code /\ i' = i /\ group' = <<>> /\ zs' = <<>>
      /\ open' = 0 /\ done' = TRUE
      /\ i \in Nat \ {0} /\ code \in Seq(Kinds) /\ Len(code) \in Nat /\ Len(code) > 0
  BY InvIsLooping, LenProperties DEF Finish, Looping, FlowTypeOK
<1>2. /\ out' \in Seq(OutEntry) /\ Ordered(out')
      /\ \A e \in Members(out') : InPlace(e)
  BY <1>1, InsertFacts, CloseFacts DEF Finish
<1>3. FlowTypeOK' /\ OrderKept' /\ ExecIsCurrent'
  BY <1>1, <1>2, MembersSingle DEF FlowTypeOK, OrderKept, Ordered, ExecIsCurrent, InPlace
<1>4. NothingLost'
  <2>1. ASSUME NEW p \in 1..Len(code)
        PROVE  /\ code[p] = "scalar" => Emitted(out', p, "both")
               /\ code[p] \in Divergent => Emitted(out', p, "if")
               /\ code[p] \in ZeroScalar => Emitted(out', p, "else")
    <3>1. CASE p \in 1..(i - 1)
      <4>1. CASE open # 0
        BY <1>1, <3>1, <4>1, PassedByClose DEF Finish
      <4>2. CASE open = 0
        <5>1. out' = InsertGroup /\ zs = <<>>
          BY <1>1, <4>2 DEF Finish, Looping, LoopInv, ClearInv
        <5>2. ~(p \in Members(zs))
          BY <5>1, MembersSingle
        <5>3. QED BY <1>1, <3>1, <5>1, <5>2, PassedByInsert
      <4>3. QED BY <4>1, <4>2
    <3>2. CASE ~(p \in 1..(i - 1))
      <4>1. p = Len(code) /\ code[p] = "branch"
        BY <1>1, <2>1, <3>2 DEF LastPlace
      <4>2. ~(code[p] \in Divergent) /\ ~(code[p] \in ZeroScalar) /\ code[p] # "scalar"
        BY <4>1 DEF Divergent, ZeroScalar, Nop
      <4>3. QED BY <4>2
    <3>3. QED BY <3>1, <3>2
  <2>2. QED BY <1>1, <2>1 DEF NothingLost
<1>5. QED BY <1>1, <1>3, <1>4 DEF DivergeInv

------------------------------------------------------------------------------
\* The blocks are lists of instructions, none empty: generateVertices makes a
\* vertex of at least one (GcnControlFlowGraph.cpp:66-91).
LEMMA InitEstablishes ==
  ASSUME CodesAreBlocks, FlowInit
  PROVE  DivergeInv
<1>1. code \in Seq(Kinds) /\ Len(code) \in Nat /\ Len(code) > 0
  BY LenProperties, EmptySeq DEF FlowInit, CodesAreBlocks
<1>2. /\ FlowTypeOK /\ Members(out) = {} /\ Members(group) = {} /\ Members(zs) = {}
      /\ Increasing(group) /\ Increasing(zs) /\ Len(out) = 0
  <2>1. Members(<<>>) = {} /\ Increasing(<<>>)
    BY MembersSingle
  <2>2. out \in Seq(OutEntry) /\ Len(out) = 0 /\ group \in Seq(Nat) /\ zs \in Seq(Nat)
    BY EmptySeq DEF FlowInit
  <2>3. i \in Nat \ {0} /\ open \in Nat /\ done \in BOOLEAN
    <3>1. i = 1 /\ open = 0 /\ done = FALSE
      BY DEF FlowInit
    <3>2. i \in Nat \ {0} /\ open \in Nat
      BY <3>1
    <3>3. QED BY <3>1, <3>2
  <2>4. FlowTypeOK
    BY <1>1, <2>2, <2>3 DEF FlowTypeOK
  <2>5. Members(out) = {} /\ Members(group) = {} /\ Members(zs) = {}
        /\ Increasing(group) /\ Increasing(zs)
    BY <2>1 DEF FlowInit
  <2>6. QED BY <2>2, <2>4, <2>5
<1>3. OrderKept /\ ExecIsCurrent /\ NothingLost
  BY <1>2 DEF FlowInit, OrderKept, ExecIsCurrent, NothingLost
<1>4. LoopInv
  BY <1>1, <1>2 DEF FlowInit, LoopInv, Behind, GroupInv, ClearInv, ScopeInv, PassedInv
<1>5. QED BY <1>1, <1>2, <1>3, <1>4 DEF DivergeInv

LEMMA StepPreserves == DivergeInv /\ [FlowNext]_flowVars => DivergeInv'
<1> SUFFICES ASSUME DivergeInv, [FlowNext]_flowVars PROVE DivergeInv'
  OBVIOUS
<1>1. CASE FlowNext
  BY <1>1, KeepStep, SkipWaitStep, AddDivergentStep, AddExecuteStep, FinishStep DEF FlowNext
<1>2. CASE UNCHANGED flowVars
  BY <1>2 DEF flowVars, DivergeInv, FlowTypeOK, OrderKept, ExecIsCurrent, InPlace, NothingLost,
              LoopInv, Behind, GroupInv, ClearInv, ScopeInv, PassedInv, LastPlace
<1>3. QED BY <1>1, <1>2

\* Whatever the blocks are, the groups the pass makes of one keep for each
\* lane its instructions, their order and, up to the first V_CMPX of a group,
\* the EXEC bit they depend on (GcnDivergentFlow::divergeCode).
THEOREM LanesRunTheirCode ==
  ASSUME CodesAreBlocks
  PROVE  FlowSpec => []EachLaneRunsItsCode
<1>1. FlowInit => DivergeInv
  BY InitEstablishes
<1>2. DivergeInv /\ [FlowNext]_flowVars => DivergeInv'
  BY StepPreserves
<1>3. DivergeInv => EachLaneRunsItsCode
  BY DEF DivergeInv, EachLaneRunsItsCode
<1>4. QED BY <1>1, <1>2, <1>3, PTL DEF FlowSpec
=============================================================================
