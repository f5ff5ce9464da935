-------------------------- MODULE GcnDivergentFlow --------------------------
(***************************************************************************)
(* The last pass over a shader's token list                                *)
(* (ControlFlowGraph/GcnDivergentFlow.cpp): one block of code is split     *)
(* into groups, and a group of instructions that only some lanes may       *)
(* execute goes into an If on the lane's own bit of EXEC, with an Else     *)
(* that clears the scalar registers a comparison would have written.       *)
(*                                                                         *)
(* An instruction is its kind.  An output entry is one instruction of one  *)
(* Code token: the place `at` it had in the block, the side of the If it   *)
(* is on ("both" for none) and the place `scope` at which that If opened.  *)
(***************************************************************************)
EXTENDS Integers, Sequences

CONSTANT Codes  \* the blocks given to the pass

VARIABLES
  code,   \* the instruction list of the block
  i,      \* the instruction the loop is at
  open,   \* the place at which the open If was opened, 0 when none is
  group,  \* lastGroup: places not inserted yet
  zs,     \* lastZsGroup: places of the comparisons to clear for
  out,    \* the instructions of the tokens inserted
  done    \* whether the block is through

flowVars == <<code, i, open, group, zs, out, done>>

(* What getDivergentAction and isNonCompileInst tell apart, and of the     *)
(* comparisons V_CMPX_*, which the pass treats as any other.  "branch"     *)
(* ends a block; "wait" is executed but not compiled.                      *)
Execute == {"scalar", "wait", "branch"}
ZeroScalar == {"compare", "cmpx"}
Nop == {"vector"}
Divergent == ZeroScalar \cup Nop
Kinds == Execute \cup Divergent

(* The instructions that may write EXEC.                                   *)
WritesExec == {"scalar", "cmpx"}

(* A block has an instruction at least (generateVertices).                 *)
CodesAreBlocks == Codes \subseteq Seq(Kinds) \ {<<>>}

NeedDiverge == \E p \in DOMAIN code : code[p] \in Divergent

(* The branch at the end is erased, the condition of the If holds it.      *)
LastPlace == IF code[Len(code)] = "branch" THEN Len(code) - 1 ELSE Len(code)

Sides == {"both", "if", "else"}
OutEntry == [at : Nat, side : Sides, scope : Nat]

Entries(places, side) ==
  [k \in 1..Len(places) |-> [at |-> places[k], side |-> side,
                             scope |-> IF side = "both" THEN 0 ELSE open]]

InsertGroup == out \o Entries(group, IF open = 0 THEN "both" ELSE "if")

CloseScope == InsertGroup \o Entries(zs, "else")

FlowInit ==
  /\ code \in Codes
  /\ i = 1 /\ open = 0
  /\ group = <<>> /\ zs = <<>> /\ out = <<>>
  /\ done = FALSE

(* needDiverge says no: the token stays as it is.                          *)
Keep ==
  /\ ~done /\ i = 1 /\ ~NeedDiverge
  /\ out' = Entries([p \in 1..Len(code) |-> p], "both")
  /\ done' = TRUE
  /\ UNCHANGED <<code, i, open, group, zs>>

AtInstruction(kinds) == ~done /\ NeedDiverge /\ i <= LastPlace /\ code[i] \in kinds

Advance == i' = i + 1 /\ UNCHANGED <<code, done>>

(* In an open scope the group is inserted, so that the next one begins     *)
(* behind the instruction that is left out.                                *)
SkipWait ==
  /\ AtInstruction({"wait"}) /\ open # 0
  /\ out' = InsertGroup
  /\ group' = <<>>
  /\ Advance /\ UNCHANGED <<open, zs>>

AddDivergent ==
  /\ AtInstruction(Divergent)
  /\ IF open = 0
     THEN out' = InsertGroup /\ group' = <<i>> /\ open' = i
     ELSE group' = Append(group, i) /\ UNCHANGED <<out, open>>
  /\ zs' = IF code[i] \in ZeroScalar THEN Append(zs, i) ELSE zs
  /\ Advance

(* Fault: what was cleared is cleared again by the next scope.            *)
AddExecuteKeepingZs ==
  /\ AtInstruction(Execute)
  /\ code[i] = "wait" => open = 0
  /\ IF open # 0
     THEN out' = CloseScope /\ group' = <<i>> /\ open' = 0
     ELSE group' = Append(group, i) /\ UNCHANGED <<out, open>>
  /\ Advance /\ UNCHANGED zs

AddExecute ==
  /\ AtInstruction(Execute)
  /\ code[i] = "wait" => open = 0
  /\ IF open # 0
     THEN out' = CloseScope /\ group' = <<i>> /\ zs' = <<>> /\ open' = 0
     ELSE group' = Append(group, i) /\ UNCHANGED <<out, zs, open>>
  /\ Advance

Finish ==
  /\ ~done /\ NeedDiverge /\ i > LastPlace
  /\ out' = IF open # 0 THEN CloseScope ELSE InsertGroup
  /\ group' = <<>> /\ zs' = <<>> /\ open' = 0
  /\ done' = TRUE
  /\ UNCHANGED <<code, i>>

FlowNext == Keep \/ SkipWait \/ AddDivergent \/ AddExecute \/ Finish

FlowSpec == FlowInit /\ [][FlowNext]_flowVars

(***************************************************************************)
(* What the hardware does: a lane executes every scalar instruction, a     *)
(* vector instruction when its bit of EXEC is set at that moment, and a     *)
(* comparison writes 0 for a lane whose bit is clear.                      *)
(***************************************************************************)
FlowTypeOK ==
  /\ code \in Seq(Kinds)
  /\ i \in Nat \ {0} /\ open \in Nat
  /\ group \in Seq(Nat) /\ zs \in Seq(Nat)
  /\ out \in Seq(OutEntry)
  /\ done \in BOOLEAN

Members(s) == {s[k] : k \in 1..Len(s)}

Emitted(s, p, side) == \E e \in Members(s) : e.at = p /\ e.side = side

(* Nothing is missing: a scalar instruction stands outside every If, a     *)
(* vector instruction inside one, a comparison also has its clearing.      *)
NothingLost ==
  done => \A p \in 1..Len(code) :
    /\ code[p] = "scalar" => Emitted(out, p, "both")
    /\ code[p] \in Divergent => Emitted(out, p, "if")
    /\ code[p] \in ZeroScalar => Emitted(out, p, "else")

(* A lane, whichever side of the Ifs it takes, meets its instructions in   *)
(* the order of the block, and each of them once.                          *)
SameLane(a, b) == {a.side, b.side} # {"if", "else"}

OrderKept ==
  \A k, l \in 1..Len(out) : k < l /\ SameLane(out[k], out[l]) => out[k].at < out[l].at

(* On the right side of the right If: of the instructions that may write   *)
(* EXEC only a V_CMPX stands between the If and an instruction in it.  Up  *)
(* to the first V_CMPX the bit the If looks at is the one the instruction  *)
(* would have looked at; behind it the bit is stale, since                 *)
(* getDivergentAction leaves V_CMPX in the If although emitting it stores   *)
(* EXEC, and nothing is claimed of the bit there.                          *)
InPlace(e) ==
  /\ e.at \in 1..Len(code)
  /\ e.side = "both" => code[e.at] \in Execute
  /\ e.side = "if" => code[e.at] \in Divergent
  /\ e.side = "else" => code[e.at] \in ZeroScalar
  /\ e.side # "both" =>
       \A p \in e.scope..e.at : code[p] \in WritesExec => code[p] = "cmpx"

ExecIsCurrent == \A e \in Members(out) : InPlace(e)

(* Each lane keeps its instructions and their order when a block is split  *)
(* into groups, and up to the first V_CMPX of a group the EXEC bit they    *)
(* depend on (divergeCode).                                                *)
EachLaneRunsItsCode == NothingLost /\ OrderKept /\ ExecIsCurrent
=============================================================================
