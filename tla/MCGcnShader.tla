---------------------------- MODULE MCGcnShader ----------------------------
(***************************************************************************)
(* Every small shader whose loops the compiler understands (Understood),   *)
(* and larger ones picked by hand, through the whole of structurize(); and *)
(* every short block of code through the pass that follows it.  A          *)
(* behaviour is of the one pass or of the other, the variables of the      *)
(* other at rest.                                                          *)
(***************************************************************************)
EXTENDS GcnStackifier, GcnDivergentFlow

CONSTANTS
  Blocks5,  \* TRUE: programs of up to 5 instructions, FALSE: of up to 4
  Loops     \* how many loops a program of 5 instructions may have

VARIABLES
  pass,      \* "stackifier" or "divergent flow"
  nested,    \* a goto has left an If that holds the If around it
  displaced, \* the scope end of a goto was searched from a sibling of its If
  unwrapped  \* a block was taken off an If though a branch leaves the block

stackVars == <<vars, nested, displaced, unwrapped>>
mcVars == <<pass, stackVars, flowVars>>

Alu == [op |-> "alu", to |-> 0]
EndPgm == [op |-> "endpgm", to |-> 0]
Branch(t) == [op |-> "branch", to |-> t]
CBranch(t) == [op |-> "cbranch", to |-> t]

(* An instruction at place k of n.  A conditional branch to the next       *)
(* instruction has one successor only, and the code reads the second one.  *)
At(k, n) ==
  {EndPgm} \cup {Branch(t) : t \in (1..n) \ {k + 1}}
           \cup IF k = n THEN {} ELSE {Alu} \cup {CBranch(t) : t \in (1..n) \ {k + 1}}

Bare(program) ==
  [blocks |-> Blocks(program), succ |-> [v \in Blocks(program) |-> Successors(program, v)]]

RECURSIVE ReachTo(_, _)
ReachTo(g, seen) ==
  LET next == seen \cup {v \in g.blocks : ToSet(g.succ[v]) \cap seen # {}}
  IN  IF next = seen THEN seen ELSE ReachTo(g, next)

(* Every instruction is a block, is reached, and the program can end.      *)
Sensible(program) ==
  /\ Blocks(program) = DOMAIN program
  /\ LET g == Bare(program)
     IN  /\ ReachFrom(g, {Entry}, {}) = g.blocks
         /\ ReachTo(g, {v \in g.blocks : g.succ[v] = <<>>}) = g.blocks

Programs3 == {p \in {<<a, b, c>> : a \in At(1, 3), b \in At(2, 3), c \in At(3, 3)} : Sensible(p)}
Programs4 == {p \in {<<a, b, c, d>> : a \in At(1, 4), b \in At(2, 4), c \in At(3, 4), d \in At(4, 4)} :
                Sensible(p)}

(* Those of five instructions, with so many loops.                         *)
Programs5(loops) ==
  {p \in {<<a, b, c, d, e>> : a \in At(1, 5), b \in At(2, 5), c \in At(3, 5),
                              d \in At(4, 5), e \in At(5, 5)} :
     Sensible(p) /\ Cardinality(FindLoopHeaders(Bare(p))) <= loops}

(* The shaders the algorithm is made for: reducible, every block filed     *)
(* under its innermost loop, every back edge known for one.                *)
BackedgesKnown(g) ==
  \A v \in g.blocks : \A u \in BackSources(g, v) : IsLoopHeader(g, v) /\ LoopContains(g, v, u)

Understood(g) == Reducible(g) /\ LoopsExact(g) /\ ~g.broken /\ BackedgesKnown(g)

Shapes == [
  nestedLoops   |-> <<Alu, CBranch(7), CBranch(6), CBranch(6), Branch(3), Branch(2), EndPgm>>,
  breakOuter    |-> <<Alu, CBranch(7), CBranch(6), CBranch(7), Branch(3), Branch(2), EndPgm>>,
  breakPastTail |-> <<Alu, CBranch(8), CBranch(7), CBranch(6), Branch(3), Branch(8), Branch(2), EndPgm>>,
  twoLoops      |-> <<Alu, CBranch(4), Branch(2), CBranch(6), Branch(4), EndPgm>>,
  loopInThen    |-> <<CBranch(5), CBranch(4), Branch(2), Branch(6), Alu, EndPgm>>,
  switch        |-> <<CBranch(4), CBranch(5), Branch(6), Branch(6), Alu, EndPgm>>,
  loopInEach    |-> <<CBranch(4), CBranch(2), Branch(5), CBranch(4), EndPgm>>,
  nestedIfs     |-> <<CBranch(7), CBranch(6), CBranch(5), Branch(8), Branch(8), Branch(8), Alu, EndPgm>>,
  ifInLoop      |-> <<Alu, CBranch(8), CBranch(5), Branch(6), Alu, CBranch(8), Branch(2), EndPgm>> ]

AllShapes == {Shapes[s] : s \in DOMAIN Shapes}

Member(p) == Understood(GenerateCfg(p))

MCPrograms ==
  {p \in Programs3 \cup Programs4 \cup AllShapes : Member(p)}
    \cup IF Blocks5 THEN {p \in Programs5(Loops) : Member(p)} ELSE {}

(* Any shader of four blocks, whatever its loops.                          *)
AnyPrograms == {p \in Programs3 \cup Programs4 : Reducible(GenerateCfg(p))}

(***************************************************************************)
(* The three situations in which the algorithm goes wrong.                 *)
(***************************************************************************)
Moved == Head(gotos).branch

Moving == phase = "eliminate" /\ gotos # <<>> /\ Head(gotos).distance # 0

Nested == Moving /\ Kind(tokens, FindOuterScope(tokens, Moved).head) \notin LoopLike

Displaced ==
  /\ Moving
  /\ LET first == FindScopeEnd(tokens, Moved)
     IN  /\ Kind(tokens, Match(tokens, first)) \in Conditionals
         /\ Kind(tokens, NextNode(tokens, first)) \in Scopes

Unwraps(block) ==
  /\ Kind(tokens, block) = "Block"
  /\ LET if == NextNode(tokens, block)
     IN  /\ Kind(tokens, if) \in Conditionals
         /\ NextNode(tokens, EndOf(tokens, if)) = Match(tokens, block)
  /\ \E t \in ToSet(tokens.list) :
       Kind(tokens, t) = "Branch" /\ Match(tokens, t) = Match(tokens, block)

Unwrapped == phase = "removeRedundantBlocks" /\ \E b \in ToSet(tokens.list) : Unwraps(b)

(***************************************************************************)
(* The blocks of code: all of up to five instructions, with the branch     *)
(* that may end them.                                                      *)
(***************************************************************************)
Plain == {"scalar", "wait", "compare", "cmpx", "vector"}

MCCodes == UNION {[1..n -> Plain] : n \in 1..5}
             \cup {Append(c, "branch") : c \in UNION {[1..n -> Plain] : n \in 0..4}}

ASSUME BlocksOfCode == CodesAreBlocks

StackInit == Init /\ nested = FALSE /\ displaced = FALSE /\ unwrapped = FALSE

StackAtRest ==
  /\ cfg = <<>> /\ phase = "structured" /\ builder = [ts |-> EmptyList] /\ gotos = <<>>
  /\ grown = FALSE
  /\ nested = FALSE /\ displaced = FALSE /\ unwrapped = FALSE

DivergeAtRest ==
  /\ code = <<>> /\ i = 1 /\ open = 0 /\ group = <<>> /\ zs = <<>>
  /\ out = <<>> /\ done = TRUE

MCInit ==
  \/ pass = "stackifier" /\ StackInit /\ DivergeAtRest
  \/ pass = "divergent flow" /\ FlowInit /\ StackAtRest

(* A malformed list is not followed any further, nor is one in which a     *)
(* walk of the optimizer has lost its place.                               *)
Structurize ==
  /\ pass = "stackifier" /\ ~displaced /\ ~unwrapped
  /\ Next
  /\ nested' = (nested \/ Nested)
  /\ displaced' = (displaced \/ Displaced)
  /\ unwrapped' = (unwrapped \/ Unwrapped)
  /\ UNCHANGED <<pass, flowVars>>

SplitBlock == pass = "divergent flow" /\ FlowNext /\ UNCHANGED <<pass, stackVars>>

(* The places to stop at: with the deadlock check, every shader and every  *)
(* block gets there.                                                       *)
Finished ==
  /\ phase \in {"structured", "lost"} \/ displaced \/ unwrapped
  /\ done
  /\ UNCHANGED mcVars

MCNext == Structurize \/ SplitBlock \/ Finished

MCSpec == MCInit /\ [][MCNext]_mcVars

(* The lists the properties speak of: those of walks that kept their       *)
(* place.  The outer walk of the first nested one goes on with dangling    *)
(* references (GcnStackifier.cpp:546-547), and where it loses its place    *)
(* nothing is claimed.                                                     *)
WellFormed == pass = "stackifier" /\ phase # "lost" /\ ~displaced /\ ~unwrapped

(* As long as the walks keep their place, the token list of a shader whose *)
(* loops are understood is well formed after building and after every      *)
(* pass: heads and ends nest and every branch leaves or continues a scope  *)
(* it is in, as GcnTokenListVerifier (GcnStackifier.cpp:15-101) is         *)
(* asserted to find at lines 1314-1325.                                    *)
ListVerifies == WellFormed => VerifyHolds

(* As long as the walks keep their place, the list executes the blocks of  *)
(* such a shader in the order the graph does, for every outcome of every   *)
(* branch, after building, after each pass of the optimizer and after each *)
(* goto that is moved outward (GcnStackifier.cpp, structurize).            *)
RunsAsTheGraph == WellFormed => Equivalent

(* As long as the walks keep their place and no goto has to leave an If    *)
(* inside an If, such a shader is left without a branch that leaves more   *)
(* than the innermost loop or block, however many gotos it had and however *)
(* they were nested in each other's loops (GcnGotoEliminator::eliminate).  *)
GotosAreGone == WellFormed /\ ~nested => NoGotoLeft

(* So is it when a goto had to leave an If inside an If: eliminateGoto     *)
(* moves a goto until it is in range (GcnStackifier.cpp:1064-1082).        *)
EveryGotoIsGone == WellFormed => NoGotoLeft

(* GcnLoopInfo::findLoop returns the innermost loop a block lives in, and  *)
(* null for a block in none.                                               *)
InnermostLoopFound == pass = "stackifier" => LoopsExact(cfg)
=============================================================================
