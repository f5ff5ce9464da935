------------------------ MODULE GcnControlFlowGraph ------------------------
(***************************************************************************)
(* What the shader compiler learns of a GCN program before it rewrites it: *)
(* basic blocks and their terminators (GcnControlFlowGraph.cpp), dominators *)
(* (GcnDominatorTree.cpp), loops (GcnLoopInfo.cpp) and reducibility         *)
(* (GcnStackifier.cpp, isIrreducible).                                     *)
(*                                                                         *)
(* A program is a sequence of instructions [op, to], each one long; op is  *)
(* "alu", "branch", "cbranch" or "endpgm" and `to` is a branch's target.   *)
(* A block is named by the position of its first instruction, so the entry *)
(* block is 1.                                                             *)
(***************************************************************************)
EXTENDS Integers, Sequences, SequencesExt, FiniteSetsExt

Entry == 1

(***************************************************************************)
(* Blocks: a label starts one.  No label follows an unconditional branch.  *)
(***************************************************************************)
Labels(program) ==
  {Entry}
    \cup {program[i].to : i \in {j \in DOMAIN program : program[j].op \in {"branch", "cbranch"}}}
    \cup {i + 1 : i \in {j \in DOMAIN program : program[j].op \in {"cbranch", "endpgm"}}}

Blocks(program) == Labels(program) \cap DOMAIN program

PcEnd(program, v) == Min({l \in Blocks(program) \cup {Len(program) + 1} : l > v})

(* successors[0] is the true label and successors[1] the false label,      *)
(* whatever order the adjacency list keeps them in.                        *)
Successors(program, v) ==
  LET next == PcEnd(program, v)
      last == program[next - 1]
  IN  CASE last.op = "branch"  -> <<last.to>>
        [] last.op = "cbranch" -> <<last.to, next>>
        [] last.op = "endpgm"  -> <<>>
        [] OTHER               -> <<next>>

(* The out edges live in a hash set, and boost's links a new node in front: *)
(* a walk meets the false label first.                                     *)
OutEdges(cfg, v) == Reverse(cfg.succ[v])

Predecessors(cfg, v) == {u \in cfg.blocks : v \in ToSet(cfg.succ[u])}

(***************************************************************************)
(* Dominators.                                                             *)
(***************************************************************************)
RECURSIVE ReachFrom(_, _, _)
ReachFrom(cfg, seen, without) ==
  LET next == seen \cup ((UNION {ToSet(cfg.succ[u]) : u \in seen}) \ without)
  IN  IF next = seen THEN seen ELSE ReachFrom(cfg, next, without)

Dominators(cfg, v) ==
  {u \in cfg.blocks : u = v \/ u = Entry \/ v \notin ReachFrom(cfg, {Entry}, {u})}

Dominates(cfg, u, v) == u \in cfg.dom[v]

(* Of the strict dominators, the one all the others dominate; 0, the null  *)
(* vertex, for the entry.                                                  *)
ImmDominator(cfg, v) ==
  LET strict == cfg.dom[v] \ {v}
  IN  IF v = Entry THEN 0 ELSE CHOOSE u \in strict : strict \subseteq cfg.dom[u]

(***************************************************************************)
(* Loops.  Two depth-first walks: the first collects the targets of the    *)
(* back edges, the second opens a loop at each of them, files every block   *)
(* it discovers under the loop on top of the stack, and closes that loop at *)
(* a back edge.  A self loop never stays on the stack.  `broken` tells that *)
(* the stack did not hold the loop the back edge closes: the assertion of   *)
(* back_edge fails, or an empty vector is popped.                          *)
(***************************************************************************)
NewLoop(v, parent) == [vertices |-> <<v>>, parent |-> parent, children |-> <<>>]

SelfLoop(cfg, v) == v \in ToSet(cfg.succ[v])

DiscoverVertex(cfg, d, v) ==
  LET top == IF d.stack = <<>> THEN 0 ELSE Last(d.stack)
      id == Len(d.loops) + 1
      filed == IF top = 0 THEN d.loops
               ELSE [d.loops EXCEPT ![top].vertices = Append(@, v)]
      opened == IF top = 0 THEN filed ELSE [filed EXCEPT ![top].children = Append(@, id)]
  IN  IF v \in d.headers
      THEN [d EXCEPT !.loops = Append(opened, NewLoop(v, top)),
                     !.stack = IF SelfLoop(cfg, v) THEN @ ELSE Append(@, id)]
      ELSE [d EXCEPT !.loops = filed]

BackEdge(cfg, d, v) ==
  LET matched == d.stack = <<>> \/ v = d.loops[Last(d.stack)].vertices[1]
      popped == IF SelfLoop(cfg, v) \/ d.stack = <<>> THEN d.stack ELSE Front(d.stack)
      empty == d.stack = <<>> /\ ~SelfLoop(cfg, v)
  IN  [d EXCEPT !.targets = @ \cup {v},
                !.stack = popped,
                !.broken = @ \/ ~matched \/ empty]

RECURSIVE VisitVertex(_, _, _), VisitEdges(_, _, _, _)
VisitVertex(cfg, d, v) ==
  LET found == DiscoverVertex(cfg, [d EXCEPT !.seen = @ \cup {v}, !.gray = @ \cup {v}], v)
      left == VisitEdges(cfg, found, v, OutEdges(cfg, v))
  IN  [left EXCEPT !.gray = @ \ {v}]

VisitEdges(cfg, d, v, edges) ==
  IF edges = <<>> THEN d
  ELSE LET w == Head(edges)
           step == CASE w \notin d.seen -> VisitVertex(cfg, d, w)
                     [] w \in d.gray    -> BackEdge(cfg, d, w)
                     [] OTHER           -> d
       IN  VisitEdges(cfg, step, v, Tail(edges))

DepthFirst(cfg, headers) ==
  VisitVertex(cfg, [seen |-> {}, gray |-> {}, loops |-> <<>>, stack |-> <<>>,
                    headers |-> headers, targets |-> {}, broken |-> FALSE], Entry)

FindLoopHeaders(cfg) == DepthFirst(cfg, {}).targets

DetectLoops(cfg) == DepthFirst(cfg, FindLoopHeaders(cfg))

HasVertex(loop, v) == v \in ToSet(loop.vertices)

RECURSIVE FindInnerLoop(_, _, _)
FindInnerLoop(loops, l, v) ==
  LET c == SelectInSeq(loops[l].children, LAMBDA child : HasVertex(loops[child], v))
  IN  IF c = 0 THEN l ELSE FindInnerLoop(loops, loops[l].children[c], v)

(* The loop vertex v is filed under, 0 for none.                           *)
FindLoop(loops, v) ==
  LET l == SelectInSeq(loops, LAMBDA loop : HasVertex(loop, v))
  IN  IF l = 0 THEN 0 ELSE FindInnerLoop(loops, l, v)

IsLoopHeader(cfg, v) == cfg.loopOf[v] # 0 /\ cfg.loops[cfg.loopOf[v]].vertices[1] = v

LoopContains(cfg, header, v) == HasVertex(cfg.loops[cfg.loopOf[header]], v)

(***************************************************************************)
(* Reducibility, as isIrreducible decides it: a strongly connected set     *)
(* that is entered at two places.                                          *)
(***************************************************************************)
Component(cfg, v) ==
  {u \in ReachFrom(cfg, {v}, {}) : v \in ReachFrom(cfg, {u}, {})}

IsMultiEntryLoop(cfg, scc) ==
  Cardinality({v \in scc : Predecessors(cfg, v) \ scc # {}}) > 1

IsIrreducible(cfg) ==
  \E v \in cfg.blocks : /\ Cardinality(Component(cfg, v)) > 1
                        /\ IsMultiEntryLoop(cfg, Component(cfg, v))

(***************************************************************************)
(* The graph with everything the builder asks of it.                       *)
(***************************************************************************)
GenerateCfg(program) ==
  LET blocks == Blocks(program)
      bare == [blocks |-> blocks, succ |-> [v \in blocks |-> Successors(program, v)]]
      found == DetectLoops(bare)
  IN  [blocks |-> blocks,
       succ   |-> bare.succ,
       dom    |-> [v \in blocks |-> Dominators(bare, v)],
       loops  |-> found.loops,
       loopOf |-> [v \in blocks |-> FindLoop(found.loops, v)],
       broken |-> found.broken]

(***************************************************************************)
(* The reference the loop information is compared with: natural loops.  A  *)
(* back edge leads to a dominator of its source, and the loop of a header   *)
(* is every block that reaches the source of one of its back edges without *)
(* passing the header.                                                     *)
(***************************************************************************)
BackSources(cfg, h) == {u \in Predecessors(cfg, h) : Dominates(cfg, h, u)}

NaturalLoop(cfg, h) ==
  {h} \cup {v \in cfg.blocks \ {h} :
              ReachFrom(cfg, {v}, {h}) \cap BackSources(cfg, h) # {}}

InnermostLoop(cfg, v) ==
  LET around == {h \in cfg.blocks : BackSources(cfg, h) # {} /\ v \in NaturalLoop(cfg, h)}
  IN  IF around = {} THEN 0
      ELSE CHOOSE h \in around : \A k \in around : NaturalLoop(cfg, h) \subseteq NaturalLoop(cfg, k)

LoopsExact(cfg) ==
  \A v \in cfg.blocks :
    InnermostLoop(cfg, v) = IF cfg.loopOf[v] = 0 THEN 0 ELSE cfg.loops[cfg.loopOf[v]].vertices[1]

Headers(cfg) == {h \in cfg.blocks : BackSources(cfg, h) # {}}

(* Without the edges to a dominator nothing is left to go round.           *)
Reducible(cfg) ==
  LET forward == [cfg EXCEPT !.succ =
        [v \in cfg.blocks |-> SelectSeq(@[v], LAMBDA w : ~Dominates(cfg, w, v))]]
  IN  \A v \in cfg.blocks : \A w \in ToSet(forward.succ[v]) :
        v \notin ReachFrom(forward, {w}, {})
=============================================================================
