--------------------------- MODULE GcnStackifier ---------------------------
(***************************************************************************)
(* The stackifier (Graphics/Gcn/ControlFlowGraph/GcnStackifier.cpp): from  *)
(* the control flow graph of a shader to a list of structured tokens.      *)
(* GcnTokenListBuilder lays the blocks out, GcnTokenListOptimizer tidies    *)
(* the list, GcnGotoEliminator leaves only breaks and continues of the     *)
(* innermost scope.                                                        *)
(***************************************************************************)
EXTENDS GcnControlFlowGraph, GcnTokenList, Functions, TLC

CONSTANT Programs  \* the shaders given to the compiler

VARIABLES
  cfg,      \* m_cfg, with its loops and dominators
  phase,    \* how far structurize() has come
  builder,  \* the members of GcnTokenListBuilder; builder.ts is the token list
  gotos,    \* what findGotos returned, from the one being moved on
  grown     \* whether m_iterStack has room for a walk inside a walk

vars == <<cfg, phase, builder, gotos, grown>>

tokens == builder.ts

(***************************************************************************)
(* GcnTokenListBuilder.                                                    *)
(***************************************************************************)
UniqueForwardPredecessor(v) ==
  LET preds == {u \in Predecessors(cfg, v) : ~(IsLoopHeader(cfg, v) /\ LoopContains(cfg, v, u))}
  IN  IF Cardinality(preds) = 1 THEN CHOOSE u \in preds : TRUE ELSE 0

IsBackedge(from, to) == IsLoopHeader(cfg, to) /\ LoopContains(cfg, to, from)

NumForwardPreds(v) == Cardinality({u \in Predecessors(cfg, v) : ~IsBackedge(u, v)})

Get(f, x, default) == IF x \in DOMAIN f THEN f[x] ELSE default

Put(f, x, e) == (x :> e) @@ f

(* The branch out of a scope that is not nested under its block.           *)
LeaveScope(b, scope) ==
  LET made == Create(b.ts, "Branch", Get(b.loopHeaders, scope.vertex, 0), "")
      branch == Latest(made)
  IN  [b EXCEPT
        !.ts = InsertAfter(made, b.insertPtr, branch),
        !.insertPtr = branch,
        !.blockScopes = Put(@, scope.vertex, Append(Get(@, scope.vertex, <<>>), branch))]

(* An unsigned count: once below zero it is as good as never reached.      *)
StaysOpen(b, scope, v) ==
  IF scope.kind = "Loop" THEN Get(b.loopCounts, cfg.loopOf[scope.vertex], 0) # 0
  ELSE scope.nested /\ Dominates(cfg, scope.vertex, v)

RECURSIVE PopScopes(_, _)
PopScopes(b, v) ==
  IF b.scopeStack = <<>> \/ StaysOpen(b, Last(b.scopeStack), v) THEN b
  ELSE LET scope == Last(b.scopeStack)
           left == IF scope.kind # "Loop" /\ ~scope.nested THEN LeaveScope(b, scope) ELSE b
       IN  PopScopes([left EXCEPT !.insertPtr = IF scope.endPtr # 0 THEN scope.endPtr ELSE @,
                                  !.scopeStack = Front(@)], v)

(* findBlockBegin: past every scope opened on the way, the outermost of    *)
(* those closed on the way takes the block before its head.                *)
RECURSIVE LastUnmatchedScope(_, _, _, _)
LastUnmatchedScope(ts, i, target, found) ==
  IF i = target \/ i > Len(ts.list) THEN found
  ELSE LET t == ts.list[i]
       IN  CASE Kind(ts, t) = "End"  -> LastUnmatchedScope(ts, i + 1, target, Match(ts, t))
             [] Kind(ts, t) = "Else" -> LastUnmatchedScope(ts, Place(ts, Match(ts, t)) + 1, target,
                                                           Match(ts, Match(ts, t)))
             [] Kind(ts, t) \in {"If", "Loop", "Block"} ->
                  LastUnmatchedScope(ts, Place(ts, EndOf(ts, t)) + 1, target, found)
             [] OTHER -> LastUnmatchedScope(ts, i + 1, target, found)

(* Fault: the block begins at the branch, inside the scopes it leaves.    *)
FindBlockBeginAtBranch(ts, target, candidate) == candidate

FindBlockBegin(ts, target, candidate) ==
  LET scope == LastUnmatchedScope(ts, Place(ts, candidate), Place(ts, target), 0)
  IN  IF scope = 0 THEN candidate ELSE scope

(* One block for a branch: its end right behind `where`.                   *)
InstantiateBlock(ts, where, branch) ==
  LET head == Create(ts, "Block", 0, "")
      block == Latest(head)
      ended == CreateEnd(head, block)
      end == Latest(ended)
      placed == InsertAfter(SetMatch(ended, branch, end), where, end)
  IN  Insert(placed, FindBlockBegin(placed, end, branch), block)

(* Every later end goes in front of the earlier ones, so the end of the    *)
(* first branch is the last one, where the code goes on.                   *)
ProcessBlockScopes(b, v) ==
  LET branches == Get(b.blockScopes, v, <<>>)
      ts == FoldLeft(LAMBDA acc, branch : InstantiateBlock(acc, b.insertPtr, branch), b.ts, branches)
  IN  IF branches = <<>> THEN b
      ELSE [b EXCEPT !.ts = ts,
                     !.insertPtr = Match(ts, branches[1]),
                     !.blockScopes = Restrict(@, DOMAIN @ \ {v})]

OpenLoop(b, v) ==
  LET head == Create(b.ts, "Loop", 0, "")
      loop == Latest(head)
      ended == CreateEnd(head, loop)
      l == cfg.loopOf[v]
  IN  [b EXCEPT
        !.ts = InsertAfter(InsertAfter(ended, b.insertPtr, loop), loop, Latest(ended)),
        !.insertPtr = loop,
        !.scopeStack = Append(@, [kind |-> "Loop", vertex |-> v,
                                  endPtr |-> Latest(ended), nested |-> TRUE]),
        !.loopCounts = @ @@ (l :> Len(cfg.loops[l].vertices)),
        !.loopHeaders = Put(@, v, loop)]

(* A loop that is complete is one vertex of its parent.                    *)
RECURSIVE CountDown(_, _)
CountDown(counts, l) ==
  IF l \notin DOMAIN counts THEN counts
  ELSE LET less == [counts EXCEPT ![l] = @ - 1]
       IN  IF less[l] = 0 THEN CountDown(less, cfg.loops[l].parent) ELSE less

ProcessLoopScopes(b, v) ==
  LET l == cfg.loopOf[v]
      opened == IF IsLoopHeader(cfg, v) THEN OpenLoop(b, v) ELSE b
  IN  IF l = 0 THEN b ELSE [opened EXCEPT !.loopCounts = CountDown(@, l)]

EmitCode(b, v) ==
  LET made == Create(b.ts, "Code", 0, v)
  IN  [b EXCEPT !.ts = InsertAfter(made, b.insertPtr, Latest(made)), !.insertPtr = Latest(made)]

ScopeTo(kind, v, succ, endPtr) ==
  [kind |-> kind, vertex |-> succ, endPtr |-> endPtr, nested |-> v = UniqueForwardPredecessor(succ)]

EmitConditional(b, v) ==
  LET made == Create(b.ts, "If", 0, <<"block", v>>)
      if == Latest(made)
      withElse == CreateElse(made, if)
      else == Latest(withElse)
      withEnd == CreateIfEnd(withElse, if, else)
      end == Latest(withEnd)
      placed == InsertAfter(InsertAfter(InsertAfter(withEnd, b.insertPtr, if), if, else), else, end)
  IN  [b EXCEPT !.ts = placed,
                !.insertPtr = if,
                !.scopeStack = @ \o << ScopeTo("If", v, cfg.succ[v][2], end),
                                       ScopeTo("If", v, cfg.succ[v][1], else) >>]

ProcessCodeTerminator(b, v) ==
  CASE Len(cfg.succ[v]) = 0 -> b
    [] Len(cfg.succ[v]) = 1 -> [b EXCEPT !.scopeStack =
                                  Append(@, ScopeTo("Direct", v, cfg.succ[v][1], 0))]
    [] Len(cfg.succ[v]) = 2 -> EmitConditional(b, v)

EnqueueSuccessor(b, v, succ) ==
  LET visited == Get(b.visitedCounts, succ, 0) + 1
      counted == [b EXCEPT !.visitedCounts = Put(@, succ, visited)]
      idom == ImmDominator(cfg, succ)
  IN  CASE IsBackedge(v, succ) -> b
        [] ~IsBackedge(v, succ) /\ visited # NumForwardPreds(succ) -> counted
        [] OTHER ->
             IF UniqueForwardPredecessor(succ) # 0
             THEN [counted EXCEPT !.visitStack = Append(@, <<"Immediate", succ>>)]
             ELSE [counted EXCEPT !.delayedQueues =
                     Put(@, idom, Append(Get(@, idom, <<>>), succ))]

ProcessVertex(b, v) ==
  LET popped == PopScopes(b, v)
      blocks == ProcessBlockScopes(popped, v)
      loops == ProcessLoopScopes(blocks, v)
      coded == EmitCode(loops, v)
      delayed == [coded EXCEPT !.visitStack = Append(@, <<"Delayed", v>>)]
      left == ProcessCodeTerminator(delayed, v)
  IN  FoldLeft(LAMBDA acc, succ : EnqueueSuccessor(acc, v, succ), left, Reverse(cfg.succ[v]))

InitBuilder ==
  [ts |-> EmptyList, insertPtr |-> 0,
   visitStack |-> <<<<"Delayed", Entry>>, <<"Immediate", Entry>>>>,
   visitedCounts |-> <<>>, delayedQueues |-> <<>>, loopCounts |-> <<>>,
   loopHeaders |-> <<>>, blockScopes |-> <<>>, scopeStack |-> <<>>]

(***************************************************************************)
(* GcnTokenListOptimizer.  Every pass is a walk over the list (for_each_kind) *)
(* that looks at the tokens of some kinds.  When the callback erases the    *)
(* token it was called for, the walk goes on with the one behind it.       *)
(***************************************************************************)
EraseBoth(ts, t, u) == Erase(Erase(ts, t), u)

(* The loops that open directly behind another one.                        *)
ExtraLoops(ts, loop) ==
  LET from == Place(ts, loop) + 1
      past == CHOOSE i \in from..Len(ts.list) + 1 :
                /\ \A j \in from..(i - 1) : Kind(ts, ts.list[j]) = "Loop"
                /\ i > Len(ts.list) \/ Kind(ts, ts.list[i]) # "Loop"
  IN  SubSeq(ts.list, from, past - 1)

RemoveRedundantLoops(ts, loop) ==
  LET extra == ExtraLoops(ts, loop)
      first == Place(ts, loop) + Len(extra) + 1
      searchEnd == Place(ts, Match(ts, NextNode(ts, loop)))
      Retarget(acc, t) == IF Kind(ts, t) = "Branch" /\ Match(ts, t) \in ToSet(extra)
                          THEN SetMatch(acc, t, loop) ELSE acc
      aimed == FoldLeft(Retarget, ts, SubSeq(ts.list, first, searchEnd - 1))
  IN  IF extra = <<>> THEN ts
      ELSE FoldLeft(LAMBDA acc, t : EraseBoth(acc, Match(acc, t), t), aimed, extra)

RemoveEmptyIfs(ts, t) ==
  LET prev == PrevNode(ts, t)
      end == Match(ts, t)
      made == Create(ts, "IfNot", end, Arg(ts, prev))
      ifNot == Latest(made)
  IN  CASE prev = 0 -> ts
        [] prev # 0 /\ Match(ts, prev) # t -> ts
        [] prev # 0 /\ Match(ts, prev) = t /\ Kind(ts, prev) \in Conditionals ->
             IF Kind(ts, t) = "Else"
             THEN EraseBoth(InsertAfter(SetMatch(made, end, ifNot), prev, ifNot), prev, t)
             ELSE EraseBoth(ts, prev, t)
        [] prev # 0 /\ Match(ts, prev) = t /\ Kind(ts, prev) = "Else" ->
             Erase(SetMatch(ts, Match(ts, t), t), prev)
        [] OTHER -> ts

(* The outermost block that ends where the branch's own block ends.        *)
RECURSIVE OutermostEnd(_, _)
OutermostEnd(ts, end) ==
  LET next == NextNode(ts, end)
  IN  IF next # 0 /\ Kind(ts, next) = "End" /\ Kind(ts, Match(ts, next)) = "Block"
      THEN OutermostEnd(ts, next) ELSE end

MergeBlocks(ts, branch) ==
  LET oldEnd == Match(ts, branch)
      newEnd == OutermostEnd(ts, oldEnd)
  IN  IF /\ Kind(ts, oldEnd) = "End"
         /\ Kind(ts, Match(ts, oldEnd)) = "Block"
         /\ newEnd # oldEnd
      THEN EraseBoth(SetMatch(ts, branch, newEnd), Match(ts, oldEnd), oldEnd)
      ELSE ts

IsSinkToken(t) == cfg.succ[Arg(tokens, t)] = <<>>

CanFallThrough(ts, t) ==
  LET last == PrevNode(ts, Match(ts, t))
  IN  /\ last # t
      /\ Kind(ts, last) # "Branch"
      /\ Kind(ts, last) = "Code" => ~IsSinkToken(last)

IsBranchIf(ts, t) ==
  /\ Kind(ts, NextNode(ts, t)) = "Branch"
  /\ NextNode(ts, NextNode(ts, t)) = Match(ts, t)

(* if (c) { a } else { b }  becomes  if (c) { a } b                        *)
RemoveElse(ts, if, else, end) ==
  LET made == CreateEnd(ts, if)
  IN  EraseBoth(Insert(made, else, Latest(made)), else, end)

(* Fault: the two sides change places, the condition stays.               *)
RemoveIfSameCondition(ts, if, else, end) ==
  LET moved == MoveAfter(ts, end, NextNode(ts, if), else)
      made == Create(moved, "If", end, Arg(ts, if))
      placed == Insert(SetMatch(made, end, Latest(made)), else, Latest(made))
  IN  EraseBoth(placed, if, else)

(* if (c) { a } else { b }  becomes  if (!c) { b } a                       *)
RemoveIf(ts, if, else, end) ==
  LET moved == MoveAfter(ts, end, NextNode(ts, if), else)
      made == Create(moved, "IfNot", end, Arg(ts, if))
      placed == Insert(SetMatch(made, end, Latest(made)), else, Latest(made))
  IN  EraseBoth(placed, if, else)

RemoveRedundantNesting(ts, end) ==
  LET if == Match(ts, end)
      else == Match(ts, if)
      elseIsCandidate == ~CanFallThrough(ts, if)
      ifIsCandidate == ~CanFallThrough(ts, else)
  IN  IF Kind(ts, if) # "If" \/ Kind(ts, else) # "Else" THEN ts
      ELSE IF ifIsCandidate /\ (elseIsCandidate => ~IsBranchIf(ts, if) /\ IsBranchIf(ts, else))
      THEN RemoveIf(ts, if, else, end)
      ELSE IF elseIsCandidate THEN RemoveElse(ts, if, else, end)
      ELSE ts

(* From the loop's end back to its last continue: the end of the last      *)
(* scope passed whole is as far as the loop needs to reach.                *)
RECURSIVE LastZeroDepth(_, _, _, _, _)
LastZeroDepth(ts, loop, cur, depth, found) ==
  IF \/ cur = loop
     \/ Kind(ts, cur) = "Branch" /\ Match(ts, cur) = loop
  THEN found
  ELSE LET prev == PrevNode(ts, cur)
       IN  CASE Kind(ts, cur) \in Scopes -> LastZeroDepth(ts, loop, prev, depth - 1, found)
             [] Kind(ts, cur) = "End" -> LastZeroDepth(ts, loop, prev, depth + 1,
                                                       IF depth = 0 THEN cur ELSE found)
             [] OTHER -> LastZeroDepth(ts, loop, prev, depth, found)

AdjustLoopEnds(ts, loop) ==
  LET end == Match(ts, loop)
      last == LastZeroDepth(ts, loop, PrevNode(ts, end), 0, 0)
  IN  IF last = 0 \/ last = PrevNode(ts, end) THEN ts
      ELSE [ts EXCEPT !.list = LET without == Remove(@, end)
                                   i == SelectInSeq(without, LAMBDA t : t = last)
                               IN  InsertAt(without, i + 1, end)]

(* The end of a block that holds one scope and nothing else.               *)
Redundant(ts, end) ==
  LET block == Match(ts, end)
      inner == NextNode(ts, block)
  IN  /\ Kind(ts, block) = "Block"
      /\ Kind(ts, inner) \in Scopes
      /\ NextNode(ts, EndOf(ts, inner)) = end

RemoveRedundantBlocks(ts, end) ==
  LET block == Match(ts, end)
      inner == NextNode(ts, block)
      Retarget(acc, t) == IF /\ Kind(ts, t) = "Branch"
                             /\ Match(ts, t) = end
                             /\ Kind(ts, inner) \notin Conditionals
                          THEN SetMatch(acc, t, EndOf(ts, inner)) ELSE acc
      aimed == FoldLeft(Retarget, ts, SubSeq(ts.list, Place(ts, block), Place(ts, end) - 1))
  IN  IF Redundant(ts, end) THEN EraseBoth(aimed, block, end) ELSE ts

Passes == << "removeRedundantLoops", "removeEmptyIfs", "mergeBlocks",
             "removeRedundantNesting", "adjustLoopEnds", "removeRedundantBlocks" >>

Callback(pass, ts, t) ==
  CASE pass = "removeRedundantLoops" /\ Kind(ts, t) = "Loop"   -> RemoveRedundantLoops(ts, t)
    [] pass = "removeEmptyIfs" /\ Kind(ts, t) \in {"Else", "End"} -> RemoveEmptyIfs(ts, t)
    [] pass = "mergeBlocks" /\ Kind(ts, t) = "Branch"          -> MergeBlocks(ts, t)
    [] pass = "removeRedundantNesting" /\ Kind(ts, t) = "End"  -> RemoveRedundantNesting(ts, t)
    [] pass = "adjustLoopEnds" /\ Kind(ts, t) = "Loop"         -> AdjustLoopEnds(ts, t)
    [] pass = "removeRedundantBlocks" /\ Kind(ts, t) = "End"   -> RemoveRedundantBlocks(ts, t)
    [] OTHER -> ts

NextInWalk(before, after, t) ==
  LET behind == SelectSeq(SubSeq(before.list, Place(before, t) + 1, Len(before.list)),
                          LAMBDA u : Place(after, u) # 0)
  IN  IF Place(after, t) # 0 THEN NextNode(after, t)
      ELSE IF behind = <<>> THEN 0 ELSE Head(behind)

(* The callbacks that walk the list themselves, for its branches.          *)
NestsWalk(pass, ts, t) ==
  \/ pass = "removeRedundantLoops" /\ Kind(ts, t) = "Loop" /\ ExtraLoops(ts, t) # <<>>
  \/ pass = "removeRedundantBlocks" /\ Kind(ts, t) = "End" /\ Redundant(ts, t)

(* A walk that has come to token t, 0 at the end: the list, and whether    *)
(* another walk was nested in it.                                          *)
WalkOn(pass, walk, after) ==
  [ts |-> after, nests |-> walk.nests \/ NestsWalk(pass, walk.ts, walk.t),
   t |-> NextInWalk(walk.ts, after, walk.t)]

RECURSIVE ForEachKind(_, _)
ForEachKind(pass, walk) ==
  IF walk.t = 0 THEN walk
  ELSE ForEachKind(pass, WalkOn(pass, walk, Callback(pass, walk.ts, walk.t)))

(***************************************************************************)
(* GcnGotoEliminator.                                                      *)
(***************************************************************************)
LoopLike == {"Loop", "Block"}

Target(ts, branch) ==
  IF Kind(ts, Match(ts, branch)) = "End" THEN Match(ts, Match(ts, branch)) ELSE Match(ts, branch)

(* How many of the open loops and blocks lie between a branch and the one  *)
(* it leaves or continues.                                                 *)
LevelDistance(ts, open, branch) ==
  LET level == SelectInSeq(Reverse(open), LAMBDA t : t = Target(ts, branch))
  IN  IF level = 0 THEN Len(open) ELSE level - 1

FindGotosStep(ts, acc, t) ==
  CASE Kind(ts, t) \in LoopLike -> [acc EXCEPT !.open = Append(@, t)]
    [] Kind(ts, t) = "End" -> IF Kind(ts, Match(ts, t)) \in LoopLike
                              THEN [acc EXCEPT !.open = Front(@)] ELSE acc
    [] Kind(ts, t) = "Branch" -> IF LevelDistance(ts, acc.open, t) = 0 THEN acc
                                 ELSE [acc EXCEPT !.found = Append(@,
                                   [branch |-> t, distance |-> LevelDistance(ts, acc.open, t)])]
    [] OTHER -> acc

FindGotos(ts) ==
  FoldLeft(LAMBDA acc, t : FindGotosStep(ts, acc, t), [open |-> <<>>, found |-> <<>>], ts.list).found

InRange(ts, first, last, t) == Place(ts, t) \in Place(ts, first)..Place(ts, last)

(* The first End from `target` on whose scope holds it; a head's own scope *)
(* counts.                                                                 *)
FindScopeEnd(ts, target) ==
  ts.list[CHOOSE i \in Place(ts, target)..Len(ts.list) :
    LET IsEndOf(t) == Kind(ts, t) = "End" /\ InRange(ts, Match(ts, t), t, target)
    IN  /\ IsEndOf(ts.list[i])
        /\ \A j \in Place(ts, target)..(i - 1) : ~IsEndOf(ts.list[j])]

(* Of an If with an Else, the side the goto is in.                         *)
SideOf(ts, goto, end) ==
  LET head == Match(ts, end)
      else == Match(ts, head)
  IN  IF Kind(ts, else) # "Else" THEN [head |-> head, end |-> end]
      ELSE IF InRange(ts, head, else, goto) THEN [head |-> head, end |-> else]
      ELSE [head |-> else, end |-> end]

(* An If around the goto alone is its condition, not a scope to leave.     *)
FindOuterScope(ts, goto) ==
  LET first == FindScopeEnd(ts, goto)
  IN  SideOf(ts, goto, IF Kind(ts, Match(ts, first)) \in Conditionals
                       THEN FindScopeEnd(ts, NextNode(ts, first)) ELSE first)

(* The goto becomes: var; var := true, then `rest`, tokens made already.   *)
ReplaceGoto(ts, goto, var, setValue, rest) ==
  LET placed == InsertAfter(Insert(ts, goto, var), var, setValue)
  IN  Erase(IF rest = 0 THEN placed ELSE InsertAfter(placed, setValue, rest), goto)

(* Behind `where`: if (var) { var := false; goto }.  The goto is Latest.   *)
GotoBehind(ts, where, var, label) ==
  LET head == Create(ts, "If", 0, <<"eq", var>>)
      if == Latest(head)
      ended == CreateEnd(head, if)
      reset == Create(ended, "SetValue", var, FALSE)
      made == Create(reset, "Branch", label, "")
      Chain(acc, t) == [ts |-> InsertAfter(acc.ts, acc.last, t), last |-> t]
  IN  FoldLeft(Chain, [ts |-> made, last |-> where],
               <<if, Latest(reset), Latest(made), Latest(ended)>>).ts

CreateFlag(ts) == Create(Create(ts, "Variable", 0, ""), "SetValue", Latest(ts) + 1, TRUE)

MoveOutwardIf(ts, goto, scope) ==
  LET gotoEnd == FindScopeEnd(ts, goto)
      flag == CreateFlag(ts)
      var == Latest(flag) - 1
      set == ReplaceGoto(flag, goto, var, Latest(flag), 0)
      guard == Create(set, "If", 0, <<"ne", var>>)
      guarded == CreateEnd(guard, Latest(guard))
      bracket == Insert(InsertAfter(guarded, gotoEnd, Latest(guard)), scope.end, Latest(guarded))
  IN  GotoBehind(bracket, FindScopeEnd(bracket, scope.head), var, Match(ts, goto))

MoveOutwardLoop(ts, goto, scope) ==
  LET flag == CreateFlag(ts)
      var == Latest(flag) - 1
      out == Create(flag, "Branch", scope.end, "")
  IN  GotoBehind(ReplaceGoto(out, goto, var, Latest(flag), Latest(out)),
                 scope.end, var, Match(ts, goto))

MoveOutOf(ts, goto, scope) ==
  IF Kind(ts, scope.head) \in LoopLike THEN MoveOutwardLoop(ts, goto, scope)
  ELSE MoveOutwardIf(ts, goto, scope)

MoveOutward(ts, goto) == MoveOutOf(ts, goto, FindOuterScope(ts, goto))

(***************************************************************************)
(* structurize().                                                          *)
(***************************************************************************)
Init ==
  /\ \E program \in Programs : cfg = GenerateCfg(program)
  /\ phase = "build"
  /\ builder = InitBuilder
  /\ gotos = <<>>
  /\ grown = FALSE

Top == Last(builder.visitStack)

Popped == [builder EXCEPT !.visitStack = Front(@)]

VisitImmediate ==
  /\ phase = "build" /\ builder.visitStack # <<>>
  /\ Top[1] = "Immediate"
  /\ builder' = ProcessVertex(Popped, Top[2])
  /\ UNCHANGED <<cfg, phase, gotos, grown>>

VisitDelayed ==
  /\ phase = "build" /\ builder.visitStack # <<>>
  /\ Top[1] = "Delayed"
  /\ Get(builder.delayedQueues, Top[2], <<>>) # <<>>
  /\ LET queue == builder.delayedQueues[Top[2]]
     IN  builder' = ProcessVertex([builder EXCEPT !.delayedQueues[Top[2]] = Front(queue)],
                                  Last(queue))
  /\ UNCHANGED <<cfg, phase, gotos, grown>>

DropDelayed ==
  /\ phase = "build" /\ builder.visitStack # <<>>
  /\ Top[1] = "Delayed"
  /\ Get(builder.delayedQueues, Top[2], <<>>) = <<>>
  /\ builder' = Popped
  /\ UNCHANGED <<cfg, phase, gotos, grown>>

FinishBuild ==
  /\ phase = "build"
  /\ builder.visitStack = <<>>
  /\ builder' = PopScopes(builder, Entry)
  /\ phase' = Passes[1]
  /\ UNCHANGED <<cfg, gotos, grown>>

(* for_each_kind keeps references into m_iterStack and m_removeFlagStack.  *)
(* The first nested walk makes both vectors move, and the outer walk goes  *)
(* on with references to freed memory: it may keep its place or lose it,   *)
(* and of a list walked from any other place nothing can be said.  The     *)
(* vectors keep their capacity for the passes that follow.                 *)
Optimize ==
  \E i \in DOMAIN Passes :
    /\ phase = Passes[i]
    /\ \E walk \in {ForEachKind(phase, [ts |-> tokens, nests |-> FALSE, t |-> Head(tokens.list)])} :
         /\ builder' = [builder EXCEPT !.ts = walk.ts]
         /\ grown' = (grown \/ walk.nests)
         /\ \/ phase' = IF i = Len(Passes) THEN "optimized" ELSE Passes[i + 1]
            \/ walk.nests /\ ~grown /\ phase' = "lost"
    /\ UNCHANGED <<cfg, gotos>>

CollectGotos ==
  /\ phase = "optimized"
  /\ gotos' = FindGotos(tokens)
  /\ phase' = "eliminate"
  /\ UNCHANGED <<cfg, builder, grown>>

(* Fault: a goto is moved once, not until it is in range.                 *)
EliminateGotoOnce ==
  /\ phase = "eliminate" /\ gotos # <<>>
  /\ Head(gotos).distance # 0
  /\ builder' = [builder EXCEPT !.ts = MoveOutward(@, Head(gotos).branch)]
  /\ gotos' = Tail(gotos)
  /\ UNCHANGED <<cfg, phase, grown>>

EliminateGoto ==
  /\ phase = "eliminate" /\ gotos # <<>>
  /\ Head(gotos).distance # 0
  /\ \E moved \in {MoveOutward(tokens, Head(gotos).branch)} :
       /\ builder' = [builder EXCEPT !.ts = moved]
       /\ gotos' = [gotos EXCEPT ![1] = [branch |-> Latest(moved), distance |-> @.distance - 1]]
  /\ UNCHANGED <<cfg, phase, grown>>

NextGoto ==
  /\ phase = "eliminate"
  /\ IF gotos = <<>> THEN phase' = "structured" /\ UNCHANGED gotos
     ELSE Head(gotos).distance = 0 /\ gotos' = Tail(gotos) /\ UNCHANGED phase
  /\ UNCHANGED <<cfg, builder, grown>>

Next ==
  \/ VisitImmediate \/ VisitDelayed \/ DropDelayed \/ FinishBuild
  \/ Optimize
  \/ CollectGotos \/ EliminateGoto \/ NextGoto

Spec == Init /\ [][Next]_vars /\ WF_vars(Next)

(***************************************************************************)
(* Properties.                                                             *)
(***************************************************************************)
Built == phase \notin {"build", "lost"}

VerifyHolds == Built => Verify(tokens)

Equivalent == Built => SameAsGraph(tokens, cfg)

NoGotoLeft == phase = "structured" => FindGotos(tokens) = <<>>
=============================================================================
