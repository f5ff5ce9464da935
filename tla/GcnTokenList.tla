---------------------------- MODULE GcnTokenList ----------------------------
(***************************************************************************)
(* The token list the stackifier builds (GcnTokenList.h), the check it     *)
(* asserts of it (GcnTokenListVerifier) and, as the reference, the way a   *)
(* structured program made of such tokens runs.                            *)
(*                                                                         *)
(* A list is [node, list]: node[t] is token t, list the order of the       *)
(* tokens still in it.  A token is [kind, match, arg]; match 0 is the null *)
(* pointer.  arg is the block of a Code token, the condition of an If or   *)
(* IfNot (<<"block", v>>: the branch that ended block v is taken;          *)
(* <<"eq", x>>, <<"ne", x>>: variable x is, is not, true) and the value a  *)
(* SetValue stores into its match.                                         *)
(***************************************************************************)
EXTENDS Integers, Sequences, SequencesExt

EmptyList == [node |-> <<>>, list |-> <<>>]

Kind(ts, t) == ts.node[t].kind
Match(ts, t) == ts.node[t].match
Arg(ts, t) == ts.node[t].arg

Conditionals == {"If", "IfNot"}
Scopes == Conditionals \cup {"Loop", "Block"}

(***************************************************************************)
(* Tokens and their places.  Create only allocates; Latest is what the     *)
(* last Create returned.                                                   *)
(***************************************************************************)
Create(ts, kind, match, arg) ==
  [ts EXCEPT !.node = Append(@, [kind |-> kind, match |-> match, arg |-> arg])]

Latest(ts) == Len(ts.node)

SetMatch(ts, t, match) == [ts EXCEPT !.node[t].match = match]

Place(ts, t) == SelectInSeq(ts.list, LAMBDA u : u = t)

PrevNode(ts, t) == IF Place(ts, t) = 1 THEN 0 ELSE ts.list[Place(ts, t) - 1]

NextNode(ts, t) == IF Place(ts, t) = Len(ts.list) THEN 0 ELSE ts.list[Place(ts, t) + 1]

Insert(ts, where, t) == [ts EXCEPT !.list = InsertAt(@, Place(ts, where), t)]

(* Into an empty list at the begin, whatever `where` is.                   *)
InsertAfter(ts, where, t) ==
  [ts EXCEPT !.list = IF @ = <<>> THEN <<t>> ELSE InsertAt(@, Place(ts, where) + 1, t)]

Erase(ts, t) == [ts EXCEPT !.list = Remove(@, t)]

(* splice: the tokens from first up to, without, last go behind `where`.   *)
MoveAfter(ts, where, first, last) ==
  LET i == Place(ts, first)
      j == Place(ts, last)
      moved == SubSeq(ts.list, i, j - 1)
      rest == SubSeq(ts.list, 1, i - 1) \o SubSeq(ts.list, j, Len(ts.list))
      k == SelectInSeq(rest, LAMBDA u : u = where)
  IN  [ts EXCEPT !.list = SubSeq(rest, 1, k) \o moved \o SubSeq(rest, k + 1, Len(rest))]

(* A head and its end, matching each other.                                *)
CreateEnd(ts, head) ==
  LET made == Create(ts, "End", head, "")
  IN  SetMatch(made, head, Latest(made))

CreateElse(ts, if) ==
  LET made == Create(ts, "Else", 0, "")
  IN  SetMatch(made, if, Latest(made))

(* The end of an if with an else: the if keeps the else as its match.      *)
CreateIfEnd(ts, if, else) ==
  LET made == Create(ts, "End", if, "")
  IN  SetMatch(made, else, Latest(made))

(* The End of the scope a head opens, through the Else if there is one.    *)
EndOf(ts, head) ==
  IF Kind(ts, Match(ts, head)) = "Else" THEN Match(ts, Match(ts, head)) ELSE Match(ts, head)

(***************************************************************************)
(* GcnTokenListVerifier::verify.  open is the stack of the scopes; ok      *)
(* turns false at the first complaint.                                     *)
(***************************************************************************)
VerifyToken(ts, open, t) ==
  LET top == Last(open)
      m == Match(ts, t)
  IN  CASE Kind(ts, t) \in Scopes -> [ok |-> TRUE, open |-> Append(open, t)]
        [] Kind(ts, t) = "Else" ->
             [ok |-> /\ open # <<>>
                     /\ Kind(ts, m) = "End"
                     /\ Kind(ts, Match(ts, m)) = "If"
                     /\ Match(ts, top) = t,
              open |-> open]
        [] Kind(ts, t) = "End" ->
             IF open # <<>> /\ top = m
             THEN [ok |-> TRUE, open |-> Front(open)]
             ELSE [ok |-> FALSE, open |-> open]
        [] Kind(ts, t) = "Branch" ->
             [ok |-> /\ m # 0
                     /\ (IF Kind(ts, m) = "End" THEN Match(ts, m) ELSE m) \in ToSet(open),
              open |-> open]
        [] OTHER -> [ok |-> TRUE, open |-> open]

Verify(ts) ==
  FoldLeft(LAMBDA acc, t : IF acc.ok THEN VerifyToken(ts, acc.open, t) ELSE acc,
           [ok |-> TRUE, open |-> <<>>], ts.list).ok

(***************************************************************************)
(* The reference: what a token list does.  From place i, with the set of   *)
(* variables that are true, having left block `last` with its branch taken *)
(* or not, Run walks to the next Code token.  Result: [at, vars], at being *)
(* its place, 0 when the program ended and -1 when the walk got lost: a    *)
(* condition of a block that was not the last one, a branch without a      *)
(* target in the list, or more steps than there are places and values.     *)
(***************************************************************************)
Holds(ts, t, vars, last, taken) ==
  CASE Arg(ts, t)[1] = "eq" -> Arg(ts, t)[2] \in vars
    [] Arg(ts, t)[1] = "ne" -> Arg(ts, t)[2] \notin vars
    [] OTHER                -> taken

Lost(ts, t, last) ==
  \/ /\ Kind(ts, t) \in Conditionals
     /\ Arg(ts, t)[1] = "block"
     /\ Arg(ts, t)[2] # last
  \/ /\ Kind(ts, t) = "Branch"
     /\ Match(ts, t) = 0 \/ Place(ts, Match(ts, t)) = 0

NextPlace(ts, i, vars, last, taken) ==
  LET t == ts.list[i]
      m == Match(ts, t)
      true == Holds(ts, t, vars, last, taken) = (Kind(ts, t) = "If")
  IN  CASE Kind(ts, t) \in Conditionals -> IF true THEN i + 1 ELSE Place(ts, m) + 1
        [] Kind(ts, t) = "Else"         -> Place(ts, m) + 1
        [] Kind(ts, t) = "Branch"       -> Place(ts, m) + 1
        [] OTHER                        -> i + 1

NextVars(ts, t, vars) ==
  IF Kind(ts, t) # "SetValue" THEN vars
  ELSE IF Arg(ts, t) THEN vars \cup {Match(ts, t)} ELSE vars \ {Match(ts, t)}

RECURSIVE Run(_, _, _, _, _, _)
Run(ts, i, vars, last, taken, fuel) ==
  IF i > Len(ts.list) THEN [at |-> 0, vars |-> vars]
  ELSE IF fuel = 0 \/ Lost(ts, ts.list[i], last) THEN [at |-> -1, vars |-> vars]
  ELSE IF Kind(ts, ts.list[i]) = "Code" THEN [at |-> i, vars |-> vars]
  ELSE Run(ts, NextPlace(ts, i, vars, last, taken), NextVars(ts, ts.list[i], vars),
           last, taken, fuel - 1)

RunFrom(ts, i, vars, last, taken) == Run(ts, i, vars, last, taken, 4 * Len(ts.list) + 4)

(* The token list executes the blocks in the order the graph does: from    *)
(* every Code token it can reach, each outcome of the block's branch leads *)
(* to the Code token of the graph's successor for that outcome.            *)
SuccessorFor(cfg, v, taken) == IF taken THEN cfg.succ[v][1] ELSE Last(cfg.succ[v])

RECURSIVE Follows(_, _, _, _)
Follows(ts, cfg, todo, done) ==
  IF todo = {} THEN TRUE
  ELSE LET s == CHOOSE x \in todo : TRUE
           v == Arg(ts, ts.list[s.at])
           next == IF cfg.succ[v] = <<>> THEN {}
                   ELSE {<<b, RunFrom(ts, s.at + 1, s.vars, v, b)>> : b \in BOOLEAN}
           ok == \A n \in next : /\ n[2].at > 0
                                 /\ Arg(ts, ts.list[n[2].at]) = SuccessorFor(cfg, v, n[1])
       IN  /\ ok
           /\ LET seen == done \cup {s}
              IN  Follows(ts, cfg, (todo \cup {n[2] : n \in next}) \ seen, seen)

SameAsGraph(ts, cfg) ==
  LET start == RunFrom(ts, 1, {}, 0, FALSE)
  IN  /\ start.at > 0
      /\ Arg(ts, ts.list[start.at]) = 1
      /\ Follows(ts, cfg, {start}, {})
=============================================================================
