--------------------------- MODULE FunctionFactory ---------------------------
(***************************************************************************)
(* A function of a module, or a global one, becomes a list of return       *)
(* values, each with the conditions under which it is returned             *)
(* (functionFactory/).  The blocks of its graph are flattened into nested  *)
(* statements (FlattenWhile, FlattenIf), which needs the block where the   *)
(* branches of each `if' meet (FindEndNode) and the blocks up to there     *)
(* (EnumartePathsVisitor); the statements are unfolded into paths          *)
(* (FindPathsToReturn), and each path is executed symbolically.            *)
(*                                                                         *)
(* A function has no loop.  Its parameters are the variables; a method     *)
(* that is translated is const and assigns nothing else.                   *)
(***************************************************************************)
EXTENDS BuildCfg

VARIABLE returnValueConditionList   \* value and conditions of every path

(* All returns lead to a terminal node, which has the number -1 in the code. *)
Terminal == Len(controlFlowMap)

addTerminalNodeForFunctions ==
  [b \in 0 .. Terminal |->
     CASE b = Terminal -> << >>
       [] controlFlowMap[b + 1].succ = << >> -> << Terminal >>
       [] OTHER -> controlFlowMap[b + 1].succ]

HasIf(b) == controlFlowMap[b + 1].terminator # << >>

(* The blocks from b to the end, along the first successors only.           *)
RECURSIVE FirstPath(_, _)
FirstPath(succ, b) ==
  IF succ[b] = << >> THEN << b >> ELSE << b >> \o FirstPath(succ, succ[b][1])

(* The first block on the path of the `else' branch that is on the path of  *)
(* the `then' branch as well.                                               *)
EndNode(succ, b) ==
  LET truePath == FirstPath(succ, succ[b][1])
      falsePath == FirstPath(succ, succ[b][2])
  IN  falsePath[SelectInSeq(falsePath, LAMBDA c : Contains(truePath, c))]

(* EnumartePathsVisitor: a block is entered once, so that of two ways to    *)
(* it, the second is not followed to the end.                               *)
RECURSIVE Enumerate(_, _, _, _, _)
Enumerate(succ, b, path, end, seen) ==
  IF b = end THEN [seen EXCEPT !.nodeList = @ \cup path \cup {b}]
  ELSE IF b \in seen.visited THEN seen
  ELSE FoldLeft(LAMBDA s, c : Enumerate(succ, c, path \cup {b}, end, s),
                [seen EXCEPT !.visited = @ \cup {b}], succ[b])

PathNodes(succ, b) ==
  Enumerate(succ, b, {}, EndNode(succ, b), [visited |-> {}, nodeList |-> {}]).nodeList

(* FlattenWhile and FlattenIf: the statements from b to `end', through the  *)
(* blocks that are allowed.                                                 *)
RECURSIVE Flatten(_, _, _, _)
Flatten(succ, b, allowed, end) ==
  IF b = end \/ b \notin allowed THEN << >>
  ELSE controlFlowMap[b + 1].stmts \o
       IF ~ HasIf(b) THEN Flatten(succ, succ[b][1], allowed, end)
       ELSE LET meet == EndNode(succ, b)
                Branch(i) == Flatten(succ, succ[b][i], PathNodes(succ, b), meet)
                ite == [op |-> "ite", test |-> controlFlowMap[b + 1].terminator[1].test,
                        if |-> Branch(1), else |-> Branch(2)]
            IN  << ite >> \o IF meet = end THEN << >> ELSE Flatten(succ, meet, allowed, end)

stmtList ==
  LET succ == addTerminalNodeForFunctions
  IN  Flatten(succ, succ[0][1], DOMAIN succ, Terminal)

-----------------------------------------------------------------------------
(* FindPathsToReturn: a path is a list of statements; a branch adds its     *)
(* condition, or the negation of it.                                        *)

find_or_add_true(test) == [op |-> "if", test |-> test, holds |-> TRUE]

(* Mutant: the condition of an `else' branch is not negated. *)
NotNegated(test) == [op |-> "if", test |-> test, holds |-> TRUE]

find_or_add_false(test) == [op |-> "if", test |-> test, holds |-> FALSE]

OrEmptyPath(paths) == IF paths = << >> THEN << << >> >> ELSE paths

Extended(path, stmt, branch) == [j \in DOMAIN branch |-> Append(path, stmt) \o branch[j]]

RECURSIVE FindPaths(_)
FindPaths(stmts) ==
  LET AppendStmt(paths, s) == [i \in DOMAIN paths |-> Append(paths[i], s)]
      Unfold(paths, ite) ==
        LET then == OrEmptyPath(FindPaths(ite.if))
            else == OrEmptyPath(FindPaths(ite.else))
        IN  FlattenSeq([i \in DOMAIN paths |->
              Extended(paths[i], find_or_add_true(ite.test), then)
                \o Extended(paths[i], find_or_add_false(ite.test), else)])
  IN  FoldLeft(LAMBDA paths, s :
                 CASE s.op # "ite" -> AppendStmt(OrEmptyPath(paths), s)
                   [] s.op = "ite" /\ s.if = << >> /\ s.else = << >> -> paths
                   [] OTHER -> Unfold(OrEmptyPath(paths), s),
               << >>, stmts)

(* What is returned on a path, and its conditions, in terms of the          *)
(* parameters.                                                              *)
Reconstruct(path) ==
  FoldLeft(LAMBDA sym, s :
             CASE s.op = "if" ->
                    [sym EXCEPT !.conditions =
                       @ \cup {[test |-> {{<< sym.map[t[1]], t[2] >> : t \in a} : a \in s.test},
                                holds |-> s.holds]}]
               [] s.op = "return" -> [sym EXCEPT !.returned = Append(@, sym.map[s.var])]
               [] OTHER -> Execute(sym, s),
           Start @@ [returned |-> << >>], path)

(* A path with two return values ends the compiler with an exception, and   *)
(* one with none with an assertion.                                         *)
Accepted(list) == \A i \in DOMAIN list : Len(list[i].returned) = 1

Function ==
  LET paths == FindPaths(stmtList)
  IN  [i \in DOMAIN paths |-> Reconstruct(paths[i])]
=============================================================================
