------------------------- MODULE FindStateBacktrack -------------------------
(***************************************************************************)
(* What is known in a state: the search that follows the predecessors from *)
(* a state back to the head of the loop                                    *)
(* (operationFactory/OperationMiscellaneous/FindStateBacktrack.cpp).  It   *)
(* is a depth first search with one path: stack holds the nodes to be      *)
(* visited, the top first, path the nodes on the way, branching those of   *)
(* them with several predecessors, visited how many of these are left, and *)
(* found the paths that reached the head.                                  *)
(***************************************************************************)
EXTENDS ControlFlow

Backward(n) == [stack |-> << n >>, path |-> << >>, branching |-> << >>, visited |-> << >>,
                found |-> << >>]

(* In the order in which the nodes were made. *)
predecessorList(g, n) ==
  SelectSeq([i \in 1 .. Cardinality(Node(g)) |-> i - 1], LAMBDA m : Contains(Succ(g, m), n))

UpTo(path, n) == SubSeq(path, 1, Max({i \in DOMAIN path : path[i] = n}))

(* Back to the last join that has a predecessor left: the joins behind it   *)
(* are done, and so is the path beyond it.                                  *)
RetraceBackward(b) ==
  LET open == {k \in DOMAIN b.visited : b.visited[k] # 1}
      k == IF open = {} THEN 0 ELSE Max(open)
      join == IF k > 0 THEN k ELSE 1
  IN  [b EXCEPT !.branching = SubSeq(@, 1, k),
                !.visited = IF k > 0 THEN Append(SubSeq(@, 1, k - 1), @[k] - 1) ELSE << >>,
                !.path = IF b.branching = << >> THEN @ ELSE UpTo(@, b.branching[join])]

StepBackward(g, b) ==
  LET traverseNode == Head(b.stack)
      next == predecessorList(g, traverseNode)
      joins == Len(next) > 1
      popped == [b EXCEPT !.stack = Tail(@)]
  IN  IF traverseNode = whileNode(g)
      THEN RetraceBackward([popped EXCEPT !.found = Append(@, b.path)])
      ELSE [popped EXCEPT !.stack = next \o @,
                          !.path = Append(@, traverseNode),
                          !.branching = IF joins THEN Append(@, traverseNode) ELSE @,
                          !.visited = IF joins THEN Append(@, Len(next)) ELSE @]

Searches == [stack : Seq(Nat), path : Seq(Nat), branching : Seq(Nat), visited : Seq(Nat),
             found : Seq(Seq(Nat))]

(* The paths from n back to the first node behind the head of the loop.     *)
backwardPaths(g, n) ==
  LET search[b \in Searches] == IF b.stack = << >> THEN b.found ELSE search[StepBackward(g, b)]
  IN  search[Backward(n)]

(* What is assumed of such a path: conditions, and what was assigned.       *)
(* Assignments from peek() are left out.                                    *)
Assumed(g, path) ==
  SelectSeq(PathStmts(g, path), LAMBDA s : s.op \notin {"reset", "while", "wait", "peek"})

stateBacktracks(g, n) ==
  IF n = 0 THEN {<< >>} ELSE {Assumed(g, Reverse(p)) : p \in Range(backwardPaths(g, n))}
=============================================================================
