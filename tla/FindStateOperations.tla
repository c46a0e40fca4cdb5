------------------------- MODULE FindStateOperations -------------------------
(***************************************************************************)
(* The depth-first search of FindStateOperations::findOperations: all      *)
(* paths from one important state to the next ones, found with a stack of  *)
(* nodes, the path walked, and the indexes at which the path branched and  *)
(* passed the head of the loop.  An action is one turn of its loop.        *)
(***************************************************************************)
EXTENDS ControlFlow

CONSTANT encodeArch(_)   \* the number that stands for one turn of the
                         \*   module's loop

VARIABLES cfg,                    \* the graph
          importantStates,        \* the nodes that are states, in the order found
          stack, operationPath, operationArches, countWhile, whileIndex,
          branchingNodesIndex,
          stateOperations,        \* the paths found
          spuriousPath,
          search                  \* "idle", "running", "finished" or "spurious"

indexes == << operationArches, countWhile, whileIndex >>
searchVars == << stack, operationPath, indexes, branchingNodesIndex,
                 stateOperations, spuriousPath, search >>

IsImportant(n) == n \in Range(importantStates)

SearchInit == /\ stack = << >> /\ operationPath = << >>
              /\ operationArches = << >> /\ countWhile = 0 /\ whileIndex = << >>
              /\ branchingNodesIndex = << >>
              /\ stateOperations = << >> /\ spuriousPath = << >>
              /\ search = "idle"

(* findOperations(state) is called. *)
Find(state) == /\ search # "running"
               /\ search' = "running"
               /\ stack' = << state >>
               /\ operationPath' = << >>
               /\ operationArches' = << >> /\ countWhile' = 0 /\ whileIndex' = << >>
               /\ branchingNodesIndex' = << >>
               /\ stateOperations' = << >> /\ spuriousPath' = << >>

-----------------------------------------------------------------------------
traverseNode == Last(stack)
PathSoFar == Append(operationPath, traverseNode)

(* The head of the loop: the turn just made is encoded and compared.        *)
AtWhile == traverseNode = whileNode(cfg)
tempArch == SubSeq(operationPath, Last(whileIndex) + 1, Len(operationPath))
(* Mutant: any second turn ends the search. *)
FixedPointTwice == AtWhile /\ countWhile > 1

FixedPoint == /\ AtWhile
              /\ countWhile > 0
              /\ encodeArch(tempArch) \in Range(operationArches)

WhileIndex == IF AtWhile THEN Append(whileIndex, Len(operationPath)) ELSE whileIndex
Arches == IF AtWhile /\ countWhile > 0 THEN Append(operationArches, encodeArch(tempArch))
                                       ELSE operationArches
Count == IF AtWhile THEN countWhile + 1 ELSE countWhile

(* The same turn was made before: the path can go on for ever. *)
Spurious == /\ search = "running"
            /\ FixedPoint
            /\ spuriousPath' = operationPath
            /\ search' = "spurious"
            /\ UNCHANGED << stack, operationPath, indexes, branchingNodesIndex, stateOperations >>

(* Mutants: the index of the last branching is kept; one loop head too many *)
(* is forgotten; none is.                                                   *)
RetraceKeepsBranch(path) ==
  /\ operationPath' = SubSeq(path, 1, Last(branchingNodesIndex))
  /\ whileIndex' = WhileIndex /\ countWhile' = Count /\ operationArches' = Arches
  /\ UNCHANGED branchingNodesIndex

RetraceCountsDown(path) ==
  /\ operationPath' = SubSeq(path, 1, Last(branchingNodesIndex))
  /\ whileIndex' = WhileIndex /\ countWhile' = Count - 1 /\ operationArches' = Arches
  /\ branchingNodesIndex' = Front(branchingNodesIndex)

RetraceKeepsArches(path) ==
  /\ operationPath' = SubSeq(path, 1, Last(branchingNodesIndex))
  /\ whileIndex' = WhileIndex /\ countWhile' = Count /\ operationArches' = Arches
  /\ branchingNodesIndex' = Front(branchingNodesIndex)

(* Back to the last branching, and forget the loop heads passed since. *)
Retrace(path) ==
  LET cut == Last(branchingNodesIndex)
      keep == CHOOSE k \in 0 .. Len(WhileIndex) :
                /\ k = 0 \/ WhileIndex[k] <= cut
                /\ \A j \in k + 1 .. Len(WhileIndex) : WhileIndex[j] > cut
      popped == Len(WhileIndex) - keep
  IN  /\ operationPath' = SubSeq(path, 1, cut)
      /\ whileIndex' = SubSeq(WhileIndex, 1, keep)
      /\ countWhile' = Count - popped
      /\ operationArches' = IF popped < Len(Arches)
                            THEN SubSeq(Arches, 1, Len(Arches) - popped) ELSE << >>
      /\ branchingNodesIndex' = Front(branchingNodesIndex)

(* The loop ends with the stack. *)
Turn == search' = IF stack' = << >> THEN "finished" ELSE "running"

(* An important state, but not the one the search started from. *)
Finish == /\ search = "running"
          /\ ~ FixedPoint
          /\ IsImportant(traverseNode) /\ operationPath # << >>
          /\ stateOperations' = Append(stateOperations, PathSoFar)
          /\ \/ /\ branchingNodesIndex # << >>
                /\ Retrace(PathSoFar)
             \/ /\ branchingNodesIndex = << >>
                /\ operationPath' = PathSoFar
                /\ operationArches' = Arches /\ countWhile' = Count /\ whileIndex' = WhileIndex
                /\ UNCHANGED branchingNodesIndex
          /\ stack' = Front(stack)
          /\ Turn
          /\ UNCHANGED spuriousPath

Visit == /\ search = "running"
         /\ ~ FixedPoint
         /\ ~ IsImportant(traverseNode) \/ operationPath = << >>
         /\ operationPath' = PathSoFar
         /\ operationArches' = Arches /\ countWhile' = Count /\ whileIndex' = WhileIndex
         /\ UNCHANGED << stateOperations, spuriousPath >>

reachable(m) == isPathReachable(cfg, << >>, Append(PathSoFar, m))

(* Mutant: every successor is pushed. *)
PushedUnchecked(i) == << Succ(cfg, traverseNode)[i] >>

(* The successor, if it can be reached. *)
Pushed(i) == LET m == Succ(cfg, traverseNode)[i]
             IN  IF reachable(m) THEN << m >> ELSE << >>

(* The first successor is pushed last. *)
Branch == /\ Visit
          /\ IsBranch(cfg, traverseNode)
          /\ LET next == Pushed(2) \o Pushed(1)
             IN  /\ stack' = Front(stack) \o next
                 /\ branchingNodesIndex' = IF Len(next) > 1
                                           THEN Append(branchingNodesIndex, Len(PathSoFar))
                                           ELSE branchingNodesIndex
          /\ Turn

Follow == /\ Visit
          /\ ~ IsBranch(cfg, traverseNode)
          /\ stack' = Append(Front(stack), Succ(cfg, traverseNode)[1])
          /\ Turn
          /\ UNCHANGED branchingNodesIndex

Iterate == (Spurious \/ Finish \/ Branch \/ Follow) /\ UNCHANGED << cfg, importantStates >>

-----------------------------------------------------------------------------
(* Properties *)

(* p follows the graph, and each time it branched the branch was reachable. *)
Follows(p) == \A i \in 1 .. Len(p) - 1 :
                /\ p[i + 1] \in Range(Succ(cfg, p[i]))
                /\ IsBranch(cfg, p[i]) => isPathReachable(cfg, << >>, SubSeq(p, 1, i + 1))

(* Of the two ways a branching node can be left, one is always reachable: a *)
(* path never gets stuck, and the stack and the branchings stay in step.    *)
BranchOpen ==
  search = "running" /\ IsBranch(cfg, traverseNode) =>
    \E m \in Range(Succ(cfg, traverseNode)) : reachable(m)

(* The stack, the path and the branchings fit together: whatever is on the  *)
(* stack continues the path where it was left, so that each path found is   *)
(* one the program can take.                                                *)
StackFitsPath ==
  search = "running" =>
    /\ Len(stack) = Len(branchingNodesIndex) + 1
    /\ Follows(PathSoFar)
    /\ \A k \in DOMAIN branchingNodesIndex :
         Follows(Append(SubSeq(operationPath, 1, branchingNodesIndex[k]), stack[k]))

(* Every path found goes through reachable branches only. *)
OperationsAreFeasible ==
  search # "idle" => \A k \in DOMAIN stateOperations : Follows(stateOperations[k])

(* It ends at a state, and passes none in between. *)
IsOperation(p) == /\ Len(p) > 1
                  /\ IsImportant(Last(p))
                  /\ \A i \in 2 .. Len(p) - 1 : ~ IsImportant(p[i])

(* The indexes of the loop's head point at the loop's head: the turns that  *)
(* are encoded are the turns that the path made.                            *)
WhileIndexFitsPath ==
  search = "running" =>
    /\ countWhile = Len(whileIndex)
    /\ Len(operationArches) = IF countWhile = 0 THEN 0 ELSE countWhile - 1
    /\ \A k \in DOMAIN whileIndex : /\ whileIndex[k] < Len(operationPath)
                                    /\ operationPath[whileIndex[k] + 1] = whileNode(cfg)

(* The turns of the loop along a path, from head to head. *)
Turns(p) == LET heads == {i \in DOMAIN p : p[i] = whileNode(cfg)} \cup {Len(p) + 1}
            IN  {t \in heads \X heads : t[1] < t[2] /\ \A k \in heads : ~ (t[1] < k /\ k < t[2])}

(* "If reaching a fixed loop (i.e. passing a list of nodes twice), return a *)
(* boolean indicating a spurious path" (FindStateOperations.h): the search  *)
(* gives up only on a path whose last turn is a repetition.                 *)
SpuriousRepeats ==
  search = "spurious" =>
    \E a, b \in Turns(spuriousPath) :
      /\ a # b /\ b[2] = Len(spuriousPath) + 1
      /\ SubSeq(spuriousPath, a[1], a[2] - 1) = SubSeq(spuriousPath, b[1], b[2] - 1)

=============================================================================
