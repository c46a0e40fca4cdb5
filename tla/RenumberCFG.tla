----------------------------- MODULE RenumberCFG -----------------------------
(***************************************************************************)
(* The nodes that are left get sequential numbers in the order of a search *)
(* along the first successors (modelFactory/Optimizer/Utilities).  The     *)
(* later stages tell by these numbers which branch of a condition is its   *)
(* `then' branch: the node that has the next number.                       *)
(***************************************************************************)
EXTENDS LivenessAnalysis

VARIABLES currentNode, visited, ifNodes,
          newNodeCFG   \* the nodes in the order of their new numbers, from 0

renumberVars == << currentNode, visited, ifNodes, newNodeCFG >>

StartRenumber == /\ currentNode' = Min(Nodes) /\ visited' = {}
                 /\ ifNodes' = << >> /\ newNodeCFG' = << >>

AllVisited == Cardinality(visited) = Cardinality(Nodes)

(* Mutant: only conditions are remembered as visited. *)
NumberUnmarked ==
  /\ step = "renumber" /\ ~ AllVisited /\ currentNode \notin visited
  /\ visited' = visited \cup Only(IsBranch(graph, currentNode), currentNode)
  /\ newNodeCFG' = Append(newNodeCFG, currentNode)
  /\ ifNodes' = IF IsBranch(graph, currentNode) THEN Append(ifNodes, currentNode) ELSE ifNodes
  /\ currentNode' = graph.succ[currentNode][1]
  /\ UNCHANGED livenessVars

(* A node that was not visited gets the next number. *)
Number ==
  /\ step = "renumber" /\ ~ AllVisited /\ currentNode \notin visited
  /\ visited' = visited \cup {currentNode}
  /\ newNodeCFG' = Append(newNodeCFG, currentNode)
  /\ ifNodes' = IF IsBranch(graph, currentNode) THEN Append(ifNodes, currentNode) ELSE ifNodes
  /\ currentNode' = graph.succ[currentNode][1]
  /\ UNCHANGED livenessVars

(* Otherwise the search goes on at the last condition's other branch. *)
OtherBranch ==
  /\ step = "renumber" /\ ~ AllVisited /\ currentNode \in visited /\ ifNodes # << >>
  /\ currentNode' = graph.succ[Last(ifNodes)][2]
  /\ ifNodes' = Front(ifNodes)
  /\ UNCHANGED << livenessVars, visited, newNodeCFG >>

Renumbered ==
  /\ step = "renumber"
  /\ AllVisited \/ (currentNode \in visited /\ ifNodes = << >>)
  /\ step' = IF AllVisited THEN "done" ELSE "thrown"
  /\ UNCHANGED << graph, stmtInfo, toggled, numToTrueToggles, pass,
                  deadNodeDetected, deadAssignmentSet, assigned, renumberVars >>

RenumberNext == Number \/ OtherBranch \/ Renumbered

newId(n) == (CHOOSE i \in DOMAIN newNodeCFG : newNodeCFG[i] = n) - 1
=============================================================================
