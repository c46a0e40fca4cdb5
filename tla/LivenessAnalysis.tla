-------------------------- MODULE LivenessAnalysis --------------------------
(***************************************************************************)
(* Dead assignments are searched and removed from the graph (modelFactory/ *)
(* Optimizer/VariablesLivenessAnalysis).  Every node has, for every        *)
(* variable, a flag before it (in) and a flag after it (out): is the value *)
(* used later?  An assignment whose variable has no flag after it is dead. *)
(*                                                                         *)
(* The variables are scalars; a compound variable stands for its parts.    *)
(***************************************************************************)
EXTENDS ControlFlow, FiniteSetsExt

VARIABLES graph,              \* stmt, succ and pred of the nodes that are left
          stmtInfo,           \* in and out: the pairs of variable and node that are flagged
          toggled,            \* the nodes at which some variable was flagged after it
          numToTrueToggles,   \* how many there were when they were last counted
          pass,               \* traversals since then
          deadNodeDetected,
          deadAssignmentSet,  \* the assignments of a variable to itself
          assigned,           \* the variables of which the assignments were not checked yet
          step                \* where the analysis is

livenessVars == << graph, stmtInfo, toggled, numToTrueToggles, pass,
                   deadNodeDetected, deadAssignmentSet, assigned, step >>

Nodes == DOMAIN graph.succ
LastNode == Max(Nodes)
Statement(n) == graph.stmt[n]

Only(condition, x) == IF condition THEN {x} ELSE {}

(* Mutant: what is written to a port is not used. *)
UsesButWrites(s) == CASE s.op = "if"   -> {t[1] : t \in UNION s.test}
                      [] s.op = "copy" -> {s.from}
                      [] OTHER -> {}

(* The test of an `if' is a set of alternatives, sets of comparisons. *)
Uses(s) == CASE s.op = "if"    -> {t[1] : t \in UNION s.test}
             [] s.op = "write" -> {s.var}
             [] s.op = "copy"  -> {s.from}
             [] OTHER -> {}
Assigns(s) == Only(s.op \in {"assign", "copy"}, s.var)
variablesInStmt(s) == Uses(s) \cup Assigns(s) \cup Only(s.op = "read", s.var)
IsSelfAssignment(s) == s.op = "copy" /\ s.var = s.from

(* The constructor starts on the graph g. *)
Analyse(g) ==
  LET ids == DOMAIN g.succ
  IN  /\ stmtInfo' = [in |-> {p \in Vars \X ids : p[1] \in Uses(g.stmt[p[2]])}, out |-> {}]
      /\ assigned' = UNION {Assigns(g.stmt[n]) : n \in ids}
      /\ deadAssignmentSet' = {n \in ids : IsSelfAssignment(g.stmt[n])}
      /\ deadNodeDetected' = (deadAssignmentSet' # {})
      /\ toggled' = {} /\ numToTrueToggles' = 0 /\ pass' = 0 /\ step' = "traverse"

(* One node of a traversal; what is mentioned in a statement is not passed on. *)
Visit(n, info) ==
  LET used == {x \in Vars : \E i \in DOMAIN graph.succ[n] : << x, graph.succ[n][i] >> \in info.in}
      out == info.out \cup (used \X {n})
  IN  [in |-> info.in \cup {p \in out : p[2] = n /\ p[1] \notin variablesInStmt(Statement(n))},
       out |-> out,
       toggled |-> info.toggled \cup Only(used # {}, n)]

(* One traversal, from the largest number to the smallest. *)
Traversal(info) ==
  LET from[n \in 0 .. LastNode + 1] ==
        IF n > LastNode THEN info
        ELSE IF n \in Nodes THEN Visit(n, from[n + 1]) ELSE from[n + 1]
  IN  from[0]

Traverse ==
  /\ step = "traverse" /\ pass < 2
  /\ LET info == Traversal([in |-> stmtInfo.in, out |-> stmtInfo.out, toggled |-> toggled])
     IN  /\ stmtInfo' = [in |-> info.in, out |-> info.out]
         /\ toggled' = info.toggled
  /\ pass' = pass + 1
  /\ UNCHANGED << graph, numToTrueToggles, deadNodeDetected, deadAssignmentSet, assigned, step >>

(* Mutant: the traversals end when the nodes were counted once. *)
CountTogglesOnce ==
  /\ step = "traverse" /\ pass = 2 /\ step' = "assignments"
  /\ UNCHANGED << graph, stmtInfo, toggled, numToTrueToggles, pass,
                  deadNodeDetected, deadAssignmentSet, assigned >>

(* Every second traversal the nodes are counted.  The vector they are       *)
(* marked in has no element for the last node.                              *)
CountToggles ==
  /\ step = "traverse" /\ pass = 2
  /\ LET numToggledNodes == Cardinality(toggled \ {LastNode})
     IN  /\ numToTrueToggles' = numToggledNodes
         /\ IF numToggledNodes = numToTrueToggles
            THEN step' = "assignments" /\ UNCHANGED pass
            ELSE pass' = 0 /\ UNCHANGED step
  /\ UNCHANGED << graph, stmtInfo, toggled, deadNodeDetected, deadAssignmentSet, assigned >>

-----------------------------------------------------------------------------
(* A node with one successor is taken out of a graph g: its predecessors    *)
(* and its successor become neighbours, unless they are already.            *)
AddOnce(list, x) == IF Contains(list, x) THEN list ELSE Append(list, x)

Replaced(list, old, new) ==
  IF Contains(list, new) THEN RemoveFirst(list, old) ELSE ReplaceAll(list, old, new)

(* Mutant: the other predecessors are forgotten. *)
WithoutOthers(g, n) ==
  LET preds == g.pred[n]
      succ == g.succ[n][1]
      joined == Replaced(g.pred[succ], n, Head(preds))
  IN  [stmt |-> [m \in DOMAIN g.stmt \ {n} |-> g.stmt[m]],
       succ |-> [m \in DOMAIN g.succ \ {n} |->
                   IF Contains(preds, m) THEN Replaced(g.succ[m], n, succ) ELSE g.succ[m]],
       pred |-> [m \in DOMAIN g.pred \ {n} |-> IF m = succ THEN joined ELSE g.pred[m]]]

Without(g, n) ==
  LET preds == g.pred[n]
      succ == g.succ[n][1]
      joined[i \in 1 .. Len(preds)] ==
        IF i = 1 THEN Replaced(g.pred[succ], n, preds[1]) ELSE AddOnce(joined[i - 1], preds[i])
  IN  [stmt |-> [m \in DOMAIN g.stmt \ {n} |-> g.stmt[m]],
       succ |-> [m \in DOMAIN g.succ \ {n} |->
                   IF Contains(preds, m) THEN Replaced(g.succ[m], n, succ) ELSE g.succ[m]],
       pred |-> [m \in DOMAIN g.pred \ {n} |-> IF m = succ THEN joined[Len(preds)] ELSE g.pred[m]]]

(* The graph when the nodes ns are removed, from the smallest number to the *)
(* largest.                                                                 *)
WithoutAll(ns) ==
  LET left[k \in 0 .. LastNode + 1] ==
        IF k = 0 THEN graph
        ELSE IF k - 1 \in ns THEN Without(left[k - 1], k - 1) ELSE left[k - 1]
  IN  left[LastNode + 1]

IsDead(n) == << Statement(n).var, n >> \notin stmtInfo.out

(* The dead assignments to one variable. *)
RemoveDead ==
  /\ step = "assignments"
  /\ \E x \in assigned :
       LET dead == {n \in Nodes : x \in Assigns(Statement(n)) /\ IsDead(n)}
       IN  /\ graph' = WithoutAll(dead)
           /\ deadNodeDetected' = (deadNodeDetected \/ dead # {})
           /\ assigned' = assigned \ {x}
  /\ UNCHANGED << stmtInfo, toggled, numToTrueToggles, pass, deadAssignmentSet, step >>

(* Then the conditions that decide nothing any more; those that do not      *)
(* because one of these is removed stay.                                    *)
pointlessIfStmts == {n \in Nodes : Op(graph, n) = "if" /\ Len(graph.succ[n]) # 2}

RemovePointless ==
  /\ step = "assignments" /\ assigned = {}
  /\ IF deadNodeDetected
     THEN graph' = WithoutAll(pointlessIfStmts) /\ step' = "self assignments"
     ELSE step' = "analysed" /\ UNCHANGED graph
  /\ UNCHANGED << stmtInfo, toggled, numToTrueToggles, pass,
                  deadNodeDetected, deadAssignmentSet, assigned >>

(* Then the assignments of a variable to itself, dead or not.  One that was *)
(* dead is looked up in vain: CFG.at() throws.                              *)
RemoveSelfAssignments ==
  /\ step = "self assignments"
  /\ IF deadAssignmentSet \subseteq Nodes
     THEN graph' = WithoutAll(deadAssignmentSet) /\ step' = "analysed"
     ELSE step' = "thrown" /\ UNCHANGED graph
  /\ UNCHANGED << stmtInfo, toggled, numToTrueToggles, pass,
                  deadNodeDetected, deadAssignmentSet, assigned >>

LivenessNext == \/ Traverse \/ CountToggles
                \/ RemoveDead \/ RemovePointless \/ RemoveSelfAssignments

-----------------------------------------------------------------------------
(* When the traversals end, no flag is missing: a variable is flagged after *)
(* a node if it is flagged before a successor, and before a node that does  *)
(* not mention it if it is flagged after it.  "The CFG is repeatedly        *)
(* reversely traversed until the following rules are met"                   *)
(* (LivenessAnalysis.h); no assignment is removed that is needed.           *)
RulesMet ==
  step \in {"assignments", "self assignments", "analysed"} =>
    \A x \in Vars, n \in Nodes :
      /\ (\E i \in DOMAIN graph.succ[n] : << x, graph.succ[n][i] >> \in stmtInfo.in)
           => << x, n >> \in stmtInfo.out
      /\ << x, n >> \in stmtInfo.out /\ x \notin variablesInStmt(Statement(n))
           => << x, n >> \in stmtInfo.in

(* The predecessor lists mirror the successor lists, whatever was removed:  *)
(* what is removed next is taken out of the lists of all its neighbours,    *)
(* and the backward searches of the later stages see what the forward ones  *)
(* see.                                                                     *)
NeighboursMirror ==
  \A n \in Nodes :
    /\ graph.succ[n] # << >> /\ ToSet(graph.succ[n]) \cup ToSet(graph.pred[n]) \subseteq Nodes
    /\ \A m \in Nodes : Contains(graph.succ[n], m) <=> Contains(graph.pred[m], n)
=============================================================================
