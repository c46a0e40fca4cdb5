------------------------------ MODULE Optimizer ------------------------------
(***************************************************************************)
(* From clang's blocks to the graph that the operation factory gets, with  *)
(* the option that removes dead assignments (-Optimize --rda,              *)
(* modelFactory/Optimizer/Optimizer.cpp); and then the program side by     *)
(* side with that graph, executed as the operation factory reads it.       *)
(***************************************************************************)
EXTENDS RenumberCFG, BuildCfg

CONSTANT Sources
ASSUME SourcesAssumption == \A s \in Sources : s.kind = "thread" => LaidOut(s)

VARIABLES analyses,       \* how often the liveness was analysed
          before, after   \* where program and graph are and what their variables hold

runVars == << before, after >>
vars == << livenessVars, renumberVars, buildVars, analyses, runVars >>

AtReset(val) == [loc |-> 0, val |-> val]
InBlock(b, i, val) == [block |-> b, index |-> i, val |-> val]

Init ==
  /\ BuildInit(Sources) /\ step = "blocks" /\ analyses = 0
  /\ graph = [stmt |-> << >>, succ |-> << >>, pred |-> << >>]
  /\ stmtInfo = [in |-> {}, out |-> {}] /\ toggled = {} /\ numToTrueToggles = 0 /\ pass = 0
  /\ deadNodeDetected = FALSE /\ deadAssignmentSet = {} /\ assigned = {}
  /\ currentNode = 0 /\ visited = {} /\ ifNodes = << >> /\ newNodeCFG = << >>
  /\ LET val == [x \in Vars |-> 0]
     IN  before = InBlock(source.first, 1, val) /\ after = AtReset(val)

Build == /\ step = "blocks" /\ traverseBlocks
         /\ UNCHANGED << livenessVars, renumberVars, analyses, runVars >>

Built == /\ step = "blocks" /\ todo = << >>
         /\ graph' = RealCFG
         /\ step' = "analysed"
         /\ UNCHANGED << stmtInfo, toggled, numToTrueToggles, pass, deadNodeDetected,
                         deadAssignmentSet, assigned, renumberVars, buildVars, analyses, runVars >>

(* Twice in the loop, once more at the end. *)
Analyses == 3

NextAnalysis ==
  /\ step = "analysed"
  /\ IF analyses < Analyses
     THEN /\ Analyse(graph) /\ analyses' = analyses + 1 /\ UNCHANGED << graph, renumberVars >>
     ELSE /\ StartRenumber /\ step' = "renumber"
          /\ UNCHANGED << graph, stmtInfo, toggled, numToTrueToggles, pass, analyses,
                          deadNodeDetected, deadAssignmentSet, assigned >>
  /\ UNCHANGED << buildVars, runVars >>

-----------------------------------------------------------------------------
IsCommunication(s) == s.op \in {"read", "write", "wait"}

After(val, s, data) ==
  CASE s.op = "assign" -> [val EXCEPT ![s.var] = s.val]
    [] s.op = "copy"   -> [val EXCEPT ![s.var] = val[s.from]]
    [] s.op = "read"   -> [val EXCEPT ![s.var] = data]
    [] OTHER -> val

Holds(test, val) == \E a \in test : \A t \in a : val[t[1]] = t[2]

(* The program: the statement it is at, if it is not at the end of a block; *)
(* a block with two successors evaluates its own operand.                   *)
Here(p) == source.blocks[p.block]
AtEnd(p) == p.index > Len(Here(p).stmts)
AtCommunication(p) == ~ AtEnd(p) /\ IsCommunication(Here(p).stmts[p.index])

NextBlock(p) ==
  Here(p).succ[IF Len(Here(p).succ) = 1 \/ Holds({{Here(p).test}}, p.val) THEN 1 ELSE 2]

StepProgram(p, data) ==
  IF AtEnd(p) THEN InBlock(NextBlock(p), 1, p.val)
  ELSE InBlock(p.block, p.index + 1, After(p.val, Here(p).stmts[p.index], data))

(* The graph: a condition with two successors holds if the next node has    *)
(* the next number; one with a single successor is taken for an assumption  *)
(* (ValidOperations::isPathReachable, CreateOperations).                    *)
Successors(p) ==
  LET s == Statement(p.loc)
      next == ToSet(graph.succ[p.loc])
  IN  IF s.op # "if" THEN next
      ELSE {m \in next : Holds(s.test, p.val)
                           <=> ~ IsBranch(graph, p.loc) \/ newId(m) = newId(p.loc) + 1}

StepGraph(p, m, data) == [loc |-> m, val |-> After(p.val, Statement(p.loc), data)]

(* Both start with anything in their variables; the program is constructed. *)
RunBoth ==
  /\ step = "done" /\ step' = "running"
  /\ \E val \in [Vars -> Values] :
       /\ after' = AtReset(val)
       /\ before' = InBlock(source.first, 1, FoldLeft(LAMBDA v, s : After(v, s, 0), val, source.init))
  /\ UNCHANGED << graph, stmtInfo, toggled, numToTrueToggles, pass, deadNodeDetected,
                  deadAssignmentSet, assigned, renumberVars, buildVars, analyses >>

(* Each runs to its next communication; they communicate together. *)
RunBefore ==
  /\ step = "running" /\ ~ AtCommunication(before)
  /\ before' = StepProgram(before, 0)
  /\ UNCHANGED << livenessVars, renumberVars, buildVars, analyses, after >>

RunAfter ==
  /\ step = "running" /\ AtCommunication(before) /\ ~ IsCommunication(Statement(after.loc))
  /\ \E m \in Successors(after) : after' = StepGraph(after, m, 0)
  /\ UNCHANGED << livenessVars, renumberVars, buildVars, analyses, before >>

Communicate ==
  /\ step = "running" /\ AtCommunication(before)
  /\ Here(before).stmts[before.index] = Statement(after.loc)
  /\ \E data \in Values, m \in Successors(after) :
       /\ before' = StepProgram(before, data)
       /\ after' = StepGraph(after, m, data)
  /\ UNCHANGED << livenessVars, renumberVars, buildVars, analyses >>

Next == \/ Build \/ Built \/ NextAnalysis
        \/ LivenessNext /\ UNCHANGED << renumberVars, buildVars, analyses, runVars >>
        \/ RenumberNext /\ UNCHANGED << buildVars, analyses, runVars >>
        \/ RunBoth \/ RunBefore \/ RunAfter \/ Communicate

Spec == Init /\ [][Next]_vars

-----------------------------------------------------------------------------
Steps == {"blocks", "analysed", "traverse", "assignments", "self assignments", "renumber",
          "done", "running", "thrown"}

TypeOK ==
  /\ \A i \in DOMAIN controlFlowMap :
       ToSet(controlFlowMap[i].succ) \subseteq 0 .. Len(controlFlowMap) - 1
  /\ Nodes \subseteq Nat
  /\ DOMAIN graph.stmt = Nodes /\ DOMAIN graph.pred = Nodes
  /\ \A p \in stmtInfo.in \cup stmtInfo.out : p[1] \in Vars /\ p[2] \in Nat
  /\ toggled \subseteq Nat /\ numToTrueToggles \in Nat
  /\ pass \in 0 .. 2 /\ deadNodeDetected \in BOOLEAN /\ deadAssignmentSet \subseteq Nat
  /\ assigned \subseteq Vars /\ analyses \in 0 .. Analyses
  /\ currentNode \in Nodes \cup {0} /\ visited \subseteq Nodes
  /\ ToSet(ifNodes) \subseteq Nodes /\ Len(newNodeCFG) <= Cardinality(Nodes)
  /\ {before.val, after.val} \subseteq [Vars -> Values]

(* In the graph as it is built the `then' branch of every condition has the *)
(* next number and the other one has not: the later stages tell them apart  *)
(* by nothing else ("this must have id+1 of sync statement to insure that   *)
(* the condition is considered true", CreateOperationsSlave.cpp:80).        *)
ThenIsNext ==
  step = "analysed" /\ analyses = 0 =>
    \A n \in Nodes : IsBranch(graph, n) => graph.succ[n][1] = n + 1 /\ graph.succ[n][2] # n + 1

(* The graph, as the operation factory reads it, does what the program      *)
(* does: it meets the same communications in the same order with the same   *)
(* values, and it is never stuck at a condition.                            *)
(* "Is dealt with two blocks, only visit successor that contains the if"    *)
(* (CFGFactory.cpp:196), "Remove dead assignments" (plugin/CMakeLists.txt). *)
SameOutputs ==
  step = "running" /\ AtCommunication(before) =>
    /\ Successors(after) # {}
    /\ IsCommunication(Statement(after.loc)) =>
         LET s == Here(before).stmts[before.index]
         IN  /\ Statement(after.loc) = s
             /\ s.op = "write" => after.val[s.var] = before.val[s.var]
=============================================================================
