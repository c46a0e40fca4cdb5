---------------------------- MODULE ModelFactory ----------------------------
(***************************************************************************)
(* What the model factory does with the code of a module: its thread       *)
(* becomes a graph, which may be optimized (addBehavior), its functions    *)
(* become lists of return values (addFunctions).  Both begin with the same *)
(* search through clang's blocks.  What comes out is executed: a graph     *)
(* side by side with the thread, a function for all its arguments.         *)
(***************************************************************************)
EXTENDS Optimizer, FunctionFactory

VARIABLE arguments   \* what a function is called with

functionVars == << returnValueConditionList, arguments >>
modelVars == << vars, functionVars >>

IsFunction == source.kind = "function"
None == [x \in Vars |-> 0]

ModelInit == Init /\ returnValueConditionList = << >> /\ arguments = None

OptimizerUnchanged == UNCHANGED << graph, stmtInfo, toggled, numToTrueToggles, pass, deadNodeDetected,
                                   deadAssignmentSet, assigned, renumberVars, buildVars, analyses >>

addFunction ==
  /\ step = "blocks" /\ todo = << >>
  /\ LET list == Function
     IN  IF Accepted(list)
         THEN returnValueConditionList' = list /\ step' = "function"
         ELSE step' = "thrown" /\ UNCHANGED returnValueConditionList
  /\ UNCHANGED << runVars, arguments >> /\ OptimizerUnchanged

Call ==
  /\ step = "function" /\ step' = "called"
  /\ \E val \in [Vars -> Values] :
       arguments' = val /\ before' = InBlock(source.first, 1, val)
  /\ UNCHANGED << after, returnValueConditionList >> /\ OptimizerUnchanged

AtReturn == ~ AtEnd(before) /\ Here(before).stmts[before.index].op = "return"

RunFunction ==
  /\ step = "called" /\ ~ AtReturn
  /\ before' = StepProgram(before, 0)
  /\ UNCHANGED << step, after, functionVars >> /\ OptimizerUnchanged

FunctionNext == \/ Build /\ UNCHANGED functionVars
                \/ addFunction \/ Call \/ RunFunction

ModelNext == \/ IsFunction /\ FunctionNext
             \/ ~ IsFunction /\ Next /\ UNCHANGED functionVars

ModelSpec == ModelInit /\ [][ModelNext]_modelVars

-----------------------------------------------------------------------------
ModelTypeOK ==
  /\ TypeOK
  /\ step \in Steps \cup {"function", "called"}
  /\ arguments \in [Vars -> Values]
  /\ \A i \in DOMAIN returnValueConditionList :
       /\ returnValueConditionList[i].returned # << >>
       /\ \A c \in returnValueConditionList[i].conditions : c.holds \in BOOLEAN

Evaluate(expr, val) == IF expr[1] = "value" THEN expr[2] ELSE val[expr[2]]
Applies(entry, val) ==
  \A c \in entry.conditions :
    c.holds <=> \E a \in c.test : \A t \in a : Evaluate(t[1], val) = t[2]

(* The blocks that can be reached from those in S without meeting `end'.    *)
RECURSIVE Around(_, _, _)
Around(succ, end, S) ==
  LET more == S \cup (UNION {Range(succ[b]) : b \in S} \ {end})
  IN  IF more = S THEN S ELSE Around(succ, end, more)

(* The branches of b do not all meet where FindEndNode says, or a block of  *)
(* one of them was left out because another way to it had been followed.    *)
LeavesOut(succ, b) == ~ (Around(succ, EndNode(succ, b), {b}) \subseteq PathNodes(succ, b))

(* Whatever a function is called with, the conditions of exactly one entry  *)
(* of its list hold, and that entry has the value the function returns      *)
(* ("Computes all possible return values dependent on the inputs",          *)
(* FunctionFactory.cpp:10).  Where blocks were left out the compiler may    *)
(* give up, and only there; it never goes on with a wrong list.             *)
ReturnsAsCalled ==
  /\ IsFunction /\ step = "thrown" =>
       \E b \in 0 .. Terminal - 1 : HasIf(b) /\ LeavesOut(addTerminalNodeForFunctions, b)
  /\ step = "called" /\ AtReturn =>
       LET entries == {i \in DOMAIN returnValueConditionList :
                         Applies(returnValueConditionList[i], arguments)}
           returns == before.val[Here(before).stmts[before.index].var]
       IN  \E i \in entries : /\ entries = {i}
                              /\ Evaluate(returnValueConditionList[i].returned[1], arguments) = returns
=============================================================================
