-------------------------- MODULE CreateOperations --------------------------
(***************************************************************************)
(* From the paths that were found to the operations of the module's state  *)
(* machine (operationFactory/OperationFactory.cpp).  CreateOperations makes *)
(* an operation of every path, and of the first node of those that begin   *)
(* with a blocking communication another one for the time nobody comes.    *)
(* CreateOperationsSlave makes one for each way the slave reads of a path  *)
(* can turn out.  ReconstructOperations then says under which conditions   *)
(* an operation is taken and what it leaves behind, operations that are    *)
(* never taken are removed, and so are variables nothing depends on.       *)
(***************************************************************************)
EXTENDS FindOperations

VARIABLES stage,       \* "find", "extend", "explicit", "implicit", "reconstruct",
                       \*   "valid", "optimize" or "created"
          at,          \* how many paths or operations the stage has gone through
          rawOperations,        \* paths, with the slave reads that take place
          slaveInsStack, visited,   \* the slave reads of a path; those that do not take place
          nodeWaitList,         \* the nodes that have a wait operation
          operation,            \* the Operation objects, numbered as they are made
          operationsList,       \* the numbers of those that are kept
          outgoing, incoming,   \* for each state, those that start and end there
          variableMap,          \* the variables met so far
          varMap                \* the variables that are kept

createVars == << stage, at, rawOperations, slaveInsStack, visited, nodeWaitList, operation,
                 operationsList, outgoing, incoming, variableMap, varMap >>

CreateInit == /\ stage = "find" /\ at = 0
              /\ rawOperations = << >> /\ slaveInsStack = << >> /\ visited = {}
              /\ nodeWaitList = {}
              /\ operation = << >> /\ operationsList = {}
              /\ outgoing = << >> /\ incoming = << >>
              /\ variableMap = {} /\ varMap = {}

Raw(path, synced) == [path |-> path, synced |-> synced]

(* The states are made of the nodes; without slave inputs no path is        *)
(* extended.                                                                *)
Found ==
  /\ stage = "find" /\ phase = "done"
  /\ LET lists == [n \in Range(importantStates) |-> {}]
     IN  outgoing' = lists /\ incoming' = lists
  /\ IF slaveIn(cfg) # {}
     THEN stage' = "extend" /\ UNCHANGED rawOperations
     ELSE /\ rawOperations' = [k \in DOMAIN operations |-> Raw(operations[k], {})]
          /\ stage' = "explicit"
  /\ UNCHANGED << at, slaveInsStack, visited, nodeWaitList, operation, operationsList,
                  variableMap, varMap >>

-----------------------------------------------------------------------------
(* extendRawOperation: the ways the slave reads of a path can turn out, one *)
(* in each turn of the loop; the last one that took place does not in the   *)
(* next turn.                                                               *)

IsSlaveIn(n) == IsComm(cfg, n) /\ Port(cfg, n) \in slaveIn(cfg)

(* The stack when the path has been passed: a slave read is pushed the      *)
(* first time.                                                              *)
PassSlaveIns(path) ==
  LET upTo[i \in 0 .. Len(path)] ==
        IF i = 0 THEN slaveInsStack
        ELSE IF IsSlaveIn(path[i]) /\ path[i] \notin Range(upTo[i - 1])
        THEN Append(upTo[i - 1], path[i]) ELSE upTo[i - 1]
  IN  upTo[Len(path)]

(* Without the reads at its end that have been tried both ways. *)
TriedBoth(s, tried) ==
  LET left == {k \in DOMAIN s : s[k] \notin tried}
  IN  IF left = {} THEN << >> ELSE SubSeq(s, 1, Max(left))

ExtendRawOperation ==
  /\ stage = "extend" /\ at < Len(operations)
  /\ LET path == operations[at + 1]
         reads == {n \in Range(path) : IsSlaveIn(n)}
         passed == PassSlaveIns(path)
         tried == visited \ (Range(passed) \ Range(slaveInsStack))
         rest == TriedBoth(passed, tried)
     IN  /\ rawOperations' = Append(rawOperations, Raw(path, reads \ tried))
         /\ slaveInsStack' = IF path[1] = 0 THEN << >> ELSE rest
         /\ visited' = IF slaveInsStack' = << >> THEN {} ELSE tried \cup {Last(rest)}
         /\ at' = IF slaveInsStack' = << >> THEN at + 1 ELSE at
  /\ UNCHANGED << stage, nodeWaitList, operation, operationsList, outgoing, incoming,
                  variableMap, varMap >>

Extended == /\ stage = "extend" /\ at = Len(operations)
            /\ stage' = "explicit" /\ at' = 0
            /\ UNCHANGED << rawOperations, slaveInsStack, visited, nodeWaitList, operation,
                            operationsList, outgoing, incoming, variableMap, varMap >>

-----------------------------------------------------------------------------
Sync(p, holds) == [op |-> "sync", port |-> p, holds |-> holds]
Flag(s) == [op |-> "peek", port |-> s.port, var |-> s.flag]

(* The node at which an operation starts: a blocking communication begins   *)
(* with the synchronization, and the value of a write has been there before. *)
First(n) ==
  LET s == cfg.stmt[n]
  IN  CASE ~ IsComm(cfg, n) -> << >>
        [] IsComm(cfg, n) /\ ~ IsBlocking(cfg, n) -> IF IsRead(cfg, n) THEN << s >> ELSE << >>
        [] IsBlocking(cfg, n) ->
             << Sync(s.port, TRUE) >> \o (CASE IsRead(cfg, n) -> << s >>
                                            [] Op(cfg, n) = "try_write" -> << Flag(s) >>
                                            [] OTHER -> << >>)

(* What is left of it when nobody comes.                                    *)
FirstNotSynced(n) == << Sync(cfg.stmt[n].port, FALSE), Flag(cfg.stmt[n]) >>

(* A wait keeps the value of a write.                                       *)
WaitStatements(n) ==
  << Sync(cfg.stmt[n].port, FALSE) >> \o IF IsWrite(cfg, n) THEN << cfg.stmt[n] >> ELSE << >>

(* A slave read that does not take place leaves at most a flag.             *)
Inner(s, n, synced) ==
  CASE ~ IsSlaveIn(n) -> << s >>
    [] IsSlaveIn(n) /\ n \in synced -> << Sync(s.port, TRUE), s >>
    [] IsSlaveIn(n) /\ n \notin synced ->
         << Sync(s.port, FALSE) >> \o IF IsNonBlockingAccess(cfg, n) THEN << Flag(s) >> ELSE << >>

(* The node at which it ends: the value of a write is there already.        *)
LastNode(n) == IF IsWrite(cfg, n) THEN << cfg.stmt[n] >> ELSE << >>

Concat(parts) ==
  LET upTo[i \in 0 .. Len(parts)] == IF i = 0 THEN << >> ELSE upTo[i - 1] \o parts[i]
  IN  upTo[Len(parts)]

InnerStatements(path, synced) ==
  Concat([i \in 1 .. Len(path) - 2 |->
            Inner(Stmt(cfg, path[i + 1], path[i + 2]), path[i + 1], synced)])

StatementsAfter(raw) == InnerStatements(raw.path, raw.synced) \o LastNode(Last(raw.path))

Statements(raw) == First(raw.path[1]) \o StatementsAfter(raw)
NotSynced(raw) == FirstNotSynced(raw.path[1]) \o StatementsAfter(raw)

Operation(start, end, wait, stmts) ==
  [start |-> start, end |-> end, wait |-> wait, stmts |-> stmts,
   assumptions |-> {}, commitments |-> << >>, signals |-> << >>]

(* A new operation is entered in the lists of its states.                   *)
addOperation(op) ==
  LET id == Len(operation) + 1
  IN  /\ operation' = Append(operation, op)
      /\ operationsList' = operationsList \cup {id}
      /\ outgoing' = [outgoing EXCEPT ![op.start] = @ \cup {id}]
      /\ incoming' = [incoming EXCEPT ![op.end] = @ \cup {id}]

Stay == UNCHANGED << operation, operationsList, outgoing, incoming >>

CreateExplicit ==
  /\ stage = "explicit" /\ at < Len(rawOperations)
  /\ LET raw == rawOperations[at + 1]
     IN  addOperation(Operation(raw.path[1], Last(raw.path), FALSE, Statements(raw)))
  /\ at' = at + 1
  /\ UNCHANGED << stage, rawOperations, slaveInsStack, visited, nodeWaitList, variableMap, varMap >>

AllExplicit ==
  /\ stage = "explicit" /\ at = Len(rawOperations)
  /\ stage' = "implicit" /\ at' = 0
  /\ UNCHANGED << rawOperations, slaveInsStack, visited, nodeWaitList, operation, operationsList,
                  outgoing, incoming, variableMap, varMap >>

(* One wait operation for a node, one more operation for each path that     *)
(* begins with a try_read or try_write.                                     *)
CreateImplicit ==
  /\ stage = "implicit" /\ at < Len(rawOperations)
  /\ LET raw == rawOperations[at + 1]
         node == raw.path[1]
     IN  IF IsBlocking(cfg, node) /\ ~ IsNonBlockingAccess(cfg, node) /\ node \notin nodeWaitList
         THEN /\ addOperation(Operation(node, node, TRUE, WaitStatements(node)))
              /\ nodeWaitList' = nodeWaitList \cup {node}
         ELSE /\ IF IsBlocking(cfg, node) /\ IsNonBlockingAccess(cfg, node)
                 THEN addOperation(Operation(node, Last(raw.path), FALSE, NotSynced(raw)))
                 ELSE Stay
              /\ UNCHANGED nodeWaitList
  /\ at' = at + 1
  /\ UNCHANGED << stage, rawOperations, slaveInsStack, visited, variableMap, varMap >>

AllImplicit ==
  /\ stage = "implicit" /\ at = Len(rawOperations)
  /\ stage' = "reconstruct" /\ at' = 0
  /\ UNCHANGED << rawOperations, slaveInsStack, visited, nodeWaitList, operation, operationsList,
                  outgoing, incoming, variableMap, varMap >>

-----------------------------------------------------------------------------
(* sortOperation: the conditions on the way and what it amounts to.  Every  *)
(* variable met in this operation or one before is committed to, the ones   *)
(* it leaves alone to what they are.  A wait keeps the signal it writes.    *)

Variables(op) == IF op.wait THEN {}
                 ELSE UNION {{s[f] : f \in DOMAIN s \cap {"var", "from", "flag"}} : s \in Range(op.stmts)}

Signals(op) == LET sig == execute(op.stmts).sig
               IN  IF op.wait THEN [p \in DOMAIN sig |-> << "data", p >>] ELSE sig

(* Mutant: only the variables of the operation are committed to. *)
MetHere(op) == Variables(op)

Met(op) == variableMap \cup Variables(op)

Reconstruct ==
  /\ stage = "reconstruct" /\ at < Len(operation)
  /\ LET op == operation[at + 1]
         sym == execute(op.stmts)
     IN  /\ variableMap' = Met(op)
         /\ operation' = [operation EXCEPT ![at + 1] =
                            [op EXCEPT !.assumptions = sym.conditions, !.signals = Signals(op),
                                       !.commitments = [x \in variableMap' |-> sym.map[x]]]]
  /\ at' = at + 1
  /\ UNCHANGED << stage, rawOperations, slaveInsStack, visited, nodeWaitList, operationsList,
                  outgoing, incoming, varMap >>

AllReconstructed ==
  /\ stage = "reconstruct" /\ at = Len(operation)
  /\ stage' = "valid" /\ at' = 0
  /\ UNCHANGED << rawOperations, slaveInsStack, visited, nodeWaitList, operation, operationsList,
                  outgoing, incoming, variableMap, varMap >>

(* findValidOperations: an operation that is never taken is removed from    *)
(* the lists of both of its states.                                         *)
(* Mutant: the state at its end keeps it. *)
LeaveState(op, id) == /\ outgoing' = [outgoing EXCEPT ![op.start] = @ \ {id}]
                      /\ UNCHANGED incoming

LeaveStates(op, id) == /\ outgoing' = [outgoing EXCEPT ![op.start] = @ \ {id}]
                       /\ incoming' = [incoming EXCEPT ![op.end] = @ \ {id}]

isOperationReachable(op) == Satisfiable(op.assumptions)

FindValid ==
  /\ stage = "valid" /\ at < Len(operation)
  /\ LET op == operation[at + 1]
     IN  IF isOperationReachable(op)
         THEN UNCHANGED << operationsList, outgoing, incoming >>
         ELSE /\ LeaveStates(op, at + 1)
              /\ operationsList' = operationsList \ {at + 1}
  /\ at' = at + 1
  /\ UNCHANGED << stage, rawOperations, slaveInsStack, visited, nodeWaitList, operation,
                  variableMap, varMap >>

AllValid ==
  /\ stage = "valid" /\ at = Len(operation)
  /\ stage' = "optimize" /\ at' = 0
  /\ UNCHANGED << rawOperations, slaveInsStack, visited, nodeWaitList, operation, operationsList,
                  outgoing, incoming, variableMap, varMap >>

(* OptimizeOperations2: a variable no condition and no other variable or    *)
(* signal depends on is dropped with all that is said of it.                *)
UsedIn(op) ==
  {x \in Vars : \/ \E c \in op.assumptions : c[1] = << "variable", x >>
                \/ \E y \in DOMAIN op.commitments : y # x /\ op.commitments[y] = << "variable", x >>
                \/ \E p \in DOMAIN op.signals : op.signals[p] = << "variable", x >>}

Optimize ==
  /\ stage = "optimize"
  /\ varMap' = UNION {UsedIn(operation[k]) : k \in operationsList}
  /\ operation' = [k \in DOMAIN operation |->
                     [operation[k] EXCEPT !.commitments = Restrict(@, DOMAIN @ \cap varMap')]]
  /\ stage' = "created"
  /\ UNCHANGED << at, rawOperations, slaveInsStack, visited, nodeWaitList, operationsList,
                  outgoing, incoming, variableMap >>

CreateNext == /\ \/ Found \/ ExtendRawOperation \/ Extended \/ CreateExplicit \/ AllExplicit
                 \/ CreateImplicit \/ AllImplicit \/ Reconstruct \/ AllReconstructed
                 \/ FindValid \/ AllValid \/ Optimize
              /\ UNCHANGED vars

-----------------------------------------------------------------------------
(* The lists of a state hold the operations that are kept and start or end  *)
(* there, and no others: what the property suite goes through, state by     *)
(* state, is what was found valid.                                          *)
ListsAgree ==
  stage # "find" =>
    \A n \in Range(importantStates) :
      /\ outgoing[n] = {k \in operationsList : operation[k].start = n}
      /\ incoming[n] = {k \in operationsList : operation[k].end = n}
=============================================================================
