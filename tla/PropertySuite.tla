---------------------------- MODULE PropertySuite ----------------------------
(***************************************************************************)
(* The property suite that is made of the operations                       *)
(* (propertyFactory/CreatePropertySuite.cpp): one property for the reset,  *)
(* one for each operation, one for each wait.  Besides what the operation  *)
(* itself says, a property says which ports are notified at its end.       *)
(***************************************************************************)
EXTENDS CreateOperations

Ports == DOMAIN cfg.ports
isInput(p) == cfg.ports[p] \in {"blocking in", "master in", "slave in"}
isOutput(p) == cfg.ports[p] \in {"blocking out", "master out", "slave out"}

(* The ports that have a notify signal.                                     *)
NotifyPorts == {p \in Ports : cfg.ports[p] \in Blocking \cup {"master out"}}

(* A state at a wait has none. *)
communicationPort(n) == IF IsComm(cfg, n) THEN {Port(cfg, n)} ELSE {}

OutputsOf(op) == {p \in DOMAIN op.signals : isOutput(p)}

(* "Add all possible inputs for the next state"                             *)
InputsOf(op) ==
  {p \in Ports :
     /\ isInput(p)
     /\ \/ \E x \in DOMAIN op.commitments : op.commitments[x] \in {<< "data", p >>, << "sync", p >>}
        \/ \E q \in DOMAIN op.signals : op.signals[q] \in {<< "data", p >>, << "sync", p >>}}

usedPortsList(op) ==
  communicationPort(op.end) \cup OutputsOf(op)
    \cup IF op.start = 0 THEN {}
         ELSE UNION {InputsOf(operation[k]) : k \in outgoing[op.end]}

(* Mutant: the output ports are those of the next operations. *)
NotifiedLate(op) ==
  NotifyPorts \cap (communicationPort(op.end)
                      \cup UNION {OutputsOf(operation[k]) : k \in outgoing[op.end]})

(* The ports a property says are notified when the operation is over.       *)
Notified(op) == NotifyPorts \cap IF op.wait THEN communicationPort(op.end) ELSE usedPortsList(op)

(* "Only one operation allowed to start from init"                          *)
Suite == /\ stage = "created"
         /\ stage' = IF Cardinality(outgoing[0]) = 1 THEN "suite" ELSE "failed"
         /\ UNCHANGED << vars, at, rawOperations, slaveInsStack, visited, nodeWaitList, operation,
                         operationsList, outgoing, incoming, variableMap, varMap >>
=============================================================================
