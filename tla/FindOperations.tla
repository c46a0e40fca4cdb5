--------------------------- MODULE FindOperations ---------------------------
(***************************************************************************)
(* FindOperations::processCFG: which nodes of a module's graph are states, *)
(* and which paths between them are operations.  Every round searches the  *)
(* paths of all states.  It ends early when a path goes on for ever, and   *)
(* then, or when an operation uses a master port wrongly, one more node    *)
(* becomes a state and the next round starts from nothing.                 *)
(***************************************************************************)
EXTENDS FindStateOperations, FindStateBacktrack

CONSTANT Programs   \* the graphs the translation may be started on

VARIABLES operations,            \* the paths kept in this round
          index,                 \* the node that is visited, the state that is searched
          new_important_state,
          phase                  \* "initial", "round", "states", "check",
                                 \*   "done" or "error"

foundVars == << operations, index, new_important_state, phase >>
vars == << cfg, importantStates, searchVars, foundVars >>

(* checkSanity: a module with slave ports has no blocking ports. *)
slaveIn(g) == {p \in DOMAIN g.ports : g.ports[p] = "slave in"}
slaveOut(g) == {p \in DOMAIN g.ports : g.ports[p] = "slave out"}
slaveModule(g) == slaveIn(g) \cup slaveOut(g) # {}
foundBlocking(g) == \E p \in DOMAIN g.ports : g.ports[p] \in Blocking

ProgramsAreGraphs ==
  \A g \in Programs :
    /\ 0 \in Node(g) /\ Node(g) \subseteq Nat
    /\ \A n \in Node(g) : /\ Succ(g, n) \in Seq(Node(g))
                          /\ Len(Succ(g, n)) \in {1, 2}
                          /\ IsComm(g, n) => Port(g, n) \in DOMAIN g.ports
    /\ Op(g, 0) = "reset"

ASSUME ProgramsAssumption == ProgramsAreGraphs

(* A variable can hold something, and branches are conditions.             *)
ASSUME BranchesAssumption == Values # {} /\ \A g \in Programs : BranchesDecide(g)

Init == /\ cfg \in Programs
        /\ importantStates = << 0 >>
        /\ SearchInit
        /\ operations = << >> /\ index = 0
        /\ new_important_state = FALSE
        /\ phase = IF slaveModule(cfg) /\ foundBlocking(cfg) THEN "error" ELSE "initial"

(* findInitialImportantStates: after the root, in the order of the nodes,   *)
(* waits and blocking communication.                                        *)
ColorInitial == /\ phase = "initial"
                /\ LET initial == IsBlocking(cfg, index) \/ Op(cfg, index) = "wait"
                   IN  /\ importantStates' = IF initial THEN Append(importantStates, index)
                                                        ELSE importantStates
                       /\ new_important_state' = (new_important_state \/ initial)
                /\ index' = index + 1
                /\ phase' = IF index' \in Node(cfg) THEN "initial" ELSE "round"
                /\ UNCHANGED << cfg, searchVars, operations >>

RoundStart == /\ phase = "round"
              /\ new_important_state' = FALSE
              /\ operations' = << >>
              /\ index' = 1
              /\ phase' = "states"
              /\ UNCHANGED << cfg, importantStates, searchVars >>

SearchState == /\ phase = "states" /\ search = "idle"
               /\ index <= Len(importantStates)
               /\ Find(importantStates[index])
               /\ UNCHANGED << cfg, importantStates, foundVars >>

SearchStep == /\ phase = "states"
              /\ Iterate
              /\ UNCHANGED foundVars

(* Mutant: every way to the state must allow the path. *)
ReachedByAll(path) == \A b \in stateBacktracks(cfg, importantStates[index]) :
                        isPathReachable(cfg, b, path)

(* The state's paths that some way to the state allows are operations. *)
Reached(path) == \E b \in stateBacktracks(cfg, importantStates[index]) :
                   isPathReachable(cfg, b, path)

(* The paths found are gone through from the first to the last. *)
KeepOperation == /\ phase = "states" /\ search = "finished"
                 /\ stateOperations # << >>
                 /\ operations' = IF Reached(Head(stateOperations))
                                  THEN Append(operations, Head(stateOperations))
                                  ELSE operations
                 /\ stateOperations' = Tail(stateOperations)
                 /\ UNCHANGED << cfg, importantStates, stack, operationPath, indexes,
                                 branchingNodesIndex, spuriousPath, search, index,
                                 new_important_state, phase >>

StateSearched == /\ phase = "states" /\ search = "finished"
                 /\ stateOperations = << >>
                 /\ index' = index + 1
                 /\ search' = "idle"
                 /\ UNCHANGED << cfg, importantStates, stack, operationPath, indexes,
                                 branchingNodesIndex, stateOperations, spuriousPath,
                                 operations, new_important_state, phase >>

AllSearched == /\ phase = "states" /\ search = "idle"
               /\ index > Len(importantStates)
               /\ phase' = "check"
               /\ UNCHANGED << cfg, importantStates, searchVars, operations, index,
                               new_important_state >>

-----------------------------------------------------------------------------
(* Coloring.  Along a path, the first master communication that reads after *)
(* a write, or that uses a port used before, decides the node to color:     *)
(* of a read after a write the last write; of a port used twice the second  *)
(* node if it reads, the first if it writes.                                *)

Masters(path) == {i \in DOMAIN path : IsMaster(cfg, path[i])}
WritesBefore(path, i) == {j \in Masters(path) : j < i /\ IsWrite(cfg, path[j])}
SamePortBefore(path, i) ==
  {j \in Masters(path) : j < i /\ Port(cfg, path[j]) = Port(cfg, path[i])}

ReadAfterWrite(path, i) == IsRead(cfg, path[i]) /\ WritesBefore(path, i) # {}
Conflicts(path) ==
  {i \in Masters(path) : ReadAfterWrite(path, i) \/ SamePortBefore(path, i) # {}}

(* The node to color for the first conflict; a node that is a state already *)
(* leaves the other one.                                                    *)
Candidate(path, states) ==
  LET i == Min(Conflicts(path))
      first == path[Min(SamePortBefore(path, i))]
  IN  IF ReadAfterWrite(path, i) THEN path[Max(WritesBefore(path, i))]
      ELSE IF first \in states \/ IsRead(cfg, path[i]) THEN path[i]
      ELSE first

(* Mutant: another round, whether or not the node was a state. *)
ColorAlways(node) == /\ importantStates' = IF IsImportant(node) THEN importantStates
                                           ELSE Append(importantStates, node)
                     /\ new_important_state' = TRUE

(* A candidate that is a state already is not colored. *)
Color(node) == IF IsImportant(node)
               THEN UNCHANGED << importantStates, new_important_state >>
               ELSE /\ importantStates' = Append(importantStates, node)
                    /\ new_important_state' = TRUE

(* processSpurious: the round ends, colored or not. *)
ProcessSpurious ==
  LET node == IF Conflicts(spuriousPath) # {}
              THEN Candidate(spuriousPath, {spuriousPath[1]})
              ELSE spuriousPath[Max(Masters(spuriousPath))]
  IN  /\ phase = "states" /\ search = "spurious"
      /\ ~ slaveModule(cfg)
      /\ Masters(spuriousPath) # {}
      /\ Color(node)
      /\ phase' = "check"
      /\ search' = "idle"
      /\ UNCHANGED << cfg, stack, operationPath, indexes, branchingNodesIndex,
                      stateOperations, spuriousPath, operations, index >>

(* "Invalid Path": no communication can be colored. *)
InvalidPath == /\ phase = "states" /\ search = "spurious"
               /\ slaveModule(cfg) \/ Masters(spuriousPath) = {}
               /\ phase' = "error"
               /\ UNCHANGED << cfg, importantStates, searchVars, operations, index,
                               new_important_state >>

-----------------------------------------------------------------------------
(* Where a path communicates as a slave.                                    *)
pathSlaves(path) == {i \in DOMAIN path : IsSlave(cfg, path[i])}
countIns(path, k) ==
  Cardinality({i \in pathSlaves(path) : i <= k /\ Port(cfg, path[i]) \in slaveIn(cfg)})
countOuts(path, k) ==
  Cardinality({i \in pathSlaves(path) : i <= k /\ Port(cfg, path[i]) \in slaveOut(cfg)})

flips(path, p) == Cardinality({i \in pathSlaves(path) : Port(cfg, path[i]) = p})

(* Mutant: the ports are counted, but not told apart. *)
checkSlavesCount(path) ==
  /\ \A k \in pathSlaves(path) :
       countIns(path, k) < Cardinality(slaveIn(cfg)) => countOuts(path, k) = 0
  /\ countIns(path, Len(path)) = Cardinality(slaveIn(cfg))
  /\ countOuts(path, Len(path)) = Cardinality(slaveOut(cfg))

(* All inputs come before all outputs, each once. *)
checkSlavesOrder(path) ==
  /\ \A k \in pathSlaves(path) :
       /\ countIns(path, k) < Cardinality(slaveIn(cfg)) => countOuts(path, k) = 0
       /\ countIns(path, k) <= Cardinality(slaveIn(cfg))
       /\ countOuts(path, k) <= Cardinality(slaveOut(cfg))
  /\ countIns(path, Len(path)) = Cardinality(slaveIn(cfg))
  /\ countOuts(path, Len(path)) = Cardinality(slaveOut(cfg))
  /\ \A p \in slaveIn(cfg) \cup slaveOut(cfg) : flips(path, p) % 2 = 1

(* checkForSlaves: the reset operation reads no slave port. *)
SlavesValid(path) == IF path[1] = 0
                     THEN \A i \in DOMAIN path : IsSlave(cfg, path[i]) =>
                            Port(cfg, path[i]) \notin slaveIn(cfg)
                     ELSE checkSlavesOrder(path)

(* Mutant: the state at the end is looked at too. *)
InteriorAndEnd(path) == SubSeq(path, 2, Len(path))

(* checkForMasters looks at the nodes between the two states. *)
Interior(path) == SubSeq(path, 2, Len(path) - 1)

(* Mutant: the operations of the last state are not looked at. *)
InvalidOperationsBut == {k \in DOMAIN operations \ {Len(operations)} :
                           Conflicts(Interior(operations[k])) # {}}

InvalidOperations == {k \in DOMAIN operations : Conflicts(Interior(operations[k])) # {}}

again == phase' = IF new_important_state' THEN "round" ELSE "done"

CheckNothing == /\ phase = "check" /\ new_important_state
                /\ phase' = "round"
                /\ UNCHANGED << cfg, importantStates, searchVars, operations, index,
                                new_important_state >>

CheckSlaves == /\ phase = "check" /\ ~ new_important_state
               /\ slaveModule(cfg)
               /\ phase' = IF /\ \A k \in DOMAIN operations : SlavesValid(operations[k])
                              /\ InvalidOperations = {}
                           THEN "done" ELSE "error"
               /\ UNCHANGED << cfg, importantStates, searchVars, operations, index,
                               new_important_state >>

CheckMasters == /\ phase = "check" /\ ~ new_important_state
                /\ ~ slaveModule(cfg)
                /\ LET path == Interior(operations[Min(InvalidOperations)])
                   IN  IF InvalidOperations = {}
                       THEN UNCHANGED << importantStates, new_important_state >>
                       ELSE /\ importantStates' = Append(importantStates, Candidate(path, {}))
                            /\ new_important_state' = TRUE
                /\ again
                /\ UNCHANGED << cfg, searchVars, operations, index >>

(* The list of operations is handed on, or the translation has failed. *)
Stopped == phase \in {"done", "error"} /\ UNCHANGED vars

Next == \/ ColorInitial \/ RoundStart
        \/ SearchState \/ SearchStep \/ KeepOperation \/ StateSearched \/ AllSearched
        \/ ProcessSpurious \/ InvalidPath \/ CheckNothing \/ CheckSlaves \/ CheckMasters
        \/ Stopped

Spec == Init /\ [][Next]_vars /\ WF_vars(Next)

-----------------------------------------------------------------------------
(* Properties *)

TypeOK == /\ importantStates \in Seq(Node(cfg)) /\ importantStates # << >>
          /\ stack \in Seq(Node(cfg)) /\ operationPath \in Seq(Node(cfg))
          /\ stateOperations \in Seq(Seq(Node(cfg))) /\ operations \in Seq(Seq(Node(cfg)))
          /\ spuriousPath \in Seq(Node(cfg))
          /\ countWhile \in Nat /\ whileIndex \in Seq(Nat)
          /\ branchingNodesIndex \in Seq(Nat)
          /\ search \in {"idle", "running", "finished", "spurious"}
          /\ index \in Nat
          /\ new_important_state \in BOOLEAN
          /\ phase \in {"initial", "round", "states", "check", "done", "error"}

(* No node becomes a state twice: checkForMasters colors without looking,   *)
(* so the nodes inside an operation must never be states.                   *)
ColoredOnce == \A i, j \in DOMAIN importantStates :
                 importantStates[i] = importantStates[j] => i = j

(* What the operations of a translation that succeeds are used for: between *)
(* its states an operation reads no port after a write and uses no master   *)
(* port twice, and it goes from a state to a state and over none.           *)
OperationsValid ==
  phase = "done" => \A k \in DOMAIN operations :
                      /\ IsOperation(operations[k])
                      /\ Conflicts(SubSeq(operations[k], 2, Len(operations[k]) - 1)) = {}

(* The operations of a module with slave ports that succeeds serve every    *)
(* slave port exactly once, the inputs first.                               *)
SlavesServed ==
  phase = "done" /\ slaveModule(cfg) =>
    \A k \in DOMAIN operations :
      LET path == operations[k]
          port(i) == Port(cfg, path[i])
      IN  path[1] # 0 =>
            /\ {port(i) : i \in pathSlaves(path)} = slaveIn(cfg) \cup slaveOut(cfg)
            /\ \A i, j \in pathSlaves(path) :
                 i < j => /\ port(i) # port(j)
                          /\ port(j) \in slaveIn(cfg) => port(i) \in slaveIn(cfg)

(* "we have to re-span the cfg and find all operations again"               *)
(* (FindOperations.cpp:143): a translation that succeeds has searched the   *)
(* paths of all its states.                                                 *)
AllStatesSearched == phase = "done" => index > Len(importantStates)

-----------------------------------------------------------------------------
(* The inductive invariant *)

(* While a search runs, each branching lies on the path, the stack does not *)
(* outgrow the branchings, and the path has passed no state.                *)
SearchInv ==
  search = "running" =>
    /\ stack # << >> /\ Len(stack) <= Len(branchingNodesIndex) + 1
    /\ countWhile = Len(whileIndex)
    /\ \A k \in DOMAIN branchingNodesIndex :
         branchingNodesIndex[k] \in 1 .. Len(operationPath)
    /\ \A j, k \in DOMAIN branchingNodesIndex :
         j < k => branchingNodesIndex[j] < branchingNodesIndex[k]
    /\ \A i \in 2 .. Len(operationPath) : ~ IsImportant(operationPath[i])

(* What has been found and kept goes from state to state.                   *)
FoundInv ==
  search # "idle" => \A k \in DOMAIN stateOperations : IsOperation(stateOperations[k])

KeptInv ==
  phase \in {"states", "check", "done"} /\ ~ new_important_state =>
    \A k \in DOMAIN operations : IsOperation(operations[k])

PhaseInv ==
  /\ phase \in {"initial", "round", "check"} => search = "idle"
  /\ phase = "states" => index >= 1 /\ ~ new_important_state
  /\ phase = "initial" =>
       /\ index \in Node(cfg)
       /\ \A i \in DOMAIN importantStates : importantStates[i] = 0 \/ importantStates[i] < index
  /\ phase = "done" => /\ ~ new_important_state
                       /\ \A k \in DOMAIN operations :
                            Conflicts(SubSeq(operations[k], 2, Len(operations[k]) - 1)) = {}

IInv == /\ cfg \in Programs
        /\ TypeOK
        /\ SearchInv /\ FoundInv /\ KeptInv /\ PhaseInv
        /\ ColoredOnce

=============================================================================
