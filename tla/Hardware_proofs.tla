---------------------------- MODULE Hardware_proofs ----------------------------
(***************************************************************************)
(* Proofs about the translation as a whole, for every set of programs:     *)
(* what was proved of the search holds in all that follows, the lists of   *)
(* operations agree, and what the symbolic execution of a statement says   *)
(* is what the running program does.                                       *)
(***************************************************************************)
EXTENDS Hardware, FindOperations_proofs, SequenceTheorems

(* The search is over when operations are made of its paths.               *)
LEMMA DoneIsDone == phase = "done" /\ Next => UNCHANGED vars
BY DEF Next, ColorInitial, RoundStart, SearchState, SearchStep, KeepOperation, StateSearched,
       AllSearched, ProcessSpurious, InvalidPath, CheckNothing, CheckSlaves, CheckMasters, Stopped

(* To the search, what follows is stuttering.                              *)
LEMMA SearchGoesOn == [HardwareNext]_allVars => [Next]_vars
BY DEF HardwareNext, FindStep, Create, CreateNext, Reset, Suite, WaitStep, Run, allVars

(* Between its first step and the last of the circuit the translation keeps *)
(* the invariant of the search.                                            *)
THEOREM SearchInvariance == HardwareSpec => []IInv
<1>1. HardwareInit => IInv
  BY InitIInv DEF HardwareInit
<1>2. IInv /\ [HardwareNext]_allVars => IInv'
  BY SearchGoesOn, NextIInv
<1> QED
  BY <1>1, <1>2, PTL DEF HardwareSpec

-----------------------------------------------------------------------------
(* An Operation object, whatever is said of it yet.                        *)
IsObject(o) == o = [start |-> o.start, end |-> o.end, wait |-> o.wait, stmts |-> o.stmts,
                    assumptions |-> o.assumptions, commitments |-> o.commitments,
                    signals |-> o.signals]

States == Range(importantStates)

(* The lists of the states when there are objs of which kept are left.     *)
Lists(objs, kept) ==
  /\ kept \subseteq DOMAIN objs
  /\ outgoing = [n \in States |-> {k \in kept : objs[k].start = n}]
  /\ incoming = [n \in States |-> {k \in kept : objs[k].end = n}]

(* The inductive invariant of the creation of operations.                  *)
CreateInv ==
  /\ operation \in Seq(Range(operation))
  /\ \A k \in DOMAIN operation : IsObject(operation[k])
  /\ stage = "find" => operation = << >> /\ operationsList = {}
  /\ stage # "find" => phase = "done" /\ Lists(operation, operationsList)

(* A function on 1 .. n is a sequence of its own values.                   *)
LEMMA OwnValues ==
  ASSUME NEW n \in Nat, NEW f, f = [k \in 1 .. n |-> f[k]]
  PROVE  f \in Seq(Range(f)) /\ Len(f) = n
<1>1. f \in [1 .. n -> Range(f)]
  BY DEF Range
<1> QED
  BY <1>1

LEMMA AppendObject ==
  ASSUME NEW s, s \in Seq(Range(s)), NEW e
  PROVE  /\ Append(s, e) \in Seq(Range(Append(s, e)))
         /\ DOMAIN Append(s, e) = DOMAIN s \cup {Len(s) + 1}
         /\ \A k \in DOMAIN s : Append(s, e)[k] = s[k]
         /\ Append(s, e)[Len(s) + 1] = e
         /\ Len(s) + 1 \notin DOMAIN s
<1> DEFINE S == Range(s) \cup {e}
<1> DEFINE t == Append(s, e)
<1>1. Len(s) \in Nat /\ s \in [1 .. Len(s) -> Range(s)]
  OBVIOUS
<1>2. s \in Seq(S) /\ e \in S
  BY <1>1
<1> HIDE DEF S
<1>3. /\ t \in Seq(S) /\ Len(t) = Len(s) + 1 /\ t[Len(s) + 1] = e
      /\ \A k \in 1 .. Len(s) : t[k] = s[k]
  BY <1>2, AppendProperties
<1> HIDE DEF t
<1>4. t = [k \in 1 .. Len(s) + 1 |-> t[k]] /\ DOMAIN t = 1 .. Len(s) + 1
  BY <1>1, <1>3
<1>5. t \in Seq(Range(t))
  BY <1>1, <1>4, OwnValues
<1>6. DOMAIN s = 1 .. Len(s)
  BY <1>1
<1>7. DOMAIN t = DOMAIN s \cup {Len(s) + 1} /\ Len(s) + 1 \notin DOMAIN s
  BY <1>1, <1>4, <1>6
<1> QED
  BY <1>3, <1>5, <1>6, <1>7 DEF t

LEMMA InitCreateInv == HardwareInit => CreateInv
<1> SUFFICES ASSUME HardwareInit PROVE CreateInv
  OBVIOUS
<1>1. operation = << >> /\ operationsList = {} /\ stage = "find"
  BY DEF HardwareInit, CreateInit
<1>2. << >> \in Seq(Range(<< >>))
  OBVIOUS
<1> QED
  BY <1>1, <1>2 DEF CreateInv

(* A step that makes no operation.                                         *)
LEMMA SameOperations ==
  ASSUME CreateInv, stage # "find", stage' # "find", UNCHANGED vars,
         UNCHANGED << operation, operationsList, outgoing, incoming >>
  PROVE  CreateInv'
BY DEF CreateInv, Lists, States, vars, foundVars

(* The empty lists are those of no operations.                             *)
LEMMA FoundStep ==
  ASSUME CreateInv, Found, UNCHANGED vars
  PROVE  CreateInv'
<1>1. /\ stage = "find" /\ stage' # "find" /\ phase = "done"
      /\ operation = << >> /\ operationsList = {}
      /\ UNCHANGED << operation, operationsList >>
      /\ outgoing' = [n \in States |-> {}] /\ incoming' = [n \in States |-> {}]
  BY DEF Found, CreateInv, States
<1>2. importantStates' = importantStates /\ phase' = phase
  BY DEF vars, foundVars
<1>3. Lists(operation, operationsList)'
  BY <1>1, <1>2 DEF Lists, States
<1> QED
  BY <1>1, <1>2, <1>3 DEF CreateInv

(* A new operation enters the lists of the states it starts and ends in.   *)
LEMMA AddStep ==
  ASSUME CreateInv, stage # "find", stage' # "find", UNCHANGED vars,
         NEW op, IsObject(op), addOperation(op)
  PROVE  CreateInv'
<1> DEFINE id == Len(operation) + 1
<1>1. /\ operation' \in Seq(Range(operation'))
      /\ DOMAIN operation' = DOMAIN operation \cup {id}
      /\ \A k \in DOMAIN operation : operation'[k] = operation[k]
      /\ operation'[id] = op /\ id \notin DOMAIN operation
  BY AppendObject DEF CreateInv, addOperation
<1>2. /\ operationsList' = operationsList \cup {id}
      /\ outgoing' = [outgoing EXCEPT ![op.start] = @ \cup {id}]
      /\ incoming' = [incoming EXCEPT ![op.end] = @ \cup {id}]
  BY DEF addOperation
<1>3. Lists(operation, operationsList) /\ phase = "done"
  BY DEF CreateInv
<1>4. States' = States /\ phase' = phase
  BY DEF vars, foundVars, States
<1> HIDE DEF id
<1>5. operationsList' \subseteq DOMAIN operation'
  BY <1>1, <1>2, <1>3 DEF Lists
<1>6. outgoing' = [n \in States |-> {k \in operationsList' : operation'[k].start = n}]
  <2>1. ASSUME NEW n \in States
        PROVE  (IF n = op.start THEN outgoing[n] \cup {id} ELSE outgoing[n])
                 = {k \in operationsList' : operation'[k].start = n}
    BY <1>1, <1>2, <1>3 DEF Lists
  <2>2. outgoing = [n \in States |-> outgoing[n]]
    BY <1>3 DEF Lists
  <2>3. outgoing' = [n \in States |-> IF n = op.start THEN outgoing[n] \cup {id} ELSE outgoing[n]]
    BY <1>2, <2>2
  <2> QED
    BY <2>1, <2>3
<1>7. incoming' = [n \in States |-> {k \in operationsList' : operation'[k].end = n}]
  <2>1. ASSUME NEW n \in States
        PROVE  (IF n = op.end THEN incoming[n] \cup {id} ELSE incoming[n])
                 = {k \in operationsList' : operation'[k].end = n}
    BY <1>1, <1>2, <1>3 DEF Lists
  <2>2. incoming = [n \in States |-> incoming[n]]
    BY <1>3 DEF Lists
  <2>3. incoming' = [n \in States |-> IF n = op.end THEN incoming[n] \cup {id} ELSE incoming[n]]
    BY <1>2, <2>2
  <2> QED
    BY <2>1, <2>3
<1>8. Lists(operation, operationsList)'
  BY <1>4, <1>5, <1>6, <1>7 DEF Lists
<1>9. \A k \in DOMAIN operation' : IsObject(operation'[k])
  BY <1>1 DEF CreateInv
<1> QED
  BY <1>1, <1>3, <1>4, <1>8, <1>9 DEF CreateInv, IsObject

(* What is said of an operation later does not change where it starts or    *)
(* ends.                                                                   *)
LEMMA SaidStep ==
  ASSUME CreateInv, stage # "find", stage' # "find", UNCHANGED vars,
         UNCHANGED << operationsList, outgoing, incoming >>,
         operation' = [k \in DOMAIN operation |-> operation'[k]],
         \A k \in DOMAIN operation : /\ IsObject(operation'[k])
                                     /\ operation'[k].start = operation[k].start
                                     /\ operation'[k].end = operation[k].end
  PROVE  CreateInv'
<1>1. Len(operation) \in Nat /\ DOMAIN operation = 1 .. Len(operation)
  BY DEF CreateInv
<1>2. operation' \in Seq(Range(operation'))
  BY <1>1, OwnValues
<1>3. DOMAIN operation' = DOMAIN operation
  OBVIOUS
<1>4. Lists(operation, operationsList) /\ phase = "done"
  BY DEF CreateInv
<1>5. States' = States /\ phase' = phase
  BY DEF vars, foundVars, States
<1>6. \A k \in operationsList : /\ operation'[k].start = operation[k].start
                                /\ operation'[k].end = operation[k].end
  BY <1>4 DEF Lists
<1>7. Lists(operation, operationsList)'
  BY <1>3, <1>4, <1>5, <1>6 DEF Lists
<1> QED
  BY <1>2, <1>3, <1>4, <1>5, <1>7 DEF CreateInv, IsObject

(* An operation that is removed leaves the lists of both of its states.    *)
LEMMA FindValidStep ==
  ASSUME CreateInv, FindValid, UNCHANGED vars
  PROVE  CreateInv'
<1> DEFINE id == at + 1
<1> DEFINE op == operation[id]
<1>1. /\ stage = "valid" /\ stage' = stage /\ operation' = operation
      /\ Lists(operation, operationsList) /\ phase = "done"
  BY DEF FindValid, CreateInv
<1>2. CASE UNCHANGED << operationsList, outgoing, incoming >>
  BY <1>1, <1>2, SameOperations
<1>3. CASE /\ operationsList' = operationsList \ {id}
           /\ outgoing' = [outgoing EXCEPT ![op.start] = @ \ {id}]
           /\ incoming' = [incoming EXCEPT ![op.end] = @ \ {id}]
  <2>1. States' = States /\ phase' = phase
    BY DEF vars, foundVars, States
  <2> HIDE DEF id, op
  <2>2. outgoing' = [n \in States |-> {k \in operationsList' : operation[k].start = n}]
    <3>1. ASSUME NEW n \in States
          PROVE  (IF n = op.start THEN outgoing[n] \ {id} ELSE outgoing[n])
                   = {k \in operationsList' : operation[k].start = n}
      BY <1>1, <1>3 DEF Lists, op
    <3>2. outgoing = [n \in States |-> outgoing[n]]
      BY <1>1 DEF Lists
    <3>3. outgoing' = [n \in States |-> IF n = op.start THEN outgoing[n] \ {id} ELSE outgoing[n]]
      BY <1>3, <3>2
    <3> QED
      BY <3>1, <3>3
  <2>3. incoming' = [n \in States |-> {k \in operationsList' : operation[k].end = n}]
    <3>1. ASSUME NEW n \in States
          PROVE  (IF n = op.end THEN incoming[n] \ {id} ELSE incoming[n])
                   = {k \in operationsList' : operation[k].end = n}
      BY <1>1, <1>3 DEF Lists, op
    <3>2. incoming = [n \in States |-> incoming[n]]
      BY <1>1 DEF Lists
    <3>3. incoming' = [n \in States |-> IF n = op.end THEN incoming[n] \ {id} ELSE incoming[n]]
      BY <1>3, <3>2
    <3> QED
      BY <3>1, <3>3
  <2>4. operationsList' \subseteq DOMAIN operation
    BY <1>1, <1>3 DEF Lists
  <2>5. Lists(operation, operationsList)'
    BY <1>1, <2>1, <2>2, <2>3, <2>4 DEF Lists
  <2> QED
    BY <1>1, <2>1, <2>5 DEF CreateInv
<1> QED
  BY <1>2, <1>3 DEF FindValid, LeaveStates

-----------------------------------------------------------------------------
LEMMA NewObject ==
  ASSUME NEW start, NEW end, NEW wait, NEW stmts
  PROVE  IsObject(Operation(start, end, wait, stmts))
BY DEF IsObject, Operation

LEMMA CreateExplicitStep == CreateInv /\ CreateExplicit /\ UNCHANGED vars => CreateInv'
<1> SUFFICES ASSUME CreateInv, CreateExplicit, UNCHANGED vars PROVE CreateInv'
  OBVIOUS
<1> DEFINE raw == rawOperations[at + 1]
<1> DEFINE op == Operation(raw.path[1], Last(raw.path), FALSE, Statements(raw))
<1>1. stage # "find" /\ stage' # "find" /\ addOperation(op)
  BY DEF CreateExplicit
<1>2. IsObject(op)
  BY NewObject
<1> HIDE DEF op
<1> QED
  BY <1>1, <1>2, AddStep

LEMMA CreateImplicitStep == CreateInv /\ CreateImplicit /\ UNCHANGED vars => CreateInv'
<1> SUFFICES ASSUME CreateInv, CreateImplicit, UNCHANGED vars PROVE CreateInv'
  OBVIOUS
<1> DEFINE raw == rawOperations[at + 1]
<1> DEFINE node == raw.path[1]
<1> DEFINE waitOp == Operation(node, node, TRUE, WaitStatements(node))
<1> DEFINE missOp == Operation(node, Last(raw.path), FALSE, NotSynced(raw))
<1>1. stage # "find" /\ stage' # "find"
  BY DEF CreateImplicit
<1>2. addOperation(waitOp) \/ addOperation(missOp) \/ Stay
  BY DEF CreateImplicit
<1>3. IsObject(waitOp) /\ IsObject(missOp)
  BY NewObject
<1> HIDE DEF waitOp, missOp
<1>4. CASE addOperation(waitOp)
  BY <1>1, <1>3, <1>4, AddStep
<1>5. CASE addOperation(missOp)
  BY <1>1, <1>3, <1>5, AddStep
<1>6. CASE Stay
  BY <1>1, <1>6, SameOperations DEF Stay
<1> QED
  BY <1>2, <1>4, <1>5, <1>6

LEMMA ReconstructStep == CreateInv /\ Reconstruct /\ UNCHANGED vars => CreateInv'
<1> SUFFICES ASSUME CreateInv, Reconstruct, UNCHANGED vars PROVE CreateInv'
  OBVIOUS
<1>1. /\ stage # "find" /\ stage' # "find"
      /\ UNCHANGED << operationsList, outgoing, incoming >>
  BY DEF Reconstruct
<1>2. PICK a, c, g : operation' = [operation EXCEPT ![at + 1] =
                       [operation[at + 1] EXCEPT !.assumptions = a, !.signals = g, !.commitments = c]]
  BY DEF Reconstruct
<1>3. operation' = [k \in DOMAIN operation |-> operation'[k]]
  BY <1>2
<1>4. ASSUME NEW k \in DOMAIN operation
      PROVE  /\ IsObject(operation'[k])
             /\ operation'[k].start = operation[k].start
             /\ operation'[k].end = operation[k].end
  <2>1. IsObject(operation[k])
    BY DEF CreateInv
  <2>2. CASE k = at + 1
    <3>1. operation'[k] = [operation[k] EXCEPT !.assumptions = a, !.signals = g, !.commitments = c]
      BY <1>2, <2>2
    <3> QED
      BY <2>1, <3>1 DEF IsObject
  <2>3. CASE k # at + 1
    BY <1>2, <2>1, <2>3 DEF IsObject
  <2> QED
    BY <2>2, <2>3
<1> QED
  BY <1>1, <1>3, <1>4, SaidStep

LEMMA OptimizeStep == CreateInv /\ Optimize /\ UNCHANGED vars => CreateInv'
<1> SUFFICES ASSUME CreateInv, Optimize, UNCHANGED vars PROVE CreateInv'
  OBVIOUS
<1>1. /\ stage # "find" /\ stage' # "find"
      /\ UNCHANGED << operationsList, outgoing, incoming >>
  BY DEF Optimize
<1>2. operation' = [k \in DOMAIN operation |->
                     [operation[k] EXCEPT !.commitments = Restrict(@, DOMAIN @ \cap varMap')]]
  BY DEF Optimize
<1>3. operation' = [k \in DOMAIN operation |-> operation'[k]]
  BY <1>2
<1>4. ASSUME NEW k \in DOMAIN operation
      PROVE  /\ IsObject(operation'[k])
             /\ operation'[k].start = operation[k].start
             /\ operation'[k].end = operation[k].end
  <2>1. IsObject(operation[k])
    BY DEF CreateInv
  <2>2. PICK c : operation'[k] = [operation[k] EXCEPT !.commitments = c]
    BY <1>2
  <2> QED
    BY <2>1, <2>2 DEF IsObject
<1> QED
  BY <1>1, <1>3, <1>4, SaidStep

LEMMA CreateStep == CreateInv /\ CreateNext => CreateInv'
<1> SUFFICES ASSUME CreateInv, CreateNext PROVE CreateInv'
  OBVIOUS
<1>1. UNCHANGED vars
  BY DEF CreateNext
<1>2. CASE Found
  BY <1>1, <1>2, FoundStep
<1>3. CASE ExtendRawOperation
  BY <1>1, <1>3, SameOperations DEF ExtendRawOperation
<1>4. CASE Extended
  BY <1>1, <1>4, SameOperations DEF Extended
<1>5. CASE CreateExplicit
  BY <1>1, <1>5, CreateExplicitStep
<1>6. CASE AllExplicit
  BY <1>1, <1>6, SameOperations DEF AllExplicit
<1>7. CASE CreateImplicit
  BY <1>1, <1>7, CreateImplicitStep
<1>8. CASE AllImplicit
  BY <1>1, <1>8, SameOperations DEF AllImplicit
<1>9. CASE Reconstruct
  BY <1>1, <1>9, ReconstructStep
<1>10. CASE AllReconstructed
  BY <1>1, <1>10, SameOperations DEF AllReconstructed
<1>11. CASE FindValid
  BY <1>1, <1>11, FindValidStep
<1>12. CASE AllValid
  BY <1>1, <1>12, SameOperations DEF AllValid
<1>13. CASE Optimize
  BY <1>1, <1>13, OptimizeStep
<1> QED
  BY <1>2, <1>3, <1>4, <1>5, <1>6, <1>7, <1>8, <1>9, <1>10, <1>11, <1>12, <1>13 DEF CreateNext

(* What neither creates operations nor is a stage of it leaves them alone.  *)
LEMMA OtherStep ==
  ASSUME CreateInv, UNCHANGED << phase, importantStates, operation, operationsList, outgoing, incoming >>,
         stage' = stage \/ (stage # "find" /\ stage' # "find")
  PROVE  CreateInv'
BY DEF CreateInv, Lists, States

LEMMA NextCreateInv == CreateInv /\ [HardwareNext]_allVars => CreateInv'
<1> SUFFICES ASSUME CreateInv, [HardwareNext]_allVars PROVE CreateInv'
  OBVIOUS
<1>1. CASE FindStep
  <2>1. Next /\ UNCHANGED createVars
    BY <1>1 DEF FindStep
  <2>2. UNCHANGED << stage, operation, operationsList, outgoing, incoming >>
    BY <2>1 DEF createVars
  <2>3. CASE stage = "find"
    BY <2>2, <2>3 DEF CreateInv
  <2>4. CASE stage # "find"
    <3>1. UNCHANGED vars
      BY <2>1, <2>4, DoneIsDone DEF CreateInv
    <3>2. UNCHANGED << phase, importantStates >>
      BY <3>1 DEF vars, foundVars
    <3> QED
      BY <2>2, <3>2, OtherStep
  <2> QED
    BY <2>3, <2>4
<1>2. CASE Create
  BY <1>2, CreateStep DEF Create
<1>3. CASE Reset
  <2>1. /\ stage = "created" /\ stage' # "find"
        /\ UNCHANGED << phase, importantStates, operation, operationsList, outgoing, incoming >>
    BY <1>3 DEF Reset, Suite, vars, foundVars
  <2> QED
    BY <2>1, OtherStep
<1>4. CASE UNCHANGED << vars, createVars >>
  <2>1. UNCHANGED << stage, phase, importantStates, operation, operationsList, outgoing, incoming >>
    BY <1>4 DEF vars, foundVars, createVars
  <2> QED
    BY <2>1, OtherStep
<1> QED
  BY <1>1, <1>2, <1>3, <1>4 DEF HardwareNext, WaitStep, Run, allVars

THEOREM CreateInvariance == HardwareSpec => []CreateInv
<1>1. HardwareInit => CreateInv
  BY InitCreateInv
<1>2. CreateInv /\ [HardwareNext]_allVars => CreateInv'
  BY NextCreateInv
<1> QED
  BY <1>1, <1>2, PTL DEF HardwareSpec

(* The lists of a state, which the property suite goes through, hold the    *)
(* operations that were kept and start or end there, and no others: in      *)
(* every stage of OperationFactory and for every program.                   *)
THEOREM OperationListsAgree == HardwareSpec => []ListsAgree
<1>1. CreateInv => ListsAgree
  BY DEF CreateInv, Lists, ListsAgree, States
<1> QED
  BY <1>1, CreateInvariance, PTL

(* No node is colored twice and no operation uses a master port twice       *)
(* behind the node it starts at, also while operations are made and the     *)
(* circuit runs.                                                            *)
THEOREM HandedOver == HardwareSpec => [](ColoredOnce /\ OperationsValid)
<1>1. IInv => ColoredOnce /\ OperationsValid
  BY DEF IInv, KeptInv, PhaseInv, OperationsValid
<1> QED
  BY <1>1, SearchInvariance, PTL

(* What is proved of each path of the search is there all along: the search *)
(* fits its path, what it found is feasible, and each slave port is served. *)
THEOREM PathsHandedOver ==
  HardwareSpec => [](BranchOpen /\ StackFitsPath /\ OperationsAreFeasible /\ WhileIndexFitsPath
                     /\ SlavesServed)
<1>1. HardwareInit => IInv /\ PathsInv /\ WhileInv /\ SlavesInv
  BY InitIInv, InitPathsInv, InitWhileInv DEF HardwareInit, Init, SlavesInv
<1>2. IInv /\ PathsInv /\ [HardwareNext]_allVars /\ IInv' => PathsInv'
  BY SearchGoesOn, NextPathsInv
<1>3. IInv /\ PathsInv /\ WhileInv /\ [HardwareNext]_allVars => WhileInv'
  BY SearchGoesOn, NextWhileInv
<1>4. SlavesInv /\ [HardwareNext]_allVars => SlavesInv'
  BY SearchGoesOn, NextSlavesInv
<1>5. HardwareSpec => [](IInv /\ PathsInv /\ WhileInv /\ SlavesInv)
  BY <1>1, <1>2, <1>3, <1>4, SearchInvariance, PTL DEF HardwareSpec
<1>6. IInv /\ PathsInv /\ WhileInv /\ SlavesInv
        => BranchOpen /\ StackFitsPath /\ OperationsAreFeasible /\ WhileIndexFitsPath
             /\ SlavesServed
  BY LoopHeadsListed, SlavesAreServed, OpenIsBranchOpen DEF PathsInv
<1> QED
  BY <1>5, <1>6, PTL

-----------------------------------------------------------------------------
(* Symbolic states.  A symbol is a variable, a value, or a signal.          *)
Given(g) == ({"value"} \X Values) \cup ({"sync", "data"} \X DOMAIN g.ports)
Unknown(xs) == {"variable"} \X xs

(* The symbols of a symbolic state are in A. *)
Over(sym, A) ==
  /\ Symbolic(sym)
  /\ sym.map \in [Vars -> A]
  /\ \A p \in DOMAIN sym.sig : sym.sig[p] \in A
  /\ \A c \in sym.conditions : c[1] \in A

(* The statements of operations.                                           *)
Executed(g) == StatementsOf(g) \cup [op : {"sync"}, port : DOMAIN g.ports, holds : BOOLEAN]

LEMMA StartOver ==
  ASSUME NEW A, Unknown(Vars) \subseteq A
  PROVE  Over(Start, A)
BY DEF Over, Start, Symbolic, Unknown

LEMMA Grown ==
  ASSUME NEW A, NEW sym, Over(sym, A), NEW p, NEW e \in A
  PROVE  Over([sym EXCEPT !.sig = Put(sym.sig, p, e)], A)
<1> DEFINE more == Put(sym.sig, p, e)
<1>1. \A q \in DOMAIN more : more[q] \in A
  BY DEF Over, Put
<1> HIDE DEF more
<1> QED
  BY <1>1 DEF Over, Symbolic, more

LEMMA Changed ==
  ASSUME NEW A, NEW sym, Over(sym, A), NEW x \in Vars, NEW e \in A
  PROVE  Over([sym EXCEPT !.map[x] = e], A)
BY DEF Over, Symbolic

LEMMA Collected ==
  ASSUME NEW A, NEW sym, Over(sym, A), NEW c, c[1] \in A
  PROVE  Over([sym EXCEPT !.conditions = sym.conditions \cup {c}], A)
BY DEF Over, Symbolic

LEMMA ExecuteOver ==
  ASSUME NEW g, NEW A, Given(g) \subseteq A, NEW sym, Over(sym, A), NEW s \in Executed(g)
  PROVE  Over(Execute(sym, s), A)
<1>1. sym.map \in [Vars -> A]
  BY DEF Over
<1>2. /\ \A x \in Values : << "value", x >> \in A
      /\ \A p \in DOMAIN g.ports : << "sync", p >> \in A /\ << "data", p >> \in A
  BY DEF Given
<1>3. CASE s.op = "assign"
  <2>1. s.var \in Vars /\ s.val \in Values
    BY <1>3 DEF Executed, StatementsOf
  <2>2. Over([sym EXCEPT !.map[s.var] = << "value", s.val >>], A)
    BY <1>2, <2>1, Changed
  <2> QED
    BY <1>3, <2>2 DEF Execute
<1>4. CASE s.op = "copy"
  <2>1. s.var \in Vars /\ s.from \in Vars
    BY <1>4 DEF Executed, StatementsOf
  <2>2. Over([sym EXCEPT !.map[s.var] = sym.map[s.from]], A)
    BY <1>1, <2>1, Changed
  <2> QED
    BY <1>4, <2>2 DEF Execute
<1>5. CASE s.op = "peek"
  <2>1. s.var \in Vars /\ s.port \in DOMAIN g.ports
    BY <1>5 DEF Executed, StatementsOf
  <2>2. Over([sym EXCEPT !.map[s.var] = << "sync", s.port >>], A)
    BY <1>2, <2>1, Changed
  <2> QED
    BY <1>5, <2>2 DEF Execute
<1>6. CASE s.op = "read"
  <2>1. s.var \in Vars /\ s.port \in DOMAIN g.ports
    BY <1>6 DEF Executed, StatementsOf
  <2>2. Over([sym EXCEPT !.map[s.var] = << "data", s.port >>], A)
    BY <1>2, <2>1, Changed
  <2> QED
    BY <1>6, <2>2 DEF Execute
<1>7. CASE s.op = "try_read"
  <2> DEFINE had == [sym EXCEPT !.map[s.var] = << "data", s.port >>]
  <2>1. s.var \in Vars /\ s.flag \in Vars /\ s.port \in DOMAIN g.ports
    BY <1>7 DEF Executed, StatementsOf
  <2>2. Over(had, A)
    BY <1>2, <2>1, Changed
  <2>3. Execute(sym, s) = [had EXCEPT !.map[s.flag] = << "sync", s.port >>]
    BY <1>7 DEF Execute
  <2> HIDE DEF had
  <2>4. Over([had EXCEPT !.map[s.flag] = << "sync", s.port >>], A)
    BY <1>2, <2>1, <2>2, Changed
  <2> QED
    BY <2>3, <2>4, Zenon
<1>8. CASE s.op = "write"
  <2>1. s.var \in Vars
    BY <1>8 DEF Executed, StatementsOf
  <2>2. Over([sym EXCEPT !.sig = Put(sym.sig, s.port, sym.map[s.var])], A)
    BY <1>1, <2>1, Grown
  <2> QED
    BY <1>8, <2>2 DEF Execute
<1>9. CASE s.op = "try_write"
  <2> DEFINE wrote == [sym EXCEPT !.sig = Put(sym.sig, s.port, sym.map[s.var])]
  <2>1. s.var \in Vars /\ s.flag \in Vars /\ s.port \in DOMAIN g.ports
    BY <1>9 DEF Executed, StatementsOf
  <2>2. Over(wrote, A)
    BY <1>1, <2>1, Grown
  <2>3. Execute(sym, s) = [wrote EXCEPT !.map[s.flag] = << "sync", s.port >>]
    BY <1>9 DEF Execute
  <2> HIDE DEF wrote
  <2>4. Over([wrote EXCEPT !.map[s.flag] = << "sync", s.port >>], A)
    BY <1>2, <2>1, <2>2, Changed
  <2> QED
    BY <2>3, <2>4, Zenon
<1>10. CASE s.op = "if"
  <2> DEFINE c == << sym.map[s.var], s.val, s.holds >>
  <2>1. s.var \in Vars
    BY <1>10 DEF Executed, StatementsOf
  <2>2. c[1] \in A
    BY <1>1, <2>1
  <2>3. Execute(sym, s) = [sym EXCEPT !.conditions = sym.conditions \cup {c}]
    BY <1>10 DEF Execute
  <2> HIDE DEF c
  <2> QED
    BY <2>2, <2>3, Collected
<1>11. CASE s.op = "sync"
  <2> DEFINE c == << << "sync", s.port >>, 1, s.holds >>
  <2>1. s.port \in DOMAIN g.ports
    BY <1>11 DEF Executed, StatementsOf
  <2>2. c[1] \in A
    BY <1>2, <2>1
  <2>3. Execute(sym, s) = [sym EXCEPT !.conditions = sym.conditions \cup {c}]
    BY <1>11 DEF Execute
  <2> HIDE DEF c
  <2> QED
    BY <2>2, <2>3, Collected
<1>12. CASE s.op \in {"reset", "wait", "while", "empty"}
  BY <1>12 DEF Execute
<1> QED
  BY <1>3, <1>4, <1>5, <1>6, <1>7, <1>8, <1>9, <1>10, <1>11, <1>12 DEF Executed, StatementsOf

-----------------------------------------------------------------------------
(* Concat, part by part. *)
Joined(parts, f, n) == f = [i \in 0 .. n |-> IF i = 0 THEN << >> ELSE f[i - 1] \o parts[i]]

LEMMA JoinedStep ==
  ASSUME NEW parts, NEW n \in Nat, NEW f, Joined(parts, f, n)
  PROVE  /\ f[0] = << >>
         /\ \A i \in 1 .. n : f[i] = f[i - 1] \o parts[i]
BY DEF Joined

LEMMA JoinedExists ==
  ASSUME NEW parts, NEW m \in Nat
  PROVE  \E f : Joined(parts, f, m)
<1> DEFINE S == {n \in Nat : \E f : Joined(parts, f, n)}
<1>1. 0 \in S
  <2> DEFINE f == [i \in 0 .. 0 |-> << >>]
  <2>1. Joined(parts, f, 0)
    BY DEF Joined
  <2> QED
    BY <2>1
<1>2. ASSUME NEW n \in Nat, n \in S PROVE n + 1 \in S
  <2>1. PICK f : Joined(parts, f, n)
    BY <1>2
  <2> DEFINE g == [i \in 0 .. n + 1 |-> IF i = n + 1 THEN f[n] \o parts[n + 1] ELSE f[i]]
  <2>2. /\ f[0] = << >>
        /\ \A i \in 1 .. n : f[i] = f[i - 1] \o parts[i]
    BY <2>1, JoinedStep
  <2>3. ASSUME NEW i \in 0 .. n + 1
        PROVE  g[i] = IF i = 0 THEN << >> ELSE g[i - 1] \o parts[i]
    <3>1. CASE i = 0
      BY <2>2, <3>1
    <3>2. CASE i \in 1 .. n
      <4>1. g[i] = f[i] /\ g[i - 1] = f[i - 1] /\ i # 0
        BY <3>2
      <4> QED
        BY <2>2, <3>2, <4>1, Zenon
    <3>3. CASE i = n + 1
      <4>1. g[i] = f[n] \o parts[n + 1] /\ g[n] = f[n] /\ i # 0 /\ i - 1 = n
        BY <3>3
      <4> QED
        BY <3>3, <4>1, Zenon
    <3> QED
      BY <3>1, <3>2, <3>3
  <2>4. g = [i \in 0 .. n + 1 |-> g[i]]
    OBVIOUS
  <2> HIDE DEF g
  <2>5. Joined(parts, g, n + 1)
    BY <2>3, <2>4, Zenon DEF Joined
  <2> QED
    BY <2>5
<1> HIDE DEF S
<1>3. m \in S
  BY <1>1, <1>2, NatSetInduction
<1> QED
  BY <1>3 DEF S

LEMMA JoinedAgree ==
  ASSUME NEW s, NEW t, NEW f, NEW g, NEW m \in Nat, NEW n \in Nat, n <= m,
         Joined(s, f, m), Joined(t, g, n), \A i \in 1 .. n : s[i] = t[i]
  PROVE  f[n] = g[n]
<1> DEFINE S == {k \in Nat : k <= n => f[k] = g[k]}
<1>1. /\ f[0] = << >> /\ g[0] = << >>
      /\ \A i \in 1 .. m : f[i] = f[i - 1] \o s[i]
      /\ \A i \in 1 .. n : g[i] = g[i - 1] \o t[i]
  BY JoinedStep
<1>2. 0 \in S
  BY <1>1
<1>3. ASSUME NEW k \in Nat, k \in S PROVE k + 1 \in S
  <2> SUFFICES ASSUME k + 1 <= n PROVE f[k + 1] = g[k + 1]
    OBVIOUS
  <2>1. k + 1 \in 1 .. m /\ k + 1 \in 1 .. n /\ (k + 1) - 1 = k /\ f[k] = g[k]
    BY <1>3
  <2>2. f[k + 1] = f[k] \o s[k + 1] /\ g[k + 1] = g[k] \o t[k + 1]
    BY <1>1, <2>1, Zenon
  <2> QED
    BY <2>1, <2>2, Zenon
<1> HIDE DEF S
<1>4. n \in S
  BY <1>2, <1>3, NatSetInduction
<1> QED
  BY <1>4 DEF S

LEMMA ConcatIsLast ==
  ASSUME NEW parts, Len(parts) \in Nat, NEW f, Joined(parts, f, Len(parts))
  PROVE  Concat(parts) = f[Len(parts)]
<1> DEFINE n == Len(parts)
           g == CHOOSE g : g = [i \in 0 .. n |-> IF i = 0 THEN << >> ELSE g[i - 1] \o parts[i]]
<1>1. Joined(parts, g, n)
  BY Zenon DEF Joined
<1>2. Concat(parts) = g[n]
  BY Zenon DEF Concat
<1> QED
  BY <1>1, <1>2, JoinedAgree

LEMMA ConcatNothing ==
  ASSUME NEW parts, Len(parts) = 0
  PROVE  Concat(parts) = << >>
<1>1. 0 \in Nat
  OBVIOUS
<1>2. PICK f : Joined(parts, f, 0)
  BY <1>1, JoinedExists
<1>3. f[0] = << >>
  BY <1>1, <1>2, JoinedStep
<1> QED
  BY <1>1, <1>2, <1>3, ConcatIsLast

(* One part more. *)
LEMMA ConcatMore ==
  ASSUME NEW s, NEW t, NEW n \in Nat, Len(s) = n, Len(t) = n + 1, \A i \in 1 .. n : s[i] = t[i]
  PROVE  Concat(t) = Concat(s) \o t[n + 1]
<1>1. PICK f : Joined(s, f, n)
  BY JoinedExists
<1>0. n + 1 \in Nat
  OBVIOUS
<1>2. PICK g : Joined(t, g, n + 1)
  BY <1>0, JoinedExists
<1>3. Concat(s) = f[n] /\ Concat(t) = g[n + 1]
  BY <1>1, <1>2, ConcatIsLast
<1>4. g[n] = f[n]
  BY <1>1, <1>2, JoinedAgree
<1>5. g[n + 1] = g[n] \o t[n + 1]
  <2>1. \A i \in 1 .. n + 1 : g[i] = g[i - 1] \o t[i]
    BY <1>0, <1>2, JoinedStep
  <2>2. n + 1 \in 1 .. n + 1 /\ (n + 1) - 1 = n
    OBVIOUS
  <2> QED
    BY <2>1, <2>2, Zenon
<1> QED
  BY <1>3, <1>4, <1>5

-----------------------------------------------------------------------------
(* The statements of an operation, node by node: what the first node leaves *)
(* and the j nodes behind it.                                               *)
Part(path, synced, i) == Inner(Stmt(cfg, path[i + 1], path[i + 2]), path[i + 1], synced)
Parts(path, synced, j) == [i \in 1 .. j |-> Part(path, synced, i)]
Upto(first, path, synced, j) == first \o Concat(Parts(path, synced, j))

LEMMA PartsLen ==
  ASSUME NEW path, NEW synced, NEW j \in Nat
  PROVE  Len(Parts(path, synced, j)) = j
<1> DEFINE X == {Part(path, synced, i) : i \in 1 .. j}
<1>1. Parts(path, synced, j) \in [1 .. j -> X]
  BY DEF Parts
<1> HIDE DEF X
<1> QED
  BY <1>1, FunctionIsSeq

LEMMA UptoStart ==
  ASSUME NEW S, NEW first \in Seq(S), NEW path, NEW synced
  PROVE  Upto(first, path, synced, 0) = first
<1>1. Concat(Parts(path, synced, 0)) = << >>
  BY PartsLen, ConcatNothing
<1> QED
  BY <1>1 DEF Upto

LEMMA ConcatParts ==
  ASSUME NEW path, NEW synced, NEW j \in Nat
  PROVE  Concat(Parts(path, synced, j + 1)) = Concat(Parts(path, synced, j)) \o Part(path, synced, j + 1)
<1> DEFINE s == Parts(path, synced, j)
           t == Parts(path, synced, j + 1)
<1>1. Len(s) = j /\ Len(t) = j + 1
  BY PartsLen
<1>2. \A i \in 1 .. j : s[i] = t[i]
  BY DEF Parts
<1>3. t[j + 1] = Part(path, synced, j + 1)
  BY DEF Parts
<1> HIDE DEF s, t
<1>4. Concat(t) = Concat(s) \o t[j + 1]
  BY <1>1, <1>2, ConcatMore
<1> QED
  BY <1>3, <1>4 DEF s, t

(* All statements are statements, and each node adds its own. *)
LEMMA ConcatType ==
  ASSUME NEW S, NEW path, NEW synced, NEW n \in Nat,
         \A i \in 1 .. n : Part(path, synced, i) \in Seq(S)
  PROVE  \A j \in 0 .. n : Concat(Parts(path, synced, j)) \in Seq(S)
<1> DEFINE T == {j \in Nat : j <= n => Concat(Parts(path, synced, j)) \in Seq(S)}
<1>1. 0 \in T
  <2>1. Concat(Parts(path, synced, 0)) = << >> /\ << >> \in Seq(S)
    BY PartsLen, ConcatNothing
  <2> QED
    BY <2>1
<1>2. ASSUME NEW j \in Nat, j \in T PROVE j + 1 \in T
  <2> SUFFICES ASSUME j + 1 <= n PROVE Concat(Parts(path, synced, j + 1)) \in Seq(S)
    OBVIOUS
  <2>1. Concat(Parts(path, synced, j + 1))
          = Concat(Parts(path, synced, j)) \o Part(path, synced, j + 1)
    BY ConcatParts
  <2>2. Concat(Parts(path, synced, j)) \in Seq(S) /\ Part(path, synced, j + 1) \in Seq(S)
    BY <1>2
  <2>3. Concat(Parts(path, synced, j)) \o Part(path, synced, j + 1) \in Seq(S)
    BY <2>2, ConcatProperties
  <2> QED
    BY <2>1, <2>3, Zenon
<1> HIDE DEF T
<1>3. \A j \in Nat : j \in T
  BY <1>1, <1>2, NatSetInduction
<1> QED
  BY <1>3 DEF T

LEMMA UptoGrows ==
  ASSUME NEW S, NEW first \in Seq(S), NEW path, NEW synced, NEW n \in Nat,
         \A i \in 1 .. n : Part(path, synced, i) \in Seq(S)
  PROVE  \A j \in 0 .. n :
           /\ Upto(first, path, synced, j) \in Seq(S)
           /\ j # n => Upto(first, path, synced, j + 1)
                         = Upto(first, path, synced, j) \o Part(path, synced, j + 1)
<1> SUFFICES ASSUME NEW j \in 0 .. n
             PROVE  /\ Upto(first, path, synced, j) \in Seq(S)
                    /\ j # n => Upto(first, path, synced, j + 1)
                                  = Upto(first, path, synced, j) \o Part(path, synced, j + 1)
  OBVIOUS
<1>1. Concat(Parts(path, synced, j)) \in Seq(S)
  BY ConcatType
<1>2. ASSUME j # n
      PROVE  Upto(first, path, synced, j + 1)
               = Upto(first, path, synced, j) \o Part(path, synced, j + 1)
  <2>1. j \in Nat /\ j + 1 \in 1 .. n
    BY <1>2
  <2>2. Concat(Parts(path, synced, j + 1))
          = Concat(Parts(path, synced, j)) \o Part(path, synced, j + 1)
    BY <2>1, ConcatParts
  <2>3. Part(path, synced, j + 1) \in Seq(S)
    BY <2>1
  <2>4. Upto(first, path, synced, j + 1)
          = first \o (Concat(Parts(path, synced, j)) \o Part(path, synced, j + 1))
    BY <2>2, Zenon DEF Upto
  <2>5. (first \o Concat(Parts(path, synced, j))) \o Part(path, synced, j + 1)
          = first \o (Concat(Parts(path, synced, j)) \o Part(path, synced, j + 1))
    BY <1>1, <2>3, ConcatAssociative
  <2> QED
    BY <2>4, <2>5, Zenon DEF Upto
<1> QED
  BY <1>1, <1>2 DEF Upto

-----------------------------------------------------------------------------
(* Executing some statements more. *)
LEMMA ExecuteOne ==
  ASSUME NEW S, NEW pre \in Seq(S), NEW a \in S
  PROVE  execute(pre \o << a >>) = Execute(execute(pre), a)
<1>1. pre \o << a >> = Append(pre, a)
  OBVIOUS
<1>2. execute(Append(pre, a)) = Execute(execute(pre), a)
  BY ExecuteAppend
<1> QED
  BY <1>1, <1>2

LEMMA ExecuteTwo ==
  ASSUME NEW S, NEW pre \in Seq(S), NEW a \in S, NEW b \in S
  PROVE  execute(pre \o << a, b >>) = Execute(Execute(execute(pre), a), b)
<1>1. pre \o << a, b >> = Append(Append(pre, a), b)
  OBVIOUS
<1>2. Append(pre, a) \in Seq(S)
  OBVIOUS
<1>3. execute(Append(Append(pre, a), b)) = Execute(execute(Append(pre, a)), b)
  BY <1>2, ExecuteAppend
<1>4. execute(Append(pre, a)) = Execute(execute(pre), a)
  BY ExecuteAppend
<1> QED
  BY <1>1, <1>3, <1>4

LEMMA MoreConditions ==
  ASSUME NEW sym, Symbolic(sym), NEW s
  PROVE  sym.conditions \subseteq Execute(sym, s).conditions
BY ExecuteCollects

(* Nothing is unknown that was not before, and no condition is dropped.     *)
LEMMA ExecuteMore ==
  ASSUME NEW g, NEW A, Given(g) \subseteq A,
         NEW pre \in Seq(Executed(g)), NEW t \in Seq(Executed(g)), Over(execute(pre), A)
  PROVE  /\ Over(execute(pre \o t), A)
         /\ execute(pre).conditions \subseteq execute(pre \o t).conditions
<1> DEFINE S == Executed(g)
           upTo(k) == pre \o SubSeq(t, 1, k)
           Good(k) == /\ Over(execute(upTo(k)), A)
                      /\ execute(pre).conditions \subseteq execute(upTo(k)).conditions
           T == {k \in Nat : k <= Len(t) => Good(k)}
<1> HIDE DEF S
<1>0. pre \in Seq(S) /\ t \in Seq(S) /\ Len(t) \in Nat
  BY DEF S
<1>1. ASSUME NEW k \in 0 .. Len(t)
      PROVE  /\ upTo(k) \in Seq(S)
             /\ k # Len(t) => upTo(k + 1) = Append(upTo(k), t[k + 1])
  <2>1. SubSeq(t, 1, k) \in Seq(S)
    BY <1>0
  <2>2. ASSUME k # Len(t) PROVE upTo(k + 1) = Append(upTo(k), t[k + 1])
    <3>1. SubSeq(t, 1, k + 1) = Append(SubSeq(t, 1, k), t[k + 1]) /\ t[k + 1] \in S
      BY <1>0, <2>2
    <3>2. ASSUME NEW u \in Seq(S), NEW e \in S PROVE pre \o Append(u, e) = Append(pre \o u, e)
      BY <1>0
    <3> QED
      BY <2>1, <3>1, <3>2
  <2> QED
    BY <1>0, <2>1, <2>2, SMTT(30)
<1>2. 0 \in T
  <2>1. upTo(0) = pre
    BY <1>0
  <2> QED
    BY <2>1
<1>3. ASSUME NEW k \in Nat, k \in T PROVE k + 1 \in T
  <2> SUFFICES ASSUME k + 1 <= Len(t) PROVE Good(k + 1)
    OBVIOUS
  <2>1. k \in 0 .. Len(t) /\ k # Len(t) /\ Good(k) /\ t[k + 1] \in S
    BY <1>0, <1>3
  <2>2. upTo(k) \in Seq(S) /\ upTo(k + 1) = Append(upTo(k), t[k + 1])
    BY <1>1, <2>1
  <2> HIDE DEF upTo
  <2>3. execute(upTo(k + 1)) = Execute(execute(upTo(k)), t[k + 1])
    BY <2>1, <2>2, ExecuteAppend
  <2>4. Over(execute(upTo(k + 1)), A)
    BY <2>1, <2>3, ExecuteOver DEF S
  <2>5. execute(upTo(k)).conditions \subseteq execute(upTo(k + 1)).conditions
    BY <2>1, <2>3, MoreConditions DEF Over
  <2> QED
    BY <2>1, <2>4, <2>5
<1> HIDE DEF T, Good
<1>4. Len(t) \in T
  BY <1>0, <1>2, <1>3, NatSetInduction
<1>5. upTo(Len(t)) = pre \o t
  BY <1>0
<1>6. Good(Len(t))
  <2> HIDE DEF upTo
  <2> QED
    BY <1>0, <1>4 DEF T
<1> HIDE DEF upTo
<1> QED
  BY <1>5, <1>6, Zenon DEF Good

-----------------------------------------------------------------------------
(* What a symbol stands for, the variables having been v at the last state. *)
Eval(e, v) == CASE e[1] = "value"    -> e[2]
                [] e[1] = "variable" -> v[e[2]]
                [] e[1] = "sync"     -> synch[e[2]]
                [] e[1] = "data"     -> IF isInput(e[2]) THEN data[e[2]] ELSE sig[e[2]]

Meets(C, v) == \A c \in C : (Eval(c[1], v) = c[2]) <=> c[3]

(* The variables hold now, and out has been written, as the symbols say.    *)
Says(sym, v, now, out) ==
  /\ now = [x \in Vars |-> Eval(sym.map[x], v)]
  /\ DOMAIN out = DOMAIN sym.sig
  /\ \A p \in DOMAIN sym.sig : out[p] = Eval(sym.sig[p], v)

LEMMA SaysChanged ==
  ASSUME NEW A, NEW sym, Over(sym, A), NEW v, NEW now, NEW out, Says(sym, v, now, out),
         NEW x \in Vars, NEW e
  PROVE  Says([sym EXCEPT !.map[x] = e], v, [now EXCEPT ![x] = Eval(e, v)], out)
<1> DEFINE new == [sym EXCEPT !.map[x] = e]
<1>1. new.sig = sym.sig /\ new.map = [sym.map EXCEPT ![x] = e] /\ sym.map \in [Vars -> A]
  BY DEF Over, Symbolic
<1>2. [now EXCEPT ![x] = Eval(e, v)] = [y \in Vars |-> Eval(new.map[y], v)]
  <2>1. now = [y \in Vars |-> Eval(sym.map[y], v)]
    BY DEF Says
  <2>2. \A y \in Vars : new.map[y] = IF y = x THEN e ELSE sym.map[y]
    BY <1>1
  <2> HIDE DEF new
  <2>3. \A y \in Vars : Eval(new.map[y], v) = IF y = x THEN Eval(e, v) ELSE now[y]
    BY <2>1, <2>2
  <2>4. [now EXCEPT ![x] = Eval(e, v)] = [y \in Vars |-> IF y = x THEN Eval(e, v) ELSE now[y]]
    BY <2>1
  <2> QED
    BY <2>3, <2>4
<1> HIDE DEF new
<1> QED
  BY <1>1, <1>2 DEF Says, new

LEMMA SaysWritten ==
  ASSUME NEW A, NEW sym, Over(sym, A), NEW v, NEW now, NEW out, Says(sym, v, now, out),
         NEW x \in Vars, NEW p
  PROVE  Says([sym EXCEPT !.sig = Put(sym.sig, p, sym.map[x])], v, now, Put(out, p, now[x]))
<1> DEFINE new == [sym EXCEPT !.sig = Put(sym.sig, p, sym.map[x])]
<1>1. new.sig = Put(sym.sig, p, sym.map[x]) /\ new.map = sym.map
  BY DEF Over, Symbolic
<1>2. /\ now = [y \in Vars |-> Eval(sym.map[y], v)]
      /\ DOMAIN out = DOMAIN sym.sig
      /\ \A q \in DOMAIN sym.sig : out[q] = Eval(sym.sig[q], v)
  BY DEF Says
<1>3. now[x] = Eval(sym.map[x], v)
  BY <1>2
<1> HIDE DEF new
<1>4. /\ DOMAIN Put(out, p, now[x]) = DOMAIN new.sig
      /\ \A q \in DOMAIN new.sig : Put(out, p, now[x])[q] = Eval(new.sig[q], v)
  BY <1>1, <1>2, <1>3 DEF Put
<1> QED
  BY <1>1, <1>2, <1>4 DEF Says, new

LEMMA SaysCollected ==
  ASSUME NEW A, NEW sym, Over(sym, A), NEW v, NEW now, NEW out, Says(sym, v, now, out), NEW C
  PROVE  Says([sym EXCEPT !.conditions = C], v, now, out)
BY DEF Says, Over, Symbolic

(* What a statement does when the program executes it. *)
LEMMA StatementRuns ==
  ASSUME NEW A, Given(cfg) \subseteq A, NEW sym, Over(sym, A), NEW v, NEW out,
         Says(sym, v, val, out),
         NEW s, s = cfg.stmt[loc], s \in StatementsOf(cfg), s.op # "if",
         s.op \in {"read", "try_read"} => ~ (s.port \in SyncPorts /\ Nobody(s.port))
  PROVE  Says(Execute(sym, s), v, Computed,
              IF IsWrite(cfg, loc) THEN Put(out, Port(cfg, loc), val[s.var]) ELSE out)
<1>1. /\ IsWrite(cfg, loc) <=> s.op \in {"write", "try_write"}
      /\ Port(cfg, loc) = s.port
  BY DEF IsWrite, Op, Port
<1>2. CASE s.op = "assign"
  <2>1. s.var \in Vars /\ Eval(<< "value", s.val >>, v) = s.val
    BY <1>2 DEF StatementsOf, Eval
  <2>2. Says([sym EXCEPT !.map[s.var] = << "value", s.val >>], v,
             [val EXCEPT ![s.var] = Eval(<< "value", s.val >>, v)], out)
    BY <2>1, SaysChanged
  <2> QED
    BY <1>1, <1>2, <2>1, <2>2 DEF Execute, Computed
<1>3. CASE s.op = "copy"
  <2>1. s.var \in Vars /\ s.from \in Vars
    BY <1>3 DEF StatementsOf
  <2>2. Eval(sym.map[s.from], v) = val[s.from]
    BY <2>1 DEF Says
  <2>3. Says([sym EXCEPT !.map[s.var] = sym.map[s.from]], v,
             [val EXCEPT ![s.var] = Eval(sym.map[s.from], v)], out)
    BY <2>1, SaysChanged
  <2> QED
    BY <1>1, <1>3, <2>2, <2>3 DEF Execute, Computed
<1>4. CASE s.op = "peek"
  <2>1. s.var \in Vars /\ Eval(<< "sync", s.port >>, v) = synch[s.port]
    BY <1>4 DEF StatementsOf, Eval
  <2>2. Says([sym EXCEPT !.map[s.var] = << "sync", s.port >>], v,
             [val EXCEPT ![s.var] = Eval(<< "sync", s.port >>, v)], out)
    BY <2>1, SaysChanged
  <2> QED
    BY <1>1, <1>4, <2>1, <2>2 DEF Execute, Computed
<1>5. ASSUME s.op \in {"read", "try_read"}
      PROVE  /\ s.var \in Vars
             /\ Eval(<< "data", s.port >>, v) = data[s.port] /\ Received(s) = data[s.port]
  <2>1. s.var \in Vars /\ isInput(s.port)
    BY <1>5 DEF StatementsOf, isInput
  <2> QED
    BY <1>5, <2>1 DEF Eval, Received
<1>6. CASE s.op = "read"
  <2>1. Says([sym EXCEPT !.map[s.var] = << "data", s.port >>], v,
             [val EXCEPT ![s.var] = Eval(<< "data", s.port >>, v)], out)
    BY <1>5, <1>6, SaysChanged
  <2> QED
    BY <1>1, <1>5, <1>6, <2>1 DEF Execute, Computed
<1>7. CASE s.op = "try_read"
  <2> DEFINE had == [sym EXCEPT !.map[s.var] = << "data", s.port >>]
             got == [val EXCEPT ![s.var] = Eval(<< "data", s.port >>, v)]
  <2>1. s.flag \in Vars /\ s.port \in DOMAIN cfg.ports
        /\ Eval(<< "sync", s.port >>, v) = synch[s.port]
    BY <1>7 DEF StatementsOf, Eval
  <2>2. Says(had, v, got, out)
    BY <1>5, <1>7, SaysChanged
  <2>3. Over(had, A)
    BY <1>5, <1>7, <2>1, Changed DEF Given
  <2>4. /\ Execute(sym, s) = [had EXCEPT !.map[s.flag] = << "sync", s.port >>]
        /\ Computed = [got EXCEPT ![s.flag] = Eval(<< "sync", s.port >>, v)]
    BY <1>5, <1>7, <2>1 DEF Execute, Computed
  <2> HIDE DEF had, got
  <2>5. Says([had EXCEPT !.map[s.flag] = << "sync", s.port >>], v,
             [got EXCEPT ![s.flag] = Eval(<< "sync", s.port >>, v)], out)
    BY <2>1, <2>2, <2>3, SaysChanged
  <2> QED
    BY <1>1, <1>7, <2>4, <2>5
<1>8. CASE s.op = "write"
  <2>1. s.var \in Vars
    BY <1>8 DEF StatementsOf
  <2>2. Says([sym EXCEPT !.sig = Put(sym.sig, s.port, sym.map[s.var])], v, val,
             Put(out, s.port, val[s.var]))
    BY <2>1, SaysWritten
  <2> QED
    BY <1>1, <1>8, <2>2 DEF Execute, Computed
<1>9. CASE s.op = "try_write"
  <2> DEFINE wrote == [sym EXCEPT !.sig = Put(sym.sig, s.port, sym.map[s.var])]
             with == Put(out, s.port, val[s.var])
  <2>1. s.var \in Vars /\ s.flag \in Vars /\ Eval(<< "sync", s.port >>, v) = synch[s.port]
    BY <1>9 DEF StatementsOf, Eval
  <2>2. Says(wrote, v, val, with)
    BY <2>1, SaysWritten
  <2>3. Over(wrote, A)
    <3>1. sym.map[s.var] \in A
      BY <2>1 DEF Over
    <3> QED
      BY <3>1, Grown
  <2>4. /\ Execute(sym, s) = [wrote EXCEPT !.map[s.flag] = << "sync", s.port >>]
        /\ Computed = [val EXCEPT ![s.flag] = Eval(<< "sync", s.port >>, v)]
    BY <1>9, <2>1 DEF Execute, Computed
  <2> HIDE DEF wrote
  <2>5. Says([wrote EXCEPT !.map[s.flag] = << "sync", s.port >>], v,
             [val EXCEPT ![s.flag] = Eval(<< "sync", s.port >>, v)], with)
    BY <2>1, <2>2, <2>3, SaysChanged
  <2> QED
    BY <1>1, <1>9, <2>4, <2>5
<1>10. CASE s.op \in {"reset", "wait", "while", "empty"}
  BY <1>1, <1>10 DEF Execute, Computed
<1> QED
  BY <1>2, <1>3, <1>4, <1>6, <1>7, <1>8, <1>9, <1>10 DEF StatementsOf


-----------------------------------------------------------------------------
(* What the assumptions on programs say of a node. *)
LEMMA NodeFacts ==
  ASSUME cfg \in Programs, NEW n \in Node(cfg)
  PROVE  /\ cfg.stmt[n] \in StatementsOf(cfg)
         /\ Succ(cfg, n) \in Seq(Node(cfg)) /\ Len(Succ(cfg, n)) \in {1, 2}
         /\ n \in Nat
         /\ IsBranch(cfg, n) => /\ Op(cfg, n) = "if" /\ Len(Succ(cfg, n)) = 2
                                /\ Succ(cfg, n)[1] = n + 1 /\ Succ(cfg, n)[2] # n + 1
         /\ ~ IsBranch(cfg, n) => Op(cfg, n) # "if" /\ Len(Succ(cfg, n)) = 1
<1>1. cfg.stmt[n] \in StatementsOf(cfg)
  BY RunAssumption DEF ProgramsRun
<1>2. Succ(cfg, n) \in Seq(Node(cfg)) /\ Len(Succ(cfg, n)) \in {1, 2} /\ n \in Nat
  BY ProgramsAssumption DEF ProgramsAreGraphs
<1>3. IF IsBranch(cfg, n)
      THEN /\ cfg.stmt[n] \in [op : {"if"}, var : Vars, val : Values, holds : BOOLEAN]
                          \cup [op : {"sync"}, port : DOMAIN cfg.ports, holds : BOOLEAN]
           /\ Succ(cfg, n)[1] = n + 1 /\ Succ(cfg, n)[2] # n + 1
      ELSE Op(cfg, n) \notin {"if", "sync"}
  BY BranchesAssumption DEF BranchesDecide
<1>4. cfg.stmt[n].op # "sync"
  BY <1>1 DEF StatementsOf
<1>5. IsBranch(cfg, n) => Op(cfg, n) = "if"
  BY <1>3, <1>4 DEF Op
<1>6. IsBranch(cfg, n) <=> Len(Succ(cfg, n)) = 2
  <2>1. ASSUME NEW l, l \in {1, 2} PROVE l > 1 <=> l = 2
    BY <2>1
  <2> QED
    BY <1>2, <2>1, Zenon DEF IsBranch
<1>7. ~ IsBranch(cfg, n) => Op(cfg, n) # "if" /\ Len(Succ(cfg, n)) = 1
  BY <1>2, <1>3, <1>6
<1> QED
  BY <1>1, <1>2, <1>3, <1>5, <1>6, <1>7

LEMMA SuccessorIs ==
  ASSUME cfg \in Programs, NEW n \in Node(cfg), NEW m \in Range(Succ(cfg, n))
  PROVE  /\ m \in Node(cfg)
         /\ IF IsBranch(cfg, n)
            THEN m = Succ(cfg, n)[1] \/ m = Succ(cfg, n)[2]
            ELSE m = Succ(cfg, n)[1]
<1>1. PICK i \in DOMAIN Succ(cfg, n) : m = Succ(cfg, n)[i]
  BY DEF Range
<1>2. Succ(cfg, n) \in Seq(Node(cfg))
  BY NodeFacts
<1>3. i \in 1 .. Len(Succ(cfg, n)) /\ m \in Node(cfg)
  BY <1>1, <1>2
<1>4. CASE IsBranch(cfg, n)
  <2>1. Len(Succ(cfg, n)) = 2
    BY <1>4, NodeFacts
  <2> QED
    BY <1>1, <1>3, <1>4, <2>1
<1>5. CASE ~ IsBranch(cfg, n)
  <2>1. Len(Succ(cfg, n)) = 1
    BY <1>5, NodeFacts
  <2> QED
    BY <1>1, <1>3, <1>5, <2>1
<1> QED
  BY <1>3, <1>4, <1>5

LEMMA StmtType ==
  ASSUME cfg \in Programs, NEW n \in Node(cfg), NEW m
  PROVE  /\ Stmt(cfg, n, m) \in StatementsOf(cfg)
         /\ ~ IsBranch(cfg, n) => Stmt(cfg, n, m) = cfg.stmt[n]
         /\ Stmt(cfg, n, m).op = Op(cfg, n)
<1>1. cfg.stmt[n] \in StatementsOf(cfg)
  BY NodeFacts
<1>2. CASE IsBranch(cfg, n)
  <2>1. Op(cfg, n) = "if"
    BY <1>2, NodeFacts
  <2>2. cfg.stmt[n] \in [op : {"if"}, var : Vars, val : Values, holds : BOOLEAN]
    BY <1>1, <2>1 DEF StatementsOf, Op
  <2>3. [cfg.stmt[n] EXCEPT !.holds = (m = n + 1)]
          \in [op : {"if"}, var : Vars, val : Values, holds : BOOLEAN]
    BY <2>2
  <2>4. Stmt(cfg, n, m) = [cfg.stmt[n] EXCEPT !.holds = (m = n + 1)]
    BY <1>2 DEF Stmt
  <2>5. Stmt(cfg, n, m) \in [op : {"if"}, var : Vars, val : Values, holds : BOOLEAN]
    BY <2>3, <2>4
  <2>6. Stmt(cfg, n, m) \in StatementsOf(cfg) /\ Stmt(cfg, n, m).op = "if"
    BY <2>5 DEF StatementsOf
  <2> QED
    BY <1>2, <2>1, <2>6
<1>3. CASE ~ IsBranch(cfg, n)
  BY <1>1, <1>3 DEF Stmt, Op
<1> QED
  BY <1>2, <1>3

(* A communication has a port.                                             *)
LEMMA CommPort ==
  ASSUME cfg \in Programs, NEW n \in Node(cfg), IsComm(cfg, n)
  PROVE  /\ Port(cfg, n) \in DOMAIN cfg.ports /\ Port(cfg, n) = cfg.stmt[n].port
         /\ "port" \in DOMAIN cfg.stmt[n]
         /\ ~ IsBranch(cfg, n)
         /\ Op(cfg, n) = cfg.stmt[n].op
         /\ IsNonBlockingAccess(cfg, n) => cfg.stmt[n].flag \in Vars
         /\ cfg.stmt[n].var \in Vars
<1>1. cfg.stmt[n] \in StatementsOf(cfg)
  BY NodeFacts
<1>2. Op(cfg, n) \in {"read", "try_read", "write", "try_write"}
  BY DEF IsComm, IsRead, IsWrite
<1>3. ~ IsBranch(cfg, n)
  BY <1>2, NodeFacts
<1>4. /\ cfg.stmt[n].port \in DOMAIN cfg.ports /\ "port" \in DOMAIN cfg.stmt[n]
      /\ IsNonBlockingAccess(cfg, n) => cfg.stmt[n].flag \in Vars
      /\ cfg.stmt[n].var \in Vars
  BY <1>1, <1>2 DEF StatementsOf, Op, IsNonBlockingAccess
<1> QED
  BY <1>3, <1>4 DEF Port, Op

LEMMA SyncType ==
  ASSUME NEW p \in DOMAIN cfg.ports, NEW h \in BOOLEAN
  PROVE  Sync(p, h) \in Executed(cfg)
BY DEF Sync, Executed

LEMMA FlagType ==
  ASSUME cfg \in Programs, NEW n \in Node(cfg), IsComm(cfg, n), IsNonBlockingAccess(cfg, n)
  PROVE  Flag(cfg.stmt[n]) \in Executed(cfg)
<1>1. cfg.stmt[n].port \in DOMAIN cfg.ports /\ cfg.stmt[n].flag \in Vars
  BY CommPort
<1> QED
  BY <1>1 DEF Flag, Executed, StatementsOf

LEMMA ShortSeqs ==
  ASSUME NEW S, NEW a \in S, NEW b \in S
  PROVE  /\ << a >> \in Seq(S) /\ << a, b >> \in Seq(S)
         /\ << a >> \o << b >> \in Seq(S) /\ << a >> \o << >> = << a >>
<1>1. << a >> \in Seq(S) /\ << b >> \in Seq(S) /\ << a, b >> \in Seq(S)
  OBVIOUS
<1>2. << a >> \o << >> = << a >> /\ << a >> \o << b >> \in Seq(S)
  BY <1>1, ConcatEmptySeq, ConcatProperties
<1> QED
  BY <1>1, <1>2

(* Two statements that are appended are executed one after the other. *)
LEMMA ExecuteBoth ==
  ASSUME NEW S, NEW pre \in Seq(S), NEW a \in S, NEW b \in S
  PROVE  execute(pre \o (<< a >> \o << b >>)) = Execute(Execute(execute(pre), a), b)
<1>1. << a >> \in Seq(S) /\ << b >> \in Seq(S)
  OBVIOUS
<1>2. pre \o (<< a >> \o << b >>) = (pre \o << a >>) \o << b >>
  BY <1>1, ConcatAssociative
<1>3. pre \o << a >> \in Seq(S)
  BY <1>1, ConcatProperties
<1>4. execute((pre \o << a >>) \o << b >>) = Execute(execute(pre \o << a >>), b)
  BY <1>3, ExecuteOne
<1>5. execute(pre \o << a >>) = Execute(execute(pre), a)
  BY ExecuteOne
<1> QED
  BY <1>2, <1>4, <1>5

(* What a node becomes in an operation.                                     *)
LEMMA InnerFrom ==
  ASSUME NEW E, NEW s \in E, NEW n, NEW synced,
         IsSlaveIn(n) => /\ Sync(s.port, TRUE) \in E /\ Sync(s.port, FALSE) \in E
                         /\ IsNonBlockingAccess(cfg, n) => Flag(s) \in E
  PROVE  Inner(s, n, synced) \in Seq(E)
<1>2. CASE ~ IsSlaveIn(n)
  <2>1. Inner(s, n, synced) = << s >>
    BY <1>2 DEF Inner
  <2> QED
    BY <2>1, ShortSeqs
<1>3. CASE IsSlaveIn(n)
  <2>3. Sync(s.port, TRUE) \in E /\ Sync(s.port, FALSE) \in E
    BY <1>3
  <2>4. IsNonBlockingAccess(cfg, n) => Flag(s) \in E
    BY <1>3
  <2>5. CASE n \in synced
    <3>1. Inner(s, n, synced) = << Sync(s.port, TRUE), s >>
      BY <1>3, <2>5 DEF Inner
    <3> QED
      BY <2>3, <3>1, ShortSeqs
  <2>6. CASE n \notin synced
    <3>1. Inner(s, n, synced) = << Sync(s.port, FALSE) >>
            \o IF IsNonBlockingAccess(cfg, n) THEN << Flag(s) >> ELSE << >>
      BY <1>3, <2>6 DEF Inner
    <3>2. CASE IsNonBlockingAccess(cfg, n)
      <4>1. << Sync(s.port, FALSE) >> \o << Flag(s) >> \in Seq(E)
        BY <2>3, <2>4, <3>2, ShortSeqs
      <4> QED
        BY <3>1, <3>2, <4>1, Zenon
    <3>3. CASE ~ IsNonBlockingAccess(cfg, n)
      <4>1. << Sync(s.port, FALSE) >> \o << >> \in Seq(E)
        BY <2>3, ShortSeqs
      <4> QED
        BY <3>1, <3>3, <4>1, Zenon
    <3> QED
      BY <3>2, <3>3
  <2> QED
    BY <2>5, <2>6
<1> QED
  BY <1>2, <1>3

LEMMA InnerType ==
  ASSUME cfg \in Programs, NEW n \in Node(cfg), NEW m, NEW synced
  PROVE  Inner(Stmt(cfg, n, m), n, synced) \in Seq(Executed(cfg))
<1> DEFINE s == Stmt(cfg, n, m)
           E == Executed(cfg)
<1>1. s \in E
  BY StmtType DEF Executed
<1>2. ASSUME IsSlaveIn(n)
      PROVE  /\ Sync(s.port, TRUE) \in E /\ Sync(s.port, FALSE) \in E
             /\ IsNonBlockingAccess(cfg, n) => Flag(s) \in E
  <2>1. IsComm(cfg, n)
    BY <1>2 DEF IsSlaveIn
  <2>2. s = cfg.stmt[n] /\ s.port \in DOMAIN cfg.ports
    BY <2>1, CommPort, StmtType
  <2> QED
    BY <2>1, <2>2, SyncType, FlagType
<1> HIDE DEF s, E
<1>3. Inner(s, n, synced) \in Seq(E)
  BY <1>1, <1>2, InnerFrom
<1> QED
  BY <1>3 DEF s, E

-----------------------------------------------------------------------------
(* A synchronization that is met, or not met, as the statement says.       *)
LEMMA SyncCollected ==
  ASSUME NEW A, NEW sym, Over(sym, A), NEW p \in SyncPorts, NEW h \in BOOLEAN,
         synch \in [SyncPorts -> {0, 1}], NEW v, NEW C,
         Execute(sym, Sync(p, h)).conditions \subseteq C, Meets(C, v)
  PROVE  Nobody(p) <=> ~ h
<1> DEFINE c == << << "sync", p >>, 1, h >>
<1>1. Execute(sym, Sync(p, h)).conditions = sym.conditions \cup {c}
  BY ExecuteCollects DEF Over, Sync
<1>2. c \in C
  BY <1>1
<1>3. Eval(c[1], v) = synch[p] /\ c[2] = 1 /\ c[3] = h
  BY DEF Eval
<1> HIDE DEF c
<1>4. (synch[p] = 1) <=> h
  BY <1>2, <1>3 DEF Meets
<1>5. synch[p] \in {0, 1}
  OBVIOUS
<1> QED
  BY <1>4, <1>5 DEF Nobody

LEMMA SaysSync ==
  ASSUME NEW A, NEW sym, Over(sym, A), NEW v, NEW now, NEW out, Says(sym, v, now, out),
         NEW p, NEW h
  PROVE  Says(Execute(sym, Sync(p, h)), v, now, out)
<1> DEFINE c == << << "sync", p >>, 1, h >>
<1>1. Execute(sym, Sync(p, h)) = [sym EXCEPT !.conditions = sym.conditions \cup {c}]
  BY DEF Execute, Sync
<1> HIDE DEF c
<1> QED
  BY <1>1, SaysCollected

(* What is left of a try_read or try_write that finds nobody. *)
LEMMA SaysFlag ==
  ASSUME NEW A, NEW sym, Over(sym, A), NEW v, NEW now, NEW out, Says(sym, v, now, out),
         NEW s, s.flag \in Vars
  PROVE  Says(Execute(sym, Flag(s)), v, [now EXCEPT ![s.flag] = synch[s.port]], out)
<1>1. Eval(<< "sync", s.port >>, v) = synch[s.port]
  BY DEF Eval
<1>2. Execute(sym, Flag(s)) = [sym EXCEPT !.map[s.flag] = << "sync", s.port >>]
  BY DEF Execute, Flag
<1>3. Says([sym EXCEPT !.map[s.flag] = << "sync", s.port >>], v,
           [now EXCEPT ![s.flag] = Eval(<< "sync", s.port >>, v)], out)
  BY SaysChanged
<1> QED
  BY <1>1, <1>2, <1>3

(* The program goes on to the next node of a path whose conditions are met, *)
(* and has done what the statements for the node say.                       *)
InnerHolds(A, pre, m, synced, v) ==
  /\ cfg \in Programs /\ Given(cfg) \subseteq A
  /\ loc \in Node(cfg) /\ m \in Range(Succ(cfg, loc))
  /\ ~ IsImportant(loc) /\ ~ IsBlocking(cfg, loc)
  /\ synch \in [SyncPorts -> {0, 1}]
  /\ pre \in Seq(Executed(cfg)) /\ Over(execute(pre), A)
  /\ Says(execute(pre), v, val, written)
  /\ Meets(execute(pre \o Inner(Stmt(cfg, loc, m), loc, synced)).conditions, v)

Arrives(pre, m, part, v) ==
  NextNode = m /\ Says(execute(pre \o part), v, Computed, Written)

LEMMA ConditionRuns ==
  ASSUME NEW A, NEW pre, NEW m, NEW synced, NEW v, InnerHolds(A, pre, m, synced, v),
         IsBranch(cfg, loc)
  PROVE  Arrives(pre, m, Inner(Stmt(cfg, loc, m), loc, synced), v)
<1> USE DEF InnerHolds
<1> DEFINE s == cfg.stmt[loc]
           t == Stmt(cfg, loc, m)
           sym == execute(pre)
           c == << sym.map[s.var], s.val, t.holds >>
<1>1. s.op = "if" /\ s \in StatementsOf(cfg) /\ t \in StatementsOf(cfg)
      /\ Succ(cfg, loc)[1] = loc + 1 /\ Succ(cfg, loc)[2] # loc + 1
  BY NodeFacts, StmtType DEF Op
<1>2. s \in [op : {"if"}, var : Vars, val : Values, holds : BOOLEAN]
  BY <1>1 DEF StatementsOf
<1>3. t = [s EXCEPT !.holds = (m = loc + 1)]
  BY DEF Stmt
<1>4. /\ t.op = "if" /\ t.var = s.var /\ t.val = s.val /\ s.var \in Vars
      /\ t.holds <=> (m = loc + 1)
  BY <1>2, <1>3
<1>5. ~ IsComm(cfg, loc)
  BY <1>1 DEF IsComm, IsRead, IsWrite, Op
<1>6. Inner(t, loc, synced) = << t >>
  BY <1>5 DEF Inner, IsSlaveIn
<1>7. t \in Executed(cfg)
  BY <1>1 DEF Executed
<1>8. execute(pre \o << t >>) = Execute(sym, t)
  <2> HIDE DEF t
  <2> QED
    BY <1>7, ExecuteOne
<1>9. Execute(sym, t) = [sym EXCEPT !.conditions = sym.conditions \cup {c}]
  <2> HIDE DEF t, sym
  <2> QED
    BY <1>4 DEF Execute
<1>10. /\ Says(execute(pre \o << t >>), v, val, written)
       /\ Execute(sym, t).conditions = sym.conditions \cup {c}
  <2> HIDE DEF c, t, sym
  <2>1. Over(sym, A) /\ Says(sym, v, val, written)
    BY DEF sym
  <2>2. Says(Execute(sym, t), v, val, written)
    <3>1. \A C : Says([sym EXCEPT !.conditions = C], v, val, written)
      BY <2>1, SaysCollected
    <3> HIDE DEF InnerHolds
    <3> QED
      BY <1>9, <3>1, Zenon
  <2>3. [sym EXCEPT !.conditions = sym.conditions \cup {c}].conditions = sym.conditions \cup {c}
    BY <2>1 DEF Over, Symbolic
  <2> QED
    BY <1>8, <1>9, <2>2, <2>3
<1>11. Computed = val /\ Written = written
  BY <1>1, <1>5 DEF Computed, Written, IsComm
<1>12. Eval(sym.map[s.var], v) = val[s.var]
  BY <1>4 DEF Says
<1>13. (val[s.var] = s.val) <=> (m = loc + 1)
  <2>1. c \in execute(pre \o Inner(t, loc, synced)).conditions
    BY <1>6, <1>8, <1>10
  <2>2. (Eval(c[1], v) = c[2]) <=> c[3]
    <3> HIDE DEF c
    <3> QED
      BY <2>1 DEF Meets
  <2>3. c[1] = sym.map[s.var] /\ c[2] = s.val /\ c[3] = t.holds
    OBVIOUS
  <2>4. (Eval(sym.map[s.var], v) = s.val) <=> t.holds
    <3> HIDE DEF c, t, s, sym
    <3> QED
      BY <2>2, <2>3
  <2> HIDE DEF c, t, s, sym
  <2> QED
    BY <1>4, <1>12, <2>4
<1>14. m = Succ(cfg, loc)[1] \/ m = Succ(cfg, loc)[2]
  BY SuccessorIs
<1>15. NextNode = m
  BY <1>1, <1>13, <1>14 DEF NextNode
<1> HIDE DEF t, s, sym, InnerHolds
<1> QED
  BY <1>6, <1>10, <1>11, <1>15, Zenon DEF Arrives, t

LEMMA OtherRuns ==
  ASSUME NEW A, NEW pre, NEW m, NEW synced, NEW v, InnerHolds(A, pre, m, synced, v),
         ~ IsBranch(cfg, loc), ~ IsSlaveIn(loc)
  PROVE  Arrives(pre, m, Inner(Stmt(cfg, loc, m), loc, synced), v)
<1> USE DEF InnerHolds
<1> DEFINE s == cfg.stmt[loc]
<1>1. s \in StatementsOf(cfg) /\ s.op # "if" /\ Stmt(cfg, loc, m) = s
  BY NodeFacts, StmtType DEF Op
<1>2. Inner(s, loc, synced) = << s >>
  BY DEF Inner
<1>3. s \in Executed(cfg)
  BY <1>1 DEF Executed
<1>4. execute(pre \o << s >>) = Execute(execute(pre), s)
  BY <1>3, ExecuteOne
<1>5. s.op \in {"read", "try_read"} => s.port \notin SyncPorts
  <2> SUFFICES ASSUME s.op \in {"read", "try_read"} PROVE s.port \notin SyncPorts
    OBVIOUS
  <2>1. IsComm(cfg, loc) /\ Port(cfg, loc) = s.port
    BY DEF IsComm, IsRead, Op, Port
  <2>2. cfg.ports[s.port] \notin Blocking
    BY <2>1 DEF IsBlocking, Port
  <2>3. s.port \in DOMAIN cfg.ports /\ cfg.ports[s.port] # "slave in"
    BY <2>1, CommPort DEF IsSlaveIn, slaveIn
  <2> QED
    BY <2>2, <2>3 DEF SyncPorts
<1>6. Says(Execute(execute(pre), s), v, Computed,
           IF IsWrite(cfg, loc) THEN Put(written, Port(cfg, loc), val[s.var]) ELSE written)
  BY <1>1, <1>5, StatementRuns
<1>7. Written = IF IsWrite(cfg, loc) THEN Put(written, Port(cfg, loc), val[s.var]) ELSE written
  BY DEF Written
<1>8. m = Succ(cfg, loc)[1]
  BY SuccessorIs
<1>9. NextNode = m
  BY <1>8 DEF NextNode
<1> QED
  BY <1>1, <1>2, <1>4, <1>6, <1>7, <1>9, Zenon DEF Arrives

LEMMA SlaveRuns ==
  ASSUME NEW A, NEW pre, NEW m, NEW synced, NEW v, InnerHolds(A, pre, m, synced, v),
         IsSlaveIn(loc)
  PROVE  Arrives(pre, m, Inner(Stmt(cfg, loc, m), loc, synced), v)
<1> USE DEF InnerHolds
<1> DEFINE s == cfg.stmt[loc]
           p == s.port
           sym == execute(pre)
           no == Sync(p, FALSE)
           yes == Sync(p, TRUE)
           miss == Execute(sym, no)
           meet == Execute(sym, yes)
<1>1. IsComm(cfg, loc)
  BY DEF IsSlaveIn
<1>2. /\ s \in StatementsOf(cfg) /\ s.op # "if" /\ Stmt(cfg, loc, m) = s
      /\ p \in DOMAIN cfg.ports /\ p = Port(cfg, loc) /\ s.var \in Vars
      /\ ~ IsBranch(cfg, loc) /\ "port" \in DOMAIN s
      /\ IsNonBlockingAccess(cfg, loc) => s.flag \in Vars
  BY <1>1, NodeFacts, StmtType, CommPort DEF Op
<1>3. cfg.ports[p] = "slave in"
  BY <1>2 DEF IsSlaveIn, slaveIn
<1>4. s.op \in {"read", "try_read"} /\ ~ IsWrite(cfg, loc)
  <2>1. s.op \in {"read", "try_read", "write", "try_write"}
    BY <1>1 DEF IsComm, IsRead, IsWrite, Op
  <2>2. s.op \notin {"write", "try_write"}
    BY <1>2, <1>3 DEF StatementsOf
  <2> QED
    BY <2>1, <2>2 DEF IsWrite, Op
<1>5. p \in SyncPorts
  BY <1>2, <1>3 DEF SyncPorts, Used, Ports
<1>6. m = Succ(cfg, loc)[1]
  BY <1>2, SuccessorIs
<1>7. NextNode = m /\ Written = written
  BY <1>2, <1>4, <1>6 DEF NextNode, Written
<1>8. s \in Executed(cfg) /\ yes \in Executed(cfg) /\ no \in Executed(cfg)
  BY <1>2, SyncType DEF Executed
<1>9. /\ Over(meet, A) /\ Over(miss, A)
      /\ Says(meet, v, val, written) /\ Says(miss, v, val, written)
  BY <1>8, ExecuteOver, SaysSync
<1>10. Stmt(cfg, loc, m) = s
  BY <1>2
<1> HIDE DEF meet, miss, sym, yes, no
<1>11. CASE loc \in synced
  <2>1. Inner(s, loc, synced) = << yes, s >>
    BY <1>11 DEF Inner, yes
  <2>2. execute(pre \o << yes, s >>) = Execute(meet, s)
    BY <1>8, ExecuteTwo DEF meet, sym
  <2>3. Meets(Execute(meet, s).conditions, v)
    BY <1>10, <2>1, <2>2
  <2>4. meet.conditions \subseteq Execute(meet, s).conditions
    BY <1>9, MoreConditions DEF Over
  <2>5. ~ Nobody(p)
    <3>1. TRUE \in BOOLEAN
      OBVIOUS
    <3>2. Nobody(p) <=> ~ TRUE
      BY <1>5, <2>3, <2>4, <3>1, SyncCollected DEF meet, sym, yes
    <3> QED
      BY <3>2
  <2>6. Says(Execute(meet, s), v, Computed,
             IF IsWrite(cfg, loc) THEN Put(written, Port(cfg, loc), val[s.var]) ELSE written)
    BY <1>2, <1>9, <2>5, StatementRuns
  <2> QED
    BY <1>4, <1>7, <1>10, <2>1, <2>2, <2>6, Zenon DEF Arrives
<1>12. CASE loc \notin synced
  <2>1. Inner(s, loc, synced)
          = << no >> \o IF IsNonBlockingAccess(cfg, loc) THEN << Flag(s) >> ELSE << >>
    BY <1>12 DEF Inner, no
  <2>2. ASSUME NEW C, miss.conditions \subseteq C, Meets(C, v) PROVE Nobody(p)
    <3>1. FALSE \in BOOLEAN
      OBVIOUS
    <3>2. Nobody(p) <=> ~ FALSE
      BY <1>5, <2>2, <3>1, SyncCollected DEF miss, sym, no
    <3> QED
      BY <3>2
  <2>3. val = [val EXCEPT ![s.var] = val[s.var]]
    BY DEF Says
  <2>4. CASE IsNonBlockingAccess(cfg, loc)
    <3>1. s.op = "try_read"
      BY <1>4, <2>4 DEF IsNonBlockingAccess, Op
    <3>2. Inner(s, loc, synced) = << no >> \o << Flag(s) >>
      BY <2>1, <2>4
    <3>3. Flag(s) \in Executed(cfg)
      BY <1>1, <2>4, FlagType
    <3>4. execute(pre \o (<< no >> \o << Flag(s) >>)) = Execute(miss, Flag(s))
      BY <1>8, <3>3, ExecuteBoth DEF miss, sym
    <3>5. miss.conditions \subseteq Execute(miss, Flag(s)).conditions
      BY <1>9, MoreConditions DEF Over
    <3>6. Nobody(p)
      BY <1>10, <2>2, <3>2, <3>4, <3>5
    <3>7. Computed = [val EXCEPT ![s.flag] = synch[p]]
      <4>1. Computed = [val EXCEPT ![s.var] = Received(s), ![s.flag] = synch[p]]
        BY <3>1 DEF Computed
      <4>2. Received(s) = val[s.var]
        BY <1>5, <3>6 DEF Received
      <4> QED
        BY <2>3, <4>1, <4>2
    <3>8. Says(Execute(miss, Flag(s)), v, [val EXCEPT ![s.flag] = synch[p]], written)
      BY <1>2, <1>9, <2>4, SaysFlag
    <3> QED
      BY <1>7, <1>10, <3>2, <3>4, <3>7, <3>8, Zenon DEF Arrives
  <2>5. CASE ~ IsNonBlockingAccess(cfg, loc)
    <3>1. s.op = "read"
      BY <1>4, <2>5 DEF IsNonBlockingAccess, Op
    <3>2. Inner(s, loc, synced) = << no >>
      <4>1. << no >> \o << >> = << no >>
        BY <1>8, ShortSeqs
      <4> QED
        BY <2>1, <2>5, <4>1, Zenon
    <3>3. execute(pre \o << no >>) = miss
      BY <1>8, ExecuteOne DEF miss, sym
    <3>4. Nobody(p)
      BY <1>10, <2>2, <3>2, <3>3
    <3>5. Computed = val
      <4>1. Computed = [val EXCEPT ![s.var] = Received(s)]
        BY <3>1 DEF Computed
      <4>2. Received(s) = val[s.var]
        BY <1>5, <3>4 DEF Received
      <4> QED
        BY <2>3, <4>1, <4>2
    <3> QED
      BY <1>7, <1>9, <1>10, <3>2, <3>3, <3>5, Zenon DEF Arrives
  <2> QED
    BY <2>4, <2>5
<1> QED
  BY <1>11, <1>12

LEMMA NodeRuns ==
  ASSUME NEW A, NEW pre, NEW m, NEW synced, NEW v, InnerHolds(A, pre, m, synced, v)
  PROVE  Arrives(pre, m, Inner(Stmt(cfg, loc, m), loc, synced), v)
<1>1. IsSlaveIn(loc) \/ (~ IsSlaveIn(loc) /\ (IsBranch(cfg, loc) \/ ~ IsBranch(cfg, loc)))
  OBVIOUS
<1> QED
  BY <1>1, ConditionRuns, OtherRuns, SlaveRuns, Zenon

-----------------------------------------------------------------------------
(* The first node of a path is a state.                                     *)
StateNode(n) == \/ n = 0
                \/ Op(cfg, n) = "wait"
                \/ IsBlocking(cfg, n)
                \/ IsMaster(cfg, n)

(* The statements an operation can start with when the program is not       *)
(* blocked, and those of a wait.                                            *)
Starts(n, first) == \/ first = First(n)
                    \/ /\ IsBlocking(cfg, n) /\ IsNonBlockingAccess(cfg, n)
                       /\ first = FirstNotSynced(n)

LEMMA FirstFrom ==
  ASSUME NEW E, NEW n,
         IsComm(cfg, n) => /\ cfg.stmt[n] \in E
                           /\ Sync(cfg.stmt[n].port, TRUE) \in E
                           /\ Sync(cfg.stmt[n].port, FALSE) \in E
                           /\ IsNonBlockingAccess(cfg, n) => Flag(cfg.stmt[n]) \in E
  PROVE  /\ \A first : Starts(n, first) => first \in Seq(E)
         /\ IsBlocking(cfg, n) => WaitStatements(n) \in Seq(E)
<1> DEFINE s == cfg.stmt[n]
           yes == Sync(s.port, TRUE)
           no == Sync(s.port, FALSE)
<1>2. IsBlocking(cfg, n) => IsComm(cfg, n)
  BY DEF IsBlocking
<1>3. IsComm(cfg, n) => /\ s \in E /\ yes \in E /\ no \in E
                        /\ IsNonBlockingAccess(cfg, n) => Flag(s) \in E
  OBVIOUS
<1>4. << >> \in Seq(E) /\ (IsComm(cfg, n) => << s >> \in Seq(E))
  <2> HIDE DEF s
  <2>1. << >> \in Seq(E)
    OBVIOUS
  <2>2. ASSUME IsComm(cfg, n) PROVE << s >> \in Seq(E)
    BY <1>3, <2>2, ShortSeqs
  <2> QED
    BY <2>1, <2>2
<1> HIDE DEF yes, no
<1>5. First(n) \in Seq(E)
  <2>1. CASE ~ IsComm(cfg, n)
    <3>1. First(n) = << >>
      BY <1>2, <2>1, Zenon DEF First
    <3> QED
      BY <1>4, <3>1
  <2>2. CASE IsComm(cfg, n) /\ ~ IsBlocking(cfg, n)
    <3>1. First(n) = IF IsRead(cfg, n) THEN << s >> ELSE << >>
      BY <2>2 DEF First
    <3> QED
      BY <1>4, <2>2, <3>1
  <2>3. CASE IsBlocking(cfg, n)
    <3> DEFINE more == CASE IsRead(cfg, n) -> << s >>
                         [] Op(cfg, n) = "try_write" -> << Flag(s) >>
                         [] OTHER -> << >>
    <3>1. First(n) = << yes >> \o more
      BY <1>2, <2>3, Zenon DEF First, yes
    <3>2. more \in Seq(E)
      <4>1. Op(cfg, n) = "try_write" => Flag(s) \in E
        BY <1>2, <1>3, <2>3 DEF IsNonBlockingAccess
      <4>2. CASE IsRead(cfg, n)
        <5>1. Op(cfg, n) # "try_write"
          BY <4>2 DEF IsRead
        <5>2. more = << s >>
          BY <4>2, <5>1
        <5> QED
          BY <1>2, <1>4, <2>3, <5>2
      <4>3. CASE ~ IsRead(cfg, n) /\ Op(cfg, n) = "try_write"
        <5>1. more = << Flag(s) >>
          BY <4>3
        <5> QED
          BY <4>1, <4>3, <5>1
      <4>4. CASE ~ IsRead(cfg, n) /\ Op(cfg, n) # "try_write"
        <5>1. more = << >>
          BY <4>4
        <5> QED
          BY <1>4, <5>1
      <4> QED
        BY <4>2, <4>3, <4>4
    <3>3. << yes >> \in Seq(E)
      BY <1>2, <1>3, <2>3
    <3> HIDE DEF more
    <3> QED
      BY <3>1, <3>2, <3>3, ConcatProperties
  <2> QED
    BY <1>2, <2>1, <2>2, <2>3
<1>6. ASSUME IsBlocking(cfg, n), IsNonBlockingAccess(cfg, n) PROVE FirstNotSynced(n) \in Seq(E)
  <2>1. FirstNotSynced(n) = << no, Flag(s) >>
    BY DEF FirstNotSynced, no
  <2> QED
    BY <1>2, <1>3, <1>6, <2>1, ShortSeqs
<1>7. ASSUME IsBlocking(cfg, n) PROVE WaitStatements(n) \in Seq(E)
  <2>1. WaitStatements(n) = << no >> \o IF IsWrite(cfg, n) THEN << s >> ELSE << >>
    BY DEF WaitStatements, no
  <2>2. << no >> \in Seq(E) /\ (IF IsWrite(cfg, n) THEN << s >> ELSE << >>) \in Seq(E)
    BY <1>2, <1>3, <1>4, <1>7
  <2> QED
    BY <2>1, <2>2, ConcatProperties
<1> QED
  BY <1>5, <1>6, <1>7 DEF Starts

LEMMA FirstType ==
  ASSUME cfg \in Programs, NEW n \in Node(cfg)
  PROVE  /\ \A first : Starts(n, first) => first \in Seq(Executed(cfg))
         /\ IsBlocking(cfg, n) => WaitStatements(n) \in Seq(Executed(cfg))
<1>1. cfg.stmt[n] \in Executed(cfg)
  BY NodeFacts DEF Executed
<1>2. IsComm(cfg, n) => /\ Sync(cfg.stmt[n].port, TRUE) \in Executed(cfg)
                        /\ Sync(cfg.stmt[n].port, FALSE) \in Executed(cfg)
                        /\ IsNonBlockingAccess(cfg, n) => Flag(cfg.stmt[n]) \in Executed(cfg)
  BY CommPort, SyncType, FlagType
<1> QED
  BY <1>1, <1>2, FirstFrom

LEMMA ExecuteShort ==
  ASSUME NEW S, NEW a \in S, NEW b \in S
  PROVE  /\ execute(<< a >>) = Execute(Start, a)
         /\ execute(<< a, b >>) = Execute(Execute(Start, a), b)
         /\ execute(<< a >> \o << b >>) = Execute(Execute(Start, a), b)
<1>1. << >> \in Seq(S) /\ << a >> \in Seq(S) /\ << a, b >> \in Seq(S) /\ << a >> \o << b >> \in Seq(S)
  BY ShortSeqs
<1>2. \A t \in Seq(S) : << >> \o t = t
  BY ConcatEmptySeq
<1>3. execute(<< >> \o << a >>) = Execute(execute(<< >>), a)
  BY <1>1, ExecuteOne
<1>0. /\ \A p \in Seq(S) : execute(p \o << a, b >>) = Execute(Execute(execute(p), a), b)
      /\ \A p \in Seq(S) : execute(p \o (<< a >> \o << b >>)) = Execute(Execute(execute(p), a), b)
  BY ExecuteTwo, ExecuteBoth
<1>4. execute(<< >> \o << a, b >>) = Execute(Execute(execute(<< >>), a), b)
  BY <1>0, <1>1, Zenon
<1>5. execute(<< >> \o (<< a >> \o << b >>)) = Execute(Execute(execute(<< >>), a), b)
  BY <1>0, <1>1, Zenon
<1>6. << >> \o << a >> = << a >> /\ << >> \o << a, b >> = << a, b >>
      /\ << >> \o (<< a >> \o << b >>) = << a >> \o << b >>
  BY <1>1, <1>2
<1> QED
  BY <1>3, <1>4, <1>5, <1>6, ExecuteNothing, Zenon

LEMMA StartSays ==
  ASSUME val = [x \in Vars |-> val[x]]
  PROVE  Says(Start, val, val, << >>)
<1>1. \A x \in Vars : Eval(Start.map[x], val) = val[x]
  BY DEF Start, Eval
<1>2. val = [x \in Vars |-> Eval(Start.map[x], val)]
  BY <1>1
<1>3. Start.sig = << >>
  BY DEF Start
<1>4. DOMAIN << >> = {}
  OBVIOUS
<1> QED
  BY <1>2, <1>3, <1>4 DEF Says

(* From a state, when the program is not blocked. *)
StateHolds(A, first, m) ==
  /\ cfg \in Programs /\ Given(cfg) \cup Unknown(Vars) \subseteq A
  /\ loc \in Node(cfg) /\ m \in Range(Succ(cfg, loc))
  /\ IsImportant(loc) /\ StateNode(loc) /\ ~ Blocked
  /\ synch \in [SyncPorts -> {0, 1}]
  /\ val = [x \in Vars |-> val[x]]
  /\ Starts(loc, first)
  /\ Meets(execute(first).conditions, val)

Leaves(m, first) == NextNode = m /\ Says(execute(first), val, Computed, Written)

LEMMA StateGoesOn ==
  ASSUME NEW A, NEW first, NEW m, StateHolds(A, first, m)
  PROVE  /\ NextNode = m /\ Written = << >>
         /\ cfg.stmt[loc] \in StatementsOf(cfg) /\ cfg.stmt[loc].op # "if"
         /\ Over(Start, A) /\ Says(Start, val, val, << >>)
<1> USE DEF StateHolds
<1>1. Op(cfg, loc) # "if"
  <2>1. loc = 0 => Op(cfg, loc) = "reset"
    BY ProgramsAssumption DEF ProgramsAreGraphs
  <2>2. IsBlocking(cfg, loc) \/ IsMaster(cfg, loc) => Op(cfg, loc) # "if"
    BY DEF IsBlocking, IsMaster, IsComm, IsRead, IsWrite
  <2> QED
    BY <2>1, <2>2 DEF StateNode
<1>2. ~ IsBranch(cfg, loc) /\ cfg.stmt[loc] \in StatementsOf(cfg)
  BY <1>1, NodeFacts
<1>3. m = Succ(cfg, loc)[1]
  BY <1>2, SuccessorIs
<1>4. NextNode = m
  BY <1>2, <1>3 DEF NextNode
<1>5. Written = << >>
  BY DEF Written
<1>6. Over(Start, A) /\ Says(Start, val, val, << >>)
  BY StartOver, StartSays
<1> QED
  BY <1>1, <1>2, <1>4, <1>5, <1>6 DEF Op

(* The statement of a state that reads and finds somebody. *)
LEMMA StateReads ==
  ASSUME NEW A, NEW first, NEW m, StateHolds(A, first, m), ~ IsWrite(cfg, loc),
         NEW sym, Over(sym, A), Says(sym, val, val, << >>),
         LET s == cfg.stmt[loc]
         IN  s.op \in {"read", "try_read"} => ~ (s.port \in SyncPorts /\ Nobody(s.port))
  PROVE  Says(Execute(sym, cfg.stmt[loc]), val, Computed, << >>)
<1> DEFINE s == cfg.stmt[loc]
<1>1. s \in StatementsOf(cfg) /\ s.op # "if" /\ Given(cfg) \subseteq A
  BY StateGoesOn DEF StateHolds
<1>2. Says(Execute(sym, s), val, Computed,
           IF IsWrite(cfg, loc) THEN Put(<< >>, Port(cfg, loc), val[s.var]) ELSE << >>)
  BY <1>1, StatementRuns
<1> QED
  BY <1>2

LEMMA NoCommunication ==
  ASSUME NEW A, NEW first, NEW m, StateHolds(A, first, m), ~ IsBlocking(cfg, loc)
  PROVE  Leaves(m, first)
<1> DEFINE s == cfg.stmt[loc]
<1>1. /\ NextNode = m /\ Written = << >> /\ s \in StatementsOf(cfg) /\ s.op # "if"
      /\ Over(Start, A) /\ Says(Start, val, val, << >>)
  BY StateGoesOn
<1>2. first = First(loc)
  BY DEF StateHolds, Starts
<1>3. execute(<< >>) = Start
  BY ExecuteNothing
<1>4. CASE ~ IsComm(cfg, loc)
  <2>1. first = << >>
    BY <1>2, <1>4, Zenon DEF First, IsBlocking
  <2>2. Op(cfg, loc) \in {"reset", "wait"}
    <3>1. loc = 0 => Op(cfg, loc) = "reset"
      BY ProgramsAssumption DEF ProgramsAreGraphs, StateHolds
    <3> QED
      BY <1>4, <3>1 DEF StateHolds, StateNode, IsBlocking, IsMaster
  <2>3. Computed = val
    BY <2>2 DEF Computed, Op
  <2> QED
    BY <1>1, <1>3, <2>1, <2>3 DEF Leaves
<1>5. CASE IsComm(cfg, loc)
  <2>0. loc \in Node(cfg) /\ cfg \in Programs
    BY DEF StateHolds
  <2>1. first = IF IsRead(cfg, loc) THEN << s >> ELSE << >>
    BY <1>2, <1>5 DEF First
  <2>2. /\ s.port \in DOMAIN cfg.ports
        /\ cfg.ports[s.port] \in {"master in", "master out"}
    <3>1. Op(cfg, 0) = "reset"
      BY <2>0, ProgramsAssumption DEF ProgramsAreGraphs
    <3>2. loc # 0 /\ Op(cfg, loc) # "wait"
      BY <1>5, <3>1 DEF IsComm, IsRead, IsWrite
    <3>3. IsMaster(cfg, loc)
      BY <3>2 DEF StateHolds, StateNode
    <3> QED
      BY <1>5, <2>0, <3>3, CommPort DEF IsMaster
  <2>3. s.op \notin {"try_read", "try_write"}
    BY <1>1, <2>2 DEF StatementsOf
  <2>4. CASE IsRead(cfg, loc)
    <3>1. ~ IsWrite(cfg, loc)
      BY <2>4 DEF IsRead, IsWrite
    <3>2. s.port \notin SyncPorts
      BY <2>2 DEF SyncPorts, Blocking
    <3>3. Says(Execute(Start, s), val, Computed, << >>)
      BY <1>1, <3>1, <3>2, StateReads
    <3>4. s \in Executed(cfg)
      BY <1>1 DEF Executed
    <3>5. execute(<< s >>) = Execute(Start, s)
      BY <3>4, ExecuteShort
    <3> QED
      BY <1>1, <2>1, <2>4, <3>3, <3>5 DEF Leaves
  <2>5. CASE ~ IsRead(cfg, loc)
    <3>1. s.op = "write"
      BY <1>5, <2>3, <2>5 DEF IsComm, IsRead, IsWrite, Op
    <3>2. Computed = val
      BY <3>1 DEF Computed
    <3> QED
      BY <1>1, <1>3, <2>1, <2>5, <3>2 DEF Leaves
  <2> QED
    BY <2>4, <2>5
<1> QED
  BY <1>4, <1>5

LEMMA Communication ==
  ASSUME NEW A, NEW first, NEW m, StateHolds(A, first, m), IsBlocking(cfg, loc)
  PROVE  Leaves(m, first)
<1> DEFINE s == cfg.stmt[loc]
           p == s.port
           yes == Sync(p, TRUE)
           no == Sync(p, FALSE)
           meet == Execute(Start, yes)
           miss == Execute(Start, no)
<1>1. /\ NextNode = m /\ Written = << >> /\ s \in StatementsOf(cfg) /\ s.op # "if"
      /\ Over(Start, A) /\ Says(Start, val, val, << >>)
  BY StateGoesOn
<1>2. /\ cfg \in Programs /\ loc \in Node(cfg) /\ Given(cfg) \subseteq A
      /\ synch \in [SyncPorts -> {0, 1}] /\ Meets(execute(first).conditions, val)
      /\ Starts(loc, first) /\ ~ Blocked
  BY DEF StateHolds
<1>3. IsComm(cfg, loc)
  BY DEF IsBlocking
<1>4. /\ p \in DOMAIN cfg.ports /\ p = Port(cfg, loc) /\ s.var \in Vars /\ "port" \in DOMAIN s
      /\ IsNonBlockingAccess(cfg, loc) => s.flag \in Vars
  BY <1>2, <1>3, CommPort
<1>5. p \in SyncPorts
  BY <1>2, <1>4 DEF SyncPorts, Used, Ports, IsBlocking
<1>6. s \in Executed(cfg) /\ yes \in Executed(cfg) /\ no \in Executed(cfg)
  BY <1>1, <1>4, SyncType DEF Executed
<1>7. IsNonBlockingAccess(cfg, loc) => Flag(s) \in Executed(cfg)
  BY <1>2, <1>3, FlagType
<1>8. /\ Over(meet, A) /\ Over(miss, A)
      /\ Says(meet, val, val, << >>) /\ Says(miss, val, val, << >>)
  BY <1>1, <1>2, <1>6, ExecuteOver, SaysSync
<1>9. ASSUME NEW t, execute(first) = Execute(meet, t) \/ execute(first) = meet
      PROVE  ~ Nobody(p)
  <2>1. meet.conditions \subseteq execute(first).conditions
    BY <1>8, <1>9, MoreConditions DEF Over
  <2>2. TRUE \in BOOLEAN
    OBVIOUS
  <2>3. Nobody(p) <=> ~ TRUE
    BY <1>1, <1>2, <1>5, <2>1, <2>2, SyncCollected
  <2> QED
    BY <2>3
<1>10. ASSUME NEW t, execute(first) = Execute(miss, t)
       PROVE  Nobody(p)
  <2>1. miss.conditions \subseteq execute(first).conditions
    BY <1>8, <1>10, MoreConditions DEF Over
  <2>2. FALSE \in BOOLEAN
    OBVIOUS
  <2>3. Nobody(p) <=> ~ FALSE
    BY <1>1, <1>2, <1>5, <2>1, <2>2, SyncCollected
  <2> QED
    BY <2>3
<1>11. s.op \in {"read", "try_read", "write", "try_write"}
  BY <1>3 DEF IsComm, IsRead, IsWrite, Op
<1>12. val = [val EXCEPT ![s.var] = val[s.var]]
  BY DEF StateHolds
<1>13. first = First(loc) => first = << yes >> \o (CASE IsRead(cfg, loc) -> << s >>
                                                     [] Op(cfg, loc) = "try_write" -> << Flag(s) >>
                                                     [] OTHER -> << >>)
  BY <1>3, Zenon DEF First
<1>14. first = FirstNotSynced(loc) => first = << no, Flag(s) >>
  BY DEF FirstNotSynced
<1> HIDE DEF yes, no, meet, miss
<1>15. CASE first = First(loc) /\ IsRead(cfg, loc)
  <2>1. first = << yes >> \o << s >>
    <3>1. Op(cfg, loc) # "try_write"
      BY <1>15 DEF IsRead
    <3> QED
      BY <1>13, <1>15, <3>1
  <2>2. execute(first) = Execute(meet, s)
    BY <1>6, <2>1, ExecuteShort DEF meet
  <2>3. ~ Nobody(p)
    BY <1>9, <2>2
  <2>4. ~ IsWrite(cfg, loc)
    BY <1>15 DEF IsRead, IsWrite
  <2>5. Says(Execute(meet, s), val, Computed, << >>)
    BY <1>8, <2>3, <2>4, StateReads
  <2> QED
    BY <1>1, <2>2, <2>5 DEF Leaves
<1>16. CASE first = First(loc) /\ s.op = "try_write"
  <2>1. first = << yes >> \o << Flag(s) >>
    <3>1. Op(cfg, loc) = "try_write" /\ ~ IsRead(cfg, loc)
      BY <1>16 DEF IsRead, Op
    <3> QED
      BY <1>13, <1>16, <3>1
  <2>2. s.flag \in Vars /\ Flag(s) \in Executed(cfg)
    BY <1>4, <1>7, <1>16 DEF IsNonBlockingAccess, Op
  <2>3. execute(first) = Execute(meet, Flag(s))
    BY <1>6, <2>1, <2>2, ExecuteShort DEF meet
  <2>4. Says(Execute(meet, Flag(s)), val, [val EXCEPT ![s.flag] = synch[p]], << >>)
    BY <1>8, <2>2, SaysFlag
  <2>5. Computed = [val EXCEPT ![s.flag] = synch[p]]
    BY <1>16 DEF Computed
  <2> QED
    BY <1>1, <2>3, <2>4, <2>5 DEF Leaves
<1>17. CASE first = First(loc) /\ s.op = "write"
  <2>1. first = << yes >> \o << >>
    <3>1. Op(cfg, loc) # "try_write" /\ ~ IsRead(cfg, loc)
      BY <1>17 DEF IsRead, Op
    <3> QED
      BY <1>13, <1>17, <3>1
  <2>2. execute(first) = meet
    <3>1. << yes >> \o << >> = << yes >>
      BY <1>6, ShortSeqs
    <3>2. execute(<< yes >>) = meet
      BY <1>6, ExecuteShort DEF meet
    <3> QED
      BY <2>1, <3>1, <3>2
  <2>3. Computed = val
    BY <1>17 DEF Computed
  <2> QED
    BY <1>1, <1>8, <2>2, <2>3 DEF Leaves
<1>18. CASE /\ first = FirstNotSynced(loc) /\ IsNonBlockingAccess(cfg, loc)
  <2>1. first = << no, Flag(s) >> /\ s.flag \in Vars /\ Flag(s) \in Executed(cfg)
    BY <1>4, <1>7, <1>14, <1>18
  <2>2. execute(first) = Execute(miss, Flag(s))
    BY <1>6, <2>1, ExecuteShort DEF miss
  <2>3. Nobody(p)
    BY <1>10, <2>2
  <2>4. Says(Execute(miss, Flag(s)), val, [val EXCEPT ![s.flag] = synch[p]], << >>)
    BY <1>8, <2>1, SaysFlag
  <2>5. Computed = [val EXCEPT ![s.flag] = synch[p]]
    <3>1. CASE s.op = "try_write"
      BY <3>1 DEF Computed
    <3>2. CASE s.op = "try_read"
      <4>1. Computed = [val EXCEPT ![s.var] = Received(s), ![s.flag] = synch[p]]
        BY <3>2 DEF Computed
      <4>2. Received(s) = val[s.var]
        BY <1>5, <2>3 DEF Received
      <4> QED
        BY <1>12, <4>1, <4>2
    <3> QED
      BY <1>18, <3>1, <3>2 DEF IsNonBlockingAccess, Op
  <2> QED
    BY <1>1, <2>2, <2>4, <2>5 DEF Leaves
<1>19. IsRead(cfg, loc) <=> s.op \in {"read", "try_read"}
  BY DEF IsRead, Op
<1> QED
  BY <1>2, <1>11, <1>15, <1>16, <1>17, <1>18, <1>19 DEF Starts

LEMMA FirstRuns ==
  ASSUME NEW A, NEW first, NEW m, StateHolds(A, first, m)
  PROVE  Leaves(m, first)
BY NoCommunication, Communication

-----------------------------------------------------------------------------
(* A blocking read or write waits until somebody is there.                  *)
Waits(n) == IsBlocking(cfg, n) /\ ~ IsNonBlockingAccess(cfg, n)

LEMMA WaitFacts ==
  ASSUME cfg \in Programs, NEW n \in Node(cfg), Waits(n)
  PROVE  LET s == cfg.stmt[n]
         IN  /\ IsComm(cfg, n) /\ s.op \in {"read", "write"} /\ s.var \in Vars
             /\ IsWrite(cfg, n) <=> s.op = "write"
             /\ s \in Executed(cfg) /\ Port(cfg, n) = s.port
             /\ s.port \in SyncPorts /\ s.port \in DOMAIN cfg.ports
             /\ Sync(s.port, FALSE) \in Executed(cfg) /\ Sync(s.port, TRUE) \in Executed(cfg)
             /\ First(n) = << Sync(s.port, TRUE) >> \o IF s.op = "read" THEN << s >> ELSE << >>
             /\ WaitStatements(n)
                  = << Sync(s.port, FALSE) >> \o IF s.op = "write" THEN << s >> ELSE << >>
<1> DEFINE s == cfg.stmt[n]
           yes == Sync(s.port, TRUE)
           no == Sync(s.port, FALSE)
<1>1. IsComm(cfg, n) /\ cfg.ports[s.port] \in Blocking
  BY DEF Waits, IsBlocking
<1>2. s.op \in {"read", "write"}
  BY <1>1 DEF Waits, IsComm, IsRead, IsWrite, IsNonBlockingAccess, Op
<1>3. /\ s.port \in DOMAIN cfg.ports /\ s.port = Port(cfg, n) /\ s.var \in Vars
      /\ "port" \in DOMAIN s
  BY <1>1, CommPort
<1>4. s.port \in SyncPorts
  BY <1>1, <1>3 DEF SyncPorts, Used, Ports
<1>5. yes \in Executed(cfg) /\ no \in Executed(cfg) /\ s \in Executed(cfg)
  BY <1>3, SyncType, NodeFacts DEF Executed
<1>6. (IsWrite(cfg, n) <=> s.op = "write") /\ (IsRead(cfg, n) <=> s.op = "read")
      /\ Op(cfg, n) # "try_write"
  BY <1>2 DEF IsRead, IsWrite, Op
<1>7. First(n) = << yes >> \o (CASE IsRead(cfg, n) -> << s >>
                                 [] Op(cfg, n) = "try_write" -> << Flag(s) >>
                                 [] OTHER -> << >>)
  BY <1>1, Zenon DEF First, Waits
<1>8. (CASE IsRead(cfg, n) -> << s >>
         [] Op(cfg, n) = "try_write" -> << Flag(s) >>
         [] OTHER -> << >>) = IF s.op = "read" THEN << s >> ELSE << >>
  BY <1>6
<1>9. WaitStatements(n) = << no >> \o IF IsWrite(cfg, n) THEN << s >> ELSE << >>
  BY DEF WaitStatements
<1> HIDE DEF yes, no
<1>10. WaitStatements(n) = << no >> \o IF s.op = "write" THEN << s >> ELSE << >>
  BY <1>6, <1>9
<1>11. First(n) = << yes >> \o IF s.op = "read" THEN << s >> ELSE << >>
  BY <1>7, <1>8
<1> QED
  BY <1>1, <1>2, <1>3, <1>4, <1>5, <1>6, <1>10, <1>11 DEF yes, no

(* What the first statement of several says of a synchronization. *)
LEMMA SyncFirst ==
  ASSUME cfg \in Programs, NEW p \in SyncPorts, p \in DOMAIN cfg.ports, NEW h \in BOOLEAN,
         synch \in [SyncPorts -> {0, 1}], NEW v, NEW more \in Seq(Executed(cfg)),
         Meets(execute(<< Sync(p, h) >> \o more).conditions, v)
  PROVE  Nobody(p) <=> ~ h
<1> DEFINE a == Sync(p, h)
           A == Given(cfg) \cup Unknown(Vars)
           E == Executed(cfg)
<1>1. a \in E
  BY SyncType
<1>2. << a >> \in Seq(E) /\ execute(<< a >>) = Execute(Start, a)
  BY <1>1, ExecuteShort, ShortSeqs
<1>3. Given(cfg) \subseteq A /\ Unknown(Vars) \subseteq A
  OBVIOUS
<1> HIDE DEF A
<1>4. Over(Start, A)
  BY <1>3, StartOver
<1>5. Over(Execute(Start, a), A)
  BY <1>1, <1>3, <1>4, ExecuteOver
<1>6. Execute(Start, a).conditions \subseteq execute(<< a >> \o more).conditions
  <2> HIDE DEF a
  <2> QED
    BY <1>2, <1>3, <1>5, ExecuteMore
<1> QED
  BY <1>4, <1>6, SyncCollected

LEMMA BlockedWaits ==
  ASSUME cfg \in Programs, loc \in Node(cfg), synch \in [SyncPorts -> {0, 1}], Waits(loc),
         NEW v
  PROVE  /\ Nobody(Port(cfg, loc)) => ~ Meets(execute(First(loc)).conditions, v)
         /\ ~ Nobody(Port(cfg, loc)) => ~ Meets(execute(WaitStatements(loc)).conditions, v)
<1> DEFINE s == cfg.stmt[loc]
           p == s.port
           E == Executed(cfg)
           r == IF s.op = "read" THEN << s >> ELSE << >>
           w == IF s.op = "write" THEN << s >> ELSE << >>
<1>1. /\ s \in E /\ p \in SyncPorts /\ p \in DOMAIN cfg.ports /\ Port(cfg, loc) = p
      /\ First(loc) = << Sync(p, TRUE) >> \o r
      /\ WaitStatements(loc) = << Sync(p, FALSE) >> \o w
  BY WaitFacts
<1>2. r \in Seq(E) /\ w \in Seq(E)
  BY <1>1
<1> HIDE DEF r, w
<1>3. \A h \in BOOLEAN : \A more \in Seq(E) :
        Meets(execute(<< Sync(p, h) >> \o more).conditions, v) => (Nobody(p) <=> ~ h)
  BY <1>1, SyncFirst
<1>4. TRUE \in BOOLEAN /\ FALSE \in BOOLEAN
  OBVIOUS
<1>5. Meets(execute(<< Sync(p, TRUE) >> \o r).conditions, v) => (Nobody(p) <=> ~ TRUE)
  BY <1>2, <1>3, <1>4, Zenon
<1>6. Meets(execute(<< Sync(p, FALSE) >> \o w).conditions, v) => (Nobody(p) <=> ~ FALSE)
  BY <1>2, <1>3, <1>4, Zenon
<1> QED
  BY <1>1, <1>5, <1>6, Zenon

(* A wait leaves the variables alone and keeps what it offers.             *)
LEMMA WaitLeaves ==
  ASSUME cfg \in Programs, NEW n \in Node(cfg), Waits(n)
  PROVE  LET sym == execute(WaitStatements(n))
         IN  /\ Over(sym, Given(cfg) \cup Unknown(Vars))
             /\ sym.map = [x \in Vars |-> << "variable", x >>]
             /\ DOMAIN sym.sig = IF IsWrite(cfg, n) THEN {Port(cfg, n)} ELSE {}
<1> DEFINE s == cfg.stmt[n]
           no == Sync(s.port, FALSE)
           A == Given(cfg) \cup Unknown(Vars)
           miss == Execute(Start, no)
<1>1. /\ s \in Executed(cfg) /\ no \in Executed(cfg) /\ s.op \in {"read", "write"}
      /\ Port(cfg, n) = s.port /\ (IsWrite(cfg, n) <=> s.op = "write")
      /\ WaitStatements(n) = << no >> \o IF s.op = "write" THEN << s >> ELSE << >>
  BY WaitFacts
<1>2. Given(cfg) \subseteq A /\ Unknown(Vars) \subseteq A
  OBVIOUS
<1>3. /\ miss.map = [x \in Vars |-> << "variable", x >>] /\ miss.sig = << >>
  BY DEF Execute, Start, Sync
<1> HIDE DEF A
<1>4. Over(miss, A)
  BY <1>1, <1>2, StartOver, ExecuteOver
<1> HIDE DEF miss, no
<1>5. CASE s.op = "write"
  <2>1. WaitStatements(n) = << no >> \o << s >>
    BY <1>1, <1>5
  <2>2. execute(WaitStatements(n)) = Execute(miss, s)
    BY <1>1, <2>1, ExecuteShort DEF miss
  <2>3. Over(Execute(miss, s), A)
    BY <1>1, <1>2, <1>4, ExecuteOver
  <2>4. Execute(miss, s) = [miss EXCEPT !.sig = Put(miss.sig, s.port, miss.map[s.var])]
    BY <1>5 DEF Execute
  <2>5. Execute(miss, s).map = miss.map /\ DOMAIN Execute(miss, s).sig = {s.port}
    <3>1. DOMAIN Put(<< >>, s.port, miss.map[s.var]) = {s.port}
      BY DEF Put
    <3> QED
      BY <1>3, <1>4, <2>4, <3>1 DEF Over, Symbolic
  <2> QED
    BY <1>1, <1>3, <1>5, <2>2, <2>3, <2>5 DEF A
<1>6. CASE s.op = "read"
  <2>1. WaitStatements(n) = << no >> \o << >>
    BY <1>1, <1>6
  <2>2. execute(WaitStatements(n)) = miss
    BY <1>1, <2>1, ExecuteShort, ShortSeqs DEF miss
  <2>3. DOMAIN miss.sig = {}
    BY <1>3
  <2> QED
    BY <1>1, <1>3, <1>4, <1>6, <2>2, <2>3 DEF A
<1> QED
  BY <1>1, <1>5, <1>6

-----------------------------------------------------------------------------
(* What the search leaves.  The states are the root, waits and              *)
(* communications, and once the initial ones are found no blocking          *)
(* communication is left out.                                               *)
StatesInv ==
  /\ importantStates[1] = 0
  /\ \A n \in Range(importantStates) : StateNode(n)
  /\ phase = "initial" =>
       \A n \in Node(cfg) : n < index /\ IsBlocking(cfg, n) => IsImportant(n)
  /\ phase \notin {"initial", "error"} =>
       \A n \in Node(cfg) : IsBlocking(cfg, n) => IsImportant(n)

LEMMA AppendRange ==
  ASSUME NEW S, NEW s \in Seq(S), s # << >>, NEW e
  PROVE  Range(Append(s, e)) = Range(s) \cup {e} /\ Append(s, e)[1] = s[1]
<1> DEFINE t == Append(s, e)
           n == Len(s)
           T == S \cup {e}
<1>1. s \in Seq(T) /\ e \in T /\ n \in Nat /\ n >= 1 /\ DOMAIN s = 1 .. n
  OBVIOUS
<1> HIDE DEF T
<1>2. /\ DOMAIN t = 1 .. n + 1 /\ \A i \in 1 .. n : t[i] = s[i]
      /\ t[n + 1] = e
  BY <1>1, AppendProperties
<1> HIDE DEF t
<1>3. \A i \in 1 .. n + 1 : i \in 1 .. n \/ i = n + 1
  BY <1>1
<1>4. \A i \in 1 .. n : i \in 1 .. n + 1
  BY <1>1
<1>5. n + 1 \in 1 .. n + 1 /\ 1 \in 1 .. n
  BY <1>1
<1> HIDE DEF n
<1>6. ASSUME NEW x PROVE x \in Range(t) <=> x \in Range(s) \cup {e}
  <2>1. ASSUME x \in Range(t) PROVE x \in Range(s) \cup {e}
    <3>1. PICK i \in 1 .. n + 1 : x = t[i]
      BY <1>2, <2>1, Zenon DEF Range
    <3>2. CASE i \in 1 .. n
      BY <1>1, <1>2, <3>1, <3>2, Zenon DEF Range
    <3>3. CASE i = n + 1
      BY <1>2, <3>1, <3>3, Zenon
    <3> QED
      BY <1>3, <3>2, <3>3, Zenon
  <2>2. ASSUME x \in Range(s) PROVE x \in Range(t)
    <3>1. PICK i \in 1 .. n : x = s[i]
      BY <1>1, <2>2, Zenon DEF Range
    <3> QED
      BY <1>2, <1>4, <3>1, Zenon DEF Range
  <2>3. e \in Range(t)
    BY <1>2, <1>5, Zenon DEF Range
  <2> QED
    BY <2>1, <2>2, <2>3, Zenon
<1>7. t[1] = s[1]
  BY <1>2, <1>5
<1> QED
  BY <1>6, <1>7 DEF t

LEMMA InitStatesInv == Init => StatesInv
<1> SUFFICES ASSUME Init PROVE StatesInv
  OBVIOUS
<1>1. /\ importantStates = << 0 >> /\ phase \in {"initial", "error"} /\ index = 0
      /\ cfg \in Programs
  BY Zenon DEF Init
<1>2. \A n \in Node(cfg) : n \in Nat
  BY <1>1, ProgramsAssumption DEF ProgramsAreGraphs
<1>3. importantStates[1] = 0 /\ \A n \in Range(importantStates) : n = 0
  BY <1>1 DEF Range
<1> QED
  BY <1>1, <1>2, <1>3 DEF StatesInv, StateNode

LEMMA StatesKept ==
  ASSUME StatesInv, UNCHANGED << cfg, importantStates >>,
         \/ phase \notin {"initial", "error"} /\ phase' # "initial"
         \/ UNCHANGED << phase, index >>
         \/ phase' = "error"
  PROVE  StatesInv'
BY DEF StatesInv, StateNode, IsImportant

LEMMA StatesGrow ==
  ASSUME IInv, StatesInv, UNCHANGED cfg, phase \notin {"initial", "error"}, phase' # "initial",
         NEW n, StateNode(n), importantStates' = Append(importantStates, n)
  PROVE  StatesInv'
<1>1. /\ Range(importantStates') = Range(importantStates) \cup {n}
      /\ importantStates'[1] = importantStates[1]
  BY AppendRange DEF IInv, TypeOK
<1> QED
  BY <1>1 DEF StatesInv, StateNode, IsImportant

LEMMA InitialStates ==
  ASSUME IInv, StatesInv, ColorInitial
  PROVE  StatesInv'
<1> DEFINE initial == IsBlocking(cfg, index) \/ Op(cfg, index) = "wait"
<1>1. /\ phase = "initial" /\ cfg' = cfg /\ index' = index + 1 /\ index \in Node(cfg)
      /\ phase' = IF index' \in Node(cfg) THEN "initial" ELSE "round"
      /\ importantStates' = IF initial THEN Append(importantStates, index) ELSE importantStates
  BY DEF ColorInitial, IInv, PhaseInv
<1>2. cfg \in Programs
  BY DEF IInv
<1>3. \A n \in Node(cfg) : n \in Nat
  BY <1>2, ProgramsAssumption DEF ProgramsAreGraphs
<1>4. /\ importantStates'[1] = 0
      /\ Range(importantStates) \subseteq Range(importantStates')
      /\ initial => index \in Range(importantStates')
      /\ \A n \in Range(importantStates') : StateNode(n)
  <2>1. CASE initial
    <3>1. /\ Range(importantStates') = Range(importantStates) \cup {index}
          /\ importantStates'[1] = importantStates[1]
      BY <1>1, <2>1, AppendRange DEF IInv, TypeOK
    <3> QED
      BY <2>1, <3>1 DEF StatesInv, StateNode
  <2>2. CASE ~ initial
    BY <1>1, <2>2 DEF StatesInv
  <2> QED
    BY <2>1, <2>2
<1>5. ASSUME NEW n \in Node(cfg), n < index + 1, IsBlocking(cfg, n)
      PROVE  n \in Range(importantStates')
  <2>1. n < index \/ n = index
    BY <1>1, <1>3, <1>5
  <2>2. n < index => n \in Range(importantStates)
    BY <1>1, <1>5 DEF StatesInv, IsImportant
  <2>3. n = index => initial
    BY <1>5
  <2> QED
    BY <1>4, <2>1, <2>2, <2>3
<1>6. index' \notin Node(cfg) => \A n \in Node(cfg) : n < index + 1
  <2>1. PICK last \in Node(cfg) : Node(cfg) = 0 .. last
    BY <1>2, RunAssumption DEF ProgramsRun
  <2> QED
    BY <1>1, <1>3, <2>1
<1> HIDE DEF initial
<1> QED
  BY <1>1, <1>4, <1>5, <1>6 DEF StatesInv, StateNode, IsImportant

LEMMA MasterIsState ==
  ASSUME NEW path, NEW i, i \in Masters(path)
  PROVE  StateNode(path[i])
BY DEF Masters, StateNode

LEMMA SpuriousStates ==
  ASSUME IInv, StatesInv, ProcessSpurious
  PROVE  StatesInv'
<1> DEFINE node == IF Conflicts(spuriousPath) # {}
                   THEN Candidate(spuriousPath, {spuriousPath[1]})
                   ELSE spuriousPath[Max(Masters(spuriousPath))]
<1>1. /\ phase = "states" /\ phase' = "check" /\ cfg' = cfg
      /\ Masters(spuriousPath) # {}
      /\ Color(node)
  BY DEF ProcessSpurious
<1>2. StateNode(node)
  <2>1. spuriousPath \in Seq(Node(cfg))
    BY DEF IInv, TypeOK
  <2>2. CASE Conflicts(spuriousPath) # {}
    <3>1. PICK i \in DOMAIN spuriousPath :
            /\ i \in Masters(spuriousPath)
            /\ Candidate(spuriousPath, {spuriousPath[1]}) = spuriousPath[i]
      BY <2>1, <2>2, CandidateOnPath
    <3>2. node = spuriousPath[i]
      BY <2>2, <3>1
    <3> HIDE DEF node
    <3> QED
      BY <3>1, <3>2, MasterIsState
  <2>3. CASE Conflicts(spuriousPath) = {}
    <3>1. Masters(spuriousPath) \in SUBSET (0 .. Len(spuriousPath)) /\ Len(spuriousPath) \in Nat
      BY <2>1 DEF Masters
    <3>2. Max(Masters(spuriousPath)) \in Masters(spuriousPath)
      BY <1>1, <3>1, MaxIn
    <3>3. node = spuriousPath[Max(Masters(spuriousPath))]
      BY <2>3
    <3> HIDE DEF node
    <3> QED
      BY <3>2, <3>3, MasterIsState
  <2> QED
    BY <2>2, <2>3
<1> HIDE DEF node
<1>3. importantStates' = importantStates \/ importantStates' = Append(importantStates, node)
  BY <1>1 DEF Color
<1> QED
  BY <1>1, <1>2, <1>3, StatesKept, StatesGrow

LEMMA MasterStates ==
  ASSUME IInv, StatesInv, CheckMasters
  PROVE  StatesInv'
<1> DEFINE k == Min(InvalidOperations)
           path == Interior(operations[k])
           node == Candidate(path, {})
<1>1. /\ phase = "check" /\ ~ new_important_state /\ phase' # "initial" /\ cfg' = cfg
  BY DEF CheckMasters, again
<1>2. CASE InvalidOperations = {}
  <2>1. importantStates' = importantStates
    BY <1>2 DEF CheckMasters
  <2> QED
    BY <1>1, <2>1, StatesKept
<1>3. CASE InvalidOperations # {}
  <2>1. importantStates' = Append(importantStates, node)
    BY <1>3 DEF CheckMasters
  <2>2. k \in DOMAIN operations /\ Conflicts(path) # {}
    <3>1. InvalidOperations \in SUBSET Nat
      BY DEF InvalidOperations, IInv, TypeOK
    <3>2. k \in InvalidOperations
      BY <1>3, <3>1, MinIn
    <3> QED
      BY <3>2 DEF InvalidOperations
  <2>3. path \in Seq(Node(cfg))
    <3> DEFINE p == operations[k]
    <3>1. p \in Seq(Node(cfg)) /\ Len(p) \in Nat /\ Len(p) > 1
      BY <1>1, <2>2 DEF IInv, KeptInv, TypeOK, IsOperation
    <3> HIDE DEF p
    <3>2. SubSeq(p, 2, Len(p) - 1) \in Seq(Node(cfg))
      BY <3>1
    <3> QED
      BY <3>2 DEF Interior, p
  <2> HIDE DEF path
  <2>4. PICK i \in DOMAIN path : i \in Masters(path) /\ Candidate(path, {}) = path[i]
    BY <2>2, <2>3, CandidateOnPath
  <2>5. StateNode(node)
    BY <2>4, MasterIsState
  <2> HIDE DEF node
  <2> QED
    BY <1>1, <2>1, <2>5, StatesGrow
<1> QED
  BY <1>2, <1>3

LEMMA NextStatesInv == IInv /\ StatesInv /\ [Next]_vars => StatesInv'
<1> SUFFICES ASSUME IInv, StatesInv, [Next]_vars PROVE StatesInv'
  OBVIOUS
<1>1. CASE ColorInitial
  BY <1>1, InitialStates
<1>2. CASE ProcessSpurious
  BY <1>2, SpuriousStates
<1>3. CASE CheckMasters
  BY <1>3, MasterStates
<1>4. CASE RoundStart \/ AllSearched \/ InvalidPath \/ CheckNothing \/ CheckSlaves
  <2>1. /\ UNCHANGED << cfg, importantStates >>
        /\ phase \notin {"initial", "error"} /\ phase' # "initial"
    BY <1>4 DEF RoundStart, AllSearched, InvalidPath, CheckNothing, CheckSlaves
  <2> QED
    BY <2>1, StatesKept
<1>5. CASE SearchState \/ SearchStep \/ KeepOperation \/ StateSearched
  <2>1. /\ UNCHANGED << cfg, importantStates, phase >> /\ phase = "states"
    BY <1>5 DEF SearchState, SearchStep, Iterate, KeepOperation, StateSearched, foundVars
  <2> QED
    BY <2>1, StatesKept
<1>6. CASE Stopped \/ UNCHANGED vars
  <2>1. UNCHANGED << cfg, importantStates, phase, index >>
    BY <1>6 DEF Stopped, vars, foundVars
  <2> QED
    BY <2>1, StatesKept
<1> QED
  BY <1>1, <1>2, <1>3, <1>4, <1>5, <1>6 DEF Next

=============================================================================
