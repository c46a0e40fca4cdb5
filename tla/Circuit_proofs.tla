---------------------------- MODULE Circuit_proofs ----------------------------
(***************************************************************************)
(* A circuit that satisfies the property suite follows the program, for    *)
(* every set of programs: from the paths of the search to the operations   *)
(* that are made of them, to what the operations say, and to the run of    *)
(* the circuit beside the program.  At the end: no two properties of a     *)
(* state contradict each other.                                            *)
(***************************************************************************)
EXTENDS Hardware_proofs

(* The paths that are kept lead from states along the graph, and those from *)
(* the root, if there are any, come first.                                  *)
OrderInv ==
  /\ \A k \in DOMAIN operations : /\ operations[k] # << >> /\ IsImportant(operations[k][1])
                                  /\ Follows(operations[k])
  /\ (\E k \in DOMAIN operations : operations[k][1] = 0) => operations[1][1] = 0
  /\ phase = "states" /\ index = 1 => \A k \in DOMAIN operations : operations[k][1] = 0

LEMMA OrderBeside ==
  ASSUME OrderInv, cfg' = cfg, operations' = operations,
         \A n \in Range(importantStates) : n \in Range(importantStates'),
         phase' = "states" /\ index' = 1 => phase = "states" /\ index = 1
  PROVE  OrderInv'
BY DEF OrderInv, Follows, IsImportant

LEMMA OrderKeepOperation ==
  ASSUME IInv, PathsInv, StatesInv, OriginInv, OrderInv, KeepOperation
  PROVE  OrderInv'
<1> DEFINE p == Head(stateOperations)
<1>1. /\ phase = "states" /\ search = "finished" /\ stateOperations # << >>
      /\ operations' = operations \/ operations' = Append(operations, p)
      /\ UNCHANGED << cfg, importantStates, index, phase >>
  BY DEF KeepOperation
<1>2. stateOperations \in Seq(Seq(Node(cfg))) /\ operations \in Seq(Seq(Node(cfg)))
  BY DEF IInv, TypeOK
<1>3. 1 \in DOMAIN stateOperations /\ p = stateOperations[1] /\ p \in Seq(Node(cfg))
  BY <1>1, <1>2, TailShifts
<1>4. p # << >> /\ Follows(p) /\ p[1] = Origin
  BY <1>1, <1>3 DEF PathsInv, OperationsAreFeasible, OriginInv, IInv, FoundInv, IsOperation
<1>5. IsImportant(Origin) /\ importantStates[1] = 0 /\ index >= 1
      /\ index \in DOMAIN importantStates /\ 1 \in DOMAIN importantStates
  BY <1>1 DEF OriginInv, Origin, IsImportant, Range, StatesInv, IInv, PhaseInv, TypeOK
<1>6. Origin = 0 <=> index = 1
  BY <1>5 DEF IInv, ColoredOnce, Origin
<1> HIDE DEF p
<1>7. CASE operations' = operations
  BY <1>1, <1>7, OrderBeside
<1>8. CASE operations' = Append(operations, p)
  <2> DEFINE n == Len(operations)
  <2>1. /\ n \in Nat /\ DOMAIN operations = 1 .. n /\ DOMAIN operations' = 1 .. n + 1
        /\ \A k \in 1 .. n : operations'[k] = operations[k]
        /\ operations'[n + 1] = p
    BY <1>2, <1>3, <1>8
  <2> HIDE DEF n
  <2>2. \A k \in 1 .. n + 1 : k \in 1 .. n \/ k = n + 1
    BY <2>1
  <2>3. \A k \in 1 .. n + 1 : /\ operations'[k] # << >> /\ IsImportant(operations'[k][1])
                              /\ Follows(operations'[k])
    BY <1>4, <1>5, <2>1, <2>2, Zenon DEF OrderInv
  <2>4. ASSUME NEW k \in 1 .. n + 1, operations'[k][1] = 0 PROVE operations'[1][1] = 0
    <3>1. CASE n = 0
      <4>1. k = 1
        BY <3>1
      <4> QED
        BY <2>4, <4>1
    <3>2. CASE n # 0
      <4>1. 1 \in 1 .. n
        BY <2>1, <3>2
      <4>2. operations'[1] = operations[1]
        BY <2>1, <4>1
      <4>3. CASE k \in 1 .. n
        <5>1. operations[k][1] = 0
          BY <2>1, <2>4, <4>3
        <5> QED
          BY <2>1, <4>2, <4>3, <5>1 DEF OrderInv
      <4>4. CASE k = n + 1
        <5>1. index = 1
          BY <1>4, <1>6, <2>1, <2>4, <4>4
        <5> QED
          BY <1>1, <2>1, <4>1, <4>2, <5>1 DEF OrderInv
      <4> QED
        BY <2>2, <4>3, <4>4
    <3> QED
      BY <3>1, <3>2
  <2>5. ASSUME index = 1, NEW k \in 1 .. n + 1 PROVE operations'[k][1] = 0
    BY <1>1, <1>4, <1>6, <2>1, <2>2, <2>5 DEF OrderInv
  <2>6. ASSUME NEW q PROVE /\ Follows(q)' <=> Follows(q)
                           /\ IsImportant(q)' <=> IsImportant(q)
    BY <1>1 DEF Follows, IsImportant
  <2> QED
    BY <1>1, <2>1, <2>3, <2>4, <2>5 DEF OrderInv, Follows, IsImportant
<1> QED
  BY <1>1, <1>7, <1>8

LEMMA StatesStay ==
  ASSUME IInv, [Next]_vars
  PROVE  /\ \A n \in Range(importantStates) : n \in Range(importantStates')
         /\ cfg' = cfg
<1>1. cfg' = cfg
  BY DEF Next, ColorInitial, RoundStart, SearchState, SearchStep, Iterate, KeepOperation, StateSearched,
         AllSearched, ProcessSpurious, InvalidPath, CheckNothing, CheckSlaves, CheckMasters, Stopped, vars
<1>2. importantStates' = importantStates \/ \E n : importantStates' = Append(importantStates, n)
  <2>1. CASE ColorInitial
    BY <2>1 DEF ColorInitial
  <2>2. CASE ProcessSpurious
    BY <2>2 DEF ProcessSpurious, Color
  <2>3. CASE CheckMasters
    BY <2>3 DEF CheckMasters
  <2>4. CASE UNCHANGED importantStates
    BY <2>4
  <2> QED
    BY <2>1, <2>2, <2>3, <2>4
       DEF Next, RoundStart, SearchState, SearchStep, Iterate, KeepOperation, StateSearched,
           AllSearched, InvalidPath, CheckNothing, CheckSlaves, Stopped, vars
<1>3. ASSUME NEW n, importantStates' = Append(importantStates, n)
      PROVE  Range(importantStates') = Range(importantStates) \cup {n}
  BY <1>3, AppendRange DEF IInv, TypeOK
<1> QED
  BY <1>1, <1>2, <1>3

LEMMA NextOrderInv ==
  IInv /\ PathsInv /\ StatesInv /\ OriginInv /\ OrderInv /\ [Next]_vars => OrderInv'
<1> SUFFICES ASSUME IInv, PathsInv, StatesInv, OriginInv, OrderInv, [Next]_vars PROVE OrderInv'
  OBVIOUS
<1>1. /\ \A n \in Range(importantStates) : n \in Range(importantStates')
      /\ cfg' = cfg
  BY StatesStay
<1>2. CASE RoundStart
  BY <1>2 DEF RoundStart, OrderInv
<1>3. CASE KeepOperation
  BY <1>3, OrderKeepOperation
<1>4. CASE StateSearched
  <2>1. operations' = operations /\ index' # 1
    BY <1>4 DEF StateSearched, IInv, TypeOK, PhaseInv
  <2> QED
    BY <1>1, <2>1, OrderBeside
<1>5. CASE ColorInitial \/ AllSearched \/ ProcessSpurious \/ InvalidPath \/ CheckNothing
             \/ CheckSlaves \/ CheckMasters
  <2>1. operations' = operations /\ phase' # "states"
    BY <1>5 DEF ColorInitial, AllSearched, ProcessSpurious, InvalidPath, CheckNothing,
                CheckSlaves, CheckMasters, again
  <2> QED
    BY <1>1, <2>1, OrderBeside
<1>6. CASE SearchState \/ SearchStep \/ Stopped \/ UNCHANGED vars
  <2>1. UNCHANGED << operations, phase, index >>
    BY <1>6 DEF SearchState, SearchStep, Stopped, vars, foundVars
  <2> QED
    BY <1>1, <2>1, OrderBeside
<1> QED
  BY <1>2, <1>3, <1>4, <1>5, <1>6 DEF Next

-----------------------------------------------------------------------------
(* From the paths to the operations.  A step either searches, or leaves the *)
(* search as it is.                                                         *)
LEMMA Stages ==
  ASSUME CreateInv, [HardwareNext]_allVars
  PROVE  \/ stage = "find" /\ UNCHANGED createVars
         \/ UNCHANGED vars /\ (CreateNext \/ Suite \/ UNCHANGED createVars)
<1>1. CASE FindStep
  <2>1. Next /\ UNCHANGED createVars
    BY <1>1 DEF FindStep
  <2>2. stage # "find" => UNCHANGED vars
    BY <2>1, DoneIsDone DEF CreateInv
  <2> QED
    BY <2>1, <2>2
<1>2. CASE Create
  BY <1>2 DEF Create, CreateNext
<1>3. CASE Reset
  BY <1>3 DEF Reset, Suite
<1>4. CASE WaitStep \/ Run \/ UNCHANGED allVars
  BY <1>4 DEF WaitStep, Run, allVars
<1> QED
  BY <1>1, <1>2, <1>3, <1>4 DEF HardwareNext

(* What the paths become: the same paths, in the same order.                *)
RawInv ==
  /\ at \in Nat
  /\ stage = "find" => rawOperations = << >> /\ at = 0
  /\ rawOperations \in Seq(Range(rawOperations))
  /\ \A k \in DOMAIN rawOperations :
       \E j \in DOMAIN operations : \E synced : rawOperations[k] = Raw(operations[j], synced)
  /\ rawOperations # << >> => 1 \in DOMAIN operations /\ rawOperations[1].path = operations[1]
  /\ stage = "extend" /\ rawOperations = << >> => at = 0

LEMMA RawKept ==
  ASSUME RawInv, UNCHANGED << operations, rawOperations >>, at' \in Nat,
         stage' # "find", stage' = "extend" => stage = "extend" /\ at' = at
  PROVE  RawInv'
BY DEF RawInv, Raw

LEMMA RawFound ==
  ASSUME IInv, RawInv, Found, UNCHANGED vars
  PROVE  RawInv'
<1> DEFINE n == Len(operations)
<1>1. /\ stage = "find" /\ stage' \in {"extend", "explicit"} /\ at' = at
      /\ rawOperations = << >> /\ at = 0 /\ operations' = operations
      /\ \/ rawOperations' = rawOperations
         \/ rawOperations' = [k \in DOMAIN operations |-> Raw(operations[k], {})]
  BY DEF Found, RawInv, vars, foundVars
<1>2. n \in Nat /\ DOMAIN operations = 1 .. n
  BY DEF IInv, TypeOK
<1> HIDE DEF n
<1>3. CASE rawOperations' = rawOperations
  BY <1>1, <1>3 DEF RawInv, Range
<1>4. CASE rawOperations' = [k \in DOMAIN operations |-> Raw(operations[k], {})]
  <2>1. rawOperations' \in Seq(Range(rawOperations')) /\ Len(rawOperations') = n
    BY <1>2, <1>4, OwnValues
  <2>2. \A k \in DOMAIN rawOperations' :
          \E j \in DOMAIN operations : \E synced : rawOperations'[k] = Raw(operations[j], synced)
    BY <1>4
  <2>3. rawOperations' # << >> => 1 \in DOMAIN operations /\ rawOperations'[1].path = operations[1]
    <3>1. n # 0 => 1 \in DOMAIN operations
      BY <1>2
    <3>2. 1 \in DOMAIN operations => rawOperations'[1].path = operations[1]
      BY <1>4 DEF Raw
    <3>3. n = 0 => rawOperations' = << >>
      BY <2>1
    <3> QED
      BY <3>1, <3>2, <3>3
  <2>4. rawOperations' = << >> => at' = 0
    BY <1>1
  <2> QED
    BY <1>1, <2>1, <2>2, <2>3, <2>4 DEF RawInv
<1> QED
  BY <1>1, <1>3, <1>4

LEMMA RawExtended ==
  ASSUME IInv, RawInv, ExtendRawOperation, UNCHANGED vars
  PROVE  RawInv'
<1> DEFINE path == operations[at + 1]
<1>1. /\ stage' = stage /\ stage = "extend" /\ at < Len(operations)
      /\ at' \in {at, at + 1} /\ operations' = operations
      /\ \E synced : rawOperations' = Append(rawOperations, Raw(path, synced))
  BY DEF ExtendRawOperation, vars, foundVars
<1>2. PICK synced : rawOperations' = Append(rawOperations, Raw(path, synced))
  BY <1>1
<1>3. /\ rawOperations \in Seq(Range(rawOperations)) /\ at \in Nat
      /\ rawOperations = << >> => at = 0
  BY <1>1 DEF RawInv
<1>4. at + 1 \in DOMAIN operations
  BY <1>1, <1>3 DEF IInv, TypeOK
<1>5. /\ rawOperations' \in Seq(Range(rawOperations'))
      /\ DOMAIN rawOperations' = DOMAIN rawOperations \cup {Len(rawOperations) + 1}
      /\ \A k \in DOMAIN rawOperations : rawOperations'[k] = rawOperations[k]
      /\ rawOperations'[Len(rawOperations) + 1] = Raw(path, synced)
  BY <1>2, <1>3, AppendObject
<1>6. \A k \in DOMAIN rawOperations' :
        \E j \in DOMAIN operations : \E s : rawOperations'[k] = Raw(operations[j], s)
  BY <1>4, <1>5 DEF RawInv
<1>7. 1 \in DOMAIN operations /\ rawOperations'[1].path = operations[1]
  <2>1. CASE rawOperations = << >>
    <3>1. at = 0 /\ Len(rawOperations) = 0
      BY <1>3, <2>1
    <3>2. rawOperations'[1] = Raw(operations[1], synced) /\ 1 \in DOMAIN operations
      BY <1>4, <1>5, <3>1
    <3> QED
      BY <3>2 DEF Raw
  <2>2. CASE rawOperations # << >>
    <3>1. 1 \in DOMAIN rawOperations
      BY <1>3, <2>2
    <3> QED
      BY <1>5, <2>2, <3>1 DEF RawInv
  <2> QED
    BY <2>1, <2>2
<1>8. rawOperations' # << >>
  <2>1. Len(rawOperations) + 1 \in DOMAIN rawOperations'
    BY <1>5
  <2> QED
    BY <2>1
<1> HIDE DEF path
<1> QED
  BY <1>1, <1>3, <1>5, <1>6, <1>7, <1>8 DEF RawInv

LEMMA NextRawInv == IInv /\ CreateInv /\ RawInv /\ [HardwareNext]_allVars => RawInv'
<1> SUFFICES ASSUME IInv, CreateInv, RawInv, [HardwareNext]_allVars PROVE RawInv'
  OBVIOUS
<1>1. CASE stage = "find" /\ UNCHANGED createVars
  BY <1>1 DEF createVars, RawInv
<1>2. CASE UNCHANGED vars /\ UNCHANGED createVars
  BY <1>2 DEF createVars, vars, foundVars, RawInv
<1>3. CASE UNCHANGED vars /\ (CreateNext \/ Suite)
  <2>1. CASE Found
    BY <1>3, <2>1, RawFound
  <2>2. CASE ExtendRawOperation
    BY <1>3, <2>2, RawExtended
  <2>3. CASE \/ Extended \/ CreateExplicit \/ AllExplicit \/ CreateImplicit \/ AllImplicit
             \/ Reconstruct \/ AllReconstructed \/ FindValid \/ AllValid \/ Optimize \/ Suite
    <3>1. UNCHANGED << operations, rawOperations >> /\ stage' \notin {"find", "extend"}
          /\ at' \in {0, at, at + 1}
      BY <1>3, <2>3 DEF vars, foundVars, Extended, CreateExplicit, AllExplicit, CreateImplicit,
                        AllImplicit, Reconstruct, AllReconstructed, FindValid, AllValid, Optimize, Suite
    <3>2. at' \in Nat
      BY <3>1 DEF RawInv
    <3> QED
      BY <3>1, <3>2, RawKept
  <2> QED
    BY <1>3, <2>1, <2>2, <2>3 DEF CreateNext
<1> QED
  BY <1>1, <1>2, <1>3, Stages

-----------------------------------------------------------------------------
(* What operations are made of: a path, and for its first node what an      *)
(* operation starts with; or a node that waits.                             *)
Goes(o, path, synced, first) ==
  /\ ~ o.wait /\ o.start = path[1] /\ o.end = Last(path)
  /\ Starts(o.start, first) /\ o.stmts = first \o StatementsAfter(Raw(path, synced))

Stands(o, path) ==
  /\ o.wait /\ o.start = path[1] /\ o.end = o.start
  /\ Waits(o.start) /\ o.stmts = WaitStatements(o.start)

Made(o) == \E j \in DOMAIN operations : \/ \E synced : \E first : Goes(o, operations[j], synced, first)
                                        \/ Stands(o, operations[j])

(* The first operation is that of the first path. *)
OpsInv ==
  /\ \A k \in DOMAIN operation : Made(operation[k])
  /\ stage \in {"find", "extend"} => operation = << >>
  /\ stage = "explicit" => at = Len(operation)
  /\ operation # << >> =>
       /\ 1 \in DOMAIN operations
       /\ \E synced : \E first : Goes(operation[1], operations[1], synced, first)
  /\ stage \notin {"find", "extend", "explicit"} /\ operation = << >> => rawOperations = << >>

(* What is said of an operation is beside that. *)
SameObject(o, q) == /\ q.start = o.start /\ q.end = o.end /\ q.wait = o.wait /\ q.stmts = o.stmts

LEMMA MadeSame ==
  ASSUME NEW o, NEW q, SameObject(o, q)
  PROVE  /\ Made(o) => Made(q)
         /\ \A path, synced, first : Goes(o, path, synced, first) => Goes(q, path, synced, first)
BY DEF SameObject, Made, Goes, Stands

LEMMA MadeStays ==
  ASSUME UNCHANGED << cfg, operations >>
  PROVE  /\ \A o : Made(o)' <=> Made(o)
         /\ \A o, path, synced, first : Goes(o, path, synced, first)' <=> Goes(o, path, synced, first)
BY DEF Made, Goes, Stands, Starts, Waits, First, FirstNotSynced, WaitStatements, StatementsAfter,
       InnerStatements, LastNode, Inner, IsSlaveIn

LEMMA OpsSaid ==
  ASSUME OpsInv, CreateInv, UNCHANGED << cfg, operations, rawOperations >>,
         stage' \notin {"find", "extend", "explicit"}, stage \notin {"find", "extend", "explicit"},
         operation' = [k \in DOMAIN operation |-> operation'[k]],
         \A k \in DOMAIN operation : SameObject(operation[k], operation'[k])
  PROVE  OpsInv'
<1>1. /\ operation \in Seq(Range(operation))
      /\ operation = << >> <=> DOMAIN operation = {}
  BY DEF CreateInv
<1>2. \A k \in DOMAIN operation' : Made(operation'[k])
  BY MadeSame DEF OpsInv
<1>3. operation' = << >> => operation = << >>
  BY <1>1
<1>4. operation # << >> => 1 \in DOMAIN operation
  BY <1>1
<1>5. operation # << >> =>
        /\ 1 \in DOMAIN operations
        /\ \E synced : \E first : Goes(operation'[1], operations[1], synced, first)
  <2> SUFFICES ASSUME operation # << >>
               PROVE /\ 1 \in DOMAIN operations
                     /\ \E synced : \E first : Goes(operation'[1], operations[1], synced, first)
    OBVIOUS
  <2>1. PICK synced, first : Goes(operation[1], operations[1], synced, first)
    BY DEF OpsInv
  <2>2. Goes(operation'[1], operations[1], synced, first)
    BY <1>4, <2>1, MadeSame
  <2> QED
    BY <2>2 DEF OpsInv
<1>6. operation' # << >> => operation # << >>
  BY <1>1
<1>7. /\ \A o : Made(o)' <=> Made(o)
      /\ \A o, path, synced, first : Goes(o, path, synced, first)' <=> Goes(o, path, synced, first)
  BY MadeStays
<1> QED
  BY <1>2, <1>3, <1>5, <1>6, <1>7 DEF OpsInv

LEMMA OpsAdded ==
  ASSUME OpsInv, CreateInv, UNCHANGED << cfg, operations, rawOperations >>,
         stage \in {"explicit", "implicit"}, stage' = stage, at' = at + 1,
         stage = "explicit" => at = Len(operation),
         NEW op, addOperation(op), Made(op),
         operation = << >> => /\ 1 \in DOMAIN operations
                              /\ \E synced : \E first : Goes(op, operations[1], synced, first)
  PROVE  OpsInv'
<1> DEFINE size == Len(operation)
<1>1. /\ DOMAIN operation' = DOMAIN operation \cup {size + 1}
      /\ \A k \in DOMAIN operation : operation'[k] = operation[k]
      /\ operation'[size + 1] = op
      /\ operation' \in Seq(Range(operation'))
  BY AppendObject DEF CreateInv, addOperation
<1>2. operation \in Seq(Range(operation)) /\ size \in Nat /\ DOMAIN operation = 1 .. size
  BY DEF CreateInv
<1>3. Len(operation') = size + 1 /\ operation' # << >>
  <2> DEFINE objs == Append(operation, op)
  <2>1. objs \in Seq(Range(objs)) /\ objs = operation'
    BY AppendObject DEF CreateInv, addOperation
  <2>2. Len(objs) = Len(operation) + 1
    BY <1>2, AppendProperties
  <2>3. Len(objs) # 0 => objs # << >>
    OBVIOUS
  <2> HIDE DEF objs
  <2> QED
    BY <1>2, <2>1, <2>2, <2>3
<1>4. \A k \in DOMAIN operation' : Made(operation'[k])
  BY <1>1 DEF OpsInv
<1>5. /\ 1 \in DOMAIN operations
      /\ \E synced : \E first : Goes(operation'[1], operations[1], synced, first)
  <2>1. CASE operation = << >>
    <3>1. size + 1 = 1
      BY <2>1
    <3> QED
      BY <1>1, <2>1, <3>1
  <2>2. CASE operation # << >>
    <3>1. 1 \in DOMAIN operation
      BY <1>2, <2>2
    <3> QED
      BY <1>1, <2>2, <3>1 DEF OpsInv
  <2> QED
    BY <2>1, <2>2
<1>6. /\ \A o : Made(o)' <=> Made(o)
      /\ \A o, path, synced, first : Goes(o, path, synced, first)' <=> Goes(o, path, synced, first)
  BY MadeStays
<1> HIDE DEF size
<1>7. stage' = "explicit" => at' = Len(operation')
  BY <1>3 DEF size
<1>8. ASSUME NEW ops, ops = operation'
      PROVE  /\ \A k \in DOMAIN ops : Made(ops[k])'
             /\ \E synced : \E first : Goes(ops[1], operations[1], synced, first)'
  BY <1>4, <1>5, <1>6, <1>8
<1>9. 1 \in DOMAIN operations' /\ operations' = operations
  BY <1>5
<1> QED
  BY <1>3, <1>7, <1>8, <1>9 DEF OpsInv

LEMMA OpsSame ==
  ASSUME OpsInv, UNCHANGED << cfg, operations, rawOperations, operation >>,
         \/ stage' = stage /\ (stage = "explicit" => at' = at)
         \/ /\ stage \notin {"find", "extend", "explicit"}
            /\ stage' \notin {"find", "extend", "explicit"}
  PROVE  OpsInv'
<1>1. /\ \A o : Made(o)' <=> Made(o)
      /\ \A o, path, synced, first : Goes(o, path, synced, first)' <=> Goes(o, path, synced, first)
  BY MadeStays
<1> QED
  BY <1>1 DEF OpsInv

(* The path and the operation that is made of it. *)
LEMMA MadeOfRaw ==
  ASSUME RawInv, NEW k \in DOMAIN rawOperations
  PROVE  LET raw == rawOperations[k]
             node == raw.path[1]
             exp == Operation(node, Last(raw.path), FALSE, Statements(raw))
             wait == Operation(node, node, TRUE, WaitStatements(node))
             miss == Operation(node, Last(raw.path), FALSE, NotSynced(raw))
         IN  /\ Made(exp)
             /\ k = 1 => /\ 1 \in DOMAIN operations
                         /\ \E synced : \E first : Goes(exp, operations[1], synced, first)
             /\ Waits(node) => Made(wait)
             /\ IsBlocking(cfg, node) /\ IsNonBlockingAccess(cfg, node) => Made(miss)
<1>1. PICK j \in DOMAIN operations : \E s : rawOperations[k] = Raw(operations[j], s)
  BY DEF RawInv
<1>2. PICK synced : rawOperations[k] = Raw(operations[j], synced)
  BY <1>1
<1> DEFINE raw == Raw(operations[j], synced)
           path == operations[j]
           node == path[1]
           exp == Operation(node, Last(path), FALSE, Statements(raw))
           wait == Operation(node, node, TRUE, WaitStatements(node))
           miss == Operation(node, Last(path), FALSE, NotSynced(raw))
<1>3. raw.path = path /\ rawOperations[k] = raw
  BY <1>2 DEF Raw
<1>4. Goes(exp, path, synced, First(node))
  BY DEF Goes, Operation, Statements, Starts, Raw
<1>5. Waits(node) => Stands(wait, path)
  BY DEF Stands, Operation
<1>6. IsBlocking(cfg, node) /\ IsNonBlockingAccess(cfg, node)
        => Goes(miss, path, synced, FirstNotSynced(node))
  BY DEF Goes, Operation, NotSynced, Starts, Raw
<1>7. k = 1 => 1 \in DOMAIN operations /\ operations[1] = path
  <2>1. k = 1 => rawOperations # << >>
    <3>1. rawOperations = << >> => DOMAIN rawOperations = {}
      OBVIOUS
    <3> QED
      BY <3>1
  <2> QED
    BY <1>3, <2>1 DEF RawInv
<1> HIDE DEF exp, wait, miss, path, raw
<1>8. Made(exp) /\ (Waits(node) => Made(wait))
      /\ (IsBlocking(cfg, node) /\ IsNonBlockingAccess(cfg, node) => Made(miss))
  BY <1>4, <1>5, <1>6 DEF Made, path
<1> QED
  BY <1>3, <1>4, <1>7, <1>8 DEF exp, wait, miss

LEMMA OpsExplicit ==
  ASSUME RawInv, OpsInv, CreateInv, CreateExplicit, UNCHANGED vars
  PROVE  OpsInv'
<1> DEFINE raw == rawOperations[at + 1]
           op == Operation(raw.path[1], Last(raw.path), FALSE, Statements(raw))
<1>1. /\ stage = "explicit" /\ stage' = stage /\ at' = at + 1 /\ at < Len(rawOperations)
      /\ addOperation(op) /\ UNCHANGED << cfg, operations, rawOperations >>
  BY DEF CreateExplicit, vars, foundVars
<1>2. at = Len(operation) /\ at \in Nat /\ at + 1 \in DOMAIN rawOperations
  BY <1>1 DEF OpsInv, RawInv
<1>3. /\ Made(op)
      /\ at + 1 = 1 => /\ 1 \in DOMAIN operations
                       /\ \E synced : \E first : Goes(op, operations[1], synced, first)
  BY <1>2, MadeOfRaw
<1>4. operation = << >> => at + 1 = 1
  BY <1>2
<1> HIDE DEF op
<1> QED
  BY <1>1, <1>2, <1>3, <1>4, OpsAdded

LEMMA OpsImplicit ==
  ASSUME RawInv, OpsInv, CreateInv, CreateImplicit, UNCHANGED vars
  PROVE  OpsInv'
<1> DEFINE raw == rawOperations[at + 1]
           node == raw.path[1]
           waitOp == Operation(node, node, TRUE, WaitStatements(node))
           missOp == Operation(node, Last(raw.path), FALSE, NotSynced(raw))
<1>1. /\ stage = "implicit" /\ stage' = stage /\ at' = at + 1 /\ at < Len(rawOperations)
      /\ UNCHANGED << cfg, operations, rawOperations >>
  BY DEF CreateImplicit, vars, foundVars
<1>2. at \in Nat /\ at + 1 \in DOMAIN rawOperations /\ operation # << >>
  <2>1. rawOperations # << >> /\ at \in Nat /\ at + 1 \in DOMAIN rawOperations
    BY <1>1 DEF RawInv
  <2> QED
    BY <1>1, <2>1 DEF OpsInv
<1>3. /\ Waits(node) => Made(waitOp)
      /\ IsBlocking(cfg, node) /\ IsNonBlockingAccess(cfg, node) => Made(missOp)
  BY <1>2, MadeOfRaw
<1>4. \/ addOperation(waitOp) /\ Waits(node)
      \/ addOperation(missOp) /\ IsBlocking(cfg, node) /\ IsNonBlockingAccess(cfg, node)
      \/ operation' = operation
  BY DEF CreateImplicit, Waits, Stay
<1> HIDE DEF waitOp, missOp, node
<1> QED
  BY <1>1, <1>2, <1>3, <1>4, OpsAdded, OpsSame

LEMMA SayingKeeps ==
  ASSUME CreateInv, Reconstruct \/ Optimize
  PROVE  /\ operation' = [k \in DOMAIN operation |-> operation'[k]]
         /\ \A k \in DOMAIN operation : SameObject(operation[k], operation'[k])
<1>1. CASE Reconstruct
  <2>1. PICK a, c, g : operation' = [operation EXCEPT ![at + 1] =
                       [operation[at + 1] EXCEPT !.assumptions = a, !.signals = g, !.commitments = c]]
    BY <1>1 DEF Reconstruct
  <2>2. ASSUME NEW k \in DOMAIN operation PROVE SameObject(operation[k], operation'[k])
    <3>1. IsObject(operation[k])
      BY DEF CreateInv
    <3>2. operation'[k] = operation[k] \/
          operation'[k] = [operation[k] EXCEPT !.assumptions = a, !.signals = g, !.commitments = c]
      BY <2>1
    <3> QED
      BY <3>1, <3>2 DEF IsObject, SameObject
  <2> QED
    BY <2>1, <2>2
<1>2. CASE Optimize
  <2>1. operation' = [k \in DOMAIN operation |->
                     [operation[k] EXCEPT !.commitments = Restrict(@, DOMAIN @ \cap varMap')]]
    BY <1>2 DEF Optimize
  <2>2. ASSUME NEW k \in DOMAIN operation PROVE SameObject(operation[k], operation'[k])
    <3>1. IsObject(operation[k])
      BY DEF CreateInv
    <3>2. PICK c : operation'[k] = [operation[k] EXCEPT !.commitments = c]
      BY <2>1
    <3> QED
      BY <3>1, <3>2 DEF IsObject, SameObject
  <2> QED
    BY <2>1, <2>2
<1> QED
  BY <1>1, <1>2

LEMMA NextOpsInv == CreateInv /\ RawInv /\ OpsInv /\ [HardwareNext]_allVars => OpsInv'
<1> SUFFICES ASSUME CreateInv, RawInv, OpsInv, [HardwareNext]_allVars PROVE OpsInv'
  OBVIOUS
<1>1. CASE stage = "find" /\ UNCHANGED createVars
  BY <1>1 DEF createVars, OpsInv
<1>2. CASE UNCHANGED vars /\ UNCHANGED createVars
  <2>1. UNCHANGED << cfg, operations, rawOperations, operation, stage, at >>
    BY <1>2 DEF createVars, vars, foundVars
  <2> QED
    BY <2>1, OpsSame
<1>3. CASE UNCHANGED vars /\ (CreateNext \/ Suite)
  <2>0. UNCHANGED << cfg, operations >>
    BY <1>3 DEF vars, foundVars
  <2>1. CASE Found \/ ExtendRawOperation \/ Extended
    <3>1. operation = << >> /\ operation' = operation
      BY <2>1 DEF Found, ExtendRawOperation, Extended, OpsInv
    <3>2. /\ stage' \in {"find", "extend", "explicit"}
          /\ stage' = "explicit" => at' = 0
      BY <2>1 DEF Found, ExtendRawOperation, Extended, RawInv
    <3>3. Len(operation) = 0 /\ \A k \in DOMAIN operation : FALSE
      BY <3>1
    <3> QED
      BY <3>1, <3>2, <3>3 DEF OpsInv
  <2>2. CASE CreateExplicit
    BY <1>3, <2>2, OpsExplicit
  <2>3. CASE CreateImplicit
    BY <1>3, <2>3, OpsImplicit
  <2>4. CASE AllExplicit
    <3>1. /\ stage = "explicit" /\ stage' = "implicit" /\ at = Len(rawOperations)
          /\ UNCHANGED << operation, rawOperations >>
      BY <2>4 DEF AllExplicit
    <3>2. operation = << >> => rawOperations = << >>
      <4>1. at = Len(operation) /\ rawOperations \in Seq(Range(rawOperations))
        BY <3>1 DEF OpsInv, RawInv
      <4>2. operation = << >> => Len(operation) = 0
        OBVIOUS
      <4>3. Len(rawOperations) = 0 => rawOperations = << >>
        BY <4>1
      <4> QED
        BY <3>1, <4>1, <4>2, <4>3
    <3>3. /\ \A o : Made(o)' <=> Made(o)
          /\ \A o, path, synced, first : Goes(o, path, synced, first)' <=> Goes(o, path, synced, first)
      BY <2>0, MadeStays
    <3> QED
      BY <2>0, <3>1, <3>2, <3>3 DEF OpsInv
  <2>5. CASE AllImplicit \/ AllReconstructed \/ FindValid \/ AllValid \/ Suite
    <3>1. /\ UNCHANGED << rawOperations, operation >>
          /\ stage \notin {"find", "extend", "explicit"}
          /\ stage' \notin {"find", "extend", "explicit"}
      BY <2>5 DEF AllImplicit, AllReconstructed, FindValid, AllValid, Suite
    <3> QED
      BY <2>0, <3>1, OpsSame
  <2>6. CASE Reconstruct \/ Optimize
    <3>1. /\ UNCHANGED rawOperations
          /\ stage \notin {"find", "extend", "explicit"}
          /\ stage' \notin {"find", "extend", "explicit"}
      BY <2>6 DEF Reconstruct, Optimize
    <3> QED
      BY <2>0, <2>6, <3>1, SayingKeeps, OpsSaid
  <2> QED
    BY <1>3, <2>1, <2>2, <2>3, <2>4, <2>5, <2>6 DEF CreateNext
<1> QED
  BY <1>1, <1>2, <1>3, Stages

-----------------------------------------------------------------------------
(* The way of the reset: through the section that gives each variable its   *)
(* value.                                                                   *)
Section(k) == /\ k \in Node(cfg) /\ 0 .. k \subseteq Node(cfg)
              /\ \A i \in 0 .. k : Succ(cfg, i) = << i + 1 >>
              /\ \A i \in 1 .. k : Op(cfg, i) = "assign"
              /\ \A x \in Vars : \E i \in 1 .. k : cfg.stmt[i].var = x

LEMMA SectionIs ==
  ASSUME cfg \in Programs
  PROVE  \E k \in Nat : Section(k)
<1>1. InitSectionOf(cfg) /\ \A n \in Node(cfg) : n \in Nat
  BY RunAssumption, ProgramsAssumption DEF ProgramsRun, ProgramsAreGraphs
<1> QED
  BY <1>1 DEF InitSectionOf, Section

LEMMA ThroughSection ==
  ASSUME cfg \in Programs, StatesInv, NEW path \in Seq(Node(cfg)), IsOperation(path), Follows(path),
         path[1] = 0, NEW k \in Nat, Section(k)
  PROVE  k + 2 <= Len(path) /\ \A i \in 0 .. k + 1 : path[i + 1] = i
<1> DEFINE T == {i \in Nat : i <= k + 1 => i + 1 <= Len(path) /\ path[i + 1] = i}
<1>0. Len(path) \in Nat /\ Len(path) > 1 /\ DOMAIN path = 1 .. Len(path)
  BY DEF IsOperation
<1>1. 0 \in T
  BY <1>0
<1>2. ASSUME NEW i \in Nat, i \in T PROVE i + 1 \in T
  <2> SUFFICES ASSUME i + 1 <= k + 1 PROVE i + 2 <= Len(path) /\ path[i + 2] = i + 1
    OBVIOUS
  <2>1. i \in 0 .. k /\ i + 1 <= Len(path) /\ path[i + 1] = i
    BY <1>2
  <2> HIDE DEF T
  <2>2. i + 1 # Len(path)
    <3>1. CASE i = 0
      BY <1>0, <3>1
    <3>2. CASE i # 0
      <4>1. Op(cfg, i) = "assign"
        BY <2>1, <3>2 DEF Section
      <4>2. ~ StateNode(i)
        BY <3>2, <4>1 DEF StateNode, IsBlocking, IsMaster, IsComm, IsRead, IsWrite
      <4>3. ~ IsImportant(i)
        BY <4>2 DEF StatesInv, IsImportant
      <4>4. i + 1 = Len(path) => Last(path) = i
        BY <2>1 DEF Last
      <4> QED
        BY <4>3, <4>4 DEF IsOperation
    <3> QED
      BY <3>1, <3>2
  <2>3. i + 1 \in 1 .. Len(path) - 1
    <3> DEFINE size == Len(path)
    <3>1. size \in Nat /\ i + 1 <= size /\ i + 1 # size
      BY <1>0, <2>1, <2>2
    <3> HIDE DEF size
    <3>2. i + 1 \in 1 .. size - 1
      BY <3>1
    <3> QED
      BY <3>2 DEF size
  <2>4. path[i + 1 + 1] \in Range(Succ(cfg, path[i + 1]))
    BY <2>3 DEF Follows
  <2>5. Range(Succ(cfg, i)) = {i + 1}
    <3>1. Succ(cfg, i) = << i + 1 >>
      BY <2>1 DEF Section
    <3> QED
      BY <3>1 DEF Range
  <2>6. i + 1 + 1 = i + 2
    OBVIOUS
  <2>7. path[i + 2] = i + 1
    BY <2>1, <2>4, <2>5, <2>6
  <2> QED
    BY <1>0, <2>3, <2>7
<1> HIDE DEF T
<1>3. \A i \in Nat : i \in T
  BY <1>1, <1>2, NatSetInduction
<1>4. \A i \in 0 .. k + 1 : i + 1 <= Len(path) /\ path[i + 1] = i
  BY <1>3 DEF T
<1>5. k + 1 \in 0 .. k + 1 /\ (k + 1) + 1 = k + 2
  OBVIOUS
<1> QED
  BY <1>4, <1>5

LEMMA RangeGrows ==
  ASSUME NEW S, NEW s \in Seq(S), NEW t \in Seq(S)
  PROVE  Range(s) \subseteq Range(s \o t) /\ Range(t) \subseteq Range(s \o t)
<1>1. ASSUME NEW x \in Range(s) PROVE x \in Range(s \o t)
  <2>1. PICK i \in 1 .. Len(s) : x = s[i]
    BY DEF Range
  <2>2. i \in DOMAIN (s \o t) /\ (s \o t)[i] = x
    BY <2>1
  <2> QED
    BY <2>2 DEF Range
<1>2. ASSUME NEW x \in Range(t) PROVE x \in Range(s \o t)
  <2>1. PICK i \in 1 .. Len(t) : x = t[i]
    BY DEF Range
  <2>2. Len(s) + i \in DOMAIN (s \o t) /\ (s \o t)[Len(s) + i] = x
    BY <2>1
  <2> QED
    BY <2>2 DEF Range
<1> QED
  BY <1>1, <1>2

(* The statements of each node are among those of the operation. *)
LEMMA PartsWithin ==
  ASSUME NEW S, NEW path, NEW synced, NEW n \in Nat,
         \A i \in 1 .. n : Part(path, synced, i) \in Seq(S)
  PROVE  \A j \in 0 .. n : \A i \in 1 .. j :
           Range(Part(path, synced, i)) \subseteq Range(Concat(Parts(path, synced, j)))
<1> DEFINE Good(j) == \A i \in 1 .. j :
             Range(Part(path, synced, i)) \subseteq Range(Concat(Parts(path, synced, j)))
           T == {j \in Nat : j <= n => Good(j)}
<1>1. 0 \in T
  OBVIOUS
<1>2. ASSUME NEW j \in Nat, j \in T PROVE j + 1 \in T
  <2> SUFFICES ASSUME j + 1 <= n PROVE Good(j + 1)
    OBVIOUS
  <2> DEFINE old == Concat(Parts(path, synced, j))
             part == Part(path, synced, j + 1)
  <2>1. Concat(Parts(path, synced, j + 1)) = old \o part
    BY ConcatParts
  <2>2. old \in Seq(S) /\ part \in Seq(S)
    <3>1. \A l \in 0 .. n : Concat(Parts(path, synced, l)) \in Seq(S)
      BY ConcatType
    <3> QED
      BY <3>1
  <2>3. Good(j)
    BY <1>2
  <2> HIDE DEF old, part
  <2>4. Range(old) \subseteq Range(old \o part) /\ Range(part) \subseteq Range(old \o part)
    BY <2>2, RangeGrows
  <2>5. ASSUME NEW i \in 1 .. j + 1
        PROVE  Range(Part(path, synced, i)) \subseteq Range(Concat(Parts(path, synced, j + 1)))
    <3>1. CASE i \in 1 .. j
      BY <2>1, <2>3, <2>4, <3>1 DEF old
    <3>2. CASE i = j + 1
      BY <2>1, <2>4, <3>2 DEF part
    <3> QED
      BY <3>1, <3>2
  <2> QED
    BY <2>5
<1> HIDE DEF T, Good
<1>3. \A j \in Nat : j \in T
  BY <1>1, <1>2, NatSetInduction
<1> QED
  BY <1>3 DEF T, Good

(* The nodes between the states of a path. *)
LEMMA PartType ==
  ASSUME cfg \in Programs, NEW path \in Seq(Node(cfg)), NEW synced
  PROVE  \A i \in 1 .. Len(path) - 2 : Part(path, synced, i) \in Seq(Executed(cfg))
<1> SUFFICES ASSUME NEW i \in 1 .. Len(path) - 2
             PROVE  Part(path, synced, i) \in Seq(Executed(cfg))
  OBVIOUS
<1>1. path[i + 1] \in Node(cfg)
  OBVIOUS
<1> QED
  BY <1>1, InnerType DEF Part

(* The statements of an operation are those up to its last node, and the    *)
(* value that is written there.                                             *)
LEMMA StmtsAre ==
  ASSUME cfg \in Programs, NEW path \in Seq(Node(cfg)), Len(path) > 1,
         NEW o, NEW synced, NEW first, Goes(o, path, synced, first)
  PROVE  LET upto == Upto(first, path, synced, Len(path) - 2)
             last == LastNode(Last(path))
         IN  /\ o.stmts = upto \o last
             /\ upto \in Seq(Executed(cfg)) /\ last \in Seq(Executed(cfg))
             /\ o.stmts \in Seq(Executed(cfg))
             /\ first \in Seq(Executed(cfg))
             /\ Last(path) \in Node(cfg) /\ path[1] \in Node(cfg)
<1> DEFINE E == Executed(cfg)
           m == Len(path) - 2
           inner == Concat(Parts(path, synced, m))
           last == LastNode(Last(path))
<1>1. m \in Nat /\ path[1] \in Node(cfg) /\ Last(path) \in Node(cfg)
  BY DEF Last
<1>2. first \in Seq(E)
  BY <1>1, FirstType DEF Goes
<1>3. inner \in Seq(E)
  <2>1. \A i \in 1 .. m : Part(path, synced, i) \in Seq(E)
    BY PartType
  <2> HIDE DEF m, E
  <2>2. \A j \in 0 .. m : Concat(Parts(path, synced, j)) \in Seq(E)
    BY <1>1, <2>1, ConcatType
  <2> QED
    BY <1>1, <2>2
<1>4. last \in Seq(E)
  <2>1. cfg.stmt[Last(path)] \in E
    BY <1>1, NodeFacts DEF Executed
  <2> QED
    BY <2>1 DEF LastNode
<1>5. o.stmts = first \o (inner \o last)
  <2>1. InnerStatements(path, synced) = inner
    BY DEF InnerStatements, Parts, Part
  <2>2. StatementsAfter(Raw(path, synced)) = inner \o last
    BY <2>1 DEF StatementsAfter, Raw
  <2> QED
    BY <2>2 DEF Goes
<1>6. Upto(first, path, synced, m) = first \o inner
  BY DEF Upto
<1> HIDE DEF E, inner, last
<1>7. first \o (inner \o last) = (first \o inner) \o last
  BY <1>2, <1>3, <1>4, ConcatAssociative, SMTT(30)
<1>8. first \o inner \in Seq(E) /\ (first \o inner) \o last \in Seq(E)
  BY <1>2, <1>3, <1>4, ConcatProperties
<1> QED
  BY <1>1, <1>2, <1>4, <1>5, <1>6, <1>7, <1>8 DEF E, last

LEMMA AssignmentPart ==
  ASSUME cfg \in Programs, NEW n \in Node(cfg), Op(cfg, n) = "assign", NEW m, NEW synced
  PROVE  Inner(Stmt(cfg, n, m), n, synced) = << cfg.stmt[n] >>
<1>1. ~ IsBranch(cfg, n)
  BY NodeFacts
<1>2. Stmt(cfg, n, m) = cfg.stmt[n]
  BY <1>1, StmtType
<1>3. ~ IsSlaveIn(n)
  BY DEF IsSlaveIn, IsComm, IsRead, IsWrite
<1> QED
  BY <1>2, <1>3 DEF Inner

(* The operation that starts at the root gives every variable a value.      *)
LEMMA ResetMeetsAll ==
  ASSUME cfg \in Programs, StatesInv, NEW path \in Seq(Node(cfg)), IsOperation(path), Follows(path),
         path[1] = 0, NEW o, NEW synced, NEW first, Goes(o, path, synced, first)
  PROVE  Vars \subseteq Variables(o)
<1> SUFFICES ASSUME NEW x \in Vars PROVE x \in Variables(o)
  OBVIOUS
<1> DEFINE m == Len(path) - 2
           E == Executed(cfg)
<1>1. PICK k \in Nat : Section(k)
  BY SectionIs
<1>2. k + 2 <= Len(path) /\ \A i \in 0 .. k + 1 : path[i + 1] = i
  BY <1>1, ThroughSection
<1>3. PICK i \in 1 .. k : cfg.stmt[i].var = x
  BY <1>1 DEF Section
<1>4. i \in Node(cfg) /\ Op(cfg, i) = "assign"
  BY <1>1, <1>3 DEF Section
<1>5. i \in 1 .. m /\ m \in Nat /\ path[i + 1] = i
  BY <1>2
<1>6. Part(path, synced, i) = << cfg.stmt[i] >>
  BY <1>4, <1>5, AssignmentPart DEF Part
<1>7. cfg.stmt[i] \in Range(Part(path, synced, i))
  BY <1>6 DEF Range
<1>8. \A l \in 1 .. m : Part(path, synced, l) \in Seq(E)
  BY PartType
<1> DEFINE inner == Concat(Parts(path, synced, m))
           upto == Upto(first, path, synced, m)
           last == LastNode(Last(path))
<1>9. cfg.stmt[i] \in Range(inner) /\ inner \in Seq(E)
  <2> HIDE DEF m, E
  <2>1. \A j \in 0 .. m : \A l \in 1 .. j :
           Range(Part(path, synced, l)) \subseteq Range(Concat(Parts(path, synced, j)))
    BY <1>5, <1>8, PartsWithin
  <2>2. m \in 0 .. m
    BY <1>5
  <2>3. Range(Part(path, synced, i)) \subseteq Range(inner)
    BY <1>5, <2>1, <2>2
  <2>4. \A j \in 0 .. m : Concat(Parts(path, synced, j)) \in Seq(E)
    BY <1>5, <1>8, ConcatType
  <2> QED
    BY <1>7, <2>2, <2>3, <2>4
<1>10. /\ o.stmts = upto \o last /\ upto = first \o inner
       /\ upto \in Seq(E) /\ last \in Seq(E) /\ first \in Seq(E)
  <2>1. Len(path) > 1
    BY DEF IsOperation
  <2> QED
    BY <2>1, StmtsAre DEF Upto
<1> HIDE DEF inner, upto, last, E
<1>11. Range(inner) \subseteq Range(upto) /\ Range(upto) \subseteq Range(o.stmts)
  BY <1>9, <1>10, RangeGrows
<1>12. cfg.stmt[i] \in Range(o.stmts)
  BY <1>9, <1>11
<1>13. "var" \in DOMAIN cfg.stmt[i] /\ cfg.stmt[i]["var"] = x
  <2>1. cfg.stmt[i] \in StatementsOf(cfg)
    BY <1>4, NodeFacts
  <2>2. cfg.stmt[i] \in [op : {"assign"}, var : Vars, val : Values]
    BY <1>4, <2>1 DEF StatementsOf, Op
  <2> QED
    BY <1>3, <2>2
<1>14. ~ o.wait
  BY DEF Goes
<1> QED
  BY <1>12, <1>13, <1>14 DEF Variables

-----------------------------------------------------------------------------
(* What is said of an operation: what its statements amount to, and, when   *)
(* there is an operation that starts at the root, of every variable.        *)
Reconstructed(k) == \/ stage \in {"valid", "optimize", "created", "suite", "failed"}
                    \/ stage = "reconstruct" /\ k <= at

Said(o) == LET sym == execute(o.stmts)
           IN  /\ o.assumptions = sym.conditions
               /\ o.signals = Signals(o)
               /\ o.commitments = [x \in DOMAIN o.commitments |-> sym.map[x]]

FromReset == operation # << >> /\ operation[1].start = 0

SaidInv ==
  /\ \A k \in DOMAIN operation : Reconstructed(k) => Said(operation[k])
  /\ FromReset /\ stage = "reconstruct" /\ at >= 1 => Vars \subseteq variableMap
  /\ FromReset /\ stage \in {"reconstruct", "valid", "optimize"} =>
       \A k \in DOMAIN operation : Reconstructed(k) => Vars \subseteq DOMAIN operation[k].commitments
  /\ stage \in {"created", "suite", "failed"} =>
       /\ varMap \subseteq Vars
       /\ FromReset => \A k \in DOMAIN operation : DOMAIN operation[k].commitments = varMap
       /\ \A k \in operationsList : UsedIn(operation[k]) \subseteq varMap

LEMMA ResetFirst ==
  ASSUME IInv, StatesInv, OrderInv, CreateInv, OpsInv, stage # "find", FromReset
  PROVE  Vars \subseteq Variables(operation[1])
<1> DEFINE path == operations[1]
<1>1. 1 \in DOMAIN operations
  BY DEF OpsInv, FromReset
<1>2. PICK synced, first : Goes(operation[1], path, synced, first)
  BY DEF OpsInv, FromReset
<1>3. path[1] = 0
  BY <1>2 DEF Goes, FromReset
<1>4. phase = "done" /\ cfg \in Programs
  BY DEF CreateInv, IInv
<1>5. path \in Seq(Node(cfg)) /\ IsOperation(path) /\ Follows(path)
  BY <1>1, <1>4 DEF IInv, TypeOK, KeptInv, PhaseInv, OrderInv
<1> HIDE DEF path
<1> QED
  BY <1>2, <1>3, <1>4, <1>5, ResetMeetsAll

LEMMA SaidReconstruct ==
  ASSUME IInv, StatesInv, OrderInv, CreateInv, RawInv, OpsInv, SaidInv, Reconstruct, UNCHANGED vars
  PROVE  SaidInv'
<1> DEFINE id == at + 1
           o == operation[id]
           sym == execute(o.stmts)
           new == [o EXCEPT !.assumptions = sym.conditions, !.signals = Signals(o),
                            !.commitments = [x \in Met(o) |-> sym.map[x]]]
<1>1. /\ stage = "reconstruct" /\ stage' = stage /\ at' = id /\ at < Len(operation)
      /\ variableMap' = Met(o)
      /\ operation' = [operation EXCEPT ![id] = new]
  BY DEF Reconstruct
<1>2. /\ at \in Nat /\ Len(operation) \in Nat /\ DOMAIN operation = 1 .. Len(operation)
      /\ id \in DOMAIN operation /\ IsObject(o)
  BY <1>1 DEF CreateInv, RawInv
<1>3. /\ new.assumptions = sym.conditions /\ new.signals = Signals(o)
      /\ new.commitments = [x \in Met(o) |-> sym.map[x]]
      /\ new.start = o.start /\ new.wait = o.wait /\ new.stmts = o.stmts
  BY <1>2 DEF IsObject
<1>4. Said(new)
  <2>1. Signals(new) = Signals(o)
    BY <1>3 DEF Signals
  <2>2. DOMAIN new.commitments = Met(o)
    BY <1>3
  <2> HIDE DEF new
  <2> QED
    BY <1>3, <2>1, <2>2 DEF Said
<1>5. FromReset => Vars \subseteq Met(o)
  <2>1. CASE at = 0
    <3>1. FromReset => Vars \subseteq Variables(operation[1])
      BY <1>1, ResetFirst
    <3> QED
      BY <2>1, <3>1 DEF Met
  <2>2. CASE at # 0
    BY <1>1, <1>2, <2>2 DEF SaidInv, Met
  <2> QED
    BY <2>1, <2>2
<1>6. FromReset' <=> FromReset
  <2>1. operation # << >> /\ operation' # << >> /\ 1 \in DOMAIN operation
    <3>1. \A f : f = << >> => DOMAIN f = {}
      OBVIOUS
    <3>2. DOMAIN operation' = DOMAIN operation /\ 1 \in DOMAIN operation
      BY <1>1, <1>2
    <3> QED
      BY <3>1, <3>2
  <2>2. operation'[1].start = operation[1].start
    <3> HIDE DEF new
    <3> QED
      BY <1>1, <1>3, <2>1
  <2> QED
    BY <2>1, <2>2 DEF FromReset
<1>7. /\ DOMAIN operation' = DOMAIN operation
      /\ operation'[id] = new /\ \A k \in DOMAIN operation : k # id => operation'[k] = operation[k]
  BY <1>1, <1>2
<1>8. \A k \in DOMAIN operation : k <= at' => k = id \/ k <= at
  BY <1>1, <1>2
<1>9. DOMAIN new.commitments = Met(o)
  BY <1>3
<1> HIDE DEF new, sym, o
<1>10. \A k \in DOMAIN operation' : Reconstructed(k)' => Said(operation'[k])
  BY <1>1, <1>4, <1>7, <1>8 DEF SaidInv, Reconstructed
<1>11. FromReset => \A k \in DOMAIN operation' :
                      Reconstructed(k)' => Vars \subseteq DOMAIN operation'[k].commitments
  BY <1>1, <1>5, <1>7, <1>8, <1>9 DEF SaidInv, Reconstructed
<1>12. \A p : Said(p)' <=> Said(p)
  BY DEF Said, Signals
<1> QED
  BY <1>1, <1>5, <1>6, <1>10, <1>11, <1>12 DEF SaidInv

LEMMA SaidOptimize ==
  ASSUME CreateInv, SaidInv, Optimize
  PROVE  SaidInv'
<1>1. /\ stage = "optimize" /\ stage' = "created" /\ operationsList' = operationsList
      /\ operationsList \subseteq DOMAIN operation
  BY DEF Optimize, CreateInv, Lists
<1>2. varMap' = UNION {UsedIn(operation[k]) : k \in operationsList}
  BY DEF Optimize
<1>3. operation' = [k \in DOMAIN operation |->
                     [operation[k] EXCEPT !.commitments = Restrict(@, DOMAIN @ \cap varMap')]]
  BY DEF Optimize
<1>4. varMap' \subseteq Vars
  BY <1>2 DEF UsedIn
<1>5. ASSUME NEW k \in DOMAIN operation
      PROVE  LET o == operation[k]
                 q == operation'[k]
             IN  /\ SameObject(o, q) /\ q.assumptions = o.assumptions /\ q.signals = o.signals
                 /\ q.commitments = [x \in DOMAIN o.commitments \cap varMap' |-> o.commitments[x]]
                 /\ DOMAIN q.commitments = DOMAIN o.commitments \cap varMap'
  <2>1. IsObject(operation[k])
    BY DEF CreateInv
  <2>2. operation'[k] = [operation[k] EXCEPT !.commitments =
              [x \in DOMAIN operation[k].commitments \cap varMap' |-> operation[k].commitments[x]]]
    BY <1>3 DEF Restrict
  <2> QED
    BY <2>1, <2>2 DEF IsObject, SameObject
<1>6. ASSUME NEW k \in DOMAIN operation PROVE Said(operation[k])
  BY <1>1 DEF SaidInv, Reconstructed
<1>7. ASSUME NEW k \in DOMAIN operation PROVE Said(operation'[k])
  <2> DEFINE o == operation[k]
  <2>1. PICK q : q = operation'[k]
    OBVIOUS
  <2>2. /\ SameObject(o, q) /\ q.assumptions = o.assumptions /\ q.signals = o.signals
        /\ q.commitments = [x \in DOMAIN o.commitments \cap varMap' |-> o.commitments[x]]
        /\ DOMAIN q.commitments = DOMAIN o.commitments \cap varMap'
    BY <1>5, <2>1
  <2>3. /\ o.assumptions = execute(o.stmts).conditions /\ o.signals = Signals(o)
        /\ \A x \in DOMAIN o.commitments : o.commitments[x] = execute(o.stmts).map[x]
    <3>1. Said(o)
      BY <1>6
    <3>2. o.commitments = [x \in DOMAIN o.commitments |-> execute(o.stmts).map[x]]
      BY <3>1 DEF Said
    <3> QED
      BY <3>1, <3>2 DEF Said
  <2> HIDE DEF o
  <2>4. q.commitments = [x \in DOMAIN q.commitments |-> execute(q.stmts).map[x]]
    BY <2>2, <2>3 DEF SameObject
  <2>5. Signals(q) = Signals(o) /\ q.stmts = o.stmts
    BY <2>2 DEF SameObject, Signals
  <2>6. Said(q)
    BY <2>2, <2>3, <2>4, <2>5 DEF Said
  <2> QED
    BY <2>1, <2>6
<1>8. FromReset' <=> FromReset
  <2>1. operation # << >> <=> 1 \in DOMAIN operation
    BY DEF CreateInv
  <2>2. DOMAIN operation' = DOMAIN operation
    BY <1>3
  <2>3. operation' # << >> <=> 1 \in DOMAIN operation
    <3>1. operation \in Seq(Range(operation))
      BY DEF CreateInv
    <3>2. DOMAIN operation = 1 .. Len(operation) /\ Len(operation) \in Nat
      BY <3>1
    <3>3. operation' # << >> => DOMAIN operation # {}
      BY <1>3
    <3>4. 1 \in DOMAIN operation => operation' # << >>
      BY <2>2
    <3> QED
      BY <3>2, <3>3, <3>4
  <2>4. 1 \in DOMAIN operation => operation'[1].start = operation[1].start
    BY <1>5 DEF SameObject
  <2> QED
    BY <2>1, <2>3, <2>4 DEF FromReset
<1>9. FromReset => \A k \in DOMAIN operation : DOMAIN operation'[k].commitments = varMap'
  <2> SUFFICES ASSUME FromReset, NEW k \in DOMAIN operation
               PROVE  DOMAIN operation'[k].commitments = varMap'
    OBVIOUS
  <2>1. Vars \subseteq DOMAIN operation[k].commitments
    BY <1>1 DEF SaidInv, Reconstructed
  <2> QED
    BY <1>4, <1>5, <2>1
<1>10. ASSUME NEW k \in operationsList PROVE UsedIn(operation'[k]) \subseteq varMap'
  <2>1. UsedIn(operation[k]) \subseteq varMap'
    BY <1>2
  <2>2. PICK q : q = operation'[k]
    OBVIOUS
  <2>3. UsedIn(q) \subseteq UsedIn(operation[k])
    <3>1. /\ q.assumptions = operation[k].assumptions /\ q.signals = operation[k].signals
          /\ \A y \in DOMAIN q.commitments : y \in DOMAIN operation[k].commitments
                                             /\ q.commitments[y] = operation[k].commitments[y]
      BY <1>1, <1>5, <2>2, ZenonT(40)
    <3> QED
      BY <3>1 DEF UsedIn
  <2> QED
    BY <2>1, <2>2, <2>3
<1>11. ASSUME NEW ops, ops = operation'
       PROVE  /\ \A k \in DOMAIN ops : Said(ops[k])'
              /\ \A k \in operationsList : UsedIn(ops[k])' \subseteq varMap'
  <2>1. \A p : (Said(p)' <=> Said(p)) /\ UsedIn(p)' = UsedIn(p)
    BY DEF Said, Signals, UsedIn
  <2>2. DOMAIN ops = DOMAIN operation
    BY <1>3, <1>11
  <2> QED
    BY <1>7, <1>10, <1>11, <2>1, <2>2
<1>12. DOMAIN operation' = DOMAIN operation
  BY <1>3
<1> QED
  BY <1>1, <1>4, <1>8, <1>9, <1>11, <1>12 DEF SaidInv

LEMMA SaidStays ==
  ASSUME SaidInv, UNCHANGED << operation, variableMap, varMap >>,
         \A k \in DOMAIN operation : Reconstructed(k)' => Reconstructed(k),
         stage' = "reconstruct" => at' = 0 \/ (stage = "reconstruct" /\ at' = at),
         stage' \in {"reconstruct", "valid", "optimize"} => stage \notin {"created", "suite", "failed"},
         stage' \in {"created", "suite", "failed"} => /\ stage \in {"created", "suite", "failed"}
                                                      /\ operationsList' = operationsList
  PROVE  SaidInv'
<1>1. \A p : (Said(p)' <=> Said(p)) /\ UsedIn(p)' = UsedIn(p)
  BY DEF Said, Signals, UsedIn
<1>2. FromReset' <=> FromReset
  BY DEF FromReset
<1>3. \A k \in DOMAIN operation : Reconstructed(k)' => Said(operation[k])
  BY DEF SaidInv
<1>4. FromReset /\ stage' = "reconstruct" /\ at' >= 1 => Vars \subseteq variableMap
  BY DEF SaidInv
<1>5. FromReset /\ stage' \in {"reconstruct", "valid", "optimize"} =>
       \A k \in DOMAIN operation : Reconstructed(k)' => Vars \subseteq DOMAIN operation[k].commitments
  <2> SUFFICES ASSUME FromReset, stage' \in {"reconstruct", "valid", "optimize"},
                      NEW k \in DOMAIN operation, Reconstructed(k)'
               PROVE  Vars \subseteq DOMAIN operation[k].commitments
    OBVIOUS
  <2>1. Reconstructed(k)
    OBVIOUS
  <2>2. stage \in {"reconstruct", "valid", "optimize"}
    BY <2>1 DEF Reconstructed
  <2> QED
    BY <2>1, <2>2 DEF SaidInv
<1> QED
  BY <1>1, <1>2, <1>3, <1>4, <1>5 DEF SaidInv

LEMMA NextSaidInv ==
  IInv /\ StatesInv /\ OrderInv /\ CreateInv /\ RawInv /\ OpsInv /\ SaidInv /\ [HardwareNext]_allVars
    => SaidInv'
<1> SUFFICES ASSUME IInv, StatesInv, OrderInv, CreateInv, RawInv, OpsInv, SaidInv,
                    [HardwareNext]_allVars
             PROVE  SaidInv'
  OBVIOUS
<1>0. /\ at \in Nat /\ Len(operation) \in Nat /\ DOMAIN operation = 1 .. Len(operation)
  BY DEF CreateInv, RawInv
<1>1. CASE UNCHANGED createVars
  <2>1. UNCHANGED << operation, variableMap, varMap, stage, at, operationsList >>
    BY <1>1 DEF createVars
  <2> QED
    BY <2>1, SaidStays DEF Reconstructed
<1>2. CASE UNCHANGED vars /\ (CreateNext \/ Suite)
  <2>1. CASE \/ Found \/ ExtendRawOperation \/ Extended \/ CreateExplicit \/ AllExplicit
             \/ CreateImplicit
    <3>1. stage' \notin {"reconstruct", "valid", "optimize", "created", "suite", "failed"}
      BY <2>1 DEF Found, ExtendRawOperation, Extended, CreateExplicit, AllExplicit, CreateImplicit
    <3> QED
      BY <3>1 DEF SaidInv, Reconstructed
  <2>2. CASE AllImplicit
    <3>1. /\ UNCHANGED << operation, variableMap, varMap >>
          /\ stage = "implicit" /\ stage' = "reconstruct" /\ at' = 0
      BY <2>2 DEF AllImplicit
    <3>2. \A k \in DOMAIN operation : ~ Reconstructed(k)'
      BY <1>0, <3>1 DEF Reconstructed
    <3> QED
      BY <3>1, <3>2, SaidStays
  <2>3. CASE Reconstruct
    BY <1>2, <2>3, SaidReconstruct
  <2>4. CASE AllReconstructed
    <3>1. /\ UNCHANGED << operation, variableMap, varMap >>
          /\ stage = "reconstruct" /\ at = Len(operation) /\ stage' = "valid"
      BY <2>4 DEF AllReconstructed
    <3>2. \A k \in DOMAIN operation : Reconstructed(k)
      BY <1>0, <3>1 DEF Reconstructed
    <3> QED
      BY <3>1, <3>2, SaidStays
  <2>5. CASE FindValid \/ AllValid
    <3>1. /\ UNCHANGED << operation, variableMap, varMap >>
          /\ stage = "valid" /\ stage' \in {"valid", "optimize"}
      BY <2>5 DEF FindValid, AllValid
    <3> QED
      BY <3>1, SaidStays DEF Reconstructed
  <2>6. CASE Optimize
    BY <2>6, SaidOptimize
  <2>7. CASE Suite
    <3>1. /\ UNCHANGED << operation, variableMap, varMap, operationsList >>
          /\ stage = "created" /\ stage' \in {"suite", "failed"}
      BY <2>7 DEF Suite
    <3> QED
      BY <3>1, SaidStays DEF Reconstructed
  <2> QED
    BY <1>2, <2>1, <2>2, <2>3, <2>4, <2>5, <2>6, <2>7 DEF CreateNext
<1> QED
  BY <1>1, <1>2, Stages

-----------------------------------------------------------------------------
(* All that is known of the translation.                                    *)
MadeInv == StatesInv /\ OriginInv /\ OrderInv /\ CreateInv /\ RawInv /\ OpsInv /\ SaidInv

LEMMA InitMadeInv == HardwareInit => MadeInv
<1> SUFFICES ASSUME HardwareInit PROVE MadeInv
  OBVIOUS
<1>1. /\ Init /\ stage = "find" /\ at = 0
      /\ rawOperations = << >> /\ operation = << >> /\ operationsList = {}
      /\ search = "idle" /\ operations = << >> /\ phase \in {"initial", "error"}
  <2>1. Init /\ CreateInit
    BY DEF HardwareInit
  <2>2. phase \in {"initial", "error"}
    BY <2>1, Zenon DEF Init
  <2> QED
    BY <2>1, <2>2 DEF CreateInit, Init, SearchInit
<1>2. StatesInv /\ CreateInv
  BY <1>1, InitStatesInv, InitCreateInv
<1>3. OriginInv
  BY <1>1 DEF OriginInv
<1>4. DOMAIN << >> = {} /\ << >> \in Seq(Range(<< >>)) /\ Len(<< >>) = 0
  OBVIOUS
<1>5. OrderInv
  BY <1>1, <1>4 DEF OrderInv
<1>6. RawInv
  BY <1>1, <1>4 DEF RawInv
<1>7. OpsInv
  BY <1>1, <1>4 DEF OpsInv
<1>8. SaidInv
  BY <1>1, <1>4 DEF SaidInv, Reconstructed
<1> QED
  BY <1>2, <1>3, <1>5, <1>6, <1>7, <1>8 DEF MadeInv

LEMMA NextMadeInv == IInv /\ PathsInv /\ MadeInv /\ [HardwareNext]_allVars => MadeInv'
<1> SUFFICES ASSUME IInv, PathsInv, MadeInv, [HardwareNext]_allVars PROVE MadeInv'
  OBVIOUS
<1>1. [Next]_vars
  BY SearchGoesOn
<1>2. /\ StatesInv /\ OriginInv /\ OrderInv /\ CreateInv /\ RawInv /\ OpsInv /\ SaidInv
  BY DEF MadeInv
<1>3. StatesInv' /\ OriginInv' /\ OrderInv'
  BY <1>1, <1>2, NextStatesInv, NextOriginInv, NextOrderInv
<1>4. CreateInv' /\ RawInv' /\ OpsInv' /\ SaidInv'
  BY <1>2, NextCreateInv, NextRawInv, NextOpsInv, NextSaidInv
<1> QED
  BY <1>3, <1>4 DEF MadeInv

(* There is a suite only if there is an operation that starts at the root.  *)
SuiteInv == stage = "suite" => FromReset

LEMMA SuiteStarts ==
  ASSUME IInv, MadeInv, Suite, stage' = "suite", UNCHANGED << operation >>
  PROVE  FromReset
<1>1. stage = "created" /\ Cardinality(outgoing[0]) = 1
  BY DEF Suite
<1>2. outgoing[0] # {}
  BY <1>1, FS_EmptySet
<1>3. /\ operationsList \subseteq DOMAIN operation
      /\ outgoing = [n \in States |-> {k \in operationsList : operation[k].start = n}]
      /\ \A k \in DOMAIN operation : Made(operation[k])
  BY <1>1 DEF MadeInv, CreateInv, Lists, OpsInv
<1>4. 0 \in States
  <2>1. importantStates[1] = 0 /\ 1 \in DOMAIN importantStates
    BY DEF MadeInv, StatesInv, IInv, TypeOK
  <2> QED
    BY <2>1 DEF States, Range
<1>5. PICK k \in DOMAIN operation : operation[k].start = 0
  BY <1>2, <1>3, <1>4
<1>6. PICK j \in DOMAIN operations : operations[j][1] = 0
  BY <1>3, <1>5 DEF Made, Goes, Stands
<1>7. operations[1][1] = 0
  BY <1>6 DEF MadeInv, OrderInv
<1>8. operation # << >>
  <2>1. DOMAIN << >> = {}
    OBVIOUS
  <2> QED
    BY <1>5, <2>1
<1>9. PICK synced, first : Goes(operation[1], operations[1], synced, first)
  BY <1>8 DEF MadeInv, OpsInv
<1> QED
  BY <1>7, <1>8, <1>9 DEF FromReset, Goes

LEMMA NextSuiteInv == IInv /\ MadeInv /\ SuiteInv /\ [HardwareNext]_allVars => SuiteInv'
<1> SUFFICES ASSUME IInv, MadeInv, SuiteInv, [HardwareNext]_allVars PROVE SuiteInv'
  OBVIOUS
<1>0. CreateInv
  BY DEF MadeInv
<1>1. CASE UNCHANGED createVars
  BY <1>1 DEF createVars, SuiteInv, FromReset
<1>2. CASE CreateNext
  BY <1>2 DEF SuiteInv, CreateNext, Found, ExtendRawOperation, Extended, CreateExplicit, AllExplicit,
              CreateImplicit, AllImplicit, Reconstruct, AllReconstructed, FindValid, AllValid, Optimize
<1>3. CASE Suite
  <2>1. UNCHANGED << operation >>
    BY <1>3 DEF Suite
  <2> QED
    BY <1>3, <2>1, SuiteStarts DEF SuiteInv, FromReset
<1> QED
  BY <1>0, <1>1, <1>2, <1>3, Stages

-----------------------------------------------------------------------------
(* What an operation cannot refer to: the reset to any variable, and after  *)
(* a try_write no operation to its flag.                                    *)
Unset(n) == IF n = 0 THEN Vars ELSE Flags(n)
Clean(n) == Given(cfg) \cup Unknown(Vars \ Unset(n))

LEMMA ExecuteFrom ==
  ASSUME NEW g, NEW A, Given(g) \cup Unknown(Vars) \subseteq A, NEW t \in Seq(Executed(g))
  PROVE  Over(execute(t), A)
<1> DEFINE E == Executed(g)
<1>1. << >> \in Seq(E) /\ << >> \o t = t
  BY ConcatEmptySeq
<1>2. Over(execute(<< >>), A)
  BY StartOver, ExecuteNothing
<1>3. Over(execute(<< >> \o t), A)
  BY <1>1, <1>2, ExecuteMore
<1> QED
  BY <1>1, <1>3

LEMMA FirstClean ==
  ASSUME cfg \in Programs, NEW n \in Node(cfg), NEW first, Starts(n, first)
  PROVE  Over(execute(first), Given(cfg) \cup Unknown(Vars \ Flags(n)))
<1> DEFINE A == Given(cfg) \cup Unknown(Vars \ Flags(n))
           s == cfg.stmt[n]
           yes == Sync(s.port, TRUE)
           no == Sync(s.port, FALSE)
<1>1. CASE Op(cfg, n) # "try_write"
  <2>1. Vars \ Flags(n) = Vars
    BY <1>1 DEF Flags
  <2>2. first \in Seq(Executed(cfg))
    BY FirstType
  <2>3. Given(cfg) \cup Unknown(Vars) \subseteq A
    BY <2>1
  <2> HIDE DEF A
  <2>4. Over(execute(first), A)
    BY <2>2, <2>3, ExecuteFrom
  <2> QED
    BY <2>4 DEF A
<1>2. CASE Op(cfg, n) = "try_write"
  <2>1. IsComm(cfg, n) /\ IsNonBlockingAccess(cfg, n) /\ ~ IsRead(cfg, n)
    BY <1>2 DEF IsComm, IsWrite, IsNonBlockingAccess, IsRead
  <2>2. s.port \in DOMAIN cfg.ports /\ s.flag \in Vars /\ s \in StatementsOf(cfg)
    BY <2>1, CommPort, NodeFacts
  <2>3. cfg.ports[s.port] = "blocking out"
    BY <1>2, <2>2 DEF StatementsOf, Op
  <2>4. IsBlocking(cfg, n)
    BY <2>1, <2>3 DEF IsBlocking, Blocking
  <2>5. /\ yes \in Executed(cfg) /\ no \in Executed(cfg)
    BY <2>2, SyncType
  <2>6. Flag(s) \in Executed(cfg)
    BY <2>1, FlagType
  <2>7. \/ first = << yes >> \o << Flag(s) >>
        \/ first = << no, Flag(s) >>
    <3>1. First(n) = << yes >> \o (CASE IsRead(cfg, n) -> << s >>
                                     [] Op(cfg, n) = "try_write" -> << Flag(s) >>
                                     [] OTHER -> << >>)
      BY <2>1, <2>4, Zenon DEF First
    <3>2. First(n) = << yes >> \o << Flag(s) >>
      BY <1>2, <2>1, <3>1
    <3>3. FirstNotSynced(n) = << no, Flag(s) >>
      BY DEF FirstNotSynced
    <3> QED
      BY <3>2, <3>3, Zenon DEF Starts
  <2>8. PICK a \in {yes, no} : execute(first) = Execute(Execute(Start, a), Flag(s))
    <3> HIDE DEF yes, no
    <3> QED
      BY <2>5, <2>6, <2>7, ExecuteShort
  <2>9. PICK h : a = Sync(s.port, h)
    BY <2>8
  <2> DEFINE c == << << "sync", s.port >>, 1, h >>
             q == [map |-> [x \in Vars |-> << "variable", x >>], sig |-> << >>, conditions |-> {c}]
             r == [q EXCEPT !.map[s.flag] = << "sync", s.port >>]
  <2>10. Execute(Start, a) = q
    BY <2>9 DEF Execute, Sync, Start
  <2>11. /\ execute(first) = r /\ r.sig = << >> /\ r.conditions = {c}
         /\ r.map = [x \in Vars |-> IF x = s.flag THEN << "sync", s.port >> ELSE << "variable", x >>]
         /\ r = [map |-> r.map, sig |-> r.sig, conditions |-> r.conditions]
    <3>1. Execute(q, Flag(s)) = r
      <4> HIDE DEF q
      <4> QED
        BY DEF Execute, Flag
    <3>2. r.map = [[x \in Vars |-> << "variable", x >>] EXCEPT ![s.flag] = << "sync", s.port >>]
      OBVIOUS
    <3> QED
      BY <2>8, <2>10, <3>1, <3>2
  <2>12. << "sync", s.port >> \in A
    BY <2>2 DEF Given
  <2>13. \A x \in Vars : x # s.flag => << "variable", x >> \in A
    BY <1>2 DEF Unknown, Flags
  <2>14. DOMAIN << >> = {}
    OBVIOUS
  <2> HIDE DEF A, r, q
  <2>15. Over(r, A)
    <3>1. c[1] = << "sync", s.port >>
      OBVIOUS
    <3> HIDE DEF c
    <3> QED
      BY <2>11, <2>12, <2>13, <2>14, <3>1 DEF Over, Symbolic
  <2> QED
    BY <2>11, <2>15 DEF A
<1> QED
  BY <1>1, <1>2

LEMMA UptoParts ==
  ASSUME cfg \in Programs, NEW path \in Seq(Node(cfg)), Len(path) > 1, NEW synced,
         NEW first \in Seq(Executed(cfg)), NEW k \in 0 .. Len(path) - 2
  PROVE  /\ Upto(first, path, synced, k) \in Seq(Executed(cfg))
         /\ k # Len(path) - 2 =>
              /\ Part(path, synced, k + 1) \in Seq(Executed(cfg))
              /\ Upto(first, path, synced, k + 1)
                   = Upto(first, path, synced, k) \o Part(path, synced, k + 1)
<1> DEFINE m == Len(path) - 2
           E == Executed(cfg)
<1>1. m \in Nat /\ k \in 0 .. m /\ k \in Nat
  OBVIOUS
<1>2. \A l \in 1 .. m : Part(path, synced, l) \in Seq(E)
  BY PartType
<1> HIDE DEF m
<1>3. Concat(Parts(path, synced, k)) \in Seq(E)
  <2> HIDE DEF E
  <2> QED
    BY <1>1, <1>2, ConcatType
<1>4. Upto(first, path, synced, k) \in Seq(E)
  <2>1. first \o Concat(Parts(path, synced, k)) \in Seq(E)
    BY <1>3, ConcatProperties
  <2> QED
    BY <2>1, Zenon DEF Upto
<1>5. ASSUME k # m
      PROVE  /\ Part(path, synced, k + 1) \in Seq(E)
             /\ Upto(first, path, synced, k + 1)
                  = Upto(first, path, synced, k) \o Part(path, synced, k + 1)
  <2>1. k + 1 \in 1 .. m
    BY <1>1, <1>5
  <2>2. Part(path, synced, k + 1) \in Seq(E)
    BY <1>2, <2>1
  <2>3. Concat(Parts(path, synced, k + 1))
          = Concat(Parts(path, synced, k)) \o Part(path, synced, k + 1)
    BY <1>1, ConcatParts
  <2>4. Upto(first, path, synced, k + 1)
          = first \o (Concat(Parts(path, synced, k)) \o Part(path, synced, k + 1))
    BY <2>3, Zenon DEF Upto
  <2>5. (first \o Concat(Parts(path, synced, k))) \o Part(path, synced, k + 1)
          = first \o (Concat(Parts(path, synced, k)) \o Part(path, synced, k + 1))
    <3>1. first \in Seq(E)
      OBVIOUS
    <3> HIDE DEF E
    <3>2. PICK S : S = E
      OBVIOUS
    <3>3. PICK s : s = Concat(Parts(path, synced, k))
      OBVIOUS
    <3>4. PICK t : t = Part(path, synced, k + 1)
      OBVIOUS
    <3>5. first \in Seq(S) /\ s \in Seq(S) /\ t \in Seq(S)
      BY <1>3, <2>2, <3>1, <3>2, <3>3, <3>4
    <3>6. (first \o s) \o t = first \o (s \o t)
      BY <3>5, ConcatAssociative, SMTT(30)
    <3> QED
      BY <3>3, <3>4, <3>6
  <2>6. Upto(first, path, synced, k + 1)
          = Upto(first, path, synced, k) \o Part(path, synced, k + 1)
    BY <2>4, <2>5, Zenon DEF Upto
  <2> QED
    BY <2>2, <2>6
<1> QED
  BY <1>4, <1>5 DEF m, E

LEMMA GoesClean ==
  ASSUME cfg \in Programs, NEW path \in Seq(Node(cfg)), Len(path) > 1,
         NEW o, NEW synced, NEW first, Goes(o, path, synced, first), NEW A, Given(cfg) \subseteq A,
         NEW j \in 0 .. Len(path) - 2, Over(execute(Upto(first, path, synced, j)), A)
  PROVE  /\ Over(execute(o.stmts), A)
         /\ \A i \in j .. Len(path) - 2 :
              /\ Over(execute(Upto(first, path, synced, i)), A)
              /\ execute(Upto(first, path, synced, i)).conditions
                   \subseteq execute(o.stmts).conditions
<1> DEFINE m == Len(path) - 2
           E == Executed(cfg)
           upto(i) == Upto(first, path, synced, i)
           last == LastNode(Last(path))
           T == {i \in Nat : i \in j .. m => Over(execute(upto(i)), A)}
<1>1. m \in Nat /\ j \in Nat /\ j <= m
  OBVIOUS
<1>2. /\ o.stmts = upto(m) \o last /\ last \in Seq(E) /\ first \in Seq(E)
  BY StmtsAre
<1>3. \A i \in 1 .. m : Part(path, synced, i) \in Seq(E)
  BY PartType
<1> HIDE DEF m, E, last
<1>0. \A i \in 0 .. m :
        /\ Upto(first, path, synced, i) \in Seq(E)
        /\ i # m => Upto(first, path, synced, i + 1)
                      = Upto(first, path, synced, i) \o Part(path, synced, i + 1)
  <2> HIDE DEF T, upto
  <2>1. ASSUME NEW i \in 0 .. Len(path) - 2
        PROVE  /\ Upto(first, path, synced, i) \in Seq(Executed(cfg))
               /\ i # Len(path) - 2 =>
                    Upto(first, path, synced, i + 1)
                      = Upto(first, path, synced, i) \o Part(path, synced, i + 1)
    <3>1. first \in Seq(Executed(cfg))
      BY <1>2 DEF E
    <3> QED
      BY <3>1, UptoParts
  <2> QED
    BY <2>1 DEF m, E
<1>4. \A i \in 0 .. m : /\ upto(i) \in Seq(E)
                        /\ i # m => upto(i + 1) = upto(i) \o Part(path, synced, i + 1)
  BY <1>0
<1> HIDE DEF upto
<1>5. ASSUME NEW i \in Nat, i \in j .. m, i # m, Over(execute(upto(i)), A)
      PROVE  /\ Over(execute(upto(i + 1)), A)
             /\ execute(upto(i)).conditions \subseteq execute(upto(i + 1)).conditions
  <2>1. i \in 0 .. m /\ i + 1 \in 1 .. m
    BY <1>1, <1>5
  <2>2. upto(i) \in Seq(E) /\ Part(path, synced, i + 1) \in Seq(E)
        /\ upto(i + 1) = upto(i) \o Part(path, synced, i + 1)
    BY <1>3, <1>4, <1>5, <2>1
  <2> QED
    BY <1>5, <2>2, ExecuteMore DEF E
<1>6. ASSUME NEW i \in Nat, i \in T PROVE i + 1 \in T
  <2> SUFFICES ASSUME i + 1 \in j .. m PROVE Over(execute(upto(i + 1)), A)
    BY DEF T
  <2>1. CASE i + 1 = j
    BY <2>1 DEF upto
  <2>2. CASE i + 1 # j
    <3>1. i \in j .. m /\ i # m
      BY <1>1, <2>2
    <3>2. Over(execute(upto(i)), A)
      BY <1>6, <3>1
    <3> QED
      BY <1>5, <3>1, <3>2
  <2> QED
    BY <2>1, <2>2
<1>7. 0 \in T
  <2> SUFFICES ASSUME 0 \in j .. m PROVE Over(execute(upto(0)), A)
    OBVIOUS
  <2>1. j = 0
    BY <1>1
  <2> QED
    BY <2>1 DEF upto
<1>8. \A i \in j .. m : Over(execute(upto(i)), A)
  <2> HIDE DEF T
  <2>1. \A i \in Nat : i \in T
    BY <1>6, <1>7, NatSetInduction
  <2>2. \A i \in j .. m : i \in Nat
    BY <1>1
  <2> QED
    BY <2>1, <2>2 DEF T
<1>9. /\ Over(execute(o.stmts), A)
      /\ execute(upto(m)).conditions \subseteq execute(o.stmts).conditions
  <2>1. m \in j .. m /\ m \in 0 .. m
    BY <1>1
  <2>2. Over(execute(upto(m)), A) /\ upto(m) \in Seq(E)
    BY <1>4, <1>8, <2>1
  <2> QED
    BY <1>2, <2>2, ExecuteMore DEF E
<1> DEFINE C(i) == execute(upto(i)).conditions
           U == {d \in Nat : d <= m - j => C(m - d) \subseteq execute(o.stmts).conditions}
<1>10. 0 \in U
  BY <1>1, <1>9
<1>11. ASSUME NEW d \in Nat, d \in U PROVE d + 1 \in U
  <2> SUFFICES ASSUME d + 1 <= m - j PROVE C(m - (d + 1)) \subseteq execute(o.stmts).conditions
    OBVIOUS
  <2> DEFINE i == m - (d + 1)
  <2>1. i \in Nat /\ i \in j .. m /\ i # m /\ i + 1 = m - d
    BY <1>1
  <2>0. d <= m - j
    BY <1>1
  <2>2. C(m - d) \subseteq execute(o.stmts).conditions
    <3> HIDE DEF C
    <3> QED
      BY <1>11, <2>0
  <2> HIDE DEF i
  <2>3. C(i) \subseteq C(i + 1)
    BY <1>5, <1>8, <2>1
  <2>4. C(i) \subseteq execute(o.stmts).conditions
    BY <2>1, <2>2, <2>3
  <2> QED
    BY <2>4 DEF i
<1>12. \A i \in j .. m : execute(upto(i)).conditions \subseteq execute(o.stmts).conditions
  <2> HIDE DEF U, C
  <2>1. \A d \in Nat : d \in U
    BY <1>10, <1>11, NatSetInduction
  <2>2. ASSUME NEW i \in j .. m PROVE C(i) \subseteq execute(o.stmts).conditions
    <3>1. m - i \in Nat /\ m - i <= m - j /\ m - (m - i) = i
      BY <1>1
    <3>2. PICK d \in Nat : d = m - i
      BY <3>1
    <3>3. C(m - d) \subseteq execute(o.stmts).conditions
      BY <2>1, <3>1, <3>2 DEF U
    <3> QED
      BY <3>1, <3>2, <3>3
  <2> QED
    BY <2>2 DEF C
<1> QED
  BY <1>8, <1>9, <1>12 DEF upto, m

-----------------------------------------------------------------------------
(* The assignments at the beginning of the program.                         *)
LEMMA AssignRuns ==
  ASSUME NEW A, Given(cfg) \subseteq A, NEW sym, Over(sym, A),
         NEW s \in StatementsOf(cfg), s.op = "assign"
  PROVE  /\ Over(Execute(sym, s), A) /\ s.var \in Vars
         /\ Execute(sym, s).sig = sym.sig /\ Execute(sym, s).conditions = sym.conditions
         /\ Execute(sym, s).map[s.var] \in Given(cfg)
         /\ \A x \in Vars : Execute(sym, s).map[x] = sym.map[x] \/ Execute(sym, s).map[x] \in Given(cfg)
<1> DEFINE e == << "value", s.val >>
<1>1. s.var \in Vars /\ s.val \in Values
  BY DEF StatementsOf
<1>2. e \in Given(cfg)
  BY <1>1 DEF Given
<1>3. Over(Execute(sym, s), A)
  BY ExecuteOver DEF Executed
<1>4. Execute(sym, s) = [sym EXCEPT !.map[s.var] = e]
  BY DEF Execute
<1>5. /\ Symbolic(sym) /\ DOMAIN sym.map = Vars
  BY DEF Over
<1> HIDE DEF e
<1>6. /\ Execute(sym, s).sig = sym.sig /\ Execute(sym, s).conditions = sym.conditions
      /\ Execute(sym, s).map = [sym.map EXCEPT ![s.var] = e]
  BY <1>4, <1>5 DEF Symbolic
<1> QED
  BY <1>1, <1>2, <1>3, <1>5, <1>6

LEMMA SectionClean ==
  ASSUME cfg \in Programs, StatesInv, NEW path \in Seq(Node(cfg)), IsOperation(path), Follows(path),
         path[1] = 0, NEW synced, NEW first, Starts(0, first), NEW k \in Nat, Section(k)
  PROVE  /\ k \in 0 .. Len(path) - 2
         /\ Over(execute(Upto(first, path, synced, k)), Given(cfg))
<1> DEFINE G == Given(cfg)
           A == G \cup Unknown(Vars)
           sym(i) == execute(Upto(first, path, synced, i))
           P(i) == /\ Over(sym(i), A) /\ DOMAIN sym(i).sig = {} /\ sym(i).conditions = {}
                   /\ \A n \in 1 .. i : sym(i).map[cfg.stmt[n].var] \in G
           T == {i \in Nat : i <= k => P(i)}
<1>1. k + 2 <= Len(path) /\ \A i \in 0 .. k + 1 : path[i + 1] = i
  BY ThroughSection
<1>2. Len(path) \in Nat /\ Len(path) > 1
  BY <1>1
<1>3. k \in 0 .. Len(path) - 2
  BY <1>1, <1>2
<1>4. first = << >>
  <2>1. 0 \in Node(cfg) /\ Op(cfg, 0) = "reset"
    BY ProgramsAssumption DEF ProgramsAreGraphs, Section
  <2>2. ~ IsComm(cfg, 0) /\ ~ IsBlocking(cfg, 0)
    BY <2>1 DEF IsComm, IsRead, IsWrite, IsBlocking
  <2> QED
    BY <2>2, Zenon DEF Starts, First
<1>5. first \in Seq(Executed(cfg))
  BY <1>4
<1>6. 0 \in T
  <2>1. Upto(first, path, synced, 0) = << >>
    BY <1>4, <1>5, UptoStart
  <2>2. sym(0) = Start
    BY <2>1, ExecuteNothing
  <2>3. Over(Start, A)
    BY StartOver
  <2>4. DOMAIN Start.sig = {} /\ Start.conditions = {}
    BY DEF Start
  <2> HIDE DEF A, G, sym
  <2>5. P(0)
    BY <2>2, <2>3, <2>4
  <2> QED
    BY <2>5
<1>7. ASSUME NEW i \in Nat, i \in T PROVE i + 1 \in T
  <2> SUFFICES ASSUME i + 1 <= k PROVE P(i + 1)
    OBVIOUS
  <2> DEFINE s == cfg.stmt[i + 1]
  <2>1. P(i)
    <3> HIDE DEF P
    <3> QED
      BY <1>7
  <2>2. i + 1 \in 1 .. k /\ i + 1 \in 0 .. k /\ i + 1 + 1 = i + 2
    OBVIOUS
  <2>3. i + 1 \in Node(cfg) /\ Op(cfg, i + 1) = "assign"
    BY <2>2 DEF Section
  <2>4. s \in StatementsOf(cfg) /\ s.op = "assign"
    BY <2>3, NodeFacts DEF Op
  <2>5. Part(path, synced, i + 1) = << s >>
    <3>1. path[i + 1 + 1] = i + 1
      BY <1>1
    <3>2. Part(path, synced, i + 1)
            = Inner(Stmt(cfg, i + 1, path[i + 1 + 2]), i + 1, synced)
      BY <3>1 DEF Part
    <3> QED
      BY <2>3, <3>2, AssignmentPart
  <2>6. /\ Upto(first, path, synced, i) \in Seq(Executed(cfg))
        /\ Upto(first, path, synced, i + 1) = Upto(first, path, synced, i) \o << s >>
    <3>1. i \in 0 .. Len(path) - 2 /\ i # Len(path) - 2
      BY <1>1, <1>2
    <3> QED
      BY <1>2, <1>5, <2>5, <3>1, UptoParts
  <2>7. sym(i + 1) = Execute(sym(i), s)
    <3> HIDE DEF s
    <3>1. s \in Executed(cfg)
      BY <2>4 DEF Executed
    <3> QED
      BY <2>6, <3>1, ExecuteOne
  <2>8. PICK before : before = sym(i)
    OBVIOUS
  <2>9. PICK after : after = sym(i + 1)
    OBVIOUS
  <2>10. /\ Over(before, A) /\ DOMAIN before.sig = {} /\ before.conditions = {}
         /\ \A n \in 1 .. i : before.map[cfg.stmt[n].var] \in G
    BY <2>1, <2>8
  <2>11. /\ Over(after, A) /\ s.var \in Vars /\ after.sig = before.sig
         /\ after.conditions = before.conditions /\ after.map[s.var] \in G
         /\ \A x \in Vars : after.map[x] = before.map[x] \/ after.map[x] \in G
    <3> HIDE DEF s
    <3>1. after = Execute(before, s)
      BY <2>7, <2>8, <2>9
    <3>2. G \subseteq A
      OBVIOUS
    <3> HIDE DEF A
    <3> QED
      BY <2>4, <2>10, <3>1, <3>2, AssignRuns
  <2>12. ASSUME NEW n \in 1 .. i + 1 PROVE after.map[cfg.stmt[n].var] \in G
    <3>1. CASE n = i + 1
      BY <2>11, <3>1
    <3>2. CASE n # i + 1
      <4>1. n \in 1 .. i /\ n \in 0 .. k /\ n \in 1 .. k
        BY <2>2, <3>2
      <4>2. n \in Node(cfg) /\ Op(cfg, n) = "assign"
        BY <4>1 DEF Section
      <4>3. cfg.stmt[n].var \in Vars
        BY <4>2, NodeFacts DEF Op, StatementsOf
      <4> QED
        BY <2>10, <2>11, <4>1, <4>3
    <3> QED
      BY <3>1, <3>2
  <2> HIDE DEF A, G, s, sym
  <2> QED
    BY <2>9, <2>10, <2>11, <2>12
<1>8. P(k)
  <2> HIDE DEF P, T
  <2>1. \A i \in Nat : i \in T
    BY <1>6, <1>7, NatSetInduction
  <2> QED
    BY <2>1 DEF T
<1>9. PICK r : r = sym(k)
  OBVIOUS
<1>10. /\ Over(r, A) /\ DOMAIN r.sig = {} /\ r.conditions = {}
       /\ \A n \in 1 .. k : r.map[cfg.stmt[n].var] \in G
  BY <1>8, <1>9
<1>11. ASSUME NEW x \in Vars PROVE r.map[x] \in G
  BY <1>10 DEF Section
<1>12. Over(r, G)
  BY <1>10, <1>11 DEF Over
<1> QED
  BY <1>3, <1>9, <1>12

-----------------------------------------------------------------------------
(* An operation refers to nothing that is unset where it starts.            *)
LEMMA PathIs ==
  ASSUME IInv, OrderInv, stage # "find", CreateInv, NEW i \in DOMAIN operations
  PROVE  /\ cfg \in Programs /\ operations[i] \in Seq(Node(cfg)) /\ Len(operations[i]) > 1
         /\ IsOperation(operations[i]) /\ Follows(operations[i])
         /\ operations[i][1] \in Node(cfg) /\ IsImportant(operations[i][1])
<1>1. phase = "done" /\ cfg \in Programs
  BY DEF CreateInv, IInv
<1>2. /\ operations[i] \in Seq(Node(cfg)) /\ IsOperation(operations[i]) /\ Follows(operations[i])
      /\ IsImportant(operations[i][1])
  BY <1>1 DEF IInv, TypeOK, KeptInv, PhaseInv, OrderInv
<1>3. Len(operations[i]) > 1
  BY <1>2 DEF IsOperation
<1>4. operations[i][1] \in Node(cfg)
  <2>1. PICK path : path = operations[i]
    OBVIOUS
  <2>2. path \in Seq(Node(cfg)) /\ Len(path) > 1
    BY <1>2, <1>3, <2>1
  <2>3. path[1] \in Node(cfg)
    BY <2>2
  <2> QED
    BY <2>1, <2>3
<1> QED
  BY <1>1, <1>2, <1>3, <1>4

LEMMA GoesWithin ==
  ASSUME IInv, OrderInv, stage # "find", CreateInv, NEW i \in DOMAIN operations,
         NEW o, NEW synced, NEW first, Goes(o, operations[i], synced, first)
  PROVE  LET A == Given(cfg) \cup Unknown(Vars)
             upto(j) == Upto(first, operations[i], synced, j)
         IN  /\ first \in Seq(Executed(cfg)) /\ Starts(o.start, first) /\ o.start = operations[i][1]
             /\ Over(execute(o.stmts), A)
             /\ upto(0) = first
             /\ \A j \in 0 .. Len(operations[i]) - 2 :
                  /\ upto(j) \in Seq(Executed(cfg)) /\ Over(execute(upto(j)), A)
                  /\ execute(upto(j)).conditions \subseteq execute(o.stmts).conditions
<1> DEFINE A == Given(cfg) \cup Unknown(Vars)
<1>1. PICK path : path = operations[i]
  OBVIOUS
<1>2. /\ cfg \in Programs /\ path \in Seq(Node(cfg)) /\ Len(path) > 1 /\ path[1] \in Node(cfg)
  BY <1>1, PathIs
<1>3. Goes(o, path, synced, first) /\ o.start = path[1] /\ Starts(path[1], first)
  BY <1>1 DEF Goes
<1>4. first \in Seq(Executed(cfg))
  BY <1>2, <1>3, FirstType
<1>5. Upto(first, path, synced, 0) = first
  BY <1>4, UptoStart
<1>6. Over(execute(first), A)
  BY <1>4, ExecuteFrom
<1>7. 0 \in 0 .. Len(path) - 2
  BY <1>2
<1>8. Given(cfg) \subseteq A /\ Over(execute(Upto(first, path, synced, 0)), A)
  BY <1>5, <1>6
<1> HIDE DEF A
<1>9. /\ Over(execute(o.stmts), A)
      /\ \A j \in 0 .. Len(path) - 2 :
           /\ Over(execute(Upto(first, path, synced, j)), A)
           /\ execute(Upto(first, path, synced, j)).conditions \subseteq execute(o.stmts).conditions
  BY <1>2, <1>3, <1>7, <1>8, GoesClean
<1>10. \A j \in 0 .. Len(path) - 2 : Upto(first, path, synced, j) \in Seq(Executed(cfg))
  BY <1>2, <1>4, UptoParts
<1> QED
  BY <1>1, <1>3, <1>4, <1>5, <1>9, <1>10 DEF A

LEMMA MadeClean ==
  ASSUME IInv, StatesInv, OrderInv, stage # "find", CreateInv, NEW o, Made(o)
  PROVE  Over(execute(o.stmts), Clean(o.start))
<1>1. PICK i \in DOMAIN operations : \/ \E synced : \E first : Goes(o, operations[i], synced, first)
                                     \/ Stands(o, operations[i])
  BY DEF Made
<1>2. PICK path : path = operations[i]
  OBVIOUS
<1>3. /\ cfg \in Programs /\ path \in Seq(Node(cfg)) /\ Len(path) > 1 /\ path[1] \in Node(cfg)
      /\ IsOperation(path) /\ Follows(path)
  BY <1>2, PathIs
<1>4. Op(cfg, 0) = "reset"
  BY <1>3, ProgramsAssumption DEF ProgramsAreGraphs
<1>5. CASE Stands(o, path)
  <2>1. o.start = path[1] /\ Waits(o.start) /\ o.stmts = WaitStatements(o.start)
    BY <1>5 DEF Stands
  <2>2. o.start \in Node(cfg)
    BY <1>3, <2>1
  <2>3. Over(execute(o.stmts), Given(cfg) \cup Unknown(Vars))
    BY <1>3, <2>1, <2>2, WaitLeaves
  <2>4. Op(cfg, o.start) \notin {"reset", "try_write"}
    BY <2>1 DEF Waits, IsBlocking, IsComm, IsRead, IsWrite, IsNonBlockingAccess
  <2>5. Clean(o.start) = Given(cfg) \cup Unknown(Vars)
    <3>1. o.start # 0
      BY <1>4, <2>4
    <3>2. Unset(o.start) = {}
      BY <2>4, <3>1 DEF Unset, Flags
    <3>3. Vars \ Unset(o.start) = Vars
      BY <3>2
    <3> QED
      BY <3>3 DEF Clean
  <2> QED
    BY <2>3, <2>5
<1>6. ASSUME NEW synced, NEW first, Goes(o, path, synced, first)
      PROVE  Over(execute(o.stmts), Clean(o.start))
  <2>1. o.start = path[1] /\ Starts(path[1], first)
    BY <1>6 DEF Goes
  <2>2. CASE path[1] # 0
    <3>1. Clean(o.start) = Given(cfg) \cup Unknown(Vars \ Flags(path[1]))
      BY <2>1, <2>2 DEF Clean, Unset
    <3>2. Over(execute(first), Clean(o.start))
      BY <1>3, <2>1, <3>1, FirstClean
    <3>3. first \in Seq(Executed(cfg))
      BY <1>3, <2>1, FirstType
    <3>4. Over(execute(Upto(first, path, synced, 0)), Clean(o.start))
      BY <3>2, <3>3, UptoStart
    <3>5. 0 \in 0 .. Len(path) - 2 /\ Given(cfg) \subseteq Clean(o.start)
      BY <1>3 DEF Clean
    <3> QED
      BY <1>3, <1>6, <3>4, <3>5, GoesClean
  <2>3. CASE path[1] = 0
    <3>1. PICK k \in Nat : Section(k)
      BY <1>3, SectionIs
    <3>2. /\ k \in 0 .. Len(path) - 2
          /\ Over(execute(Upto(first, path, synced, k)), Given(cfg))
      BY <1>3, <2>1, <2>3, <3>1, SectionClean
    <3>3. Over(execute(o.stmts), Given(cfg))
      BY <1>3, <1>6, <3>2, GoesClean
    <3>4. Clean(o.start) = Given(cfg)
      BY <2>1, <2>3 DEF Clean, Unset, Unknown
    <3> QED
      BY <3>3, <3>4
  <2> QED
    BY <2>2, <2>3
<1> QED
  BY <1>1, <1>2, <1>5, <1>6

-----------------------------------------------------------------------------
(* What the circuit knows: its registers hold what the variables that are   *)
(* kept held at the state it is in.                                         *)
Known(n) == Given(cfg) \cup Unknown(varMap \ Unset(n))

Agrees(v, n) == \A x \in varMap \ Unset(n) : x \in DOMAIN reg /\ reg[x] = v[x]

LEMMA ValueIs ==
  ASSUME NEW n, NEW v, Agrees(v, n), NEW e \in Known(n)
  PROVE  Value(e) = Eval(e, v)
<1>1. CASE e \in Given(cfg)
  <2>1. e[1] \in {"value", "sync", "data"}
    BY <1>1 DEF Given
  <2> QED
    BY <2>1 DEF Value, Eval
<1>2. CASE e \in Unknown(varMap \ Unset(n))
  <2>1. e[1] = "variable" /\ e[2] \in varMap \ Unset(n)
    BY <1>2 DEF Unknown
  <2>2. reg[e[2]] = v[e[2]]
    BY <2>1 DEF Agrees
  <2>3. Value(e) = reg[e[2]] /\ Eval(e, v) = v[e[2]]
    BY <2>1 DEF Value, Eval
  <2> QED
    BY <2>2, <2>3
<1> QED
  BY <1>1, <1>2 DEF Known

(* A kept operation refers to what the circuit knows, and no other.         *)
LEMMA KeptKnows ==
  ASSUME IInv, MadeInv, SuiteInv, stage = "suite", NEW k \in operationsList
  PROVE  LET o == operation[k]
             sym == execute(o.stmts)
         IN  /\ k \in DOMAIN operation /\ Made(o) /\ varMap \subseteq Vars
             /\ o.assumptions = sym.conditions
             /\ \A c \in o.assumptions : c[1] \in Known(o.start)
             /\ o.signals = Signals(o)
             /\ \A p \in DOMAIN o.signals : o.signals[p] \in Known(o.start)
             /\ DOMAIN o.commitments = varMap
             /\ \A x \in varMap : /\ o.commitments[x] = sym.map[x]
                                  /\ o.commitments[x] \in Known(o.start)
<1>0. /\ IInv /\ StatesInv /\ OrderInv /\ CreateInv /\ OpsInv /\ SaidInv
  BY DEF MadeInv
<1>1. k \in DOMAIN operation
  BY <1>0 DEF CreateInv, Lists
<1>2. PICK o : o = operation[k]
  OBVIOUS
<1>3. /\ Made(o) /\ Said(o) /\ varMap \subseteq Vars /\ UsedIn(o) \subseteq varMap
      /\ DOMAIN o.commitments = varMap
  BY <1>0, <1>1, <1>2 DEF OpsInv, SaidInv, Reconstructed, SuiteInv
<1>4. PICK sym : sym = execute(o.stmts)
  OBVIOUS
<1>5. o.assumptions = sym.conditions /\ o.signals = Signals(o)
      /\ o.commitments = [x \in DOMAIN o.commitments |-> sym.map[x]]
  BY <1>3, <1>4 DEF Said
<1>6. \A x \in varMap : o.commitments[x] = sym.map[x]
  BY <1>3, <1>5
<1>7. Over(sym, Clean(o.start))
  BY <1>0, <1>3, <1>4, MadeClean
<1>8. ASSUME NEW e \in Clean(o.start), \A x \in Vars : e = << "variable", x >> => x \in varMap
      PROVE  e \in Known(o.start)
  BY <1>8 DEF Clean, Known, Unknown
<1>9. ASSUME NEW c \in o.assumptions PROVE c[1] \in Known(o.start)
  <2>1. c[1] \in Clean(o.start)
    BY <1>5, <1>7 DEF Over
  <2>2. \A x \in Vars : c[1] = << "variable", x >> => x \in UsedIn(o)
    BY DEF UsedIn
  <2> QED
    BY <1>3, <1>8, <2>1, <2>2
<1>10. ASSUME NEW x \in varMap PROVE o.commitments[x] \in Known(o.start)
  <2>1. o.commitments[x] \in Clean(o.start)
    BY <1>3, <1>6, <1>7 DEF Over
  <2>2. \A y \in Vars : y # x /\ o.commitments[x] = << "variable", y >> => y \in UsedIn(o)
    BY <1>3 DEF UsedIn
  <2>3. \A y \in Vars : o.commitments[x] = << "variable", y >> => y \in varMap
    BY <1>3, <2>2
  <2> QED
    BY <1>8, <2>1, <2>3
<1>11. ASSUME NEW p \in DOMAIN o.signals PROVE o.signals[p] \in Known(o.start)
  <2>1. CASE o.wait
    <3>1. PICK i \in DOMAIN operations : Stands(o, operations[i])
      BY <1>3, <2>1 DEF Made, Goes
    <3>2. /\ o.start = operations[i][1] /\ Waits(o.start) /\ o.stmts = WaitStatements(o.start)
      BY <3>1 DEF Stands
    <3>3. cfg \in Programs /\ o.start \in Node(cfg)
      BY <1>0, <3>2, PathIs
    <3>4. o.signals = [q \in DOMAIN sym.sig |-> << "data", q >>]
      BY <1>4, <1>5, <2>1 DEF Signals
    <3>5. DOMAIN sym.sig \subseteq {Port(cfg, o.start)}
      BY <1>4, <3>2, <3>3, WaitLeaves
    <3>6. Port(cfg, o.start) \in DOMAIN cfg.ports
      BY <3>2, <3>3, CommPort DEF Waits, IsBlocking
    <3>7. o.signals[p] = << "data", p >> /\ p \in DOMAIN cfg.ports
      BY <3>4, <3>5, <3>6
    <3> QED
      BY <3>7 DEF Known, Given
  <2>2. CASE ~ o.wait
    <3>1. o.signals = sym.sig
      BY <1>4, <1>5, <2>2 DEF Signals
    <3>2. o.signals[p] \in Clean(o.start)
      BY <1>7, <3>1 DEF Over
    <3>3. \A x \in Vars : o.signals[p] = << "variable", x >> => x \in UsedIn(o)
      BY DEF UsedIn
    <3> QED
      BY <1>3, <1>8, <3>2, <3>3
  <2> QED
    BY <2>1, <2>2
<1> QED
  BY <1>1, <1>2, <1>3, <1>4, <1>5, <1>6, <1>9, <1>10, <1>11

-----------------------------------------------------------------------------
(* The walk of the program from one state to the next.  Where the program   *)
(* is on the path of an operation, the statements up to there say what its  *)
(* variables hold and what it has written.                                  *)
Passes(o, v, n, now, out) ==
  \E i \in DOMAIN operations : \E synced : \E first : \E j \in 0 .. Len(operations[i]) - 2 :
    /\ Goes(o, operations[i], synced, first)
    /\ n = operations[i][j + 2]
    /\ Says(execute(Upto(first, operations[i], synced, j)), v, now, out)

AllMade == IInv /\ MadeInv /\ SuiteInv /\ stage = "suite"

LEMMA AppliesIs ==
  ASSUME AllMade, state \in States, NEW v, Agrees(v, state), NEW k \in Applies
  PROVE  /\ k \in operationsList /\ operation[k].start = state /\ Made(operation[k])
         /\ Meets(execute(operation[k].stmts).conditions, v)
<1>1. outgoing = [n \in States |-> {l \in operationsList : operation[l].start = n}]
  BY DEF AllMade, MadeInv, CreateInv, Lists
<1>2. k \in operationsList /\ operation[k].start = state /\ Assumes(operation[k])
  BY <1>1 DEF Applies
<1>3. PICK o : o = operation[k]
  OBVIOUS
<1>4. PICK sym : sym = execute(o.stmts)
  OBVIOUS
<1>5. /\ Made(o) /\ o.assumptions = sym.conditions
      /\ \A c \in o.assumptions : c[1] \in Known(state)
  BY <1>2, <1>3, <1>4, KeptKnows DEF AllMade
<1>6. Assumes(o)
  BY <1>2, <1>3
<1>7. ASSUME NEW c \in sym.conditions PROVE (Eval(c[1], v) = c[2]) <=> c[3]
  <2>1. Value(c[1]) = Eval(c[1], v)
    BY <1>5, ValueIs
  <2>2. (Value(c[1]) = c[2]) <=> c[3]
    BY <1>5, <1>6 DEF Assumes
  <2> QED
    BY <2>1, <2>2
<1>8. Meets(sym.conditions, v)
  BY <1>7 DEF Meets
<1> QED
  BY <1>2, <1>3, <1>4, <1>5, <1>8

LEMMA MeetsFewer ==
  ASSUME NEW C, NEW v, Meets(C, v), NEW D, D \subseteq C
  PROVE  Meets(D, v)
BY DEF Meets

LEMMA LeavesState ==
  ASSUME AllMade, loc \in Node(cfg), IsImportant(loc), state = loc, ~ Blocked,
         synch \in [SyncPorts -> {0, 1}], val = [x \in Vars |-> val[x]],
         Agrees(val, state), NEW k \in Applies
  PROVE  Passes(operation[k], val, NextNode, Computed, Written)
<1>1. /\ IInv /\ StatesInv /\ OrderInv /\ CreateInv /\ OpsInv /\ stage # "find"
  BY DEF AllMade, MadeInv
<1>2. PICK o : o = operation[k]
  OBVIOUS
<1>3. o.start = loc /\ Made(o) /\ Meets(execute(o.stmts).conditions, val)
  BY <1>2, AppliesIs DEF States, IsImportant
<1>4. PICK i \in DOMAIN operations : \/ \E synced : \E first : Goes(o, operations[i], synced, first)
                                     \/ Stands(o, operations[i])
  BY <1>3 DEF Made
<1>5. PICK path : path = operations[i]
  OBVIOUS
<1>6. /\ cfg \in Programs /\ path \in Seq(Node(cfg)) /\ Len(path) > 1 /\ Follows(path)
  BY <1>1, <1>5, PathIs
<1>7. StateNode(loc)
  BY <1>1 DEF StatesInv, IsImportant
<1>8. ~ Stands(o, path)
  <2> SUFFICES ASSUME Stands(o, path) PROVE FALSE
    OBVIOUS
  <2>1. Waits(loc) /\ o.stmts = WaitStatements(loc)
    BY <1>3 DEF Stands
  <2>2. ~ Nobody(Port(cfg, loc))
    BY <2>1 DEF Waits, Blocked
  <2>3. ~ Meets(execute(WaitStatements(loc)).conditions, val)
    BY <1>6, <2>1, <2>2, BlockedWaits
  <2> QED
    BY <1>3, <2>1, <2>3
<1>9. PICK synced, first : Goes(o, path, synced, first)
  BY <1>4, <1>5, <1>8
<1>10. /\ path[1] = loc /\ Starts(loc, first)
       /\ Upto(first, path, synced, 0) = first
       /\ execute(Upto(first, path, synced, 0)).conditions \subseteq execute(o.stmts).conditions
  <2>1. 0 \in 0 .. Len(path) - 2
    BY <1>6
  <2> QED
    BY <1>1, <1>3, <1>5, <1>9, <2>1, GoesWithin
<1>11. path[2] \in Range(Succ(cfg, loc))
  <2>1. 1 \in 1 .. Len(path) - 1 /\ 1 + 1 = 2
    BY <1>6
  <2> QED
    BY <1>6, <1>10, <2>1 DEF Follows
<1>12. Meets(execute(first).conditions, val)
  BY <1>3, <1>10, MeetsFewer
<1> DEFINE A == Given(cfg) \cup Unknown(Vars)
<1>13. StateHolds(A, first, path[2])
  BY <1>6, <1>7, <1>10, <1>11, <1>12 DEF StateHolds
<1> HIDE DEF A
<1>14. NextNode = path[2] /\ Says(execute(first), val, Computed, Written)
  BY <1>13, FirstRuns DEF Leaves
<1>15. /\ 0 \in 0 .. Len(operations[i]) - 2 /\ NextNode = operations[i][0 + 2]
       /\ Says(execute(Upto(first, operations[i], synced, 0)), val, Computed, Written)
  BY <1>5, <1>6, <1>10, <1>14
<1> QED
  BY <1>2, <1>5, <1>9, <1>15 DEF Passes

LEMMA GoesOn ==
  ASSUME AllMade, loc \in Node(cfg), ~ IsImportant(loc), state \in States,
         synch \in [SyncPorts -> {0, 1}], NEW v, Agrees(v, state), NEW k \in Applies,
         Passes(operation[k], v, loc, val, written)
  PROVE  Passes(operation[k], v, NextNode, Computed, Written)
<1>1. /\ IInv /\ StatesInv /\ OrderInv /\ CreateInv /\ OpsInv /\ stage # "find"
  BY DEF AllMade, MadeInv
<1>2. PICK o : o = operation[k]
  OBVIOUS
<1>3. Meets(execute(o.stmts).conditions, v)
  BY <1>2, AppliesIs
<1>4. PICK i \in DOMAIN operations : \E synced : \E first : \E j \in 0 .. Len(operations[i]) - 2 :
        /\ Goes(o, operations[i], synced, first)
        /\ loc = operations[i][j + 2]
        /\ Says(execute(Upto(first, operations[i], synced, j)), v, val, written)
  BY <1>2 DEF Passes
<1>5. PICK path : path = operations[i]
  OBVIOUS
<1>6. PICK synced, first : \E j \in 0 .. Len(path) - 2 :
        /\ Goes(o, path, synced, first)
        /\ loc = path[j + 2]
        /\ Says(execute(Upto(first, path, synced, j)), v, val, written)
  BY <1>4, <1>5
<1>7. PICK j \in 0 .. Len(path) - 2 :
        /\ Goes(o, path, synced, first)
        /\ loc = path[j + 2]
        /\ Says(execute(Upto(first, path, synced, j)), v, val, written)
  BY <1>6
<1>8. /\ cfg \in Programs /\ path \in Seq(Node(cfg)) /\ Len(path) > 1 /\ Follows(path)
      /\ IsOperation(path)
  BY <1>1, <1>5, PathIs
<1>9. PICK size \in Nat : size = Len(path) - 2
  BY <1>8
<1>10. /\ j # size /\ j + 1 \in 0 .. size /\ j + 2 \in 1 .. Len(path) - 1 /\ j \in 0 .. size
  <2>1. Len(path) \in Nat /\ path # << >> /\ j \in Nat /\ j <= size
    BY <1>8, <1>9
  <2>2. Last(path) = path[Len(path)]
    BY DEF Last
  <2>3. j + 2 # Len(path)
    BY <1>7, <1>8, <2>2 DEF IsOperation
  <2> QED
    BY <1>9, <2>1, <2>3
<1>11. path[j + 2 + 1] \in Range(Succ(cfg, loc))
  <2>1. \A l \in 1 .. Len(path) - 1 : path[l + 1] \in Range(Succ(cfg, path[l]))
    BY <1>8 DEF Follows
  <2> QED
    BY <1>7, <1>10, <2>1
<1> DEFINE A == Given(cfg) \cup Unknown(Vars)
           m == path[j + 2 + 1]
           pre == Upto(first, path, synced, j)
           part == Inner(Stmt(cfg, loc, m), loc, synced)
<1>12. /\ pre \in Seq(Executed(cfg)) /\ Over(execute(pre), A)
       /\ execute(Upto(first, path, synced, j + 1)).conditions \subseteq execute(o.stmts).conditions
       /\ first \in Seq(Executed(cfg))
  BY <1>1, <1>5, <1>7, <1>9, <1>10, GoesWithin
<1>13. Upto(first, path, synced, j + 1) = pre \o part
  <2>1. Upto(first, path, synced, j + 1) = pre \o Part(path, synced, j + 1)
    BY <1>8, <1>9, <1>10, <1>12, UptoParts
  <2>2. Part(path, synced, j + 1) = Inner(Stmt(cfg, path[j + 1 + 1], path[j + 1 + 2]), path[j + 1 + 1], synced)
    BY DEF Part
  <2>3. j + 1 + 1 = j + 2 /\ j + 1 + 2 = j + 2 + 1
    BY <1>10
  <2>4. Part(path, synced, j + 1) = part
    BY <1>7, <2>2, <2>3
  <2> QED
    BY <2>1, <2>4
<1>14. Meets(execute(pre \o part).conditions, v)
  BY <1>3, <1>12, <1>13, MeetsFewer
<1>15. ~ IsBlocking(cfg, loc)
  BY <1>1 DEF StatesInv, CreateInv
<1>16. InnerHolds(A, pre, m, synced, v)
  <2>1. Given(cfg) \subseteq A
    OBVIOUS
  <2> HIDE DEF A, pre
  <2> QED
    BY <1>7, <1>8, <1>11, <1>12, <1>14, <1>15, <2>1 DEF InnerHolds, pre
<1> HIDE DEF A
<1>17. NextNode = m /\ Says(execute(pre \o part), v, Computed, Written)
  <2> HIDE DEF pre, m
  <2> QED
    BY <1>16, NodeRuns DEF Arrives
<1>18. j + 1 \in 0 .. Len(path) - 2 /\ NextNode = path[j + 1 + 2]
  BY <1>9, <1>10, <1>17
<1>19. Says(execute(Upto(first, path, synced, j + 1)), v, Computed, Written)
  BY <1>13, <1>17
<1> QED
  BY <1>2, <1>5, <1>7, <1>18, <1>19 DEF Passes

(* Where it ends, the operation says what the program holds and offers.     *)
OffersAt(n, now, out) ==
  IF IsWrite(cfg, n) THEN Put(out, Port(cfg, n), now[cfg.stmt[n].var]) ELSE out

LEMMA LastSays ==
  ASSUME cfg \in Programs, NEW A, NEW pre \in Seq(Executed(cfg)), Over(execute(pre), A),
         NEW v, NEW now, NEW out, Says(execute(pre), v, now, out), NEW n \in Node(cfg)
  PROVE  \E last : /\ Says(execute(pre \o LastNode(n)), v, last, OffersAt(n, now, out))
                   /\ \A x \in Vars \ Flags(n) : last[x] = now[x]
<1> DEFINE s == cfg.stmt[n]
           offers == OffersAt(n, now, out)
<1>1. CASE ~ IsWrite(cfg, n)
  <2>1. pre \o LastNode(n) = pre
    BY <1>1, ConcatEmptySeq DEF LastNode
  <2>2. offers = out
    BY <1>1 DEF OffersAt
  <2> QED
    BY <2>1, <2>2
<1>2. CASE IsWrite(cfg, n)
  <2>1. /\ s \in StatementsOf(cfg) /\ s.op \in {"write", "try_write"} /\ s.op = Op(cfg, n)
    BY <1>2, NodeFacts DEF IsWrite, Op
  <2>2. s.var \in Vars /\ (s.op = "try_write" => s.flag \in Vars)
    BY <2>1 DEF StatementsOf
  <2>3. s \in Executed(cfg) /\ LastNode(n) = << s >> /\ Port(cfg, n) = s.port
    BY <1>2, <2>1 DEF Executed, LastNode, Port
  <2>4. offers = Put(out, s.port, now[s.var])
    BY <1>2, <2>3 DEF OffersAt
  <2>5. PICK sym : sym = execute(pre)
    OBVIOUS
  <2> DEFINE wrote == [sym EXCEPT !.sig = Put(sym.sig, s.port, sym.map[s.var])]
  <2>6. execute(pre \o LastNode(n)) = Execute(sym, s)
    <3> HIDE DEF s
    <3> QED
      BY <2>3, <2>5, ExecuteOne
  <2>7. Over(sym, A) /\ Says(sym, v, now, out)
    BY <2>5
  <2>8. Says(wrote, v, now, offers)
    <3> HIDE DEF s
    <3> QED
      BY <2>2, <2>4, <2>7, SaysWritten
  <2>9. CASE s.op = "write"
    <3>1. Execute(sym, s) = wrote
      BY <2>9 DEF Execute
    <3> HIDE DEF wrote, offers
    <3> QED
      BY <2>6, <2>8, <3>1 DEF offers
  <2>10. CASE s.op = "try_write"
    <3>1. Execute(sym, s) = [wrote EXCEPT !.map[s.flag] = << "sync", s.port >>]
      BY <2>10 DEF Execute
    <3>2. PICK e : e = << "sync", s.port >>
      OBVIOUS
    <3> DEFINE last == [now EXCEPT ![s.flag] = Eval(e, v)]
    <3>3. /\ Symbolic(wrote) /\ wrote.map \in [Vars -> Range(wrote.map)]
      <4>1. Symbolic(sym) /\ sym.map \in [Vars -> A]
        BY <2>7 DEF Over
      <4>2. wrote.map = sym.map /\ Symbolic(wrote)
        BY <4>1 DEF Symbolic
      <4> HIDE DEF wrote
      <4> QED
        BY <4>1, <4>2 DEF Range
    <3> DEFINE B == {wrote.map[x] : x \in Vars} \cup {wrote.sig[p] : p \in DOMAIN wrote.sig}
                      \cup {c[1] : c \in wrote.conditions}
    <3>4. Over(wrote, B)
      <4> HIDE DEF wrote
      <4> QED
        BY <3>3 DEF Over, Symbolic
    <3> HIDE DEF B, wrote, s, offers
    <3>5. Says([wrote EXCEPT !.map[s.flag] = e], v, last, offers)
      BY <2>2, <2>8, <2>10, <3>4, SaysChanged
    <3>6. \A x \in Vars \ Flags(n) : last[x] = now[x]
      <4>1. Flags(n) = {s.flag}
        BY <2>1, <2>10 DEF Flags, s
      <4>2. now = [x \in Vars |-> now[x]]
        BY <2>7 DEF Says
      <4> QED
        BY <4>1, <4>2
    <3>7. Says(execute(pre \o LastNode(n)), v, last, offers)
      BY <2>6, <3>1, <3>2, <3>5, Zenon
    <3> QED
      BY <3>6, <3>7 DEF offers
  <2> QED
    BY <2>1, <2>9, <2>10
<1> QED
  BY <1>1, <1>2

LEMMA ArrivesAt ==
  ASSUME AllMade, state \in States, NEW v, Agrees(v, state), NEW k \in Applies,
         NEW n, NEW now, NEW out, Passes(operation[k], v, n, now, out), IsImportant(n)
  PROVE  LET o == operation[k]
             offers == OffersAt(n, now, out)
         IN  /\ n \in Node(cfg) /\ o.end = n /\ ~ o.wait
             /\ DOMAIN o.commitments = varMap
             /\ \A x \in varMap \ Flags(n) : Value(o.commitments[x]) = now[x]
             /\ DOMAIN o.signals = DOMAIN offers
             /\ \A p \in DOMAIN offers : p \in DOMAIN o.signals /\ Value(o.signals[p]) = offers[p]
<1>1. /\ IInv /\ StatesInv /\ OrderInv /\ CreateInv /\ OpsInv /\ stage # "find"
      /\ MadeInv /\ SuiteInv /\ stage = "suite"
  BY DEF AllMade, MadeInv
<1>2. PICK o : o = operation[k]
  OBVIOUS
<1>3. k \in operationsList /\ o.start = state
  BY <1>2, AppliesIs
<1>4. PICK i \in DOMAIN operations : \E synced : \E first : \E j \in 0 .. Len(operations[i]) - 2 :
        /\ Goes(o, operations[i], synced, first)
        /\ n = operations[i][j + 2]
        /\ Says(execute(Upto(first, operations[i], synced, j)), v, now, out)
  BY <1>2 DEF Passes
<1>5. PICK path : path = operations[i]
  OBVIOUS
<1>6. PICK synced, first : \E j \in 0 .. Len(path) - 2 :
        /\ Goes(o, path, synced, first)
        /\ n = path[j + 2]
        /\ Says(execute(Upto(first, path, synced, j)), v, now, out)
  BY <1>4, <1>5
<1>7. PICK j \in 0 .. Len(path) - 2 :
        /\ Goes(o, path, synced, first)
        /\ n = path[j + 2]
        /\ Says(execute(Upto(first, path, synced, j)), v, now, out)
  BY <1>6
<1>8. /\ cfg \in Programs /\ path \in Seq(Node(cfg)) /\ Len(path) > 1 /\ IsOperation(path)
  BY <1>1, <1>5, PathIs
<1>9. j = Len(path) - 2 /\ n = Last(path)
  <2>1. Len(path) \in Nat /\ j \in Nat /\ j <= Len(path) - 2
    BY <1>8
  <2>2. ~ (j + 2 \in 2 .. Len(path) - 1)
    BY <1>7, <1>8 DEF IsOperation
  <2>3. j = Len(path) - 2
    BY <2>1, <2>2
  <2> QED
    BY <1>7, <2>1, <2>3 DEF Last
<1>10. PICK pre : pre = Upto(first, path, synced, j)
  OBVIOUS
<1>11. /\ o.stmts = pre \o LastNode(n) /\ pre \in Seq(Executed(cfg)) /\ n \in Node(cfg)
  BY <1>7, <1>8, <1>9, <1>10, StmtsAre
<1>12. PICK A : A = Given(cfg) \cup Unknown(Vars)
  OBVIOUS
<1>13. Over(execute(pre), A)
  BY <1>1, <1>5, <1>7, <1>10, <1>12, GoesWithin
<1>14. Says(execute(pre), v, now, out)
  BY <1>7, <1>10
<1> DEFINE offers == OffersAt(n, now, out)
<1>15. PICK last : /\ Says(execute(pre \o LastNode(n)), v, last, offers)
                   /\ \A x \in Vars \ Flags(n) : last[x] = now[x]
  BY <1>8, <1>11, <1>13, <1>14, LastSays
<1>16. PICK sym : sym = execute(o.stmts)
  OBVIOUS
<1> HIDE DEF offers
<1>17. Says(sym, v, last, offers)
  BY <1>11, <1>15, <1>16
<1>18. ~ o.wait /\ o.end = n
  BY <1>7, <1>9 DEF Goes
<1>19. /\ varMap \subseteq Vars /\ o.signals = Signals(o)
       /\ \A p \in DOMAIN o.signals : o.signals[p] \in Known(state)
       /\ DOMAIN o.commitments = varMap
       /\ \A x \in varMap : o.commitments[x] = sym.map[x] /\ o.commitments[x] \in Known(state)
  BY <1>1, <1>2, <1>3, <1>16, KeptKnows
<1>20. o.signals = sym.sig
  BY <1>16, <1>18, <1>19 DEF Signals
<1>21. ASSUME NEW x \in varMap \ Flags(n) PROVE Value(o.commitments[x]) = now[x]
  <2>1. Value(o.commitments[x]) = Eval(sym.map[x], v)
    BY <1>19, ValueIs
  <2>2. last[x] = Eval(sym.map[x], v)
    BY <1>17, <1>19 DEF Says
  <2> QED
    BY <1>15, <1>19, <2>1, <2>2
<1>22. ASSUME NEW p \in DOMAIN offers
       PROVE  p \in DOMAIN o.signals /\ Value(o.signals[p]) = offers[p]
  <2>1. p \in DOMAIN o.signals /\ offers[p] = Eval(o.signals[p], v)
    BY <1>17, <1>20 DEF Says
  <2>2. Value(o.signals[p]) = Eval(o.signals[p], v)
    BY <1>19, <2>1, ValueIs
  <2> QED
    BY <2>1, <2>2
<1>23. DOMAIN o.signals = DOMAIN offers
  BY <1>17, <1>20 DEF Says
<1> QED
  BY <1>2, <1>11, <1>18, <1>19, <1>21, <1>22, <1>23 DEF offers

-----------------------------------------------------------------------------
(* The inductive invariant of the run: at a state the circuit is where the  *)
(* program is; between two states the program is on the path of every       *)
(* operation the circuit can carry out next.                                *)
Offered(out) == \A p \in DOMAIN out : p \in DOMAIN sig /\ sig[p] = out[p]

StateReached ==
  /\ state = loc /\ Agrees(val, loc)
  /\ loc # 0 => Offered(OffersAt(loc, val, written))

Between == \E v : /\ Agrees(v, state)
                  /\ \A k \in Applies : Passes(operation[k], v, loc, val, written)

WalkInv ==
  /\ val = [x \in Vars |-> val[x]]
  /\ ~ Running => loc = 0 /\ state = 0
  /\ Running => /\ synch \in [SyncPorts -> {0, 1}]
                /\ state \in States /\ loc \in Node(cfg)
                /\ IF IsImportant(loc) THEN StateReached ELSE Between

LEMMA ComputedType ==
  ASSUME val = [x \in Vars |-> val[x]], NEW now, now = Computed
  PROVE  now = [x \in Vars |-> now[x]]
<1> DEFINE s == cfg.stmt[loc]
<1>1. ASSUME NEW x, NEW e PROVE LET f == [val EXCEPT ![x] = e] IN f = [y \in Vars |-> f[y]]
  OBVIOUS
<1>2. CASE s.op = "assign"
  BY <1>2 DEF Computed
<1>3. CASE s.op = "copy"
  BY <1>3 DEF Computed
<1>4. CASE s.op = "peek"
  BY <1>4 DEF Computed
<1>5. CASE s.op = "read"
  BY <1>5 DEF Computed
<1>6. CASE s.op = "try_read"
  <2>1. now = [val EXCEPT ![s.var] = Received(s), ![s.flag] = synch[s.port]]
    BY <1>6 DEF Computed
  <2> QED
    BY <2>1
<1>7. CASE s.op = "try_write"
  BY <1>7 DEF Computed
<1>8. CASE s.op \notin {"assign", "copy", "peek", "read", "try_read", "try_write"}
  BY <1>8 DEF Computed
<1> QED
  BY <1>2, <1>3, <1>4, <1>5, <1>6, <1>7, <1>8

LEMMA NothingChanges ==
  ASSUME UNCHANGED << vars, createVars, portVars, circuitVars >>
  PROVE  /\ \A o, v, n, now, out : Passes(o, v, n, now, out)' <=> Passes(o, v, n, now, out)
         /\ \A v, n : Agrees(v, n)' <=> Agrees(v, n)
         /\ Applies' = Applies
         /\ UNCHANGED << cfg, operation, importantStates >>
<1>1. /\ UNCHANGED << cfg, operations, operation, importantStates, outgoing, varMap >>
      /\ UNCHANGED << state, reg, sig, synch, data >>
  BY DEF vars, foundVars, createVars, portVars, circuitVars
<1>2. \A sym, v, now, out : Says(sym, v, now, out)' <=> Says(sym, v, now, out)
  BY <1>1 DEF Says, Eval, isInput
<1>3. \A first, path, synced, j : Upto(first, path, synced, j)' = Upto(first, path, synced, j)
  BY <1>1 DEF Upto, Parts, Part, Inner, IsSlaveIn
<1>4. \A o, path, synced, first : Goes(o, path, synced, first)' <=> Goes(o, path, synced, first)
  BY <1>1, MadeStays
<1>5. \A o, v, n, now, out : Passes(o, v, n, now, out)' <=> Passes(o, v, n, now, out)
  BY <1>1, <1>2, <1>3, <1>4 DEF Passes
<1>6. \A v, n : Agrees(v, n)' <=> Agrees(v, n)
  BY <1>1 DEF Agrees, Unset, Flags
<1>7. Applies' = Applies
  BY <1>1 DEF Applies, Assumes, Value, isInput
<1> QED
  BY <1>1, <1>5, <1>6, <1>7

(* A step of the program.                                                   *)
LEMMA StepOnPath ==
  ASSUME AllMade, WalkInv, Running, ~ Blocked
  PROVE  \E v : /\ Agrees(v, state)
                /\ \A k \in Applies : Passes(operation[k], v, NextNode, Computed, Written)
<1>1. CASE IsImportant(loc)
  <2>1. /\ loc \in Node(cfg) /\ state = loc /\ synch \in [SyncPorts -> {0, 1}]
        /\ val = [x \in Vars |-> val[x]] /\ Agrees(val, state)
    BY <1>1 DEF WalkInv, StateReached
  <2>2. \A k \in Applies : Passes(operation[k], val, NextNode, Computed, Written)
    BY <1>1, <2>1, LeavesState
  <2> QED
    BY <2>1, <2>2
<1>2. CASE ~ IsImportant(loc)
  <2>1. /\ loc \in Node(cfg) /\ state \in States /\ synch \in [SyncPorts -> {0, 1}] /\ Between
    BY <1>2 DEF WalkInv
  <2>2. PICK v : /\ Agrees(v, state)
                 /\ \A k \in Applies : Passes(operation[k], v, loc, val, written)
    BY <2>1 DEF Between
  <2>3. \A k \in Applies : Passes(operation[k], v, NextNode, Computed, Written)
    BY <1>2, <2>1, <2>2, GoesOn
  <2> QED
    BY <2>2, <2>3
<1> QED
  BY <1>1, <1>2

LEMMA NextNodeIs ==
  ASSUME cfg \in Programs, loc \in Node(cfg)
  PROVE  NextNode \in Node(cfg)
<1>1. Succ(cfg, loc) \in Seq(Node(cfg)) /\ Len(Succ(cfg, loc)) \in {1, 2}
      /\ (IsBranch(cfg, loc) => Len(Succ(cfg, loc)) = 2)
  BY NodeFacts
<1>2. PICK s : s = Succ(cfg, loc)
  OBVIOUS
<1>3. s[1] \in Node(cfg) /\ (IsBranch(cfg, loc) => s[2] \in Node(cfg))
  BY <1>1, <1>2
<1> QED
  BY <1>2, <1>3 DEF NextNode

LEMMA StaysRunning ==
  ASSUME AllMade, WalkInv, Running, UNCHANGED << vars, createVars >>
  PROVE  /\ Running' /\ AllMade /\ States' = States /\ UNCHANGED << cfg, varMap, outgoing >>
         /\ \A n : IsImportant(n)' <=> IsImportant(n)
BY DEF vars, foundVars, createVars, Running, AllStatesSearched, States, IsImportant

LEMMA BetweenStates ==
  ASSUME AllMade, WalkInv, Run, ~ IsImportant(loc')
  PROVE  WalkInv'
<1>1. /\ Running /\ ~ Blocked /\ loc' = NextNode /\ val' = Computed /\ written' = Written
      /\ UNCHANGED << vars, createVars, portVars, circuitVars >>
  BY DEF Run
<1>2. PICK v : /\ Agrees(v, state)
               /\ \A k \in Applies : Passes(operation[k], v, loc', val', written')
  BY <1>1, StepOnPath
<1>3. /\ Running' /\ States' = States /\ UNCHANGED cfg
      /\ \A n : IsImportant(n)' <=> IsImportant(n)
  BY <1>1, StaysRunning
<1>4. /\ \A o, u, n, now, out : Passes(o, u, n, now, out)' <=> Passes(o, u, n, now, out)
      /\ \A u, n : Agrees(u, n)' <=> Agrees(u, n)
      /\ Applies' = Applies /\ UNCHANGED << operation, state >>
  BY <1>1, NothingChanges DEF circuitVars
<1>5. PICK n : n = loc'
  OBVIOUS
<1>6. PICK now : now = val'
  OBVIOUS
<1>7. PICK out : out = written'
  OBVIOUS
<1>8. /\ state \in States /\ synch \in [SyncPorts -> {0, 1}] /\ loc \in Node(cfg)
      /\ val = [x \in Vars |-> val[x]] /\ cfg \in Programs
  BY <1>1 DEF WalkInv, AllMade, IInv
<1>9. n \in Node(cfg)
  BY <1>1, <1>5, <1>8, NextNodeIs
<1>10. now = [x \in Vars |-> now[x]]
  BY <1>1, <1>6, <1>8, ComputedType
<1>11. (synch \in [SyncPorts -> {0, 1}])'
  BY <1>1, <1>8, <1>3 DEF SyncPorts, Used, Ports, portVars
<1>12. ASSUME NEW k \in Applies PROVE Passes(operation[k], v, n, now, out)
  BY <1>2, <1>5, <1>6, <1>7
<1>13. PICK ops : ops = operation
  OBVIOUS
<1>14. PICK s : s = state
  OBVIOUS
<1>15. /\ Agrees(v, s)' /\ s = state' /\ ops = operation'
       /\ \A k \in Applies' : Passes(ops[k], v, n, now, out)'
  BY <1>2, <1>4, <1>12, <1>13, <1>14
<1>16. Between'
  BY <1>5, <1>6, <1>7, <1>15 DEF Between
<1>17. ~ IsImportant(loc)'
  BY <1>3, <1>5
<1> QED
  BY <1>3, <1>4, <1>5, <1>6, <1>8, <1>9, <1>10, <1>11, <1>16, <1>17 DEF WalkInv

(* What a circuit that carries out an operation has to do to be where the   *)
(* program is.                                                              *)
LEMMA CarriedOut ==
  ASSUME AllMade, NEW o, CarryOut(o), UNCHANGED << vars, createVars >>,
         NEW n, NEW now, NEW out, n = loc', now = val', out = written', n \in Node(cfg),
         IsImportant(n),
         now = [x \in Vars |-> now[x]], Running,  NewInputs,
         o.end = n, DOMAIN o.commitments = varMap,
         \A x \in varMap \ Flags(n) : Value(o.commitments[x]) = now[x],
         n # 0 => \A p \in DOMAIN OffersAt(n, now, out) :
            p \in DOMAIN o.signals /\ Value(o.signals[p]) = OffersAt(n, now, out)[p]
  PROVE  WalkInv'
<1>1. /\ state' = n /\ reg' = [x \in varMap |-> Value(o.commitments[x])]
      /\ sig' = [p \in DOMAIN o.signals |-> Value(o.signals[p])]
  BY DEF CarryOut
<1>2. /\ UNCHANGED << cfg, varMap, importantStates, stage, phase, index >>
      /\ varMap \subseteq Vars
  BY DEF vars, foundVars, createVars, AllMade, MadeInv, SaidInv
<1>3. Running' /\ States' = States
  BY <1>2 DEF Running, AllStatesSearched, States
<1>4. (synch \in [SyncPorts -> {0, 1}])'
  BY <1>2 DEF NewInputs, SyncPorts, Used, Ports
<1>5. \A x \in varMap \ Unset(n) : x \in DOMAIN reg' /\ reg'[x] = now[x]
  <2>1. \A x \in varMap \ Unset(n) : x \in varMap \ Flags(n)
    BY <1>2 DEF Unset
  <2> QED
    BY <1>1, <2>1
<1>6. Agrees(now, n)'
  <2>1. Unset(n)' = Unset(n)
    BY <1>2 DEF Unset, Flags
  <2> QED
    BY <1>2, <1>5, <2>1 DEF Agrees
<1>7. n # 0 => Offered(OffersAt(n, now, out))'
  <2> SUFFICES ASSUME n # 0 PROVE Offered(OffersAt(n, now, out))'
    OBVIOUS
  <2>1. PICK f : f = OffersAt(n, now, out)
    OBVIOUS
  <2>2. OffersAt(n, now, out)' = f
    BY <1>2, <2>1 DEF OffersAt
  <2>3. \A p \in DOMAIN f : p \in DOMAIN sig' /\ sig'[p] = f[p]
    BY <1>1, <2>1
  <2> QED
    BY <2>2, <2>3 DEF Offered
<1>8. IsImportant(n)'
  BY <1>2 DEF IsImportant
<1>9. StateReached'
  BY <1>1, <1>6, <1>7 DEF StateReached
<1>10. state' \in States' /\ loc' \in Node(cfg)' /\ IsImportant(loc)'
  BY <1>1, <1>2, <1>3, <1>8 DEF States, IsImportant
<1>11. (val = [x \in Vars |-> val[x]])'
  OBVIOUS
<1> QED
  BY <1>3, <1>4, <1>9, <1>10, <1>11 DEF WalkInv

LEMMA NextState ==
  ASSUME AllMade, WalkInv, Run, IsImportant(loc')
  PROVE  WalkInv'
<1>1. /\ Running /\ ~ Blocked /\ loc' = NextNode /\ val' = Computed /\ written' = Written
      /\ NewInputs /\ UNCHANGED << vars, createVars >>
  BY DEF Run
<1>2. PICK k \in Applies : CarryOut(operation[k])
  BY DEF Run
<1>3. PICK v : /\ Agrees(v, state)
               /\ \A l \in Applies : Passes(operation[l], v, loc', val', written')
  BY <1>1, StepOnPath
<1>4. PICK n : n = loc'
  OBVIOUS
<1>5. PICK now : now = val'
  OBVIOUS
<1>6. PICK out : out = written'
  OBVIOUS
<1>7. PICK o : o = operation[k]
  OBVIOUS
<1>8. Passes(operation[k], v, n, now, out)
  BY <1>2, <1>3, <1>4, <1>5, <1>6
<1>9. /\ state \in States /\ val = [x \in Vars |-> val[x]]
  BY <1>1 DEF WalkInv
<1>10. now = [x \in Vars |-> now[x]]
  BY <1>1, <1>5, <1>9, ComputedType
<1>11. IsImportant(n)
  BY <1>4
<1>12. /\ n \in Node(cfg) /\ o.end = n
       /\ DOMAIN o.commitments = varMap
       /\ \A x \in varMap \ Flags(n) : Value(o.commitments[x]) = now[x]
       /\ \A p \in DOMAIN OffersAt(n, now, out) :
            p \in DOMAIN o.signals /\ Value(o.signals[p]) = OffersAt(n, now, out)[p]
  BY <1>2, <1>3, <1>7, <1>8, <1>9, <1>11, ArrivesAt
<1>13. CarryOut(o)
  BY <1>2, <1>7
<1> QED
  BY <1>1, <1>4, <1>5, <1>6, <1>10, <1>11, <1>12, <1>13, CarriedOut

(* While nobody comes a wait is all that can be carried out.                *)
LEMMA BlockedStands ==
  ASSUME AllMade, WalkInv, Running, Blocked, NEW k \in Applies
  PROVE  LET o == operation[k]
         IN  /\ k \in operationsList /\ o.start = loc
             /\ o.wait /\ o.end = loc /\ o.stmts = WaitStatements(loc)
<1>1. /\ IInv /\ StatesInv /\ OrderInv /\ CreateInv /\ OpsInv /\ stage # "find"
      /\ MadeInv /\ SuiteInv /\ stage = "suite" /\ cfg \in Programs
  BY DEF AllMade, MadeInv, IInv
<1>2. /\ loc \in Node(cfg) /\ synch \in [SyncPorts -> {0, 1}] /\ state \in States
  BY DEF WalkInv
<1>3. Waits(loc) /\ Nobody(Port(cfg, loc))
  BY DEF Blocked, Waits
<1>4. IsImportant(loc)
  BY <1>1, <1>2, <1>3 DEF StatesInv, CreateInv, Waits
<1>5. state = loc /\ Agrees(val, loc)
  BY <1>4 DEF WalkInv, StateReached
<1>6. PICK o : o = operation[k]
  OBVIOUS
<1>7. /\ k \in operationsList /\ o.start = loc /\ Made(o)
      /\ Meets(execute(o.stmts).conditions, val)
  BY <1>2, <1>5, <1>6, AppliesIs
<1>8. PICK i \in DOMAIN operations : \/ \E synced : \E first : Goes(o, operations[i], synced, first)
                                     \/ Stands(o, operations[i])
  BY <1>7 DEF Made
<1>9. ASSUME NEW synced, NEW first, Goes(o, operations[i], synced, first) PROVE FALSE
  <2>1. /\ Starts(loc, first) /\ Upto(first, operations[i], synced, 0) = first
        /\ execute(Upto(first, operations[i], synced, 0)).conditions
             \subseteq execute(o.stmts).conditions
    <3>1. 0 \in 0 .. Len(operations[i]) - 2
      <4>1. PICK path : path = operations[i]
        OBVIOUS
      <4>2. path \in Seq(Node(cfg)) /\ Len(path) > 1
        BY <1>1, <4>1, PathIs
      <4>3. 0 \in 0 .. Len(path) - 2
        BY <4>2
      <4> QED
        BY <4>1, <4>3
    <3> QED
      BY <1>1, <1>7, <1>9, <3>1, GoesWithin
  <2>2. first = First(loc)
    BY <1>3, <2>1 DEF Starts, Waits
  <2>3. Meets(execute(First(loc)).conditions, val)
    BY <1>7, <2>1, <2>2, MeetsFewer
  <2> QED
    BY <1>1, <1>2, <1>3, <2>3, BlockedWaits
<1>10. o.wait /\ o.end = loc /\ o.stmts = WaitStatements(loc)
  BY <1>7, <1>8, <1>9 DEF Stands
<1> QED
  BY <1>6, <1>7, <1>10

(* The circuit stays with the program.                                      *)
LEMMA WaitsWithProgram ==
  ASSUME AllMade, WalkInv, WaitStep
  PROVE  WalkInv'
<1>1. /\ Running /\ Blocked /\ written' = << >> /\ NewInputs
      /\ UNCHANGED << vars, createVars, loc, val >>
  BY DEF WaitStep
<1>2. /\ IInv /\ StatesInv /\ CreateInv /\ MadeInv /\ SuiteInv /\ stage = "suite" /\ cfg \in Programs
  BY DEF AllMade, MadeInv, IInv
<1>3. /\ loc \in Node(cfg) /\ synch \in [SyncPorts -> {0, 1}] /\ state \in States
      /\ val = [x \in Vars |-> val[x]]
  BY <1>1 DEF WalkInv
<1>4. Waits(loc) /\ Nobody(Port(cfg, loc))
  BY <1>1 DEF Blocked, Waits
<1>5. IsImportant(loc)
  BY <1>2, <1>3, <1>4 DEF StatesInv, CreateInv, Waits
<1>6. /\ state = loc /\ Agrees(val, loc)
      /\ loc # 0 => Offered(OffersAt(loc, val, written))
  BY <1>1, <1>5 DEF WalkInv, StateReached
<1>7. PICK k \in Applies : CarryOut(operation[k])
  BY DEF WaitStep
<1>8. PICK o : o = operation[k]
  OBVIOUS
<1>9. /\ k \in operationsList /\ o.start = loc
      /\ o.wait /\ o.end = loc /\ o.stmts = WaitStatements(loc)
  BY <1>1, <1>7, <1>8, BlockedStands
<1>10. PICK sym : sym = execute(o.stmts)
  OBVIOUS
<1>11. /\ sym.map = [x \in Vars |-> << "variable", x >>]
       /\ DOMAIN sym.sig = IF IsWrite(cfg, loc) THEN {Port(cfg, loc)} ELSE {}
  BY <1>2, <1>3, <1>4, <1>9, <1>10, WaitLeaves
<1>12. /\ varMap \subseteq Vars /\ o.signals = Signals(o) /\ DOMAIN o.commitments = varMap
       /\ \A x \in varMap : o.commitments[x] = sym.map[x] /\ o.commitments[x] \in Known(loc)
  BY <1>2, <1>8, <1>9, <1>10, KeptKnows
<1>13. Op(cfg, loc) \in {"read", "write"} /\ loc # 0
  <2>1. Op(cfg, loc) \in {"read", "write"}
    BY <1>4 DEF Waits, IsBlocking, IsComm, IsRead, IsWrite, IsNonBlockingAccess
  <2>2. loc = 0 => Op(cfg, loc) = "reset"
    BY <1>2, ProgramsAssumption DEF ProgramsAreGraphs
  <2> QED
    BY <2>1, <2>2
<1>14. ASSUME NEW x \in varMap \ Flags(loc) PROVE Value(o.commitments[x]) = val[x]
  <2>1. o.commitments[x] = << "variable", x >> /\ o.commitments[x] \in Known(loc)
    BY <1>11, <1>12
  <2>2. Value(o.commitments[x]) = Eval(o.commitments[x], val)
    BY <1>6, <2>1, ValueIs
  <2>3. Eval(<< "variable", x >>, val) = val[x]
    BY DEF Eval
  <2> QED
    BY <2>1, <2>2, <2>3
<1>15. PICK f : f = OffersAt(loc, val, << >>)
  OBVIOUS
<1>16. ASSUME NEW p \in DOMAIN f PROVE p \in DOMAIN o.signals /\ Value(o.signals[p]) = f[p]
  <2>1. IsWrite(cfg, loc)
    <3> SUFFICES ASSUME ~ IsWrite(cfg, loc) PROVE FALSE
      OBVIOUS
    <3>1. f = << >>
      BY <1>15 DEF OffersAt
    <3>2. DOMAIN << >> = {}
      OBVIOUS
    <3> QED
      BY <3>1, <3>2
  <2> DEFINE x == cfg.stmt[loc].var
             q == Port(cfg, loc)
  <2>2. f = Put(<< >>, q, val[x]) /\ OffersAt(loc, val, written) = Put(written, q, val[x])
    BY <1>15, <2>1 DEF OffersAt
  <2>3. p = q /\ f[p] = val[x]
    <3>1. DOMAIN f = {q} /\ f[q] = val[x]
      BY <2>2 DEF Put
    <3> QED
      BY <3>1
  <2>4. sig[q] = val[x]
    <3>1. q \in DOMAIN Put(written, q, val[x]) /\ Put(written, q, val[x])[q] = val[x]
      BY DEF Put
    <3> QED
      BY <1>6, <1>13, <2>2, <3>1 DEF Offered
  <2>5. o.signals = [r \in {q} |-> << "data", r >>]
    BY <1>9, <1>10, <1>11, <1>12, <2>1 DEF Signals
  <2>6. ~ isInput(q)
    <3>1. cfg.stmt[loc] \in StatementsOf(cfg)
      BY <1>2, <1>3, NodeFacts
    <3>2. cfg.stmt[loc].op = "write" /\ q = cfg.stmt[loc].port
      BY <1>13, <2>1 DEF IsWrite, Op, Port
    <3>3. cfg.ports[q] \in {"blocking out", "master out", "slave out"}
      BY <3>1, <3>2 DEF StatementsOf
    <3> QED
      BY <3>3 DEF isInput
  <2>7. Value(<< "data", q >>) = sig[q]
    BY <2>6 DEF Value
  <2> HIDE DEF q, x
  <2>8. q \in DOMAIN o.signals /\ o.signals[q] = << "data", q >>
    BY <2>5
  <2> QED
    BY <2>3, <2>4, <2>7, <2>8
<1>17. PICK n : n = loc'
  OBVIOUS
<1>18. PICK now : now = val'
  OBVIOUS
<1>19. PICK out : out = written'
  OBVIOUS
<1>20. /\ n = loc /\ now = val /\ out = << >>
  BY <1>1, <1>17, <1>18, <1>19
<1>21. \A p \in DOMAIN OffersAt(n, now, out) :
         p \in DOMAIN o.signals /\ Value(o.signals[p]) = OffersAt(n, now, out)[p]
  <2>1. OffersAt(n, now, out) = f
    BY <1>15, <1>20
  <2> QED
    BY <1>16, <2>1
<1>22. /\ n \in Node(cfg) /\ IsImportant(n) /\ o.end = n /\ now = [x \in Vars |-> now[x]]
       /\ \A x \in varMap \ Flags(n) : Value(o.commitments[x]) = now[x]
       /\ DOMAIN o.commitments = varMap
  BY <1>3, <1>5, <1>9, <1>12, <1>14, <1>20
<1>23. CarryOut(o) /\ UNCHANGED << vars, createVars >>
  BY <1>1, <1>7, <1>8
<1> QED
  BY <1>1, <1>17, <1>18, <1>19, <1>21, <1>22, <1>23, CarriedOut

(* Before the program runs nothing moves; the reset makes it start at the   *)
(* root.                                                                    *)
LEMMA Starts0 ==
  ASSUME IInv, MadeInv, WalkInv, Reset, Running'
  PROVE  WalkInv'
<1>1. /\ Suite /\ NewInputs /\ UNCHANGED << programVars, circuitVars >> /\ stage = "created"
  BY DEF Reset, Suite
<1>2. UNCHANGED << cfg, varMap, importantStates, loc, val, written, state, reg >>
  BY <1>1 DEF Suite, vars, foundVars, programVars, circuitVars
<1>3. /\ loc = 0 /\ state = 0 /\ val = [x \in Vars |-> val[x]]
  BY <1>1 DEF WalkInv, Running
<1>4. varMap \subseteq Vars /\ cfg \in Programs
  BY <1>1 DEF MadeInv, SaidInv, IInv
<1>5. 0 \in States /\ 0 \in Node(cfg)
  <2>1. importantStates[1] = 0 /\ 1 \in DOMAIN importantStates
    BY DEF MadeInv, StatesInv, IInv, TypeOK
  <2>2. 0 \in Node(cfg)
    BY <1>4, ProgramsAssumption DEF ProgramsAreGraphs
  <2> QED
    BY <2>1, <2>2 DEF States, Range
<1>6. (synch \in [SyncPorts -> {0, 1}])'
  BY <1>1, <1>2 DEF NewInputs, SyncPorts, Used, Ports
<1>7. Agrees(val, 0)'
  BY <1>2, <1>4 DEF Agrees, Unset
<1>8. StateReached' /\ IsImportant(loc)' /\ (state \in States)' /\ (loc \in Node(cfg))'
  BY <1>2, <1>3, <1>5, <1>7 DEF StateReached, IsImportant, States
<1>9. (val = [x \in Vars |-> val[x]])'
  BY <1>2, <1>3
<1> QED
  BY <1>6, <1>8, <1>9 DEF WalkInv

(* Once there is a suite nothing but the program and the circuit moves.     *)
LEMMA TranslationRests ==
  ASSUME MadeInv, stage = "suite", FindStep \/ Create \/ UNCHANGED allVars
  PROVE  UNCHANGED allVars
<1>1. CASE FindStep
  <2>1. phase = "done"
    BY DEF MadeInv, CreateInv
  <2> QED
    BY <1>1, <2>1, DoneIsDone DEF FindStep, allVars
<1>2. ~ Create
  BY DEF Create, CreateNext, Found, ExtendRawOperation,
      Extended, CreateExplicit, AllExplicit, CreateImplicit, AllImplicit, Reconstruct,
      AllReconstructed, FindValid, AllValid, Optimize
<1> QED
  BY <1>1, <1>2

LEMMA NextWalkInv ==
  IInv /\ MadeInv /\ SuiteInv /\ WalkInv /\ [HardwareNext]_allVars => WalkInv'
<1> SUFFICES ASSUME IInv, MadeInv, SuiteInv, WalkInv, [HardwareNext]_allVars PROVE WalkInv'
  OBVIOUS
<1>0. CreateInv /\ stage = "suite" => AllMade
  BY DEF AllMade
<1>1. CASE WaitStep \/ Run
  <2>1. AllMade
    BY <1>0, <1>1 DEF MadeInv, WaitStep, Run, Running
  <2>2. CASE Run /\ IsImportant(loc')
    BY <2>1, <2>2, NextState
  <2>3. CASE Run /\ ~ IsImportant(loc')
    BY <2>1, <2>3, BetweenStates
  <2>4. CASE WaitStep
    BY <2>1, <2>4, WaitsWithProgram
  <2> QED
    BY <1>1, <2>2, <2>3, <2>4
<1>2. CASE Reset
  <2>1. CASE Running'
    BY <1>2, <2>1, Starts0
  <2>2. CASE ~ Running'
    <3>1. stage = "created" /\ UNCHANGED << loc, val, state >>
      BY <1>2 DEF Reset, Suite, programVars, circuitVars
    <3>2. loc = 0 /\ state = 0 /\ val = [x \in Vars |-> val[x]]
      BY <3>1 DEF WalkInv, Running
    <3> QED
      BY <2>2, <3>1, <3>2 DEF WalkInv
  <2> QED
    BY <2>1, <2>2
<1>3. CASE FindStep \/ Create \/ UNCHANGED allVars
  <2>1. UNCHANGED << programVars, portVars, circuitVars >>
    BY <1>3 DEF FindStep, Create, allVars
  <2>2. UNCHANGED << loc, val, written, synch, data, state, reg, sig, notify >>
    BY <2>1 DEF programVars, portVars, circuitVars
  <2>3. CASE stage # "suite"
    <3>1. stage' # "suite"
      BY <1>3, <2>3 DEF FindStep, Create, CreateNext, allVars, createVars, Found, ExtendRawOperation,
            Extended, CreateExplicit, AllExplicit, CreateImplicit, AllImplicit, Reconstruct,
            AllReconstructed, FindValid, AllValid, Optimize
    <3>2. ~ Running /\ ~ Running'
      BY <2>3, <3>1 DEF Running
    <3> QED
      BY <2>2, <3>2 DEF WalkInv
  <2>4. CASE stage = "suite"
    <3>1. UNCHANGED << vars, createVars >>
      BY <1>3, <2>4, TranslationRests DEF allVars
    <3>2. /\ \A o, v, n, now, out : Passes(o, v, n, now, out)' <=> Passes(o, v, n, now, out)
          /\ \A v, n : Agrees(v, n)' <=> Agrees(v, n)
          /\ Applies' = Applies /\ UNCHANGED << cfg, operation, importantStates >>
      BY <2>1, <3>1, NothingChanges
    <3>3. Running' <=> Running
      BY <3>1 DEF Running, AllStatesSearched, vars, foundVars, createVars
    <3>4. Between => Between'
      <4> SUFFICES ASSUME Between PROVE Between'
        OBVIOUS
      <4>1. PICK v : /\ Agrees(v, state)
                     /\ \A k \in Applies : Passes(operation[k], v, loc, val, written)
        BY DEF Between
      <4>2. PICK n : n = loc
        OBVIOUS
      <4>3. PICK now : now = val
        OBVIOUS
      <4>4. PICK out : out = written
        OBVIOUS
      <4>5. PICK ops : ops = operation
        OBVIOUS
      <4>6. PICK s : s = state
        OBVIOUS
      <4>7. /\ Agrees(v, s)' /\ s = state' /\ ops = operation'
            /\ n = loc' /\ now = val' /\ out = written'
            /\ \A k \in Applies' : Passes(ops[k], v, n, now, out)'
        BY <2>2, <3>2, <4>1, <4>2, <4>3, <4>4, <4>5, <4>6
      <4> QED
        BY <4>7 DEF Between
    <3>5. StateReached => StateReached'
      <4> SUFFICES ASSUME StateReached PROVE StateReached'
        OBVIOUS
      <4>1. UNCHANGED << cfg, varMap >>
        BY <3>1 DEF vars, foundVars, createVars
      <4> QED
        BY <2>2, <4>1 DEF StateReached, Agrees, Unset, Flags, Offered, OffersAt
    <3>6. /\ (synch \in [SyncPorts -> {0, 1}]) => (synch \in [SyncPorts -> {0, 1}])'
          /\ States' = States /\ (IsImportant(loc)' <=> IsImportant(loc))
      BY <2>2, <3>2 DEF SyncPorts, Used, Ports, States, IsImportant
    <3> QED
      BY <2>2, <3>2, <3>3, <3>4, <3>5, <3>6 DEF WalkInv
  <2> QED
    BY <2>3, <2>4
<1> QED
  BY <1>1, <1>2, <1>3 DEF HardwareNext

(* The inductive invariant of the translation and the run that follows it.  *)
RunInv == IInv /\ PathsInv /\ MadeInv /\ SuiteInv /\ WalkInv

LEMMA InitRunInv == HardwareInit => RunInv
<1> SUFFICES ASSUME HardwareInit PROVE RunInv
  OBVIOUS
<1>1. IInv /\ PathsInv
  BY InitIInv, InitPathsInv DEF HardwareInit
<1>2. MadeInv
  BY InitMadeInv
<1>3. stage = "find" /\ loc = 0 /\ state = 0 /\ val = [x \in Vars |-> 0]
  BY DEF HardwareInit, CreateInit
<1>4. val = [x \in Vars |-> val[x]] /\ ~ Running
  BY <1>3 DEF Running
<1>5. SuiteInv /\ WalkInv
  BY <1>3, <1>4 DEF SuiteInv, WalkInv
<1> QED
  BY <1>1, <1>2, <1>5 DEF RunInv

LEMMA NextRunInv == RunInv /\ [HardwareNext]_allVars => RunInv'
<1> SUFFICES ASSUME RunInv, [HardwareNext]_allVars PROVE RunInv'
  OBVIOUS
<1>1. IInv /\ PathsInv /\ MadeInv /\ SuiteInv /\ WalkInv
  BY DEF RunInv
<1>2. [Next]_vars
  BY SearchGoesOn
<1>3. IInv' /\ PathsInv'
  BY <1>1, <1>2, NextIInv, NextPathsInv
<1>4. MadeInv' /\ SuiteInv' /\ WalkInv'
  BY <1>1, NextMadeInv, NextSuiteInv, NextWalkInv
<1> QED
  BY <1>3, <1>4 DEF RunInv

(* Whatever happens at the ports, the circuit that satisfies the property   *)
(* suite is where the program is at every state, its registers hold what    *)
(* the variables hold, and its data signals what the program offers.        *)
THEOREM CircuitFollows == HardwareSpec => []HardwareFollows
<1>1. RunInv => HardwareFollows
  <2> SUFFICES ASSUME RunInv, AtState, loc # 0
               PROVE  /\ state = loc
                      /\ \A x \in varMap \ Flags(loc) : x \in DOMAIN reg /\ reg[x] = val[x]
                      /\ \A p \in DOMAIN Offers : p \in DOMAIN sig /\ sig[p] = Offers[p]
    BY DEF HardwareFollows
  <2>1. StateReached
    BY DEF RunInv, AtState, WalkInv
  <2>2. Unset(loc) = Flags(loc)
    BY DEF Unset
  <2>3. Offers = OffersAt(loc, val, written)
    BY DEF Offers, OffersAt
  <2> QED
    BY <2>1, <2>2, <2>3 DEF StateReached, Agrees, Offered
<1> QED
  BY <1>1, InitRunInv, NextRunInv, PTL DEF HardwareSpec

-----------------------------------------------------------------------------
(* The blocking inputs an operation refers to: no other than that of its    *)
(* first node, in modules that ask peek() of other ports only.              *)
PeeksNoInput ==
  \A g \in Programs : \A n \in Node(g) :
    Op(g, n) = "peek" => g.ports[g.stmt[n].port] # "blocking in"

Heard(n) == {p \in Ports : cfg.ports[p] # "blocking in" \/ p \in communicationPort(n)}
Hearing(n) == [ports |-> [p \in Heard(n) |-> cfg.ports[p]]]

LEMMA HeardPorts ==
  ASSUME NEW n
  PROVE  /\ DOMAIN Hearing(n).ports = Heard(n) /\ Heard(n) \subseteq DOMAIN cfg.ports
         /\ \A p \in Heard(n) : Hearing(n).ports[p] = cfg.ports[p]
BY DEF Hearing, Heard, Ports

(* The statements that name a port.                                         *)
Ported(s) == s.op \in {"sync", "peek", "read", "try_read", "write", "try_write"}

LEMMA HeardExecuted ==
  ASSUME NEW n, NEW s \in Executed(cfg), Ported(s) => s.port \in Heard(n)
  PROVE  s \in Executed(Hearing(n))
<1>1. PICK g : g = Hearing(n)
  OBVIOUS
<1>2. DOMAIN g.ports = Heard(n) /\ \A p \in Heard(n) : g.ports[p] = cfg.ports[p]
  BY <1>1, HeardPorts
<1>3. ASSUME s.op = "sync" PROVE s \in Executed(g)
  <2>1. s \in [op : {"sync"}, port : DOMAIN cfg.ports, holds : BOOLEAN]
    BY <1>3 DEF Executed, StatementsOf
  <2>2. s \in [op : {"sync"}, port : DOMAIN g.ports, holds : BOOLEAN]
    BY <1>2, <1>3, <2>1 DEF Ported
  <2> QED
    BY <2>2 DEF Executed
<1>4. ASSUME s.op = "peek" PROVE s \in StatementsOf(g)
  <2>1. s \in [op : {"peek"}, port : DOMAIN cfg.ports, var : Vars]
    BY <1>4 DEF Executed, StatementsOf
  <2>2. s \in [op : {"peek"}, port : DOMAIN g.ports, var : Vars]
    BY <1>2, <1>4, <2>1 DEF Ported
  <2> QED
    BY <2>2 DEF StatementsOf
<1>5. ASSUME s.op = "read" PROVE s \in StatementsOf(g)
  <2> DEFINE kinds == {"blocking in", "master in", "slave in"}
             old == {p \in DOMAIN cfg.ports : cfg.ports[p] \in kinds}
             new == {p \in DOMAIN g.ports : g.ports[p] \in kinds}
  <2>1. s \in [op : {"read"}, port : old, var : Vars]
    BY <1>5 DEF Executed, StatementsOf
  <2>2. s.port \in new
    BY <1>2, <1>5, <2>1 DEF Ported
  <2> HIDE DEF old, new
  <2>3. s \in [op : {"read"}, port : new, var : Vars]
    BY <2>1, <2>2
  <2> QED
    BY <2>3 DEF StatementsOf, new
<1>6. ASSUME s.op = "write" PROVE s \in StatementsOf(g)
  <2> DEFINE kinds == {"blocking out", "master out", "slave out"}
             old == {p \in DOMAIN cfg.ports : cfg.ports[p] \in kinds}
             new == {p \in DOMAIN g.ports : g.ports[p] \in kinds}
  <2>1. s \in [op : {"write"}, port : old, var : Vars]
    BY <1>6 DEF Executed, StatementsOf
  <2>2. s.port \in new
    BY <1>2, <1>6, <2>1 DEF Ported
  <2> HIDE DEF old, new
  <2>3. s \in [op : {"write"}, port : new, var : Vars]
    BY <2>1, <2>2
  <2> QED
    BY <2>3 DEF StatementsOf, new
<1>7. ASSUME s.op = "try_read" PROVE s \in StatementsOf(g)
  <2> DEFINE kinds == {"blocking in", "slave in"}
             old == {p \in DOMAIN cfg.ports : cfg.ports[p] \in kinds}
             new == {p \in DOMAIN g.ports : g.ports[p] \in kinds}
  <2>1. s \in [op : {"try_read"}, port : old, var : Vars, flag : Vars]
    BY <1>7 DEF Executed, StatementsOf
  <2>2. s.port \in new
    BY <1>2, <1>7, <2>1 DEF Ported
  <2> HIDE DEF old, new
  <2>3. s \in [op : {"try_read"}, port : new, var : Vars, flag : Vars]
    BY <2>1, <2>2
  <2> QED
    BY <2>3 DEF StatementsOf, new
<1>8. ASSUME s.op = "try_write" PROVE s \in StatementsOf(g)
  <2> DEFINE kinds == {"blocking out"}
             old == {p \in DOMAIN cfg.ports : cfg.ports[p] \in kinds}
             new == {p \in DOMAIN g.ports : g.ports[p] \in kinds}
  <2>1. s \in [op : {"try_write"}, port : old, var : Vars, flag : Vars]
    BY <1>8 DEF Executed, StatementsOf
  <2>2. s.port \in new
    BY <1>2, <1>8, <2>1 DEF Ported
  <2> HIDE DEF old, new
  <2>3. s \in [op : {"try_write"}, port : new, var : Vars, flag : Vars]
    BY <2>1, <2>2
  <2> QED
    BY <2>3 DEF StatementsOf, new
<1>9. ASSUME s.op \notin {"sync", "peek", "read", "write", "try_read", "try_write"}
      PROVE  s \in StatementsOf(g)
  BY <1>9 DEF Executed, StatementsOf
<1>10. StatementsOf(g) \subseteq Executed(g)
  BY DEF Executed
<1> QED
  BY <1>1, <1>3, <1>4, <1>5, <1>6, <1>7, <1>8, <1>9, <1>10

(* What an operation that starts at n makes of a node whose port it hears.  *)
LEMMA HeardNode ==
  ASSUME cfg \in Programs, NEW n, NEW m \in Node(cfg), NEW l,
         IsComm(cfg, m) => Port(cfg, m) \in Heard(n),
         Op(cfg, m) = "peek" => cfg.stmt[m].port \in Heard(n)
  PROVE  LET s == Stmt(cfg, m, l)
             E == Executed(Hearing(n))
         IN  /\ s \in E
             /\ IsComm(cfg, m) => /\ s = cfg.stmt[m]
                                  /\ Sync(s.port, TRUE) \in E /\ Sync(s.port, FALSE) \in E
                                  /\ IsNonBlockingAccess(cfg, m) => Flag(s) \in E
<1> DEFINE s == Stmt(cfg, m, l)
           E == Executed(Hearing(n))
<1>1. /\ s \in StatementsOf(cfg) /\ s \in Executed(cfg) /\ s.op = Op(cfg, m)
      /\ ~ IsBranch(cfg, m) => s = cfg.stmt[m]
  BY StmtType DEF Executed
<1>2. IsComm(cfg, m) <=> s.op \in {"read", "try_read", "write", "try_write"}
  BY <1>1 DEF IsComm, IsRead, IsWrite
<1>3. ASSUME IsComm(cfg, m)
      PROVE  /\ s = cfg.stmt[m] /\ s.port \in Heard(n) /\ s.port \in DOMAIN cfg.ports
             /\ IsNonBlockingAccess(cfg, m) => Flag(s) \in Executed(cfg)
  BY <1>1, <1>3, CommPort, FlagType
<1>4. ASSUME s.op = "peek" PROVE s.port \in Heard(n)
  <2>1. ~ IsBranch(cfg, m)
    BY <1>1, <1>4, NodeFacts
  <2> QED
    BY <1>1, <1>4, <2>1
<1>5. s.op # "sync"
  BY <1>1 DEF StatementsOf
<1>6. s \in E
  <2> HIDE DEF s
  <2>1. Ported(s) => s.port \in Heard(n)
    BY <1>2, <1>3, <1>4, <1>5 DEF Ported
  <2> QED
    BY <1>1, <2>1, HeardExecuted
<1>7. ASSUME IsComm(cfg, m), NEW h \in BOOLEAN PROVE Sync(s.port, h) \in E
  <2>1. Sync(s.port, h) \in Executed(cfg) /\ Sync(s.port, h).port = s.port
    BY <1>3, <1>7, SyncType DEF Sync
  <2> QED
    BY <1>3, <1>7, <2>1, HeardExecuted
<1>8. ASSUME IsComm(cfg, m), IsNonBlockingAccess(cfg, m) PROVE Flag(s) \in E
  <2>1. Flag(s) \in Executed(cfg) /\ Flag(s).port = s.port
    BY <1>3, <1>8 DEF Flag
  <2> QED
    BY <1>3, <1>8, <2>1, HeardExecuted
<1> QED
  BY <1>3, <1>6, <1>7, <1>8

LEMMA HeardOnPath ==
  ASSUME PeeksNoInput, cfg \in Programs, \A m \in Node(cfg) : IsBlocking(cfg, m) => IsImportant(m),
         NEW path \in Seq(Node(cfg)), Len(path) > 1, IsOperation(path),
         NEW o, NEW synced, NEW first, Goes(o, path, synced, first)
  PROVE  o.stmts \in Seq(Executed(Hearing(o.start)))
<1> DEFINE start == path[1]
           E == Executed(Hearing(start))
           size == Len(path) - 2
           inner == Concat(Parts(path, synced, size))
           last == LastNode(Last(path))
<1>1. /\ o.start = start /\ Starts(start, first) /\ start \in Node(cfg)
      /\ Last(path) \in Node(cfg) /\ size \in Nat
  BY DEF Goes, Last
<1>2. /\ o.stmts = Upto(first, path, synced, size) \o last
      /\ Upto(first, path, synced, size) = first \o inner
  BY StmtsAre DEF Upto
<1>3. \A m \in Node(cfg) : Op(cfg, m) = "peek" =>
        cfg.stmt[m].port \in Ports /\ cfg.ports[cfg.stmt[m].port] # "blocking in"
  <2> SUFFICES ASSUME NEW m \in Node(cfg), Op(cfg, m) = "peek"
               PROVE  cfg.stmt[m].port \in Ports /\ cfg.ports[cfg.stmt[m].port] # "blocking in"
    OBVIOUS
  <2>1. cfg.stmt[m].port \in Ports
    BY NodeFacts DEF StatementsOf, Op, Ports
  <2> QED
    BY <2>1 DEF PeeksNoInput
<1>4. first \in Seq(E)
  <2>1. IsComm(cfg, start) => Port(cfg, start) \in Heard(start)
    BY <1>1, CommPort DEF Heard, Ports, communicationPort
  <2>2. Op(cfg, start) = "peek" => cfg.stmt[start].port \in Heard(start)
    BY <1>1, <1>3 DEF Heard
  <2> HIDE DEF start
  <2>3. IsComm(cfg, start) =>
          /\ cfg.stmt[start] \in E
          /\ Sync(cfg.stmt[start].port, TRUE) \in E /\ Sync(cfg.stmt[start].port, FALSE) \in E
          /\ IsNonBlockingAccess(cfg, start) => Flag(cfg.stmt[start]) \in E
    BY <1>1, <2>1, <2>2, HeardNode
  <2> HIDE DEF E
  <2> QED
    BY <1>1, <2>3, FirstFrom
<1>5. \A i \in 1 .. size : Part(path, synced, i) \in Seq(E)
  <2> SUFFICES ASSUME NEW i \in 1 .. size PROVE Part(path, synced, i) \in Seq(E)
    OBVIOUS
  <2>1. PICK m : m = path[i + 1]
    OBVIOUS
  <2>2. PICK l : l = path[i + 2]
    OBVIOUS
  <2>3. m \in Node(cfg) /\ ~ IsBlocking(cfg, m)
    <3>1. i + 1 \in 2 .. Len(path) - 1 /\ m \in Node(cfg)
      BY <2>1
    <3>2. ~ IsImportant(m)
      BY <2>1, <3>1 DEF IsOperation
    <3> QED
      BY <3>1, <3>2
  <2>4. IsComm(cfg, m) => Port(cfg, m) \in Heard(start)
    <3>1. IsComm(cfg, m) => cfg.ports[Port(cfg, m)] # "blocking in"
      BY <2>3, CommPort DEF IsBlocking, Blocking
    <3> QED
      BY <2>3, <3>1, CommPort DEF Heard, Ports
  <2>5. Op(cfg, m) = "peek" => cfg.stmt[m].port \in Heard(start)
    BY <1>3, <2>3 DEF Heard
  <2> DEFINE s == Stmt(cfg, m, l)
  <2> HIDE DEF start
  <2>6. /\ s \in E
        /\ IsComm(cfg, m) => /\ Sync(s.port, TRUE) \in E /\ Sync(s.port, FALSE) \in E
                             /\ IsNonBlockingAccess(cfg, m) => Flag(s) \in E
    BY <2>3, <2>4, <2>5, HeardNode
  <2> HIDE DEF s, E
  <2>7. IsSlaveIn(m) => IsComm(cfg, m)
    BY DEF IsSlaveIn
  <2>8. Inner(s, m, synced) \in Seq(E)
    BY <2>6, <2>7, InnerFrom
  <2> QED
    BY <2>1, <2>2, <2>8 DEF Part, s
<1>6. inner \in Seq(E)
  <2>1. \A i \in 0 .. size : Concat(Parts(path, synced, i)) \in Seq(E)
    <3> HIDE DEF E, size
    <3> QED
      BY <1>1, <1>5, ConcatType
  <2> QED
    BY <1>1, <2>1
<1>7. last \in Seq(E)
  <2>1. PICK m \in Node(cfg) : m = Last(path)
    BY <1>1
  <2>2. CASE ~ IsWrite(cfg, m)
    BY <2>1, <2>2 DEF LastNode
  <2>3. CASE IsWrite(cfg, m)
    <3>1. IsComm(cfg, m) /\ Op(cfg, m) # "peek"
      BY <2>3 DEF IsComm, IsWrite
    <3>2. Port(cfg, m) = cfg.stmt[m].port /\ Port(cfg, m) \in Ports /\ cfg.stmt[m] \in StatementsOf(cfg)
          /\ cfg.stmt[m].op \in {"write", "try_write"}
      BY <2>3, <3>1, CommPort, NodeFacts DEF Ports, IsWrite
    <3>3. cfg.ports[Port(cfg, m)] # "blocking in"
      BY <3>2 DEF StatementsOf
    <3>4. Port(cfg, m) \in Heard(start)
      BY <3>2, <3>3 DEF Heard
    <3> HIDE DEF start
    <3>5. cfg.stmt[m] \in E
      BY <3>1, <3>4, HeardNode
    <3> HIDE DEF E
    <3>6. << cfg.stmt[m] >> \in Seq(E)
      BY <3>5, ShortSeqs
    <3> QED
      BY <2>1, <2>3, <3>6 DEF LastNode
  <2> QED
    BY <2>2, <2>3
<1> HIDE DEF E, inner, last
<1>8. (first \o inner) \o last \in Seq(E)
  BY <1>4, <1>6, <1>7, ConcatProperties
<1> QED
  BY <1>1, <1>2, <1>8 DEF E

(* What an operation that is kept refers to of the ports that are notified. *)
LEMMA HearsOwn ==
  ASSUME PeeksNoInput, IInv, MadeInv, SuiteInv, stage = "suite", NEW k \in operationsList
  PROVE  NotifyPorts \cap InputsOf(operation[k]) \subseteq communicationPort(operation[k].start)
<1>0. /\ IInv /\ StatesInv /\ OrderInv /\ CreateInv /\ stage # "find" /\ phase = "done"
  BY DEF MadeInv, CreateInv
<1>1. PICK o : o = operation[k]
  OBVIOUS
<1>2. PICK sym : sym = execute(o.stmts)
  OBVIOUS
<1>3. /\ Made(o) /\ o.signals = Signals(o)
      /\ \A x \in DOMAIN o.commitments : o.commitments[x] = sym.map[x] /\ x \in Vars
  BY <1>1, <1>2, KeptKnows
<1> SUFFICES ASSUME NEW p \in NotifyPorts, p \in InputsOf(o)
             PROVE  p \in communicationPort(o.start)
  BY <1>1
<1>4. isInput(p) /\ cfg.ports[p] = "blocking in"
  BY DEF InputsOf, NotifyPorts, isInput, Blocking
<1>5. PICK i \in DOMAIN operations : \/ \E synced : \E first : Goes(o, operations[i], synced, first)
                                     \/ Stands(o, operations[i])
  BY <1>3 DEF Made
<1>6. PICK path : path = operations[i]
  OBVIOUS
<1>7. /\ cfg \in Programs /\ path \in Seq(Node(cfg)) /\ Len(path) > 1 /\ path[1] \in Node(cfg)
      /\ IsOperation(path)
  BY <1>0, <1>6, PathIs
<1>8. CASE Stands(o, path)
  <2>1. o.wait /\ o.start \in Node(cfg) /\ Waits(o.start) /\ o.stmts = WaitStatements(o.start)
    BY <1>7, <1>8 DEF Stands
  <2>2. /\ sym.map = [x \in Vars |-> << "variable", x >>]
        /\ DOMAIN sym.sig = IF IsWrite(cfg, o.start) THEN {Port(cfg, o.start)} ELSE {}
    BY <1>2, <1>7, <2>1, WaitLeaves
  <2>3. o.signals = [q \in DOMAIN sym.sig |-> << "data", q >>]
    BY <1>2, <1>3, <2>1 DEF Signals
  <2>4. \A x \in DOMAIN o.commitments : o.commitments[x] \notin {<< "data", p >>, << "sync", p >>}
    <3> SUFFICES ASSUME NEW x \in DOMAIN o.commitments
                 PROVE  o.commitments[x] \notin {<< "data", p >>, << "sync", p >>}
      OBVIOUS
    <3>1. o.commitments[x] = << "variable", x >>
      BY <1>3, <2>2
    <3>2. o.commitments[x][1] = "variable"
      BY <3>1
    <3>3. << "data", p >>[1] = "data" /\ << "sync", p >>[1] = "sync"
      OBVIOUS
    <3> QED
      BY <3>2, <3>3
  <2>5. p \in DOMAIN sym.sig
    BY <2>3, <2>4 DEF InputsOf
  <2>6. p = Port(cfg, o.start) /\ IsComm(cfg, o.start)
    BY <2>1, <2>2, <2>5 DEF Waits, IsBlocking
  <2> QED
    BY <2>6 DEF communicationPort
<1>9. ASSUME NEW synced, NEW first, Goes(o, path, synced, first)
      PROVE  p \in communicationPort(o.start)
  <2>1. \A m \in Node(cfg) : IsBlocking(cfg, m) => IsImportant(m)
    BY <1>0 DEF StatesInv
  <2> DEFINE g == Hearing(o.start)
             A == Given(g) \cup Unknown(Vars)
  <2>2. o.stmts \in Seq(Executed(g))
    BY <1>7, <1>9, <2>1, HeardOnPath
  <2>3. Over(sym, A)
    <3> HIDE DEF g
    <3> QED
      BY <1>2, <2>2, ExecuteFrom
  <2>4. ~ o.wait /\ o.signals = sym.sig
    BY <1>2, <1>3, <1>9 DEF Goes, Signals
  <2>5. << "data", p >> \in A \/ << "sync", p >> \in A
    <3> HIDE DEF A
    <3>1. /\ \A x \in DOMAIN o.commitments : o.commitments[x] \in A
          /\ \A q \in DOMAIN o.signals : o.signals[q] \in A
      BY <1>3, <2>3, <2>4 DEF Over
    <3> QED
      BY <3>1 DEF InputsOf
  <2>6. p \in DOMAIN g.ports
    BY <2>5 DEF Given, Unknown
  <2>7. p \in Heard(o.start)
    BY <2>6, HeardPorts
  <2> QED
    BY <1>4, <2>7 DEF Heard
<1> QED
  BY <1>5, <1>6, <1>8, <1>9

(* Only outputs are written.                                                *)
WrittenInv == /\ ~ Running => written = << >>
              /\ \A p \in DOMAIN written : p \in Ports /\ isOutput(p)

LEMMA WritesOutput ==
  ASSUME cfg \in Programs, NEW n \in Node(cfg), IsWrite(cfg, n)
  PROVE  Port(cfg, n) \in Ports /\ isOutput(Port(cfg, n)) /\ communicationPort(n) = {Port(cfg, n)}
<1>1. IsComm(cfg, n) /\ Port(cfg, n) \in Ports /\ Port(cfg, n) = cfg.stmt[n].port
  BY CommPort DEF IsComm, Ports
<1>2. cfg.stmt[n] \in StatementsOf(cfg) /\ cfg.stmt[n].op \in {"write", "try_write"}
  BY NodeFacts DEF IsWrite, Op
<1> QED
  BY <1>1, <1>2 DEF StatementsOf, isOutput, communicationPort

LEMMA OffersOutputs ==
  ASSUME cfg \in Programs, NEW n \in Node(cfg), NEW now, NEW out,
         \A p \in DOMAIN out : p \in Ports /\ isOutput(p)
  PROVE  /\ \A p \in DOMAIN OffersAt(n, now, out) : p \in Ports /\ isOutput(p)
         /\ DOMAIN OffersAt(n, now, << >>) \subseteq communicationPort(n)
<1>1. CASE IsWrite(cfg, n)
  <2>1. /\ DOMAIN OffersAt(n, now, out) = DOMAIN out \cup {Port(cfg, n)}
        /\ DOMAIN OffersAt(n, now, << >>) = {Port(cfg, n)}
    BY <1>1 DEF OffersAt, Put
  <2> QED
    BY <1>1, <2>1, WritesOutput
<1>2. CASE ~ IsWrite(cfg, n)
  BY <1>2 DEF OffersAt
<1> QED
  BY <1>1, <1>2

LEMMA NextWrittenInv ==
  ASSUME IInv, MadeInv, SuiteInv, WalkInv, WrittenInv, [HardwareNext]_allVars
  PROVE  WrittenInv'
<1>1. CASE WaitStep \/ Run
  <2>1. /\ Running /\ UNCHANGED << vars, createVars >> /\ loc \in Node(cfg) /\ cfg \in Programs
    BY <1>1 DEF WaitStep, Run, WalkInv, IInv
  <2>2. Running' /\ UNCHANGED cfg
    BY <2>1 DEF Running, AllStatesSearched, vars, foundVars, createVars
  <2>3. \A p \in DOMAIN written' : p \in Ports /\ isOutput(p)
    <3>1. CASE WaitStep
      BY <3>1 DEF WaitStep
    <3>2. CASE Run
      <4>1. written' = Written
        BY <3>2 DEF Run
      <4>2. PICK before : /\ before = IF IsImportant(loc) THEN << >> ELSE written
                          /\ \A p \in DOMAIN before : p \in Ports /\ isOutput(p)
        BY DEF WrittenInv
      <4>3. CASE IsWrite(cfg, loc) /\ ~ IsImportant(loc)
        <5>1. DOMAIN written' = DOMAIN before \cup {Port(cfg, loc)}
          BY <4>1, <4>2, <4>3 DEF Written, Put
        <5> QED
          BY <2>1, <4>2, <4>3, <5>1, WritesOutput
      <4>4. CASE ~ (IsWrite(cfg, loc) /\ ~ IsImportant(loc))
        BY <4>1, <4>2, <4>4 DEF Written
      <4> QED
        BY <4>3, <4>4
    <3> QED
      BY <1>1, <3>1, <3>2
  <2> QED
    BY <2>2, <2>3 DEF WrittenInv, Ports, isOutput
<1>2. CASE FindStep \/ Create \/ Reset \/ UNCHANGED allVars
  <2>1. UNCHANGED written
    BY <1>2 DEF FindStep, Create, Reset, programVars, allVars
  <2>2. CASE stage # "suite"
    <3>1. written' = << >>
      BY <2>1, <2>2 DEF WrittenInv, Running
    <3> QED
      BY <3>1 DEF WrittenInv
  <2>3. CASE stage = "suite"
    <3>1. ~ Reset
      BY <2>3 DEF Reset, Suite
    <3>2. UNCHANGED << vars, createVars >>
      BY <1>2, <2>3, <3>1, TranslationRests DEF allVars
    <3>3. (Running' <=> Running) /\ UNCHANGED cfg
      BY <3>2 DEF Running, AllStatesSearched, vars, foundVars, createVars
    <3> QED
      BY <2>1, <3>3 DEF WrittenInv, Ports, isOutput
  <2> QED
    BY <2>2, <2>3
<1> QED
  BY <1>1, <1>2 DEF HardwareNext

(* What the property the circuit carries out notifies when the program      *)
(* reaches its next state.                                                  *)
LEMMA NotifiedAtState ==
  ASSUME PeeksNoInput, AllMade, WalkInv, WrittenInv, Run, NEW n, NEW now, NEW out,
         n = loc', now = val', out = written', IsImportant(n),
         \A p \in DOMAIN out : p \in Ports /\ isOutput(p)
  PROVE  notify' = NotifyPorts \cap (communicationPort(n) \cup DOMAIN OffersAt(n, now, out))
<1>1. /\ Running /\ ~ Blocked /\ loc' = NextNode /\ val' = Computed /\ written' = Written
      /\ UNCHANGED << vars, createVars >>
  BY DEF Run
<1>2. PICK k \in Applies : CarryOut(operation[k])
  BY DEF Run
<1>3. PICK v : /\ Agrees(v, state)
               /\ \A l \in Applies : Passes(operation[l], v, loc', val', written')
  BY <1>1, StepOnPath
<1>4. PICK o : o = operation[k]
  OBVIOUS
<1>5. Passes(operation[k], v, n, now, out)
  BY <1>2, <1>3
<1>6. /\ state \in States /\ cfg \in Programs
  BY <1>1 DEF WalkInv, AllMade, IInv
<1>7. /\ n \in Node(cfg) /\ o.end = n /\ ~ o.wait
      /\ DOMAIN o.signals = DOMAIN OffersAt(n, now, out)
  BY <1>2, <1>3, <1>4, <1>5, <1>6, ArrivesAt
<1>8. OutputsOf(o) = DOMAIN OffersAt(n, now, out)
  BY <1>6, <1>7, OffersOutputs DEF OutputsOf
<1>9. NotifyPorts \cap UNION {InputsOf(operation[l]) : l \in outgoing[n]} \subseteq communicationPort(n)
  <2> SUFFICES ASSUME NEW l \in outgoing[n]
               PROVE  NotifyPorts \cap InputsOf(operation[l]) \subseteq communicationPort(n)
    OBVIOUS
  <2>1. outgoing = [m \in States |-> {j \in operationsList : operation[j].start = m}]
    BY DEF AllMade, MadeInv, CreateInv, Lists
  <2>2. n \in States
    BY DEF IsImportant, States
  <2>3. l \in operationsList /\ operation[l].start = n
    BY <2>1, <2>2
  <2> QED
    BY <2>3, HearsOwn DEF AllMade
<1>10. Notified(o) = NotifyPorts \cap (communicationPort(n) \cup DOMAIN OffersAt(n, now, out))
  BY <1>7, <1>8, <1>9 DEF Notified, usedPortsList
<1> QED
  BY <1>2, <1>4, <1>10 DEF CarryOut

LEMMA NextNotified ==
  ASSUME PeeksNoInput, IInv, MadeInv, SuiteInv, WalkInv, WrittenInv, NotifiedIsOffered,
         [HardwareNext]_allVars, WrittenInv'
  PROVE  NotifiedIsOffered'
<1> DEFINE Goal == notify' = NotifyPorts' \cap (communicationPort(loc)' \cup (DOMAIN Offers)')
<1>0. (AtState' /\ loc' # 0 => Goal) => NotifiedIsOffered'
  BY DEF NotifiedIsOffered
<1> SUFFICES ASSUME AtState', loc' # 0 PROVE Goal
  BY <1>0
<1>1. Running' /\ IsImportant(loc)'
  BY DEF AtState
<1>2. CASE WaitStep \/ Run
  <2>1. /\ Running /\ UNCHANGED << vars, createVars >> /\ loc \in Node(cfg) /\ cfg \in Programs
        /\ AllMade
    BY <1>2 DEF WaitStep, Run, WalkInv, IInv, AllMade, Running
  <2>2. /\ UNCHANGED << cfg, importantStates >>
    BY <2>1 DEF vars, foundVars
  <2>3. PICK n : n = loc'
    OBVIOUS
  <2>4. PICK now : now = val'
    OBVIOUS
  <2>5. PICK out : out = written'
    OBVIOUS
  <2>6. /\ IsImportant(n) /\ NotifyPorts' = NotifyPorts
        /\ communicationPort(loc)' = communicationPort(n)
        /\ (DOMAIN Offers)' = DOMAIN OffersAt(n, now, out)
        /\ \A p \in DOMAIN out : p \in Ports /\ isOutput(p)
    BY <1>1, <2>2, <2>3, <2>4, <2>5
       DEF IsImportant, NotifyPorts, Ports, communicationPort, Offers, OffersAt, WrittenInv, isOutput
  <2>7. notify' = NotifyPorts \cap (communicationPort(n) \cup DOMAIN OffersAt(n, now, out))
    <3>1. CASE Run
      BY <2>1, <2>3, <2>4, <2>5, <2>6, <3>1, NotifiedAtState
    <3>2. CASE WaitStep
      <4>1. PICK k \in Applies : CarryOut(operation[k])
        BY <3>2 DEF WaitStep
      <4>2. Running /\ Blocked /\ out = << >> /\ n = loc
        BY <2>3, <2>5, <3>2 DEF WaitStep
      <4>3. operation[k].wait /\ operation[k].end = loc
        BY <2>1, <4>1, <4>2, BlockedStands
      <4>4. notify' = NotifyPorts \cap communicationPort(n)
        BY <4>1, <4>2, <4>3 DEF CarryOut, Notified
      <4>5. DOMAIN OffersAt(n, now, out) \subseteq communicationPort(n)
        <5>1. n \in Node(cfg)
          BY <2>1, <4>2
        <5> QED
          BY <2>1, <2>6, <4>2, <5>1, OffersOutputs
      <4> QED
        BY <4>4, <4>5
    <3> QED
      BY <1>2, <3>1, <3>2
  <2> QED
    BY <2>6, <2>7
<1>3. CASE FindStep \/ Create \/ Reset \/ UNCHANGED allVars
  <2>1. UNCHANGED << loc, val, written, notify >>
    BY <1>3 DEF FindStep, Create, Reset, programVars, circuitVars, allVars
  <2>2. Running
    BY <2>1 DEF WalkInv
  <2>3. stage = "suite" /\ ~ Reset
    BY <2>2 DEF Running, Reset, Suite
  <2>4. UNCHANGED << vars, createVars >>
    BY <1>3, <2>3, TranslationRests DEF allVars
  <2>5. UNCHANGED << cfg, importantStates >>
    BY <2>4 DEF vars, foundVars
  <2>6. AtState /\ loc # 0
    BY <1>1, <2>1, <2>2, <2>5 DEF AtState, IsImportant
  <2>7. notify = NotifyPorts \cap (communicationPort(loc) \cup DOMAIN Offers)
    BY <2>6 DEF NotifiedIsOffered
  <2>8. /\ NotifyPorts' = NotifyPorts /\ communicationPort(loc)' = communicationPort(loc)
        /\ (DOMAIN Offers)' = DOMAIN Offers
    BY <2>1, <2>5 DEF NotifyPorts, Ports, communicationPort, Offers
  <2> QED
    BY <2>1, <2>7, <2>8
<1> QED
  BY <1>2, <1>3 DEF HardwareNext

(* A port is notified exactly when the program communicates there, if it    *)
(* asks peek() of no blocking input: the suite takes an answer that is kept *)
(* for a use of the port (CreatePropertySuite.cpp, addOperations).          *)
THEOREM NotifiedOnTime == PeeksNoInput => (HardwareSpec => []NotifiedIsOffered)
<1> SUFFICES ASSUME PeeksNoInput PROVE HardwareSpec => []NotifiedIsOffered
  OBVIOUS
<1>1. HardwareInit => RunInv /\ WrittenInv /\ NotifiedIsOffered
  <2> SUFFICES ASSUME HardwareInit PROVE RunInv /\ WrittenInv /\ NotifiedIsOffered
    OBVIOUS
  <2>1. RunInv
    BY InitRunInv
  <2>2. written = << >> /\ loc = 0
    BY DEF HardwareInit
  <2> QED
    BY <2>1, <2>2 DEF WrittenInv, NotifiedIsOffered
<1>2. RunInv /\ WrittenInv /\ NotifiedIsOffered /\ [HardwareNext]_allVars
        => (RunInv /\ WrittenInv /\ NotifiedIsOffered)'
  BY NextRunInv, NextWrittenInv, NextNotified DEF RunInv
<1> QED
  BY <1>1, <1>2, PTL DEF HardwareSpec

-----------------------------------------------------------------------------
(* The ways the slave reads of a path can turn out come up once.            *)
Reads(path) == {n \in Range(path) : IsSlaveIn(n)}

Pass(t, n) == IF IsSlaveIn(n) /\ n \notin Range(t) THEN Append(t, n) ELSE t

(* The stack when n nodes have been passed.                                 *)
Passing(path, s, f, n) ==
  f = [i \in 0 .. n |-> IF i = 0 THEN s ELSE Pass(f[i - 1], path[i])]

LEMMA PassingStep ==
  ASSUME NEW path, NEW s, NEW n \in Nat, NEW f, Passing(path, s, f, n)
  PROVE  /\ f[0] = s
         /\ \A i \in 1 .. n : f[i] = Pass(f[i - 1], path[i])
BY DEF Passing

LEMMA PassingExists ==
  ASSUME NEW path, NEW s, NEW m \in Nat
  PROVE  \E f : Passing(path, s, f, m)
<1> DEFINE S == {n \in Nat : \E f : Passing(path, s, f, n)}
<1>1. 0 \in S
  <2> DEFINE f == [i \in 0 .. 0 |-> s]
  <2>1. Passing(path, s, f, 0)
    BY DEF Passing
  <2> QED
    BY <2>1
<1>2. ASSUME NEW n \in Nat, n \in S PROVE n + 1 \in S
  <2>1. PICK f : Passing(path, s, f, n)
    BY <1>2
  <2> DEFINE g == [i \in 0 .. n + 1 |-> IF i = n + 1 THEN Pass(f[n], path[n + 1]) ELSE f[i]]
  <2>2. f[0] = s /\ \A i \in 1 .. n : f[i] = Pass(f[i - 1], path[i])
    BY <2>1, PassingStep
  <2>3. ASSUME NEW i \in 0 .. n + 1 PROVE g[i] = IF i = 0 THEN s ELSE Pass(g[i - 1], path[i])
    <3>1. CASE i = 0
      BY <2>2, <3>1
    <3>2. CASE i \in 1 .. n
      <4>1. g[i] = f[i] /\ g[i - 1] = f[i - 1] /\ i # 0
        BY <3>2
      <4> QED
        BY <2>2, <3>2, <4>1, Zenon
    <3>3. CASE i = n + 1
      <4>1. g[i] = Pass(f[n], path[n + 1]) /\ g[n] = f[n] /\ i # 0 /\ i - 1 = n
        BY <3>3
      <4> QED
        BY <3>3, <4>1, Zenon
    <3> QED
      BY <3>1, <3>2, <3>3
  <2>4. g = [i \in 0 .. n + 1 |-> g[i]]
    OBVIOUS
  <2> HIDE DEF g
  <2>5. Passing(path, s, g, n + 1)
    BY <2>3, <2>4, Zenon DEF Passing
  <2> QED
    BY <2>5
<1> HIDE DEF S
<1>3. m \in S
  BY <1>1, <1>2, NatSetInduction
<1> QED
  BY <1>3 DEF S

(* No read is on the stack twice.                                           *)
Once(s) == \A i, j \in DOMAIN s : s[i] = s[j] => i = j

Beginning(s, t) == Len(s) <= Len(t) /\ \A i \in 1 .. Len(s) : t[i] = s[i]

LEMMA PushOnce ==
  ASSUME NEW N, NEW s \in Seq(N), NEW t \in Seq(N), Beginning(s, t), Once(t), NEW n \in N,
         n \notin Range(t)
  PROVE  /\ Append(t, n) \in Seq(N) /\ Beginning(s, Append(t, n)) /\ Once(Append(t, n))
         /\ Range(Append(t, n)) = Range(t) \cup {n}
<1> DEFINE u == Append(t, n)
<1>1. /\ u \in Seq(N) /\ Len(u) = Len(t) + 1 /\ u[Len(t) + 1] = n
      /\ \A i \in 1 .. Len(t) : u[i] = t[i]
      /\ DOMAIN u = 1 .. Len(t) + 1 /\ DOMAIN t = 1 .. Len(t)
      /\ Len(t) \in Nat /\ Len(s) \in Nat
  OBVIOUS
<1> HIDE DEF u
<1>2. \A i \in DOMAIN u : (i \in DOMAIN t /\ u[i] = t[i]) \/ (i = Len(t) + 1 /\ u[i] = n)
  BY <1>1
<1>3. \A i \in DOMAIN t : t[i] \in Range(t)
  BY DEF Range
<1>4. Once(u)
  BY <1>2, <1>3 DEF Once
<1>5. Beginning(s, u)
  BY <1>1 DEF Beginning
<1>6. Range(u) = Range(t) \cup {n}
  <2>1. Range(u) \subseteq Range(t) \cup {n}
    BY <1>2, <1>3 DEF Range
  <2>2. n \in Range(u)
    BY <1>1 DEF Range
  <2>3. \A i \in DOMAIN t : i \in DOMAIN u /\ u[i] = t[i]
    BY <1>1
  <2>4. Range(t) \subseteq Range(u)
    BY <2>3 DEF Range
  <2> QED
    BY <2>1, <2>2, <2>4
<1> QED
  BY <1>1, <1>4, <1>5, <1>6 DEF u

LEMMA PassedIs ==
  ASSUME NEW N, NEW path \in Seq(N), slaveInsStack \in Seq(N), Once(slaveInsStack),
         Range(slaveInsStack) \subseteq Reads(path)
  PROVE  LET passed == PassSlaveIns(path)
         IN  /\ passed \in Seq(N) /\ Beginning(slaveInsStack, passed) /\ Once(passed)
             /\ Range(passed) = Reads(path)
<1> DEFINE n == Len(path)
           s == slaveInsStack
           f == CHOOSE f : Passing(path, s, f, n)
           Good(t) == t \in Seq(N) /\ Beginning(s, t) /\ Once(t) /\ Range(t) \subseteq Reads(path)
           Covers(t, i) == \A h \in 1 .. i : IsSlaveIn(path[h]) => path[h] \in Range(t)
           S == {i \in Nat : i <= n => Good(f[i]) /\ Covers(f[i], i)}
<1>0. n \in Nat /\ DOMAIN path = 1 .. n
  OBVIOUS
<1>1. Passing(path, s, f, n)
  BY <1>0, PassingExists
<1>2. PassSlaveIns(path) = f[n]
  BY Zenon DEF PassSlaveIns, Passing, Pass
<1> HIDE DEF f
<1>3. /\ f[0] = s
      /\ \A i \in 1 .. n : f[i] = Pass(f[i - 1], path[i])
  BY <1>0, <1>1, PassingStep
<1>4. 0 \in S
  BY <1>3 DEF Beginning
<1>5. ASSUME NEW i \in Nat, i \in S PROVE i + 1 \in S
  <2> SUFFICES ASSUME i + 1 <= n PROVE Good(f[i + 1]) /\ Covers(f[i + 1], i + 1)
    OBVIOUS
  <2>1. i + 1 \in 1 .. n /\ (i + 1) - 1 = i /\ Good(f[i]) /\ Covers(f[i], i)
    BY <1>0, <1>5
  <2>2. PICK t : t = f[i]
    OBVIOUS
  <2>3. PICK e \in N : e = path[i + 1]
    BY <1>0, <2>1
  <2>4. f[i + 1] = Pass(t, e)
    BY <1>3, <2>1, <2>2, <2>3, Zenon
  <2>5. IsSlaveIn(e) => e \in Reads(path)
    BY <1>0, <2>1, <2>3 DEF Reads, Range
  <2>6. Good(t)
    BY <2>1, <2>2
  <2>7. e \notin Range(t) => /\ Append(t, e) \in Seq(N) /\ Beginning(s, Append(t, e))
                             /\ Once(Append(t, e)) /\ Range(Append(t, e)) = Range(t) \cup {e}
    BY <2>6, PushOnce
  <2>8. Good(f[i + 1])
    BY <2>4, <2>5, <2>6, <2>7 DEF Pass
  <2>9. PICK u : u = f[i + 1]
    OBVIOUS
  <2>10. Range(t) \subseteq Range(u) /\ (IsSlaveIn(e) => e \in Range(u))
    BY <2>4, <2>7, <2>9 DEF Pass
  <2>11. \A h \in 1 .. i + 1 : h \in 1 .. i \/ h = i + 1
    OBVIOUS
  <2>12. \A h \in 1 .. i : IsSlaveIn(path[h]) => path[h] \in Range(t)
    BY <2>1, <2>2
  <2>13. Covers(u, i + 1)
    BY <2>3, <2>10, <2>11, <2>12
  <2> QED
    BY <2>8, <2>9, <2>13
<1> HIDE DEF S, Good, Covers, n
<1>6. n \in S
  BY <1>0, <1>4, <1>5, NatSetInduction
<1>7. Good(f[n]) /\ Covers(f[n], n)
  BY <1>0, <1>6 DEF S
<1>8. Reads(path) \subseteq Range(f[n])
  <2>1. \A e \in Reads(path) : \E h \in 1 .. n : e = path[h] /\ IsSlaveIn(path[h])
    BY <1>0 DEF Reads, Range
  <2> QED
    BY <1>7, <2>1 DEF Covers
<1> QED
  BY <1>2, <1>7, <1>8 DEF Good

LEMMA TriedBothIs ==
  ASSUME NEW N, NEW s \in Seq(N), NEW tried, TriedBoth(s, tried) # << >>
  PROVE  \E m \in 1 .. Len(s) : /\ TriedBoth(s, tried) = SubSeq(s, 1, m)
                                /\ s[m] \notin tried
                                /\ \A i \in m + 1 .. Len(s) : s[i] \in tried
<1> DEFINE left == {k \in DOMAIN s : s[k] \notin tried}
           n == Len(s)
<1>1. n \in Nat /\ DOMAIN s = 1 .. n /\ left \subseteq 0 .. n
  OBVIOUS
<1>2. left # {} /\ TriedBoth(s, tried) = SubSeq(s, 1, Max(left))
  BY DEF TriedBoth
<1>3. Max(left) \in left /\ \A y \in left : y <= Max(left)
  BY <1>1, <1>2, MaxIn
<1>4. PICK m : m = Max(left)
  OBVIOUS
<1>5. m \in 1 .. n /\ s[m] \notin tried
  BY <1>1, <1>3, <1>4
<1>6. \A i \in m + 1 .. n : s[i] \in tried
  <2> SUFFICES ASSUME NEW i \in m + 1 .. n, s[i] \notin tried PROVE FALSE
    OBVIOUS
  <2>1. i \in left /\ i > m
    BY <1>1, <1>5
  <2>2. i <= m
    BY <1>3, <1>4, <2>1
  <2> QED
    BY <1>1, <1>5, <2>1, <2>2
<1> QED
  BY <1>2, <1>4, <1>5, <1>6

(* A way that came up: some read of the stack has been turned since, and    *)
(* those in front of it are as they were.                                   *)
Turned(s, v, synced) ==
  \E j \in DOMAIN s : /\ s[j] \in v /\ s[j] \in synced
                      /\ \A i \in 1 .. j - 1 : s[i] \in synced <=> s[i] \notin v

(* m is the read to be turned: all those behind it are tried both ways. *)
Turnable(N, s, passed, v, tried, m) ==
  /\ s \in Seq(N) /\ passed \in Seq(N) /\ Beginning(s, passed) /\ Once(passed)
  /\ tried = v \ (Range(passed) \ Range(s))
  /\ m \in 1 .. Len(passed) /\ passed[m] \notin tried
  /\ \A i \in m + 1 .. Len(passed) : passed[i] \in tried

TurnedOver(N, s, passed, v, tried, m, rest, now) ==
  /\ \A synced : Turned(s, v, synced) => Turned(rest, now, synced)
  /\ \A reads : Range(passed) \subseteq reads => Turned(rest, now, reads \ tried)
  /\ rest \in Seq(N) /\ rest # << >> /\ Last(rest) = passed[m]
  /\ Once(rest) /\ Range(rest) \subseteq Range(passed)

LEMMA TurnNext ==
  ASSUME NEW N, NEW s, NEW passed, NEW v, NEW tried, NEW m, Turnable(N, s, passed, v, tried, m)
  PROVE  TurnedOver(N, s, passed, v, tried, m, SubSeq(passed, 1, m), tried \cup {passed[m]})
<1> DEFINE rest == SubSeq(passed, 1, m)
           now == tried \cup {passed[m]}
           n == Len(s)
           l == Len(passed)
<1>0. /\ s \in Seq(N) /\ passed \in Seq(N) /\ Beginning(s, passed) /\ Once(passed)
      /\ tried = v \ (Range(passed) \ Range(s))
      /\ m \in 1 .. Len(passed) /\ passed[m] \notin tried
      /\ \A i \in m + 1 .. Len(passed) : passed[i] \in tried
  BY DEF Turnable
<1>1. /\ n \in Nat /\ l \in Nat /\ n <= l /\ DOMAIN s = 1 .. n /\ DOMAIN passed = 1 .. l
      /\ m \in Nat /\ m >= 1 /\ m <= l
      /\ \A i \in 1 .. n : passed[i] = s[i]
  BY <1>0 DEF Beginning
<1>2. /\ rest \in Seq(N) /\ Len(rest) = m /\ DOMAIN rest = 1 .. m
      /\ \A i \in 1 .. m : rest[i] = passed[i]
  BY <1>0, <1>1
<1> HIDE DEF rest, n, l
<1>3. rest # << >> /\ Last(rest) = passed[m]
  BY <1>1, <1>2 DEF Last
<1>4. \A i \in 1 .. m : i \in 1 .. l
  BY <1>1
<1>5. Once(rest) /\ Range(rest) \subseteq Range(passed)
  <2>1. \A i, j \in 1 .. l : passed[i] = passed[j] => i = j
    BY <1>0, <1>1 DEF Once
  <2>2. Once(rest)
    BY <1>2, <1>4, <2>1 DEF Once
  <2>3. Range(rest) \subseteq Range(passed)
    BY <1>1, <1>2, <1>4 DEF Range
  <2> QED
    BY <2>2, <2>3
<1>6. \A i \in 1 .. n : i \in 1 .. l /\ s[i] \in Range(s)
  BY <1>1 DEF Range
<1>7. \A i \in 1 .. n : passed[i] \in tried <=> s[i] \in v
  BY <1>0, <1>1, <1>6
<1>8. passed[m] \notin tried
  BY <1>0
<1>9. \A i \in 1 .. l : i # m => passed[i] # passed[m]
  <2>1. \A i, j \in 1 .. l : passed[i] = passed[j] => i = j
    BY <1>0, <1>1 DEF Once
  <2> QED
    BY <1>1, <2>1
<1>10. ASSUME NEW synced, Turned(s, v, synced) PROVE Turned(rest, now, synced)
  <2>1. PICK j \in 1 .. n : /\ s[j] \in v /\ s[j] \in synced
                            /\ \A i \in 1 .. j - 1 : s[i] \in synced <=> s[i] \notin v
    BY <1>1, <1>10 DEF Turned
  <2>2. passed[j] \in tried /\ j # m
    BY <1>7, <1>8, <2>1
  <2>3. CASE j < m
    <3>1. j \in 1 .. m /\ rest[j] = s[j] /\ rest[j] \in now
      BY <1>1, <1>2, <2>1, <2>2, <2>3
    <3>2. ASSUME NEW i \in 1 .. j - 1 PROVE rest[i] \in synced <=> rest[i] \notin now
      <4>1. i \in 1 .. n /\ i \in 1 .. m /\ i # m
        BY <1>1, <2>1, <2>3
      <4>2. rest[i] = s[i] /\ s[i] = passed[i] /\ passed[i] # passed[m]
        BY <1>1, <1>2, <1>6, <1>9, <4>1
      <4> QED
        BY <1>7, <2>1, <4>1, <4>2
    <3> QED
      BY <1>2, <2>1, <3>1, <3>2 DEF Turned
  <2>4. CASE j > m
    <3>1. m \in 1 .. n /\ m \in 1 .. j - 1 /\ m \in 1 .. m
      BY <1>1, <2>1, <2>4
    <3>2. rest[m] = s[m] /\ s[m] \notin v /\ rest[m] \in now
      BY <1>1, <1>2, <1>7, <1>8, <3>1
    <3>3. s[m] \in synced
      BY <2>1, <3>1, <3>2
    <3>4. ASSUME NEW i \in 1 .. m - 1 PROVE rest[i] \in synced <=> rest[i] \notin now
      <4>1. i \in 1 .. n /\ i \in 1 .. m /\ i # m /\ i \in 1 .. j - 1
        BY <1>1, <2>1, <2>4
      <4>2. rest[i] = s[i] /\ s[i] = passed[i] /\ passed[i] # passed[m]
        BY <1>1, <1>2, <1>6, <1>9, <4>1
      <4> QED
        BY <1>7, <2>1, <4>1, <4>2
    <3> QED
      BY <1>2, <3>1, <3>2, <3>3, <3>4 DEF Turned
  <2> QED
    BY <1>1, <2>1, <2>2, <2>3, <2>4
<1>11. ASSUME NEW reads, Range(passed) \subseteq reads PROVE Turned(rest, now, reads \ tried)
  <2>1. \A i \in 1 .. m : rest[i] \in reads
    BY <1>1, <1>2, <1>4, <1>11 DEF Range
  <2>2. m \in 1 .. m
    BY <1>1
  <2>3. rest[m] \in now /\ rest[m] \in reads \ tried
    BY <1>2, <1>8, <2>1, <2>2
  <2>4. ASSUME NEW i \in 1 .. m - 1 PROVE rest[i] \in reads \ tried <=> rest[i] \notin now
    <3>1. i \in 1 .. m /\ i # m
      BY <1>1
    <3>2. rest[i] # passed[m]
      BY <1>2, <1>4, <1>9, <3>1
    <3> QED
      BY <2>1, <3>1, <3>2
  <2> QED
    BY <1>2, <2>2, <2>3, <2>4 DEF Turned
<1> HIDE DEF now
<1>12. \A synced : Turned(s, v, synced) => Turned(rest, now, synced)
  BY <1>10
<1>13. \A reads : Range(passed) \subseteq reads => Turned(rest, now, reads \ tried)
  BY <1>11
<1> QED
  BY <1>2, <1>3, <1>5, <1>12, <1>13, Zenon DEF TurnedOver, rest, now

(* Where the turn of slave reads stands: what is on the stack belongs to    *)
(* the path that is extended, and of each way of this path that came up     *)
(* some read has been turned since.                                         *)
TurnInv ==
  /\ slaveInsStack \in Seq(Node(cfg)) /\ Once(slaveInsStack)
  /\ slaveInsStack # << >> => /\ at + 1 \in DOMAIN operations
                              /\ Range(slaveInsStack) \subseteq Reads(operations[at + 1])
  /\ \A k \in DOMAIN rawOperations :
       \E j \in DOMAIN operations :
         /\ rawOperations[k].path = operations[j] /\ j <= at + 1
         /\ j = at + 1 => /\ slaveInsStack # << >>
                          /\ Turned(slaveInsStack, visited, rawOperations[k].synced)

WaysInv ==
  /\ stage = "find" => slaveInsStack = << >>
  /\ stage = "extend" => TurnInv
  /\ \A k \in DOMAIN rawOperations : rawOperations[k].synced \subseteq Reads(rawOperations[k].path)
  /\ Differ(rawOperations)

LEMMA WaysFound ==
  ASSUME IInv, RawInv, WaysInv, Differ(operations), Found, UNCHANGED vars
  PROVE  WaysInv'
<1>1. /\ stage = "find" /\ stage' \in {"extend", "explicit"} /\ slaveInsStack' = << >>
      /\ rawOperations = << >> /\ UNCHANGED << cfg, operations >>
      /\ \/ rawOperations' = rawOperations
         \/ rawOperations' = [k \in DOMAIN operations |-> Raw(operations[k], {})]
      /\ stage' = "extend" => rawOperations' = << >>
  BY DEF Found, RawInv, WaysInv, vars, foundVars
<1>2. \A k \in DOMAIN rawOperations' :
        /\ rawOperations'[k].synced = {} /\ k \in DOMAIN operations
        /\ rawOperations'[k].path = operations[k]
  BY <1>1 DEF Raw
<1>3. Differ(rawOperations')
  BY <1>2 DEF Differ
<1>4. ASSUME stage' = "extend" PROVE TurnInv'
  <2>1. rawOperations' = << >> /\ slaveInsStack' = << >>
    BY <1>1, <1>4
  <2>2. << >> \in Seq(Node(cfg')) /\ DOMAIN << >> = {}
    OBVIOUS
  <2> QED
    BY <2>1, <2>2 DEF TurnInv, Once, Range
<1>5. stage' # "find"
  BY <1>1
<1> QED
  BY <1>2, <1>3, <1>4, <1>5 DEF WaysInv, Differ

(* The way that comes up differs from those that came up before.            *)
LEMMA WayIsNew ==
  ASSUME IInv, RawInv, WaysInv, Differ(operations), stage = "extend",
         at + 1 \in DOMAIN operations,
         NEW tried, \A i \in DOMAIN slaveInsStack :
                      slaveInsStack[i] \in visited => slaveInsStack[i] \in tried,
         NEW reads, NEW k \in DOMAIN rawOperations
  PROVE  rawOperations[k] # Raw(operations[at + 1], reads \ tried)
<1> DEFINE new == Raw(operations[at + 1], reads \ tried)
<1> SUFFICES ASSUME rawOperations[k] = new PROVE FALSE
  OBVIOUS
<1>1. rawOperations[k].path = operations[at + 1] /\ rawOperations[k].synced = reads \ tried
  BY DEF Raw
<1>2. PICK j \in DOMAIN operations :
        /\ rawOperations[k].path = operations[j] /\ j <= at + 1
        /\ j = at + 1 => Turned(slaveInsStack, visited, rawOperations[k].synced)
  BY DEF WaysInv, TurnInv
<1>3. j = at + 1
  BY <1>1, <1>2 DEF Differ
<1>4. PICK i \in DOMAIN slaveInsStack : /\ slaveInsStack[i] \in visited
                                        /\ slaveInsStack[i] \in reads \ tried
  BY <1>1, <1>2, <1>3 DEF Turned
<1> QED
  BY <1>4

LEMMA WaysExtended ==
  ASSUME IInv, RawInv, WaysInv, Differ(operations), ExtendRawOperation, UNCHANGED vars
  PROVE  WaysInv'
<1> DEFINE path == operations[at + 1]
           passed == PassSlaveIns(path)
           tried == visited \ (Range(passed) \ Range(slaveInsStack))
           rest == TriedBoth(passed, tried)
           synced == Reads(path) \ tried
           new == Raw(path, synced)
           size == Len(rawOperations)
           N == Node(cfg)
<1>1. /\ stage = "extend" /\ stage' = "extend" /\ at < Len(operations)
      /\ rawOperations' = Append(rawOperations, new)
      /\ slaveInsStack' = IF path[1] = 0 THEN << >> ELSE rest
      /\ visited' = IF slaveInsStack' = << >> THEN {} ELSE tried \cup {Last(rest)}
      /\ at' = IF slaveInsStack' = << >> THEN at + 1 ELSE at
      /\ UNCHANGED << cfg, operations >>
  BY DEF ExtendRawOperation, vars, foundVars, Reads
<1>2. /\ rawOperations \in Seq(Range(rawOperations)) /\ at \in Nat
      /\ TurnInv
  BY <1>1 DEF RawInv, WaysInv
<1>3. at + 1 \in DOMAIN operations /\ path \in Seq(N) /\ operations \in Seq(Seq(N))
  BY <1>1, <1>2 DEF IInv, TypeOK
<1>4. /\ DOMAIN rawOperations' = DOMAIN rawOperations \cup {size + 1}
      /\ \A k \in DOMAIN rawOperations : rawOperations'[k] = rawOperations[k]
      /\ rawOperations'[size + 1] = new
  BY <1>1, <1>2, AppendObject
<1>5. new.path = path /\ new.synced = synced /\ synced \subseteq Reads(path)
  BY DEF Raw
<1>6. /\ slaveInsStack \in Seq(N) /\ Once(slaveInsStack)
      /\ Range(slaveInsStack) \subseteq Reads(path)
  <2>1. slaveInsStack \in Seq(N) /\ Once(slaveInsStack)
    BY <1>2 DEF TurnInv
  <2>2. slaveInsStack = << >> => Range(slaveInsStack) = {}
    BY DEF Range
  <2> QED
    BY <1>2, <2>1, <2>2 DEF TurnInv
<1> HIDE DEF path, passed
<1>7. /\ passed \in Seq(N) /\ Beginning(slaveInsStack, passed) /\ Once(passed)
      /\ Range(passed) = Reads(path)
  BY <1>3, <1>6, PassedIs DEF passed
<1>8. \A i \in DOMAIN slaveInsStack : slaveInsStack[i] \in visited => slaveInsStack[i] \in tried
  BY DEF Range
<1> HIDE DEF tried
<1>9. \A k \in DOMAIN rawOperations : rawOperations[k] # new
  BY <1>1, <1>3, <1>8, WayIsNew DEF path
<1> HIDE DEF rest, new, synced, size, N
<1>10. Differ(rawOperations')
  <2> SUFFICES ASSUME NEW k \in DOMAIN rawOperations', NEW l \in DOMAIN rawOperations',
                      rawOperations'[k] = rawOperations'[l]
               PROVE  k = l
    BY DEF Differ
  <2>1. CASE k \in DOMAIN rawOperations /\ l \in DOMAIN rawOperations
    BY <1>4, <2>1 DEF WaysInv, Differ
  <2> QED
    BY <1>4, <1>9, <2>1
<1>11. \A k \in DOMAIN rawOperations' :
         rawOperations'[k].synced \subseteq Reads(rawOperations'[k].path)
  BY <1>4, <1>5 DEF WaysInv
<1>12. \A k \in DOMAIN rawOperations' :
         \E j \in DOMAIN operations :
           /\ rawOperations'[k].path = operations[j] /\ j <= at + 1
           /\ j = at + 1 => \/ rawOperations'[k].synced = synced
                            \/ Turned(slaveInsStack, visited, rawOperations'[k].synced)
  <2> SUFFICES ASSUME NEW k \in DOMAIN rawOperations'
               PROVE  \E j \in DOMAIN operations :
                        /\ rawOperations'[k].path = operations[j] /\ j <= at + 1
                        /\ j = at + 1 => \/ rawOperations'[k].synced = synced
                                         \/ Turned(slaveInsStack, visited, rawOperations'[k].synced)
    OBVIOUS
  <2>1. CASE k = size + 1
    BY <1>2, <1>3, <1>4, <1>5, <2>1 DEF path
  <2>2. CASE k \in DOMAIN rawOperations
    BY <1>2, <1>4, <2>2 DEF TurnInv
  <2> QED
    BY <1>4, <2>1, <2>2
<1>13. TurnInv'
  <2>1. CASE slaveInsStack' = << >>
    <3>1. at' = at + 1
      BY <1>1, <2>1
    <3>2. ASSUME NEW j \in DOMAIN operations, j <= at + 1 PROVE j <= at' + 1 /\ j # at' + 1
      BY <1>2, <1>3, <3>1, <3>2
    <3>3. << >> \in Seq(N) /\ Once(<< >>)
      BY DEF Once
    <3>4. \A k \in DOMAIN rawOperations' :
            \E j \in DOMAIN operations' :
              /\ rawOperations'[k].path = operations'[j] /\ j <= at' + 1 /\ j # at' + 1
      BY <1>1, <1>12, <3>2
    <3> QED
      BY <1>1, <2>1, <3>3, <3>4 DEF TurnInv, N
  <2>2. CASE slaveInsStack' # << >>
    <3>1. slaveInsStack' = rest /\ visited' = tried \cup {Last(rest)} /\ at' = at
      BY <1>1, <2>2
    <3>2. PICK m \in 1 .. Len(passed) : /\ rest = SubSeq(passed, 1, m)
                                        /\ passed[m] \notin tried
                                        /\ \A i \in m + 1 .. Len(passed) : passed[i] \in tried
      BY <1>7, <2>2, <3>1, TriedBothIs DEF rest
    <3>3. /\ \A c : Turned(slaveInsStack, visited, c) => Turned(rest, tried \cup {passed[m]}, c)
          /\ \A reads : Range(passed) \subseteq reads
                          => Turned(rest, tried \cup {passed[m]}, reads \ tried)
          /\ rest \in Seq(N) /\ rest # << >> /\ Last(rest) = passed[m]
          /\ Once(rest) /\ Range(rest) \subseteq Range(passed)
      <4>1. tried = visited \ (Range(passed) \ Range(slaveInsStack))
        BY DEF tried
      <4>2. Turnable(N, slaveInsStack, passed, visited, tried, m)
        BY <1>6, <1>7, <3>2, <4>1 DEF Turnable
      <4>3. TurnedOver(N, slaveInsStack, passed, visited, tried, m, SubSeq(passed, 1, m),
                       tried \cup {passed[m]})
        BY <4>2, TurnNext, Zenon
      <4> QED
        BY <3>2, <4>3, Zenon DEF TurnedOver
    <3>4. \A c : Turned(slaveInsStack, visited, c) => Turned(slaveInsStack', visited', c)
      BY <3>1, <3>3
    <3>5. Turned(slaveInsStack', visited', synced)
      BY <1>7, <3>1, <3>3 DEF synced
    <3>6. \A k \in DOMAIN rawOperations' :
            \E j \in DOMAIN operations' :
              /\ rawOperations'[k].path = operations'[j] /\ j <= at' + 1
              /\ j = at' + 1 => Turned(slaveInsStack', visited', rawOperations'[k].synced)
      <4> SUFFICES ASSUME NEW k \in DOMAIN rawOperations'
                   PROVE  \E j \in DOMAIN operations :
                            /\ rawOperations'[k].path = operations[j] /\ j <= at + 1
                            /\ j = at + 1 => Turned(slaveInsStack', visited', rawOperations'[k].synced)
        BY <1>1, <3>1
      <4> QED
        BY <1>12, <3>4, <3>5
    <3>7. slaveInsStack' \in Seq(N) /\ Once(slaveInsStack')
      BY <3>1, <3>3
    <3>8. Range(slaveInsStack') \subseteq Reads(path)
      BY <1>7, <3>1, <3>3
    <3>9. Reads(operations[at + 1])' = Reads(path)
      BY <1>1, <3>1 DEF path, Reads, IsSlaveIn
    <3>10. Node(cfg)' = N /\ (at + 1)' \in DOMAIN operations'
      BY <1>1, <1>3, <3>1 DEF N
    <3> QED
      BY <2>2, <3>6, <3>7, <3>8, <3>9, <3>10 DEF TurnInv
  <2> QED
    BY <2>1, <2>2
<1>14. \A p : Reads(p)' = Reads(p)
  BY <1>1 DEF Reads, IsSlaveIn
<1>15. stage' # "find"
  BY <1>1
<1> QED
  BY <1>10, <1>11, <1>13, <1>14, <1>15 DEF WaysInv, Differ

LEMMA NextWaysInv ==
  IInv /\ RawInv /\ CreateInv /\ WaysInv /\ Differ(operations) /\ [HardwareNext]_allVars => WaysInv'
<1> SUFFICES ASSUME IInv, RawInv, CreateInv, WaysInv, Differ(operations), [HardwareNext]_allVars
             PROVE  WaysInv'
  OBVIOUS
<1>1. CASE stage = "find" /\ UNCHANGED createVars
  <2>1. rawOperations' = << >> /\ stage' = "find" /\ slaveInsStack' = << >>
    BY <1>1 DEF createVars, RawInv, WaysInv
  <2> QED
    BY <2>1 DEF WaysInv, Differ
<1>2. CASE UNCHANGED vars /\ UNCHANGED createVars
  <2>1. /\ UNCHANGED << cfg, operations, rawOperations, slaveInsStack, visited, at, stage >>
        /\ \A p : Reads(p)' = Reads(p)
    BY <1>2 DEF createVars, vars, foundVars, Reads, IsSlaveIn
  <2> QED
    BY <2>1 DEF WaysInv, TurnInv, Differ
<1>3. CASE UNCHANGED vars /\ (CreateNext \/ Suite)
  <2>1. CASE Found
    BY <1>3, <2>1, WaysFound
  <2>2. CASE ExtendRawOperation
    BY <1>3, <2>2, WaysExtended
  <2>3. CASE \/ Extended \/ CreateExplicit \/ AllExplicit \/ CreateImplicit \/ AllImplicit
             \/ Reconstruct \/ AllReconstructed \/ FindValid \/ AllValid \/ Optimize \/ Suite
    <3>1. UNCHANGED << cfg, operations, rawOperations >> /\ stage' \notin {"find", "extend"}
      BY <1>3, <2>3 DEF vars, foundVars, Extended, CreateExplicit, AllExplicit, CreateImplicit,
                        AllImplicit, Reconstruct, AllReconstructed, FindValid, AllValid, Optimize, Suite
    <3>2. \A p : Reads(p)' = Reads(p)
      BY <3>1 DEF Reads, IsSlaveIn
    <3> QED
      BY <3>1, <3>2 DEF WaysInv, Differ
  <2> QED
    BY <1>3, <2>1, <2>2, <2>3 DEF CreateNext
<1> QED
  BY <1>1, <1>2, <1>3, Stages

-----------------------------------------------------------------------------
(* All ways come up: none is passed over.                                   *)

(* A way that has yet to come up: where it first differs from the one that  *)
(* does, it leaves out a read.                                              *)
Ahead(passed, tried, synced) ==
  \E i \in DOMAIN passed : /\ passed[i] \notin synced /\ passed[i] \notin tried
                           /\ \A h \in 1 .. i - 1 : passed[h] \in synced <=> passed[h] \notin tried

LEMMA WhereDiffers ==
  ASSUME NEW N, NEW s \in Seq(N), NEW passed \in Seq(N), Beginning(s, passed), Once(passed),
         NEW v, NEW tried, tried = v \ (Range(passed) \ Range(s)),
         NEW synced, synced \subseteq Range(passed)
  PROVE  \/ synced = Range(passed) \ tried
         \/ Turned(s, v, synced)
         \/ Ahead(passed, tried, synced)
<1> DEFINE D == {i \in DOMAIN passed : passed[i] \in synced <=> passed[i] \in tried}
           n == Len(s)
           l == Len(passed)
<1>1. /\ n \in Nat /\ l \in Nat /\ n <= l /\ DOMAIN s = 1 .. n /\ DOMAIN passed = 1 .. l
      /\ \A i \in 1 .. n : passed[i] = s[i]
  BY DEF Beginning
<1> HIDE DEF n, l
<1>2. \A i \in 1 .. n : i \in 1 .. l /\ s[i] \in Range(s)
  BY <1>1 DEF Range
<1>3. \A i \in 1 .. n : passed[i] \in tried <=> s[i] \in v
  BY <1>1, <1>2
<1>4. CASE D = {}
  <2>1. \A e \in Range(passed) : e \in synced <=> e \notin tried
    BY <1>4 DEF Range
  <2> QED
    BY <2>1
<1>5. CASE D # {}
  <2>1. D \in SUBSET Nat
    BY <1>1
  <2>2. PICK i \in D : \A y \in D : i <= y
    BY <1>5, <2>1, SmallestIn
  <2>3. i \in 1 .. l /\ i \in Nat /\ (passed[i] \in synced <=> passed[i] \in tried)
    BY <1>1
  <2>4. ASSUME NEW h \in 1 .. i - 1 PROVE passed[h] \in synced <=> passed[h] \notin tried
    <3>1. h \in 1 .. l /\ ~ i <= h
      BY <1>1, <2>3
    <3>2. h \notin D
      BY <2>2, <3>1
    <3> QED
      BY <1>1, <3>1, <3>2
  <2>5. CASE passed[i] \in synced
    <3>1. passed[i] \in tried /\ passed[i] \in Range(passed)
      BY <1>1, <2>3, <2>5 DEF Range
    <3>2. PICK k \in 1 .. n : passed[i] = s[k]
      BY <1>1, <3>1 DEF Range
    <3>3. k = i
      BY <1>1, <1>2, <2>3, <3>2 DEF Once
    <3>4. s[i] \in v /\ s[i] \in synced
      BY <1>3, <2>5, <3>1, <3>2, <3>3
    <3>5. ASSUME NEW h \in 1 .. i - 1 PROVE s[h] \in synced <=> s[h] \notin v
      <4>1. h \in 1 .. n
        BY <1>1, <2>3, <3>2, <3>3
      <4> QED
        BY <1>1, <1>3, <2>4, <4>1
    <3> QED
      BY <1>1, <3>3, <3>4, <3>5 DEF Turned
  <2>6. CASE passed[i] \notin synced
    BY <1>1, <2>3, <2>4, <2>6 DEF Ahead
  <2> QED
    BY <2>5, <2>6
<1> QED
  BY <1>4, <1>5

(* It does not count as one that came up when the read m has been turned.   *)
LEMMA AheadStays ==
  ASSUME NEW N, NEW s, NEW passed, NEW v, NEW tried, NEW m, Turnable(N, s, passed, v, tried, m),
         NEW synced, Turned(SubSeq(passed, 1, m), tried \cup {passed[m]}, synced),
         Ahead(passed, tried, synced)
  PROVE  FALSE
<1> DEFINE rest == SubSeq(passed, 1, m)
           now == tried \cup {passed[m]}
           l == Len(passed)
<1>0. /\ passed \in Seq(N) /\ Once(passed) /\ m \in 1 .. l /\ passed[m] \notin tried
      /\ \A i \in m + 1 .. l : passed[i] \in tried
  BY DEF Turnable
<1>1. l \in Nat /\ DOMAIN passed = 1 .. l /\ m \in Nat /\ m >= 1 /\ m <= l
  BY <1>0
<1>2. DOMAIN rest = 1 .. m /\ \A i \in 1 .. m : rest[i] = passed[i] /\ i \in 1 .. l
  BY <1>0, <1>1
<1>3. PICK j \in 1 .. m : /\ rest[j] \in now /\ rest[j] \in synced
                          /\ \A h \in 1 .. j - 1 : rest[h] \in synced <=> rest[h] \notin now
  BY <1>2 DEF Turned
<1>4. PICK i \in 1 .. l : /\ passed[i] \notin synced /\ passed[i] \notin tried
                          /\ \A h \in 1 .. i - 1 : passed[h] \in synced <=> passed[h] \notin tried
  BY <1>1 DEF Ahead
<1> HIDE DEF rest, l
<1>5. i <= m
  <2>1. i \notin m + 1 .. l
    BY <1>0, <1>4
  <2> QED
    BY <1>1, <1>4, <2>1
<1>6. CASE j < i
  <2>1. j \in 1 .. i - 1 /\ j # m /\ j \in 1 .. l
    BY <1>1, <1>3, <1>4, <1>5, <1>6
  <2>2. passed[j] # passed[m]
    BY <1>0, <1>1, <2>1 DEF Once
  <2>3. passed[j] \in tried /\ passed[j] \in synced
    BY <1>2, <1>3, <2>2
  <2> QED
    BY <1>4, <2>1, <2>3
<1>7. CASE j = i
  BY <1>2, <1>3, <1>4, <1>7
<1>8. CASE j > i
  <2>1. i \in 1 .. j - 1 /\ i \in 1 .. m /\ i # m
    BY <1>1, <1>3, <1>4, <1>5, <1>8
  <2>2. passed[i] # passed[m]
    BY <1>0, <1>1, <1>4, <2>1 DEF Once
  <2>3. rest[i] \notin now
    BY <1>2, <1>4, <2>1, <2>2
  <2> QED
    BY <1>2, <1>3, <1>4, <2>1, <2>3
<1> QED
  BY <1>1, <1>3, <1>4, <1>6, <1>7, <1>8

(* When no read is left to be turned, none is ahead. *)
LEMMA NoneAhead ==
  ASSUME NEW N, NEW passed \in Seq(N), NEW tried, NEW synced,
         TriedBoth(passed, tried) = << >> \/ Range(passed) = {}
  PROVE  ~ Ahead(passed, tried, synced)
<1> SUFFICES ASSUME NEW i \in DOMAIN passed, passed[i] \notin tried PROVE FALSE
  BY DEF Ahead
<1> DEFINE left == {k \in DOMAIN passed : passed[k] \notin tried}
           n == Len(passed)
<1>1. n \in Nat /\ DOMAIN passed = 1 .. n /\ left \subseteq 0 .. n /\ i \in left
  OBVIOUS
<1>2. passed[i] \in Range(passed)
  BY DEF Range
<1>3. TriedBoth(passed, tried) = SubSeq(passed, 1, Max(left))
  BY <1>1 DEF TriedBoth
<1>4. PICK m \in left : m = Max(left)
  BY <1>1, MaxIn
<1>5. SubSeq(passed, 1, m) # << >>
  <2>1. m \in 1 .. n
    BY <1>1, <1>4
  <2>2. Len(SubSeq(passed, 1, m)) = m
    BY <1>1, <2>1
  <2>3. Len(<< >>) = 0
    OBVIOUS
  <2> QED
    BY <2>1, <2>2, <2>3
<1> QED
  BY <1>2, <1>3, <1>4, <1>5

(* The ways of a path that came up.                                         *)
Came(path, synced) == \E k \in DOMAIN rawOperations : rawOperations[k] = Raw(path, synced)
AllCame(path) == \A synced \in SUBSET Reads(path) : Came(path, synced)

EveryInv ==
  /\ stage = "extend" =>
       /\ \A j \in DOMAIN operations : j <= at => AllCame(operations[j])
       /\ at + 1 \in DOMAIN operations =>
            \A synced \in SUBSET Reads(operations[at + 1]) :
              Turned(slaveInsStack, visited, synced) => Came(operations[at + 1], synced)
  /\ stage \notin {"find", "extend"} => \A j \in DOMAIN operations : AllCame(operations[j])

(* The reset's path is not extended, and there is nothing to extend.        *)
LEMMA ResetReadsNothing ==
  ASSUME CreateInv, SlavesInv, stage # "find", NEW j \in DOMAIN operations, operations[j][1] = 0
  PROVE  Reads(operations[j]) = {}
<1> SUFFICES ASSUME NEW n \in Range(operations[j]), IsSlaveIn(n) PROVE FALSE
  BY DEF Reads
<1>1. Port(cfg, n) \in slaveIn(cfg) /\ IsComm(cfg, n)
  BY DEF IsSlaveIn
<1>2. slaveModule(cfg) /\ phase = "done"
  BY <1>1 DEF slaveModule, CreateInv
<1>3. SlavesValid(operations[j])
  BY <1>2 DEF SlavesInv
<1>4. PICK i \in DOMAIN operations[j] : n = operations[j][i]
  BY DEF Range
<1>5. IsSlave(cfg, n)
  BY <1>1, Zenon DEF IsSlave, slaveIn, Port
<1> QED
  BY <1>1, <1>3, <1>4, <1>5 DEF SlavesValid

LEMMA EveryFound ==
  ASSUME IInv, RawInv, WaysInv, Found, UNCHANGED vars
  PROVE  EveryInv'
<1>1. /\ stage = "find" /\ stage' \in {"extend", "explicit"} /\ at' = 0 /\ slaveInsStack' = << >>
      /\ UNCHANGED << cfg, operations >>
      /\ stage' # "extend" => /\ slaveIn(cfg) = {}
                              /\ rawOperations' = [k \in DOMAIN operations |-> Raw(operations[k], {})]
  BY DEF Found, RawInv, WaysInv, vars, foundVars
<1>2. CASE stage' = "extend"
  <2>1. \A synced : ~ Turned(<< >>, visited', synced)
    BY DEF Turned
  <2>2. \A j \in DOMAIN operations : ~ j <= 0
    BY DEF IInv, TypeOK
  <2> QED
    BY <1>1, <1>2, <2>1, <2>2 DEF EveryInv
<1>3. CASE stage' = "explicit"
  <2>1. \A path : Reads(path)' = {}
    BY <1>1, <1>3 DEF Reads, IsSlaveIn
  <2>2. \A j \in DOMAIN operations : Came(operations[j], {})'
    BY <1>1, <1>3 DEF Came
  <2>3. \A path : Came(path, {})' => AllCame(path)'
    BY <2>1 DEF AllCame
  <2>4. \A j \in DOMAIN operations : AllCame(operations[j])'
    BY <1>1, <2>2, <2>3
  <2> QED
    BY <1>1, <1>3, <2>4 DEF EveryInv
<1> QED
  BY <1>1, <1>2, <1>3

LEMMA EveryExtended ==
  ASSUME IInv, RawInv, CreateInv, SlavesInv, WaysInv, EveryInv, ExtendRawOperation, UNCHANGED vars
  PROVE  EveryInv'
<1>0. PICK path : path = operations[at + 1]
  OBVIOUS
<1> DEFINE s == slaveInsStack
           passed == PassSlaveIns(path)
           tried == visited \ (Range(passed) \ Range(s))
           rest == TriedBoth(passed, tried)
           new == Raw(path, Reads(path) \ tried)
           size == Len(rawOperations)
           N == Node(cfg)
<1>1. /\ stage = "extend" /\ stage' = "extend" /\ at < Len(operations)
      /\ rawOperations' = Append(rawOperations, new)
      /\ slaveInsStack' = IF path[1] = 0 THEN << >> ELSE rest
      /\ visited' = IF slaveInsStack' = << >> THEN {} ELSE tried \cup {Last(rest)}
      /\ at' = IF slaveInsStack' = << >> THEN at + 1 ELSE at
      /\ UNCHANGED << cfg, operations >>
  BY <1>0 DEF ExtendRawOperation, vars, foundVars, Reads
<1>2. rawOperations \in Seq(Range(rawOperations)) /\ at \in Nat /\ TurnInv
  BY <1>1 DEF RawInv, WaysInv
<1>3. at + 1 \in DOMAIN operations /\ path \in Seq(N)
  BY <1>0, <1>1, <1>2 DEF IInv, TypeOK
<1>4. s \in Seq(N) /\ Once(s) /\ Range(s) \subseteq Reads(path)
  <2>1. s = << >> => Range(s) = {}
    BY DEF Range
  <2> QED
    BY <1>0, <1>2, <2>1 DEF TurnInv
<1>5. path[1] = 0 => Reads(path) = {}
  BY <1>0, <1>1, <1>3, ResetReadsNothing
<1>6. /\ \A j \in DOMAIN operations : j <= at => AllCame(operations[j])
      /\ \A synced \in SUBSET Reads(path) : Turned(s, visited, synced) => Came(path, synced)
  BY <1>0, <1>1, <1>3 DEF EveryInv
<1>7. /\ passed \in Seq(N) /\ Beginning(s, passed) /\ Once(passed) /\ Range(passed) = Reads(path)
  BY <1>3, <1>4, PassedIs
<1> HIDE DEF passed
<1>8. ASSUME NEW synced \in SUBSET Reads(path)
      PROVE  \/ synced = Reads(path) \ tried
             \/ Turned(s, visited, synced)
             \/ Ahead(passed, tried, synced)
  <2>1. synced \subseteq Range(passed)
    BY <1>7
  <2>2. PICK t : t = tried
    OBVIOUS
  <2>3. t = visited \ (Range(passed) \ Range(s))
    BY <2>2
  <2>4. \/ synced = Range(passed) \ t
        \/ Turned(s, visited, synced)
        \/ Ahead(passed, t, synced)
    BY <1>4, <1>7, <2>1, <2>3, WhereDiffers
  <2> QED
    BY <1>7, <2>2, <2>4
<1>9. /\ DOMAIN rawOperations' = DOMAIN rawOperations \cup {size + 1}
      /\ \A k \in DOMAIN rawOperations : rawOperations'[k] = rawOperations[k]
      /\ rawOperations'[size + 1] = new
  BY <1>1, <1>2, AppendObject
<1>10. /\ \A p, c : Came(p, c) => Came(p, c)'
       /\ \A p : Reads(p)' = Reads(p)
  BY <1>1, <1>9 DEF Came, Reads, IsSlaveIn
<1> HIDE DEF size, N
<1>11. \A p : AllCame(p) => AllCame(p)'
  BY <1>10 DEF AllCame
<1>12. \A c : c = Reads(path) \ tried => Came(path, c)'
  <2>1. size + 1 \in DOMAIN rawOperations' /\ rawOperations'[size + 1] = new
    BY <1>9
  <2> HIDE DEF tried
  <2>2. \A c : c = Reads(path) \ tried => rawOperations'[size + 1] = Raw(path, c)
    BY <2>1
  <2> QED
    BY <2>1, <2>2 DEF Came
<1> HIDE DEF tried, rest, new
<1>13. ASSUME NEW synced \in SUBSET Reads(path), ~ Ahead(passed, tried, synced)
       PROVE  Came(path, synced)'
  BY <1>6, <1>8, <1>10, <1>12, <1>13
<1>14. CASE slaveInsStack' = << >>
  <2>1. TriedBoth(passed, tried) = << >> \/ Range(passed) = {}
    BY <1>1, <1>5, <1>7, <1>14 DEF rest
  <2>2. \A synced : ~ Ahead(passed, tried, synced)
    BY <1>7, <2>1, NoneAhead
  <2>3. \A synced \in SUBSET Reads(path)' : Came(path, synced)'
    BY <1>10, <1>13, <2>2
  <2>4. AllCame(path)' /\ at' = at + 1 /\ operations' = operations
    BY <1>1, <1>14, <2>3 DEF AllCame
  <2>5. \A j \in DOMAIN operations : j <= at + 1 => AllCame(operations[j])'
    <3> SUFFICES ASSUME NEW j \in DOMAIN operations, j <= at + 1 PROVE AllCame(operations[j])'
      OBVIOUS
    <3>1. j \in Nat
      BY DEF IInv, TypeOK
    <3>2. PICK p : p = operations[j]
      OBVIOUS
    <3>3. AllCame(p)'
      <4>1. j <= at \/ j = at + 1
        BY <1>2, <3>1
      <4> QED
        BY <1>0, <1>6, <1>11, <2>4, <3>2, <4>1
    <3> QED
      BY <2>4, <3>2, <3>3
  <2>6. \A synced : ~ Turned(<< >>, visited', synced)
    BY DEF Turned
  <2> QED
    BY <1>1, <1>14, <2>4, <2>5, <2>6 DEF EveryInv
<1>15. CASE slaveInsStack' # << >>
  <2>1. slaveInsStack' = rest /\ visited' = tried \cup {Last(rest)} /\ at' = at /\ rest # << >>
    BY <1>1, <1>15
  <2>2. PICK m \in 1 .. Len(passed) : /\ rest = SubSeq(passed, 1, m)
                                      /\ passed[m] \notin tried
                                      /\ \A i \in m + 1 .. Len(passed) : passed[i] \in tried
    BY <1>7, <2>1, TriedBothIs DEF rest
  <2>3. Turnable(N, s, passed, visited, tried, m)
    BY <1>4, <1>7, <2>2 DEF Turnable, tried, N
  <2>4. Last(rest) = passed[m]
    <3>1. TurnedOver(N, s, passed, visited, tried, m, SubSeq(passed, 1, m), tried \cup {passed[m]})
      BY <2>3, TurnNext, Zenon
    <3> QED
      BY <2>2, <3>1, Zenon DEF TurnedOver
  <2>5. ASSUME NEW synced \in SUBSET Reads(path), Turned(slaveInsStack', visited', synced)
        PROVE  Came(path, synced)'
    <3>1. Turned(SubSeq(passed, 1, m), tried \cup {passed[m]}, synced)
      BY <2>1, <2>2, <2>4, <2>5
    <3>2. ~ Ahead(passed, tried, synced)
      BY <2>3, <3>1, AheadStays
    <3> QED
      BY <1>13, <3>2
  <2>6. \A j \in DOMAIN operations : j <= at => AllCame(operations[j])'
    <3> SUFFICES ASSUME NEW j \in DOMAIN operations, j <= at PROVE AllCame(operations[j])'
      OBVIOUS
    <3>1. PICK p : p = operations[j]
      OBVIOUS
    <3>2. AllCame(p)'
      BY <1>6, <1>11, <3>1
    <3> QED
      BY <1>1, <3>1, <3>2
  <2>7. path = operations'[at' + 1]
    BY <1>0, <1>1, <2>1
  <2>8. (\A synced \in SUBSET Reads(operations[at + 1]) :
           Turned(slaveInsStack, visited, synced) => Came(operations[at + 1], synced))'
    <3>1. \A synced \in SUBSET Reads(path)' :
            Turned(slaveInsStack', visited', synced) => Came(path, synced)'
      BY <1>10, <2>5
    <3> QED
      BY <2>7, <3>1
  <2> QED
    BY <1>1, <2>1, <2>6, <2>8 DEF EveryInv
<1> QED
  BY <1>14, <1>15

LEMMA NextEveryInv ==
  IInv /\ RawInv /\ CreateInv /\ SlavesInv /\ WaysInv /\ EveryInv /\ [HardwareNext]_allVars => EveryInv'
<1> SUFFICES ASSUME IInv, RawInv, CreateInv, SlavesInv, WaysInv, EveryInv, [HardwareNext]_allVars
             PROVE  EveryInv'
  OBVIOUS
<1>1. CASE stage = "find" /\ UNCHANGED createVars
  BY <1>1 DEF createVars, EveryInv
<1>2. ASSUME UNCHANGED << cfg, operations, rawOperations >>,
             \/ UNCHANGED << stage, at, slaveInsStack, visited >>
             \/ stage' \notin {"find", "extend"} /\ \A j \in DOMAIN operations : AllCame(operations[j])
      PROVE  EveryInv'
  <2>1. \A p : Reads(p)' = Reads(p)
    BY <1>2 DEF Reads, IsSlaveIn
  <2>2. /\ \A p, c : Came(p, c)' <=> Came(p, c)
        /\ \A p : AllCame(p)' <=> AllCame(p)
    BY <1>2, <2>1 DEF Came, AllCame
  <2> QED
    BY <1>2, <2>1, <2>2 DEF EveryInv
<1>3. CASE UNCHANGED vars /\ UNCHANGED createVars
  <2>1. UNCHANGED << cfg, operations, rawOperations, slaveInsStack, visited, at, stage >>
    BY <1>3 DEF createVars, vars, foundVars
  <2> QED
    BY <1>2, <2>1
<1>4. CASE UNCHANGED vars /\ (CreateNext \/ Suite)
  <2>0. UNCHANGED << cfg, operations >>
    BY <1>4 DEF vars, foundVars
  <2>1. CASE Found
    BY <1>4, <2>1, EveryFound
  <2>2. CASE ExtendRawOperation
    BY <1>4, <2>2, EveryExtended
  <2>3. CASE Extended
    <3>1. /\ stage = "extend" /\ stage' = "explicit" /\ at = Len(operations)
          /\ UNCHANGED rawOperations
      BY <2>3 DEF Extended
    <3>2. \A j \in DOMAIN operations : j <= at
      BY <3>1 DEF IInv, TypeOK
    <3> QED
      BY <1>2, <2>0, <3>1, <3>2 DEF EveryInv
  <2>4. CASE \/ CreateExplicit \/ AllExplicit \/ CreateImplicit \/ AllImplicit
             \/ Reconstruct \/ AllReconstructed \/ FindValid \/ AllValid \/ Optimize \/ Suite
    <3>1. /\ UNCHANGED rawOperations /\ stage \notin {"find", "extend"}
          /\ stage' \notin {"find", "extend"}
      BY <2>4 DEF CreateExplicit, AllExplicit, CreateImplicit, AllImplicit, Reconstruct,
                  AllReconstructed, FindValid, AllValid, Optimize, Suite
    <3> QED
      BY <1>2, <2>0, <3>1 DEF EveryInv
  <2> QED
    BY <1>4, <2>1, <2>2, <2>3, <2>4 DEF CreateNext
<1> QED
  BY <1>1, <1>3, <1>4, Stages

-----------------------------------------------------------------------------
(* Two operations of a state contradict each other.                         *)
Contrary(C, D) == \E e : \E v : \/ << e, v, TRUE >> \in C /\ << e, v, FALSE >> \in D
                                \/ << e, v, FALSE >> \in C /\ << e, v, TRUE >> \in D

Apart(o, q) == Contrary(execute(o.stmts).conditions, execute(q.stmts).conditions)

(* A state does not branch and reads no slave port.                         *)
LEMMA StateIsPlain ==
  ASSUME cfg \in Programs, NEW n \in Node(cfg), StateNode(n)
  PROVE  ~ IsBranch(cfg, n) /\ ~ IsSlaveIn(n)
<1>1. CASE n = 0 \/ Op(cfg, n) = "wait"
  <2>1. Op(cfg, n) \in {"reset", "wait"}
    BY <1>1, ProgramsAssumption DEF ProgramsAreGraphs
  <2> QED
    BY <2>1, NodeFacts DEF IsSlaveIn, IsComm, IsRead, IsWrite
<1>2. CASE IsBlocking(cfg, n) \/ IsMaster(cfg, n)
  <2>1. /\ IsComm(cfg, n)
        /\ cfg.ports[Port(cfg, n)] \in {"blocking in", "blocking out", "master in", "master out"}
    BY <1>2 DEF IsBlocking, IsMaster, Blocking, Port
  <2>2. ~ IsSlaveIn(n)
    BY <2>1 DEF IsSlaveIn, slaveIn
  <2> QED
    BY <2>1, <2>2, CommPort
<1> QED
  BY <1>1, <1>2 DEF StateNode

(* A path does not end before another one that it has gone along with.      *)
LEMMA EndsNoSooner ==
  ASSUME NEW p \in Seq(Node(cfg)), NEW q \in Seq(Node(cfg)), IsOperation(p), IsOperation(q),
         \A i \in 1 .. Len(p) : i <= Len(q) => p[i] = q[i]
  PROVE  Len(q) <= Len(p)
<1> SUFFICES ASSUME Len(p) < Len(q) PROVE FALSE
  OBVIOUS
<1>1. Len(p) \in 2 .. Len(q) - 1 /\ Len(p) \in 1 .. Len(p)
  BY DEF IsOperation
<1>2. p[Len(p)] = q[Len(p)]
  BY <1>1
<1>3. IsImportant(p[Len(p)]) /\ ~ IsImportant(q[Len(p)])
  BY <1>1 DEF IsOperation, Last
<1> QED
  BY <1>2, <1>3

(* Two paths of a state that differ part at a branching.                    *)
LEMMA ForkIs ==
  ASSUME cfg \in Programs, StatesInv,
         NEW p \in Seq(Node(cfg)), NEW q \in Seq(Node(cfg)), IsOperation(p), IsOperation(q),
         Follows(p), Follows(q), IsImportant(p[1]), p[1] = q[1], p # q
  PROVE  \E j \in 0 .. Len(p) - 3 :
           /\ j <= Len(q) - 3
           /\ \A i \in 1 .. j + 2 : p[i] = q[i]
           /\ IsBranch(cfg, p[j + 2])
           /\ \/ p[j + 3] = p[j + 2] + 1 /\ q[j + 3] # p[j + 2] + 1
              \/ p[j + 3] # p[j + 2] + 1 /\ q[j + 3] = p[j + 2] + 1
<1> DEFINE S == {i \in Nat : i >= 1 /\ i <= Len(p) /\ i <= Len(q) /\ p[i] # q[i]}
<1>1. Len(p) \in Nat /\ Len(q) \in Nat /\ Len(p) > 1 /\ Len(q) > 1
  BY DEF IsOperation
<1>2. S # {}
  <2> SUFFICES ASSUME S = {} PROVE FALSE
    OBVIOUS
  <2>1. \A i \in Nat : i >= 1 /\ i <= Len(p) /\ i <= Len(q) => p[i] = q[i]
    OBVIOUS
  <2>2. Len(p) = Len(q)
    <3>1. Len(q) <= Len(p)
      BY <1>1, <2>1, EndsNoSooner
    <3>2. Len(p) <= Len(q)
      BY <1>1, <2>1, EndsNoSooner
    <3> QED
      BY <1>1, <3>1, <3>2
  <2>3. \A i \in 1 .. Len(p) : p[i] = q[i]
    BY <1>1, <2>1, <2>2
  <2> QED
    BY <2>2, <2>3
<1>3. PICK k \in S : \A i \in S : k <= i
  <2>1. S \in SUBSET Nat
    OBVIOUS
  <2> QED
    BY <1>2, <2>1, SmallestIn
<1>4. /\ k \in Nat /\ k >= 2 /\ k <= Len(p) /\ k <= Len(q) /\ p[k] # q[k]
      /\ \A i \in 1 .. k - 1 : p[i] = q[i]
  <2>1. k \in Nat /\ k >= 1 /\ k <= Len(p) /\ k <= Len(q) /\ p[k] # q[k]
    BY <1>3
  <2>2. k # 1
    BY <2>1
  <2>3. ASSUME NEW i \in 1 .. k - 1 PROVE p[i] = q[i]
    <3>1. i \notin S
      BY <1>3, <2>1
    <3> QED
      BY <1>1, <2>1, <3>1
  <2> QED
    BY <2>1, <2>2, <2>3
<1> HIDE DEF S
<1>5. PICK n \in Node(cfg) : n = p[k - 1] /\ n = q[k - 1]
  BY <1>1, <1>4
<1>6. p[k] \in Range(Succ(cfg, n)) /\ q[k] \in Range(Succ(cfg, n))
  <2>1. /\ k - 1 \in 1 .. Len(p) - 1 /\ k - 1 \in 1 .. Len(q) - 1 /\ (k - 1) + 1 = k
    BY <1>1, <1>4
  <2> QED
    BY <1>5, <2>1 DEF Follows
<1>7. IsBranch(cfg, n) /\ {p[k], q[k]} \subseteq {Succ(cfg, n)[1], Succ(cfg, n)[2]}
  BY <1>4, <1>6, SuccessorIs
<1>8. Succ(cfg, n)[1] = n + 1 /\ Succ(cfg, n)[2] # n + 1
  BY <1>7, NodeFacts
<1>9. k # 2
  <2> SUFFICES ASSUME k = 2 PROVE FALSE
    OBVIOUS
  <2>1. n = p[1]
    BY <1>5
  <2>2. StateNode(n)
    BY <2>1 DEF StatesInv, IsImportant
  <2> QED
    BY <1>7, <2>2, StateIsPlain
<1>10. PICK j : j = k - 3
  OBVIOUS
<1>11. /\ j \in 0 .. Len(p) - 3 /\ j <= Len(q) - 3 /\ j + 2 = k - 1 /\ j + 3 = k
  BY <1>1, <1>4, <1>9, <1>10
<1>12. \/ p[k] = n + 1 /\ q[k] # n + 1
       \/ p[k] # n + 1 /\ q[k] = n + 1
  BY <1>4, <1>7, <1>8
<1> QED
  BY <1>4, <1>5, <1>7, <1>11, <1>12

(* What a statement on the path requires, the operation requires.           *)
LEMMA StatementSays ==
  ASSUME IInv, OrderInv, stage # "find", CreateInv, NEW i \in DOMAIN operations,
         NEW o, NEW synced, NEW first, Goes(o, operations[i], synced, first),
         NEW j \in 0 .. Len(operations[i]) - 3,
         NEW x \in Executed(cfg), NEW more \in Seq(Executed(cfg)),
         Part(operations[i], synced, j + 1) = << x >> \o more
  PROVE  LET sym == execute(Upto(first, operations[i], synced, j))
         IN  /\ Symbolic(sym)
             /\ Execute(sym, x).conditions \subseteq execute(o.stmts).conditions
<1> DEFINE A == Given(cfg) \cup Unknown(Vars)
<1>1. PICK path : path = operations[i]
  OBVIOUS
<1>2. /\ cfg \in Programs /\ path \in Seq(Node(cfg)) /\ Len(path) > 1
  BY <1>1, PathIs
<1>3. PICK E : E = Executed(cfg)
  OBVIOUS
<1>4. /\ first \in Seq(E)
      /\ \A l \in 0 .. Len(path) - 2 :
           /\ Upto(first, path, synced, l) \in Seq(E)
           /\ Over(execute(Upto(first, path, synced, l)), A)
           /\ execute(Upto(first, path, synced, l)).conditions \subseteq execute(o.stmts).conditions
  BY <1>1, <1>3, GoesWithin
<1>5. /\ j \in 0 .. Len(path) - 2 /\ j + 1 \in 0 .. Len(path) - 2 /\ j # Len(path) - 2
  BY <1>1, <1>2
<1> HIDE DEF A
<1>6. PICK pre : pre = Upto(first, path, synced, j)
  OBVIOUS
<1>7. Upto(first, path, synced, j + 1) = pre \o (<< x >> \o more)
  <2>1. Upto(first, path, synced, j + 1)
          = Upto(first, path, synced, j) \o Part(path, synced, j + 1)
    BY <1>2, <1>3, <1>4, <1>5, UptoParts
  <2> QED
    BY <1>1, <1>6, <2>1
<1>8. pre \in Seq(E) /\ Over(execute(pre), A)
  BY <1>4, <1>5, <1>6
<1>9. x \in E /\ << x >> \in Seq(E) /\ more \in Seq(E)
  BY <1>3, ShortSeqs
<1>10. pre \o (<< x >> \o more) = (pre \o << x >>) \o more /\ pre \o << x >> \in Seq(E)
  <2>1. PICK y : y = << x >>
    OBVIOUS
  <2>2. pre \in Seq(E) /\ y \in Seq(E) /\ more \in Seq(E)
    BY <1>8, <1>9, <2>1
  <2>3. pre \o (y \o more) = (pre \o y) \o more
    BY <2>2, ConcatAssociative, SMTT(30)
  <2>4. pre \o y \in Seq(E)
    BY <2>2, ConcatProperties
  <2> QED
    BY <2>1, <2>3, <2>4
<1>11. execute(pre \o << x >>) = Execute(execute(pre), x)
  BY <1>8, <1>9, ExecuteOne
<1>12. Given(cfg) \subseteq A
  BY DEF A
<1>13. Over(Execute(execute(pre), x), A)
  <2>1. Unknown(Vars) \subseteq A
    BY DEF A
  <2> QED
    BY <1>2, <1>3, <1>8, <1>9, <1>12, <2>1, ExecuteOver
<1>14. Execute(execute(pre), x).conditions \subseteq execute((pre \o << x >>) \o more).conditions
  <2>1. pre \o << x >> \in Seq(Executed(cfg)) /\ more \in Seq(Executed(cfg))
    BY <1>3, <1>9, <1>10
  <2> QED
    BY <1>11, <1>12, <1>13, <2>1, ExecuteMore
<1>15. execute(Upto(first, path, synced, j + 1)).conditions \subseteq execute(o.stmts).conditions
  BY <1>4, <1>5
<1> QED
  BY <1>1, <1>6, <1>7, <1>8, <1>10, <1>14, <1>15 DEF Over

(* A slave read on the path that takes place requires that the master is    *)
(* there, one that does not that it is not.                                 *)
LEMMA SyncSays ==
  ASSUME IInv, OrderInv, stage # "find", CreateInv, NEW i \in DOMAIN operations,
         NEW o, NEW synced, NEW first, Goes(o, operations[i], synced, first),
         NEW j \in 0 .. Len(operations[i]) - 3, NEW n, n = operations[i][j + 2], IsSlaveIn(n)
  PROVE  /\ n \in synced => << << "sync", Port(cfg, n) >>, 1, TRUE >> \in execute(o.stmts).conditions
         /\ n \notin synced =>
              << << "sync", Port(cfg, n) >>, 1, FALSE >> \in execute(o.stmts).conditions
<1> DEFINE E == Executed(cfg)
           s == cfg.stmt[n]
           part == Part(operations[i], synced, j + 1)
           yes == Sync(s.port, TRUE)
           no == Sync(s.port, FALSE)
<1>1. cfg \in Programs /\ n \in Node(cfg)
  <2>1. PICK path : path = operations[i]
    OBVIOUS
  <2>2. cfg \in Programs /\ path \in Seq(Node(cfg)) /\ Len(path) > 1
    BY <2>1, PathIs
  <2>3. j + 2 \in 1 .. Len(path)
    BY <2>1, <2>2
  <2> QED
    BY <2>1, <2>2, <2>3
<1>2. IsComm(cfg, n)
  BY DEF IsSlaveIn
<1>3. /\ s.port \in DOMAIN cfg.ports /\ Port(cfg, n) = s.port /\ ~ IsBranch(cfg, n)
  BY <1>1, <1>2, CommPort
<1>4. s \in E /\ yes \in E /\ no \in E /\ (IsNonBlockingAccess(cfg, n) => Flag(s) \in E)
  BY <1>1, <1>2, <1>3, NodeFacts, SyncType, FlagType DEF Executed
<1>5. part = Inner(s, n, synced)
  <2>1. (j + 1) + 1 = j + 2
    OBVIOUS
  <2>2. Stmt(cfg, n, operations[i][(j + 1) + 2]) = s
    BY <1>1, <1>3, StmtType
  <2> QED
    BY <2>1, <2>2 DEF Part
<1>6. ASSUME NEW x \in E, NEW h \in BOOLEAN, NEW more \in Seq(E), part = << x >> \o more,
             x = Sync(s.port, h)
      PROVE  << << "sync", s.port >>, 1, h >> \in execute(o.stmts).conditions
  <2>1. PICK sym : sym = execute(Upto(first, operations[i], synced, j))
    OBVIOUS
  <2>2. Symbolic(sym) /\ Execute(sym, x).conditions \subseteq execute(o.stmts).conditions
    BY <1>6, <2>1, StatementSays
  <2>3. Execute(sym, x).conditions = sym.conditions \cup {<< << "sync", s.port >>, 1, h >>}
    <3>1. PICK p : p = s.port
      OBVIOUS
    <3>2. x.op = "sync" /\ x.port = p /\ x.holds = h
      BY <1>6, <3>1 DEF Sync
    <3>3. Execute(sym, x).conditions
            = sym.conditions \cup {<< << "sync", x.port >>, 1, x.holds >>}
      BY <2>2, <3>2, ExecuteCollects
    <3> QED
      BY <3>1, <3>2, <3>3
  <2> QED
    BY <2>2, <2>3
<1> HIDE DEF part, s, yes, no
<1>7. CASE n \in synced
  <2>1. << s >> \in Seq(E) /\ << yes, s >> = << yes >> \o << s >>
    BY <1>4, ShortSeqs
  <2>2. part = << yes, s >>
    BY <1>5, <1>7 DEF Inner, yes
  <2>3. << << "sync", s.port >>, 1, TRUE >> \in execute(o.stmts).conditions
    BY <1>4, <1>6, <2>1, <2>2 DEF yes
  <2> QED
    BY <1>3, <1>7, <2>3
<1>8. CASE n \notin synced
  <2>1. PICK more : more = IF IsNonBlockingAccess(cfg, n) THEN << Flag(s) >> ELSE << >>
    OBVIOUS
  <2>2. more \in Seq(E)
    <3>1. IsNonBlockingAccess(cfg, n) => << Flag(s) >> \in Seq(E)
      BY <1>4, ShortSeqs
    <3>2. << >> \in Seq(E)
      OBVIOUS
    <3> QED
      BY <2>1, <3>1, <3>2
  <2>3. part = << no >> \o more
    BY <1>5, <1>8, <2>1 DEF Inner, no
  <2>4. << << "sync", s.port >>, 1, FALSE >> \in execute(o.stmts).conditions
    BY <1>4, <1>6, <2>2, <2>3 DEF no
  <2> QED
    BY <1>3, <1>8, <2>4
<1> QED
  BY <1>7, <1>8

(* A branching on the path requires its condition or the negation of it.    *)
LEMMA BranchSays ==
  ASSUME IInv, OrderInv, stage # "find", CreateInv, NEW i \in DOMAIN operations,
         NEW o, NEW synced, NEW first, Goes(o, operations[i], synced, first),
         NEW j \in 0 .. Len(operations[i]) - 3, NEW n, n = operations[i][j + 2], IsBranch(cfg, n)
  PROVE  LET sym == execute(Upto(first, operations[i], synced, j))
             s == cfg.stmt[n]
         IN  /\ operations[i][j + 3] = n + 1 =>
                  << sym.map[s.var], s.val, TRUE >> \in execute(o.stmts).conditions
             /\ operations[i][j + 3] # n + 1 =>
                  << sym.map[s.var], s.val, FALSE >> \in execute(o.stmts).conditions
<1> DEFINE E == Executed(cfg)
           s == cfg.stmt[n]
           m == operations[i][j + 3]
           x == Stmt(cfg, n, m)
<1>1. cfg \in Programs /\ n \in Node(cfg)
  <2>1. PICK path : path = operations[i]
    OBVIOUS
  <2>2. cfg \in Programs /\ path \in Seq(Node(cfg)) /\ Len(path) > 1
    BY <2>1, PathIs
  <2>3. j + 2 \in 1 .. Len(path)
    BY <2>1, <2>2
  <2> QED
    BY <2>1, <2>2, <2>3
<1>2. Op(cfg, n) = "if" /\ s \in StatementsOf(cfg)
  BY <1>1, NodeFacts
<1>3. s \in [op : {"if"}, var : Vars, val : Values, holds : BOOLEAN]
  BY <1>2 DEF StatementsOf, Op
<1>4. x = [s EXCEPT !.holds = (m = n + 1)]
  BY DEF Stmt
<1>5. x.op = "if" /\ x.var = s.var /\ x.val = s.val /\ x \in E
  <2>1. x \in StatementsOf(cfg)
    BY <1>1, StmtType
  <2> QED
    BY <1>3, <1>4, <2>1 DEF Executed
<1>6. /\ m = n + 1 => x.holds = TRUE
      /\ m # n + 1 => x.holds = FALSE
  BY <1>3, <1>4
<1>7. ~ IsSlaveIn(n)
  BY <1>2 DEF IsSlaveIn, IsComm, IsRead, IsWrite
<1>8. Part(operations[i], synced, j + 1) = << x >>
  <2>1. (j + 1) + 1 = j + 2 /\ (j + 1) + 2 = j + 3
    OBVIOUS
  <2>2. Inner(x, n, synced) = << x >>
    BY <1>7 DEF Inner
  <2> QED
    BY <2>1, <2>2 DEF Part
<1> HIDE DEF x
<1>9. Part(operations[i], synced, j + 1) = << x >> \o << >> /\ << >> \in Seq(E)
  BY <1>5, <1>8, ShortSeqs
<1>10. PICK sym : sym = execute(Upto(first, operations[i], synced, j))
  OBVIOUS
<1>11. Symbolic(sym) /\ Execute(sym, x).conditions \subseteq execute(o.stmts).conditions
  BY <1>5, <1>9, <1>10, StatementSays
<1>12. Execute(sym, x).conditions = sym.conditions \cup {<< sym.map[s.var], s.val, x.holds >>}
  BY <1>5, <1>11, ExecuteCollects
<1>13. << sym.map[s.var], s.val, x.holds >> \in execute(o.stmts).conditions
  BY <1>11, <1>12
<1> HIDE DEF m, s
<1>14. /\ m = n + 1 => << sym.map[s.var], s.val, TRUE >> \in execute(o.stmts).conditions
       /\ m # n + 1 => << sym.map[s.var], s.val, FALSE >> \in execute(o.stmts).conditions
  BY <1>6, <1>13
<1> QED
  BY <1>10, <1>14 DEF m, s

(* Ways that have gone along have said the same.                            *)
LEMMA SameUpto ==
  ASSUME NEW p, NEW r, NEW s, NEW t, NEW first, NEW j \in Nat,
         \A i \in 1 .. j + 2 : p[i] = r[i],
         \A i \in 2 .. j + 1 : IsSlaveIn(p[i]) => (p[i] \in s <=> p[i] \in t)
  PROVE  Upto(first, p, s, j) = Upto(first, r, t, j)
<1>1. ASSUME NEW i \in 1 .. j PROVE Part(p, s, i) = Part(r, t, i)
  <2>1. p[i + 1] = r[i + 1] /\ p[i + 2] = r[i + 2]
    OBVIOUS
  <2>2. PICK n : n = p[i + 1]
    OBVIOUS
  <2>3. PICK m : m = p[i + 2]
    OBVIOUS
  <2>4. IsSlaveIn(n) => (n \in s <=> n \in t)
    <3>1. i + 1 \in 2 .. j + 1
      OBVIOUS
    <3> QED
      BY <2>2, <3>1
  <2>5. Inner(Stmt(cfg, n, m), n, s) = Inner(Stmt(cfg, n, m), n, t)
    BY <2>4, Zenon DEF Inner
  <2> QED
    BY <2>1, <2>2, <2>3, <2>5 DEF Part
<1>2. Parts(p, s, j) = Parts(r, t, j)
  BY <1>1 DEF Parts
<1> QED
  BY <1>2 DEF Upto

(* Of the operations that begin alike no two are open at a time: their ways *)
(* part at a branching, or at a slave read that takes place on one of them. *)
LEMMA WaysApart ==
  ASSUME IInv, StatesInv, OrderInv, stage # "find", CreateInv,
         NEW i \in DOMAIN operations, NEW l \in DOMAIN operations,
         NEW o, NEW q, NEW s, NEW t, NEW first,
         Goes(o, operations[i], s, first), Goes(q, operations[l], t, first),
         operations[i][1] = operations[l][1],
         s \subseteq Reads(operations[i]), t \subseteq Reads(operations[l]),
         operations[i] # operations[l] \/ s # t
  PROVE  Apart(o, q)
<1>1. PICK p : p = operations[i]
  OBVIOUS
<1>2. PICK r : r = operations[l]
  OBVIOUS
<1>3. /\ cfg \in Programs /\ p \in Seq(Node(cfg)) /\ Len(p) > 1 /\ IsOperation(p) /\ Follows(p)
      /\ p[1] \in Node(cfg) /\ IsImportant(p[1])
  BY <1>1, PathIs
<1>4. r \in Seq(Node(cfg)) /\ Len(r) > 1 /\ IsOperation(r) /\ Follows(r)
  BY <1>2, PathIs
<1>5. PICK C : C = execute(o.stmts).conditions
  OBVIOUS
<1>6. PICK D : D = execute(q.stmts).conditions
  OBVIOUS
<1> DEFINE Forks(j) == /\ IsSlaveIn(p[j + 2]) /\ p[j + 2] = r[j + 2]
                       /\ ~ (p[j + 2] \in s <=> p[j + 2] \in t)
<1>7. ASSUME NEW j \in 0 .. Len(p) - 3, j <= Len(r) - 3, Forks(j) PROVE Contrary(C, D)
  <2>1. PICK n : n = p[j + 2] /\ n = r[j + 2]
    BY <1>7
  <2>2. j \in 0 .. Len(r) - 3
    BY <1>3, <1>4, <1>7
  <2>3. /\ n \in s => << << "sync", Port(cfg, n) >>, 1, TRUE >> \in C
        /\ n \notin s => << << "sync", Port(cfg, n) >>, 1, FALSE >> \in C
    BY <1>1, <1>5, <1>7, <2>1, SyncSays
  <2>4. /\ n \in t => << << "sync", Port(cfg, n) >>, 1, TRUE >> \in D
        /\ n \notin t => << << "sync", Port(cfg, n) >>, 1, FALSE >> \in D
    BY <1>2, <1>6, <1>7, <2>1, <2>2, SyncSays
  <2>5. ~ (n \in s <=> n \in t)
    BY <1>7, <2>1
  <2>6. PICK e : e = << "sync", Port(cfg, n) >>
    OBVIOUS
  <2>7. \/ << e, 1, TRUE >> \in C /\ << e, 1, FALSE >> \in D
        \/ << e, 1, FALSE >> \in C /\ << e, 1, TRUE >> \in D
    BY <2>3, <2>4, <2>5, <2>6
  <2> QED
    BY <2>7 DEF Contrary
<1>8. ASSUME p # r, \A j \in 0 .. Len(p) - 3 : j <= Len(r) - 3 => ~ Forks(j)
      PROVE  Contrary(C, D)
  <2>1. p[1] = r[1]
    BY <1>1, <1>2
  <2>2. PICK j \in 0 .. Len(p) - 3 :
           /\ j <= Len(r) - 3
           /\ \A k \in 1 .. j + 2 : p[k] = r[k]
           /\ IsBranch(cfg, p[j + 2])
           /\ \/ p[j + 3] = p[j + 2] + 1 /\ r[j + 3] # p[j + 2] + 1
              \/ p[j + 3] # p[j + 2] + 1 /\ r[j + 3] = p[j + 2] + 1
    BY <1>3, <1>4, <1>8, <2>1, ForkIs
  <2>3. PICK n : n = p[j + 2] /\ n = r[j + 2]
    BY <2>2
  <2>4. IsBranch(cfg, n) /\ j \in 0 .. Len(r) - 3 /\ j \in Nat
    BY <1>3, <1>4, <2>2, <2>3
  <2>5. ASSUME NEW k \in 2 .. j + 1, IsSlaveIn(p[k]) PROVE p[k] \in s <=> p[k] \in t
    <3>1. PICK m : m = k - 2
      OBVIOUS
    <3>2. m \in 0 .. Len(p) - 3 /\ m <= Len(r) - 3 /\ m + 2 = k /\ k \in 1 .. j + 2
      BY <1>3, <1>4, <2>2, <3>1
    <3>3. ~ Forks(m)
      BY <1>8, <3>2
    <3> QED
      BY <2>2, <2>5, <3>2, <3>3
  <2>6. Upto(first, p, s, j) = Upto(first, r, t, j)
    BY <2>2, <2>4, <2>5, SameUpto
  <2>7. PICK sym : sym = execute(Upto(first, p, s, j)) /\ sym = execute(Upto(first, r, t, j))
    BY <2>6
  <2>8. PICK st : st = cfg.stmt[n]
    OBVIOUS
  <2>9. /\ p[j + 3] = n + 1 => << sym.map[st.var], st.val, TRUE >> \in C
        /\ p[j + 3] # n + 1 => << sym.map[st.var], st.val, FALSE >> \in C
    BY <1>1, <1>5, <2>3, <2>4, <2>7, <2>8, BranchSays
  <2>10. /\ r[j + 3] = n + 1 => << sym.map[st.var], st.val, TRUE >> \in D
         /\ r[j + 3] # n + 1 => << sym.map[st.var], st.val, FALSE >> \in D
    BY <1>2, <1>6, <2>3, <2>4, <2>7, <2>8, BranchSays
  <2>11. PICK e : e = sym.map[st.var]
    OBVIOUS
  <2>12. \/ << e, st.val, TRUE >> \in C /\ << e, st.val, FALSE >> \in D
         \/ << e, st.val, FALSE >> \in C /\ << e, st.val, TRUE >> \in D
    BY <2>2, <2>3, <2>9, <2>10, <2>11
  <2> QED
    BY <2>12 DEF Contrary
<1>9. ASSUME p = r PROVE \E j \in 0 .. Len(p) - 3 : j <= Len(r) - 3 /\ Forks(j)
  <2>1. PICK n : ~ (n \in s <=> n \in t)
    BY <1>1, <1>2, <1>9
  <2>2. n \in Reads(p)
    BY <1>1, <1>2, <1>9, <2>1
  <2>3. PICK m \in 1 .. Len(p) : p[m] = n /\ IsSlaveIn(n)
    BY <1>3, <2>2 DEF Reads, Range
  <2>4. \A k \in Node(cfg) : IsImportant(k) => ~ IsSlaveIn(k)
    BY <1>3, StateIsPlain DEF StatesInv, IsImportant
  <2>5. m # 1
    BY <1>3, <2>3, <2>4
  <2>6. m # Len(p)
    <3>1. p[Len(p)] \in Node(cfg) /\ IsImportant(p[Len(p)])
      BY <1>3 DEF IsOperation, Last
    <3> QED
      BY <2>3, <2>4, <3>1
  <2>7. PICK j : j = m - 2
    OBVIOUS
  <2>8. j \in 0 .. Len(p) - 3 /\ j + 2 = m
    BY <1>3, <2>3, <2>5, <2>6, <2>7
  <2>9. Forks(j)
    BY <1>9, <2>1, <2>3, <2>8
  <2>10. j <= Len(r) - 3
    BY <1>3, <1>9, <2>8
  <2> HIDE DEF Forks
  <2> QED
    BY <2>8, <2>9, <2>10, Zenon
<1> HIDE DEF Forks
<1>10. Contrary(C, D)
  BY <1>7, <1>8, <1>9
<1> QED
  BY <1>5, <1>6, <1>10 DEF Apart

-----------------------------------------------------------------------------
(* The synchronization at which an operation starts is required of it.      *)
LEMMA FirstSays ==
  ASSUME cfg \in Programs, NEW p \in DOMAIN cfg.ports, NEW h \in BOOLEAN,
         NEW more \in Seq(Executed(cfg))
  PROVE  << << "sync", p >>, 1, h >> \in execute(<< Sync(p, h) >> \o more).conditions
<1> DEFINE a == Sync(p, h)
           A == Given(cfg) \cup Unknown(Vars)
           E == Executed(cfg)
<1>1. a \in E
  BY SyncType
<1>2. << a >> \in Seq(E) /\ execute(<< a >>) = Execute(Start, a)
  BY <1>1, ExecuteShort, ShortSeqs
<1>3. Given(cfg) \subseteq A /\ Unknown(Vars) \subseteq A
  OBVIOUS
<1>4. a.op = "sync" /\ a.port = p /\ a.holds = h
  BY DEF Sync
<1> HIDE DEF A
<1>5. Over(Start, A)
  BY <1>3, StartOver
<1>6. Over(Execute(Start, a), A)
  BY <1>1, <1>3, <1>5, ExecuteOver
<1> HIDE DEF a
<1>7. Execute(Start, a).conditions \subseteq execute(<< a >> \o more).conditions
  BY <1>2, <1>3, <1>6, ExecuteMore
<1>8. Execute(Start, a).conditions
        = Start.conditions \cup {<< << "sync", a.port >>, 1, a.holds >>}
  BY <1>4, <1>5, ExecuteCollects DEF Over
<1>9. << << "sync", p >>, 1, h >> \in Execute(Start, a).conditions
  BY <1>4, <1>8
<1> QED
  BY <1>7, <1>9 DEF a

(* What a blocking communication leaves to be said depends on its partner.  *)
LEMMA BlockingStarts ==
  ASSUME cfg \in Programs, NEW n \in Node(cfg), IsBlocking(cfg, n)
  PROVE  LET p == Port(cfg, n)
             said(first, h) == /\ first \in Seq(Executed(cfg))
                               /\ << << "sync", p >>, 1, h >> \in execute(first).conditions
         IN  /\ said(First(n), TRUE) /\ said(WaitStatements(n), FALSE)
             /\ IsNonBlockingAccess(cfg, n) => said(FirstNotSynced(n), FALSE)
<1> DEFINE s == cfg.stmt[n]
           p == s.port
           E == Executed(cfg)
           flag == Flag(s)
           yes == Sync(p, TRUE)
           no == Sync(p, FALSE)
<1>1. IsComm(cfg, n)
  BY DEF IsBlocking
<1>2. p \in DOMAIN cfg.ports /\ Port(cfg, n) = p
  BY <1>1, CommPort
<1>3. s \in E /\ (IsNonBlockingAccess(cfg, n) => flag \in E) /\ yes \in E /\ no \in E
  BY <1>1, <1>2, NodeFacts, FlagType, SyncType DEF Executed
<1> DEFINE said(first, h) == /\ first \in Seq(E)
                             /\ << << "sync", p >>, 1, h >> \in execute(first).conditions
<1>4. ASSUME NEW h \in BOOLEAN, NEW more \in Seq(E)
      PROVE  << << "sync", p >>, 1, h >> \in execute(<< Sync(p, h) >> \o more).conditions
  BY <1>2, FirstSays
<1>5. << >> \in Seq(E) /\ << s >> \in Seq(E) /\ (IsNonBlockingAccess(cfg, n) => << flag >> \in Seq(E))
  <2> HIDE DEF s, E, flag
  <2>1. << >> \in Seq(E)
    OBVIOUS
  <2>2. << s >> \in Seq(E)
    BY <1>3, ShortSeqs
  <2>3. IsNonBlockingAccess(cfg, n) => << flag >> \in Seq(E)
    BY <1>3, ShortSeqs
  <2> QED
    BY <2>1, <2>2, <2>3
<1>6. First(n) \in Seq(E) /\ WaitStatements(n) \in Seq(E)
      /\ (IsNonBlockingAccess(cfg, n) => FirstNotSynced(n) \in Seq(E))
  BY FirstType DEF Starts
<1> HIDE DEF E, flag, s
<1>7. said(First(n), TRUE)
  <2>1. PICK more : more = CASE IsRead(cfg, n) -> << s >>
                             [] Op(cfg, n) = "try_write" -> << flag >>
                             [] OTHER -> << >>
    OBVIOUS
  <2>2. Op(cfg, n) = "try_write" => IsNonBlockingAccess(cfg, n)
    BY DEF IsNonBlockingAccess
  <2>3. more \in Seq(E)
    BY <1>5, <2>1, <2>2
  <2>4. First(n) = << yes >> \o more
    BY <1>1, <2>1, Zenon DEF First, s, flag
  <2>5. << << "sync", p >>, 1, TRUE >> \in execute(<< yes >> \o more).conditions
    BY <1>4, <2>3
  <2> QED
    BY <1>6, <2>4, <2>5
<1>8. said(WaitStatements(n), FALSE)
  <2>1. PICK more : more = IF IsWrite(cfg, n) THEN << s >> ELSE << >>
    OBVIOUS
  <2>2. more \in Seq(E)
    BY <1>5, <2>1
  <2>3. WaitStatements(n) = << no >> \o more
    BY <2>1, Zenon DEF WaitStatements, s
  <2>4. << << "sync", p >>, 1, FALSE >> \in execute(<< no >> \o more).conditions
    BY <1>4, <2>2
  <2> QED
    BY <1>6, <2>3, <2>4
<1>9. ASSUME IsNonBlockingAccess(cfg, n) PROVE said(FirstNotSynced(n), FALSE)
  <2>1. FirstNotSynced(n) = << no, flag >>
    BY Zenon DEF FirstNotSynced, s, flag
  <2>2. << no, flag >> = << no >> \o << flag >>
    <3> HIDE DEF no
    <3> QED
      BY <1>3, <1>9, ShortSeqs
  <2>3. << << "sync", p >>, 1, FALSE >> \in execute(<< no >> \o << flag >>).conditions
    BY <1>4, <1>5, <1>9
  <2> QED
    BY <1>6, <1>9, <2>1, <2>2, <2>3
<1> QED
  BY <1>2, <1>7, <1>8, <1>9 DEF E

-----------------------------------------------------------------------------
(* What an operation is made of: a way of a path, whatever its first node   *)
(* leaves; or a node that waits.                                            *)
OfWay(o, a, first) == a \in DOMAIN rawOperations
                      /\ Goes(o, rawOperations[a].path, rawOperations[a].synced, first)

Explicit(o, a) == OfWay(o, a, First(o.start))
Missed(o, a) == /\ IsBlocking(cfg, o.start) /\ IsNonBlockingAccess(cfg, o.start)
                /\ OfWay(o, a, FirstNotSynced(o.start))
Waiting(o) == o.start \in Node(cfg) /\ Waits(o.start) /\ o.stmts = WaitStatements(o.start)

(* No two operations of a state can be taken at a time.                     *)
AllApart == \A k, l \in DOMAIN operation :
              k # l /\ operation[k].start = operation[l].start => Apart(operation[k], operation[l])

ApartInv ==
  /\ AllApart
  /\ stage = "explicit" => \A k \in DOMAIN operation : Explicit(operation[k], k)
  /\ stage = "implicit" =>
       \A k \in DOMAIN operation :
         \/ \E a : Explicit(operation[k], a)
         \/ \E a \in 1 .. at : Missed(operation[k], a)
         \/ Waiting(operation[k]) /\ operation[k].start \in nodeWaitList

LEMMA ApartBoth == \A o, q : Apart(o, q) => Apart(q, o)
BY DEF Apart, Contrary

LEMMA WayStarts ==
  ASSUME RawInv, IInv, OrderInv, stage # "find", CreateInv,
         NEW o, NEW a, NEW first, OfWay(o, a, first)
  PROVE  /\ o.start \in Node(cfg) /\ cfg \in Programs
         /\ execute(first).conditions \subseteq execute(o.stmts).conditions
<1>1. PICK i \in DOMAIN operations : \E s : rawOperations[a] = Raw(operations[i], s)
  BY DEF RawInv, OfWay
<1>2. PICK s : rawOperations[a] = Raw(operations[i], s)
  BY <1>1
<1>3. Goes(o, operations[i], s, first)
  BY <1>2 DEF OfWay, Raw
<1>4. cfg \in Programs /\ operations[i][1] \in Node(cfg) /\ Len(operations[i]) > 1
      /\ operations[i] \in Seq(Node(cfg))
  BY PathIs
<1>5. 0 \in 0 .. Len(operations[i]) - 2
  BY <1>4
<1>6. /\ Upto(first, operations[i], s, 0) = first
      /\ execute(Upto(first, operations[i], s, 0)).conditions \subseteq execute(o.stmts).conditions
  BY <1>3, <1>5, GoesWithin
<1> QED
  BY <1>3, <1>4, <1>6 DEF Goes

LEMMA WayApart ==
  ASSUME RawInv, WaysInv, IInv, StatesInv, OrderInv, stage # "find", CreateInv,
         NEW o, NEW q, NEW a, NEW b, a # b, NEW first, OfWay(o, a, first), OfWay(q, b, first),
         o.start = q.start
  PROVE  Apart(o, q)
<1>1. PICK i \in DOMAIN operations : \E s : rawOperations[a] = Raw(operations[i], s)
  BY DEF RawInv, OfWay
<1>2. PICK s : rawOperations[a] = Raw(operations[i], s)
  BY <1>1
<1>3. PICK l \in DOMAIN operations : \E t : rawOperations[b] = Raw(operations[l], t)
  BY DEF RawInv, OfWay
<1>4. PICK t : rawOperations[b] = Raw(operations[l], t)
  BY <1>3
<1>5. /\ rawOperations[a].path = operations[i] /\ rawOperations[a].synced = s
      /\ rawOperations[b].path = operations[l] /\ rawOperations[b].synced = t
  BY <1>2, <1>4 DEF Raw
<1>6. Goes(o, operations[i], s, first) /\ Goes(q, operations[l], t, first)
  BY <1>5 DEF OfWay
<1>7. operations[i][1] = operations[l][1]
  BY <1>6 DEF Goes
<1>8. s \subseteq Reads(operations[i]) /\ t \subseteq Reads(operations[l])
  BY <1>5 DEF WaysInv, OfWay
<1>9. operations[i] # operations[l] \/ s # t
  <2>1. rawOperations[a] # rawOperations[b]
    BY DEF WaysInv, Differ, OfWay
  <2> QED
    BY <1>2, <1>4, <2>1
<1> QED
  BY <1>6, <1>7, <1>8, <1>9, WaysApart

(* Where the partner of a blocking communication is asked for, the ways     *)
(* that need it are apart from those that need it to be away.               *)
LEMMA PartnerApart ==
  ASSUME RawInv, IInv, OrderInv, stage # "find", CreateInv,
         NEW o, NEW a, Explicit(o, a), NEW q, o.start = q.start,
         (\E b : Missed(q, b)) \/ Waiting(q)
  PROVE  Apart(o, q)
<1>1. PICK n : n = o.start /\ n = q.start
  OBVIOUS
<1>2. /\ n \in Node(cfg) /\ cfg \in Programs
      /\ execute(First(n)).conditions \subseteq execute(o.stmts).conditions
  BY <1>1, WayStarts DEF Explicit
<1>3. IsBlocking(cfg, n)
  BY <1>1 DEF Missed, Waiting, Waits
<1>4. PICK e : e = << "sync", Port(cfg, n) >>
  OBVIOUS
<1>5. /\ << e, 1, TRUE >> \in execute(First(n)).conditions
      /\ << e, 1, FALSE >> \in execute(WaitStatements(n)).conditions
      /\ IsNonBlockingAccess(cfg, n) => << e, 1, FALSE >> \in execute(FirstNotSynced(n)).conditions
  BY <1>2, <1>3, <1>4, BlockingStarts
<1>6. << e, 1, FALSE >> \in execute(q.stmts).conditions
  <2>1. CASE \E b : Missed(q, b)
    <3>1. PICK b : Missed(q, b)
      BY <2>1
    <3>2. OfWay(q, b, FirstNotSynced(n)) /\ IsNonBlockingAccess(cfg, n)
      BY <1>1, <3>1 DEF Missed
    <3>3. execute(FirstNotSynced(n)).conditions \subseteq execute(q.stmts).conditions
      BY <3>2, WayStarts
    <3> QED
      BY <1>5, <3>2, <3>3
  <2>2. CASE Waiting(q)
    BY <1>1, <1>5, <2>2 DEF Waiting
  <2> QED
    BY <2>1, <2>2
<1>7. << e, 1, TRUE >> \in execute(o.stmts).conditions
  BY <1>2, <1>5
<1> QED
  BY <1>6, <1>7 DEF Apart, Contrary

LEMMA NewApart ==
  ASSUME CreateInv, AllApart, NEW op, addOperation(op),
         \A k \in DOMAIN operation : operation[k].start = op.start => Apart(operation[k], op)
  PROVE  AllApart'
<1> DEFINE size == Len(operation)
<1>1. /\ DOMAIN operation' = DOMAIN operation \cup {size + 1}
      /\ \A k \in DOMAIN operation : operation'[k] = operation[k]
      /\ operation'[size + 1] = op
  BY AppendObject DEF CreateInv, addOperation
<1> HIDE DEF size
<1>2. ASSUME NEW k \in DOMAIN operation', NEW l \in DOMAIN operation', k # l,
             operation'[k].start = operation'[l].start
      PROVE  Apart(operation'[k], operation'[l])
  <2>1. CASE k \in DOMAIN operation /\ l \in DOMAIN operation
    BY <1>1, <1>2, <2>1 DEF AllApart
  <2>2. CASE k \in DOMAIN operation /\ l = size + 1
    BY <1>1, <1>2, <2>2
  <2>3. CASE k = size + 1 /\ l \in DOMAIN operation
    BY <1>1, <1>2, <2>3, ApartBoth
  <2> QED
    BY <1>1, <1>2, <2>1, <2>2, <2>3
<1> QED
  BY <1>2 DEF AllApart, Apart

LEMMA ApartSame ==
  ASSUME AllApart, operation' = [k \in DOMAIN operation |-> operation'[k]],
         \A k \in DOMAIN operation : SameObject(operation[k], operation'[k])
  PROVE  AllApart'
<1>1. DOMAIN operation' = DOMAIN operation
  OBVIOUS
<1>2. ASSUME NEW k \in DOMAIN operation, NEW l \in DOMAIN operation, k # l,
             operation'[k].start = operation'[l].start
      PROVE  Apart(operation'[k], operation'[l])
  <2>1. Apart(operation[k], operation[l])
    BY <1>2 DEF SameObject, AllApart
  <2> QED
    BY <2>1 DEF SameObject, Apart
<1> QED
  BY <1>1, <1>2 DEF AllApart, Apart

(* The ways stay what they are while operations are made of them. *)
LEMMA WaysStay ==
  ASSUME UNCHANGED << cfg, operations, rawOperations >>
  PROVE  /\ \A o, a : Explicit(o, a)' <=> Explicit(o, a)
         /\ \A o, a : Missed(o, a)' <=> Missed(o, a)
         /\ \A o : Waiting(o)' <=> Waiting(o)
<1>1. \A o, path, synced, first : Goes(o, path, synced, first)' <=> Goes(o, path, synced, first)
  BY MadeStays
<1>2. \A n : /\ First(n)' = First(n) /\ FirstNotSynced(n)' = FirstNotSynced(n)
             /\ WaitStatements(n)' = WaitStatements(n) /\ (Waits(n)' <=> Waits(n))
  BY DEF First, FirstNotSynced, WaitStatements, Waits
<1>3. \A o, a, first : OfWay(o, a, first)' <=> OfWay(o, a, first)
  BY <1>1 DEF OfWay
<1> QED
  BY <1>2, <1>3 DEF Explicit, Missed, Waiting

LEMMA ApartExplicit ==
  ASSUME IInv, StatesInv, OrderInv, RawInv, CreateInv, OpsInv, WaysInv, ApartInv,
         CreateExplicit, UNCHANGED vars
  PROVE  ApartInv'
<1> DEFINE raw == rawOperations[at + 1]
           op == Operation(raw.path[1], Last(raw.path), FALSE, Statements(raw))
<1>1. /\ stage = "explicit" /\ stage' = stage /\ at < Len(rawOperations)
      /\ addOperation(op) /\ UNCHANGED << cfg, operations, rawOperations >>
  BY DEF CreateExplicit, vars, foundVars
<1>2. at = Len(operation) /\ at \in Nat /\ at + 1 \in DOMAIN rawOperations
  BY <1>1 DEF OpsInv, RawInv
<1>3. Explicit(op, at + 1)
  <2>1. PICK i \in DOMAIN operations : \E s : raw = Raw(operations[i], s)
    BY <1>2 DEF RawInv
  <2>2. PICK s : raw = Raw(operations[i], s)
    BY <2>1
  <2>3. Goes(op, raw.path, raw.synced, First(raw.path[1]))
    BY <2>2 DEF Goes, Operation, Statements, Starts, Raw
  <2>4. op.start = raw.path[1]
    BY DEF Operation
  <2> HIDE DEF op
  <2> QED
    BY <1>2, <2>3, <2>4 DEF Explicit, OfWay
<1>4. ASSUME NEW k \in DOMAIN operation, operation[k].start = op.start
      PROVE  Apart(operation[k], op)
  <2>1. Explicit(operation[k], k)
    BY <1>1 DEF ApartInv
  <2>2. k # at + 1
    BY <1>2 DEF CreateInv
  <2> HIDE DEF op
  <2>3. PICK first : first = First(op.start)
    OBVIOUS
  <2>4. OfWay(operation[k], k, first) /\ OfWay(op, at + 1, first)
    BY <1>3, <1>4, <2>1, <2>3 DEF Explicit
  <2> QED
    BY <1>1, <1>4, <2>2, <2>4, WayApart
<1> HIDE DEF op
<1>5. AllApart'
  BY <1>1, <1>4, NewApart DEF ApartInv
<1>6. /\ DOMAIN operation' = DOMAIN operation \cup {at + 1}
      /\ \A k \in DOMAIN operation : operation'[k] = operation[k]
      /\ operation'[at + 1] = op
  BY <1>1, <1>2, AppendObject DEF CreateInv, addOperation
<1>7. ASSUME NEW k \in DOMAIN operation' PROVE Explicit(operation'[k], k)
  <2>1. CASE k \in DOMAIN operation
    BY <1>1, <1>6, <2>1 DEF ApartInv
  <2>2. CASE k = at + 1
    BY <1>3, <1>6, <2>2
  <2> QED
    BY <1>6, <2>1, <2>2
<1>8. \A k \in DOMAIN operation' : (Explicit(operation[k], k))'
  <2>1. PICK ops : ops = operation'
    OBVIOUS
  <2>2. \A k \in DOMAIN ops : Explicit(ops[k], k)'
    BY <1>1, <1>7, <2>1, WaysStay
  <2> QED
    BY <2>1, <2>2
<1> QED
  BY <1>1, <1>5, <1>8 DEF ApartInv

LEMMA ApartImplicit ==
  ASSUME IInv, StatesInv, OrderInv, RawInv, CreateInv, OpsInv, WaysInv, ApartInv,
         CreateImplicit, UNCHANGED vars
  PROVE  ApartInv'
<1> DEFINE raw == rawOperations[at + 1]
           node == raw.path[1]
           waitOp == Operation(node, node, TRUE, WaitStatements(node))
           missOp == Operation(node, Last(raw.path), FALSE, NotSynced(raw))
           Accounted(o, upto, list) == \/ \E a : Explicit(o, a)
                                       \/ \E a \in 1 .. upto : Missed(o, a)
                                       \/ Waiting(o) /\ o.start \in list
<1>1. /\ stage = "implicit" /\ stage' = stage /\ at' = at + 1 /\ at < Len(rawOperations)
      /\ UNCHANGED << cfg, operations, rawOperations >>
  BY DEF CreateImplicit, vars, foundVars
<1>2. at \in Nat /\ at + 1 \in DOMAIN rawOperations
  BY <1>1 DEF RawInv
<1>3. PICK i \in DOMAIN operations : \E s : raw = Raw(operations[i], s)
  BY <1>2 DEF RawInv
<1>4. PICK s : raw = Raw(operations[i], s)
  BY <1>3
<1>5. node \in Node(cfg) /\ raw.path = operations[i]
  <2>1. operations[i][1] \in Node(cfg)
    BY <1>1, PathIs
  <2> QED
    BY <1>4, <2>1 DEF Raw
<1>6. \A k \in DOMAIN operation : Accounted(operation[k], at, nodeWaitList)
  BY <1>1 DEF ApartInv
<1>7. CASE operation' = operation /\ nodeWaitList' = nodeWaitList
  <2>1. \A k \in DOMAIN operation : Accounted(operation[k], at + 1, nodeWaitList)
    BY <1>2, <1>6
  <2>2. AllApart'
    BY <1>7 DEF ApartInv, AllApart, Apart
  <2>3. \A o : Accounted(o, at + 1, nodeWaitList) <=>
               \/ \E a : Explicit(o, a)'
               \/ \E a \in 1 .. at' : Missed(o, a)'
               \/ Waiting(o)' /\ o.start \in nodeWaitList'
    BY <1>1, <1>7, WaysStay
  <2> HIDE DEF Accounted
  <2> QED
    BY <1>1, <1>7, <2>1, <2>2, <2>3 DEF ApartInv
<1>8. ASSUME NEW op, addOperation(op), Accounted(op, at + 1, nodeWaitList'),
             nodeWaitList \subseteq nodeWaitList',
             \A k \in DOMAIN operation : operation[k].start = op.start => Apart(operation[k], op)
      PROVE  ApartInv'
  <2>1. AllApart'
    BY <1>8, NewApart DEF ApartInv
  <2>2. PICK size : size = Len(operation)
    OBVIOUS
  <2>3. /\ DOMAIN operation' = DOMAIN operation \cup {size + 1}
        /\ \A k \in DOMAIN operation : operation'[k] = operation[k]
        /\ operation'[size + 1] = op
    BY <1>8, <2>2, AppendObject DEF CreateInv, addOperation
  <2>4. ASSUME NEW k \in DOMAIN operation PROVE Accounted(operation[k], at + 1, nodeWaitList')
    <3>1. Accounted(operation[k], at, nodeWaitList)
      BY <1>6
    <3>2. \A a : a \in 1 .. at => a \in 1 .. at + 1
      BY <1>2
    <3> QED
      BY <1>8, <3>1, <3>2
  <2> HIDE DEF Accounted
  <2>5. PICK ops : ops = operation'
    OBVIOUS
  <2>6. \A k \in DOMAIN ops : Accounted(ops[k], at + 1, nodeWaitList')
    BY <1>8, <2>3, <2>4, <2>5
  <2>7. \A o : Accounted(o, at + 1, nodeWaitList') <=>
               \/ \E a : Explicit(o, a)'
               \/ \E a \in 1 .. at' : Missed(o, a)'
               \/ Waiting(o)' /\ o.start \in nodeWaitList'
    BY <1>1, WaysStay DEF Accounted
  <2> QED
    BY <1>1, <2>1, <2>5, <2>6, <2>7 DEF ApartInv
<1>9. CASE addOperation(waitOp) /\ Waits(node) /\ node \notin nodeWaitList
           /\ nodeWaitList' = nodeWaitList \cup {node}
  <2>1. Waiting(waitOp) /\ waitOp.start = node
    BY <1>5, <1>9 DEF Waiting, Operation
  <2> HIDE DEF waitOp
  <2>2. ASSUME NEW k \in DOMAIN operation, operation[k].start = waitOp.start
        PROVE  Apart(operation[k], waitOp)
    <3>1. CASE \E a : Explicit(operation[k], a)
      BY <1>1, <2>1, <2>2, <3>1, PartnerApart
    <3>2. ~ Missed(operation[k], at) /\ \A a : ~ Missed(operation[k], a)
      BY <1>9, <2>1, <2>2 DEF Missed, Waits
    <3>3. ~ (Waiting(operation[k]) /\ operation[k].start \in nodeWaitList)
      BY <1>9, <2>1, <2>2
    <3> QED
      BY <1>6, <3>1, <3>2, <3>3
  <2>3. Accounted(waitOp, at + 1, nodeWaitList')
    BY <1>9, <2>1
  <2> HIDE DEF Accounted
  <2> QED
    BY <1>8, <1>9, <2>2, <2>3
<1>10. CASE addOperation(missOp) /\ IsBlocking(cfg, node) /\ IsNonBlockingAccess(cfg, node)
            /\ nodeWaitList' = nodeWaitList
  <2>1. missOp.start = node
    BY DEF Operation
  <2>2. Goes(missOp, raw.path, raw.synced, FirstNotSynced(node))
    BY <1>4, <1>10 DEF Goes, Operation, NotSynced, Starts, Raw
  <2> HIDE DEF missOp
  <2>3. Missed(missOp, at + 1)
    BY <1>2, <1>10, <2>1, <2>2 DEF Missed, OfWay
  <2>4. ASSUME NEW k \in DOMAIN operation, operation[k].start = missOp.start
        PROVE  Apart(operation[k], missOp)
    <3>1. CASE \E a : Explicit(operation[k], a)
      BY <1>1, <2>3, <2>4, <3>1, PartnerApart
    <3>2. CASE \E a \in 1 .. at : Missed(operation[k], a)
      <4>1. PICK a \in 1 .. at : Missed(operation[k], a)
        BY <3>2
      <4>2. a # at + 1
        BY <1>2
      <4>3. PICK first : first = FirstNotSynced(missOp.start)
        OBVIOUS
      <4>4. OfWay(operation[k], a, first) /\ OfWay(missOp, at + 1, first)
        BY <2>3, <2>4, <4>1, <4>3 DEF Missed
      <4> QED
        BY <1>1, <2>4, <4>2, <4>4, WayApart
    <3>3. ~ Waiting(operation[k])
      BY <1>10, <2>1, <2>4 DEF Waiting, Waits
    <3> QED
      BY <1>6, <3>1, <3>2, <3>3
  <2>5. Accounted(missOp, at + 1, nodeWaitList')
    <3>1. at + 1 \in 1 .. at + 1
      BY <1>2
    <3> QED
      BY <2>3, <3>1
  <2> HIDE DEF Accounted
  <2> QED
    BY <1>8, <1>10, <2>4, <2>5
<1>11. \/ operation' = operation /\ nodeWaitList' = nodeWaitList
       \/ /\ addOperation(waitOp) /\ Waits(node) /\ node \notin nodeWaitList
          /\ nodeWaitList' = nodeWaitList \cup {node}
       \/ /\ addOperation(missOp) /\ IsBlocking(cfg, node) /\ IsNonBlockingAccess(cfg, node)
          /\ nodeWaitList' = nodeWaitList
  BY DEF CreateImplicit, Waits, Stay
<1> HIDE DEF waitOp, missOp, node
<1> QED
  BY <1>7, <1>9, <1>10, <1>11

LEMMA NextApartInv ==
  IInv /\ StatesInv /\ OrderInv /\ RawInv /\ CreateInv /\ OpsInv /\ WaysInv /\ ApartInv
    /\ [HardwareNext]_allVars => ApartInv'
<1> SUFFICES ASSUME IInv, StatesInv, OrderInv, RawInv, CreateInv, OpsInv, WaysInv, ApartInv,
                    [HardwareNext]_allVars
             PROVE  ApartInv'
  OBVIOUS
<1>1. CASE stage = "find" /\ UNCHANGED createVars
  <2>1. operation' = << >> /\ stage' = "find"
    BY <1>1 DEF createVars, CreateInv
  <2> QED
    BY <2>1 DEF ApartInv, AllApart
<1>2. CASE UNCHANGED vars /\ UNCHANGED createVars
  <2>1. UNCHANGED << cfg, operations, rawOperations, operation, nodeWaitList, at, stage >>
    BY <1>2 DEF createVars, vars, foundVars
  <2>2. /\ \A o, a : Explicit(o, a)' <=> Explicit(o, a)
        /\ \A o, a : Missed(o, a)' <=> Missed(o, a)
        /\ \A o : Waiting(o)' <=> Waiting(o)
    BY <2>1, WaysStay
  <2> QED
    BY <2>1, <2>2 DEF ApartInv, AllApart, Apart
<1>3. CASE UNCHANGED vars /\ (CreateNext \/ Suite)
  <2>0. UNCHANGED << cfg, operations >>
    BY <1>3 DEF vars, foundVars
  <2>1. CASE Found \/ ExtendRawOperation \/ Extended
    <3>1. operation = << >> /\ operation' = operation
      BY <2>1 DEF Found, ExtendRawOperation, Extended, OpsInv
    <3>2. stage' # "implicit"
      BY <2>1 DEF Found, ExtendRawOperation, Extended
    <3>3. \A k \in DOMAIN operation' : FALSE
      BY <3>1
    <3> QED
      BY <3>2, <3>3 DEF ApartInv, AllApart
  <2>2. CASE CreateExplicit
    BY <1>3, <2>2, ApartExplicit
  <2>3. CASE CreateImplicit
    BY <1>3, <2>3, ApartImplicit
  <2>4. CASE AllExplicit
    <3>1. /\ stage = "explicit" /\ stage' = "implicit"
          /\ UNCHANGED << operation, rawOperations >>
      BY <2>4 DEF AllExplicit
    <3>2. \A o, a : Explicit(o, a)' <=> Explicit(o, a)
      BY <2>0, <3>1, WaysStay
    <3>3. \A k \in DOMAIN operation : Explicit(operation[k], k)
      BY <3>1 DEF ApartInv
    <3> QED
      BY <3>1, <3>2, <3>3 DEF ApartInv, AllApart, Apart
  <2>5. CASE AllImplicit \/ AllReconstructed \/ FindValid \/ AllValid \/ Suite
    <3>1. operation' = operation /\ stage' \notin {"explicit", "implicit"}
      BY <2>5 DEF AllImplicit, AllReconstructed, FindValid, AllValid, Suite
    <3> QED
      BY <3>1 DEF ApartInv, AllApart, Apart
  <2>6. CASE Reconstruct \/ Optimize
    <3>1. stage' \notin {"explicit", "implicit"}
      BY <2>6 DEF Reconstruct, Optimize
    <3>2. AllApart'
      BY <2>6, SayingKeeps, ApartSame DEF ApartInv
    <3> QED
      BY <3>1, <3>2 DEF ApartInv
  <2> QED
    BY <1>3, <2>1, <2>2, <2>3, <2>4, <2>5, <2>6 DEF CreateNext
<1> QED
  BY <1>1, <1>2, <1>3, Stages

-----------------------------------------------------------------------------
(* Each way has its operations: one for the time the partner is there, one  *)
(* for the time it is away.                                                 *)
WaitsAt(o, n) == /\ o.wait /\ o.start = n /\ o.end = n
                 /\ Waits(n) /\ o.stmts = WaitStatements(n)

HasExplicit(a) == \E k \in DOMAIN operation : Explicit(operation[k], a)
HasMissed(a) == \E k \in DOMAIN operation : Missed(operation[k], a)
HasWait(n) == \E k \in DOMAIN operation : WaitsAt(operation[k], n)

Answered(a) == LET n == rawOperations[a].path[1]
               IN  /\ Waits(n) => HasWait(n)
                   /\ IsBlocking(cfg, n) /\ IsNonBlockingAccess(cfg, n) => HasMissed(a)

HaveInv ==
  /\ \A n \in nodeWaitList : HasWait(n)
  /\ stage \notin {"find", "extend", "explicit"} => \A a \in DOMAIN rawOperations : HasExplicit(a)
  /\ stage = "implicit" => \A a \in DOMAIN rawOperations : a <= at => Answered(a)
  /\ stage \notin {"find", "extend", "explicit", "implicit"} =>
       \A a \in DOMAIN rawOperations : Answered(a)

(* What there is stays.                                                     *)
LEMMA HaveKept ==
  ASSUME UNCHANGED << cfg, operations, rawOperations >>,
         \A k \in DOMAIN operation : k \in DOMAIN operation' /\ SameObject(operation[k], operation'[k])
  PROVE  /\ \A a : HasExplicit(a) => HasExplicit(a)'
         /\ \A a : HasMissed(a) => HasMissed(a)'
         /\ \A n : HasWait(n) => HasWait(n)'
         /\ \A a : Answered(a) => Answered(a)'
<1>1. PICK ops : ops = operation'
  OBVIOUS
<1>2. \A n : /\ First(n)' = First(n) /\ FirstNotSynced(n)' = FirstNotSynced(n)
             /\ WaitStatements(n)' = WaitStatements(n) /\ (Waits(n)' <=> Waits(n))
  BY DEF First, FirstNotSynced, WaitStatements, Waits
<1>3. /\ \A o, a : Explicit(o, a)' <=> Explicit(o, a)
      /\ \A o, a : Missed(o, a)' <=> Missed(o, a)
      /\ \A o, n : WaitsAt(o, n)' <=> WaitsAt(o, n)
  BY <1>2, WaysStay DEF WaitsAt
<1>4. ASSUME NEW o, NEW q, SameObject(o, q)
      PROVE  /\ \A a : Explicit(o, a) => Explicit(q, a)
             /\ \A a : Missed(o, a) => Missed(q, a)
             /\ \A n : WaitsAt(o, n) => WaitsAt(q, n)
  BY <1>4, MadeSame DEF SameObject, Explicit, Missed, OfWay, WaitsAt
<1>5. ASSUME NEW k \in DOMAIN operation
      PROVE  /\ k \in DOMAIN ops
             /\ \A a : Explicit(operation[k], a) => Explicit(ops[k], a)'
             /\ \A a : Missed(operation[k], a) => Missed(ops[k], a)'
             /\ \A n : WaitsAt(operation[k], n) => WaitsAt(ops[k], n)'
  <2>1. k \in DOMAIN ops /\ SameObject(operation[k], ops[k])
    BY <1>1
  <2>2. PICK o, q : o = operation[k] /\ q = ops[k]
    OBVIOUS
  <2> QED
    BY <1>3, <1>4, <2>1, <2>2
<1>6. \A a : HasExplicit(a) => HasExplicit(a)'
  BY <1>1, <1>5 DEF HasExplicit
<1>7. \A a : HasMissed(a) => HasMissed(a)'
  BY <1>1, <1>5 DEF HasMissed
<1>8. \A n : HasWait(n) => HasWait(n)'
  BY <1>1, <1>5 DEF HasWait
<1>9. \A a : Answered(a) => Answered(a)'
  BY <1>2, <1>7, <1>8 DEF Answered
<1> QED
  BY <1>6, <1>7, <1>8, <1>9

(* A new operation is one more. *)
LEMMA OneMore ==
  ASSUME CreateInv, NEW op, addOperation(op)
  PROVE  /\ \A k \in DOMAIN operation : k \in DOMAIN operation' /\ SameObject(operation[k], operation'[k])
         /\ \E k \in DOMAIN operation' : operation'[k] = op
<1>1. /\ DOMAIN operation' = DOMAIN operation \cup {Len(operation) + 1}
      /\ \A k \in DOMAIN operation : operation'[k] = operation[k]
      /\ operation'[Len(operation) + 1] = op
  BY AppendObject DEF CreateInv, addOperation
<1> QED
  BY <1>1 DEF SameObject

LEMMA HaveImplicit ==
  ASSUME RawInv, CreateInv, HaveInv, CreateImplicit, UNCHANGED vars
  PROVE  HaveInv'
<1>0. PICK raw : raw = rawOperations[at + 1]
  OBVIOUS
<1> DEFINE node == raw.path[1]
           waitOp == Operation(node, node, TRUE, WaitStatements(node))
           missOp == Operation(node, Last(raw.path), FALSE, NotSynced(raw))
<1>1. /\ stage = "implicit" /\ stage' = stage /\ at' = at + 1 /\ at < Len(rawOperations)
      /\ UNCHANGED << cfg, operations, rawOperations >>
  BY DEF CreateImplicit, vars, foundVars
<1>2. at \in Nat /\ at + 1 \in DOMAIN rawOperations /\ DOMAIN rawOperations \subseteq Nat
  BY <1>1 DEF RawInv
<1>3. \/ /\ operation' = operation /\ nodeWaitList' = nodeWaitList
         /\ ~ Waits(node) \/ node \in nodeWaitList
         /\ ~ (IsBlocking(cfg, node) /\ IsNonBlockingAccess(cfg, node))
      \/ /\ addOperation(waitOp) /\ Waits(node)
         /\ nodeWaitList' = nodeWaitList \cup {node}
      \/ /\ addOperation(missOp) /\ IsBlocking(cfg, node) /\ IsNonBlockingAccess(cfg, node)
         /\ nodeWaitList' = nodeWaitList
  BY <1>0 DEF CreateImplicit, Waits, Stay
<1>4. \A k \in DOMAIN operation : k \in DOMAIN operation' /\ SameObject(operation[k], operation'[k])
  <2>1. CASE operation' = operation
    BY <2>1 DEF SameObject
  <2>2. CASE \E op : addOperation(op)
    BY <2>2, OneMore
  <2> QED
    BY <1>3, <2>1, <2>2
<1>5. /\ \A a : HasExplicit(a) => HasExplicit(a)'
      /\ \A n : HasWait(n) => HasWait(n)'
      /\ \A a : Answered(a) => Answered(a)'
  BY <1>1, <1>4, HaveKept
<1>6. PICK ops : ops = operation'
  OBVIOUS
<1>7. \A n : /\ First(n)' = First(n) /\ FirstNotSynced(n)' = FirstNotSynced(n)
             /\ WaitStatements(n)' = WaitStatements(n) /\ (Waits(n)' <=> Waits(n))
  BY <1>1 DEF First, FirstNotSynced, WaitStatements, Waits
<1>8. addOperation(waitOp) /\ Waits(node) => HasWait(node)'
  <2> SUFFICES ASSUME addOperation(waitOp), Waits(node) PROVE HasWait(node)'
    OBVIOUS
  <2>1. WaitsAt(waitOp, node)
    BY DEF WaitsAt, Operation
  <2>2. PICK o, n : o = waitOp /\ n = node
    OBVIOUS
  <2>3. PICK k \in DOMAIN ops : ops[k] = o
    BY <1>6, <2>2, OneMore
  <2> HIDE DEF waitOp, node
  <2>4. WaitsAt(o, n)' <=> WaitsAt(o, n)
    BY <1>7 DEF WaitsAt
  <2>5. HasWait(n)'
    BY <1>6, <2>1, <2>2, <2>3, <2>4 DEF HasWait
  <2> QED
    BY <2>2, <2>5 DEF node
<1>9. PICK a : a = at + 1
  OBVIOUS
<1>10. addOperation(missOp) /\ IsBlocking(cfg, node) /\ IsNonBlockingAccess(cfg, node)
         => HasMissed(a)'
  <2> SUFFICES ASSUME addOperation(missOp), IsBlocking(cfg, node), IsNonBlockingAccess(cfg, node)
               PROVE  HasMissed(a)'
    OBVIOUS
  <2>1. PICK i \in DOMAIN operations : \E s : raw = Raw(operations[i], s)
    BY <1>0, <1>2 DEF RawInv
  <2>2. PICK s : raw = Raw(operations[i], s)
    BY <2>1
  <2>3. missOp.start = node /\ Goes(missOp, raw.path, raw.synced, FirstNotSynced(node))
    BY <2>2 DEF Goes, Operation, NotSynced, Starts, Raw
  <2>4. PICK o : o = missOp
    OBVIOUS
  <2>5. PICK k \in DOMAIN ops : ops[k] = o
    BY <1>6, <2>4, OneMore
  <2> HIDE DEF missOp, node
  <2>6. Missed(o, a)
    BY <1>0, <1>2, <1>9, <2>3, <2>4 DEF Missed, OfWay
  <2>7. Missed(o, a)'
    BY <1>1, <2>6, WaysStay
  <2>8. \E l \in DOMAIN ops : Missed(ops[l], a)'
    BY <2>5, <2>7
  <2> QED
    BY <1>6, <2>8 DEF HasMissed
<1> HIDE DEF waitOp, missOp
<1>11. \A n \in nodeWaitList' : HasWait(n)'
  BY <1>3, <1>5, <1>8 DEF HaveInv
<1>12. Waits(node) => HasWait(node)'
  BY <1>3, <1>5, <1>8 DEF HaveInv, Waits
<1>13. IsBlocking(cfg, node) /\ IsNonBlockingAccess(cfg, node) => HasMissed(a)'
  BY <1>3, <1>10 DEF Waits
<1>14. Answered(a)'
  <2>1. rawOperations'[a].path[1] = node
    BY <1>0, <1>1, <1>9
  <2>2. PICK n : n = node
    OBVIOUS
  <2> HIDE DEF node
  <2>3. /\ Waits(n)' => HasWait(n)'
        /\ IsBlocking(cfg', n) /\ IsNonBlockingAccess(cfg', n) => HasMissed(a)'
    BY <1>1, <1>7, <1>12, <1>13, <2>2
  <2> QED
    BY <2>1, <2>2, <2>3 DEF Answered
<1>15. \A b \in DOMAIN rawOperations : b <= at + 1 => Answered(b)'
  <2> SUFFICES ASSUME NEW b \in DOMAIN rawOperations, b <= at + 1 PROVE Answered(b)'
    OBVIOUS
  <2>1. b <= at \/ b = a
    BY <1>2, <1>9
  <2> QED
    BY <1>1, <1>5, <1>14, <2>1 DEF HaveInv
<1> QED
  BY <1>1, <1>5, <1>11, <1>15 DEF HaveInv

LEMMA NextHaveInv ==
  IInv /\ RawInv /\ CreateInv /\ OpsInv /\ ApartInv /\ HaveInv /\ [HardwareNext]_allVars => HaveInv'
<1> SUFFICES ASSUME IInv, RawInv, CreateInv, OpsInv, ApartInv, HaveInv, [HardwareNext]_allVars
             PROVE  HaveInv'
  OBVIOUS
<1>1. CASE stage = "find" /\ UNCHANGED createVars
  <2>1. stage' = "find" /\ UNCHANGED << rawOperations, operation, nodeWaitList >>
    BY <1>1 DEF createVars
  <2>2. \A n \in nodeWaitList : FALSE
    <3>1. operation = << >>
      BY <1>1 DEF CreateInv
    <3> QED
      BY <3>1 DEF HaveInv, HasWait
  <2> QED
    BY <2>1, <2>2 DEF HaveInv
<1>2. ASSUME UNCHANGED << cfg, operations, rawOperations, nodeWaitList >>,
             \A k \in DOMAIN operation : k \in DOMAIN operation' /\ SameObject(operation[k], operation'[k]),
             \/ UNCHANGED << stage, at >>
             \/ stage' \in {"find", "extend", "explicit"}
             \/ /\ stage \notin {"find", "extend", "explicit", "implicit"}
                /\ stage' \notin {"find", "extend", "explicit", "implicit"}
      PROVE  HaveInv'
  BY <1>2, HaveKept DEF HaveInv
<1>3. ASSUME operation' = operation
      PROVE  \A k \in DOMAIN operation : k \in DOMAIN operation' /\ SameObject(operation[k], operation'[k])
  BY <1>3 DEF SameObject
<1>4. CASE UNCHANGED vars /\ UNCHANGED createVars
  <2>1. UNCHANGED << cfg, operations, rawOperations, operation, nodeWaitList, at, stage >>
    BY <1>4 DEF createVars, vars, foundVars
  <2> QED
    BY <1>2, <1>3, <2>1
<1>5. CASE UNCHANGED vars /\ (CreateNext \/ Suite)
  <2>0. UNCHANGED << cfg, operations >>
    BY <1>5 DEF vars, foundVars
  <2>1. CASE Found \/ ExtendRawOperation \/ Extended
    <3>1. operation = << >> /\ operation' = operation /\ nodeWaitList' = nodeWaitList
      BY <2>1 DEF Found, ExtendRawOperation, Extended, OpsInv
    <3>2. stage' \in {"find", "extend", "explicit"}
      BY <2>1 DEF Found, ExtendRawOperation, Extended
    <3>3. \A n \in nodeWaitList : FALSE
      BY <3>1 DEF HaveInv, HasWait
    <3> QED
      BY <3>1, <3>2, <3>3 DEF HaveInv
  <2>2. CASE CreateExplicit
    <3>1. stage' = "explicit" /\ UNCHANGED << rawOperations, nodeWaitList >>
      BY <2>2 DEF CreateExplicit
    <3>2. \A k \in DOMAIN operation : k \in DOMAIN operation' /\ SameObject(operation[k], operation'[k])
      BY <2>2, OneMore DEF CreateExplicit
    <3> QED
      BY <1>2, <2>0, <3>1, <3>2
  <2>3. CASE CreateImplicit
    BY <1>5, <2>3, HaveImplicit
  <2>4. CASE AllExplicit
    <3>1. /\ stage = "explicit" /\ stage' = "implicit" /\ at = Len(rawOperations) /\ at' = 0
          /\ UNCHANGED << operation, rawOperations, nodeWaitList >>
      BY <2>4 DEF AllExplicit
    <3>2. \A a \in DOMAIN rawOperations : a \in DOMAIN operation /\ ~ a <= 0
      BY <3>1 DEF OpsInv, RawInv, CreateInv
    <3>3. \A a \in DOMAIN rawOperations : HasExplicit(a)
      BY <3>1, <3>2 DEF ApartInv, HasExplicit
    <3>4. /\ \A a : HasExplicit(a) => HasExplicit(a)'
          /\ \A n : HasWait(n) => HasWait(n)'
      BY <1>3, <2>0, <3>1, HaveKept
    <3> QED
      BY <3>1, <3>2, <3>3, <3>4 DEF HaveInv
  <2>5. CASE AllImplicit
    <3>1. /\ stage = "implicit" /\ stage' = "reconstruct" /\ at = Len(rawOperations)
          /\ UNCHANGED << operation, rawOperations, nodeWaitList >>
      BY <2>5 DEF AllImplicit
    <3>2. \A a \in DOMAIN rawOperations : a <= at
      BY <3>1 DEF RawInv
    <3>3. /\ \A a \in DOMAIN rawOperations : HasExplicit(a) /\ Answered(a)
          /\ \A n \in nodeWaitList : HasWait(n)
      BY <3>1, <3>2 DEF HaveInv
    <3>4. /\ \A a : HasExplicit(a) => HasExplicit(a)'
          /\ \A n : HasWait(n) => HasWait(n)'
          /\ \A a : Answered(a) => Answered(a)'
      BY <1>3, <2>0, <3>1, HaveKept
    <3> QED
      BY <3>1, <3>3, <3>4 DEF HaveInv
  <2>6. CASE AllReconstructed \/ FindValid \/ AllValid \/ Suite
    <3>1. /\ UNCHANGED << operation, rawOperations, nodeWaitList >>
          /\ stage \notin {"find", "extend", "explicit", "implicit"}
          /\ stage' \notin {"find", "extend", "explicit", "implicit"}
      BY <2>6 DEF AllReconstructed, FindValid, AllValid, Suite
    <3> QED
      BY <1>2, <1>3, <2>0, <3>1
  <2>7. CASE Reconstruct \/ Optimize
    <3>1. /\ UNCHANGED << rawOperations, nodeWaitList >>
          /\ stage \notin {"find", "extend", "explicit", "implicit"}
          /\ stage' \notin {"find", "extend", "explicit", "implicit"}
      BY <2>7 DEF Reconstruct, Optimize
    <3>2. \A k \in DOMAIN operation : k \in DOMAIN operation' /\ SameObject(operation[k], operation'[k])
      <4>1. operation' = [k \in DOMAIN operation |-> operation'[k]]
        BY <2>7, SayingKeeps
      <4> QED
        BY <2>7, <4>1, SayingKeeps
    <3> QED
      BY <1>2, <2>0, <3>1, <3>2
  <2> QED
    BY <1>5, <2>1, <2>2, <2>3, <2>4, <2>5, <2>6, <2>7 DEF CreateNext
<1> QED
  BY <1>1, <1>4, <1>5, Stages

(* What the paths and the ways need to stay different, and the operations   *)
(* to stay apart.                                                           *)
DifferInv == RunInv /\ OnceInv /\ KeptOnce /\ WaysInv /\ ApartInv

(* And what they need to be all.                                            *)
AllInv == DifferInv /\ SlavesInv /\ EveryInv /\ HaveInv

LEMMA InitDifferInv == HardwareInit => DifferInv
<1> SUFFICES ASSUME HardwareInit PROVE DifferInv
  OBVIOUS
<1>1. RunInv
  BY InitRunInv
<1>2. OnceInv /\ KeptOnce
  BY InitOnce DEF HardwareInit
<1>3. stage = "find" /\ rawOperations = << >> /\ slaveInsStack = << >> /\ operation = << >>
  BY DEF HardwareInit, CreateInit
<1>4. WaysInv /\ ApartInv
  BY <1>3 DEF WaysInv, Differ, ApartInv, AllApart
<1> QED
  BY <1>1, <1>2, <1>4 DEF DifferInv

LEMMA NextDifferInv == DifferInv /\ [HardwareNext]_allVars => DifferInv'
<1> SUFFICES ASSUME DifferInv, [HardwareNext]_allVars PROVE DifferInv'
  OBVIOUS
<1>1. RunInv /\ OnceInv /\ KeptOnce /\ WaysInv /\ ApartInv
  BY DEF DifferInv
<1>2. IInv /\ PathsInv /\ StatesInv /\ OriginInv /\ OrderInv /\ CreateInv /\ RawInv /\ OpsInv
  BY <1>1 DEF RunInv, MadeInv
<1>3. RunInv' /\ OriginInv' /\ [Next]_vars
  <2>1. RunInv'
    BY <1>1, NextRunInv
  <2>2. OriginInv'
    BY <2>1 DEF RunInv, MadeInv
  <2> QED
    BY <2>1, <2>2, SearchGoesOn
<1>4. OnceInv' /\ KeptOnce'
  BY <1>1, <1>2, <1>3, NextOnceInv, NextKeptOnce
<1>5. Differ(operations)
  BY <1>1 DEF KeptOnce
<1>6. WaysInv' /\ ApartInv'
  BY <1>1, <1>2, <1>5, NextWaysInv, NextApartInv
<1> QED
  BY <1>3, <1>4, <1>6 DEF DifferInv

(* Each way the slave reads of a path can turn out comes up once: no two    *)
(* operations are made of the same path and the same reads.                 *)
THEOREM NoWayTwice == HardwareSpec => [](Differ(operations) /\ Differ(rawOperations))
<1>1. DifferInv => Differ(operations) /\ Differ(rawOperations)
  BY DEF DifferInv, KeptOnce, WaysInv
<1> QED
  BY <1>1, InitDifferInv, NextDifferInv, PTL DEF HardwareSpec

LEMMA InitAllInv == HardwareInit => AllInv
<1> SUFFICES ASSUME HardwareInit PROVE AllInv
  OBVIOUS
<1>1. DifferInv
  BY InitDifferInv
<1>2. SlavesInv
  BY DEF HardwareInit, Init, SlavesInv
<1>3. stage = "find" /\ nodeWaitList = {}
  BY DEF HardwareInit, CreateInit
<1>4. EveryInv /\ HaveInv
  BY <1>3 DEF EveryInv, HaveInv
<1> QED
  BY <1>1, <1>2, <1>4 DEF AllInv

LEMMA NextAllInv == AllInv /\ [HardwareNext]_allVars => AllInv'
<1> SUFFICES ASSUME AllInv, [HardwareNext]_allVars PROVE AllInv'
  OBVIOUS
<1>1. DifferInv /\ SlavesInv /\ EveryInv /\ HaveInv
  BY DEF AllInv
<1>2. IInv /\ CreateInv /\ RawInv /\ OpsInv /\ WaysInv /\ ApartInv
  BY <1>1 DEF DifferInv, RunInv, MadeInv
<1>3. DifferInv'
  BY <1>1, NextDifferInv
<1>4. SlavesInv'
  BY <1>1, SearchGoesOn, NextSlavesInv
<1>5. EveryInv'
  BY <1>1, <1>2, NextEveryInv
<1>6. HaveInv'
  BY <1>1, <1>2, NextHaveInv
<1> QED
  BY <1>3, <1>4, <1>5, <1>6 DEF AllInv

(* None is missing: each path, with each choice of its slave reads that     *)
(* take place, has an operation, and if it starts with a blocking           *)
(* communication another one for the time nobody comes.                     *)
THEOREM EveryWayCreated ==
  HardwareSpec =>
    [](stage \notin {"find", "extend", "explicit", "implicit"} =>
         \A j \in DOMAIN operations : \A synced \in SUBSET Reads(operations[j]) :
           LET path == operations[j]
               n == path[1]
               created(first) == \E k \in DOMAIN operation : Goes(operation[k], path, synced, first)
           IN  /\ created(First(n))
               /\ IsBlocking(cfg, n) =>
                    IF IsNonBlockingAccess(cfg, n)
                    THEN created(FirstNotSynced(n))
                    ELSE \E k \in DOMAIN operation : WaitsAt(operation[k], n))
<1> DEFINE Created(path, synced, first) ==
             \E k \in DOMAIN operation : Goes(operation[k], path, synced, first)
           Full(path, synced) ==
             /\ Created(path, synced, First(path[1]))
             /\ IsBlocking(cfg, path[1]) =>
                  IF IsNonBlockingAccess(cfg, path[1])
                  THEN Created(path, synced, FirstNotSynced(path[1]))
                  ELSE \E k \in DOMAIN operation : WaitsAt(operation[k], path[1])
<1>1. ASSUME AllInv, stage \notin {"find", "extend", "explicit", "implicit"},
             NEW j \in DOMAIN operations, NEW synced \in SUBSET Reads(operations[j])
      PROVE  Full(operations[j], synced)
  <2>1. EveryInv /\ HaveInv
    BY <1>1 DEF AllInv
  <2>2. PICK path : path = operations[j]
    OBVIOUS
  <2>3. PICK a \in DOMAIN rawOperations : rawOperations[a] = Raw(path, synced)
    BY <1>1, <2>1, <2>2 DEF EveryInv, AllCame, Came
  <2>4. HasExplicit(a) /\ Answered(a)
    BY <1>1, <2>1 DEF HaveInv
  <2>5. rawOperations[a].path = path /\ rawOperations[a].synced = synced
    BY <2>3 DEF Raw
  <2>6. Created(path, synced, First(path[1]))
    BY <2>4, <2>5 DEF HasExplicit, Explicit, OfWay, Goes
  <2>7. ASSUME IsBlocking(cfg, path[1]), IsNonBlockingAccess(cfg, path[1])
        PROVE  Created(path, synced, FirstNotSynced(path[1]))
    <3>1. HasMissed(a)
      BY <2>4, <2>5, <2>7 DEF Answered
    <3> QED
      BY <2>5, <3>1 DEF HasMissed, Missed, OfWay, Goes
  <2>8. ASSUME IsBlocking(cfg, path[1]), ~ IsNonBlockingAccess(cfg, path[1])
        PROVE  \E k \in DOMAIN operation : WaitsAt(operation[k], path[1])
    BY <2>4, <2>5, <2>8 DEF Answered, Waits, HasWait
  <2> QED
    BY <2>2, <2>6, <2>7, <2>8
<1>2. AllInv => (stage \notin {"find", "extend", "explicit", "implicit"} =>
                   \A j \in DOMAIN operations : \A synced \in SUBSET Reads(operations[j]) :
                     Full(operations[j], synced))
  BY <1>1
<1> QED
  BY <1>2, InitAllInv, NextAllInv, PTL DEF HardwareSpec

(* What contradicts each other does not hold at a time. *)
LEMMA ContraryExclude ==
  ASSUME NEW j \in DOMAIN operation, NEW k \in DOMAIN operation,
         Contrary(operation[j].assumptions, operation[k].assumptions),
         Assumes(operation[j]), Assumes(operation[k])
  PROVE  FALSE
<1>1. PICK C : C = operation[j].assumptions
  OBVIOUS
<1>2. PICK D : D = operation[k].assumptions
  OBVIOUS
<1>3. PICK e, v : \/ << e, v, TRUE >> \in C /\ << e, v, FALSE >> \in D
                  \/ << e, v, FALSE >> \in C /\ << e, v, TRUE >> \in D
  BY <1>1, <1>2 DEF Contrary
<1>4. PICK x : x = Value(e)
  OBVIOUS
<1>5. /\ \A h : << e, v, h >> \in C => ((x = v) <=> h)
      /\ \A h : << e, v, h >> \in D => ((x = v) <=> h)
  BY <1>1, <1>2, <1>4 DEF Assumes
<1>6. /\ << e, v, TRUE >> \in C => x = v
      /\ << e, v, FALSE >> \in C => x # v
      /\ << e, v, TRUE >> \in D => x = v
      /\ << e, v, FALSE >> \in D => x # v
  BY <1>5
<1> QED
  BY <1>3, <1>6

(* No two properties of a state contradict each other: whatever the         *)
(* registers and the ports hold, at most one of those that start there      *)
(* says what happens next.                                                  *)
THEOREM NoTwoApply ==
  HardwareSpec =>
    [](stage = "suite" =>
         \A n \in States : \A j, k \in outgoing[n] :
           Assumes(operation[j]) /\ Assumes(operation[k]) => j = k)
<1>1. ASSUME DifferInv, stage = "suite", NEW n \in States,
             NEW j \in outgoing[n], NEW k \in outgoing[n], j # k,
             Assumes(operation[j]), Assumes(operation[k])
      PROVE  FALSE
  <2>1. CreateInv /\ SaidInv /\ AllApart
    BY <1>1 DEF DifferInv, RunInv, MadeInv, ApartInv
  <2>2. /\ j \in DOMAIN operation /\ k \in DOMAIN operation
        /\ operation[j].start = n /\ operation[k].start = n
    BY <1>1, <2>1 DEF CreateInv, Lists
  <2>3. Apart(operation[j], operation[k])
    BY <1>1, <2>1, <2>2 DEF AllApart
  <2>4. Said(operation[j]) /\ Said(operation[k])
    BY <1>1, <2>1, <2>2 DEF SaidInv, Reconstructed
  <2>5. Contrary(operation[j].assumptions, operation[k].assumptions)
    BY <2>3, <2>4 DEF Apart, Said
  <2> QED
    BY <1>1, <2>2, <2>5, ContraryExclude
<1>2. DifferInv => (stage = "suite" =>
         \A n \in States : \A j, k \in outgoing[n] :
           Assumes(operation[j]) /\ Assumes(operation[k]) => j = k)
  BY <1>1
<1> QED
  BY <1>2, InitDifferInv, NextDifferInv, PTL DEF HardwareSpec

(* Where the program is at a state, the circuit has no choice: at most one  *)
(* property applies, which is the half of OneApplies that holds of every    *)
(* program.                                                                 *)
THEOREM AppliesOnce == HardwareSpec => [](AtState => Cardinality(Applies) <= 1)
<1>1. ASSUME RunInv, AtState,
             stage = "suite" =>
               \A n \in States : \A j, k \in outgoing[n] :
                 Assumes(operation[j]) /\ Assumes(operation[k]) => j = k
      PROVE  Cardinality(Applies) <= 1
  <2>1. stage = "suite" /\ state \in States
    BY <1>1 DEF AtState, Running, RunInv, WalkInv
  <2>2. \A j, k \in Applies : j = k
    BY <1>1, <2>1 DEF Applies
  <2>3. CASE Applies = {}
    BY <2>3, FS_EmptySet
  <2>4. CASE Applies # {}
    <3>1. PICK k : k \in Applies
      BY <2>4
    <3>2. Applies = {k}
      BY <2>2, <3>1
    <3> QED
      BY <3>2, FS_Singleton
  <2> QED
    BY <2>3, <2>4
<1>2. RunInv /\ (stage = "suite" =>
                   \A n \in States : \A j, k \in outgoing[n] :
                     Assumes(operation[j]) /\ Assumes(operation[k]) => j = k)
        => (AtState => Cardinality(Applies) <= 1)
  BY <1>1
<1>3. HardwareSpec => []RunInv
  BY InitRunInv, NextRunInv, PTL DEF HardwareSpec
<1> QED
  BY <1>2, <1>3, NoTwoApply, PTL
=============================================================================
