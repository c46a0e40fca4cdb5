----------------------------- MODULE ControlFlow -----------------------------
(***************************************************************************)
(* A module's control flow graph and the question the operation factory    *)
(* asks of it: can this path be executed?  (model/Behavior/CfgNode,        *)
(* ReconstructOperations::extractConditions, ValidOperations)              *)
(*                                                                         *)
(* A graph g has the nodes 0 .. n; g.succ[n] is the successor list of n,   *)
(* g.stmt[n] its statement, and g.ports gives each port of the module its  *)
(* interface.  What the statements compute is reduced to variables that    *)
(* are set, copied, read from a port, written to one, and compared with a  *)
(* value; 1 stands for true.  A try_read or try_write has a status flag.   *)
(***************************************************************************)
EXTENDS Naturals, Sequences, FiniteSets, SequencesExt

CONSTANTS Vars,    \* the variables of the module
          Values   \* what a variable or a port can hold

Node(g) == DOMAIN g.succ
Succ(g, n) == g.succ[n]
Op(g, n) == g.stmt[n].op
IsBranch(g, n) == Len(Succ(g, n)) > 1

(* The first node that is a while statement: there is one loop. *)
whileNode(g) == Min({n \in Node(g) : Op(g, n) = "while"})

(* What a node branches on: a variable that is compared with a value, or    *)
(* the synchronization of a port.  The `then' part is never empty and       *)
(* numbered first, and does not start with the loop; the other successor is *)
(* another node; and nothing else branches.                                 *)
BranchesDecide(g) ==
  \A n \in Node(g) :
    IF IsBranch(g, n)
    THEN /\ g.stmt[n] \in [op : {"if"}, var : Vars, val : Values, holds : BOOLEAN]
                          \cup [op : {"sync"}, port : DOMAIN g.ports, holds : BOOLEAN]
         /\ Succ(g, n)[1] = n + 1 /\ n + 1 # whileNode(g)
         /\ Succ(g, n)[2] # n + 1
    ELSE Op(g, n) \notin {"if", "sync"}

(* The communications, as FindCommunication2 sees them. *)
Blocking == {"blocking in", "blocking out"}
IsRead(g, n) == Op(g, n) \in {"read", "try_read"}
IsWrite(g, n) == Op(g, n) \in {"write", "try_write"}
IsComm(g, n) == IsRead(g, n) \/ IsWrite(g, n)
IsNonBlockingAccess(g, n) == Op(g, n) \in {"try_read", "try_write"}
IsBlocking(g, n) == IsComm(g, n) /\ g.ports[g.stmt[n].port] \in Blocking
IsMaster(g, n) == IsComm(g, n) /\ g.ports[g.stmt[n].port] \in {"master in", "master out"}
IsSlave(g, n) == IsComm(g, n) /\ g.ports[g.stmt[n].port] \in {"slave in", "slave out"}
Port(g, n) == g.stmt[n].port

-----------------------------------------------------------------------------
(* Statements along a path.  A branching node stands for its condition, or  *)
(* the negation of it, depending on the next node: the `then' part of a     *)
(* statement is numbered first.                                             *)

(* Mutant: the condition is never negated. *)
StmtPositive(g, n, next) == g.stmt[n]

Stmt(g, n, next) ==
  IF IsBranch(g, n) THEN [g.stmt[n] EXCEPT !.holds = (next = n + 1)] ELSE g.stmt[n]

PathStmts(g, path) == [i \in 1 .. Len(path) - 1 |-> Stmt(g, path[i], path[i + 1])]

(* The function f, with e at p. *)
Put(f, p, e) == [q \in DOMAIN f \cup {p} |-> IF q = p THEN e ELSE f[q]]

(* Symbolic execution: what each variable, and each port that is written,   *)
(* holds in terms of the variables and the port signals at the beginning.   *)
(* A port has one data signal and one synchronization signal, whenever it   *)
(* is read.  The flag of a try_read or try_write is the latter.             *)
Start == [map |-> [x \in Vars |-> << "variable", x >>], sig |-> << >>, conditions |-> {}]

Execute(sym, s) ==
  CASE s.op = "assign" -> [sym EXCEPT !.map[s.var] = << "value", s.val >>]
    [] s.op = "copy"   -> [sym EXCEPT !.map[s.var] = sym.map[s.from]]
    [] s.op = "peek"   -> [sym EXCEPT !.map[s.var] = << "sync", s.port >>]
    [] s.op = "read"   -> [sym EXCEPT !.map[s.var] = << "data", s.port >>]
    [] s.op = "try_read"  -> [sym EXCEPT !.map[s.var] = << "data", s.port >>,
                                         !.map[s.flag] = << "sync", s.port >>]
    [] s.op = "write"     -> [sym EXCEPT !.sig = Put(@, s.port, sym.map[s.var])]
    [] s.op = "try_write" -> [sym EXCEPT !.sig = Put(@, s.port, sym.map[s.var]),
                                         !.map[s.flag] = << "sync", s.port >>]
    [] s.op = "if"   -> [sym EXCEPT !.conditions = @ \cup {<< sym.map[s.var], s.val, s.holds >>}]
    [] s.op = "sync" -> [sym EXCEPT !.conditions = @ \cup {<< << "sync", s.port >>, 1, s.holds >>}]
    [] OTHER -> sym

execute(stmts) ==
  LET sym[i \in 0 .. Len(stmts)] == IF i = 0 THEN Start ELSE Execute(sym[i - 1], stmts[i])
  IN  sym[Len(stmts)]

extractConditions(stmts) == execute(stmts).conditions

(* The SMT solver: every symbol can be given a value. *)
Possible(e) == CASE e[1] = "value" -> {e[2]} [] e[1] = "sync" -> {0, 1} [] OTHER -> Values

Satisfiable(conditions) ==
  \A e \in {c[1] : c \in conditions} :
    \E v \in Possible(e) : \A c \in conditions : c[1] = e => ((v = c[2]) <=> c[3])

isPathReachable(g, assumed, path) ==
  Satisfiable(extractConditions(assumed \o PathStmts(g, path)))

=============================================================================
