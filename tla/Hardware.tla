------------------------------ MODULE Hardware ------------------------------
(***************************************************************************)
(* The translation, the program that is translated, and a circuit that     *)
(* satisfies the property suite: once the suite is there the program runs, *)
(* node by node, and each time it reaches a state the circuit has carried  *)
(* out the operation whose assumptions held.  What others do at the ports  *)
(* is chosen anew at each state, the same for both.                        *)
(***************************************************************************)
EXTENDS PropertySuite

VARIABLES loc,       \* the program: the node that is executed next
          val,       \* what its variables hold
          written,   \* what it has written to ports since the last state
          synch,     \* the ports: whether somebody is there
          data,      \* and what is sent to the module
          state, reg, sig, notify   \* the circuit, as far as the suite says

programVars == << loc, val, written >>
portVars == << synch, data >>
circuitVars == << state, reg, sig, notify >>
allVars == << vars, createVars, programVars, portVars, circuitVars >>

Used(p) == \E n \in Node(cfg) : "port" \in DOMAIN cfg.stmt[n] /\ Port(cfg, n) = p
SyncPorts == {p \in Ports : Used(p) /\ cfg.ports[p] \in Blocking \cup {"slave in"}}
DataPorts == {p \in Ports : Used(p) /\ isInput(p)}

(* What a module can state: reads are of inputs, writes of outputs; masters *)
(* and the writes of slaves report no success.                              *)
StatementsOf(g) ==
  LET may(kinds) == {p \in DOMAIN g.ports : g.ports[p] \in kinds}
      in == may({"blocking in", "master in", "slave in"})
      out == may({"blocking out", "master out", "slave out"})
  IN  [op : {"reset", "wait", "while", "empty"}]
        \cup [op : {"assign"}, var : Vars, val : Values]
        \cup [op : {"copy"}, var : Vars, from : Vars]
        \cup [op : {"if"}, var : Vars, val : Values, holds : BOOLEAN]
        \cup [op : {"peek"}, port : DOMAIN g.ports, var : Vars]
        \cup [op : {"read"}, port : in, var : Vars]
        \cup [op : {"try_read"}, port : may({"blocking in", "slave in"}), var : Vars, flag : Vars]
        \cup [op : {"write"}, port : out, var : Vars]
        \cup [op : {"try_write"}, port : may({"blocking out"}), var : Vars, flag : Vars]

(* The program begins with the assignments of the initial values.           *)
InitSectionOf(g) ==
  \E k \in Node(g) : /\ 0 .. k \subseteq Node(g)
                     /\ \A n \in 0 .. k : Succ(g, n) = << n + 1 >>
                     /\ \A n \in 1 .. k : Op(g, n) = "assign"
                     /\ \A x \in Vars : \E n \in 1 .. k : g.stmt[n].var = x

(* The nodes are numbered from 0, and there are comparisons only.           *)
ProgramsRun ==
  \A g \in Programs :
    /\ \E last \in Node(g) : Node(g) = 0 .. last
    /\ \A n \in Node(g) : g.stmt[n] \in StatementsOf(g)
    /\ InitSectionOf(g)

ASSUME RunAssumption == ProgramsRun

HardwareInit ==
  /\ Init /\ CreateInit
  /\ loc = 0 /\ val = [x \in Vars |-> 0] /\ written = << >>
  /\ synch = << >> /\ data = << >>
  /\ state = 0 /\ reg = << >> /\ sig = << >> /\ notify = {}

NewInputs == synch' \in [SyncPorts -> {0, 1}] /\ data' \in [DataPorts -> Values]

FindStep == Next /\ UNCHANGED << createVars, programVars, portVars, circuitVars >>
Create == CreateNext /\ UNCHANGED << programVars, portVars, circuitVars >>
Reset == Suite /\ NewInputs /\ UNCHANGED << programVars, circuitVars >>

-----------------------------------------------------------------------------
(* The circuit *)

Value(e) == CASE e[1] = "value"    -> e[2]
              [] e[1] = "variable" -> reg[e[2]]
              [] e[1] = "sync"     -> synch[e[2]]
              [] e[1] = "data"     -> IF isInput(e[2]) THEN data[e[2]] ELSE sig[e[2]]

Assumes(op) == \A c \in op.assumptions : (Value(c[1]) = c[2]) <=> c[3]

(* The properties of the state that say what happens next. *)
Applies == {k \in outgoing[state] : Assumes(operation[k])}

CarryOut(op) == /\ state' = op.end
                /\ reg' = [x \in DOMAIN op.commitments |-> Value(op.commitments[x])]
                /\ sig' = [p \in DOMAIN op.signals |-> Value(op.signals[p])]
                /\ notify' = Notified(op)

-----------------------------------------------------------------------------
(* The program *)

(* A translation that ended before all states were searched is left alone:  *)
(* AllStatesSearched is about it.                                           *)
Running == stage = "suite" /\ AllStatesSearched

Nobody(p) == synch[p] = 0

(* The `then' part of a statement is the first successor. *)
NextNode == LET s == cfg.stmt[loc]
            IN  IF IsBranch(cfg, loc)
                THEN Succ(cfg, loc)[IF val[s.var] = s.val THEN 1 ELSE 2]
                ELSE Succ(cfg, loc)[1]

(* A read that finds nobody leaves the variable alone: of a slave, or       *)
(* try_read.                                                                *)
Received(s) == IF s.port \in SyncPorts /\ Nobody(s.port) THEN val[s.var] ELSE data[s.port]

Computed ==
  LET s == cfg.stmt[loc]
  IN  CASE s.op = "assign"    -> [val EXCEPT ![s.var] = s.val]
        [] s.op = "copy"      -> [val EXCEPT ![s.var] = val[s.from]]
        [] s.op = "peek"      -> [val EXCEPT ![s.var] = synch[s.port]]
        [] s.op = "read"      -> [val EXCEPT ![s.var] = Received(s)]
        [] s.op = "try_read"  -> [val EXCEPT ![s.var] = Received(s), ![s.flag] = synch[s.port]]
        [] s.op = "try_write" -> [val EXCEPT ![s.flag] = synch[s.port]]
        [] OTHER -> val

Written == LET before == IF IsImportant(loc) THEN << >> ELSE written
           IN  IF IsWrite(cfg, loc) /\ ~ IsImportant(loc)
               THEN Put(before, Port(cfg, loc), val[cfg.stmt[loc].var]) ELSE before

Blocked == IsBlocking(cfg, loc) /\ ~ IsNonBlockingAccess(cfg, loc) /\ Nobody(Port(cfg, loc))

(* Nobody comes: the program waits, and so does the circuit.                *)
WaitStep == /\ Running /\ Blocked
         /\ written' = << >>
         /\ \E k \in Applies : CarryOut(operation[k])
         /\ NewInputs
         /\ UNCHANGED << vars, createVars, loc, val >>

Run == /\ Running /\ ~ Blocked
       /\ loc' = NextNode /\ val' = Computed /\ written' = Written
       /\ IF IsImportant(loc')
          THEN NewInputs /\ \E k \in Applies : CarryOut(operation[k])
          ELSE UNCHANGED << portVars, circuitVars >>
       /\ UNCHANGED << vars, createVars >>

HardwareNext == FindStep \/ Create \/ Reset \/ WaitStep \/ Run

HardwareSpec == HardwareInit /\ [][HardwareNext]_allVars

(* The translation is one sequential program: it goes on to its end.        *)
Translated == phase = "error" \/ stage \in {"suite", "failed"}
HardwareFairSpec == HardwareSpec /\ ([]<>Translated \/ []<><< TRUE >>_allVars)

-----------------------------------------------------------------------------
(* Properties *)

AtState == Running /\ IsImportant(loc)

(* What the program offers at a state: what it wrote on its way, and what   *)
(* it writes at the state.                                                  *)
Offers == IF IsWrite(cfg, loc) THEN Put(written, Port(cfg, loc), val[cfg.stmt[loc].var])
          ELSE written

(* The flag of a try_write is not read before it is set. *)
Flags(n) == IF Op(cfg, n) = "try_write" THEN {cfg.stmt[n].flag} ELSE {}

(* Whatever happens at the ports, exactly one property of the state says    *)
(* what comes next: the suite has no gap, and no two properties contradict  *)
(* each other.  "Decide what paths are reachable given the possible         *)
(* backtracks of the state" (FindOperations.h).                             *)
OneApplies == AtState => Cardinality(Applies) = 1

(* The circuit is where the program is, its registers hold what the         *)
(* variables that were kept hold, and what the program offers at a port is  *)
(* on the port's data signal.                                               *)
HardwareFollows ==
  AtState /\ loc # 0 =>
    /\ state = loc
    /\ \A x \in varMap \ Flags(loc) : x \in DOMAIN reg /\ reg[x] = val[x]
    /\ \A p \in DOMAIN Offers : p \in DOMAIN sig /\ sig[p] = Offers[p]

(* A port is notified exactly when the program communicates there: a        *)
(* partner is never told to go on too early, and never left waiting.        *)
NotifiedIsOffered ==
  AtState /\ loc # 0 => notify = NotifyPorts \cap (communicationPort(loc) \cup DOMAIN Offers)

(* The translation stops: every path is given up or ends at a state, every  *)
(* further round has one more state, and every slave read of a path is      *)
(* tried both ways once.                                                    *)
Stops == <>Translated
=============================================================================
