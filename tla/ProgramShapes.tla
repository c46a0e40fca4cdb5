---------------------------- MODULE ProgramShapes ----------------------------
(***************************************************************************)
(* The programs the translation is model checked on: all ways to fill a    *)
(* few shapes with a few statements.                                       *)
(***************************************************************************)
EXTENDS Naturals, Sequences, TLC

Wait == [op |-> "wait"]
Reads(p, x) == [op |-> "read", port |-> p, var |-> x]
TryReads(p, x, f) == [op |-> "try_read", port |-> p, var |-> x, flag |-> f]
Writes(p, x) == [op |-> "write", port |-> p, var |-> x]
TryWrites(p, x, f) == [op |-> "try_write", port |-> p, var |-> x, flag |-> f]
Pokes(p, x) == [op |-> "peek", port |-> p, var |-> x]
Sets(x, v) == [op |-> "assign", var |-> x, val |-> v]
Copies(x, y) == [op |-> "copy", var |-> x, from |-> y]
If(x, v) == [op |-> "if", var |-> x, val |-> v, holds |-> TRUE]
Loop == [op |-> "while"]

(* createInitSection2: every variable is given its initial value, then the  *)
(* outputs of a slave a default, which is the value y has there.            *)
InitSection(ports) ==
  << Sets("x", 0), Sets("y", 0) >>
    \o IF "s3" \in DOMAIN ports THEN << Writes("s3", "y") >> ELSE << >>

(* A program whose loop starts after the initial section.  Every node is    *)
(* followed by the next one, except those in jumps, counted from the loop's *)
(* head.                                                                    *)
Program(ports, statements, jumps) ==
  LET stmt == << [op |-> "reset"] >> \o InitSection(ports) \o << Loop >> \o statements
      n == Len(stmt) - 1
      head == n - Len(statements)
      next(k) == IF k >= head /\ k - head \in DOMAIN jumps
                 THEN [i \in DOMAIN jumps[k - head] |-> head + jumps[k - head][i]]
                 ELSE << k + 1 >>
  IN  [ports |-> ports, stmt |-> [k \in 0 .. n |-> stmt[k + 1]], succ |-> [k \in 0 .. n |-> next(k)]]

modulePorts == [b |-> "blocking in", c |-> "blocking out", i |-> "master in", o |-> "master out"]

(* while(true) { if (x == 0) { s[1]; s[2]; } else { s[3]; s[4]; } } *)
EitherOr(s) == Program(modulePorts, << If("x", 0) >> \o s,
                       1 :> << 2, 4 >> @@ 3 :> << 0 >> @@ 5 :> << 0 >>)

(* while(true) { s[1]; s[2]; if (x == 1) { s[3]; } s[4]; } *)
Guarded(s) == Program(modulePorts, << s[1], s[2], If("x", 1), s[3], s[4] >>,
                      3 :> << 4, 5 >> @@ 5 :> << 0 >>)

(* Every statement that does not depend on another turn's reads: what is    *)
(* compared is set, or read once from a blocking port, or peeked before it  *)
(* is compared with anything else.                                          *)
Slots == {Wait, Writes("c", "y"), Writes("o", "y"), Reads("i", "y"), Sets("x", 1), Copies("y", "x")}
FirstSlot == {Reads("b", "x"), TryReads("b", "y", "x"), TryWrites("c", "y", "x")}
MasterPrograms ==
  {EitherOr(<< s >> \o t) : s \in Slots \cup FirstSlot, t \in [1 .. 3 -> Slots]}
  \cup
  {Guarded(<< s >> \o t) : s \in Slots \cup FirstSlot \cup {Pokes("c", "x")}, t \in [1 .. 3 -> Slots]}

(* while(true) { s[1]; if (x == 0) { s[2]; } if (y == 0) { s[3]; } s[4]; }  *)
TwoJoins(s) == Program(modulePorts, << s[1], If("x", 0), s[2], If("y", 0), s[3], s[4] >>,
                       2 :> << 3, 4 >> @@ 4 :> << 5, 6 >> @@ 6 :> << 0 >>)
JoinPrograms ==
  {TwoJoins(<< s, t, u, v >>) : s \in {Reads("b", "x"), TryReads("b", "y", "x"), Copies("y", "x"), Sets("y", 0)},
                                t \in {Sets("y", 1), Reads("b", "x"), Wait, Writes("c", "y")},
                                u \in {Sets("y", 1), Sets("x", 1), Wait, Writes("o", "y")},
                                v \in {Wait, Writes("c", "y"), Writes("o", "x")}}

(* Modules with slave ports:                                                *)
(* while(true) { s[1]; s[2]; s[3]; if (x == 0) { s[4]; } s[5]; }            *)
slaveModulePorts == [s1 |-> "slave in", s2 |-> "slave in", s3 |-> "slave out", o |-> "master out"]
Served(s) == Program(slaveModulePorts, << s[1], s[2], s[3], If("x", 0), s[4], s[5] >>,
                     4 :> << 5, 6 >> @@ 6 :> << 0 >>)
SlaveSlots == {Wait, Reads("s1", "y"), TryReads("s2", "y", "x"), Writes("s3", "y"), Writes("o", "y"),
               Sets("x", 1)}
SlavePrograms == {Served(<< s >> \o t) : s \in {Wait, Writes("s3", "y")}, t \in [1 .. 4 -> SlaveSlots]}

AllPrograms == MasterPrograms \cup JoinPrograms \cup SlavePrograms

(* Few of them: masters and the variable that decides, or both inputs first. *)
FewSlots == {Wait, Writes("o", "y"), Reads("i", "y"), Sets("x", 1)}
FewPrograms == {EitherOr(s) : s \in [1 .. 4 -> FewSlots]}
                 \cup {Guarded(s) : s \in [1 .. 4 -> FewSlots]}

(* What is compared is read again before the next state is reached:         *)
(* while(true) { if (y == 0) { y = 1; wait(); }                             *)
(*               else { i->master_read(x); if (x == 1) s[1]; else s[2]; } } *)
Reread(s) == Program(modulePorts, << If("y", 0), Sets("y", 1), Wait, Reads("i", "x"), If("x", 1) >> \o s,
                     1 :> << 2, 4 >> @@ 3 :> << 0 >> @@ 5 :> << 6, 7 >> @@ 6 :> << 0 >> @@ 7 :> << 0 >>)
RereadPrograms == {Reread(s) : s \in [1 .. 2 -> {Wait, Writes("o", "x"), Sets("x", 1)}]}
=============================================================================
