------------------------ MODULE FindOperations_proofs ------------------------
(***************************************************************************)
(* Proofs about FindOperations for every set of graphs, whatever their     *)
(* shape, every set of variables and values, and every encoding of turns.  *)
(***************************************************************************)
EXTENDS FindOperations, TLAPS, WellFoundedInduction, SequenceTheorems, FiniteSetTheorems

-----------------------------------------------------------------------------
(* Induction over the numbers, for a set. *)
LEMMA NatSetInduction ==
  ASSUME NEW S, 0 \in S, \A n \in Nat : n \in S => n + 1 \in S
  PROVE  \A n \in Nat : n \in S
<1> DEFINE R == OpToRel(<, Nat)
           T == Nat \ S
<1>1. IsWellFoundedOn(R, Nat)
  BY NatLessThanWellFounded
<1> SUFFICES ASSUME T # {} PROVE FALSE
  OBVIOUS
<1>2. PICK x \in T : \A y \in T : ~ (<< y, x >> \in R)
  <2> HIDE DEF R
  <2> QED BY <1>1, WFMin
<1>3. x \in Nat /\ x # 0
  OBVIOUS
<1>4. x - 1 \in Nat /\ (x - 1) + 1 = x /\ x - 1 < x
  BY <1>3
<1>5. x - 1 \in T
  BY <1>4
<1>6. << x - 1, x >> \in R
  BY <1>3, <1>4 DEF OpToRel
<1> QED
  BY <1>2, <1>5, <1>6

-----------------------------------------------------------------------------
(* The states of a symbolic execution, from the start to the n-th statement. *)
Symbols(stmts, f, n) ==
  f = [i \in 0 .. n |-> IF i = 0 THEN Start ELSE Execute(f[i - 1], stmts[i])]

LEMMA SymbolsStep ==
  ASSUME NEW stmts, NEW n \in Nat, NEW f, Symbols(stmts, f, n)
  PROVE  /\ f[0] = Start
         /\ \A i \in 1 .. n : f[i] = Execute(f[i - 1], stmts[i])
BY DEF Symbols

LEMMA SymbolsExist ==
  ASSUME NEW stmts, NEW m \in Nat
  PROVE  \E f : Symbols(stmts, f, m)
<1> DEFINE S == {n \in Nat : \E f : Symbols(stmts, f, n)}
<1>1. 0 \in S
  <2> DEFINE f == [i \in 0 .. 0 |-> Start]
  <2>1. Symbols(stmts, f, 0)
    BY DEF Symbols
  <2> QED
    BY <2>1
<1>2. ASSUME NEW n \in Nat, n \in S PROVE n + 1 \in S
  <2>1. PICK f : Symbols(stmts, f, n)
    BY <1>2
  <2> DEFINE g == [i \in 0 .. n + 1 |-> IF i = n + 1 THEN Execute(f[n], stmts[n + 1]) ELSE f[i]]
  <2>2. /\ f[0] = Start
        /\ \A i \in 1 .. n : f[i] = Execute(f[i - 1], stmts[i])
    BY <2>1, SymbolsStep
  <2>3. ASSUME NEW i \in 0 .. n + 1
        PROVE  g[i] = IF i = 0 THEN Start ELSE Execute(g[i - 1], stmts[i])
    <3>1. CASE i = 0
      BY <2>2, <3>1
    <3>2. CASE i \in 1 .. n
      <4>1. g[i] = f[i] /\ g[i - 1] = f[i - 1] /\ i # 0
        BY <3>2
      <4> QED
        BY <2>2, <3>2, <4>1, Zenon
    <3>3. CASE i = n + 1
      <4>1. g[i] = Execute(f[n], stmts[n + 1]) /\ g[n] = f[n] /\ i # 0 /\ i - 1 = n
        BY <3>3
      <4> QED
        BY <3>3, <4>1, Zenon
    <3> QED
      BY <3>1, <3>2, <3>3
  <2>4. g = [i \in 0 .. n + 1 |-> g[i]]
    OBVIOUS
  <2> HIDE DEF g
  <2>5. Symbols(stmts, g, n + 1)
    BY <2>3, <2>4, Zenon DEF Symbols
  <2> QED
    BY <2>5
<1> HIDE DEF S
<1>3. m \in S
  BY <1>1, <1>2, NatSetInduction
<1> QED
  BY <1>3 DEF S

(* Two executions agree as long as their statements do. *)
LEMMA SymbolsAgree ==
  ASSUME NEW s, NEW t, NEW f, NEW g, NEW m \in Nat, NEW n \in Nat, n <= m,
         Symbols(s, f, m), Symbols(t, g, n), \A i \in 1 .. n : s[i] = t[i]
  PROVE  f[n] = g[n]
<1> DEFINE S == {k \in Nat : k <= n => f[k] = g[k]}
<1>1. /\ f[0] = Start /\ g[0] = Start
      /\ \A i \in 1 .. m : f[i] = Execute(f[i - 1], s[i])
      /\ \A i \in 1 .. n : g[i] = Execute(g[i - 1], t[i])
  BY SymbolsStep
<1>2. 0 \in S
  BY <1>1
<1>3. ASSUME NEW k \in Nat, k \in S PROVE k + 1 \in S
  <2> SUFFICES ASSUME k + 1 <= n PROVE f[k + 1] = g[k + 1]
    OBVIOUS
  <2>1. k + 1 \in 1 .. m /\ k + 1 \in 1 .. n /\ (k + 1) - 1 = k /\ f[k] = g[k]
    BY <1>3
  <2>2. f[k + 1] = Execute(f[k], s[k + 1]) /\ g[k + 1] = Execute(g[k], t[k + 1])
    BY <1>1, <2>1, Zenon
  <2> QED
    BY <2>1, <2>2, Zenon
<1> HIDE DEF S
<1>4. n \in S
  BY <1>2, <1>3, NatSetInduction
<1> QED
  BY <1>4 DEF S

(* The result of an execution is the last of its states. *)
LEMMA ExecuteIsLast ==
  ASSUME NEW stmts, Len(stmts) \in Nat, NEW f, Symbols(stmts, f, Len(stmts))
  PROVE  execute(stmts) = f[Len(stmts)]
<1> DEFINE n == Len(stmts)
           g == CHOOSE g : g = [i \in 0 .. n |-> IF i = 0 THEN Start ELSE Execute(g[i - 1], stmts[i])]
<1>1. Symbols(stmts, g, n)
  BY Zenon DEF Symbols
<1>2. execute(stmts) = g[n]
  BY Zenon DEF execute
<1> QED
  BY <1>1, <1>2, SymbolsAgree

LEMMA ExecuteNothing ==
  execute(<< >>) = Start
<1>1. PICK f : Symbols(<< >>, f, 0)
  BY SymbolsExist
<1>2. f[0] = Start
  BY <1>1, SymbolsStep
<1> QED
  BY <1>1, <1>2, ExecuteIsLast

(* A statement more is executed on the result of those before.             *)
LEMMA ExecuteAppend ==
  ASSUME NEW S, NEW stmts \in Seq(S), NEW s \in S
  PROVE  execute(Append(stmts, s)) = Execute(execute(stmts), s)
<1> DEFINE n == Len(stmts)
           more == Append(stmts, s)
<1>1. /\ n \in Nat /\ Len(more) = n + 1
      /\ \A i \in 1 .. n : more[i] = stmts[i]
      /\ more[n + 1] = s
  OBVIOUS
<1> HIDE DEF more
<1>2. PICK f : Symbols(stmts, f, n)
  BY <1>1, SymbolsExist
<1>3. PICK g : Symbols(more, g, n + 1)
  BY <1>1, SymbolsExist
<1>4. execute(stmts) = f[n] /\ execute(more) = g[n + 1]
  BY <1>1, <1>2, <1>3, ExecuteIsLast
<1>5. g[n] = f[n]
  BY <1>1, <1>2, <1>3, SymbolsAgree
<1>6. g[n + 1] = Execute(g[n], s)
  <2>1. \A i \in 1 .. n + 1 : g[i] = Execute(g[i - 1], more[i])
    BY <1>1, <1>3, SymbolsStep
  <2>2. n + 1 \in 1 .. n + 1 /\ (n + 1) - 1 = n
    BY <1>1
  <2> QED
    BY <1>1, <2>1, <2>2, Zenon
<1> QED
  BY <1>4, <1>5, <1>6 DEF more

(* What a statement leaves of the symbols is a record like them; only the   *)
(* conditions of an if or a sync are collected.                             *)
Symbolic(sym) == sym = [map |-> sym.map, sig |-> sym.sig, conditions |-> sym.conditions]

LEMMA ExecuteCollects ==
  ASSUME NEW sym, Symbolic(sym), NEW s
  PROVE  /\ Symbolic(Execute(sym, s))
         /\ s.op \notin {"if", "sync"} => Execute(sym, s).conditions = sym.conditions
         /\ s.op = "if" =>
              Execute(sym, s).conditions = sym.conditions \cup {<< sym.map[s.var], s.val, s.holds >>}
         /\ s.op = "sync" =>
              Execute(sym, s).conditions = sym.conditions \cup {<< << "sync", s.port >>, 1, s.holds >>}
<1> USE DEF Symbolic
<1>1. CASE s.op = "assign"
  BY <1>1 DEF Execute
<1>2. CASE s.op = "copy"
  BY <1>2 DEF Execute
<1>3. CASE s.op = "peek"
  BY <1>3 DEF Execute
<1>4. CASE s.op = "read"
  BY <1>4 DEF Execute
<1>5. CASE s.op = "try_read"
  BY <1>5 DEF Execute
<1>6. CASE s.op = "write"
  BY <1>6 DEF Execute
<1>7. CASE s.op = "try_write"
  BY <1>7 DEF Execute
<1>8. CASE s.op = "if"
  BY <1>8 DEF Execute
<1>9. CASE s.op = "sync"
  BY <1>9 DEF Execute
<1>10. CASE s.op \notin {"assign", "copy", "peek", "read", "try_read", "write", "try_write",
                         "if", "sync"}
  BY <1>10 DEF Execute
<1> QED
  BY <1>1, <1>2, <1>3, <1>4, <1>5, <1>6, <1>7, <1>8, <1>9, <1>10

LEMMA ExecuteSymbolic ==
  ASSUME NEW S, NEW stmts \in Seq(S)
  PROVE  Symbolic(execute(stmts))
<1> DEFINE m == Len(stmts)
<1>1. m \in Nat
  OBVIOUS
<1>2. PICK f : Symbols(stmts, f, m)
  BY <1>1, SymbolsExist
<1>3. /\ f[0] = Start
      /\ \A i \in 1 .. m : f[i] = Execute(f[i - 1], stmts[i])
  BY <1>1, <1>2, SymbolsStep
<1> DEFINE T == {k \in Nat : k <= m => Symbolic(f[k])}
<1>4. 0 \in T
  BY <1>3 DEF Symbolic, Start
<1>5. ASSUME NEW k \in Nat, k \in T PROVE k + 1 \in T
  <2> SUFFICES ASSUME k + 1 <= m PROVE Symbolic(f[k + 1])
    OBVIOUS
  <2>1. k + 1 \in 1 .. m /\ (k + 1) - 1 = k /\ Symbolic(f[k])
    BY <1>1, <1>5
  <2>2. f[k + 1] = Execute(f[k], stmts[k + 1])
    BY <1>3, <2>1, Zenon
  <2>3. Symbolic(Execute(f[k], stmts[k + 1]))
    BY <2>1, ExecuteCollects
  <2> QED
    BY <2>2, <2>3, Zenon
<1> HIDE DEF T
<1>6. m \in T
  BY <1>1, <1>4, <1>5, NatSetInduction
<1> QED
  BY <1>1, <1>2, <1>6, ExecuteIsLast DEF T

-----------------------------------------------------------------------------
(* Solving conditions: one more can be met, or its negation.               *)
LEMMA ConditionOrNot ==
  ASSUME Values # {}, NEW C, Satisfiable(C), NEW e, NEW val,
         NEW yes, NEW no, yes = TRUE, no = FALSE
  PROVE  Satisfiable(C \cup {<< e, val, yes >>}) \/ Satisfiable(C \cup {<< e, val, no >>})
<1> DEFINE more(h) == C \cup {<< e, val, h >>}
           Meets(v, d, D) == \A c \in D : c[1] = d => ((v = c[2]) <=> c[3])
<1>1. \A d \in {c[1] : c \in C} : \E v \in Possible(d) : Meets(v, d, C)
  BY Zenon DEF Satisfiable
<1>2. PICK v \in Possible(e) : Meets(v, e, C)
  <2>1. CASE e \in {c[1] : c \in C}
    BY <1>1, <2>1
  <2>2. CASE e \notin {c[1] : c \in C}
    <3>1. Possible(e) # {}
      BY DEF Possible
    <3> QED
      BY <2>2, <3>1
  <2> QED
    BY <2>1, <2>2
<1>3. ASSUME NEW h \in BOOLEAN, (v = val) <=> h
      PROVE  Satisfiable(more(h))
  <2>1. ASSUME NEW d \in {c[1] : c \in more(h)}
        PROVE  \E w \in Possible(d) : Meets(w, d, more(h))
    <3>1. CASE d = e
      <4>1. Meets(v, e, more(h))
        <5>1. << e, val, h >>[1] = e /\ << e, val, h >>[2] = val /\ << e, val, h >>[3] = h
          OBVIOUS
        <5> QED
          BY <1>2, <1>3, <5>1, Zenon
      <4> QED
        BY <3>1, <4>1, <1>2
    <3>2. CASE d # e
      <4>1. d \in {c[1] : c \in C}
        BY <3>2
      <4>2. PICK w \in Possible(d) : Meets(w, d, C)
        BY <1>1, <4>1
      <4>3. << e, val, h >>[1] = e
        OBVIOUS
      <4>4. Meets(w, d, more(h))
        BY <3>2, <4>2, <4>3, Zenon
      <4> QED
        BY <4>4
    <3> QED
      BY <3>1, <3>2
  <2> QED
    BY <2>1, Zenon DEF Satisfiable
<1>4. CASE v = val
  BY <1>3, <1>4
<1>5. CASE v # val
  BY <1>3, <1>5
<1> QED
  BY <1>4, <1>5

-----------------------------------------------------------------------------
(* Paths *)

LEMMA FunctionIsSeq ==
  ASSUME NEW n \in Nat, NEW X, NEW s \in [1 .. n -> X]
  PROVE  s \in Seq(X) /\ Len(s) = n
OBVIOUS

LEMMA PathStmtsType ==
  ASSUME NEW g, NEW P, Len(P) \in Nat, Len(P) > 0
  PROVE  /\ Len(PathStmts(g, P)) = Len(P) - 1
         /\ PathStmts(g, P) \in Seq({Stmt(g, P[i], P[i + 1]) : i \in 1 .. Len(P) - 1})
<1> DEFINE n == Len(P) - 1
           X == {Stmt(g, P[i], P[i + 1]) : i \in 1 .. n}
<1>1. n \in Nat /\ PathStmts(g, P) \in [1 .. n -> X]
  BY DEF PathStmts
<1> QED
  BY <1>1, FunctionIsSeq

LEMMA OneNodeNoStmts ==
  ASSUME NEW g, NEW P, Len(P) = 1
  PROVE  PathStmts(g, P) = << >>
<1> DEFINE s == PathStmts(g, P)
           X == {Stmt(g, P[i], P[i + 1]) : i \in 1 .. Len(P) - 1}
<1>1. Len(P) \in Nat /\ Len(P) > 0 /\ Len(P) - 1 = 0
  OBVIOUS
<1>2. Len(s) = Len(P) - 1 /\ s \in Seq(X)
  BY <1>1, PathStmtsType, Zenon
<1> HIDE DEF s, X
<1>3. s = << >>
  BY <1>1, <1>2, EmptySeq
<1> QED
  BY <1>3 DEF s

(* The statements of a path that grows by a node. *)
LEMMA PathGrows ==
  ASSUME NEW g, NEW P \in Seq(Node(g)), P # << >>, NEW m \in Node(g)
  PROVE  PathStmts(g, Append(P, m)) = Append(PathStmts(g, P), Stmt(g, Last(P), m))
<1> DEFINE n == Len(P)
           Q == Append(P, m)
           last == Stmt(g, Last(P), m)
           X == {Stmt(g, P[i], P[i + 1]) : i \in 1 .. n - 1}
           Y == {Stmt(g, Q[i], Q[i + 1]) : i \in 1 .. n}
           Z == X \cup Y \cup {last}
<1>1. /\ n \in Nat /\ n > 0 /\ Len(Q) = n + 1 /\ Q[n + 1] = m
      /\ \A i \in 1 .. n : Q[i] = P[i]
      /\ Last(P) = P[n]
  BY DEF Last
<1> HIDE DEF n, Q
<1>2. /\ PathStmts(g, P) = [i \in 1 .. n - 1 |-> Stmt(g, P[i], P[i + 1])]
      /\ PathStmts(g, Q) = [i \in 1 .. n |-> Stmt(g, Q[i], Q[i + 1])]
  BY <1>1 DEF PathStmts, n
<1> DEFINE s == PathStmts(g, P)
           t == PathStmts(g, Q)
<1>3. s \in Seq(X) /\ Len(s) = n - 1 /\ t \in Seq(Y) /\ Len(t) = n
  <2>1. s \in Seq(X) /\ Len(s) = n - 1
    BY <1>1, PathStmtsType DEF n
  <2>2. (n + 1) - 1 = n
    BY <1>1
  <2>3. Len(Q) \in Nat /\ Len(Q) > 0 /\ Len(Q) - 1 = n
    BY <1>1
  <2>4. t \in Seq({Stmt(g, Q[i], Q[i + 1]) : i \in 1 .. Len(Q) - 1}) /\ Len(t) = Len(Q) - 1
    BY <2>3, PathStmtsType, Zenon
  <2> QED
    BY <2>1, <2>3, <2>4
<1>4. t[n] = last
  BY <1>1, <1>2
<1>5. \A i \in 1 .. n - 1 : t[i] = s[i]
  <2>1. \A i \in 1 .. n - 1 : i \in 1 .. n /\ i + 1 \in 1 .. n
    BY <1>1
  <2> QED
    BY <1>1, <1>2, <2>1
<1> HIDE DEF s, t, last
<1>6. s \in Seq(Z) /\ t \in Seq(Z) /\ last \in Z
  <2>1. X \subseteq Z /\ Y \subseteq Z
    OBVIOUS
  <2> HIDE DEF X, Y, Z
  <2>2. s \in Seq(Z) /\ t \in Seq(Z)
    BY <1>3, <2>1, SeqMonotonic
  <2> QED
    BY <2>2 DEF Z
<1> HIDE DEF Z
<1> DEFINE u == Append(s, last)
<1>7. /\ u \in Seq(Z) /\ Len(u) = n /\ u[n] = last
      /\ \A i \in 1 .. n - 1 : u[i] = s[i]
  BY <1>1, <1>3, <1>6
<1> HIDE DEF u
<1>8. \A i \in 1 .. n : i \in 1 .. n - 1 \/ i = n
  BY <1>1
<1>9. t = u
  <2>1. \A i \in 1 .. n : t[i] = u[i]
    BY <1>4, <1>5, <1>7, <1>8, Zenon
  <2> HIDE DEF X, Y
  <2> QED
    BY <1>3, <1>6, <1>7, <2>1, SeqEqual
<1> QED
  BY <1>9 DEF s, t, u, Q, last

(* The conditions along a path that nothing is assumed of.                 *)
Conditions(g, P) == extractConditions(PathStmts(g, P))

LEMMA ReachableMeets ==
  ASSUME NEW g, NEW P, Len(P) \in Nat, Len(P) > 0
  PROVE  isPathReachable(g, << >>, P) <=> Satisfiable(Conditions(g, P))
<1>1. << >> \o PathStmts(g, P) = PathStmts(g, P)
  BY PathStmtsType, ConcatEmptySeq
<1> QED
  BY <1>1 DEF isPathReachable, Conditions

(* The conditions of a path that grows by a node are executed after it.    *)
LEMMA ConditionsGrow ==
  ASSUME NEW g, NEW P \in Seq(Node(g)), P # << >>, NEW m \in Node(g)
  PROVE  LET sym == execute(PathStmts(g, P))
         IN  /\ Symbolic(sym) /\ sym.conditions = Conditions(g, P)
             /\ Conditions(g, Append(P, m)) = Execute(sym, Stmt(g, Last(P), m)).conditions
<1> DEFINE X == {Stmt(g, P[i], P[i + 1]) : i \in 1 .. Len(P) - 1}
           Y == X \cup {Stmt(g, Last(P), m)}
           s == PathStmts(g, P)
<1>1. s \in Seq(X)
  BY PathStmtsType
<1> HIDE DEF X, s
<1>2. s \in Seq(Y)
  BY <1>1, SeqMonotonic
<1>3. Stmt(g, Last(P), m) \in Y
  OBVIOUS
<1> HIDE DEF Y
<1>4. execute(Append(s, Stmt(g, Last(P), m))) = Execute(execute(s), Stmt(g, Last(P), m))
  BY <1>2, <1>3, ExecuteAppend
<1>5. Symbolic(execute(s))
  BY <1>2, ExecuteSymbolic
<1>6. PathStmts(g, Append(P, m)) = Append(s, Stmt(g, Last(P), m))
  BY PathGrows DEF s
<1> QED
  BY <1>4, <1>5, <1>6 DEF s, Conditions, extractConditions

(* A node that does not branch adds no condition. *)
LEMMA NoConditionAdded ==
  ASSUME NEW g, BranchesDecide(g), NEW P \in Seq(Node(g)), P # << >>, NEW m \in Node(g),
         Last(P) \in Node(g), ~ IsBranch(g, Last(P))
  PROVE  Conditions(g, Append(P, m)) = Conditions(g, P)
<1> DEFINE sym == execute(PathStmts(g, P))
           s == Stmt(g, Last(P), m)
<1>1. /\ Symbolic(sym) /\ sym.conditions = Conditions(g, P)
      /\ Conditions(g, Append(P, m)) = Execute(sym, s).conditions
  BY ConditionsGrow
<1>2. s.op \notin {"if", "sync"}
  BY DEF Stmt, BranchesDecide, Op
<1> HIDE DEF sym, s
<1>3. Execute(sym, s).conditions = sym.conditions
  BY <1>1, <1>2, ExecuteCollects, Zenon
<1> QED
  BY <1>1, <1>3

(* The successor is the first node of the `then' part.                     *)
Then(n, m) == IF m = n + 1 THEN TRUE ELSE FALSE

(* A node that branches adds a condition, or its negation if the path does  *)
(* not go on with the `then' part.                                         *)
LEMMA ConditionAdded ==
  ASSUME NEW g, BranchesDecide(g), NEW P \in Seq(Node(g)), P # << >>,
         Last(P) \in Node(g), IsBranch(g, Last(P))
  PROVE  \E e, val : \A m \in Node(g) :
           Conditions(g, Append(P, m)) = Conditions(g, P) \cup {<< e, val, Then(Last(P), m) >>}
<1> DEFINE sym == execute(PathStmts(g, P))
           n == Last(P)
           stmt == g.stmt[n]
           e == IF stmt.op = "if" THEN sym.map[stmt.var] ELSE << "sync", stmt.port >>
           val == IF stmt.op = "if" THEN stmt.val ELSE 1
<1>1. \A m \in Node(g) :
        /\ Symbolic(sym) /\ sym.conditions = Conditions(g, P)
        /\ Conditions(g, Append(P, m)) = Execute(sym, Stmt(g, n, m)).conditions
  BY ConditionsGrow
<1> HIDE DEF sym
<1>2. stmt \in [op : {"if"}, var : Vars, val : Values, holds : BOOLEAN]
                 \cup [op : {"sync"}, port : DOMAIN g.ports, holds : BOOLEAN]
  BY DEF BranchesDecide
<1>3. \A m \in Node(g) : Stmt(g, n, m) = [stmt EXCEPT !.holds = (m = n + 1)]
  BY DEF Stmt
<1> HIDE DEF stmt, n
<1>4. ASSUME NEW m \in Node(g)
      PROVE  Conditions(g, Append(P, m)) = Conditions(g, P) \cup {<< e, val, Then(n, m) >>}
  <2> DEFINE s == Stmt(g, n, m)
  <2>1. (m = n + 1) = Then(n, m)
    BY DEF Then
  <2>2. s = [stmt EXCEPT !.holds = Then(n, m)]
    BY <1>3, <2>1
  <2> HIDE DEF s
  <2>3. CASE stmt \in [op : {"if"}, var : Vars, val : Values, holds : BOOLEAN]
    <3>1. /\ s.op = "if" /\ s.var = stmt.var /\ s.val = stmt.val /\ s.holds = Then(n, m)
          /\ stmt.op = "if"
      BY <2>2, <2>3
    <3>2. Execute(sym, s).conditions = sym.conditions \cup {<< sym.map[s.var], s.val, s.holds >>}
      BY <1>1, <3>1, ExecuteCollects
    <3> QED
      BY <1>1, <3>1, <3>2 DEF s
  <2>4. CASE stmt \in [op : {"sync"}, port : DOMAIN g.ports, holds : BOOLEAN]
    <3>1. /\ s.op = "sync" /\ s.port = stmt.port /\ s.holds = Then(n, m)
          /\ stmt.op = "sync"
      BY <2>2, <2>4
    <3>2. Execute(sym, s).conditions =
            sym.conditions \cup {<< << "sync", s.port >>, 1, s.holds >>}
      BY <1>1, <3>1, ExecuteCollects
    <3> QED
      BY <1>1, <3>1, <3>2 DEF s
  <2> QED
    BY <1>2, <2>3, <2>4
<1> HIDE DEF e, val
<1> QED
  BY <1>4 DEF n

(* Where a path that can be reached branches, it can be continued.         *)
LEMMA OneBranchReachable ==
  ASSUME NEW g, BranchesDecide(g), Values # {}, NEW P \in Seq(Node(g)), P # << >>,
         Last(P) \in Node(g), IsBranch(g, Last(P)),
         Succ(g, Last(P))[1] \in Node(g), Succ(g, Last(P))[2] \in Node(g),
         Satisfiable(Conditions(g, P))
  PROVE  \E i \in {1, 2} : isPathReachable(g, << >>, Append(P, Succ(g, Last(P))[i]))
<1> DEFINE m1 == Succ(g, Last(P))[1]
           m2 == Succ(g, Last(P))[2]
<1>1. m1 = Last(P) + 1 /\ m2 # Last(P) + 1 /\ m1 \in Node(g) /\ m2 \in Node(g)
  BY DEF BranchesDecide
<1> HIDE DEF m1, m2
<1>2. PICK e, val : \A m \in Node(g) :
        Conditions(g, Append(P, m)) = Conditions(g, P) \cup {<< e, val, Then(Last(P), m) >>}
  <2>1. /\ BranchesDecide(g) /\ P \in Seq(Node(g)) /\ P # << >>
        /\ Last(P) \in Node(g) /\ IsBranch(g, Last(P))
    OBVIOUS
  <2> QED
    BY <2>1, ConditionAdded, ZenonT(60)
<1>3. Then(Last(P), m1) = TRUE /\ Then(Last(P), m2) = FALSE
  BY <1>1 DEF Then
<1>4. Satisfiable(Conditions(g, Append(P, m1))) \/ Satisfiable(Conditions(g, Append(P, m2)))
  <2>1. \/ Satisfiable(Conditions(g, P) \cup {<< e, val, Then(Last(P), m1) >>})
        \/ Satisfiable(Conditions(g, P) \cup {<< e, val, Then(Last(P), m2) >>})
    BY <1>3, ConditionOrNot
  <2> QED
    BY <1>1, <1>2, <2>1
<1>5. \A m \in Node(g) : Len(Append(P, m)) \in Nat /\ Len(Append(P, m)) > 0
  OBVIOUS
<1>6. isPathReachable(g, << >>, Append(P, m1)) \/ isPathReachable(g, << >>, Append(P, m2))
  BY <1>1, <1>4, <1>5, ReachableMeets
<1> QED
  BY <1>6 DEF m1, m2

(* A path that could be reached each time it had branched can be reached.  *)
LEMMA BranchesReachable ==
  ASSUME NEW g, BranchesDecide(g), NEW P \in Seq(Node(g)), P # << >>,
         \A i \in 1 .. Len(P) - 1 :
           IsBranch(g, P[i]) => isPathReachable(g, << >>, SubSeq(P, 1, i + 1))
  PROVE  Satisfiable(Conditions(g, P))
<1> DEFINE n == Len(P)
           upTo(k) == SubSeq(P, 1, k)
           S == {k \in Nat : k + 1 <= n => Satisfiable(Conditions(g, upTo(k + 1)))}
<1>1. /\ n \in Nat /\ n > 0 /\ upTo(n) = P
      /\ \A k \in 1 .. n : P[k] \in Node(g)
  OBVIOUS
<1>2. ASSUME NEW k \in 1 .. n
      PROVE  /\ upTo(k) \in Seq(Node(g)) /\ Len(upTo(k)) = k /\ upTo(k) # << >>
             /\ Last(upTo(k)) = P[k]
             /\ k + 1 <= n => upTo(k + 1) = Append(upTo(k), P[k + 1])
  BY DEF Last
<1> HIDE DEF n, upTo
<1>3. 0 \in S
  <2>1. 1 \in 1 .. n /\ 0 + 1 = 1
    BY <1>1
  <2>2. PathStmts(g, upTo(1)) = << >>
    <3>1. Len(upTo(1)) = 1
      BY <1>2, <2>1
    <3> QED
      BY <3>1, OneNodeNoStmts, Zenon
  <2>3. Conditions(g, upTo(1)) = {}
    BY <2>2, ExecuteNothing DEF Conditions, extractConditions, Start
  <2> QED
    BY <2>1, <2>3 DEF Satisfiable
<1>4. ASSUME NEW k \in Nat, k \in S PROVE k + 1 \in S
  <2> DEFINE j == k + 1
  <2> SUFFICES ASSUME j + 1 <= n PROVE Satisfiable(Conditions(g, upTo(j + 1)))
    OBVIOUS
  <2>1. j \in 1 .. n /\ j + 1 \in 1 .. n /\ j \in 1 .. n - 1
    BY <1>1
  <2>2. Satisfiable(Conditions(g, upTo(j)))
    BY <1>4, <2>1
  <2> HIDE DEF j
  <2>3. /\ upTo(j) \in Seq(Node(g)) /\ upTo(j) # << >> /\ Last(upTo(j)) = P[j]
        /\ upTo(j + 1) = Append(upTo(j), P[j + 1])
        /\ P[j] \in Node(g) /\ P[j + 1] \in Node(g)
        /\ Len(upTo(j + 1)) = j + 1 /\ j + 1 \in Nat /\ j + 1 > 0
    BY <1>1, <1>2, <2>1
  <2>4. CASE IsBranch(g, P[j])
    <3>1. isPathReachable(g, << >>, upTo(j + 1))
      BY <2>1, <2>4 DEF upTo, n
    <3> QED
      BY <2>3, <3>1, ReachableMeets
  <2>5. CASE ~ IsBranch(g, P[j])
    BY <2>2, <2>3, <2>5, NoConditionAdded
  <2> QED
    BY <2>4, <2>5
<1> HIDE DEF S
<1>5. n - 1 \in S
  BY <1>1, <1>3, <1>4, NatSetInduction
<1> QED
  BY <1>1, <1>5 DEF S

-----------------------------------------------------------------------------
(* Numbers, sequences and the ends of sequences *)

LEMMA SmallestIn ==
  ASSUME NEW S \in SUBSET Nat, S # {}
  PROVE  \E x \in S : \A y \in S : x <= y
<1>1. PICK x \in S : \A y \in S : ~ (<< y, x >> \in OpToRel(<, Nat))
  BY NatLessThanWellFounded, WFMin
<1>2. ASSUME NEW y \in S PROVE x <= y
  <2>1. x \in Nat /\ y \in Nat
    OBVIOUS
  <2>2. y < x => << y, x >> \in OpToRel(<, Nat)
    BY <2>1, Zenon DEF OpToRel
  <2>3. ~ (y < x)
    BY <1>1, <2>2, Zenon
  <2> QED
    BY <2>1, <2>3
<1> QED
  BY <1>2

LEMMA MinIn ==
  ASSUME NEW S \in SUBSET Nat, S # {}
  PROVE  Min(S) \in S
BY SmallestIn, Zenon DEF Min

LEMMA MaxIn ==
  ASSUME NEW n \in Nat, NEW S \in SUBSET (0 .. n), S # {}
  PROVE  Max(S) \in S /\ \A y \in S : y <= Max(S)
<1> DEFINE T == {n - y : y \in S}
<1>1. \A y \in S : y \in Nat /\ n - y \in Nat
  OBVIOUS
<1>2. T \in SUBSET Nat /\ T # {}
  BY <1>1
<1>3. PICK x \in T : \A y \in T : x <= y
  BY <1>2, SmallestIn, Zenon
<1>4. PICK m \in S : x = n - m
  BY <1>3
<1>5. \A y \in S : m >= y
  BY <1>1, <1>3, <1>4
<1>6. Max(S) \in S /\ \A y \in S : Max(S) >= y
  BY <1>5, Zenon DEF Max
<1> QED
  BY <1>1, <1>6

(* The longest beginning of w that the branching at cut leaves standing. *)
LEMMA KeepExists ==
  ASSUME NEW w \in Seq(Nat), NEW cut \in Nat
  PROVE  \E k \in 0 .. Len(w) : /\ k = 0 \/ w[k] <= cut
                                /\ \A j \in k + 1 .. Len(w) : w[j] > cut
<1> DEFINE S == {k \in 0 .. Len(w) : k = 0 \/ w[k] <= cut}
<1>1. Len(w) \in Nat /\ S \in SUBSET (0 .. Len(w)) /\ 0 \in S
  OBVIOUS
<1> DEFINE k == Max(S)
<1>2. k \in S /\ \A y \in S : y <= k
  BY <1>1, MaxIn
<1> HIDE DEF k
<1>3. ASSUME NEW j \in k + 1 .. Len(w) PROVE w[j] > cut
  <2>1. j \notin S /\ j \in 1 .. Len(w)
    BY <1>2, <1>3
  <2> QED
    BY <2>1
<1> QED
  BY <1>2, <1>3

LEMMA SubSeqType ==
  ASSUME NEW S, NEW s \in Seq(S), NEW m \in 1 .. Len(s) + 1, NEW n \in 0 .. Len(s)
  PROVE  /\ SubSeq(s, m, n) \in Seq(S)
         /\ Len(SubSeq(s, m, n)) = IF m <= n THEN n - m + 1 ELSE 0
         /\ \A i \in 1 .. n - m + 1 : SubSeq(s, m, n)[i] = s[m + i - 1]
OBVIOUS

LEMMA PrefixProperties ==
  ASSUME NEW S, NEW s \in Seq(S), NEW n \in 0 .. Len(s)
  PROVE  /\ SubSeq(s, 1, n) \in Seq(S)
         /\ Len(SubSeq(s, 1, n)) = n
         /\ \A i \in 1 .. n : SubSeq(s, 1, n)[i] = s[i]
OBVIOUS

LEMMA FrontProperties ==
  ASSUME NEW S, NEW s \in Seq(S), s # << >>
  PROVE  /\ Front(s) \in Seq(S)
         /\ Len(Front(s)) = Len(s) - 1
         /\ \A i \in 1 .. Len(s) - 1 : Front(s)[i] = s[i]
         /\ Last(s) \in S
         /\ Last(s) = s[Len(s)]
<1>1. Len(s) \in Nat \ {0}
  OBVIOUS
<1>2. /\ SubSeq(s, 1, Len(s) - 1) \in Seq(S)
      /\ Len(SubSeq(s, 1, Len(s) - 1)) = Len(s) - 1
      /\ \A i \in 1 .. Len(s) - 1 : SubSeq(s, 1, Len(s) - 1)[i] = s[i]
  <2>1. Len(s) - 1 \in 0 .. Len(s)
    BY <1>1
  <2> QED
    BY <2>1, PrefixProperties
<1>3. s[Len(s)] \in S
  BY <1>1
<1> QED
  BY <1>2, <1>3 DEF Front, Last

LEMMA AppendEnds ==
  ASSUME NEW S, NEW s \in Seq(S), NEW e \in S
  PROVE  /\ Append(s, e) \in Seq(S) /\ Append(s, e) # << >>
         /\ Len(Append(s, e)) = Len(s) + 1
         /\ \A k \in DOMAIN Append(s, e) : \/ k \in DOMAIN s /\ Append(s, e)[k] = s[k]
                                           \/ k = Len(s) + 1 /\ Append(s, e)[k] = e
OBVIOUS

LEMMA TailShifts ==
  ASSUME NEW S, NEW s \in Seq(S), s # << >>
  PROVE  /\ Tail(s) \in Seq(S)
         /\ \A k \in DOMAIN Tail(s) : k + 1 \in DOMAIN s /\ Tail(s)[k] = s[k + 1]
         /\ 1 \in DOMAIN s /\ Head(s) = s[1] /\ Head(s) \in S
OBVIOUS

LEMMA FrontOfIncreasing ==
  ASSUME NEW b \in Seq(Nat), b # << >>, NEW m \in Nat,
         \A k \in DOMAIN b : b[k] \in 1 .. m,
         \A j, k \in DOMAIN b : j < k => b[j] < b[k]
  PROVE  /\ \A k \in DOMAIN Front(b) : Front(b)[k] \in 1 .. Last(b)
         /\ \A j, k \in DOMAIN Front(b) : j < k => Front(b)[j] < Front(b)[k]
<1> DEFINE n == Len(b)
<1>1. n \in Nat /\ n >= 1 /\ DOMAIN b = 1 .. n
  OBVIOUS
<1>2. /\ DOMAIN Front(b) = 1 .. n - 1 /\ Last(b) = b[n]
      /\ \A k \in 1 .. n - 1 : Front(b)[k] = b[k]
  <2>1. /\ Front(b) \in Seq(Nat) /\ Len(Front(b)) = n - 1 /\ Last(b) = b[n]
        /\ \A k \in 1 .. n - 1 : Front(b)[k] = b[k]
    BY FrontProperties
  <2> QED
    BY <2>1
<1> HIDE DEF n
<1>3. ASSUME NEW k \in 1 .. n - 1 PROVE b[k] \in 1 .. b[n]
  <2>1. k \in 1 .. n /\ n \in 1 .. n /\ k < n
    BY <1>1
  <2>2. b[k] \in 1 .. m /\ b[n] \in 1 .. m /\ b[k] < b[n]
    BY <1>1, <2>1
  <2> QED
    BY <2>2
<1>4. \A k \in 1 .. n - 1 : k \in DOMAIN b
  BY <1>1
<1> QED
  BY <1>2, <1>3, <1>4

LEMMA AppendIncreasing ==
  ASSUME NEW b \in Seq(Nat), NEW n \in Nat,
         \A k \in DOMAIN b : b[k] \in 1 .. n,
         \A j, k \in DOMAIN b : j < k => b[j] < b[k]
  PROVE  LET c == Append(b, n + 1)
         IN  /\ c \in Seq(Nat) /\ Len(c) = Len(b) + 1
             /\ \A k \in DOMAIN c : c[k] \in 1 .. n + 1
             /\ \A j, k \in DOMAIN c : j < k => c[j] < c[k]
<1> DEFINE m == Len(b)
           c == Append(b, n + 1)
<1>1. m \in Nat /\ DOMAIN b = 1 .. m
  OBVIOUS
<1>2. /\ c \in Seq(Nat) /\ Len(c) = m + 1 /\ DOMAIN c = 1 .. m + 1
      /\ \A k \in 1 .. m : c[k] = b[k]
      /\ c[m + 1] = n + 1
  OBVIOUS
<1> HIDE DEF m, c
<1>3. ASSUME NEW k \in 1 .. m + 1 PROVE c[k] \in 1 .. n + 1
  <2>1. CASE k \in 1 .. m
    <3>1. c[k] = b[k] /\ b[k] \in 1 .. n
      BY <1>1, <1>2, <2>1
    <3> QED
      BY <3>1
  <2>2. CASE k = m + 1
    BY <1>2, <2>2
  <2> QED
    BY <1>1, <2>1, <2>2
<1>4. ASSUME NEW j \in 1 .. m + 1, NEW k \in 1 .. m + 1, j < k PROVE c[j] < c[k]
  <2>1. j \in 1 .. m
    BY <1>1, <1>4
  <2>2. c[j] = b[j] /\ b[j] \in 1 .. n
    BY <1>1, <1>2, <2>1
  <2>3. CASE k \in 1 .. m
    BY <1>1, <1>2, <1>4, <2>1, <2>3
  <2>4. CASE k = m + 1
    BY <1>2, <2>2, <2>4
  <2> QED
    BY <1>1, <2>3, <2>4
<1> QED
  BY <1>2, <1>3, <1>4 DEF m, c

LEMMA ConcatEnds ==
  ASSUME NEW S, NEW s \in Seq(S), NEW t \in Seq(S)
  PROVE  s \o t \in Seq(S) /\ Len(s \o t) = Len(s) + Len(t)
OBVIOUS

-----------------------------------------------------------------------------
(* The candidate for the first conflict of a path is a master on the path. *)
LEMMA CandidateOnPath ==
  ASSUME NEW S, NEW path \in Seq(S), NEW states, Conflicts(path) # {}
  PROVE  \E i \in DOMAIN path : i \in Masters(path) /\ Candidate(path, states) = path[i]
<1> DEFINE i == Min(Conflicts(path))
           written == WritesBefore(path, i)
           used == SamePortBefore(path, i)
<1>1. DOMAIN path = 1 .. Len(path) /\ Len(path) \in Nat
  OBVIOUS
<1>2. Conflicts(path) \in SUBSET DOMAIN path /\ Conflicts(path) \subseteq Masters(path)
  BY DEF Conflicts, Masters
<1>3. i \in Conflicts(path)
  BY <1>1, <1>2, MinIn
<1>4. CASE ReadAfterWrite(path, i)
  <2>1. written \in SUBSET (0 .. Len(path)) /\ written # {}
    BY <1>1, <1>4 DEF ReadAfterWrite, WritesBefore, Masters
  <2>2. Max(written) \in written
    BY <1>1, <2>1, MaxIn
  <2>3. written \in SUBSET DOMAIN path /\ written \subseteq Masters(path)
    BY DEF WritesBefore, Masters
  <2> QED
    BY <1>4, <2>2, <2>3 DEF Candidate
<1>5. CASE ~ ReadAfterWrite(path, i)
  <2>1. used # {}
    BY <1>3, <1>5 DEF Conflicts
  <2>2. /\ used \in SUBSET DOMAIN path /\ used \in SUBSET Nat
        /\ used \subseteq Masters(path)
    BY <1>1 DEF SamePortBefore, Masters
  <2>3. Min(used) \in used
    BY <2>1, <2>2, MinIn
  <2> QED
    BY <1>2, <1>3, <1>5, <2>2, <2>3 DEF Candidate
<1> QED
  BY <1>4, <1>5

(* The invariant holds when the translation starts.                        *)
LEMMA InitIInv == Init => IInv
<1> SUFFICES ASSUME Init PROVE IInv
  OBVIOUS
<1> USE DEF Init, SearchInit
<1>1. /\ cfg \in Programs
      /\ 0 \in Node(cfg)
  BY ProgramsAssumption DEF ProgramsAreGraphs
<1>2. TypeOK
  <2>1. phase \in {"initial", "error"}
    BY Zenon
  <2>2. importantStates \in Seq(Node(cfg)) /\ importantStates # << >>
    BY <1>1
  <2> HIDE DEF Init
  <2>3. /\ stack = << >> /\ operationPath = << >> /\ stateOperations = << >>
        /\ operations = << >> /\ spuriousPath = << >> /\ countWhile = 0
        /\ whileIndex = << >> /\ branchingNodesIndex = << >> /\ search = "idle"
        /\ index = 0
    BY DEF Init
  <2>4. new_important_state \in BOOLEAN
    BY Zenon DEF Init
  <2> QED
    BY <2>1, <2>2, <2>3, <2>4 DEF TypeOK
<1>3. SearchInv /\ FoundInv /\ KeptInv
  BY DEF SearchInv, FoundInv, KeptInv
<1>4. PhaseInv
  <2>1. phase \in {"initial", "error"} /\ search = "idle" /\ index \in Node(cfg)
    BY <1>1
  <2>2. \A i \in DOMAIN importantStates : importantStates[i] = 0
    OBVIOUS
  <2> QED
    BY <2>1, <2>2 DEF PhaseInv
<1>5. ColoredOnce
  BY DEF ColoredOnce
<1> QED
  BY <1>1, <1>2, <1>3, <1>4, <1>5 DEF IInv

-----------------------------------------------------------------------------
(* The actions that leave the search alone                                 *)

LEMMA ColorInitialStep == IInv /\ ColorInitial => IInv'
<1> SUFFICES ASSUME IInv, ColorInitial PROVE IInv'
  OBVIOUS
<1> DEFINE initial == IsBlocking(cfg, index) \/ Op(cfg, index) = "wait"
           n == Len(importantStates)
<1>1. /\ cfg \in Programs /\ cfg' = cfg /\ TypeOK
      /\ phase = "initial" /\ search = "idle"
      /\ index \in Node(cfg) /\ index \in Nat /\ index' = index + 1
      /\ UNCHANGED << searchVars, operations >>
      /\ phase' = IF index' \in Node(cfg) THEN "initial" ELSE "round"
      /\ importantStates' = IF initial THEN Append(importantStates, index)
                                       ELSE importantStates
      /\ new_important_state' = (new_important_state \/ initial)
  BY DEF ColorInitial, IInv, PhaseInv, TypeOK
<1>2. initial => index # 0
  BY <1>1, ProgramsAssumption DEF ProgramsAreGraphs, IsBlocking, IsComm, IsRead, IsWrite, Op
<1>3. \A i \in DOMAIN importantStates : importantStates[i] = 0 \/ importantStates[i] < index
  BY <1>1 DEF IInv, PhaseInv
<1> HIDE DEF initial
<1>4. importantStates \in Seq(Node(cfg)) /\ importantStates # << >>
  BY <1>1 DEF TypeOK
<1>5. /\ importantStates' \in Seq(Node(cfg)) /\ importantStates' # << >>
      /\ \A i \in DOMAIN importantStates' :
           IF i \in DOMAIN importantStates THEN importantStates'[i] = importantStates[i]
                                           ELSE i = n + 1 /\ initial /\ importantStates'[i] = index
  BY <1>1, <1>4
<1>6. TypeOK'
  BY <1>1, <1>5 DEF TypeOK, searchVars, indexes
<1>7. SearchInv' /\ FoundInv' /\ KeptInv'
  BY <1>1 DEF SearchInv, FoundInv, KeptInv, searchVars
<1>8. PhaseInv'
  <2>1. \A i \in DOMAIN importantStates : importantStates[i] \in Nat
    BY <1>1, <1>4, ProgramsAssumption DEF ProgramsAreGraphs
  <2>2. \A i \in DOMAIN importantStates' : importantStates'[i] = 0 \/ importantStates'[i] < index'
    BY <1>1, <1>3, <1>4, <1>5, <2>1
  <2> QED
    BY <1>1, <2>2 DEF PhaseInv, searchVars
<1>9. ColoredOnce'
  <2>1. \A i, j \in DOMAIN importantStates : importantStates[i] = importantStates[j] => i = j
    BY DEF IInv, ColoredOnce
  <2> QED
    BY <1>1, <1>2, <1>3, <1>4, <1>5, <2>1 DEF ColoredOnce
<1> QED
  BY <1>1, <1>6, <1>7, <1>8, <1>9 DEF IInv

(* A search that nothing disturbs stays as it is.                          *)
LEMMA SearchUntouched ==
  ASSUME IInv, UNCHANGED << cfg, importantStates, searchVars >>
  PROVE  SearchInv' /\ FoundInv'
BY DEF IInv, SearchInv, FoundInv, IsOperation, IsImportant, searchVars, indexes

LEMMA RoundStartStep == IInv /\ RoundStart => IInv'
<1> SUFFICES ASSUME IInv, RoundStart PROVE IInv'
  OBVIOUS
<1>1. SearchInv' /\ FoundInv'
  BY SearchUntouched DEF RoundStart
<1>2. /\ phase' = "states" /\ index' = 1 /\ ~ new_important_state' /\ operations' = << >>
      /\ UNCHANGED << cfg, importantStates, searchVars >>
  BY DEF RoundStart
<1>3. TypeOK'
  <2>1. new_important_state' \in BOOLEAN
    BY Zenon DEF RoundStart
  <2>2. operations' \in Seq(Seq(Node(cfg)))
    BY <1>2
  <2> QED
    BY <1>2, <2>1, <2>2 DEF IInv, TypeOK, searchVars, indexes
<1>4. KeptInv' /\ PhaseInv'
  BY <1>2 DEF KeptInv, PhaseInv
<1>5. ColoredOnce'
  BY <1>2 DEF IInv, ColoredOnce
<1> QED
  BY <1>1, <1>2, <1>3, <1>4, <1>5 DEF IInv

LEMMA SearchStateStep == IInv /\ SearchState => IInv'
<1> SUFFICES ASSUME IInv, SearchState PROVE IInv'
  OBVIOUS
<1>1. /\ phase = "states" /\ search' = "running"
      /\ index \in DOMAIN importantStates
      /\ stack' = << importantStates[index] >> /\ operationPath' = << >>
      /\ countWhile' = 0 /\ whileIndex' = << >> /\ branchingNodesIndex' = << >>
      /\ stateOperations' = << >> /\ spuriousPath' = << >>
      /\ UNCHANGED << cfg, importantStates, foundVars >>
  BY DEF SearchState, Find, IInv, PhaseInv, TypeOK
<1>2. TypeOK'
  <2>1. importantStates[index] \in Node(cfg)
    BY <1>1 DEF IInv, TypeOK
  <2> QED
    BY <1>1, <2>1 DEF IInv, TypeOK, foundVars
<1>3. SearchInv' /\ FoundInv'
  BY <1>1 DEF SearchInv, FoundInv
<1>4. KeptInv'
  BY <1>1 DEF IInv, KeptInv, foundVars, IsOperation, IsImportant
<1>5. PhaseInv'
  BY <1>1 DEF IInv, PhaseInv, foundVars
<1>6. ColoredOnce'
  BY <1>1 DEF IInv, ColoredOnce
<1> QED
  BY <1>1, <1>2, <1>3, <1>4, <1>5, <1>6 DEF IInv

LEMMA KeepOperationStep == IInv /\ KeepOperation => IInv'
<1> SUFFICES ASSUME IInv, KeepOperation PROVE IInv'
  OBVIOUS
<1> DEFINE p == Head(stateOperations)
<1>1. /\ phase = "states" /\ search = "finished" /\ stateOperations # << >>
      /\ operations' = operations \/ operations' = Append(operations, p)
      /\ stateOperations' = Tail(stateOperations)
      /\ UNCHANGED << cfg, importantStates, stack, operationPath, indexes,
                      branchingNodesIndex, spuriousPath, search, index,
                      new_important_state, phase >>
  BY DEF KeepOperation
<1>2. stateOperations \in Seq(Seq(Node(cfg))) /\ operations \in Seq(Seq(Node(cfg)))
  BY DEF IInv, TypeOK
<1>3. \A k \in DOMAIN stateOperations : IsOperation(stateOperations[k])
  BY <1>1 DEF IInv, FoundInv
<1>4. \A k \in DOMAIN stateOperations' : /\ k + 1 \in DOMAIN stateOperations
                                         /\ stateOperations'[k] = stateOperations[k + 1]
  BY <1>1, <1>2, TailShifts
<1>5. p \in Seq(Node(cfg)) /\ IsOperation(p)
  BY <1>1, <1>2, <1>3, TailShifts
<1> HIDE DEF p
<1>6. TypeOK'
  <2>1. stateOperations' \in Seq(Seq(Node(cfg)))
    BY <1>1, <1>2, TailShifts
  <2>2. operations' \in Seq(Seq(Node(cfg)))
    <3>1. Append(operations, p) \in Seq(Seq(Node(cfg)))
      BY <1>2, <1>5
    <3> QED
      BY <1>1, <1>2, <3>1
  <2> QED
    BY <1>1, <2>1, <2>2 DEF IInv, TypeOK, indexes
<1>7. SearchInv'
  BY <1>1 DEF SearchInv
<1>8. FoundInv'
  BY <1>1, <1>3, <1>4 DEF FoundInv, IsOperation, IsImportant
<1>9. KeptInv'
  <2>1. \A k \in DOMAIN operations : IsOperation(operations[k])
    BY <1>1 DEF IInv, KeptInv, PhaseInv
  <2>2. \A k \in DOMAIN operations' : \/ k \in DOMAIN operations /\ operations'[k] = operations[k]
                                      \/ operations'[k] = p
    BY <1>1, <1>2, <1>5, AppendEnds
  <2> QED
    BY <1>1, <1>5, <2>1, <2>2 DEF KeptInv, IsOperation, IsImportant
<1>10. PhaseInv'
  BY <1>1 DEF IInv, PhaseInv
<1>11. ColoredOnce'
  BY <1>1 DEF IInv, ColoredOnce
<1> QED
  BY <1>1, <1>6, <1>7, <1>8, <1>9, <1>10, <1>11 DEF IInv

LEMMA StateSearchedStep == IInv /\ StateSearched => IInv'
<1> SUFFICES ASSUME IInv, StateSearched PROVE IInv'
  OBVIOUS
<1>1. /\ phase = "states" /\ index' = index + 1 /\ search' = "idle"
      /\ UNCHANGED << cfg, importantStates, stack, operationPath, indexes,
                      branchingNodesIndex, stateOperations, spuriousPath,
                      operations, new_important_state, phase >>
  BY DEF StateSearched
<1>2. TypeOK'
  BY <1>1 DEF IInv, TypeOK, indexes
<1>3. SearchInv' /\ FoundInv'
  BY <1>1 DEF SearchInv, FoundInv
<1>4. KeptInv'
  BY <1>1 DEF IInv, KeptInv, IsOperation, IsImportant
<1>5. PhaseInv'
  BY <1>1 DEF IInv, PhaseInv, TypeOK
<1>6. ColoredOnce'
  BY <1>1 DEF IInv, ColoredOnce
<1> QED
  BY <1>1, <1>2, <1>3, <1>4, <1>5, <1>6 DEF IInv

(* The phase changes, and nothing else does.                                *)
LEMMA PhaseStep ==
  IInv /\ (AllSearched \/ InvalidPath \/ CheckNothing \/ CheckSlaves) => IInv'
<1> SUFFICES ASSUME IInv, AllSearched \/ InvalidPath \/ CheckNothing \/ CheckSlaves
             PROVE IInv'
  OBVIOUS
<1>1. UNCHANGED << cfg, importantStates, searchVars, operations, index, new_important_state >>
  BY DEF AllSearched, InvalidPath, CheckNothing, CheckSlaves
<1>2. \/ phase = "states" /\ search = "idle" /\ phase' = "check"
      \/ phase' = "error"
      \/ phase = "check" /\ phase' = "round"
      \/ /\ phase = "check" /\ ~ new_important_state
         /\ phase' = "done" /\ InvalidOperations = {}
  BY DEF AllSearched, InvalidPath, CheckNothing, CheckSlaves
<1>3. TypeOK'
  BY <1>1, <1>2 DEF IInv, TypeOK, searchVars, indexes
<1>4. SearchInv' /\ FoundInv'
  BY <1>1, SearchUntouched
<1>5. KeptInv'
  BY <1>1, <1>2 DEF IInv, KeptInv, IsOperation, IsImportant
<1>6. PhaseInv'
  BY <1>1, <1>2, SMTT(30) DEF IInv, PhaseInv, InvalidOperations, Interior, Conflicts, Masters,
                    ReadAfterWrite, WritesBefore, SamePortBefore, searchVars
<1>7. ColoredOnce'
  BY <1>1 DEF IInv, ColoredOnce
<1> QED
  BY <1>1, <1>3, <1>4, <1>5, <1>6, <1>7 DEF IInv

(* A node that was no state before is colored: still no state twice.        *)
LEMMA ColoredOnceKept ==
  ASSUME ColoredOnce, importantStates \in Seq(Node(cfg)), NEW node \in Node(cfg),
         \/ UNCHANGED importantStates
         \/ ~ IsImportant(node) /\ importantStates' = Append(importantStates, node)
  PROVE  ColoredOnce'
<1>1. CASE UNCHANGED importantStates
  BY <1>1 DEF ColoredOnce
<1>2. CASE ~ IsImportant(node) /\ importantStates' = Append(importantStates, node)
  <2>1. \A i \in DOMAIN importantStates : importantStates[i] # node
    BY <1>2 DEF IsImportant, Range
  <2>2. \A i \in DOMAIN importantStates' :
          \/ i \in DOMAIN importantStates /\ importantStates'[i] = importantStates[i]
          \/ i = Len(importantStates) + 1 /\ importantStates'[i] = node
    BY <1>2, AppendEnds
  <2> QED
    BY <2>1, <2>2 DEF ColoredOnce
<1> QED
  BY <1>1, <1>2

LEMMA ProcessSpuriousStep == IInv /\ ProcessSpurious => IInv'
<1> SUFFICES ASSUME IInv, ProcessSpurious PROVE IInv'
  OBVIOUS
<1> DEFINE node == IF Conflicts(spuriousPath) # {}
                   THEN Candidate(spuriousPath, {spuriousPath[1]})
                   ELSE spuriousPath[Max(Masters(spuriousPath))]
<1>1. /\ phase = "states" /\ phase' = "check" /\ search' = "idle"
      /\ Masters(spuriousPath) # {}
      /\ Color(node)
      /\ UNCHANGED << cfg, stack, operationPath, indexes, branchingNodesIndex,
                      stateOperations, spuriousPath, operations, index >>
  BY DEF ProcessSpurious
<1>2. node \in Node(cfg)
  <2>1. spuriousPath \in Seq(Node(cfg))
    BY DEF IInv, TypeOK
  <2>2. CASE Conflicts(spuriousPath) # {}
    <3>1. \E i \in DOMAIN spuriousPath :
            Candidate(spuriousPath, {spuriousPath[1]}) = spuriousPath[i]
      BY <2>1, <2>2, CandidateOnPath
    <3> QED
      BY <2>1, <2>2, <3>1
  <2>3. CASE Conflicts(spuriousPath) = {}
    <3>1. Masters(spuriousPath) \in SUBSET (0 .. Len(spuriousPath)) /\ Len(spuriousPath) \in Nat
      BY <2>1 DEF Masters
    <3>2. Max(Masters(spuriousPath)) \in Masters(spuriousPath)
      BY <1>1, <3>1, MaxIn
    <3>3. Max(Masters(spuriousPath)) \in DOMAIN spuriousPath
      BY <3>2 DEF Masters
    <3> QED
      BY <2>1, <2>3, <3>3
  <2> QED
    BY <2>2, <2>3
<1> HIDE DEF node
<1>3. \/ UNCHANGED << importantStates, new_important_state >>
      \/ /\ ~ IsImportant(node)
         /\ importantStates' = Append(importantStates, node)
         /\ new_important_state' = TRUE
  BY <1>1 DEF Color
<1>4. TypeOK'
  <2>1. importantStates' \in Seq(Node(cfg)) /\ importantStates' # << >>
    <3>1. importantStates \in Seq(Node(cfg)) /\ importantStates # << >>
      BY DEF IInv, TypeOK
    <3> QED
      BY <1>2, <1>3, <3>1, AppendEnds
  <2>2. new_important_state' \in BOOLEAN
    BY <1>3, Zenon DEF IInv, TypeOK
  <2> QED
    BY <1>1, <2>1, <2>2 DEF IInv, TypeOK, indexes
<1>5. SearchInv' /\ FoundInv'
  BY <1>1 DEF SearchInv, FoundInv
<1>6. KeptInv'
  BY <1>1, <1>3 DEF IInv, KeptInv, IsOperation, IsImportant
<1>7. PhaseInv'
  BY <1>1 DEF PhaseInv
<1>8. ColoredOnce'
  BY <1>2, <1>3, ColoredOnceKept DEF IInv, TypeOK
<1> QED
  BY <1>1, <1>4, <1>5, <1>6, <1>7, <1>8 DEF IInv

(* What checkForMasters colors lies inside an operation, so it is no state. *)
LEMMA CheckMastersStep == IInv /\ CheckMasters => IInv'
<1> SUFFICES ASSUME IInv, CheckMasters PROVE IInv'
  OBVIOUS
<1> DEFINE k == Min(InvalidOperations)
           path == Interior(operations[k])
           node == Candidate(path, {})
<1>1. /\ phase = "check" /\ ~ new_important_state
      /\ UNCHANGED << cfg, searchVars, operations, index >>
      /\ phase' = IF new_important_state' THEN "round" ELSE "done"
  BY DEF CheckMasters, again
<1>2. \A j \in DOMAIN operations : /\ operations[j] \in Seq(Node(cfg))
                                  /\ IsOperation(operations[j])
  BY <1>1 DEF IInv, KeptInv, TypeOK
<1>3. CASE InvalidOperations = {}
  <2>1. UNCHANGED << importantStates, new_important_state >> /\ phase' = "done"
    BY <1>1, <1>3 DEF CheckMasters
  <2>2. TypeOK'
    BY <1>1, <2>1 DEF IInv, TypeOK, searchVars, indexes
  <2>3. SearchInv' /\ FoundInv'
    BY <1>1, <2>1, SearchUntouched
  <2>4. KeptInv'
    BY <1>1, <1>2, <2>1 DEF KeptInv, IsOperation, IsImportant
  <2>5. PhaseInv'
    BY <1>1, <1>3, <2>1 DEF PhaseInv, InvalidOperations, Interior, Conflicts, Masters,
                            ReadAfterWrite, WritesBefore, SamePortBefore
  <2>6. ColoredOnce'
    BY <2>1 DEF IInv, ColoredOnce
  <2> QED
    BY <1>1, <2>2, <2>3, <2>4, <2>5, <2>6 DEF IInv
<1>4. CASE InvalidOperations # {}
  <2>1. /\ importantStates' = Append(importantStates, node)
        /\ new_important_state' = TRUE /\ phase' = "round"
    BY <1>1, <1>4 DEF CheckMasters
  <2>2. k \in DOMAIN operations /\ Conflicts(path) # {}
    <3>1. InvalidOperations \in SUBSET Nat
      BY DEF InvalidOperations, IInv, TypeOK
    <3>2. k \in InvalidOperations
      BY <1>4, <3>1, MinIn
    <3> QED
      BY <3>2 DEF InvalidOperations
  <2>3. /\ path \in Seq(Node(cfg))
        /\ \A i \in DOMAIN path : path[i] \in Node(cfg) /\ ~ IsImportant(path[i])
    <3> DEFINE p == operations[k]
    <3>1. p \in Seq(Node(cfg)) /\ Len(p) \in Nat /\ Len(p) > 1
          /\ \A i \in 2 .. Len(p) - 1 : ~ IsImportant(p[i])
      BY <1>2, <2>2 DEF IsOperation
    <3> HIDE DEF p
    <3>2. /\ path \in Seq(Node(cfg)) /\ Len(path) = Len(p) - 2
          /\ \A i \in 1 .. Len(p) - 2 : path[i] = p[i + 1]
      BY <3>1 DEF Interior, p
    <3>3. \A i \in DOMAIN path : ~ IsImportant(path[i])
      <4>1. SUFFICES ASSUME NEW i \in 1 .. Len(p) - 2 PROVE ~ IsImportant(path[i])
        BY <3>2
      <4>2. i + 1 \in 2 .. Len(p) - 1 /\ path[i] = p[i + 1]
        BY <3>1, <3>2
      <4> QED
        BY <3>1, <4>2
    <3> QED
      BY <3>2, <3>3
  <2> HIDE DEF path
  <2>4. node \in Node(cfg) /\ ~ IsImportant(node)
    BY <2>2, <2>3, CandidateOnPath
  <2> HIDE DEF node
  <2>5. importantStates \in Seq(Node(cfg))
    BY DEF IInv, TypeOK
  <2>6. TypeOK'
    <3>1. importantStates' \in Seq(Node(cfg)) /\ importantStates' # << >>
      BY <2>1, <2>4, <2>5, AppendEnds
    <3>2. new_important_state' \in BOOLEAN
      BY <2>1, Zenon
    <3> QED
      BY <1>1, <2>1, <3>1, <3>2 DEF IInv, TypeOK, searchVars, indexes
  <2>7. search' = "idle"
    BY <1>1 DEF IInv, PhaseInv, searchVars
  <2>8. SearchInv' /\ FoundInv' /\ KeptInv' /\ PhaseInv'
    BY <2>1, <2>7 DEF SearchInv, FoundInv, KeptInv, PhaseInv
  <2>9. ColoredOnce'
    BY <2>1, <2>4, <2>5, ColoredOnceKept DEF IInv
  <2> QED
    BY <1>1, <2>6, <2>8, <2>9 DEF IInv
<1> QED
  BY <1>3, <1>4

LEMMA Stutter == IInv /\ UNCHANGED vars => IInv'
<1> SUFFICES ASSUME IInv, UNCHANGED vars PROVE IInv'
  OBVIOUS
<1>1. UNCHANGED << cfg, importantStates, searchVars, operations, index,
                   new_important_state, phase >>
  BY DEF vars, foundVars
<1>2. TypeOK'
  BY <1>1 DEF IInv, TypeOK, searchVars, indexes
<1>3. SearchInv' /\ FoundInv'
  BY <1>1, SearchUntouched
<1>4. KeptInv'
  BY <1>1 DEF IInv, KeptInv, IsOperation, IsImportant
<1>5. PhaseInv'
  BY <1>1 DEF IInv, PhaseInv, Conflicts, Masters, ReadAfterWrite, WritesBefore,
              SamePortBefore, searchVars
<1>6. ColoredOnce'
  BY <1>1 DEF IInv, ColoredOnce
<1> QED
  BY <1>1, <1>2, <1>3, <1>4, <1>5, <1>6 DEF IInv

-----------------------------------------------------------------------------
(* The turns of the search                                                 *)

LEMMA BesideSearch ==
  ASSUME IInv, phase = "states", UNCHANGED << cfg, importantStates, foundVars >>
  PROVE  KeptInv' /\ PhaseInv' /\ ColoredOnce'
<1>1. KeptInv'
  BY DEF IInv, KeptInv, IsOperation, IsImportant, foundVars
<1>2. PhaseInv'
  BY DEF IInv, PhaseInv, foundVars
<1>3. ColoredOnce'
  BY DEF IInv, ColoredOnce
<1> QED
  BY <1>1, <1>2, <1>3

(* What a turn starts with.                                                *)
LEMMA TurnStarts ==
  ASSUME IInv, search = "running"
  PROVE  /\ traverseNode \in Node(cfg)
         /\ Front(stack) \in Seq(Node(cfg)) /\ Len(Front(stack)) = Len(stack) - 1
         /\ PathSoFar \in Seq(Node(cfg))
         /\ Len(PathSoFar) = Len(operationPath) + 1
         /\ \A i \in 1 .. Len(operationPath) : PathSoFar[i] = operationPath[i]
         /\ PathSoFar[Len(operationPath) + 1] = traverseNode
         /\ WhileIndex \in Seq(Nat) /\ Count = Len(WhileIndex)
<1>1. /\ stack \in Seq(Node(cfg)) /\ stack # << >>
      /\ operationPath \in Seq(Node(cfg)) /\ Len(operationPath) \in Nat
      /\ whileIndex \in Seq(Nat) /\ countWhile = Len(whileIndex)
  BY DEF IInv, TypeOK, SearchInv
<1>2. /\ traverseNode \in Node(cfg)
      /\ Front(stack) \in Seq(Node(cfg)) /\ Len(Front(stack)) = Len(stack) - 1
  BY <1>1, FrontProperties DEF traverseNode
<1>3. WhileIndex \in Seq(Nat) /\ Count = Len(WhileIndex)
  BY <1>1 DEF WhileIndex, Count
<1> HIDE DEF traverseNode
<1> QED
  BY <1>1, <1>2, <1>3 DEF PathSoFar

LEMMA SpuriousStep ==
  ASSUME IInv, Spurious, phase = "states", UNCHANGED << cfg, importantStates, foundVars >>
  PROVE  IInv'
<1>1. TypeOK'
  BY DEF Spurious, IInv, TypeOK, indexes, foundVars
<1>2. SearchInv'
  BY DEF Spurious, SearchInv
<1>3. FoundInv'
  BY DEF Spurious, IInv, FoundInv, IsOperation, IsImportant
<1> QED
  BY <1>1, <1>2, <1>3, BesideSearch DEF IInv

(* After going back to the last branching the indexes lie on the path.     *)
LEMMA RetraceLeaves ==
  ASSUME IInv, search = "running", branchingNodesIndex # << >>, Retrace(PathSoFar)
  PROVE  /\ Last(branchingNodesIndex) \in 1 .. Len(operationPath)
         /\ operationPath' = SubSeq(PathSoFar, 1, Last(branchingNodesIndex))
         /\ branchingNodesIndex' = Front(branchingNodesIndex)
         /\ whileIndex' \in Seq(Nat) /\ countWhile' = Len(whileIndex')
<1> DEFINE cut == Last(branchingNodesIndex)
           n == Len(WhileIndex)
           Keep(k) == /\ k = 0 \/ WhileIndex[k] <= cut
                      /\ \A j \in k + 1 .. n : WhileIndex[j] > cut
           keep == CHOOSE k \in 0 .. n : Keep(k)
<1>1. branchingNodesIndex \in Seq(Nat) /\ Len(branchingNodesIndex) \in DOMAIN branchingNodesIndex
  BY DEF IInv, TypeOK
<1>2. cut \in 1 .. Len(operationPath) /\ cut \in Nat
  BY <1>1, FrontProperties DEF IInv, SearchInv, TypeOK
<1>3. WhileIndex \in Seq(Nat) /\ Count = n /\ n \in Nat
  BY TurnStarts
<1>4. keep \in 0 .. n
  <2>1. \E k \in 0 .. n : Keep(k)
    BY <1>2, <1>3, KeepExists
  <2> QED
    BY <2>1, Zenon
<1>5. /\ operationPath' = SubSeq(PathSoFar, 1, cut)
      /\ branchingNodesIndex' = Front(branchingNodesIndex)
      /\ whileIndex' = SubSeq(WhileIndex, 1, keep)
      /\ countWhile' = Count - (n - keep)
  BY Zenon DEF Retrace
<1> HIDE DEF keep
<1>6. whileIndex' \in Seq(Nat) /\ Len(whileIndex') = keep
  BY <1>3, <1>4, <1>5, PrefixProperties
<1> QED
  BY <1>2, <1>3, <1>4, <1>5, <1>6

(* The path that is finished is an operation.                              *)
LEMMA FinishFinds ==
  ASSUME IInv, Finish
  PROVE  /\ stateOperations' \in Seq(Seq(Node(cfg)))
         /\ \A k \in DOMAIN stateOperations' : IsOperation(stateOperations'[k])
<1>1. /\ search = "running" /\ IsImportant(traverseNode) /\ operationPath # << >>
      /\ stateOperations' = Append(stateOperations, PathSoFar)
  BY DEF Finish
<1>2. operationPath \in Seq(Node(cfg)) /\ Len(operationPath) \in Nat
      /\ \A i \in 2 .. Len(operationPath) : ~ IsImportant(operationPath[i])
  BY <1>1 DEF IInv, SearchInv, TypeOK
<1>3. IsOperation(PathSoFar)
  <2>1. Len(PathSoFar) > 1 /\ Last(PathSoFar) = traverseNode
    BY <1>1, <1>2, TurnStarts DEF Last
  <2>2. ASSUME NEW i \in 2 .. Len(PathSoFar) - 1 PROVE ~ IsImportant(PathSoFar[i])
    <3>1. /\ Len(PathSoFar) = Len(operationPath) + 1
          /\ \A j \in 1 .. Len(operationPath) : PathSoFar[j] = operationPath[j]
      BY <1>1, TurnStarts
    <3>2. i \in 1 .. Len(operationPath) /\ i \in 2 .. Len(operationPath)
      BY <1>2, <2>2, <3>1
    <3> QED
      BY <1>2, <3>1, <3>2
  <2> QED
    BY <1>1, <2>1, <2>2 DEF IsOperation
<1>4. /\ stateOperations \in Seq(Seq(Node(cfg)))
      /\ \A k \in DOMAIN stateOperations : IsOperation(stateOperations[k])
  BY <1>1 DEF IInv, FoundInv, TypeOK
<1> DEFINE Paths == Seq(Node(cfg))
<1>5. PathSoFar \in Paths /\ stateOperations \in Seq(Paths)
  BY <1>1, <1>4, TurnStarts
<1> HIDE DEF Paths
<1>6. stateOperations' \in Seq(Paths)
  BY <1>1, <1>5, AppendEnds
<1>7. \A k \in DOMAIN stateOperations' :
        \/ k \in DOMAIN stateOperations /\ stateOperations'[k] = stateOperations[k]
        \/ stateOperations'[k] = PathSoFar
  BY <1>1, <1>5, AppendEnds
<1> QED
  BY <1>3, <1>4, <1>6, <1>7 DEF Paths

LEMMA FinishStep ==
  ASSUME IInv, Finish, phase = "states", UNCHANGED << cfg, importantStates, foundVars >>
  PROVE  IInv'
<1> DEFINE cut == Last(branchingNodesIndex)
<1>1. /\ search = "running" /\ stack' = Front(stack)
      /\ search' = IF stack' = << >> THEN "finished" ELSE "running"
      /\ UNCHANGED spuriousPath
  BY DEF Finish, Turn
<1>2. /\ operationPath \in Seq(Node(cfg)) /\ Len(operationPath) \in Nat
      /\ branchingNodesIndex \in Seq(Nat)
      /\ stack \in Seq(Node(cfg)) /\ stack # << >>
      /\ Len(stack) <= Len(branchingNodesIndex) + 1
  BY <1>1 DEF IInv, SearchInv, TypeOK
<1>3. FoundInv'
  BY FinishFinds DEF FoundInv, IsOperation, IsImportant
<1>4. CASE branchingNodesIndex # << >>
  <2>1. Retrace(PathSoFar)
    BY <1>4 DEF Finish
  <2>2. /\ cut \in 1 .. Len(operationPath)
        /\ operationPath' = SubSeq(PathSoFar, 1, cut)
        /\ branchingNodesIndex' = Front(branchingNodesIndex)
        /\ whileIndex' \in Seq(Nat) /\ countWhile' = Len(whileIndex')
    BY <1>1, <1>4, <2>1, RetraceLeaves
  <2>3. /\ branchingNodesIndex' \in Seq(Nat)
        /\ Len(branchingNodesIndex') = Len(branchingNodesIndex) - 1
        /\ \A k \in 1 .. Len(branchingNodesIndex) - 1 :
             branchingNodesIndex'[k] = branchingNodesIndex[k]
        /\ cut = branchingNodesIndex[Len(branchingNodesIndex)]
    BY <1>2, <1>4, <2>2, FrontProperties
  <2>4. /\ operationPath' \in Seq(Node(cfg)) /\ Len(operationPath') = cut
        /\ \A i \in 1 .. cut : operationPath'[i] = operationPath[i]
    <3>1. cut \in 0 .. Len(PathSoFar)
      BY <1>1, <1>2, <2>2, TurnStarts
    <3>2. /\ PathSoFar \in Seq(Node(cfg))
          /\ \A i \in 1 .. cut : PathSoFar[i] = operationPath[i]
      <4>1. /\ PathSoFar \in Seq(Node(cfg))
            /\ \A i \in 1 .. Len(operationPath) : PathSoFar[i] = operationPath[i]
        BY <1>1, TurnStarts
      <4>2. 1 .. cut \subseteq 1 .. Len(operationPath)
        BY <1>2, <2>2
      <4> QED
        BY <4>1, <4>2
    <3> HIDE DEF cut
    <3> QED
      BY <2>2, <3>1, <3>2, PrefixProperties DEF cut
  <2>5. stack' \in Seq(Node(cfg)) /\ Len(stack') = Len(stack) - 1
    BY <1>1, TurnStarts
  <2>6. TypeOK'
    BY <1>1, <2>2, <2>3, <2>4, <2>5, FinishFinds DEF IInv, TypeOK, foundVars
  <2>7. SearchInv'
    <3>1. /\ \A k \in DOMAIN branchingNodesIndex :
               branchingNodesIndex[k] \in 1 .. Len(operationPath)
          /\ \A j, k \in DOMAIN branchingNodesIndex :
               j < k => branchingNodesIndex[j] < branchingNodesIndex[k]
          /\ \A i \in 2 .. Len(operationPath) : ~ IsImportant(operationPath[i])
      BY <1>1 DEF IInv, SearchInv
    <3>2. \A k \in DOMAIN branchingNodesIndex' :
            branchingNodesIndex'[k] \in 1 .. Len(operationPath')
      BY <1>2, <1>4, <2>2, <2>4, <3>1, FrontOfIncreasing
    <3>3. \A j, k \in DOMAIN branchingNodesIndex' :
            j < k => branchingNodesIndex'[j] < branchingNodesIndex'[k]
      BY <1>2, <1>4, <2>2, <3>1, FrontOfIncreasing
    <3>4. \A i \in 2 .. Len(operationPath') : ~ IsImportant(operationPath'[i])
      BY <1>2, <2>2, <2>4, <3>1
    <3>5. \A i \in 2 .. Len(operationPath') : ~ IsImportant(operationPath[i])'
      BY <3>4 DEF IsImportant
    <3>6. Len(stack') <= Len(branchingNodesIndex') + 1
      BY <1>2, <2>3, <2>5
    <3>7. search' = "running" => stack' # << >>
      BY <1>1
    <3> QED
      BY <2>2, <3>2, <3>3, <3>5, <3>6, <3>7 DEF SearchInv
  <2> QED
    BY <1>3, <2>6, <2>7, BesideSearch DEF IInv
<1>5. CASE branchingNodesIndex = << >>
  <2>1. /\ operationPath' = PathSoFar
        /\ countWhile' = Count /\ whileIndex' = WhileIndex
        /\ UNCHANGED branchingNodesIndex
    BY <1>5 DEF Finish
  <2>2. stack' \in Seq(Node(cfg)) /\ Len(stack') = 0
    BY <1>1, <1>2, <1>5, TurnStarts
  <2>3. search' = "finished"
    BY <1>1, <2>2
  <2>4. whileIndex' \in Seq(Nat) /\ countWhile' \in Nat /\ operationPath' \in Seq(Node(cfg))
    BY <1>1, <2>1, TurnStarts
  <2>5. TypeOK'
    BY <1>1, <2>1, <2>2, <2>3, <2>4, FinishFinds DEF IInv, TypeOK, foundVars
  <2>6. SearchInv'
    BY <2>3 DEF SearchInv
  <2> QED
    BY <1>3, <2>5, <2>6, BesideSearch DEF IInv
<1> QED
  BY <1>4, <1>5

LEMMA Successors ==
  ASSUME IInv, NEW n \in Node(cfg)
  PROVE  /\ Succ(cfg, n) \in Seq(Node(cfg)) /\ Len(Succ(cfg, n)) \in {1, 2}
         /\ Succ(cfg, n)[1] \in Node(cfg)
         /\ IsBranch(cfg, n) => Succ(cfg, n)[2] \in Node(cfg)
<1>1. /\ Succ(cfg, n) \in Seq(Node(cfg)) /\ Len(Succ(cfg, n)) \in {1, 2}
  BY ProgramsAssumption DEF ProgramsAreGraphs, IInv
<1> QED
  BY <1>1 DEF IsBranch

(* A node is passed: it is the first of the path, or no state.             *)
LEMMA VisitPasses ==
  ASSUME IInv, Visit, UNCHANGED importantStates
  PROVE  /\ operationPath' \in Seq(Node(cfg))
         /\ operationPath' = PathSoFar
         /\ Len(operationPath') = Len(operationPath) + 1 /\ Len(operationPath) \in Nat
         /\ whileIndex' \in Seq(Nat) /\ countWhile' = Len(whileIndex')
         /\ \A i \in 2 .. Len(operationPath') : ~ IsImportant(operationPath'[i])
<1> DEFINE n == Len(operationPath)
<1>1. /\ search = "running" /\ operationPath' = PathSoFar
      /\ whileIndex' = WhileIndex /\ countWhile' = Count
      /\ ~ IsImportant(traverseNode) \/ operationPath = << >>
  BY DEF Visit
<1>2. /\ operationPath \in Seq(Node(cfg)) /\ n \in Nat
      /\ \A i \in 2 .. n : ~ IsImportant(operationPath[i])
  BY <1>1 DEF IInv, TypeOK, SearchInv
<1>3. /\ PathSoFar \in Seq(Node(cfg)) /\ Len(PathSoFar) = n + 1
      /\ \A i \in 1 .. n : PathSoFar[i] = operationPath[i]
      /\ PathSoFar[n + 1] = traverseNode
      /\ WhileIndex \in Seq(Nat) /\ Count = Len(WhileIndex)
  BY <1>1, TurnStarts
<1>4. ASSUME NEW i \in 2 .. n + 1 PROVE ~ IsImportant(PathSoFar[i])
  <2>1. CASE i = n + 1
    <3>1. operationPath # << >>
      BY <1>2, <2>1
    <3> QED
      BY <1>1, <1>3, <2>1, <3>1
  <2>2. CASE i # n + 1
    <3>1. i \in 2 .. n /\ i \in 1 .. n
      BY <1>2, <2>2
    <3> QED
      BY <1>2, <1>3, <3>1
  <2> QED
    BY <2>1, <2>2
<1> QED
  BY <1>1, <1>2, <1>3, <1>4

(* The invariant after a node is passed, if what is pushed keeps pace with  *)
(* the branchings.                                                         *)
LEMMA VisitKeeps ==
  ASSUME IInv, Visit, Turn,
         phase = "states", UNCHANGED << cfg, importantStates, foundVars >>,
         stack' \in Seq(Node(cfg)), branchingNodesIndex' \in Seq(Nat),
         Len(stack') <= Len(branchingNodesIndex') + 1,
         \A k \in DOMAIN branchingNodesIndex' :
           branchingNodesIndex'[k] \in 1 .. Len(operationPath) + 1,
         \A j, k \in DOMAIN branchingNodesIndex' :
           j < k => branchingNodesIndex'[j] < branchingNodesIndex'[k]
  PROVE  IInv'
<1>1. search = "running" /\ UNCHANGED << stateOperations, spuriousPath, importantStates >>
  BY DEF Visit
<1>2. /\ operationPath' \in Seq(Node(cfg))
      /\ Len(operationPath') = Len(operationPath) + 1
      /\ whileIndex' \in Seq(Nat) /\ countWhile' = Len(whileIndex')
      /\ \A i \in 2 .. Len(operationPath') : ~ IsImportant(operationPath'[i])
  BY <1>1, VisitPasses
<1>3. SearchInv'
  <2>1. \A i \in 2 .. Len(operationPath') : ~ IsImportant(operationPath[i])'
    BY <1>1, <1>2 DEF IsImportant
  <2>2. search' = "running" => stack' # << >>
    BY DEF Turn
  <2> QED
    BY <1>2, <2>1, <2>2 DEF SearchInv
<1>4. TypeOK'
  <2>1. search' \in {"running", "finished"} /\ countWhile' \in Nat
    BY <1>2 DEF Turn
  <2> QED
    BY <1>1, <1>2, <2>1 DEF IInv, TypeOK, foundVars
<1>5. FoundInv'
  BY <1>1 DEF IInv, FoundInv, IsOperation, IsImportant
<1> QED
  BY <1>3, <1>4, <1>5, BesideSearch DEF IInv

(* What holds of the stack and the branchings before the node is passed.   *)
LEMMA StackBefore ==
  ASSUME IInv, search = "running"
  PROVE  /\ Front(stack) \in Seq(Node(cfg))
         /\ Len(Front(stack)) \in Nat /\ Len(Front(stack)) <= Len(branchingNodesIndex)
         /\ branchingNodesIndex \in Seq(Nat) /\ Len(branchingNodesIndex) \in Nat
         /\ Len(operationPath) \in Nat
         /\ \A k \in DOMAIN branchingNodesIndex :
              branchingNodesIndex[k] \in 1 .. Len(operationPath)
         /\ \A j, k \in DOMAIN branchingNodesIndex :
              j < k => branchingNodesIndex[j] < branchingNodesIndex[k]
<1>1. /\ branchingNodesIndex \in Seq(Nat) /\ operationPath \in Seq(Node(cfg))
      /\ stack \in Seq(Node(cfg)) /\ stack # << >>
      /\ Len(stack) <= Len(branchingNodesIndex) + 1
      /\ \A k \in DOMAIN branchingNodesIndex :
           branchingNodesIndex[k] \in 1 .. Len(operationPath)
      /\ \A j, k \in DOMAIN branchingNodesIndex :
           j < k => branchingNodesIndex[j] < branchingNodesIndex[k]
  BY DEF IInv, TypeOK, SearchInv
<1>2. Front(stack) \in Seq(Node(cfg)) /\ Len(Front(stack)) = Len(stack) - 1
  BY TurnStarts
<1> QED
  BY <1>1, <1>2

LEMMA BranchStep ==
  ASSUME IInv, Branch, phase = "states", UNCHANGED << cfg, importantStates, foundVars >>
  PROVE  IInv'
<1> DEFINE next == Pushed(2) \o Pushed(1)
           n == Len(operationPath)
           b == branchingNodesIndex
<1>1. /\ Visit /\ search = "running" /\ Turn /\ IsBranch(cfg, traverseNode)
      /\ stack' = Front(stack) \o next
      /\ b' = IF Len(next) > 1 THEN Append(b, Len(PathSoFar)) ELSE b
  BY DEF Branch, Visit
<1>2. next \in Seq(Node(cfg)) /\ Len(next) \in 0 .. 2
  <2>1. /\ Succ(cfg, traverseNode)[1] \in Node(cfg)
        /\ Succ(cfg, traverseNode)[2] \in Node(cfg)
    BY <1>1, TurnStarts, Successors
  <2>2. /\ Pushed(1) \in Seq(Node(cfg)) /\ Len(Pushed(1)) \in 0 .. 1
        /\ Pushed(2) \in Seq(Node(cfg)) /\ Len(Pushed(2)) \in 0 .. 1
    BY <2>1 DEF Pushed
  <2>3. next \in Seq(Node(cfg)) /\ Len(next) = Len(Pushed(2)) + Len(Pushed(1))
    BY <2>2, ConcatEnds
  <2>4. \A x, y \in 0 .. 1 : x + y \in 0 .. 2
    OBVIOUS
  <2> QED
    BY <2>2, <2>3, <2>4, Zenon
<1> HIDE DEF next
<1>3. /\ Front(stack) \in Seq(Node(cfg))
      /\ Len(Front(stack)) \in Nat /\ Len(Front(stack)) <= Len(b)
      /\ b \in Seq(Nat) /\ Len(b) \in Nat /\ n \in Nat
      /\ \A k \in DOMAIN b : b[k] \in 1 .. n
      /\ \A j, k \in DOMAIN b : j < k => b[j] < b[k]
  BY <1>1, StackBefore
<1>4. /\ stack' \in Seq(Node(cfg)) /\ Len(stack') = Len(Front(stack)) + Len(next)
  BY <1>1, <1>2, <1>3, ConcatEnds
<1>5. CASE Len(next) = 2
  <2>1. b' = Append(b, n + 1)
    BY <1>1, <1>5, TurnStarts
  <2>2. /\ b' \in Seq(Nat) /\ Len(b') = Len(b) + 1
        /\ \A k \in DOMAIN b' : b'[k] \in 1 .. n + 1
        /\ \A j, k \in DOMAIN b' : j < k => b'[j] < b'[k]
    BY <1>3, <2>1, AppendIncreasing
  <2>3. Len(stack') <= Len(b') + 1
    BY <1>3, <1>4, <1>5, <2>2
  <2> QED
    BY <1>1, <1>4, <2>2, <2>3, VisitKeeps
<1>6. CASE Len(next) \in 0 .. 1
  <2>1. b' = b /\ Len(b') = Len(b)
    BY <1>1, <1>6
  <2>2. \A k \in DOMAIN b' : b'[k] \in 1 .. n + 1
    BY <1>3, <2>1
  <2>3. Len(stack') <= Len(b') + 1
    <3>1. \A x, y \in Nat, z \in 0 .. 1 : x <= y => x + z <= y + 1
      OBVIOUS
    <3> QED
      BY <1>3, <1>4, <1>6, <2>1, <3>1, Zenon
  <2> QED
    BY <1>1, <1>3, <1>4, <2>1, <2>2, <2>3, VisitKeeps
<1> QED
  BY <1>2, <1>5, <1>6

LEMMA FollowStep ==
  ASSUME IInv, Follow, phase = "states", UNCHANGED << cfg, importantStates, foundVars >>
  PROVE  IInv'
<1> DEFINE n == Len(operationPath)
           b == branchingNodesIndex
           m == Succ(cfg, traverseNode)[1]
<1>1. /\ Visit /\ search = "running" /\ Turn /\ b' = b
      /\ stack' = Append(Front(stack), m)
  BY DEF Follow, Visit
<1>2. m \in Node(cfg)
  BY <1>1, TurnStarts, Successors
<1> HIDE DEF m
<1>3. /\ Front(stack) \in Seq(Node(cfg))
      /\ Len(Front(stack)) \in Nat /\ Len(Front(stack)) <= Len(b)
      /\ b \in Seq(Nat) /\ Len(b) \in Nat /\ n \in Nat
      /\ \A k \in DOMAIN b : b[k] \in 1 .. n
      /\ \A j, k \in DOMAIN b : j < k => b[j] < b[k]
  BY <1>1, StackBefore
<1>4. stack' \in Seq(Node(cfg)) /\ Len(stack') = Len(Front(stack)) + 1
  BY <1>1, <1>2, <1>3, AppendEnds
<1>5. \A k \in DOMAIN b' : b'[k] \in 1 .. n + 1
  BY <1>1, <1>3
<1>6. Len(stack') <= Len(b') + 1
  BY <1>1, <1>3, <1>4
<1> QED
  BY <1>1, <1>3, <1>4, <1>5, <1>6, VisitKeeps

LEMMA SearchStepStep == IInv /\ SearchStep => IInv'
<1> SUFFICES ASSUME IInv, SearchStep PROVE IInv'
  OBVIOUS
<1>1. /\ phase = "states" /\ UNCHANGED << cfg, importantStates, foundVars >>
      /\ Spurious \/ Finish \/ Branch \/ Follow
  BY DEF SearchStep, Iterate
<1> QED
  BY <1>1, SpuriousStep, FinishStep, BranchStep, FollowStep

-----------------------------------------------------------------------------
LEMMA NextIInv == IInv /\ [Next]_vars => IInv'
BY ColorInitialStep, RoundStartStep, SearchStateStep, SearchStepStep, KeepOperationStep,
   StateSearchedStep, PhaseStep, ProcessSpuriousStep, CheckMastersStep, Stutter
   DEF Next, Stopped

(* The inductive invariant.                                                *)
THEOREM Invariance == Spec => []IInv
BY InitIInv, NextIInv, PTL DEF Spec

(* The variables keep their types: in particular the search never takes a  *)
(* node from an empty stack, and never goes back further than its path.    *)
THEOREM TypeCorrect == Spec => []TypeOK
<1>1. IInv => TypeOK
  BY DEF IInv
<1> QED
  BY <1>1, Invariance, PTL

(* No node becomes a state twice, although checkForMasters does not look   *)
(* whether the node it colors is a state (FindOperations.cpp:361-401).     *)
THEOREM StatesDiffer == Spec => []ColoredOnce
<1>1. IInv => ColoredOnce
  BY DEF IInv
<1> QED
  BY <1>1, Invariance, PTL

(* When the translation succeeds, every operation goes from state to state *)
(* and over none, and no two master communications inside it conflict.     *)
THEOREM OperationsAreValid == Spec => []OperationsValid
<1>1. IInv => OperationsValid
  BY DEF IInv, KeptInv, PhaseInv, OperationsValid
<1> QED
  BY <1>1, Invariance, PTL

-----------------------------------------------------------------------------
(* The paths.  Whatever is on the stack continues the path where it was    *)
(* left, over branches that can be reached only.                           *)
PathsInv == StackFitsPath /\ OperationsAreFeasible

LEMMA BeginningsOfGrown ==
  ASSUME NEW S, NEW p \in Seq(S), NEW m \in S, NEW k \in 0 .. Len(p)
  PROVE  SubSeq(Append(p, m), 1, k) = SubSeq(p, 1, k)
OBVIOUS

LEMMA BeginningsOfBeginning ==
  ASSUME NEW S, NEW p \in Seq(S), NEW n \in 0 .. Len(p), NEW k \in 0 .. n
  PROVE  SubSeq(SubSeq(p, 1, n), 1, k) = SubSeq(p, 1, k)
OBVIOUS

LEMMA FollowsGrows ==
  ASSUME NEW p \in Seq(Node(cfg)), p # << >>, Follows(p),
         NEW m \in Node(cfg), m \in Range(Succ(cfg, Last(p))),
         IsBranch(cfg, Last(p)) => isPathReachable(cfg, << >>, Append(p, m))
  PROVE  Follows(Append(p, m))
<1> DEFINE n == Len(p)
           q == Append(p, m)
<1>1. /\ n \in Nat /\ n > 0 /\ Len(q) = n + 1 /\ q[n + 1] = m /\ Last(p) = p[n]
      /\ \A i \in 1 .. n : q[i] = p[i]
      /\ SubSeq(q, 1, n + 1) = q
  BY DEF Last
<1>2. \A k \in 0 .. n : SubSeq(q, 1, k) = SubSeq(p, 1, k)
  BY BeginningsOfGrown
<1>3. \A i \in 1 .. n - 1 : /\ p[i + 1] \in Range(Succ(cfg, p[i]))
                            /\ IsBranch(cfg, p[i]) => isPathReachable(cfg, << >>, SubSeq(p, 1, i + 1))
  BY DEF Follows
<1> HIDE DEF n, q
<1>4. ASSUME NEW i \in 1 .. n
      PROVE  /\ q[i + 1] \in Range(Succ(cfg, q[i]))
             /\ IsBranch(cfg, q[i]) => isPathReachable(cfg, << >>, SubSeq(q, 1, i + 1))
  <2>1. CASE i = n
    BY <1>1, <2>1 DEF q
  <2>2. CASE i \in 1 .. n - 1
    <3>1. i \in 1 .. n /\ i + 1 \in 1 .. n /\ i + 1 \in 0 .. n
      BY <1>1, <2>2
    <3>2. q[i] = p[i] /\ q[i + 1] = p[i + 1] /\ SubSeq(q, 1, i + 1) = SubSeq(p, 1, i + 1)
      BY <1>1, <1>2, <3>1
    <3> QED
      BY <1>3, <2>2, <3>2
  <2> QED
    BY <1>1, <2>1, <2>2
<1>5. Follows(q)
  <2>1. Len(q) - 1 = n
    BY <1>1
  <2> QED
    BY <1>4, <2>1, Zenon DEF Follows
<1> QED
  BY <1>5 DEF q

LEMMA OneNodeFollows ==
  ASSUME NEW p, Len(p) = 1
  PROVE  Follows(p)
BY DEF Follows

(* At the end of a path like that a branching node can be left.            *)
LEMMA OneWayOpen ==
  ASSUME IInv, NEW p \in Seq(Node(cfg)), p # << >>, Follows(p),
         IsBranch(cfg, Last(p))
  PROVE  \E i \in {1, 2} : isPathReachable(cfg, << >>, Append(p, Succ(cfg, Last(p))[i]))
<1>1. Last(p) \in Node(cfg)
  BY DEF Last
<1>2. BranchesDecide(cfg) /\ Values # {}
  BY BranchesAssumption DEF IInv
<1>3. Succ(cfg, Last(p))[1] \in Node(cfg) /\ Succ(cfg, Last(p))[2] \in Node(cfg)
  BY <1>1, Successors
<1>4. \A i \in 1 .. Len(p) - 1 :
        IsBranch(cfg, p[i]) => isPathReachable(cfg, << >>, SubSeq(p, 1, i + 1))
  BY DEF Follows
<1>5. Satisfiable(Conditions(cfg, p))
  BY <1>2, <1>4, BranchesReachable
<1> QED
  BY <1>1, <1>2, <1>3, <1>5, OneBranchReachable

LEMMA OpenIsBranchOpen ==
  ASSUME IInv, StackFitsPath
  PROVE  BranchOpen
<1> SUFFICES ASSUME search = "running", IsBranch(cfg, traverseNode)
             PROVE  \E m \in Range(Succ(cfg, traverseNode)) : reachable(m)
  BY DEF BranchOpen
<1>1. /\ PathSoFar \in Seq(Node(cfg)) /\ PathSoFar # << >> /\ Last(PathSoFar) = traverseNode
      /\ traverseNode \in Node(cfg)
  <2>1. Len(operationPath) \in Nat
    BY DEF IInv, TypeOK
  <2> QED
    BY <2>1, TurnStarts DEF Last
<1>2. Follows(PathSoFar)
  BY DEF StackFitsPath
<1>3. PICK i \in {1, 2} : reachable(Succ(cfg, traverseNode)[i])
  BY <1>1, <1>2, OneWayOpen DEF reachable
<1>4. Succ(cfg, traverseNode)[i] \in Range(Succ(cfg, traverseNode))
  <2>1. Succ(cfg, traverseNode) \in Seq(Node(cfg)) /\ Len(Succ(cfg, traverseNode)) = 2
    BY <1>1, Successors DEF IsBranch
  <2>2. i \in DOMAIN Succ(cfg, traverseNode)
    BY <2>1
  <2> QED
    BY <2>2, Zenon DEF Range
<1> QED
  BY <1>3, <1>4

(* The stack, the path and the branchings, as StackFitsPath says.          *)
Fits(s, p, b) ==
  /\ Len(s) = Len(b) + 1
  /\ Follows(Append(p, Last(s)))
  /\ \A k \in DOMAIN b : Follows(Append(SubSeq(p, 1, b[k]), s[k]))

(* Branchings on the path, from the first to the last.                     *)
LiesOn(b, p) == /\ \A k \in DOMAIN b : b[k] \in 1 .. Len(p)
                /\ \A j, k \in DOMAIN b : j < k => b[j] < b[k]

LEMMA FitsNow ==
  ASSUME IInv, StackFitsPath, search = "running"
  PROVE  /\ Fits(stack, operationPath, branchingNodesIndex)
         /\ stack \in Seq(Node(cfg)) /\ operationPath \in Seq(Node(cfg))
         /\ branchingNodesIndex \in Seq(Nat) /\ LiesOn(branchingNodesIndex, operationPath)
BY DEF IInv, TypeOK, SearchInv, StackFitsPath, Fits, LiesOn, PathSoFar, traverseNode

LEMMA FitsThen ==
  ASSUME cfg' = cfg, search' = "running" => Fits(stack', operationPath', branchingNodesIndex')
  PROVE  StackFitsPath'
BY DEF StackFitsPath, Fits, PathSoFar, traverseNode, Follows

(* Going back to the last branching.                                       *)
LEMMA BackFits ==
  ASSUME NEW N, NEW s \in Seq(N), NEW p \in Seq(N), NEW b \in Seq(Nat), b # << >>,
         Fits(s, p, b), LiesOn(b, p)
  PROVE  Fits(Front(s), SubSeq(p, 1, Last(b)), Front(b))
<1> DEFINE n == Len(b)
           q == SubSeq(p, 1, Last(b))
<1>1. n \in Nat /\ n > 0 /\ DOMAIN b = 1 .. n /\ Len(s) = n + 1 /\ s # << >>
  BY DEF Fits
<1>2. /\ Front(b) \in Seq(Nat) /\ Len(Front(b)) = n - 1 /\ Last(b) = b[n]
      /\ DOMAIN Front(b) = 1 .. n - 1
      /\ \A k \in 1 .. n - 1 : Front(b)[k] = b[k]
  <2>1. /\ Front(b) \in Seq(Nat) /\ Len(Front(b)) = Len(b) - 1 /\ Last(b) = b[Len(b)]
        /\ \A k \in 1 .. Len(b) - 1 : Front(b)[k] = b[k]
    BY FrontProperties
  <2> QED
    BY <2>1
<1>3. /\ Front(s) \in Seq(N) /\ Len(Front(s)) = n /\ Front(s) # << >>
      /\ \A k \in 1 .. n : Front(s)[k] = s[k]
  <2>1. /\ Front(s) \in Seq(N) /\ Len(Front(s)) = Len(s) - 1
        /\ \A k \in 1 .. Len(s) - 1 : Front(s)[k] = s[k]
    BY <1>1, FrontProperties, Zenon
  <2> HIDE DEF n
  <2>2. Len(s) - 1 = n
    BY <1>1
  <2> QED
    BY <1>1, <2>1, <2>2
<1>4. b[n] \in 1 .. Len(p) /\ \A k \in 1 .. n - 1 : b[k] \in 1 .. b[n]
  <2>1. n \in DOMAIN b
    BY <1>1
  <2>2. b[n] \in 1 .. Len(p)
    BY <2>1, Zenon DEF LiesOn
  <2>3. ASSUME NEW k \in 1 .. n - 1 PROVE b[k] \in 1 .. b[n]
    <3>1. k \in DOMAIN b /\ k < n
      BY <1>1
    <3>2. b[k] \in 1 .. Len(p) /\ b[k] < b[n]
      BY <2>1, <3>1 DEF LiesOn
    <3> QED
      BY <2>2, <3>2
  <2> QED
    BY <2>2, <2>3
<1>5. Last(Front(s)) = s[n]
  BY <1>1, <1>3 DEF Last
<1>6. \A k \in 1 .. n : Follows(Append(SubSeq(p, 1, b[k]), s[k]))
  BY <1>1 DEF Fits
<1> HIDE DEF n
<1>7. Follows(Append(q, Last(Front(s))))
  <2>1. n \in 1 .. n
    BY <1>1
  <2> QED
    BY <1>2, <1>5, <1>6, <2>1
<1>8. ASSUME NEW k \in 1 .. n - 1
      PROVE  Follows(Append(SubSeq(q, 1, Front(b)[k]), Front(s)[k]))
  <2>1. k \in 1 .. n /\ Front(b)[k] = b[k] /\ Front(s)[k] = s[k]
    BY <1>1, <1>2, <1>3
  <2>2. b[n] \in 0 .. Len(p) /\ b[k] \in 0 .. b[n]
    <3>1. b[n] \in 1 .. Len(p) /\ b[k] \in 1 .. b[n] /\ Len(p) \in Nat
      BY <1>4
    <3> QED
      BY <3>1
  <2>3. SubSeq(SubSeq(p, 1, b[n]), 1, b[k]) = SubSeq(p, 1, b[k])
    BY <2>2, BeginningsOfBeginning
  <2>4. SubSeq(q, 1, Front(b)[k]) = SubSeq(p, 1, b[k])
    BY <1>2, <2>1, <2>3
  <2> QED
    BY <1>6, <2>1, <2>4
<1> HIDE DEF q
<1>9. Len(Front(s)) = Len(Front(b)) + 1
  BY <1>1, <1>2, <1>3
<1> QED
  BY <1>2, <1>7, <1>8, <1>9 DEF Fits, q

(* Going on with one node, or with the second of two.                      *)
LEMMA OnFits ==
  ASSUME NEW N, NEW s \in Seq(N), NEW p \in Seq(N), NEW b \in Seq(Nat),
         Fits(s, p, b), LiesOn(b, p),
         NEW m \in N, Follows(Append(Append(p, Last(s)), m))
  PROVE  /\ Fits(Append(Front(s), m), Append(p, Last(s)), b)
         /\ \A l \in N : Follows(Append(Append(p, Last(s)), l)) =>
              Fits(Append(Append(Front(s), l), m), Append(p, Last(s)), Append(b, Len(p) + 1))
<1> DEFINE n == Len(b)
           f == Front(s)
           q == Append(p, Last(s))
<1>1. n \in Nat /\ DOMAIN b = 1 .. n /\ Len(s) = n + 1 /\ s # << >>
  BY DEF Fits
<1>2. /\ f \in Seq(N) /\ Len(f) = n /\ \A k \in 1 .. n : f[k] = s[k]
      /\ Last(s) \in N
  <2>1. /\ Front(s) \in Seq(N) /\ Len(Front(s)) = Len(s) - 1 /\ Last(s) \in N
        /\ \A k \in 1 .. Len(s) - 1 : Front(s)[k] = s[k]
    BY <1>1, FrontProperties, Zenon
  <2> HIDE DEF n
  <2>2. Len(s) - 1 = n
    BY <1>1
  <2> QED
    BY <2>1, <2>2
<1>3. \A k \in 1 .. n : Follows(Append(SubSeq(p, 1, b[k]), s[k]))
  BY <1>1 DEF Fits
<1>4. /\ q \in Seq(N) /\ Len(q) = Len(p) + 1 /\ SubSeq(q, 1, Len(p) + 1) = q
      /\ Len(p) \in Nat
  BY <1>2
<1>5. \A k \in 1 .. n : SubSeq(q, 1, b[k]) = SubSeq(p, 1, b[k])
  <2> SUFFICES ASSUME NEW k \in 1 .. n PROVE SubSeq(q, 1, b[k]) = SubSeq(p, 1, b[k])
    OBVIOUS
  <2>1. b[k] \in 1 .. Len(p)
    BY <1>1 DEF LiesOn
  <2>2. b[k] \in 0 .. Len(p)
    BY <1>4, <2>1
  <2> QED
    BY <1>2, <2>2, BeginningsOfGrown
<1>6. \A k \in 1 .. n : Follows(Append(SubSeq(q, 1, b[k]), f[k]))
  BY <1>2, <1>3, <1>5
<1> HIDE DEF f, q, n
<1>7. Fits(Append(f, m), q, b)
  <2> DEFINE t == Append(f, m)
  <2>1. /\ Len(t) = n + 1 /\ Last(t) = m /\ \A k \in 1 .. n : t[k] = f[k]
    BY <1>1, <1>2 DEF Last
  <2> HIDE DEF t
  <2>2. \A k \in DOMAIN b : Follows(Append(SubSeq(q, 1, b[k]), t[k]))
    BY <1>1, <1>6, <2>1
  <2>3. Follows(Append(q, Last(t)))
    BY <2>1 DEF q
  <2>4. Len(t) = Len(b) + 1
    BY <2>1 DEF n
  <2> QED
    BY <2>2, <2>3, <2>4 DEF Fits, t
<1>8. ASSUME NEW l \in N, Follows(Append(q, l))
      PROVE  Fits(Append(Append(f, l), m), q, Append(b, Len(p) + 1))
  <2> DEFINE t == Append(Append(f, l), m)
             c == Append(b, Len(p) + 1)
  <2>1. /\ Len(t) = n + 2 /\ Last(t) = m /\ t[n + 1] = l
        /\ \A k \in 1 .. n : t[k] = f[k]
    BY <1>1, <1>2 DEF Last
  <2>2. /\ Len(c) = n + 1 /\ DOMAIN c = 1 .. n + 1 /\ c[n + 1] = Len(p) + 1
        /\ \A k \in 1 .. n : c[k] = b[k]
    BY <1>1, <1>4 DEF n
  <2> HIDE DEF t, c
  <2>3. ASSUME NEW k \in 1 .. n + 1 PROVE Follows(Append(SubSeq(q, 1, c[k]), t[k]))
    <3>1. CASE k = n + 1
      <4>1. Append(SubSeq(q, 1, c[k]), t[k]) = Append(q, l)
        BY <1>4, <2>1, <2>2, <3>1
      <4> QED
        BY <1>8, <4>1
    <3>2. CASE k \in 1 .. n
      BY <1>6, <2>1, <2>2, <3>2
    <3> QED
      BY <1>1, <3>1, <3>2
  <2>4. Follows(Append(q, Last(t)))
    BY <2>1 DEF q
  <2>5. Len(t) = Len(c) + 1
    BY <1>1, <2>1, <2>2
  <2> QED
    BY <2>2, <2>3, <2>4, <2>5 DEF Fits, t, c
<1> QED
  BY <1>7, <1>8 DEF f, q

LEMMA InitPathsInv == Init => PathsInv
BY DEF Init, SearchInit, PathsInv, StackFitsPath, OperationsAreFeasible

(* The steps beside the search.                                            *)
LEMMA PathsBeside ==
  ASSUME PathsInv, UNCHANGED << cfg, searchVars >>
  PROVE  PathsInv'
BY ZenonT(40) DEF PathsInv, StackFitsPath, OperationsAreFeasible, PathSoFar, traverseNode, Follows,
       searchVars, indexes

LEMMA PathsSearchState == IInv /\ PathsInv /\ SearchState => PathsInv'
<1> SUFFICES ASSUME IInv, PathsInv, SearchState PROVE PathsInv'
  OBVIOUS
<1>1. PICK n \in Node(cfg) : stack' = << n >>
  <2>1. index \in DOMAIN importantStates
    BY DEF SearchState, IInv, PhaseInv, TypeOK
  <2>2. importantStates[index] \in Node(cfg)
    BY <2>1 DEF IInv, TypeOK
  <2> QED
    BY <2>2 DEF SearchState, Find
<1>2. /\ operationPath' = << >> /\ branchingNodesIndex' = << >> /\ stateOperations' = << >>
      /\ cfg' = cfg
  BY DEF SearchState, Find
<1>3. Fits(<< n >>, << >>, << >>)
  <2>1. Len(Append(<< >>, Last(<< n >>))) = 1
    OBVIOUS
  <2> QED
    BY <2>1, OneNodeFollows DEF Fits
<1>4. StackFitsPath'
  BY <1>1, <1>2, <1>3, FitsThen
<1> QED
  BY <1>2, <1>4 DEF PathsInv, OperationsAreFeasible

LEMMA PathsKeepOperation == IInv /\ PathsInv /\ KeepOperation => PathsInv'
<1> SUFFICES ASSUME IInv, PathsInv, KeepOperation PROVE PathsInv'
  OBVIOUS
<1>1. /\ search = "finished" /\ search' = "finished" /\ cfg' = cfg
      /\ stateOperations # << >> /\ stateOperations' = Tail(stateOperations)
  BY DEF KeepOperation
<1>2. \A k \in DOMAIN stateOperations' : /\ k + 1 \in DOMAIN stateOperations
                                         /\ stateOperations'[k] = stateOperations[k + 1]
  BY <1>1, TailShifts DEF IInv, TypeOK
<1>3. \A k \in DOMAIN stateOperations' : Follows(stateOperations'[k])
  BY <1>1, <1>2 DEF PathsInv, OperationsAreFeasible
<1> QED
  BY <1>1, <1>3 DEF PathsInv, OperationsAreFeasible, StackFitsPath, Follows

(* A turn that finds no path.                                              *)
LEMMA PathsNothingFound ==
  ASSUME PathsInv, search # "idle", UNCHANGED << cfg, stateOperations >>
  PROVE  OperationsAreFeasible'
BY DEF PathsInv, OperationsAreFeasible, Follows

LEMMA PathsSpurious ==
  ASSUME PathsInv, Spurious, UNCHANGED cfg
  PROVE  PathsInv'
<1>1. OperationsAreFeasible'
  BY PathsNothingFound DEF Spurious
<1>2. StackFitsPath'
  BY DEF Spurious, StackFitsPath
<1> QED
  BY <1>1, <1>2 DEF PathsInv

LEMMA PathsFinish ==
  ASSUME IInv, PathsInv, Finish, UNCHANGED cfg
  PROVE  PathsInv'
<1> DEFINE b == branchingNodesIndex
<1>1. /\ search = "running" /\ stack' = Front(stack) /\ Turn
      /\ stateOperations' = Append(stateOperations, PathSoFar)
  BY DEF Finish
<1>2. /\ Fits(stack, operationPath, b)
      /\ stack \in Seq(Node(cfg)) /\ operationPath \in Seq(Node(cfg))
      /\ b \in Seq(Nat) /\ LiesOn(b, operationPath)
  BY <1>1, FitsNow DEF PathsInv
<1>3. OperationsAreFeasible'
  <2> DEFINE Paths == Seq(Node(cfg))
  <2>1. PathSoFar \in Paths /\ stateOperations \in Seq(Paths)
    BY <1>1, TurnStarts DEF IInv, TypeOK
  <2> HIDE DEF Paths
  <2>2. \A k \in DOMAIN stateOperations' :
          \/ k \in DOMAIN stateOperations /\ stateOperations'[k] = stateOperations[k]
          \/ stateOperations'[k] = PathSoFar
    BY <1>1, <2>1, AppendEnds
  <2>3. Follows(PathSoFar) /\ \A k \in DOMAIN stateOperations : Follows(stateOperations[k])
    BY <1>1 DEF PathsInv, StackFitsPath, OperationsAreFeasible
  <2>4. \A k \in DOMAIN stateOperations' : Follows(stateOperations'[k])
    BY <2>2, <2>3
  <2> QED
    BY <2>4 DEF OperationsAreFeasible, Follows
<1>4. CASE b # << >>
  <2>1. /\ Last(b) \in 1 .. Len(operationPath)
        /\ operationPath' = SubSeq(PathSoFar, 1, Last(b)) /\ b' = Front(b)
    <3>1. Retrace(PathSoFar)
      BY <1>4 DEF Finish
    <3> QED
      BY <1>1, <1>4, <3>1, RetraceLeaves
  <2>2. SubSeq(PathSoFar, 1, Last(b)) = SubSeq(operationPath, 1, Last(b))
    <3>1. Last(b) \in 0 .. Len(operationPath)
      BY <1>2, <2>1
    <3>2. traverseNode \in Node(cfg)
      BY <1>1, TurnStarts
    <3> QED
      BY <1>2, <3>1, <3>2, BeginningsOfGrown DEF PathSoFar
  <2>3. Fits(stack', operationPath', b')
    BY <1>1, <1>2, <1>4, <2>1, <2>2, BackFits
  <2>4. StackFitsPath'
    BY <2>3, FitsThen
  <2> QED
    BY <1>3, <2>4 DEF PathsInv
<1>5. CASE b = << >>
  <2>1. Len(stack) = 1 /\ Len(Front(stack)) = Len(stack) - 1
    <3>1. Len(stack) = 1
      BY <1>2, <1>5 DEF Fits
    <3> QED
      BY <1>1, <3>1, TurnStarts
  <2>2. search' = "finished"
    BY <1>1, <2>1, TurnStarts DEF Turn
  <2> QED
    BY <1>3, <2>2 DEF PathsInv, StackFitsPath
<1> QED
  BY <1>4, <1>5

(* A node that can be pushed continues the path.                           *)
LEMMA PushedFollows ==
  ASSUME IInv, PathsInv, search = "running",
         NEW i \in {1, 2}, IsBranch(cfg, traverseNode)
  PROVE  LET m == Succ(cfg, traverseNode)[i]
         IN  m \in Node(cfg) /\ (reachable(m) => Follows(Append(PathSoFar, m)))
<1> DEFINE m == Succ(cfg, traverseNode)[i]
<1>1. /\ PathSoFar \in Seq(Node(cfg)) /\ PathSoFar # << >> /\ Last(PathSoFar) = traverseNode
      /\ traverseNode \in Node(cfg)
  <2>1. Len(operationPath) \in Nat
    BY DEF IInv, TypeOK
  <2> QED
    BY <2>1, TurnStarts DEF Last
<1>2. m \in Node(cfg) /\ m \in Range(Succ(cfg, traverseNode))
  <2>1. Succ(cfg, traverseNode) \in Seq(Node(cfg)) /\ Len(Succ(cfg, traverseNode)) = 2
    BY <1>1, Successors DEF IsBranch
  <2>2. i \in DOMAIN Succ(cfg, traverseNode)
    BY <2>1
  <2> QED
    BY <2>1, <2>2 DEF Range
<1> HIDE DEF m
<1>3. Follows(PathSoFar)
  BY DEF PathsInv, StackFitsPath
<1>4. ASSUME reachable(m) PROVE Follows(Append(PathSoFar, m))
  BY <1>1, <1>2, <1>3, <1>4, FollowsGrows DEF reachable
<1> QED
  BY <1>2, <1>4 DEF m

LEMMA PushedTwo ==
  ASSUME NEW S, NEW s \in Seq(S), NEW x \in S, NEW y \in S
  PROVE  /\ Len(<< x >> \o << y >>) = 2
         /\ s \o (<< x >> \o << y >>) = Append(Append(s, x), y)
         /\ s \o << x >> = Append(s, x)
OBVIOUS

LEMMA PushedOne ==
  ASSUME NEW x
  PROVE  /\ Len(<< x >>) = 1 /\ << x >> \o << >> = << x >> /\ << >> \o << x >> = << x >>
OBVIOUS

LEMMA PathsBranch ==
  ASSUME IInv, PathsInv, Branch, UNCHANGED cfg
  PROVE  PathsInv'
<1> DEFINE b == branchingNodesIndex
           m1 == Succ(cfg, traverseNode)[1]
           m2 == Succ(cfg, traverseNode)[2]
           f == Front(stack)
<1>1. /\ Visit /\ search = "running" /\ IsBranch(cfg, traverseNode)
      /\ operationPath' = PathSoFar
      /\ stack' = f \o (Pushed(2) \o Pushed(1))
      /\ b' = IF Len(Pushed(2) \o Pushed(1)) > 1 THEN Append(b, Len(PathSoFar)) ELSE b
  BY DEF Branch, Visit
<1>2. /\ Fits(stack, operationPath, b)
      /\ stack \in Seq(Node(cfg)) /\ operationPath \in Seq(Node(cfg))
      /\ b \in Seq(Nat) /\ LiesOn(b, operationPath)
  BY <1>1, FitsNow DEF PathsInv
<1>3. /\ m1 \in Node(cfg) /\ (reachable(m1) => Follows(Append(PathSoFar, m1)))
      /\ m2 \in Node(cfg) /\ (reachable(m2) => Follows(Append(PathSoFar, m2)))
  BY <1>1, PushedFollows
<1>4. reachable(m1) \/ reachable(m2)
  <2>1. /\ PathSoFar \in Seq(Node(cfg)) /\ PathSoFar # << >> /\ Last(PathSoFar) = traverseNode
    <3>1. Len(operationPath) \in Nat
      BY DEF IInv, TypeOK
    <3> QED
      BY <1>1, <3>1, TurnStarts DEF Last
  <2>2. Follows(PathSoFar)
    BY <1>1 DEF PathsInv, StackFitsPath
  <2> QED
    BY <1>1, <2>1, <2>2, OneWayOpen DEF reachable
<1>5. /\ Pushed(1) = IF reachable(m1) THEN << m1 >> ELSE << >>
      /\ Pushed(2) = IF reachable(m2) THEN << m2 >> ELSE << >>
  BY DEF Pushed
<1>6. f \in Seq(Node(cfg)) /\ Len(PathSoFar) = Len(operationPath) + 1
  BY <1>1, TurnStarts
<1> HIDE DEF m1, m2, f
<1>7. CASE reachable(m1) /\ reachable(m2)
  <2>1. stack' = Append(Append(f, m2), m1) /\ b' = Append(b, Len(operationPath) + 1)
    <3>1. Pushed(2) = << m2 >> /\ Pushed(1) = << m1 >>
      BY <1>5, <1>7
    <3>2. /\ Len(<< m2 >> \o << m1 >>) = 2
          /\ f \o (<< m2 >> \o << m1 >>) = Append(Append(f, m2), m1)
      BY <1>3, <1>6, PushedTwo
    <3>3. /\ stack' = f \o (<< m2 >> \o << m1 >>)
          /\ b' = IF Len(<< m2 >> \o << m1 >>) > 1 THEN Append(b, Len(PathSoFar)) ELSE b
      BY <1>1, <3>1, Zenon
    <3>4. 2 > 1
      OBVIOUS
    <3> QED
      BY <1>6, <3>2, <3>3, <3>4, Zenon
  <2>2. Fits(stack', operationPath', b')
    BY <1>1, <1>2, <1>3, <1>7, <2>1, OnFits DEF PathSoFar, traverseNode, f
  <2> QED
    BY <2>2, <1>1, FitsThen, PathsNothingFound DEF PathsInv, Visit
<1>8. ASSUME NEW m \in Node(cfg), Pushed(2) \o Pushed(1) = << m >>,
             Follows(Append(PathSoFar, m))
      PROVE  PathsInv'
  <2>1. f \o << m >> = Append(f, m) /\ ~ (Len(<< m >>) > 1)
    BY <1>6, <1>8, PushedTwo, PushedOne
  <2>2. stack' = Append(f, m) /\ b' = b
    BY <1>1, <1>8, <2>1
  <2>3. Fits(stack', operationPath', b')
    BY <1>1, <1>2, <1>8, <2>2, OnFits DEF PathSoFar, traverseNode, f
  <2> QED
    BY <2>3, <1>1, FitsThen, PathsNothingFound DEF PathsInv, Visit
<1>9. CASE reachable(m1) /\ ~ reachable(m2)
  <2>1. Pushed(2) \o Pushed(1) = << m1 >>
    BY <1>5, <1>9, PushedOne
  <2> QED
    BY <1>3, <1>8, <1>9, <2>1
<1>10. CASE ~ reachable(m1) /\ reachable(m2)
  <2>1. Pushed(2) \o Pushed(1) = << m2 >>
    BY <1>5, <1>10, PushedOne
  <2> QED
    BY <1>3, <1>8, <1>10, <2>1
<1> QED
  BY <1>4, <1>7, <1>9, <1>10

LEMMA PathsFollow ==
  ASSUME IInv, PathsInv, Follow, UNCHANGED cfg
  PROVE  PathsInv'
<1> DEFINE b == branchingNodesIndex
           m == Succ(cfg, traverseNode)[1]
<1>1. /\ Visit /\ search = "running" /\ ~ IsBranch(cfg, traverseNode)
      /\ operationPath' = PathSoFar
      /\ stack' = Append(Front(stack), m) /\ b' = b
  BY DEF Follow, Visit
<1>2. /\ Fits(stack, operationPath, b)
      /\ stack \in Seq(Node(cfg)) /\ operationPath \in Seq(Node(cfg))
      /\ b \in Seq(Nat) /\ LiesOn(b, operationPath)
  BY <1>1, FitsNow DEF PathsInv
<1>3. /\ PathSoFar \in Seq(Node(cfg)) /\ PathSoFar # << >> /\ Last(PathSoFar) = traverseNode
      /\ traverseNode \in Node(cfg)
  <2>1. Len(operationPath) \in Nat
    BY DEF IInv, TypeOK
  <2> QED
    BY <1>1, <2>1, TurnStarts DEF Last
<1>4. m \in Node(cfg) /\ m \in Range(Succ(cfg, traverseNode))
  <2>1. Succ(cfg, traverseNode) \in Seq(Node(cfg)) /\ Len(Succ(cfg, traverseNode)) \in {1, 2}
    BY <1>3, Successors
  <2>2. 1 \in DOMAIN Succ(cfg, traverseNode)
    BY <2>1
  <2> QED
    BY <2>1, <2>2 DEF Range
<1> HIDE DEF m
<1>5. Follows(PathSoFar)
  BY <1>1 DEF PathsInv, StackFitsPath
<1>6. Follows(Append(PathSoFar, m))
  BY <1>1, <1>3, <1>4, <1>5, FollowsGrows
<1>7. Fits(stack', operationPath', b')
  BY <1>1, <1>2, <1>4, <1>6, OnFits DEF PathSoFar, traverseNode
<1> QED
  BY <1>1, <1>7, FitsThen, PathsNothingFound DEF PathsInv, Visit

LEMMA NextPathsInv == IInv /\ PathsInv /\ [Next]_vars => PathsInv'
<1> SUFFICES ASSUME IInv, PathsInv, [Next]_vars PROVE PathsInv'
  OBVIOUS
<1>1. CASE ColorInitial \/ RoundStart \/ AllSearched \/ InvalidPath
            \/ CheckNothing \/ CheckSlaves \/ CheckMasters \/ Stopped \/ UNCHANGED vars
  <2>1. UNCHANGED << cfg, searchVars >>
    BY <1>1 DEF ColorInitial, RoundStart, AllSearched, InvalidPath, CheckNothing, CheckSlaves,
                CheckMasters, Stopped, vars
  <2> QED
    BY <2>1, PathsBeside
<1>2. CASE SearchState
  BY <1>2, PathsSearchState
<1>3. CASE SearchStep
  BY <1>3, PathsSpurious, PathsFinish, PathsBranch, PathsFollow DEF SearchStep, Iterate
<1>4. CASE KeepOperation
  BY <1>4, PathsKeepOperation
<1>5. CASE StateSearched
  BY <1>5 DEF StateSearched, PathsInv, StackFitsPath, OperationsAreFeasible
<1>6. CASE ProcessSpurious
  BY <1>6 DEF ProcessSpurious, PathsInv, StackFitsPath, OperationsAreFeasible
<1> QED
  BY <1>1, <1>2, <1>3, <1>4, <1>5, <1>6 DEF Next

LEMMA PathsInvariance == Spec => []PathsInv
<1>1. IInv /\ PathsInv /\ [Next]_vars /\ IInv' => PathsInv'
  BY NextPathsInv
<1> QED
  BY <1>1, Invariance, InitPathsInv, PTL DEF Spec

(* Whatever the search has still to do continues the path it is on: the    *)
(* stack and the branchings are in step with the path.                     *)
THEOREM SearchFitsPath == Spec => []StackFitsPath
<1>1. PathsInv => StackFitsPath
  BY DEF PathsInv
<1> QED
  BY <1>1, PathsInvariance, PTL

(* Each path the search finds is one the program can take: every branch on *)
(* it could be reached when it was taken.                                  *)
THEOREM PathsAreFeasible == Spec => []OperationsAreFeasible
<1>1. PathsInv => OperationsAreFeasible
  BY DEF PathsInv
<1> QED
  BY <1>1, PathsInvariance, PTL

(* A path never gets stuck at a branching, whatever the conditions before. *)
THEOREM BranchesStayOpen == Spec => []BranchOpen
<1>1. IInv /\ StackFitsPath => BranchOpen
  BY OpenIsBranchOpen
<1> QED
  BY <1>1, Invariance, SearchFitsPath, PTL

-----------------------------------------------------------------------------
(* The turns of the loop.  The indexes list the loop's heads on the path,   *)
(* the codes the turns between them, and each branching is left for its     *)
(* `then' part as long as it is listed.                                    *)
Heads(p, w) ==
  /\ \A k \in DOMAIN w : w[k] < Len(p) /\ p[w[k] + 1] = whileNode(cfg)
  /\ \A j, k \in DOMAIN w : j < k => w[j] < w[k]
  /\ \A i \in DOMAIN p : p[i] = whileNode(cfg) => \E k \in DOMAIN w : w[k] + 1 = i

Encoded(p, w, a) ==
  /\ Len(a) = IF Len(w) = 0 THEN 0 ELSE Len(w) - 1
  /\ \A k \in 1 .. Len(w) - 1 : a[k] = encodeArch(SubSeq(p, w[k] + 1, w[k + 1]))

Thens(p, b) == \A k \in DOMAIN b : IsBranch(cfg, p[b[k]]) /\ p[b[k] + 1] = p[b[k]] + 1

Codes == {encodeArch(p) : p \in Seq(Node(cfg))}

WhileInv ==
  search = "running" =>
    /\ operationArches \in Seq(Codes)
    /\ Heads(operationPath, whileIndex)
    /\ Encoded(operationPath, whileIndex, operationArches)
    /\ Thens(PathSoFar, branchingNodesIndex)

LEMMA InnerOfGrown ==
  ASSUME NEW S, NEW p \in Seq(S), NEW m \in S, NEW j \in 1 .. Len(p) + 1, NEW k \in 0 .. Len(p)
  PROVE  SubSeq(Append(p, m), j, k) = SubSeq(p, j, k)
<1> DEFINE q == Append(p, m)
<1>1. /\ Len(p) \in Nat /\ q \in Seq(S) /\ Len(q) = Len(p) + 1
      /\ \A i \in 1 .. Len(p) : q[i] = p[i]
  OBVIOUS
<1> HIDE DEF q
<1>2. /\ SubSeq(q, j, k) \in Seq(S)
      /\ Len(SubSeq(q, j, k)) = IF j <= k THEN k - j + 1 ELSE 0
      /\ \A i \in 1 .. k - j + 1 : SubSeq(q, j, k)[i] = q[j + i - 1]
  <2>1. j \in 1 .. Len(q) + 1 /\ k \in 0 .. Len(q)
    BY <1>1
  <2> QED
    BY <1>1, <2>1, SubSeqType
<1>3. /\ SubSeq(p, j, k) \in Seq(S)
      /\ Len(SubSeq(p, j, k)) = IF j <= k THEN k - j + 1 ELSE 0
      /\ \A i \in 1 .. k - j + 1 : SubSeq(p, j, k)[i] = p[j + i - 1]
  BY SubSeqType
<1>4. \A i \in 1 .. k - j + 1 : j + i - 1 \in 1 .. Len(p)
  BY <1>1
<1>5. \A i \in 1 .. k - j + 1 : SubSeq(q, j, k)[i] = SubSeq(p, j, k)[i]
  BY <1>1, <1>2, <1>3, <1>4
<1>6. \A i \in 1 .. Len(SubSeq(q, j, k)) : i \in 1 .. k - j + 1
  BY <1>1, <1>2
<1>7. SubSeq(q, j, k) = SubSeq(p, j, k)
  BY <1>2, <1>3, <1>5, <1>6, SeqEqual
<1> QED
  BY <1>7 DEF q

LEMMA InnerOfBeginning ==
  ASSUME NEW S, NEW p \in Seq(S), NEW n \in 0 .. Len(p), NEW j \in 1 .. n + 1, NEW k \in 0 .. n
  PROVE  SubSeq(SubSeq(p, 1, n), j, k) = SubSeq(p, j, k)
<1> DEFINE q == SubSeq(p, 1, n)
<1>1. /\ Len(p) \in Nat /\ q \in Seq(S) /\ Len(q) = n
      /\ \A i \in 1 .. n : q[i] = p[i]
  BY PrefixProperties
<1> HIDE DEF q
<1>2. /\ SubSeq(q, j, k) \in Seq(S)
      /\ Len(SubSeq(q, j, k)) = IF j <= k THEN k - j + 1 ELSE 0
      /\ \A i \in 1 .. k - j + 1 : SubSeq(q, j, k)[i] = q[j + i - 1]
  <2>1. j \in 1 .. Len(q) + 1 /\ k \in 0 .. Len(q)
    BY <1>1
  <2> QED
    BY <1>1, <2>1, SubSeqType
<1>3. /\ SubSeq(p, j, k) \in Seq(S)
      /\ Len(SubSeq(p, j, k)) = IF j <= k THEN k - j + 1 ELSE 0
      /\ \A i \in 1 .. k - j + 1 : SubSeq(p, j, k)[i] = p[j + i - 1]
  <2>1. j \in 1 .. Len(p) + 1 /\ k \in 0 .. Len(p)
    BY <1>1
  <2> QED
    BY <2>1, SubSeqType
<1>4. \A i \in 1 .. k - j + 1 : j + i - 1 \in 1 .. n
  BY <1>1
<1>5. \A i \in 1 .. k - j + 1 : SubSeq(q, j, k)[i] = SubSeq(p, j, k)[i]
  BY <1>1, <1>2, <1>3, <1>4
<1>6. \A i \in 1 .. Len(SubSeq(q, j, k)) : i \in 1 .. k - j + 1
  BY <1>1, <1>2
<1>7. SubSeq(q, j, k) = SubSeq(p, j, k)
  BY <1>2, <1>3, <1>5, <1>6, SeqEqual
<1> QED
  BY <1>7 DEF q

(* A node is passed: the loop's head is listed. *)
LEMMA HeadsGrow ==
  ASSUME NEW N, NEW p \in Seq(N), NEW w \in Seq(Nat), Heads(p, w), NEW m \in N,
         NEW v, v = IF m = whileNode(cfg) THEN Append(w, Len(p)) ELSE w
  PROVE  Heads(Append(p, m), v)
<1> DEFINE q == Append(p, m)
           n == Len(w)
           head == whileNode(cfg)
<1>1. /\ Len(p) \in Nat /\ Len(q) = Len(p) + 1 /\ q[Len(p) + 1] = m
      /\ DOMAIN p = 1 .. Len(p) /\ DOMAIN q = 1 .. Len(p) + 1
      /\ \A i \in 1 .. Len(p) : q[i] = p[i]
      /\ n \in Nat /\ DOMAIN w = 1 .. n /\ \A k \in 1 .. n : w[k] \in Nat
  OBVIOUS
<1>2. /\ \A k \in 1 .. n : w[k] < Len(p) /\ p[w[k] + 1] = head
      /\ \A j, k \in 1 .. n : j < k => w[j] < w[k]
      /\ \A i \in 1 .. Len(p) : p[i] = head => \E k \in 1 .. n : w[k] + 1 = i
  BY <1>1 DEF Heads
<1>3. ASSUME NEW k \in 1 .. n PROVE w[k] < Len(q) /\ q[w[k] + 1] = head
  <2> DEFINE i == w[k] + 1
  <2>1. w[k] \in Nat /\ w[k] < Len(p) /\ p[i] = head
    BY <1>1, <1>2
  <2>2. i \in 1 .. Len(p) /\ w[k] < Len(q)
    BY <1>1, <2>1
  <2> HIDE DEF i, q, head
  <2>3. q[i] = p[i]
    BY <1>1, <2>2
  <2> QED
    BY <2>1, <2>2, <2>3 DEF i
<1>4. CASE m # head
  <2>1. v = w
    BY <1>4
  <2> HIDE DEF q, n, head
  <2>2. \A k \in 1 .. n : w[k] < Len(q) /\ q[w[k] + 1] = head
    BY <1>3
  <2>3. \A i \in 1 .. Len(p) + 1 : q[i] = head => \E k \in 1 .. n : w[k] + 1 = i
    <3>1. \A i \in 1 .. Len(p) + 1 : i \in 1 .. Len(p) \/ i = Len(p) + 1
      BY <1>1
    <3> QED
      BY <1>1, <1>2, <1>4, <3>1
  <2> QED
    BY <1>1, <1>2, <2>1, <2>2, <2>3 DEF Heads, q, head
<1>5. CASE m = head
  <2>1. v = Append(w, Len(p))
    BY <1>5
  <2>2. /\ DOMAIN v = 1 .. n + 1 /\ v[n + 1] = Len(p)
        /\ \A k \in 1 .. n : v[k] = w[k]
    BY <1>1, <2>1
  <2> HIDE DEF q, n, head
  <2>3. \A k \in 1 .. n + 1 : k \in 1 .. n \/ k = n + 1
    BY <1>1
  <2>4. \A k \in 1 .. n + 1 : v[k] < Len(q) /\ q[v[k] + 1] = head
    <3>1. Len(p) < Len(q) /\ q[Len(p) + 1] = head
      BY <1>1, <1>5
    <3> QED
      BY <1>3, <2>2, <2>3, <3>1
  <2>5. \A j, k \in 1 .. n + 1 : j < k => v[j] < v[k]
    <3> SUFFICES ASSUME NEW j \in 1 .. n + 1, NEW k \in 1 .. n + 1, j < k PROVE v[j] < v[k]
      OBVIOUS
    <3>1. j \in 1 .. n
      BY <1>1
    <3>2. CASE k \in 1 .. n
      BY <1>2, <2>2, <3>1, <3>2
    <3>3. CASE k = n + 1
      BY <1>2, <2>2, <3>1, <3>3
    <3> QED
      BY <2>3, <3>2, <3>3
  <2>6. \A i \in 1 .. Len(p) + 1 : q[i] = head => \E k \in 1 .. n + 1 : v[k] + 1 = i
    <3> SUFFICES ASSUME NEW i \in 1 .. Len(p) + 1, q[i] = head
                 PROVE  \E k \in 1 .. n + 1 : v[k] + 1 = i
      OBVIOUS
    <3>1. CASE i = Len(p) + 1
      <4>1. n + 1 \in 1 .. n + 1
        BY <1>1
      <4> QED
        BY <2>2, <3>1, <4>1
    <3>2. CASE i \in 1 .. Len(p)
      <4>1. PICK k \in 1 .. n : w[k] + 1 = i
        BY <1>1, <1>2, <3>2
      <4>2. k \in 1 .. n + 1
        BY <1>1
      <4> QED
        BY <2>2, <4>1, <4>2
    <3> QED
      BY <1>1, <3>1, <3>2
  <2> QED
    BY <1>1, <2>2, <2>4, <2>5, <2>6 DEF Heads, q, head
<1> QED
  BY <1>4, <1>5

LEMMA AppendLast ==
  ASSUME NEW S, NEW s \in Seq(S), NEW e \in S
  PROVE  /\ Append(s, e) \in Seq(S) /\ Len(Append(s, e)) = Len(s) + 1
         /\ Append(s, e)[Len(s) + 1] = e
         /\ \A k \in 1 .. Len(s) : Append(s, e)[k] = s[k]
OBVIOUS

(* ... and the turn it ends is encoded. *)
LEMMA EncodedGrow ==
  ASSUME NEW N, NEW p \in Seq(N), NEW w \in Seq(Nat), Heads(p, w),
         NEW C, NEW a \in Seq(C), Encoded(p, w, a), NEW m \in N,
         NEW v, v = IF m = whileNode(cfg) THEN Append(w, Len(p)) ELSE w,
         NEW e, Len(w) > 0 => e \in C /\ e = encodeArch(SubSeq(p, w[Len(w)] + 1, Len(p))),
         NEW c, c = IF m = whileNode(cfg) /\ Len(w) > 0 THEN Append(a, e) ELSE a
  PROVE  c \in Seq(C) /\ Encoded(Append(p, m), v, c)
<1> DEFINE q == Append(p, m)
           n == Len(w)
<1>1. n \in Nat /\ DOMAIN w = 1 .. n /\ Len(p) \in Nat /\ \A k \in 1 .. n : w[k] \in Nat
  OBVIOUS
<1>2. \A k \in 1 .. n : w[k] < Len(p)
  BY <1>1 DEF Heads
<1>3. /\ Len(a) = IF n = 0 THEN 0 ELSE n - 1
      /\ \A k \in 1 .. n - 1 : a[k] = encodeArch(SubSeq(p, w[k] + 1, w[k + 1]))
  BY DEF Encoded
<1>4. ASSUME NEW k \in 1 .. n, NEW l \in 0 .. Len(p)
      PROVE  SubSeq(q, w[k] + 1, l) = SubSeq(p, w[k] + 1, l)
  <2>1. w[k] \in Nat /\ w[k] < Len(p)
    BY <1>1, <1>2
  <2>2. w[k] + 1 \in 1 .. Len(p) + 1
    BY <1>1, <2>1
  <2> QED
    BY <2>2, InnerOfGrown
<1>5. ASSUME NEW k \in 1 .. n - 1 PROVE a[k] = encodeArch(SubSeq(q, w[k] + 1, w[k + 1]))
  <2>1. k \in 1 .. n /\ k + 1 \in 1 .. n
    BY <1>1
  <2>2. w[k + 1] \in Nat /\ w[k + 1] < Len(p)
    BY <1>1, <1>2, <2>1
  <2>3. w[k + 1] \in 0 .. Len(p)
    BY <1>1, <2>2
  <2>4. SubSeq(q, w[k] + 1, w[k + 1]) = SubSeq(p, w[k] + 1, w[k + 1])
    BY <1>4, <2>1, <2>3
  <2> QED
    BY <1>3, <2>4
<1>6. CASE m # whileNode(cfg)
  <2>1. v = w /\ c = a
    BY <1>6
  <2> QED
    BY <1>3, <1>5, <2>1 DEF Encoded
<1>7. CASE m = whileNode(cfg) /\ n = 0
  <2>1. Len(v) = 1 /\ c = a /\ Len(c) = 0
    BY <1>3, <1>7
  <2> QED
    BY <2>1 DEF Encoded
<1>8. CASE m = whileNode(cfg) /\ n > 0
  <2>1. v = Append(w, Len(p)) /\ c = Append(a, e) /\ e \in C
    BY <1>8
  <2>2. /\ Len(v) = n + 1 /\ v[n + 1] = Len(p) /\ \A k \in 1 .. n : v[k] = w[k]
    BY <1>1, <2>1
  <2>3. Len(a) = n - 1
    BY <1>3, <1>8
  <2>4. /\ c \in Seq(C) /\ Len(c) = n /\ c[n] = e /\ \A k \in 1 .. n - 1 : c[k] = a[k]
    <3>1. /\ c \in Seq(C) /\ Len(c) = Len(a) + 1 /\ c[Len(a) + 1] = e
          /\ \A k \in 1 .. Len(a) : c[k] = a[k]
      BY <2>1, AppendLast
    <3>2. Len(a) + 1 = n
      BY <1>1, <2>3
    <3> QED
      BY <2>3, <3>1, <3>2
  <2>5. e = encodeArch(SubSeq(q, w[n] + 1, Len(p)))
    <3>1. n \in 1 .. n /\ Len(p) \in 0 .. Len(p)
      BY <1>1, <1>8
    <3>2. SubSeq(q, w[n] + 1, Len(p)) = SubSeq(p, w[n] + 1, Len(p))
      BY <1>4, <3>1
    <3> QED
      BY <1>8, <3>2
  <2> HIDE DEF n, q
  <2>6. ASSUME NEW k \in 1 .. n PROVE c[k] = encodeArch(SubSeq(q, v[k] + 1, v[k + 1]))
    <3>1. CASE k = n
      <4>1. n \in 1 .. n
        BY <1>1, <1>8 DEF n
      <4>2. v[n] = w[n] /\ v[n + 1] = Len(p) /\ c[n] = e
        BY <2>2, <2>4, <4>1
      <4> QED
        BY <2>5, <3>1, <4>2, Zenon
    <3>2. CASE k \in 1 .. n - 1
      <4>1. k \in 1 .. n /\ k + 1 \in 1 .. n
        BY <1>1, <3>2
      <4>2. v[k] = w[k] /\ v[k + 1] = w[k + 1] /\ c[k] = a[k]
        BY <2>2, <2>4, <3>2, <4>1
      <4> QED
        BY <1>5, <3>2, <4>2, Zenon
    <3>3. k = n \/ k \in 1 .. n - 1
      BY <1>1
    <3> QED
      BY <3>1, <3>2, <3>3, Zenon
  <2>7. Len(v) - 1 = n /\ Len(v) # 0
    BY <1>1, <2>2
  <2> QED
    BY <2>4, <2>6, <2>7, Zenon DEF Encoded, q
<1> QED
  BY <1>1, <1>6, <1>7, <1>8

(* Going back behind a branching, where the loop's head does not follow:   *)
(* the heads before it are kept.                                           *)
Kept(w, cut, keep) == /\ keep \in 0 .. Len(w)
                      /\ keep = 0 \/ w[keep] <= cut
                      /\ \A j \in keep + 1 .. Len(w) : w[j] > cut

LEMMA KeptBefore ==
  ASSUME NEW N, NEW q \in Seq(N), NEW w \in Seq(Nat), Heads(q, w),
         NEW cut \in 1 .. Len(q) - 1, q[cut + 1] # whileNode(cfg),
         NEW keep, Kept(w, cut, keep)
  PROVE  \A k \in 1 .. keep : k \in DOMAIN w /\ w[k] \in Nat /\ w[k] < cut
<1> SUFFICES ASSUME NEW k \in 1 .. keep PROVE k \in DOMAIN w /\ w[k] \in Nat /\ w[k] < cut
  OBVIOUS
<1>1. /\ keep \in 1 .. Len(w) /\ w[keep] <= cut /\ Len(w) \in Nat
      /\ k \in DOMAIN w /\ keep \in DOMAIN w /\ w[k] \in Nat /\ w[keep] \in Nat
  BY DEF Kept
<1>2. w[k] <= w[keep]
  <2>1. k < keep => w[k] < w[keep]
    BY <1>1 DEF Heads
  <2>2. k < keep \/ k = keep
    BY <1>1
  <2> QED
    BY <1>1, <2>1, <2>2
<1>3. w[k] # cut
  BY <1>1 DEF Heads
<1> QED
  BY <1>1, <1>2, <1>3

LEMMA HeadsCut ==
  ASSUME NEW N, NEW q \in Seq(N), NEW w \in Seq(Nat), Heads(q, w),
         NEW cut \in 1 .. Len(q) - 1, q[cut + 1] # whileNode(cfg),
         NEW keep, Kept(w, cut, keep)
  PROVE  Heads(SubSeq(q, 1, cut), SubSeq(w, 1, keep))
<1> DEFINE p == SubSeq(q, 1, cut)
           v == SubSeq(w, 1, keep)
           head == whileNode(cfg)
<1>1. \A k \in 1 .. keep : k \in DOMAIN w /\ w[k] \in Nat /\ w[k] < cut
  BY KeptBefore
<1>2. Len(q) \in Nat /\ cut \in 0 .. Len(q) /\ cut \in Nat /\ keep \in 0 .. Len(w)
  BY DEF Kept
<1>3. p \in Seq(N) /\ Len(p) = cut /\ DOMAIN p = 1 .. cut /\ \A i \in 1 .. cut : p[i] = q[i]
  <2>1. p \in Seq(N) /\ Len(p) = cut /\ \A i \in 1 .. cut : p[i] = q[i]
    BY <1>2, PrefixProperties
  <2> HIDE DEF p
  <2> QED
    BY <2>1
<1>4. DOMAIN v = 1 .. keep /\ \A k \in 1 .. keep : v[k] = w[k]
  <2>1. v \in Seq(Nat) /\ Len(v) = keep /\ \A k \in 1 .. keep : v[k] = w[k]
    BY <1>2, PrefixProperties
  <2> HIDE DEF v
  <2> QED
    BY <2>1
<1>5. /\ \A k \in DOMAIN w : q[w[k] + 1] = head
      /\ \A j, k \in DOMAIN w : j < k => w[j] < w[k]
      /\ \A i \in DOMAIN q : q[i] = head => \E k \in DOMAIN w : w[k] + 1 = i
  BY DEF Heads
<1> HIDE DEF p, v, head
<1>6. ASSUME NEW k \in 1 .. keep PROVE v[k] < cut /\ p[v[k] + 1] = head
  <2>1. v[k] = w[k] /\ w[k] \in Nat /\ w[k] < cut /\ q[w[k] + 1] = head
    BY <1>1, <1>4, <1>5
  <2>2. w[k] + 1 \in 1 .. cut
    BY <1>2, <2>1, SMTT(30)
  <2> QED
    BY <1>3, <2>1, <2>2
<1>7. \A j, k \in 1 .. keep : j < k => v[j] < v[k]
  BY <1>1, <1>4, <1>5
<1>8. ASSUME NEW i \in 1 .. cut, p[i] = head PROVE \E k \in 1 .. keep : v[k] + 1 = i
  <2>1. i \in DOMAIN q /\ q[i] = head
    BY <1>2, <1>3, <1>8
  <2>2. PICK k \in DOMAIN w : w[k] + 1 = i
    BY <1>5, <2>1
  <2>3. k \in 1 .. Len(w) /\ w[k] \in Nat /\ w[k] < cut /\ Len(w) \in Nat
    BY <1>2, <2>2
  <2>4. ~ (k \in keep + 1 .. Len(w))
    BY <1>2, <2>3 DEF Kept
  <2>5. k \in 1 .. keep
    BY <1>2, <2>3, <2>4
  <2> QED
    BY <1>4, <2>2, <2>5
<1> QED
  BY <1>3, <1>4, <1>6, <1>7, <1>8 DEF Heads, p, v, head

LEMMA EncodedCut ==
  ASSUME NEW N, NEW q \in Seq(N), NEW w \in Seq(Nat), Heads(q, w),
         NEW cut \in 1 .. Len(q) - 1, q[cut + 1] # whileNode(cfg),
         NEW keep, Kept(w, cut, keep),
         NEW C, NEW a \in Seq(C), Encoded(q, w, a),
         NEW c, c = IF Len(w) - keep < Len(a) THEN SubSeq(a, 1, Len(a) - (Len(w) - keep))
                                              ELSE << >>
  PROVE  c \in Seq(C) /\ Encoded(SubSeq(q, 1, cut), SubSeq(w, 1, keep), c)
<1> DEFINE p == SubSeq(q, 1, cut)
           v == SubSeq(w, 1, keep)
           n == Len(w)
<1>1. \A k \in 1 .. keep : k \in DOMAIN w /\ w[k] \in Nat /\ w[k] < cut
  BY KeptBefore
<1>2. /\ Len(q) \in Nat /\ cut \in 0 .. Len(q) /\ cut \in Nat
      /\ n \in Nat /\ keep \in 0 .. n
  BY DEF Kept
<1>3. Len(v) = keep /\ \A k \in 1 .. keep : v[k] = w[k]
  BY <1>2, PrefixProperties
<1>4. /\ Len(a) = IF n = 0 THEN 0 ELSE n - 1
      /\ \A k \in 1 .. n - 1 : a[k] = encodeArch(SubSeq(q, w[k] + 1, w[k + 1]))
  BY DEF Encoded
<1> HIDE DEF n
<1>5. /\ c \in Seq(C) /\ Len(c) = IF keep = 0 THEN 0 ELSE keep - 1
      /\ \A k \in 1 .. keep - 1 : c[k] = a[k]
  <2>1. CASE keep < 2
    <3>1. ~ (n - keep < Len(a))
      BY <1>2, <1>4, <2>1
    <3>2. c = << >>
      BY <3>1 DEF n
    <3>3. c \in Seq(C) /\ Len(c) = 0
      BY <3>2, EmptySeq, Zenon
    <3>4. keep \in {0, 1} /\ 1 .. keep - 1 = {}
      BY <1>2, <2>1
    <3>5. (IF keep = 0 THEN 0 ELSE keep - 1) = 0
      BY <3>4
    <3> QED
      BY <3>3, <3>4, <3>5, Zenon
  <2>2. CASE keep >= 2
    <3>1. n - keep < Len(a) /\ Len(a) - (n - keep) = keep - 1 /\ keep - 1 \in 0 .. Len(a)
      BY <1>2, <1>4, <2>2
    <3>2. c = SubSeq(a, 1, keep - 1)
      BY <3>1 DEF n
    <3>3. keep - 1 \in 0 .. Len(a)
      BY <3>1
    <3>4. /\ SubSeq(a, 1, keep - 1) \in Seq(C) /\ Len(SubSeq(a, 1, keep - 1)) = keep - 1
          /\ \A k \in 1 .. keep - 1 : SubSeq(a, 1, keep - 1)[k] = a[k]
      BY <3>3, PrefixProperties
    <3>5. c \in Seq(C) /\ Len(c) = keep - 1 /\ \A k \in 1 .. keep - 1 : c[k] = a[k]
      BY <3>2, <3>4, Zenon
    <3>6. keep # 0
      BY <1>2, <2>2
    <3> QED
      BY <3>5, <3>6, Zenon
  <2> QED
    BY <1>2, <2>1, <2>2, SMTT(30)
<1>6. ASSUME NEW k \in 1 .. keep - 1 PROVE c[k] = encodeArch(SubSeq(p, v[k] + 1, v[k + 1]))
  <2>1. k \in 1 .. keep /\ k + 1 \in 1 .. keep /\ k \in 1 .. n - 1
    BY <1>2
  <2>2. /\ w[k] \in Nat /\ w[k] < cut /\ w[k + 1] \in Nat /\ w[k + 1] < cut
    BY <1>1, <2>1
  <2>3. w[k] + 1 \in 1 .. cut + 1 /\ w[k + 1] \in 0 .. cut
    <3>1. \A x \in Nat : x < cut => x + 1 \in 1 .. cut + 1 /\ x \in 0 .. cut
      BY <1>2
    <3> QED
      BY <2>2, <3>1
  <2>4. SubSeq(p, w[k] + 1, w[k + 1]) = SubSeq(q, w[k] + 1, w[k + 1])
    BY <1>2, <2>3, InnerOfBeginning
  <2> HIDE DEF p, v
  <2> QED
    BY <1>3, <1>4, <1>5, <2>1, <2>4
<1> HIDE DEF p, v
<1>7. Encoded(p, v, c)
  BY <1>3, <1>5, <1>6 DEF Encoded
<1> QED
  BY <1>5, <1>7 DEF p, v

(* Branchings that are left for their `then' part stay so.                 *)
LEMMA ThensGrow ==
  ASSUME NEW N, NEW p \in Seq(N), NEW b \in Seq(Nat), NEW m \in N, Len(p) > 0,
         \A k \in DOMAIN b : b[k] \in 1 .. Len(p) - 1, Thens(p, b)
  PROVE  /\ Thens(Append(p, m), b)
         /\ IsBranch(cfg, p[Len(p)]) /\ m = p[Len(p)] + 1 => Thens(Append(p, m), Append(b, Len(p)))
<1> DEFINE q == Append(p, m)
           c == Append(b, Len(p))
<1>1. /\ Len(p) \in Nat /\ q[Len(p) + 1] = m
      /\ \A i \in 1 .. Len(p) : q[i] = p[i]
  OBVIOUS
<1>2. /\ \A k \in DOMAIN c : \/ k \in DOMAIN b /\ c[k] = b[k]
                             \/ c[k] = Len(p)
  OBVIOUS
<1> HIDE DEF q, c
<1>3. ASSUME NEW k \in DOMAIN b PROVE IsBranch(cfg, q[b[k]]) /\ q[b[k] + 1] = q[b[k]] + 1
  <2>1. b[k] \in 1 .. Len(p) - 1 /\ IsBranch(cfg, p[b[k]]) /\ p[b[k] + 1] = p[b[k]] + 1
    BY DEF Thens
  <2>2. b[k] \in 1 .. Len(p) /\ b[k] + 1 \in 1 .. Len(p)
    BY <1>1, <2>1
  <2>3. q[b[k]] = p[b[k]] /\ q[b[k] + 1] = p[b[k] + 1]
    BY <1>1, <2>2
  <2> QED
    BY <2>1, <2>3, Zenon
<1>4. ASSUME IsBranch(cfg, p[Len(p)]), m = p[Len(p)] + 1 PROVE Thens(q, c)
  <2>1. q[Len(p)] = p[Len(p)] /\ q[Len(p) + 1] = p[Len(p)] + 1
    BY <1>1, <1>4
  <2> QED
    BY <1>2, <1>3, <1>4, <2>1 DEF Thens
<1>5. Thens(q, b)
  BY <1>3 DEF Thens
<1> QED
  BY <1>4, <1>5 DEF q, c

LEMMA ThensCut ==
  ASSUME NEW N, NEW p \in Seq(N), NEW m \in N, NEW b \in Seq(Nat), b # << >>,
         LiesOn(b, p), Len(p) \in Nat, NEW q \in Seq(N), Len(q) = Len(p) + 1, Thens(q, b)
  PROVE  Thens(Append(SubSeq(q, 1, Last(b)), m), Front(b))
<1> DEFINE cut == Last(b)
           n == Len(b)
           r == SubSeq(q, 1, cut)
           t == Append(r, m)
           c == Front(b)
<1>1. /\ n \in Nat /\ n > 0 /\ DOMAIN b = 1 .. n
  OBVIOUS
<1>2. /\ c \in Seq(Nat) /\ Len(c) = n - 1 /\ cut = b[n]
      /\ \A k \in 1 .. n - 1 : c[k] = b[k]
  BY FrontProperties
<1>3. /\ cut \in 1 .. Len(p)
      /\ \A k \in 1 .. n - 1 : c[k] \in 1 .. cut
  <2>1. c = Front(b) /\ DOMAIN c = 1 .. n - 1
    BY <1>2
  <2> HIDE DEF c, cut, n
  <2>2. n \in DOMAIN b
    BY <1>1
  <2>3. cut \in 1 .. Len(p)
    BY <1>2, <2>2 DEF LiesOn
  <2>4. \A k \in DOMAIN Front(b) : Front(b)[k] \in 1 .. Last(b)
    BY FrontOfIncreasing DEF LiesOn
  <2> QED
    BY <2>1, <2>3, <2>4 DEF cut
<1> HIDE DEF cut, n
<1>4. \A k \in 1 .. n - 1 : c[k] < cut
  <2>1. \A k \in 1 .. n - 1 : k \in 1 .. n /\ n \in 1 .. n /\ k < n
    BY <1>1
  <2>2. \A k \in 1 .. n - 1 : b[k] < b[n]
    BY <1>1, <2>1 DEF LiesOn
  <2> QED
    BY <1>2, <2>2
<1>5. r \in Seq(N) /\ Len(r) = cut /\ \A i \in 1 .. cut : r[i] = q[i]
  <2>1. cut \in 0 .. Len(q)
    BY <1>3
  <2> QED
    BY <2>1, PrefixProperties
<1> HIDE DEF c, r
<1>6. \A i \in 1 .. cut : t[i] = q[i]
  BY <1>3, <1>5
<1> HIDE DEF t
<1>7. DOMAIN c = 1 .. n - 1
  BY <1>1, <1>2
<1>8. ASSUME NEW k \in 1 .. n - 1 PROVE IsBranch(cfg, t[c[k]]) /\ t[c[k] + 1] = t[c[k]] + 1
  <2>1. c[k] = b[k] /\ k \in DOMAIN b
    BY <1>1, <1>2
  <2>2. c[k] \in 1 .. cut /\ c[k] + 1 \in 1 .. cut
    BY <1>3, <1>4
  <2>3. t[c[k]] = q[b[k]] /\ t[c[k] + 1] = q[b[k] + 1]
    BY <1>6, <2>1, <2>2
  <2>4. IsBranch(cfg, q[b[k]]) /\ q[b[k] + 1] = q[b[k]] + 1
    BY <2>1 DEF Thens
  <2> QED
    BY <2>3, <2>4, Zenon
<1> QED
  BY <1>7, <1>8 DEF Thens, c, t, r, cut

LEMMA LoopThen ==
  ASSUME cfg' = cfg,
         search' = "running" => /\ operationArches' \in Seq(Codes)
                                /\ Heads(operationPath', whileIndex')
                                /\ Encoded(operationPath', whileIndex', operationArches')
                                /\ Thens(Append(operationPath', Last(stack')), branchingNodesIndex')
  PROVE  WhileInv'
BY DEF WhileInv, Codes, Heads, Encoded, Thens, PathSoFar, traverseNode

(* When the node is passed.                                                *)
LEMMA LoopPassed ==
  ASSUME IInv, WhileInv, search = "running"
  PROVE  /\ Heads(PathSoFar, WhileIndex)
         /\ Arches \in Seq(Codes) /\ Encoded(PathSoFar, WhileIndex, Arches)
<1>1. /\ operationPath \in Seq(Node(cfg)) /\ whileIndex \in Seq(Nat)
      /\ countWhile = Len(whileIndex) /\ traverseNode \in Node(cfg)
  BY TurnStarts DEF IInv, TypeOK, SearchInv
<1>2. /\ operationArches \in Seq(Codes) /\ Heads(operationPath, whileIndex)
      /\ Encoded(operationPath, whileIndex, operationArches)
  BY DEF WhileInv
<1>3. WhileIndex = IF traverseNode = whileNode(cfg) THEN Append(whileIndex, Len(operationPath))
                                                    ELSE whileIndex
  BY DEF WhileIndex, AtWhile
<1> DEFINE e == encodeArch(tempArch)
<1>4. Arches = IF traverseNode = whileNode(cfg) /\ Len(whileIndex) > 0
               THEN Append(operationArches, e) ELSE operationArches
  BY <1>1 DEF Arches, AtWhile
<1>5. Len(whileIndex) > 0 =>
        e \in Codes /\ e = encodeArch(SubSeq(operationPath, whileIndex[Len(whileIndex)] + 1,
                                             Len(operationPath)))
  <2> SUFFICES ASSUME Len(whileIndex) > 0
               PROVE  e \in Codes /\ e = encodeArch(SubSeq(operationPath,
                                             whileIndex[Len(whileIndex)] + 1, Len(operationPath)))
    OBVIOUS
  <2>1. tempArch = SubSeq(operationPath, whileIndex[Len(whileIndex)] + 1, Len(operationPath))
    BY DEF tempArch, Last
  <2>2. tempArch \in Seq(Node(cfg))
    <3> DEFINE l == whileIndex[Len(whileIndex)]
    <3>1. Len(whileIndex) \in DOMAIN whileIndex /\ l \in Nat
      BY <1>1
    <3>2. l < Len(operationPath)
      BY <1>2, <3>1 DEF Heads
    <3> HIDE DEF l
    <3>3. l + 1 \in 1 .. Len(operationPath) + 1 /\ Len(operationPath) \in 0 .. Len(operationPath)
      BY <1>1, <3>1, <3>2
    <3>4. SubSeq(operationPath, l + 1, Len(operationPath)) \in Seq(Node(cfg))
      BY <1>1, <3>3, SubSeqType
    <3> QED
      BY <2>1, <3>4 DEF l
  <2> QED
    BY <2>1, <2>2 DEF Codes
<1> HIDE DEF e
<1>6. Heads(PathSoFar, WhileIndex)
  BY <1>1, <1>2, <1>3, HeadsGrow DEF PathSoFar
<1>7. Arches \in Seq(Codes) /\ Encoded(PathSoFar, WhileIndex, Arches)
  BY <1>1, <1>2, <1>3, <1>4, <1>5, EncodedGrow DEF PathSoFar
<1> QED
  BY <1>6, <1>7

(* When the path is cut.                                                   *)
LEMMA LoopCut ==
  ASSUME IInv, WhileInv, search = "running", branchingNodesIndex # << >>, Retrace(PathSoFar),
         cfg' = cfg, stack' \in Seq(Node(cfg)), stack' # << >>
  PROVE  WhileInv'
<1> DEFINE b == branchingNodesIndex
           cut == Last(b)
           w == WhileIndex
           keep == CHOOSE k \in 0 .. Len(w) : /\ k = 0 \/ w[k] <= cut
                                              /\ \A j \in k + 1 .. Len(w) : w[j] > cut
<1>1. /\ PathSoFar \in Seq(Node(cfg)) /\ Len(PathSoFar) = Len(operationPath) + 1
      /\ Len(operationPath) \in Nat /\ operationPath \in Seq(Node(cfg))
      /\ w \in Seq(Nat) /\ b \in Seq(Nat)
  BY TurnStarts DEF IInv, TypeOK
<1>2. /\ cut \in 1 .. Len(operationPath)
      /\ operationPath' = SubSeq(PathSoFar, 1, cut) /\ b' = Front(b)
  BY RetraceLeaves
<1>3. Kept(w, cut, keep)
  <2>1. \E k \in 0 .. Len(w) : /\ k = 0 \/ w[k] <= cut
                               /\ \A j \in k + 1 .. Len(w) : w[j] > cut
    <3>1. cut \in Nat
      BY <1>2
    <3> HIDE DEF cut, w
    <3> QED
      BY <1>1, <3>1, KeepExists
  <2> HIDE DEF cut, w
  <2> QED
    BY <2>1, Zenon DEF Kept
<1>4. /\ whileIndex' = SubSeq(w, 1, keep)
      /\ operationArches' = IF Len(w) - keep < Len(Arches)
                            THEN SubSeq(Arches, 1, Len(Arches) - (Len(w) - keep)) ELSE << >>
  BY Zenon DEF Retrace
<1> HIDE DEF keep
<1>5. /\ LiesOn(b, operationPath) /\ Thens(PathSoFar, b)
  BY DEF IInv, SearchInv, LiesOn, WhileInv
<1>6. PathSoFar[cut + 1] # whileNode(cfg)
  <2>1. Len(b) \in DOMAIN b /\ cut = b[Len(b)]
    BY <1>1 DEF Last
  <2>2. IsBranch(cfg, PathSoFar[cut]) /\ PathSoFar[cut + 1] = PathSoFar[cut] + 1
    BY <1>5, <2>1 DEF Thens
  <2>3. PathSoFar[cut] \in Node(cfg)
    BY <1>1, <1>2
  <2>4. BranchesDecide(cfg)
    BY BranchesAssumption DEF IInv
  <2> QED
    BY <2>2, <2>3, <2>4 DEF BranchesDecide
<1>7. Heads(PathSoFar, w) /\ Arches \in Seq(Codes) /\ Encoded(PathSoFar, w, Arches)
  BY LoopPassed
<1>8. cut \in 1 .. Len(PathSoFar) - 1
  BY <1>1, <1>2
<1>9. Thens(Append(operationPath', Last(stack')), b')
  <2>1. Last(stack') \in Node(cfg)
    BY FrontProperties
  <2> QED
    BY <1>1, <1>2, <1>5, <2>1, ThensCut
<1> HIDE DEF w, b, cut
<1>10. Heads(operationPath', whileIndex')
  BY <1>1, <1>2, <1>3, <1>4, <1>6, <1>7, <1>8, HeadsCut
<1>11. operationArches' \in Seq(Codes) /\ Encoded(operationPath', whileIndex', operationArches')
  BY <1>1, <1>2, <1>3, <1>4, <1>6, <1>7, <1>8, EncodedCut
<1> QED
  BY <1>9, <1>10, <1>11, LoopThen DEF b

LEMMA InitWhileInv == Init => WhileInv
BY DEF Init, SearchInit, WhileInv

LEMMA LoopBeside ==
  ASSUME WhileInv, UNCHANGED << cfg, searchVars >>
  PROVE  WhileInv'
BY DEF WhileInv, Codes, Heads, Encoded, Thens, PathSoFar, traverseNode, searchVars, indexes

LEMMA LoopSearchState == IInv /\ SearchState => WhileInv'
<1> SUFFICES ASSUME IInv, SearchState PROVE WhileInv'
  OBVIOUS
<1>1. /\ operationPath' = << >> /\ branchingNodesIndex' = << >>
      /\ operationArches' = << >> /\ whileIndex' = << >> /\ cfg' = cfg
  BY DEF SearchState, Find
<1>2. /\ Heads(<< >>, << >>) /\ Encoded(<< >>, << >>, << >>) /\ << >> \in Seq(Codes)
      /\ Thens(Append(<< >>, Last(stack')), << >>)
  BY DEF Heads, Encoded, Thens
<1> QED
  BY <1>1, <1>2, LoopThen

LEMMA LoopFinish ==
  ASSUME IInv, PathsInv, WhileInv, Finish, UNCHANGED cfg
  PROVE  WhileInv'
<1>1. /\ search = "running" /\ stack' = Front(stack) /\ Turn
  BY DEF Finish
<1>2. CASE branchingNodesIndex # << >>
  <2>1. Retrace(PathSoFar)
    BY <1>2 DEF Finish
  <2>2. stack' \in Seq(Node(cfg)) /\ stack' # << >>
    <3>1. Front(stack) \in Seq(Node(cfg)) /\ Len(Front(stack)) = Len(stack) - 1
      BY <1>1, TurnStarts
    <3>2. Len(stack) = Len(branchingNodesIndex) + 1 /\ branchingNodesIndex \in Seq(Nat)
      BY <1>1 DEF PathsInv, StackFitsPath, IInv, TypeOK
    <3>3. Len(branchingNodesIndex) \in Nat /\ Len(branchingNodesIndex) > 0
      BY <1>2, <3>2
    <3> QED
      BY <1>1, <3>1, <3>2, <3>3
  <2> QED
    BY <1>1, <1>2, <2>1, <2>2, LoopCut
<1>3. CASE branchingNodesIndex = << >>
  <2>1. Len(stack) = 1
    BY <1>1, <1>3 DEF PathsInv, StackFitsPath
  <2>2. search' = "finished"
    BY <1>1, <2>1, TurnStarts DEF Turn
  <2> QED
    BY <2>2 DEF WhileInv
<1> QED
  BY <1>2, <1>3

(* What Branch and Follow share. *)
LEMMA LoopVisit ==
  ASSUME IInv, WhileInv, Visit, UNCHANGED cfg,
         Last(stack') \in Node(cfg),
         \/ branchingNodesIndex' = branchingNodesIndex
         \/ /\ branchingNodesIndex' = Append(branchingNodesIndex, Len(PathSoFar))
            /\ IsBranch(cfg, traverseNode) /\ Last(stack') = traverseNode + 1
  PROVE  WhileInv'
<1> DEFINE b == branchingNodesIndex
<1>1. /\ search = "running" /\ operationPath' = PathSoFar
      /\ whileIndex' = WhileIndex /\ operationArches' = Arches
  BY DEF Visit
<1>2. /\ PathSoFar \in Seq(Node(cfg)) /\ Len(PathSoFar) = Len(operationPath) + 1
      /\ PathSoFar[Len(PathSoFar)] = traverseNode
      /\ Len(operationPath) \in Nat /\ b \in Seq(Nat)
  BY <1>1, TurnStarts DEF IInv, TypeOK
<1>3. Heads(PathSoFar, WhileIndex) /\ Arches \in Seq(Codes) /\ Encoded(PathSoFar, WhileIndex, Arches)
  BY <1>1, LoopPassed
<1>4. Thens(Append(PathSoFar, Last(stack')), b')
  <2>1. Thens(PathSoFar, b)
    BY <1>1 DEF WhileInv
  <2>2. \A k \in DOMAIN b : b[k] \in 1 .. Len(PathSoFar) - 1
    <3>1. \A k \in DOMAIN b : b[k] \in 1 .. Len(operationPath)
      BY <1>1 DEF IInv, SearchInv
    <3> QED
      BY <1>2, <3>1
  <2>3. Len(PathSoFar) > 0
    BY <1>2
  <2>4. /\ Thens(Append(PathSoFar, Last(stack')), b)
        /\ IsBranch(cfg, PathSoFar[Len(PathSoFar)]) /\ Last(stack') = PathSoFar[Len(PathSoFar)] + 1
             => Thens(Append(PathSoFar, Last(stack')), Append(b, Len(PathSoFar)))
    BY <1>2, <2>1, <2>2, <2>3, ThensGrow
  <2> QED
    BY <1>2, <2>4
<1> QED
  BY <1>1, <1>3, <1>4, LoopThen

LEMMA LoopBranch ==
  ASSUME IInv, PathsInv, WhileInv, Branch, UNCHANGED cfg
  PROVE  WhileInv'
<1> DEFINE b == branchingNodesIndex
           m1 == Succ(cfg, traverseNode)[1]
           m2 == Succ(cfg, traverseNode)[2]
           f == Front(stack)
<1>1. /\ Visit /\ search = "running" /\ IsBranch(cfg, traverseNode)
      /\ stack' = f \o (Pushed(2) \o Pushed(1))
      /\ b' = IF Len(Pushed(2) \o Pushed(1)) > 1 THEN Append(b, Len(PathSoFar)) ELSE b
  BY DEF Branch, Visit
<1>2. /\ m1 \in Node(cfg) /\ m2 \in Node(cfg) /\ f \in Seq(Node(cfg)) /\ traverseNode \in Node(cfg)
  BY <1>1, PushedFollows, TurnStarts
<1>3. reachable(m1) \/ reachable(m2)
  <2>1. /\ PathSoFar \in Seq(Node(cfg)) /\ PathSoFar # << >> /\ Last(PathSoFar) = traverseNode
    <3>1. Len(operationPath) \in Nat
      BY DEF IInv, TypeOK
    <3> QED
      BY <1>1, <3>1, TurnStarts DEF Last
  <2>2. Follows(PathSoFar)
    BY <1>1 DEF PathsInv, StackFitsPath
  <2> QED
    BY <1>1, <2>1, <2>2, OneWayOpen DEF reachable
<1>4. /\ Pushed(1) = IF reachable(m1) THEN << m1 >> ELSE << >>
      /\ Pushed(2) = IF reachable(m2) THEN << m2 >> ELSE << >>
  BY DEF Pushed
<1>5. m1 = traverseNode + 1
  <2>1. BranchesDecide(cfg)
    BY BranchesAssumption DEF IInv
  <2> QED
    BY <1>1, <1>2, <2>1 DEF BranchesDecide
<1> HIDE DEF m1, m2, f
<1>6. ASSUME NEW m \in Node(cfg), Pushed(2) \o Pushed(1) = << m >> PROVE WhileInv'
  <2>1. f \o << m >> = Append(f, m) /\ ~ (Len(<< m >>) > 1)
    BY <1>2, <1>6, PushedTwo, PushedOne
  <2>2. stack' = Append(f, m) /\ b' = b
    BY <1>1, <1>6, <2>1
  <2>3. Last(stack') = m
    BY <1>2, <2>2 DEF Last
  <2> QED
    BY <1>1, <2>2, <2>3, LoopVisit
<1>7. CASE reachable(m1) /\ reachable(m2)
  <2>1. Pushed(2) = << m2 >> /\ Pushed(1) = << m1 >>
    BY <1>4, <1>7
  <2>2. /\ Len(<< m2 >> \o << m1 >>) = 2
        /\ f \o (<< m2 >> \o << m1 >>) = Append(Append(f, m2), m1)
    BY <1>2, PushedTwo
  <2>3. /\ stack' = f \o (<< m2 >> \o << m1 >>)
        /\ b' = IF Len(<< m2 >> \o << m1 >>) > 1 THEN Append(b, Len(PathSoFar)) ELSE b
    BY <1>1, <2>1, Zenon
  <2>4. 2 > 1
    OBVIOUS
  <2>5. stack' = Append(Append(f, m2), m1) /\ b' = Append(b, Len(PathSoFar))
    BY <2>2, <2>3, <2>4, Zenon
  <2>6. Last(stack') = m1
    BY <1>2, <2>5 DEF Last
  <2> QED
    BY <1>1, <1>2, <1>5, <2>5, <2>6, LoopVisit
<1>8. CASE reachable(m1) /\ ~ reachable(m2)
  <2>1. Pushed(2) \o Pushed(1) = << m1 >>
    BY <1>4, <1>8, PushedOne
  <2> QED
    BY <1>2, <1>6, <2>1
<1>9. CASE ~ reachable(m1) /\ reachable(m2)
  <2>1. Pushed(2) \o Pushed(1) = << m2 >>
    BY <1>4, <1>9, PushedOne
  <2> QED
    BY <1>2, <1>6, <2>1
<1> QED
  BY <1>3, <1>7, <1>8, <1>9

LEMMA LoopFollow ==
  ASSUME IInv, WhileInv, Follow, UNCHANGED cfg
  PROVE  WhileInv'
<1> DEFINE m == Succ(cfg, traverseNode)[1]
<1>1. /\ Visit /\ search = "running"
      /\ stack' = Append(Front(stack), m) /\ branchingNodesIndex' = branchingNodesIndex
  BY DEF Follow, Visit
<1>2. m \in Node(cfg) /\ Front(stack) \in Seq(Node(cfg))
  BY <1>1, TurnStarts, Successors
<1> HIDE DEF m
<1>3. Last(stack') = m
  BY <1>1, <1>2 DEF Last
<1> QED
  BY <1>1, <1>2, <1>3, LoopVisit

LEMMA NextWhileInv == IInv /\ PathsInv /\ WhileInv /\ [Next]_vars => WhileInv'
<1> SUFFICES ASSUME IInv, PathsInv, WhileInv, [Next]_vars PROVE WhileInv'
  OBVIOUS
<1>1. CASE ColorInitial \/ RoundStart \/ AllSearched \/ InvalidPath
            \/ CheckNothing \/ CheckSlaves \/ CheckMasters \/ Stopped \/ UNCHANGED vars
  <2>1. UNCHANGED << cfg, searchVars >>
    BY <1>1 DEF ColorInitial, RoundStart, AllSearched, InvalidPath, CheckNothing, CheckSlaves,
                CheckMasters, Stopped, vars
  <2> QED
    BY <2>1, LoopBeside
<1>2. CASE SearchState
  BY <1>2, LoopSearchState
<1>3. CASE SearchStep
  <2>1. UNCHANGED cfg
    BY <1>3 DEF SearchStep, Iterate
  <2>2. CASE Spurious
    BY <2>2 DEF Spurious, WhileInv
  <2> QED
    BY <1>3, <2>1, <2>2, LoopFinish, LoopBranch, LoopFollow DEF SearchStep, Iterate
<1>4. CASE KeepOperation \/ StateSearched \/ ProcessSpurious
  BY <1>4 DEF KeepOperation, StateSearched, ProcessSpurious, WhileInv
<1> QED
  BY <1>1, <1>2, <1>3, <1>4 DEF Next

LEMMA WhileInvariance == Spec => []WhileInv
<1>1. Spec => [](IInv /\ PathsInv)
  BY Invariance, PathsInvariance, PTL
<1>2. IInv /\ PathsInv /\ WhileInv /\ [Next]_vars => WhileInv'
  BY NextWhileInv
<1> QED
  BY <1>1, <1>2, InitWhileInv, PTL DEF Spec

LEMMA LoopHeadsListed == IInv /\ WhileInv => WhileIndexFitsPath
BY DEF IInv, SearchInv, WhileInv, WhileIndexFitsPath, Heads, Encoded

(* The indexes of the loop's head point at the loop's head, also after the  *)
(* search went back, and there is a code for every turn between them.      *)
THEOREM LoopIndexesFit == Spec => []WhileIndexFitsPath
BY LoopHeadsListed, Invariance, WhileInvariance, PTL

-----------------------------------------------------------------------------
(* Giving up.  The code of the last turn is the code of an earlier one.    *)
TurnNodes(p, t) == SubSeq(p, t[1], t[2] - 1)

(* The turns that a program's loop can make.                               *)
LoopTurns(g) == {q \in Seq(Node(g)) :
                   /\ q # << >> /\ q[1] = whileNode(g)
                   /\ \A i \in 2 .. Len(q) : q[i] # whileNode(g)
                   /\ \A i \in 1 .. Len(q) - 1 : q[i + 1] \in Range(Succ(g, q[i]))}

CodeRepeats ==
  search = "spurious" =>
    \E a, b \in Turns(spuriousPath) :
      /\ a # b /\ b[2] = Len(spuriousPath) + 1
      /\ TurnNodes(spuriousPath, a) \in LoopTurns(cfg)
      /\ TurnNodes(spuriousPath, b) \in LoopTurns(cfg)
      /\ encodeArch(TurnNodes(spuriousPath, a)) = encodeArch(TurnNodes(spuriousPath, b))

LEMMA TurnsAreLoopTurns ==
  ASSUME NEW p \in Seq(Node(cfg)), NEW t \in Turns(p),
         \A i \in 1 .. Len(p) - 1 : p[i + 1] \in Range(Succ(cfg, p[i]))
  PROVE  TurnNodes(p, t) \in LoopTurns(cfg)
<1> DEFINE first == t[1]
           next == t[2]
           m == next - first
           q == TurnNodes(p, t)
<1>1. /\ first \in Nat /\ next \in Nat /\ first < next /\ next <= Len(p) + 1
      /\ first >= 1 /\ Len(p) \in Nat /\ p[first] = whileNode(cfg)
      /\ \A i \in 1 .. Len(p) : p[i] = whileNode(cfg) => ~ (first < i /\ i < next)
  <2>1. DOMAIN p = 1 .. Len(p) /\ Len(p) \in Nat
    OBVIOUS
  <2> QED
    BY <2>1 DEF Turns
<1> HIDE DEF first, next
<1>2. m \in Nat /\ m >= 1
  BY <1>1
<1>3. /\ q \in Seq(Node(cfg)) /\ Len(q) = m
      /\ \A i \in 1 .. m : q[i] = p[first + i - 1]
  <2>1. q = SubSeq(p, first, next - 1)
    BY DEF TurnNodes, first, next
  <2>2. first \in 1 .. Len(p) + 1 /\ next - 1 \in 0 .. Len(p)
    BY <1>1
  <2>3. SubSeq(p, first, next - 1) \in Seq(Node(cfg))
    BY <2>2, SubSeqType
  <2> QED
    BY <1>1, <2>1, <2>2, <2>3
<1> HIDE DEF q
<1>4. q # << >> /\ q[1] = whileNode(cfg)
  BY <1>1, <1>2, <1>3
<1>5. ASSUME NEW i \in 2 .. Len(q) PROVE q[i] # whileNode(cfg)
  <2>1. /\ first + i - 1 \in 1 .. Len(p) /\ first < first + i - 1 /\ first + i - 1 < next
        /\ i \in 1 .. m
    BY <1>1, <1>2, <1>3
  <2> QED
    BY <1>1, <1>3, <2>1
<1>6. ASSUME NEW i \in 1 .. Len(q) - 1 PROVE q[i + 1] \in Range(Succ(cfg, q[i]))
  <2>1. /\ first + i - 1 \in 1 .. Len(p) - 1 /\ i \in 1 .. m /\ i + 1 \in 1 .. m
        /\ first + (i + 1) - 1 = (first + i - 1) + 1
    BY <1>1, <1>2, <1>3
  <2> QED
    BY <1>3, <2>1
<1> QED
  BY <1>3, <1>4, <1>5, <1>6 DEF LoopTurns, q

(* The turns that the indexes list. *)
LEMMA ListedTurns ==
  ASSUME NEW N, NEW p \in Seq(N), NEW w \in Seq(Nat), Heads(p, w), NEW k \in 1 .. Len(w)
  PROVE  LET next == IF k = Len(w) THEN Len(p) + 1 ELSE w[k + 1] + 1
         IN  /\ << w[k] + 1, next >> \in Turns(p)
             /\ SubSeq(p, w[k] + 1, next - 1) \in Seq(N)
<1> DEFINE n == Len(w)
           first == w[k] + 1
           next == IF k = n THEN Len(p) + 1 ELSE w[k + 1] + 1
           heads == {i \in DOMAIN p : p[i] = whileNode(cfg)} \cup {Len(p) + 1}
<1>1. /\ n \in Nat /\ DOMAIN w = 1 .. n /\ \A j \in 1 .. n : w[j] \in Nat
      /\ Len(p) \in Nat /\ DOMAIN p = 1 .. Len(p)
  OBVIOUS
<1>2. /\ \A j \in 1 .. n : w[j] < Len(p) /\ p[w[j] + 1] = whileNode(cfg)
      /\ \A i, j \in 1 .. n : i < j => w[i] < w[j]
      /\ \A i \in 1 .. Len(p) : p[i] = whileNode(cfg) => \E j \in 1 .. n : w[j] + 1 = i
  BY <1>1 DEF Heads
<1>2a. n \in Nat /\ k \in 1 .. n
  BY <1>1
<1> HIDE DEF n
<1>3. \A j \in 1 .. n : w[j] + 1 \in heads
  <2> SUFFICES ASSUME NEW j \in 1 .. n PROVE w[j] + 1 \in heads
    OBVIOUS
  <2>1. w[j] + 1 \in 1 .. Len(p) /\ p[w[j] + 1] = whileNode(cfg)
    BY <1>1, <1>2
  <2> QED
    BY <1>1, <2>1
<1>3a. k = n \/ k + 1 \in 1 .. n
  BY <1>2a
<1>5. /\ first \in heads /\ next \in heads
      /\ first \in 1 .. Len(p) /\ next \in Nat /\ first < next /\ next <= Len(p) + 1
  <2>1. w[k] \in Nat /\ w[k] < Len(p) /\ first \in heads
    BY <1>1, <1>2, <1>3, <1>2a
  <2>2. CASE k = n
    BY <1>1, <2>1, <2>2
  <2>3. CASE k # n
    <3>1. k + 1 \in 1 .. n /\ k < k + 1 /\ next = w[k + 1] + 1
      BY <1>1, <1>2a, <1>3a, <2>3
    <3>2. w[k + 1] \in Nat /\ w[k + 1] < Len(p) /\ w[k] < w[k + 1] /\ next \in heads
      BY <1>1, <1>2, <1>3, <1>2a, <3>1
    <3> QED
      BY <1>1, <2>1, <3>1, <3>2, SMTT(30)
  <2> QED
    BY <2>2, <2>3
<1>6. ASSUME NEW i \in heads, first < i PROVE ~ (i < next)
  <2>1. CASE i = Len(p) + 1
    BY <1>1, <1>5, <2>1
  <2>2. CASE i \in 1 .. Len(p) /\ p[i] = whileNode(cfg)
    <3>1. PICK j \in 1 .. n : w[j] + 1 = i
      BY <1>2, <2>2
    <3>2. k < j
      <4>1. w[k] < w[j] /\ w[k] \in Nat /\ w[j] \in Nat
        BY <1>1, <1>2a, <1>6, <3>1
      <4>2. ~ (j < k) /\ j # k
        BY <1>2, <1>2a, <4>1, SMTT(30)
      <4> QED
        BY <1>1, <1>2a, <4>2
    <3>3. k # n /\ k + 1 \in 1 .. n /\ (k + 1 < j \/ k + 1 = j)
      BY <1>1, <1>2a, <1>3a, <3>2
    <3>4. w[k + 1] \in Nat /\ w[j] \in Nat /\ w[k + 1] <= w[j]
      BY <1>1, <1>2, <3>1, <3>3, SMTT(30)
    <3> QED
      BY <3>1, <3>3, <3>4
  <2> QED
    BY <1>1, <2>1, <2>2
<1>7. SubSeq(p, first, next - 1) \in Seq(N)
  <2>1. first \in 1 .. Len(p) + 1 /\ next - 1 \in 0 .. Len(p)
    BY <1>1, <1>5, SMTT(30)
  <2> HIDE DEF first, next
  <2> QED
    BY <2>1, SubSeqType
<1> HIDE DEF first, next
<1>8. << first, next >> \in Turns(p)
  <2> DEFINE t == << first, next >>
  <2>1. t \in heads \X heads /\ t[1] = first /\ t[2] = next
    BY <1>5
  <2> HIDE DEF t, heads
  <2>2. t[1] < t[2] /\ \A i \in heads : ~ (t[1] < i /\ i < t[2])
    BY <1>5, <1>6, <2>1, Zenon
  <2> QED
    BY <2>1, <2>2, Zenon DEF Turns, t, heads
<1> QED
  BY <1>7, <1>8 DEF first, next, n

LEMMA SpuriousCodeRepeats ==
  ASSUME IInv, PathsInv, WhileInv, Spurious, UNCHANGED cfg
  PROVE  CodeRepeats'
<1> DEFINE p == operationPath
           w == whileIndex
           n == Len(whileIndex)
<1>1. /\ search = "running" /\ spuriousPath' = p /\ search' = "spurious"
      /\ AtWhile /\ countWhile > 0
      /\ encodeArch(tempArch) \in Range(operationArches)
  BY DEF Spurious, FixedPoint
<1>2. /\ p \in Seq(Node(cfg)) /\ w \in Seq(Nat) /\ n \in Nat /\ n > 0
      /\ \A k \in 1 .. n : w[k] \in Nat
  <2>1. p \in Seq(Node(cfg)) /\ w \in Seq(Nat) /\ countWhile = n
    BY <1>1 DEF IInv, TypeOK, SearchInv
  <2>2. n \in Nat /\ n > 0
    BY <1>1, <2>1
  <2>3. DOMAIN w = 1 .. n
    BY <2>1
  <2> QED
    BY <2>1, <2>2, <2>3
<1>3. /\ Heads(p, w) /\ Len(operationArches) = n - 1 /\ operationArches \in Seq(Codes)
      /\ \A k \in 1 .. n - 1 : operationArches[k] = encodeArch(SubSeq(p, w[k] + 1, w[k + 1]))
  BY <1>1, <1>2 DEF WhileInv, Encoded
<1>4. PICK k \in 1 .. n - 1 : encodeArch(tempArch) = operationArches[k]
  <2>1. DOMAIN operationArches = 1 .. n - 1
    BY <1>3
  <2> QED
    BY <1>1, <2>1 DEF Range
<1>5. tempArch = SubSeq(p, w[n] + 1, Len(p))
  BY DEF tempArch, Last
<1> HIDE DEF p, w, n
<1>5a. \A i \in 1 .. Len(p) - 1 : p[i + 1] \in Range(Succ(cfg, p[i]))
  <2>1. PICK m \in Node(cfg) : m = traverseNode
    BY <1>1, TurnStarts
  <2>2. \A i \in 1 .. Len(Append(p, m)) - 1 :
          Append(p, m)[i + 1] \in Range(Succ(cfg, Append(p, m)[i]))
    BY <1>1, <2>1 DEF PathsInv, StackFitsPath, Follows, PathSoFar, p
  <2>3. /\ Len(p) \in Nat /\ Len(Append(p, m)) = Len(p) + 1
        /\ \A i \in 1 .. Len(p) : Append(p, m)[i] = p[i]
    BY <1>2
  <2> QED
    BY <2>2, <2>3
<1> DEFINE a == << w[k] + 1, w[k + 1] + 1 >>
           b == << w[n] + 1, Len(p) + 1 >>
<1>6. k \in 1 .. n /\ k + 1 \in 1 .. n /\ k # n /\ n \in 1 .. n /\ k < n
  BY <1>2, <1>4
<1>7. /\ w[k] \in Nat /\ w[k + 1] \in Nat /\ w[n] \in Nat /\ Len(p) \in Nat
      /\ w[k] < w[n]
  <2>1. w[k] < w[n]
    <3>1. k \in DOMAIN w /\ n \in DOMAIN w
      BY <1>2, <1>6 DEF n, w
    <3> QED
      BY <1>3, <1>6, <3>1 DEF Heads
  <2> QED
    BY <1>2, <1>6, <2>1
<1>8. a \in Turns(p) /\ SubSeq(p, w[k] + 1, (w[k + 1] + 1) - 1) \in Seq(Node(cfg))
  <2>1. k \in 1 .. Len(w) /\ k # Len(w)
    BY <1>6 DEF n, w
  <2> QED
    BY <1>2, <1>3, <2>1, ListedTurns
<1>9. b \in Turns(p) /\ SubSeq(p, w[n] + 1, (Len(p) + 1) - 1) \in Seq(Node(cfg))
  <2>1. n \in 1 .. Len(w) /\ n = Len(w)
    BY <1>6 DEF n, w
  <2> QED
    BY <1>2, <1>3, <2>1, ListedTurns
<1>10. /\ TurnNodes(p, a) = SubSeq(p, w[k] + 1, (w[k + 1] + 1) - 1)
       /\ TurnNodes(p, b) = SubSeq(p, w[n] + 1, (Len(p) + 1) - 1)
  BY DEF TurnNodes
<1>11. (w[k + 1] + 1) - 1 = w[k + 1] /\ (Len(p) + 1) - 1 = Len(p)
  BY <1>7
<1>12. encodeArch(TurnNodes(p, a)) = encodeArch(TurnNodes(p, b))
  <2>1. TurnNodes(p, a) = SubSeq(p, w[k] + 1, w[k + 1]) /\ TurnNodes(p, b) = tempArch
    BY <1>5, <1>10, <1>11, Zenon
  <2> QED
    BY <1>3, <1>4, <2>1, Zenon
<1>13. a # b /\ b[2] = Len(p) + 1
  BY <1>7
<1> HIDE DEF a, b
<1>13a. TurnNodes(p, a) \in LoopTurns(cfg) /\ TurnNodes(p, b) \in LoopTurns(cfg)
  BY <1>2, <1>8, <1>9, <1>5a, TurnsAreLoopTurns
<1>14. \E x, y \in Turns(p) :
         /\ x # y /\ y[2] = Len(p) + 1
         /\ TurnNodes(p, x) \in LoopTurns(cfg) /\ TurnNodes(p, y) \in LoopTurns(cfg)
         /\ encodeArch(TurnNodes(p, x)) = encodeArch(TurnNodes(p, y))
  BY <1>8, <1>9, <1>12, <1>13, <1>13a, Zenon
<1>15. spuriousPath' = p /\ cfg' = cfg
  BY <1>1
<1>16. Turns(spuriousPath)' = Turns(p)
  BY <1>15 DEF Turns
<1>17. \A t : TurnNodes(spuriousPath, t)' = TurnNodes(p, t)
  BY <1>15 DEF TurnNodes
<1> QED
  <2>1. \E x, y \in Turns(spuriousPath)' :
          /\ x # y /\ y[2] = Len(spuriousPath') + 1
          /\ TurnNodes(spuriousPath, x)' \in LoopTurns(cfg')
          /\ TurnNodes(spuriousPath, y)' \in LoopTurns(cfg')
          /\ encodeArch(TurnNodes(spuriousPath, x)') = encodeArch(TurnNodes(spuriousPath, y)')
    BY <1>14, <1>15, <1>16, <1>17, Zenon
  <2> QED
    BY <2>1 DEF CodeRepeats, TurnNodes, Turns, LoopTurns

LEMMA NextCodeRepeats == IInv /\ PathsInv /\ WhileInv /\ CodeRepeats /\ [Next]_vars => CodeRepeats'
<1> SUFFICES ASSUME IInv, PathsInv, WhileInv, CodeRepeats, [Next]_vars PROVE CodeRepeats'
  OBVIOUS
<1>1. CASE search' = "spurious" /\ search = "spurious" /\ UNCHANGED << cfg, spuriousPath >>
  <2> SUFFICES \E a, b \in Turns(spuriousPath)' :
                 /\ a # b /\ b[2] = Len(spuriousPath') + 1
                 /\ TurnNodes(spuriousPath, a)' \in LoopTurns(cfg')
                 /\ TurnNodes(spuriousPath, b)' \in LoopTurns(cfg')
                 /\ encodeArch(TurnNodes(spuriousPath, a)')
                      = encodeArch(TurnNodes(spuriousPath, b)')
    BY DEF CodeRepeats, TurnNodes, Turns, LoopTurns
  <2>1. Turns(spuriousPath)' = Turns(spuriousPath)
    BY <1>1 DEF Turns
  <2>2. \A t : TurnNodes(spuriousPath, t)' = TurnNodes(spuriousPath, t)
    BY <1>1 DEF TurnNodes
  <2>3. \E a, b \in Turns(spuriousPath) :
          /\ a # b /\ b[2] = Len(spuriousPath) + 1
          /\ TurnNodes(spuriousPath, a) \in LoopTurns(cfg)
          /\ TurnNodes(spuriousPath, b) \in LoopTurns(cfg)
          /\ encodeArch(TurnNodes(spuriousPath, a)) = encodeArch(TurnNodes(spuriousPath, b))
    BY <1>1, Zenon DEF CodeRepeats
  <2>4. spuriousPath' = spuriousPath /\ cfg' = cfg
    BY <1>1
  <2> QED
    BY <2>1, <2>2, <2>3, <2>4, Zenon
<1>2. CASE search' # "spurious"
  BY <1>2 DEF CodeRepeats
<1>3. CASE Spurious /\ UNCHANGED cfg
  BY <1>3, SpuriousCodeRepeats
<1>4. CASE ColorInitial \/ RoundStart \/ AllSearched \/ InvalidPath
            \/ CheckNothing \/ CheckSlaves \/ CheckMasters \/ Stopped \/ UNCHANGED vars
  <2>1. UNCHANGED << cfg, searchVars >>
    BY <1>4 DEF ColorInitial, RoundStart, AllSearched, InvalidPath, CheckNothing, CheckSlaves,
                CheckMasters, Stopped, vars
  <2>2. UNCHANGED << cfg, spuriousPath, search >>
    BY <2>1 DEF searchVars
  <2> QED
    BY <1>1, <1>2, <2>2
<1>5. CASE SearchState
  BY <1>2, <1>5 DEF SearchState, Find
<1>6. CASE SearchStep
  BY <1>2, <1>3, <1>6 DEF SearchStep, Iterate, Finish, Branch, Follow, Turn
<1>7. CASE KeepOperation \/ StateSearched \/ ProcessSpurious
  BY <1>1, <1>2, <1>7 DEF KeepOperation, StateSearched, ProcessSpurious
<1> QED
  BY <1>4, <1>5, <1>6, <1>7 DEF Next

(* No two turns that a program's loop can make have the same code.         *)
EncodingTellsApart ==
  \A g \in Programs : \A p, q \in LoopTurns(g) : encodeArch(p) = encodeArch(q) => p = q

(* The search gives up only on a path whose last turn of the loop is a      *)
(* repetition of an earlier one, provided that the codes tell turns apart.  *)
THEOREM GivesUpOnRepetition == EncodingTellsApart => (Spec => []SpuriousRepeats)
<1>1. Init => CodeRepeats
  BY DEF Init, SearchInit, CodeRepeats
<1>2. IInv /\ PathsInv /\ WhileInv /\ CodeRepeats /\ [Next]_vars => CodeRepeats'
  BY NextCodeRepeats
<1>3. Spec => [](IInv /\ CodeRepeats)
  BY <1>1, <1>2, Invariance, PathsInvariance, WhileInvariance, PTL DEF Spec
<1> SUFFICES ASSUME EncodingTellsApart PROVE Spec => []SpuriousRepeats
  OBVIOUS
<1>4. IInv /\ CodeRepeats => SpuriousRepeats
  <2> SUFFICES ASSUME IInv, CodeRepeats, search = "spurious"
               PROVE  \E a, b \in Turns(spuriousPath) :
                        /\ a # b /\ b[2] = Len(spuriousPath) + 1
                        /\ TurnNodes(spuriousPath, a) = TurnNodes(spuriousPath, b)
    BY DEF SpuriousRepeats, TurnNodes
  <2>1. cfg \in Programs
    BY DEF IInv
  <2> QED
    BY <2>1, Zenon DEF CodeRepeats, EncodingTellsApart
<1> QED
  BY <1>3, <1>4, PTL

-----------------------------------------------------------------------------
(* Slaves.  What CheckSlaves lets through serves each slave port once: as   *)
(* many communications as ports, and none of the ports left out.           *)

(* As many things as they have values, and a value each: all different.    *)
LEMMA OnceEach ==
  ASSUME NEW I, IsFiniteSet(I), NEW f, DOMAIN f = I,
         Cardinality(I) = Cardinality({f[i] : i \in I})
  PROVE  \A i, j \in I : f[i] = f[j] => i = j
<1> DEFINE P == {f[i] : i \in I}
           g == [i \in I |-> f[i]]
<1>1. g \in Surjection(I, P)
  BY DEF Surjection
<1>2. g \in Injection(I, P)
  BY <1>1, FS_Surjection
<1> QED
  BY <1>2 DEF Injection, IsInjective

LEMMA SlavesOnce ==
  ASSUME cfg \in Programs, NEW path \in Seq(Node(cfg)), checkSlavesOrder(path)
  PROVE  LET port(i) == Port(cfg, path[i])
         IN  /\ {port(i) : i \in pathSlaves(path)} = slaveIn(cfg) \cup slaveOut(cfg)
             /\ \A i, j \in pathSlaves(path) :
                  i < j => /\ port(i) # port(j)
                           /\ port(j) \in slaveIn(cfg) => port(i) \in slaveIn(cfg)
<1> DEFINE S == pathSlaves(path)
           f == [i \in S |-> Port(cfg, path[i])]
           In == {i \in S : f[i] \in slaveIn(cfg)}
           Out == {i \in S : f[i] \in slaveOut(cfg)}
<1>1. Len(path) \in Nat /\ DOMAIN path = 1 .. Len(path) /\ \A i \in 1 .. Len(path) : path[i] \in Node(cfg)
  OBVIOUS
<1>2. S \subseteq 1 .. Len(path) /\ IsFiniteSet(S)
  <2>1. S \subseteq 1 .. Len(path)
    BY <1>1 DEF pathSlaves
  <2>2. IsFiniteSet(1 .. Len(path))
    BY <1>1, FS_Interval
  <2> HIDE DEF S
  <2> QED
    BY <2>1, <2>2, FS_Subset
<1>3. IsFiniteSet(In) /\ IsFiniteSet(Out)
  BY <1>2, FS_Subset
<1>4. \A i \in S : f[i] \in slaveIn(cfg) \cup slaveOut(cfg)
  <2> SUFFICES ASSUME NEW i \in S PROVE Port(cfg, path[i]) \in slaveIn(cfg) \cup slaveOut(cfg)
    OBVIOUS
  <2>1. path[i] \in Node(cfg) /\ IsSlave(cfg, path[i])
    BY <1>1 DEF pathSlaves
  <2>2. IsComm(cfg, path[i]) /\ cfg.ports[Port(cfg, path[i])] \in {"slave in", "slave out"}
    BY <2>1 DEF IsSlave, Port
  <2>3. Port(cfg, path[i]) \in DOMAIN cfg.ports
    BY <2>1, <2>2, ProgramsAssumption DEF ProgramsAreGraphs
  <2> QED
    BY <2>2, <2>3 DEF slaveIn, slaveOut
<1>5. slaveIn(cfg) \cap slaveOut(cfg) = {}
  BY DEF slaveIn, slaveOut
<1>6. /\ \A k \in S : countIns(path, k) < Cardinality(slaveIn(cfg)) => countOuts(path, k) = 0
      /\ countIns(path, Len(path)) = Cardinality(slaveIn(cfg))
      /\ countOuts(path, Len(path)) = Cardinality(slaveOut(cfg))
      /\ \A p \in slaveIn(cfg) \cup slaveOut(cfg) :
           Cardinality({i \in S : Port(cfg, path[i]) = p}) % 2 = 1
  BY DEF checkSlavesOrder, flips
<1>7. \A p \in slaveIn(cfg) \cup slaveOut(cfg) : \E i \in S : f[i] = p
  <2> SUFFICES ASSUME NEW p \in slaveIn(cfg) \cup slaveOut(cfg), {i \in S : Port(cfg, path[i]) = p} = {}
               PROVE  FALSE
    OBVIOUS
  <2>1. Cardinality({i \in S : Port(cfg, path[i]) = p}) = 0
    BY FS_EmptySet
  <2> QED
    BY <1>6, <2>1
<1>8. Cardinality(In) = Cardinality(slaveIn(cfg)) /\ Cardinality(Out) = Cardinality(slaveOut(cfg))
  <2>1. /\ In = {i \in S : i <= Len(path) /\ Port(cfg, path[i]) \in slaveIn(cfg)}
        /\ Out = {i \in S : i <= Len(path) /\ Port(cfg, path[i]) \in slaveOut(cfg)}
    BY <1>1, <1>2
  <2> QED
    BY <1>6, <2>1 DEF countIns, countOuts
<1>9. \A k \in S : /\ countIns(path, k) = Cardinality({i \in In : i <= k})
                   /\ countOuts(path, k) = Cardinality({i \in Out : i <= k})
  <2> SUFFICES ASSUME NEW k \in S
               PROVE  /\ countIns(path, k) = Cardinality({i \in In : i <= k})
                      /\ countOuts(path, k) = Cardinality({i \in Out : i <= k})
    OBVIOUS
  <2>1. /\ {i \in In : i <= k} = {i \in S : i <= k /\ Port(cfg, path[i]) \in slaveIn(cfg)}
        /\ {i \in Out : i <= k} = {i \in S : i <= k /\ Port(cfg, path[i]) \in slaveOut(cfg)}
    OBVIOUS
  <2> QED
    BY <2>1 DEF countIns, countOuts
<1> HIDE DEF S
<1>10. {f[i] : i \in In} = slaveIn(cfg) /\ {f[i] : i \in Out} = slaveOut(cfg)
  BY <1>7, Zenon
<1>11. \A i, j \in In : f[i] = f[j] => i = j
  <2> DEFINE h == [i \in In |-> f[i]]
  <2>1. {h[i] : i \in In} = slaveIn(cfg) /\ DOMAIN h = In
    BY <1>10
  <2> HIDE DEF h
  <2>2. \A i, j \in In : h[i] = h[j] => i = j
    BY <1>3, <1>8, <2>1, OnceEach
  <2> QED
    BY <2>2 DEF h
<1>12. \A i, j \in Out : f[i] = f[j] => i = j
  <2> DEFINE h == [i \in Out |-> f[i]]
  <2>1. {h[i] : i \in Out} = slaveOut(cfg) /\ DOMAIN h = Out
    BY <1>10
  <2> HIDE DEF h
  <2>2. \A i, j \in Out : h[i] = h[j] => i = j
    BY <1>3, <1>8, <2>1, OnceEach
  <2> QED
    BY <2>2 DEF h
<1>13. ASSUME NEW i \in S, NEW j \in S, i < j PROVE f[i] # f[j]
  BY <1>2, <1>4, <1>5, <1>11, <1>12, <1>13
<1>14. ASSUME NEW i \in S, NEW j \in S, i < j, f[j] \in slaveIn(cfg) PROVE f[i] \in slaveIn(cfg)
  <2> SUFFICES ASSUME i \in Out PROVE FALSE
    BY <1>4
  <2> DEFINE ins == {k \in In : k <= i}
             outs == {k \in Out : k <= i}
  <2>1. i \in Nat /\ j \in Nat /\ j \in In /\ j \notin ins /\ i \in outs
    BY <1>2, <1>14
  <2>2. /\ IsFiniteSet(ins) /\ Cardinality(ins) <= Cardinality(In)
        /\ Cardinality(In) = Cardinality(ins) => In = ins
    BY <1>3, FS_Subset
  <2>3. Cardinality(ins) \in Nat /\ Cardinality(In) \in Nat
    BY <1>3, <2>2, FS_CardinalityType
  <2>4. Cardinality(ins) < Cardinality(In)
    <3>1. Cardinality(In) # Cardinality(ins)
      BY <2>1, <2>2
    <3> HIDE DEF In, ins
    <3> QED
      BY <2>2, <2>3, <3>1
  <2>5. Cardinality(outs) = 0
    BY <1>6, <1>8, <1>9, <2>4
  <2>6. IsFiniteSet(outs)
    BY <1>3, FS_Subset
  <2> QED
    BY <2>1, <2>5, <2>6, FS_EmptySet
<1> QED
  <2>1. {Port(cfg, path[i]) : i \in S} = slaveIn(cfg) \cup slaveOut(cfg)
    BY <1>4, <1>7
  <2>2. ASSUME NEW i \in S, NEW j \in S, i < j
        PROVE  /\ Port(cfg, path[i]) # Port(cfg, path[j])
               /\ Port(cfg, path[j]) \in slaveIn(cfg) => Port(cfg, path[i]) \in slaveIn(cfg)
    BY <1>13, <1>14, <2>2
  <2> QED
    BY <2>1, <2>2 DEF S

SlavesInv ==
  phase = "done" /\ slaveModule(cfg) => \A k \in DOMAIN operations : SlavesValid(operations[k])

LEMMA SameSlaves ==
  ASSUME cfg' = cfg, NEW CONSTANT path
  PROVE  SlavesValid(path)' <=> SlavesValid(path)
<1>1. slaveIn(cfg)' = slaveIn(cfg) /\ slaveOut(cfg)' = slaveOut(cfg)
  OBVIOUS
<1>2. pathSlaves(path)' = pathSlaves(path)
  BY DEF pathSlaves
<1>3. \A n : Port(cfg, n)' = Port(cfg, n)
  OBVIOUS
<1>4. /\ \A k : countIns(path, k)' = countIns(path, k) /\ countOuts(path, k)' = countOuts(path, k)
      /\ \A p : flips(path, p)' = flips(path, p)
  BY <1>1, <1>2, <1>3 DEF countIns, countOuts, flips
<1>5. checkSlavesOrder(path)' <=> checkSlavesOrder(path)
  BY <1>1, <1>2, <1>3, <1>4 DEF checkSlavesOrder
<1> QED
  BY <1>1, <1>5 DEF SlavesValid

LEMMA NextSlavesInv == SlavesInv /\ [Next]_vars => SlavesInv'
<1> SUFFICES ASSUME SlavesInv, [Next]_vars PROVE SlavesInv'
  OBVIOUS
<1>1. CASE CheckSlaves
  <2>1. UNCHANGED << cfg, operations >>
    BY <1>1 DEF CheckSlaves
  <2>2. phase' = "done" => \A k \in DOMAIN operations : SlavesValid(operations[k])
    BY <1>1 DEF CheckSlaves
  <2> QED
    BY <2>1, <2>2, SameSlaves DEF SlavesInv
<1>2. CASE CheckMasters
  BY <1>2 DEF CheckMasters, SlavesInv, slaveModule, slaveIn, slaveOut
<1>3. CASE Stopped \/ UNCHANGED vars
  <2>1. UNCHANGED << cfg, operations, phase >>
    BY <1>3 DEF Stopped, vars, foundVars
  <2> QED
    BY <2>1, SameSlaves DEF SlavesInv
<1>4. CASE phase' # "done"
  BY <1>4 DEF SlavesInv
<1> QED
  BY <1>1, <1>2, <1>3, <1>4
  DEF Next, ColorInitial, RoundStart, SearchState, SearchStep, KeepOperation, StateSearched,
      AllSearched, ProcessSpurious, InvalidPath, CheckNothing, foundVars

LEMMA SlavesAreServed == IInv /\ SlavesInv => SlavesServed
<1> SUFFICES ASSUME IInv, SlavesInv, phase = "done", slaveModule(cfg),
                    NEW k \in DOMAIN operations, operations[k][1] # 0
             PROVE  LET path == operations[k]
                        port(i) == Port(cfg, path[i])
                    IN  /\ {port(i) : i \in pathSlaves(path)} = slaveIn(cfg) \cup slaveOut(cfg)
                        /\ \A i, j \in pathSlaves(path) :
                             i < j => /\ port(i) # port(j)
                                      /\ port(j) \in slaveIn(cfg) => port(i) \in slaveIn(cfg)
  BY DEF SlavesServed
<1>1. cfg \in Programs /\ operations[k] \in Seq(Node(cfg))
  BY DEF IInv, TypeOK
<1>2. checkSlavesOrder(operations[k])
  BY DEF SlavesInv, SlavesValid
<1> QED
  BY <1>1, <1>2, SlavesOnce

(* An operation of a module with slave ports serves each of them once, the  *)
(* inputs first, although the check only counts the communications and      *)
(* flips a flag for each.                                                   *)
THEOREM EachSlaveServed == Spec => []SlavesServed
<1>1. Init => SlavesInv
  BY DEF Init, SlavesInv
<1> QED
  BY <1>1, NextSlavesInv, SlavesAreServed, Invariance, PTL DEF Spec

(* The search looks for a path once.  p goes along q for n nodes, and then  *)
(* to m.                                                                    *)
Along(p, q, n, m) == n < Len(p) /\ (\A i \in 1 .. n : p[i] = q[i]) /\ p[n + 1] = m

(* No path found goes where the search is or has still to go, and at each   *)
(* branching the path went the other way.                                   *)
Untried(s, p, b, found) ==
  /\ \A l \in DOMAIN found : ~ Along(found[l], p, Len(p), Last(s))
  /\ \A k \in DOMAIN b : /\ Append(p, Last(s))[b[k] + 1] # s[k]
                         /\ \A l \in DOMAIN found : ~ Along(found[l], p, b[k], s[k])

Differ(found) == \A k, l \in DOMAIN found : found[k] = found[l] => k = l

LEMMA NewDiffers ==
  ASSUME NEW N, NEW s \in Seq(N), s # << >>, NEW p \in Seq(N), NEW found \in Seq(Seq(N)), NEW b,
         Untried(s, p, b, found), Differ(found)
  PROVE  Differ(Append(found, Append(p, Last(s))))
<1> DEFINE q == Append(p, Last(s))
           n == Len(p)
           S == Seq(N)
<1>1. Last(s) \in N
  BY FrontProperties
<1>2. /\ n \in Nat /\ Len(q) = n + 1 /\ q[n + 1] = Last(s)
      /\ \A i \in 1 .. n : q[i] = p[i]
      /\ q \in S /\ found \in Seq(S)
  BY <1>1
<1> HIDE DEF q, n, S
<1>3. \A l \in DOMAIN found : found[l] # q
  <2> SUFFICES ASSUME NEW l \in DOMAIN found, found[l] = q PROVE FALSE
    OBVIOUS
  <2>1. Along(found[l], p, n, Last(s))
    BY <1>2 DEF Along
  <2> QED
    BY <2>1 DEF Untried, n
<1>4. \A k \in DOMAIN Append(found, q) :
        \/ k \in DOMAIN found /\ Append(found, q)[k] = found[k]
        \/ k = Len(found) + 1 /\ Append(found, q)[k] = q
  BY <1>2, AppendEnds
<1> QED
  BY <1>3, <1>4 DEF Differ, q

(* Going back to the last branching.                                        *)
LEMMA BackUntried ==
  ASSUME NEW N, NEW s \in Seq(N), NEW p \in Seq(N), NEW b \in Seq(Nat), b # << >>,
         Len(s) = Len(b) + 1, LiesOn(b, p), NEW found \in Seq(Seq(N)), Untried(s, p, b, found)
  PROVE  Untried(Front(s), SubSeq(p, 1, Last(b)), Front(b), Append(found, Append(p, Last(s))))
<1> DEFINE n == Len(b)
           r == SubSeq(p, 1, Last(b))
           q == Append(p, Last(s))
           more == Append(found, q)
           S == Seq(N)
<1>1. n \in Nat /\ n > 0 /\ DOMAIN b = 1 .. n /\ Len(s) = n + 1 /\ s # << >>
  OBVIOUS
<1>2. /\ Last(b) = b[n] /\ DOMAIN Front(b) = 1 .. n - 1
      /\ \A k \in 1 .. n - 1 : Front(b)[k] = b[k]
  <2>1. /\ Front(b) \in Seq(Nat) /\ Len(Front(b)) = Len(b) - 1 /\ Last(b) = b[Len(b)]
        /\ \A k \in 1 .. Len(b) - 1 : Front(b)[k] = b[k]
    BY FrontProperties
  <2> QED
    BY <2>1
<1>3. /\ Len(Front(s)) = n /\ Front(s) \in Seq(N)
      /\ \A k \in 1 .. n : Front(s)[k] = s[k]
      /\ Last(s) \in N
  <2>1. /\ Front(s) \in Seq(N) /\ Len(Front(s)) = Len(s) - 1 /\ Last(s) \in N
        /\ \A k \in 1 .. Len(s) - 1 : Front(s)[k] = s[k]
    BY <1>1, FrontProperties, Zenon
  <2> HIDE DEF n
  <2>2. Len(s) - 1 = n
    BY <1>1
  <2> QED
    BY <1>1, <2>1, <2>2
<1>4. Last(Front(s)) = s[n] /\ s[n] \in N
  <2>1. n \in 1 .. Len(s) /\ n \in 1 .. n
    BY <1>1
  <2>2. s[n] \in N
    BY <2>1
  <2> HIDE DEF n
  <2> QED
    BY <1>3, <2>1, <2>2 DEF Last
<1>5. b[n] \in 1 .. Len(p) /\ \A k \in 1 .. n - 1 : b[k] \in 1 .. b[n] /\ b[k] < b[n]
  <2>1. n \in DOMAIN b
    BY <1>1
  <2>2. b[n] \in 1 .. Len(p)
    BY <2>1, Zenon DEF LiesOn
  <2>3. ASSUME NEW k \in 1 .. n - 1 PROVE b[k] \in 1 .. b[n] /\ b[k] < b[n]
    <3>1. k \in DOMAIN b /\ k < n
      BY <1>1
    <3>2. b[k] \in 1 .. Len(p) /\ b[k] < b[n]
      BY <2>1, <3>1 DEF LiesOn
    <3> QED
      BY <2>2, <3>2
  <2> QED
    BY <2>2, <2>3
<1>6. /\ q \in S /\ Len(q) = Len(p) + 1 /\ Len(p) \in Nat /\ \A i \in 1 .. Len(p) : q[i] = p[i]
      /\ found \in Seq(S)
  BY <1>3
<1>7. /\ Len(r) = b[n] /\ \A i \in 1 .. b[n] : r[i] = p[i]
      /\ r \in S
  <2>1. b[n] \in 0 .. Len(p)
    BY <1>5, <1>6
  <2> QED
    BY <1>2, <2>1, PrefixProperties
<1>8. \A l \in DOMAIN more : \/ l \in DOMAIN found /\ more[l] = found[l]
                             \/ more[l] = q
  <2> HIDE DEF S, q
  <2> QED
    BY <1>6, AppendEnds
<1>9. \A k \in 1 .. n : /\ q[b[k] + 1] # s[k]
                        /\ \A l \in DOMAIN found : ~ Along(found[l], p, b[k], s[k])
  BY <1>1 DEF Untried
<1> HIDE DEF n, q, r, more, S
<1>10. ASSUME NEW k \in 1 .. n, NEW l \in DOMAIN more PROVE ~ Along(more[l], r, b[k], s[k])
  <2> SUFFICES ASSUME Along(more[l], r, b[k], s[k]) PROVE FALSE
    OBVIOUS
  <2>1. \A i \in 1 .. b[k] : i \in 1 .. b[n]
    <3>1. k = n \/ k \in 1 .. n - 1
      BY <1>1
    <3> QED
      BY <1>5, <3>1
  <2>2. Along(more[l], p, b[k], s[k])
    BY <1>7, <2>1 DEF Along
  <2>3. CASE more[l] = q
    BY <1>9, <2>2, <2>3 DEF Along
  <2>4. CASE l \in DOMAIN found /\ more[l] = found[l]
    BY <1>9, <2>2, <2>4
  <2> QED
    BY <1>8, <2>3, <2>4
<1>11. ASSUME NEW k \in 1 .. n - 1 PROVE Append(r, s[n])[b[k] + 1] # s[k]
  <2>1. b[k] + 1 \in 1 .. b[n] /\ b[k] + 1 \in 1 .. Len(p)
    <3>1. b[n] \in 1 .. Len(p) /\ b[k] \in 1 .. b[n] /\ b[k] < b[n] /\ Len(p) \in Nat
      BY <1>5, <1>6
    <3> QED
      BY <3>1
  <2>2. Append(r, s[n])[b[k] + 1] = r[b[k] + 1]
    BY <1>4, <1>7, <2>1
  <2>3. r[b[k] + 1] = q[b[k] + 1]
    BY <1>6, <1>7, <2>1
  <2>4. k \in 1 .. n
    BY <1>1
  <2> QED
    BY <1>9, <2>2, <2>3, <2>4
<1>12. \A l \in DOMAIN more : ~ Along(more[l], r, Len(r), Last(Front(s)))
  <2>1. n \in 1 .. n
    BY <1>1
  <2> QED
    BY <1>4, <1>7, <1>10, <2>1
<1>13. ASSUME NEW k \in 1 .. n - 1
       PROVE  /\ Append(r, Last(Front(s)))[Front(b)[k] + 1] # Front(s)[k]
              /\ \A l \in DOMAIN more : ~ Along(more[l], r, Front(b)[k], Front(s)[k])
  <2>1. k \in 1 .. n /\ Front(b)[k] = b[k] /\ Front(s)[k] = s[k]
    BY <1>1, <1>2, <1>3
  <2> QED
    BY <1>4, <1>10, <1>11, <2>1
<1> QED
  BY <1>2, <1>12, <1>13 DEF Untried, q, r, more

(* Going on with one node, or with the second of two.                       *)
LEMMA OnUntried ==
  ASSUME NEW N, NEW s \in Seq(N), NEW p \in Seq(N), NEW b \in Seq(Nat),
         Len(s) = Len(b) + 1, LiesOn(b, p), NEW found, Untried(s, p, b, found), NEW m \in N
  PROVE  /\ Untried(Append(Front(s), m), Append(p, Last(s)), b, found)
         /\ \A l \in N \ {m} :
              Untried(Append(Append(Front(s), l), m), Append(p, Last(s)), Append(b, Len(p) + 1), found)
<1> DEFINE n == Len(b)
           f == Front(s)
           q == Append(p, Last(s))
<1>1. n \in Nat /\ DOMAIN b = 1 .. n /\ Len(s) = n + 1 /\ s # << >>
  OBVIOUS
<1>2. /\ f \in Seq(N) /\ Len(f) = n /\ \A k \in 1 .. n : f[k] = s[k]
      /\ Last(s) \in N
  <2>1. /\ Front(s) \in Seq(N) /\ Len(Front(s)) = Len(s) - 1 /\ Last(s) \in N
        /\ \A k \in 1 .. Len(s) - 1 : Front(s)[k] = s[k]
    BY <1>1, FrontProperties, Zenon
  <2> HIDE DEF n
  <2>2. Len(s) - 1 = n
    BY <1>1
  <2> QED
    BY <2>1, <2>2
<1>3. /\ q \in Seq(N) /\ Len(q) = Len(p) + 1 /\ Len(p) \in Nat
      /\ \A i \in 1 .. Len(p) : q[i] = p[i]
      /\ q[Len(p) + 1] = Last(s)
      /\ \A x \in N : /\ \A i \in 1 .. Len(p) + 1 : Append(q, x)[i] = q[i]
                      /\ Append(q, x)[Len(p) + 2] = x
  <2>1. /\ q \in Seq(N) /\ Len(q) = Len(p) + 1 /\ Len(p) \in Nat
        /\ \A i \in 1 .. Len(p) : q[i] = p[i]
        /\ q[Len(p) + 1] = Last(s)
    BY <1>2
  <2> HIDE DEF q
  <2>2. ASSUME NEW x \in N
        PROVE  /\ \A i \in 1 .. Len(p) + 1 : Append(q, x)[i] = q[i]
               /\ Append(q, x)[Len(p) + 2] = x
    BY <2>1
  <2> QED
    BY <2>1, <2>2
<1>4. \A k \in 1 .. n : /\ b[k] \in 1 .. Len(p) /\ q[b[k] + 1] # s[k]
                        /\ \A l \in DOMAIN found : ~ Along(found[l], p, b[k], s[k])
  BY <1>1 DEF Untried, LiesOn
<1>5. \A l \in DOMAIN found : ~ Along(found[l], p, Len(p), Last(s))
  BY DEF Untried
<1> HIDE DEF f, q, n
<1>6. ASSUME NEW x, NEW l \in DOMAIN found PROVE ~ Along(found[l], q, Len(p) + 1, x)
  <2> SUFFICES ASSUME Along(found[l], q, Len(p) + 1, x) PROVE FALSE
    OBVIOUS
  <2>1. /\ Len(p) + 1 < Len(found[l])
        /\ \A i \in 1 .. Len(p) + 1 : found[l][i] = q[i]
    BY DEF Along
  <2>2. \A i \in 1 .. Len(p) : i \in 1 .. Len(p) + 1
    OBVIOUS
  <2>3. Len(p) + 1 \in 1 .. Len(p) + 1
    BY <1>3
  <2>4. \A i \in 1 .. Len(p) : found[l][i] = p[i]
    BY <1>3, <2>1, <2>2
  <2>5. found[l][Len(p) + 1] = Last(s)
    BY <1>3, <2>1, <2>3
  <2>6. Len(p) < Len(found[l])
    BY <1>3, <2>1
  <2> QED
    BY <1>5, <2>4, <2>5, <2>6 DEF Along
<1>7. ASSUME NEW k \in 1 .. n, NEW x \in N
      PROVE  /\ Append(q, x)[b[k] + 1] # s[k]
             /\ \A l \in DOMAIN found : ~ Along(found[l], q, b[k], s[k])
  <2>1. b[k] + 1 \in 1 .. Len(p) + 1 /\ \A i \in 1 .. b[k] : i \in 1 .. Len(p)
    BY <1>3, <1>4
  <2>2. Append(q, x)[b[k] + 1] # s[k]
    BY <1>3, <1>4, <2>1
  <2>3. ASSUME NEW l \in DOMAIN found, Along(found[l], q, b[k], s[k])
        PROVE  Along(found[l], p, b[k], s[k])
    BY <1>3, <2>1, <2>3 DEF Along
  <2> QED
    BY <1>4, <2>2, <2>3
<1>8. Untried(Append(f, m), q, b, found)
  <2> DEFINE t == Append(f, m)
  <2>1. Last(t) = m /\ \A k \in 1 .. n : t[k] = s[k]
    BY <1>1, <1>2 DEF Last
  <2> HIDE DEF t
  <2> QED
    BY <1>1, <1>3, <1>6, <1>7, <2>1 DEF Untried, t
<1>9. ASSUME NEW l \in N \ {m}
      PROVE  Untried(Append(Append(f, l), m), q, Append(b, Len(p) + 1), found)
  <2> DEFINE t == Append(Append(f, l), m)
             c == Append(b, Len(p) + 1)
  <2>1. Last(t) = m /\ t[n + 1] = l /\ \A k \in 1 .. n : t[k] = s[k]
    BY <1>1, <1>2 DEF Last
  <2>2. /\ DOMAIN c = 1 .. n + 1 /\ c[n + 1] = Len(p) + 1
        /\ \A k \in 1 .. n : c[k] = b[k]
    BY <1>1, <1>3 DEF n
  <2> HIDE DEF t, c
  <2>3. ASSUME NEW k \in 1 .. n + 1
        PROVE  /\ Append(q, m)[c[k] + 1] # t[k]
               /\ \A o \in DOMAIN found : ~ Along(found[o], q, c[k], t[k])
    <3>1. CASE k = n + 1
      <4>1. c[k] + 1 = Len(p) + 2
        BY <1>1, <1>3, <2>2, <3>1
      <4>2. Append(q, m)[c[k] + 1] = m
        BY <1>3, <4>1
      <4>3. t[k] = l /\ c[k] = Len(p) + 1 /\ m # l
        BY <1>9, <2>1, <2>2, <3>1
      <4> QED
        BY <1>6, <4>2, <4>3
    <3>2. CASE k \in 1 .. n
      BY <1>7, <2>1, <2>2, <3>2
    <3>3. k = n + 1 \/ k \in 1 .. n
      BY <1>1, <2>3
    <3> QED
      BY <3>1, <3>2, <3>3
  <2> QED
    BY <1>3, <1>6, <2>1, <2>2, <2>3 DEF Untried, t, c
<1> QED
  BY <1>8, <1>9 DEF f, q

-----------------------------------------------------------------------------
OnceInv ==
  /\ search = "running" => Untried(stack, operationPath, branchingNodesIndex, stateOperations)
  /\ search # "idle" => Differ(stateOperations)

LEMMA OnceBeside ==
  ASSUME OnceInv, UNCHANGED searchVars
  PROVE  OnceInv'
<1>1. UNCHANGED << stack, operationPath, branchingNodesIndex, stateOperations, search >>
  BY DEF searchVars
<1> QED
  BY <1>1 DEF OnceInv

LEMMA OnceFinish ==
  ASSUME IInv, PathsInv, OnceInv, Finish
  PROVE  OnceInv'
<1> DEFINE b == branchingNodesIndex
           s == stack
           p == operationPath
           found == stateOperations
<1>1. /\ search = "running" /\ stack' = Front(s) /\ Turn
      /\ stateOperations' = Append(found, Append(p, Last(s)))
  BY DEF Finish, PathSoFar, traverseNode
<1>2. /\ Fits(s, p, b) /\ s \in Seq(Node(cfg)) /\ p \in Seq(Node(cfg))
      /\ b \in Seq(Nat) /\ LiesOn(b, p)
  BY <1>1, FitsNow DEF PathsInv
<1>3. found \in Seq(Seq(Node(cfg))) /\ s # << >>
  BY <1>1 DEF IInv, TypeOK, SearchInv
<1>4. Untried(s, p, b, found) /\ Differ(found)
  BY <1>1 DEF OnceInv
<1>5. Differ(stateOperations')
  <2>1. Differ(Append(found, Append(p, Last(s))))
    BY <1>2, <1>3, <1>4, NewDiffers
  <2> QED
    BY <1>1, <2>1
<1>6. CASE b # << >>
  <2>1. /\ Last(b) \in 1 .. Len(p)
        /\ operationPath' = SubSeq(PathSoFar, 1, Last(b)) /\ branchingNodesIndex' = Front(b)
    <3>1. Retrace(PathSoFar)
      BY <1>6 DEF Finish
    <3> QED
      BY <1>1, <1>6, <3>1, RetraceLeaves
  <2>2. SubSeq(PathSoFar, 1, Last(b)) = SubSeq(p, 1, Last(b))
    <3>1. Last(b) \in 0 .. Len(p)
      BY <1>2, <2>1
    <3>2. traverseNode \in Node(cfg)
      BY <1>1, TurnStarts
    <3> QED
      BY <1>2, <3>1, <3>2, BeginningsOfGrown DEF PathSoFar
  <2>3. Untried(Front(s), SubSeq(p, 1, Last(b)), Front(b), Append(found, Append(p, Last(s))))
    <3>1. Len(s) = Len(b) + 1
      BY <1>2 DEF Fits
    <3> QED
      BY <1>2, <1>3, <1>4, <1>6, <3>1, BackUntried
  <2>4. Untried(stack', operationPath', branchingNodesIndex', stateOperations')
    BY <1>1, <2>1, <2>2, <2>3
  <2> QED
    BY <1>5, <2>4 DEF OnceInv
<1>7. CASE b = << >>
  <2>1. Len(Front(stack)) = Len(stack) - 1 /\ Len(stack) = 1 /\ Front(stack) \in Seq(Node(cfg))
    <3>1. Len(stack) = 1
      BY <1>2, <1>7 DEF Fits
    <3> QED
      BY <1>1, <3>1, TurnStarts
  <2>2. search' = "finished"
    BY <1>1, <2>1 DEF Turn
  <2> QED
    BY <1>5, <2>2 DEF OnceInv
<1> QED
  BY <1>6, <1>7

LEMMA OnceBranch ==
  ASSUME IInv, PathsInv, OnceInv, Branch
  PROVE  OnceInv'
<1> DEFINE b == branchingNodesIndex
           m1 == Succ(cfg, traverseNode)[1]
           m2 == Succ(cfg, traverseNode)[2]
           f == Front(stack)
<1>1. /\ Visit /\ search = "running" /\ IsBranch(cfg, traverseNode)
      /\ operationPath' = PathSoFar /\ stateOperations' = stateOperations
      /\ stack' = f \o (Pushed(2) \o Pushed(1))
      /\ branchingNodesIndex' = IF Len(Pushed(2) \o Pushed(1)) > 1
                                THEN Append(b, Len(PathSoFar)) ELSE b
  BY DEF Branch, Visit
<1>2. /\ Fits(stack, operationPath, b)
      /\ stack \in Seq(Node(cfg)) /\ operationPath \in Seq(Node(cfg))
      /\ b \in Seq(Nat) /\ LiesOn(b, operationPath) /\ Len(stack) = Len(b) + 1
  BY <1>1, FitsNow DEF PathsInv, Fits
<1>3. m1 \in Node(cfg) /\ m2 \in Node(cfg) /\ m1 # m2
  <2>1. m1 \in Node(cfg) /\ m2 \in Node(cfg) /\ traverseNode \in Node(cfg)
    BY <1>1, PushedFollows, TurnStarts
  <2>2. BranchesDecide(cfg)
    BY BranchesAssumption DEF IInv
  <2> QED
    BY <1>1, <2>1, <2>2 DEF BranchesDecide
<1>4. reachable(m1) \/ reachable(m2)
  <2>1. /\ PathSoFar \in Seq(Node(cfg)) /\ PathSoFar # << >> /\ Last(PathSoFar) = traverseNode
    <3>1. Len(operationPath) \in Nat
      BY DEF IInv, TypeOK
    <3> QED
      BY <1>1, <3>1, TurnStarts DEF Last
  <2>2. Follows(PathSoFar)
    BY <1>1 DEF PathsInv, StackFitsPath
  <2> QED
    BY <1>1, <2>1, <2>2, OneWayOpen DEF reachable
<1>5. /\ Pushed(1) = IF reachable(m1) THEN << m1 >> ELSE << >>
      /\ Pushed(2) = IF reachable(m2) THEN << m2 >> ELSE << >>
  BY DEF Pushed
<1>6. f \in Seq(Node(cfg)) /\ Len(PathSoFar) = Len(operationPath) + 1
  BY <1>1, TurnStarts
<1>7. Untried(stack, operationPath, b, stateOperations) /\ Differ(stateOperations')
  BY <1>1 DEF OnceInv
<1> HIDE DEF m1, m2, f
<1>8. CASE reachable(m1) /\ reachable(m2)
  <2>1. stack' = Append(Append(f, m2), m1) /\ branchingNodesIndex' = Append(b, Len(operationPath) + 1)
    <3>1. Pushed(2) = << m2 >> /\ Pushed(1) = << m1 >>
      BY <1>5, <1>8
    <3>2. /\ Len(<< m2 >> \o << m1 >>) = 2
          /\ f \o (<< m2 >> \o << m1 >>) = Append(Append(f, m2), m1)
      BY <1>3, <1>6, PushedTwo
    <3>3. /\ stack' = f \o (<< m2 >> \o << m1 >>)
          /\ branchingNodesIndex' = IF Len(<< m2 >> \o << m1 >>) > 1
                                    THEN Append(b, Len(PathSoFar)) ELSE b
      BY <1>1, <3>1, Zenon
    <3>4. 2 > 1
      OBVIOUS
    <3> QED
      BY <1>6, <3>2, <3>3, <3>4, Zenon
  <2>2. m2 \in Node(cfg) \ {m1}
    BY <1>3
  <2>3. Untried(Append(Append(f, m2), m1), PathSoFar, Append(b, Len(operationPath) + 1), stateOperations)
    BY <1>2, <1>3, <1>7, <2>2, OnUntried DEF PathSoFar, traverseNode, f
  <2> QED
    BY <1>1, <1>7, <2>1, <2>3 DEF OnceInv
<1>9. ASSUME NEW m \in Node(cfg), Pushed(2) \o Pushed(1) = << m >>
      PROVE  OnceInv'
  <2>1. f \o << m >> = Append(f, m) /\ ~ (Len(<< m >>) > 1)
    BY <1>6, <1>9, PushedTwo, PushedOne
  <2>2. stack' = Append(f, m) /\ branchingNodesIndex' = b
    BY <1>1, <1>9, <2>1
  <2>3. Untried(Append(f, m), PathSoFar, b, stateOperations)
    BY <1>2, <1>7, <1>9, OnUntried DEF PathSoFar, traverseNode, f
  <2> QED
    BY <1>1, <1>7, <2>2, <2>3 DEF OnceInv
<1>10. CASE reachable(m1) /\ ~ reachable(m2)
  <2>1. Pushed(2) \o Pushed(1) = << m1 >>
    BY <1>5, <1>10, PushedOne
  <2> QED
    BY <1>3, <1>9, <2>1
<1>11. CASE ~ reachable(m1) /\ reachable(m2)
  <2>1. Pushed(2) \o Pushed(1) = << m2 >>
    BY <1>5, <1>11, PushedOne
  <2> QED
    BY <1>3, <1>9, <2>1
<1> QED
  BY <1>4, <1>8, <1>10, <1>11

LEMMA OnceFollow ==
  ASSUME IInv, PathsInv, OnceInv, Follow
  PROVE  OnceInv'
<1> DEFINE b == branchingNodesIndex
           m == Succ(cfg, traverseNode)[1]
<1>1. /\ search = "running" /\ operationPath' = PathSoFar /\ stateOperations' = stateOperations
      /\ stack' = Append(Front(stack), m) /\ branchingNodesIndex' = b
  BY DEF Follow, Visit
<1>2. /\ Fits(stack, operationPath, b)
      /\ stack \in Seq(Node(cfg)) /\ operationPath \in Seq(Node(cfg))
      /\ b \in Seq(Nat) /\ LiesOn(b, operationPath) /\ Len(stack) = Len(b) + 1
  BY <1>1, FitsNow DEF PathsInv, Fits
<1>3. m \in Node(cfg)
  BY <1>1, TurnStarts, Successors
<1>4. Untried(stack, operationPath, b, stateOperations) /\ Differ(stateOperations')
  BY <1>1 DEF OnceInv
<1> HIDE DEF m
<1>5. Untried(Append(Front(stack), m), PathSoFar, b, stateOperations)
  BY <1>2, <1>3, <1>4, OnUntried DEF PathSoFar, traverseNode
<1> QED
  BY <1>1, <1>4, <1>5 DEF OnceInv

LEMMA NextOnceInv == IInv /\ PathsInv /\ OnceInv /\ [Next]_vars => OnceInv'
<1> SUFFICES ASSUME IInv, PathsInv, OnceInv, [Next]_vars PROVE OnceInv'
  OBVIOUS
<1>1. CASE ColorInitial \/ RoundStart \/ AllSearched \/ InvalidPath
            \/ CheckNothing \/ CheckSlaves \/ CheckMasters \/ Stopped \/ UNCHANGED vars
  <2>1. UNCHANGED searchVars
    BY <1>1 DEF ColorInitial, RoundStart, AllSearched, InvalidPath, CheckNothing, CheckSlaves,
                CheckMasters, Stopped, vars
  <2> QED
    BY <2>1, OnceBeside
<1>2. CASE SearchState
  <2>1. stateOperations' = << >> /\ branchingNodesIndex' = << >>
    BY <1>2 DEF SearchState, Find
  <2> QED
    BY <2>1 DEF OnceInv, Untried, Differ
<1>3. CASE SearchStep
  <2>1. CASE Spurious
    BY <2>1 DEF Spurious, OnceInv
  <2> QED
    BY <1>3, <2>1, OnceFinish, OnceBranch, OnceFollow DEF SearchStep, Iterate
<1>4. CASE KeepOperation
  <2>1. /\ search = "finished" /\ search' = "finished" /\ stateOperations # << >>
        /\ stateOperations' = Tail(stateOperations)
    BY <1>4 DEF KeepOperation
  <2>2. \A k \in DOMAIN stateOperations' : /\ k + 1 \in DOMAIN stateOperations
                                           /\ stateOperations'[k] = stateOperations[k + 1]
    BY <2>1, TailShifts DEF IInv, TypeOK
  <2>3. DOMAIN stateOperations' \subseteq Nat
    BY <2>1, TailShifts DEF IInv, TypeOK
  <2>4. Differ(stateOperations)
    BY <2>1 DEF OnceInv
  <2>5. ASSUME NEW k \in DOMAIN stateOperations', NEW l \in DOMAIN stateOperations',
               stateOperations'[k] = stateOperations'[l]
        PROVE  k = l
    <3>1. k + 1 = l + 1
      BY <2>2, <2>4, <2>5 DEF Differ
    <3> QED
      BY <2>3, <3>1
  <2> QED
    BY <2>1, <2>5 DEF OnceInv, Differ
<1>5. CASE StateSearched \/ ProcessSpurious
  BY <1>5 DEF StateSearched, ProcessSpurious, OnceInv
<1> QED
  BY <1>1, <1>2, <1>3, <1>4, <1>5 DEF Next

(* Where the paths of a search begin.                                       *)
Origin == importantStates[index]

OriginInv ==
  search # "idle" =>
    /\ phase \in {"states", "error"}
    /\ index \in DOMAIN importantStates
    /\ search = "running" => IF operationPath = << >> THEN traverseNode = Origin
                                                      ELSE operationPath[1] = Origin
    /\ \A k \in DOMAIN stateOperations : stateOperations[k][1] = Origin

LEMMA OriginKept ==
  ASSUME OriginInv, UNCHANGED << importantStates, index, phase >>, search # "idle",
         search' = "running" =>
           IF operationPath' = << >> THEN traverseNode' = Origin
                                     ELSE operationPath'[1] = Origin,
         \A k \in DOMAIN stateOperations' : stateOperations'[k][1] = Origin
  PROVE  OriginInv'
BY DEF OriginInv, Origin

LEMMA OriginPath ==
  ASSUME IInv, OriginInv, search = "running"
  PROVE  /\ PathSoFar[1] = Origin
         /\ PathSoFar \in Seq(Node(cfg)) /\ Len(PathSoFar) = Len(operationPath) + 1
         /\ Len(operationPath) \in Nat
<1>1. /\ PathSoFar \in Seq(Node(cfg)) /\ Len(PathSoFar) = Len(operationPath) + 1
      /\ \A i \in 1 .. Len(operationPath) : PathSoFar[i] = operationPath[i]
      /\ PathSoFar[Len(operationPath) + 1] = traverseNode
      /\ operationPath \in Seq(Node(cfg)) /\ Len(operationPath) \in Nat
  BY TurnStarts DEF IInv, TypeOK
<1>2. IF operationPath = << >> THEN traverseNode = Origin ELSE operationPath[1] = Origin
  BY DEF OriginInv
<1>3. CASE operationPath = << >>
  BY <1>1, <1>2, <1>3
<1>4. CASE operationPath # << >>
  <2>1. 1 \in 1 .. Len(operationPath)
    BY <1>1, <1>4
  <2> QED
    BY <1>1, <1>2, <1>4, <2>1
<1> QED
  BY <1>1, <1>3, <1>4

LEMMA OriginFinish ==
  ASSUME IInv, OriginInv, Finish, UNCHANGED << importantStates, index, phase >>
  PROVE  OriginInv'
<1>1. /\ search = "running" /\ stateOperations' = Append(stateOperations, PathSoFar)
      /\ stack' = Front(stack)
      /\ search' = IF stack' = << >> THEN "finished" ELSE "running"
      /\ \/ branchingNodesIndex # << >> /\ Retrace(PathSoFar)
         \/ branchingNodesIndex = << >> /\ operationPath' = PathSoFar
  BY DEF Finish, Turn
<1>2. /\ PathSoFar[1] = Origin
      /\ PathSoFar \in Seq(Node(cfg)) /\ Len(PathSoFar) = Len(operationPath) + 1
      /\ Len(operationPath) \in Nat
  BY <1>1, OriginPath
<1> HIDE DEF PathSoFar
<1>3. operationPath' # << >> /\ operationPath'[1] = Origin
  <2>1. CASE branchingNodesIndex # << >> /\ Retrace(PathSoFar)
    <3>1. /\ Last(branchingNodesIndex) \in 1 .. Len(operationPath)
          /\ operationPath' = SubSeq(PathSoFar, 1, Last(branchingNodesIndex))
      BY <1>1, <2>1, RetraceLeaves
    <3> QED
      BY <1>2, <3>1
  <2>2. CASE operationPath' = PathSoFar
    BY <1>2, <2>2
  <2> QED
    BY <1>1, <2>1, <2>2
<1>4. \A k \in DOMAIN stateOperations' : stateOperations'[k][1] = Origin
  <2>1. stateOperations \in Seq(Seq(Node(cfg)))
    BY DEF IInv, TypeOK
  <2>2. \A k \in DOMAIN stateOperations : stateOperations[k][1] = Origin
    BY <1>1 DEF OriginInv
  <2> QED
    BY <1>1, <1>2, <2>1, <2>2, AppendEnds
<1> QED
  BY <1>1, <1>3, <1>4, OriginKept

LEMMA OriginVisit ==
  ASSUME IInv, OriginInv, Branch \/ Follow, UNCHANGED << importantStates, index, phase >>
  PROVE  OriginInv'
<1>1. search = "running" /\ operationPath' = PathSoFar /\ stateOperations' = stateOperations
  BY DEF Branch, Follow, Visit
<1>2. /\ PathSoFar[1] = Origin
      /\ PathSoFar \in Seq(Node(cfg)) /\ Len(PathSoFar) = Len(operationPath) + 1
      /\ Len(operationPath) \in Nat
  BY <1>1, OriginPath
<1>3. operationPath' # << >> /\ operationPath'[1] = Origin
  BY <1>1, <1>2
<1>4. \A k \in DOMAIN stateOperations' : stateOperations'[k][1] = Origin
  BY <1>1 DEF OriginInv
<1> QED
  BY <1>1, <1>3, <1>4, OriginKept

LEMMA OriginSearchState ==
  ASSUME IInv, SearchState
  PROVE  OriginInv'
<1>1. /\ phase = "states" /\ index <= Len(importantStates)
      /\ stack' = << importantStates[index] >> /\ operationPath' = << >>
      /\ stateOperations' = << >>
      /\ UNCHANGED << importantStates, index, phase >>
  BY DEF SearchState, Find, foundVars
<1>2. index \in DOMAIN importantStates
  BY <1>1 DEF IInv, TypeOK, PhaseInv
<1>3. traverseNode' = Origin
  <2>1. traverseNode' = Last(<< importantStates[index] >>)
    BY <1>1 DEF traverseNode
  <2> QED
    BY <2>1 DEF Last, Origin
<1> QED
  BY <1>1, <1>2, <1>3 DEF OriginInv, Origin

LEMMA NextOriginInv == IInv /\ OriginInv /\ [Next]_vars => OriginInv'
<1> SUFFICES ASSUME IInv, OriginInv, [Next]_vars PROVE OriginInv'
  OBVIOUS
<1>1. CASE ColorInitial \/ RoundStart \/ AllSearched \/ CheckNothing \/ CheckSlaves \/ CheckMasters
  <2>1. search' = "idle"
    <3>1. search' = search
      BY <1>1 DEF ColorInitial, RoundStart, AllSearched, CheckNothing, CheckSlaves, CheckMasters,
                  searchVars
    <3> QED
      BY <1>1, <3>1 DEF ColorInitial, RoundStart, AllSearched, CheckNothing, CheckSlaves,
                        CheckMasters, IInv, PhaseInv
  <2> QED
    BY <2>1 DEF OriginInv
<1>2. CASE StateSearched \/ ProcessSpurious
  BY <1>2 DEF StateSearched, ProcessSpurious, OriginInv
<1>3. CASE SearchState
  BY <1>3, OriginSearchState
<1>4. CASE SearchStep
  <2>1. UNCHANGED << importantStates, index, phase >>
    BY <1>4 DEF SearchStep, Iterate, foundVars
  <2>2. Spurious \/ Finish \/ Branch \/ Follow
    BY <1>4 DEF SearchStep, Iterate
  <2>3. CASE Spurious
    <3>1. /\ search # "idle" /\ search' = "spurious"
          /\ UNCHANGED stateOperations
      BY <2>3 DEF Spurious
    <3> QED
      BY <2>1, <3>1, OriginKept DEF OriginInv
  <2> QED
    BY <2>1, <2>2, <2>3, OriginFinish, OriginVisit
<1>5. CASE KeepOperation
  <2>1. /\ search = "finished" /\ search' = search /\ stateOperations # << >>
        /\ stateOperations' = Tail(stateOperations)
        /\ UNCHANGED << importantStates, index, phase >>
    BY <1>5 DEF KeepOperation
  <2>2. stateOperations \in Seq(Seq(Node(cfg)))
    BY DEF IInv, TypeOK
  <2>3. \A k \in DOMAIN stateOperations' : stateOperations'[k][1] = Origin
    BY <2>1, <2>2, TailShifts DEF OriginInv
  <2> QED
    BY <2>1, <2>3, OriginKept
<1>6. CASE InvalidPath
  BY <1>6 DEF InvalidPath, searchVars, OriginInv, Origin, traverseNode
<1>7. CASE Stopped \/ UNCHANGED vars
  BY <1>7 DEF Stopped, vars, foundVars, searchVars, OriginInv, Origin, traverseNode
<1> QED
  BY <1>1, <1>2, <1>3, <1>4, <1>5, <1>6, <1>7 DEF Next

-----------------------------------------------------------------------------
(* The operations of the states that have been searched; while the paths of *)
(* a state are gone through, those that are left are others.                *)
KeptOnce ==
  /\ Differ(operations)
  /\ phase = "states" =>
       \A k \in DOMAIN operations :
         /\ \E i \in DOMAIN importantStates : /\ operations[k][1] = importantStates[i]
                                              /\ i < index \/ (i = index /\ search = "finished")
         /\ search = "finished" => \A l \in DOMAIN stateOperations : operations[k] # stateOperations[l]

LEMMA KeptSearches ==
  ASSUME IInv, KeptOnce, OriginInv', phase = "states", search # "finished",
         UNCHANGED << operations, importantStates, index, phase >>
  PROVE  KeptOnce'
<1>1. \A k \in DOMAIN operations :
        \E i \in DOMAIN importantStates : operations[k][1] = importantStates[i] /\ i < index
  BY DEF KeptOnce
<1>2. ASSUME search' = "finished", NEW k \in DOMAIN operations, NEW l \in DOMAIN stateOperations'
      PROVE  operations[k] # stateOperations'[l]
  <2>1. stateOperations'[l][1] = importantStates[index] /\ index \in DOMAIN importantStates
    BY <1>2 DEF OriginInv, Origin
  <2>2. PICK i \in DOMAIN importantStates : operations[k][1] = importantStates[i] /\ i < index
    BY <1>1
  <2>3. importantStates[i] # importantStates[index]
    BY <2>1, <2>2 DEF IInv, ColoredOnce, TypeOK
  <2> QED
    BY <2>1, <2>2, <2>3
<1> QED
  BY <1>1, <1>2 DEF KeptOnce

LEMMA KeptKeepOperation ==
  ASSUME IInv, OriginInv, OnceInv, KeptOnce, KeepOperation
  PROVE  KeptOnce'
<1> DEFINE p == Head(stateOperations)
           Paths == Seq(Node(cfg))
<1>1. /\ phase = "states" /\ search = "finished" /\ stateOperations # << >>
      /\ operations' = operations \/ operations' = Append(operations, p)
      /\ stateOperations' = Tail(stateOperations)
      /\ UNCHANGED << cfg, importantStates, index, phase, search >>
  BY DEF KeepOperation
<1>2. stateOperations \in Seq(Paths) /\ operations \in Seq(Paths)
  BY DEF IInv, TypeOK
<1> HIDE DEF Paths
<1>3. /\ 1 \in DOMAIN stateOperations /\ p = stateOperations[1] /\ p \in Paths
      /\ \A l \in DOMAIN stateOperations' : /\ l + 1 \in DOMAIN stateOperations
                                             /\ stateOperations'[l] = stateOperations[l + 1]
      /\ DOMAIN stateOperations' \subseteq Nat \ {0}
  <2>1. /\ 1 \in DOMAIN stateOperations /\ p = stateOperations[1] /\ p \in Paths
        /\ \A l \in DOMAIN Tail(stateOperations) :
             /\ l + 1 \in DOMAIN stateOperations
             /\ Tail(stateOperations)[l] = stateOperations[l + 1]
        /\ Tail(stateOperations) \in Seq(Paths)
    BY <1>1, <1>2, TailShifts
  <2> QED
    BY <1>1, <2>1
<1>4. p[1] = importantStates[index] /\ index \in DOMAIN importantStates
  BY <1>1, <1>3 DEF OriginInv, Origin
<1>5. ASSUME NEW k \in DOMAIN operations
      PROVE  /\ \E i \in DOMAIN importantStates : /\ operations[k][1] = importantStates[i]
                                                  /\ i < index \/ i = index
             /\ \A l \in DOMAIN stateOperations : operations[k] # stateOperations[l]
  BY <1>1 DEF KeptOnce
<1>6. \A l \in DOMAIN stateOperations' : stateOperations'[l] # p
  <2> SUFFICES ASSUME NEW l \in DOMAIN stateOperations', stateOperations'[l] = p PROVE FALSE
    OBVIOUS
  <2>1. l + 1 = 1
    BY <1>1, <1>3 DEF OnceInv, Differ
  <2> QED
    BY <1>3, <2>1
<1> HIDE DEF p
<1>7. Differ(operations)
  BY DEF KeptOnce
<1>8. \A k \in DOMAIN operations' : \/ k \in DOMAIN operations /\ operations'[k] = operations[k]
                                    \/ k = Len(operations) + 1 /\ operations'[k] = p
  <2>1. \A k \in DOMAIN Append(operations, p) :
          \/ k \in DOMAIN operations /\ Append(operations, p)[k] = operations[k]
          \/ k = Len(operations) + 1 /\ Append(operations, p)[k] = p
    BY <1>2, <1>3, AppendEnds
  <2>2. CASE operations' = operations
    BY <2>2
  <2>3. CASE operations' = Append(operations, p)
    BY <2>1, <2>3
  <2> QED
    BY <1>1, <2>2, <2>3
<1>9. \A k \in DOMAIN operations : operations[k] # p
  BY <1>3, <1>5
<1>10. Differ(operations')
  BY <1>7, <1>8, <1>9 DEF Differ
<1>11. ASSUME NEW k \in DOMAIN operations'
       PROVE  /\ \E i \in DOMAIN importantStates : /\ operations'[k][1] = importantStates[i]
                                                   /\ i < index \/ i = index
              /\ \A l \in DOMAIN stateOperations' : operations'[k] # stateOperations'[l]
  <2>1. CASE k \in DOMAIN operations /\ operations'[k] = operations[k]
    BY <1>3, <1>5, <2>1
  <2>2. CASE operations'[k] = p
    BY <1>4, <1>6, <2>2
  <2> QED
    BY <1>8, <2>1, <2>2
<1> QED
  BY <1>1, <1>10, <1>11 DEF KeptOnce

LEMMA NextKeptOnce ==
  IInv /\ OriginInv /\ OnceInv /\ KeptOnce /\ OriginInv' /\ [Next]_vars => KeptOnce'
<1> SUFFICES ASSUME IInv, OriginInv, OnceInv, KeptOnce, OriginInv', [Next]_vars PROVE KeptOnce'
  OBVIOUS
<1>1. CASE RoundStart
  BY <1>1 DEF RoundStart, KeptOnce, Differ
<1>2. CASE ColorInitial \/ AllSearched \/ ProcessSpurious \/ InvalidPath \/ CheckNothing
             \/ CheckSlaves \/ CheckMasters
  <2>1. operations' = operations /\ phase' # "states"
    BY <1>2 DEF ColorInitial, AllSearched, ProcessSpurious, InvalidPath, CheckNothing,
                CheckSlaves, CheckMasters, again
  <2> QED
    BY <2>1 DEF KeptOnce, Differ
<1>3. CASE SearchState \/ SearchStep
  <2>1. /\ phase = "states" /\ search # "finished"
        /\ UNCHANGED << operations, importantStates, index, phase >>
    BY <1>3 DEF SearchState, SearchStep, Iterate, foundVars, Spurious, Finish, Branch, Follow, Visit
  <2> QED
    BY <2>1, KeptSearches
<1>4. CASE KeepOperation
  BY <1>4, KeptKeepOperation
<1>5. CASE StateSearched
  <2>1. /\ phase = "states" /\ phase' = "states" /\ search' = "idle" /\ index' = index + 1
        /\ UNCHANGED << operations, importantStates >>
    BY <1>5 DEF StateSearched
  <2>2. index \in Nat /\ DOMAIN importantStates \subseteq Nat
    BY DEF IInv, TypeOK
  <2>3. \A i \in DOMAIN importantStates : i < index \/ i = index => i < index'
    BY <2>1, <2>2
  <2> QED
    BY <2>1, <2>3 DEF KeptOnce, Differ
<1>6. CASE Stopped \/ UNCHANGED vars
  <2>1. UNCHANGED << operations, importantStates, index, phase, search, stateOperations >>
    BY <1>6 DEF Stopped, vars, foundVars, searchVars
  <2> QED
    BY <2>1 DEF KeptOnce, Differ
<1> QED
  BY <1>1, <1>2, <1>3, <1>4, <1>5, <1>6 DEF Next

LEMMA InitOnce == Init => OriginInv /\ OnceInv /\ KeptOnce
BY DEF Init, SearchInit, OriginInv, OnceInv, KeptOnce, Differ

(* No path is found twice, neither by the search of a state nor by those of *)
(* different states, and none is left on the list of operations from a      *)
(* round before: the paths that operations are made of differ.              *)
THEOREM NoPathTwice == Spec => [](OnceInv /\ Differ(operations))
<1>1. IInv /\ PathsInv /\ OriginInv /\ OnceInv /\ KeptOnce /\ [Next]_vars
        => (OriginInv /\ OnceInv /\ KeptOnce)'
  BY NextOriginInv, NextOnceInv, NextKeptOnce
<1>2. KeptOnce => Differ(operations)
  BY DEF KeptOnce
<1> QED
  BY <1>1, <1>2, InitOnce, Invariance, PathsInvariance, PTL DEF Spec

=============================================================================
