----------------------------- MODULE MCOptimizer -----------------------------
(* Model checking of the graphs that are built and optimized, on small       *)
(* threads x = 0; while(true) { ... }, and of small functions.               *)
EXTENDS ModelFactory, ClangLayout

Wait == [op |-> "wait"]
Reads(x) == [op |-> "read", var |-> x]
Sends(x) == [op |-> "write", var |-> x]
Sets(x, v) == [op |-> "assign", var |-> x, val |-> v]
Copies(x, y) == [op |-> "copy", var |-> x, from |-> y]

Threads(bodies) == {Thread(<< Sets("x", 0) >>, body) : body \in bodies}

(* Shapes without a condition inside a branch of another; a variable is      *)
(* assigned to itself outside the branches only.                             *)
Assignments == {Sets("x", 1), Copies("x", "y"), Copies("y", "x")}
Communications == {Reads("y"), Sends("x"), Sends("y")}
AnyStatement == Assignments \cup Communications

EitherOr == {<< IfElse(Is("x", 0), << s, t >>, << u, v >>) >> :
               s \in AnyStatement, t \in AnyStatement, u \in AnyStatement, v \in Communications}
Guarded(first) == {<< s, t, IfElse(Is("x", 1), << u >>, << >>), v >> :
                     s \in first, t \in AnyStatement, u \in AnyStatement, v \in AnyStatement}

(* x = y; k times: if (y == 0) { x = 1; } else { write(y); }, then           *)
(* wait(); write(x); read(y);                                                *)
InARow(k) == << Copies("x", "y") >>
             \o [i \in 1 .. k |-> IfElse(Is("y", 0), << Sets("x", 1) >>, << Sends("y") >>)]
             \o << Wait, Sends("x"), Reads("y") >>

(* Conditions of several operands, and what the branches begin with: a       *)
(* single condition, one of two operands, nothing.                           *)
A == Is("x", 1)
B == Is("y", 1)
C == Is("y", 0)
Conjunctions == {And(A, B), And(And(A, B), C), And(A, And(B, C)), And(A, Or(B, C)), And(Or(A, B), C)}
Disjunctions == {Or(A, B), Or(And(A, B), C)}
Longer == {Or(Or(A, B), C), Or(A, Or(B, C)), Or(A, And(B, C))}
Inner == {<< Sends("x") >>, << >>, << IfElse(A, << Sends("x") >>, << Wait >>) >>,
          << IfElse(And(A, C), << Sends("x") >>, << Wait >>) >>,
          << IfElse(Or(A, C), << Sends("x") >>, << >>), Wait >>}
Joined(cond, then, else) == << Reads("x"), IfElse(cond, then, else), Reads("y") >>
Compound == {Joined(c, t, e) : c \in Conjunctions \cup Disjunctions, t \in Inner, e \in Inner \ {<< >>}}
              \cup {Joined(c, t, e) : c \in Longer, t \in {<< Sends("x") >>, << >>}, e \in Inner \ {<< >>}}

(* Functions: a branch returns always (Ends), never (Falls), or if an inner  *)
(* condition holds (Leaves) or does not (Stays), and any two of these may    *)
(* meet, also in front of another condition.                                 *)
Return(x) == [op |-> "return", var |-> x]
Final == {<< Return("x") >>, << Copies("x", "y"), Return("x") >>}
Goes == {<< Copies("x", "y") >>, << Sets("x", 1) >>}
Inside(then, else) == {<< IfElse(c, t, e) >> : c \in {A, C}, t \in then, e \in else}
Ends == Final \cup Inside(Final, Final)
Falls == Goes \cup Inside(Goes, Goes \cup {<< >>})
Leaves == Inside(Final, Goes \cup {<< >>})
Stays == Inside(Goes, Final)

Body(conds, then, else, rest) ==
  {<< IfElse(c, t, e) >> \o r : c \in conds, t \in then, e \in else, r \in rest}
GoesOn == Falls \cup Leaves \cup Stays
Rest == {<< Return("x") >>, << IfElse(C, << Return("x") >>, << Return("y") >>) >>}
Bodies ==
  Ends \cup Body({B}, Ends, Ends, {<< >>})
       \cup Body({B, And(A, B), Or(B, C)}, Ends, Goes \cup {<< >>}, Ends)
       \cup Body({B}, GoesOn, GoesOn \cup Final \cup {<< >>}, Rest)
       \cup Body({B}, Ends, GoesOn, {<< Return("x") >>})

ModelSources ==
  {FunctionOf(b) : b \in Bodies} \cup
  Threads(EitherOr \cup Guarded(AnyStatement) \cup {InARow(k) : k \in 1 .. 3} \cup Compound
          \cup {<< Copies("x", "x") >> \o g : g \in Guarded(Communications)})

LongSources == Threads({InARow(4)})

(* read(y); if (y == 0) { write(y); } else if (y == 1) { x = 1; }            *)
(* else { read(y); } read(y);                                                *)
ElseIfSources ==
  Threads({<< Reads("y"), IfElse(Is("y", 0), << Sends("y") >>,
                                 << IfElse(Is("y", 1), << Sets("x", 1) >>, << Reads("y") >>) >>),
              Reads("y") >>})

(* read(x); if (x == 1 || y == 1 || x == 1) { if (x == 1 && y == 0)          *)
(* { write(x); } else { wait(); } } else { write(y); } read(y);              *)
LongOr == Or(Or(A, B), Is("x", 1))
OrSources == Threads({Joined(LongOr, << IfElse(And(A, C), << Sends("x") >>, << Wait >>) >>,
                             << Sends("y") >>)})
=============================================================================
