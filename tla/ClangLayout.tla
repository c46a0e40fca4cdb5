----------------------------- MODULE ClangLayout -----------------------------
(***************************************************************************)
(* The blocks that clang (clang::CFG::buildCFG, not in the repository)     *)
(* makes of a thread `while(true) { body }', or of the body of a function. *)
(* They are made backwards: the statements after an `if', then its         *)
(* branches, then a block for each operand of its condition.               *)
(***************************************************************************)
EXTENDS Naturals, Sequences

(* Conditions: whether x has the value v, and what is made of these.        *)
Is(x, v) == [kind |-> "leaf", test |-> << x, v >>]
And(l, r) == [kind |-> "and", left |-> l, right |-> r]
Or(l, r) == [kind |-> "or", left |-> l, right |-> r]
IfElse(cond, then, else) == [op |-> "branch", cond |-> cond, then |-> then, else |-> else]

(* A condition as a set of alternatives, each a set of comparisons.         *)
RECURSIVE Alternatives(_)
Alternatives(c) ==
  CASE c.kind = "leaf" -> {{c.test}}
    [] c.kind = "or"   -> Alternatives(c.left) \cup Alternatives(c.right)
    [] c.kind = "and"  -> {a \cup b : a \in Alternatives(c.left), b \in Alternatives(c.right)}

Block(stmts, class, succ) ==
  [stmts |-> stmts, class |-> class, succ |-> succ, owner |-> 0, test |-> << >>, whole |-> {}]

(* The blocks of a condition and where it starts: its last operand ends     *)
(* with what the condition is part of, the others with their operator.      *)
RECURSIVE Condition(_, _, _, _, _)
Condition(c, then, else, terminator, blocks) ==
  IF c.kind = "leaf"
  THEN [entry |-> Len(blocks) + 1,
        blocks |-> Append(blocks, [terminator EXCEPT !.test = c.test, !.succ = << then, else >>])]
  ELSE LET right == Condition(c.right, then, else, terminator, blocks)
           operand == [terminator EXCEPT !.class = "operand"]
       IN  IF c.kind = "and"
           THEN Condition(c.left, right.entry, else, operand, right.blocks)
           ELSE Condition(c.left, then, right.entry, operand, right.blocks)

(* The exit of a function is its first block, and a return leads there.     *)
Exit == 1
Follows(s, next) == IF s[Len(s)].op = "return" THEN Exit ELSE next

(* The blocks of the statements s, of which `next' is the successor.  An    *)
(* empty `then' has a block of its own, an empty `else' has none.           *)
RECURSIVE Statements(_, _, _)
Statements(s, next, blocks) ==
  LET branches == {i \in DOMAIN s : s[i].op = "branch"}
  IN  IF s = << >> THEN [entry |-> next, blocks |-> blocks]
      ELSE IF branches = {}
      THEN [entry |-> Len(blocks) + 1, blocks |-> Append(blocks, Block(s, "none", << Follows(s, next) >>))]
      ELSE LET k == CHOOSE i \in branches : \A j \in branches : i <= j
               join == Statements(SubSeq(s, k + 1, Len(s)), next, blocks)
               else == Statements(s[k].else, join.entry, join.blocks)
               then == IF s[k].then # << >> THEN Statements(s[k].then, join.entry, else.blocks)
                       ELSE [entry |-> Len(else.blocks) + 1,
                             blocks |-> Append(else.blocks, Block(<< >>, "none", << join.entry >>))]
               if == [Block(<< >>, "if", << >>) EXCEPT !.owner = Len(then.blocks) + 1,
                                                       !.whole = Alternatives(s[k].cond)]
               cond == Condition(s[k].cond, then.entry, else.entry, if, then.blocks)
           IN  [entry |-> cond.entry,
                blocks |-> [cond.blocks EXCEPT ![cond.entry].stmts = SubSeq(s, 1, k - 1)]]

(* Block 1 is the head of the loop, block 2 jumps back to it.               *)
Thread(init, body) ==
  LET laid == Statements(body, 2, << Block(<< >>, "while", << >>), Block(<< >>, "none", << 1 >>) >>)
  IN  [kind |-> "thread", blocks |-> [laid.blocks EXCEPT ![1].succ = << laid.entry >>],
       first |-> 1, init |-> init]

FunctionOf(body) ==
  LET laid == Statements(body, Exit, << Block(<< >>, "none", << >>) >>)
  IN  [kind |-> "function", blocks |-> laid.blocks, first |-> laid.entry, init |-> << >>]
=============================================================================
