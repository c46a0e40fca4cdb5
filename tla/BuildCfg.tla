------------------------------ MODULE BuildCfg ------------------------------
(***************************************************************************)
(* From clang's blocks to the graph of nodes that everything else works on *)
(* (cfgFactory/CFGFactory.cpp, CreateRealCFG.cpp).  Clang evaluates        *)
(* `a && b' and `a || b' in a block for every operand; only the last one   *)
(* has the whole `if' as its terminator, and it becomes the one node of    *)
(* the condition.  The search through clang's blocks leaves out the others *)
(* by going on at one successor only.                                      *)
(*                                                                         *)
(* A source is a thread or a function (kind) and has blocks, the one after *)
(* the entry (first) and the statements of the constructor (init).  A      *)
(* block has stmts, the class of its terminator ("none" if it has none),   *)
(* its successors, which `if' the terminator belongs to (owner) and the    *)
(* whole condition of that (whole).                                        *)
(***************************************************************************)
EXTENDS ControlFlow

VARIABLES source,           \* clang's blocks
          controlFlowMap,   \* the blocks so far; the one with number i is at i + 1
          todo              \* the pending calls of traverseBlocks, innermost first:
                            \*   the block and the number of its parent

buildVars == << source, controlFlowMap, todo >>

CfgBlock(b, stmts, terminator) ==
  [clang |-> b, stmts |-> stmts, terminator |-> terminator, succ |-> << >>]
Entry == 0   \* no block of a source has this number

(* What clang lays out for a thread that loops for ever: every block goes   *)
(* on somewhere, an operand to another one or to the whole condition; and,  *)
(* as blocks are numbered backwards, to smaller numbers only unless to or   *)
(* from the head of a loop.                                                 *)
LaidOutBlock(blocks, b) ==
  LET block == blocks[b]
      class(c) == blocks[c].class
  IN  /\ class(b) \in {"none", "if", "operand", "while"}
      /\ block.stmts \in Seq(ToSet(block.stmts))
      /\ block.succ \in Seq(DOMAIN blocks) /\ block.succ # << >>
      /\ class(b) \in {"none", "while"} => Len(block.succ) = 1
      /\ class(b) \in {"if", "operand"} => Len(block.succ) = 2
      /\ class(b) = "operand" => \E c \in ToSet(block.succ) : class(c) # "none"
      /\ class(b) = "while" => block.stmts = << >>
      /\ class(b) # "while" => \A c \in ToSet(block.succ) : class(c) = "while" \/ c < b

LaidOut(s) ==
  /\ DOMAIN s.blocks \subseteq Nat \ {Entry} /\ s.first \in DOMAIN s.blocks
  /\ s.init \in Seq(ToSet(s.init))
  /\ \A b \in DOMAIN s.blocks : LaidOutBlock(s.blocks, b)

(* The entry, and behind it, for a thread, the constructor's statements.    *)
BuildInit(sources) ==
  /\ source \in sources
  /\ LET entry == CfgBlock(Entry, << >>, << >>)
     IN  controlFlowMap = IF source.kind = "function" THEN << entry >>
                          ELSE << [entry EXCEPT !.succ = << 1 >>], CfgBlock(Entry, source.init, << >>) >>
  /\ todo = << << source.first, Len(controlFlowMap) - 1 >> >>

Class(b) == source.blocks[b].class
ClangSucc(b) == source.blocks[b].succ
IsIf(b) == Class(b) = "if"
HasTerminator(b) == Class(b) # "none"

(* The condition of `inner' lies within that of the `if' that ends `outer'. *)
exprContainedInIf(inner, outer) == source.blocks[inner].owner = source.blocks[outer].owner

Visited(b) == \E i \in DOMAIN controlFlowMap : controlFlowMap[i].clang = b
BlockId(map, b) == (CHOOSE i \in DOMAIN map : map[i].clang = b) - 1
Linked(b, parent) == Visited(b) /\ Contains(controlFlowMap[parent + 1].succ, BlockId(controlFlowMap, b))

(* Only a whole `if' and the loop become statements.                        *)
Terminator(b) == CASE IsIf(b) -> << [op |-> "if", test |-> source.blocks[b].whole] >>
                   [] Class(b) = "while" -> << [op |-> "while"] >>
                   [] OTHER -> << >>

(* The map with the block b, and its parent linked to it.                   *)
createCFGNode(b, parent) ==
  LET map == IF Visited(b) THEN controlFlowMap
             ELSE Append(controlFlowMap, CfgBlock(b, source.blocks[b].stmts, Terminator(b)))
  IN  IF Linked(b, parent) THEN map
      ELSE [map EXCEPT ![parent + 1].succ = Append(@, BlockId(map, b))]

(* The successor of an operand that leads to the whole condition.           *)
Containing(b) ==
  LET trueSucc == ClangSucc(b)[1]
      falseSucc == ClangSucc(b)[2]
  IN  IF ~ HasTerminator(trueSucc) /\ ~ HasTerminator(falseSucc) THEN << >>
      ELSE IF /\ HasTerminator(trueSucc)
              /\ HasTerminator(falseSucc) =>
                   \/ IsIf(trueSucc) /\ exprContainedInIf(b, trueSucc)
                   \/ ~ IsIf(trueSucc) /\ ~ (IsIf(falseSucc) /\ exprContainedInIf(b, falseSucc))
           THEN << trueSucc >>
           ELSE << falseSucc >>

(* The successors that are visited, `then' before `else'.  An operand's     *)
(* block goes on at one: cleanEmptyBlocks, which takes away those with two, *)
(* finds none.                                                              *)
VisitNext(b) == IF Class(b) = "operand" THEN Containing(b) ELSE ClangSucc(b)

(* Mutant: blocks are visited in the order in which they were found. *)
FoundFirst(next, parent) == Tail(todo) \o [i \in DOMAIN next |-> << next[i], parent >>]

(* The recursive calls come before those that are pending.                  *)
Calls(next, parent) == [i \in DOMAIN next |-> << next[i], parent >>] \o Tail(todo)

traverseBlocks ==
  /\ todo # << >>
  /\ LET b == Head(todo)[1]
         parent == Head(todo)[2]
         map == createCFGNode(b, parent)
         next == VisitNext(b)
     IN  IF Linked(b, parent) \/ ClangSucc(b) = << >>
         THEN todo' = Tail(todo) /\ UNCHANGED controlFlowMap
         ELSE /\ controlFlowMap' = map
              /\ todo' = Calls(next, BlockId(map, b))
  /\ UNCHANGED source

-----------------------------------------------------------------------------
(* CreateRealCFG: a node for every statement, then for the terminator, in   *)
(* the order of the blocks; an empty block is a node without a statement.   *)

NodesOf(block) == IF block.stmts \o block.terminator = << >> THEN << [op |-> "empty"] >>
                  ELSE block.stmts \o block.terminator

(* The predecessors of n in the graph with the nodes 0 .. k - 1.             *)
Predecessors(succ, n, k) ==
  LET upTo[m \in 0 .. k] == IF m = 0 THEN << >>
                            ELSE IF Contains(succ[m - 1], n) THEN Append(upTo[m - 1], m - 1)
                            ELSE upTo[m - 1]
  IN  upTo[k]

RealCFG ==
  LET length[i \in 0 .. Len(controlFlowMap)] ==
        IF i = 0 THEN 0 ELSE length[i - 1] + Len(NodesOf(controlFlowMap[i]))
      size == length[Len(controlFlowMap)]
      start(i) == length[i - 1]
      end(i) == length[i] - 1
      block(n) == CHOOSE i \in DOMAIN controlFlowMap : n \in start(i) .. end(i)
      succ == [n \in 0 .. size - 1 |->
                 LET next == controlFlowMap[block(n)].succ
                 IN  IF n = end(block(n)) THEN [k \in DOMAIN next |-> start(next[k] + 1)]
                     ELSE << n + 1 >>]
  IN  [stmt |-> [n \in 0 .. size - 1 |->
                   NodesOf(controlFlowMap[block(n)])[n - start(block(n)) + 1]],
       succ |-> succ,
       pred |-> [n \in 0 .. size - 1 |-> Predecessors(succ, n, size)]]
=============================================================================
