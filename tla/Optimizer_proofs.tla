--------------------------- MODULE Optimizer_proofs ---------------------------
(***************************************************************************)
(* Proofs about the graphs of Optimizer, for every set of sources: the     *)
(* neighbour lists mirror each other when the graph has been built and     *)
(* whatever is removed from it, and a `then' branch has the next number    *)
(* when it has been built.                                                 *)
(***************************************************************************)
EXTENDS Optimizer, TLAPS, WellFoundedInduction, SequenceTheorems

-----------------------------------------------------------------------------
(* Induction over the numbers, for a set.                                   *)
LEMMA NatSetInduction ==
  ASSUME NEW S, 0 \in S, \A n \in Nat : n \in S => n + 1 \in S
  PROVE  \A n \in Nat : n \in S
<1> DEFINE R == OpToRel(<, Nat)
           T == Nat \ S
<1>1. IsWellFoundedOn(R, Nat)
  BY NatLessThanWellFounded
<1> SUFFICES ASSUME T # {} PROVE FALSE
  OBVIOUS
<1>2. PICK x \in T : \A y \in T : ~ (<< y, x >> \in R)
  <2> HIDE DEF R
  <2> QED BY <1>1, WFMin
<1>3. x \in Nat /\ x # 0
  OBVIOUS
<1>4. x - 1 \in Nat /\ (x - 1) + 1 = x /\ x - 1 < x
  BY <1>3
<1>5. x - 1 \in T
  BY <1>4
<1>6. << x - 1, x >> \in R
  BY <1>3, <1>4 DEF OpToRel
<1> QED
  BY <1>2, <1>5, <1>6

(* A set of numbers that has a bound has a largest element.                 *)
LEMMA MaxOf ==
  ASSUME NEW S \in SUBSET Nat, S # {}, NEW b \in Nat, \A x \in S : x <= b
  PROVE  Max(S) \in S /\ \A x \in S : x <= Max(S)
<1> DEFINE T == {n \in Nat : (\E x \in S : b <= x + n) =>
                               \E x \in S : \A y \in S : x >= y}
<1>1. 0 \in T
  <2> SUFFICES ASSUME NEW x \in S, b <= x + 0 PROVE \A y \in S : x >= y
    OBVIOUS
  <2> QED
    OBVIOUS
<1>2. ASSUME NEW n \in Nat, n \in T PROVE n + 1 \in T
  <2> SUFFICES ASSUME NEW x \in S, b <= x + (n + 1) PROVE \E z \in S : \A y \in S : z >= y
    OBVIOUS
  <2>1. CASE \E z \in S : z > x
    <3>1. PICK z \in S : z > x
      BY <2>1
    <3>2. b <= z + n
      BY <3>1
    <3> QED
      BY <1>2, <3>2
  <2>2. CASE \A z \in S : ~ (z > x)
    BY <2>2
  <2> QED
    BY <2>1, <2>2
<1>3. \A n \in Nat : n \in T
  <2> HIDE DEF T
  <2> QED
    BY <1>1, <1>2, NatSetInduction
<1>4. PICK x \in S : TRUE
  OBVIOUS
<1>5. b \in T /\ b <= x + b
  BY <1>3
<1>6. \E z \in S : \A y \in S : z >= y
  BY <1>5
<1>7. Max(S) \in S /\ \A y \in S : Max(S) >= y
  BY <1>6, Zenon DEF Max
<1> QED
  BY <1>7

-----------------------------------------------------------------------------
(* Lists in which nothing is there twice *)

List(s, S) == s \in Seq(S) /\ \A i, j \in 1 .. Len(s) : s[i] = s[j] => i = j

LEMMA RemovedList ==
  ASSUME NEW S, NEW s, List(s, S), NEW e, Contains(s, e)
  PROVE  /\ List(RemoveFirst(s, e), S) /\ Len(RemoveFirst(s, e)) = Len(s) - 1
         /\ \A x : Contains(RemoveFirst(s, e), x) <=> Contains(s, x) /\ x # e
<1>1. PICK k \in 1 .. Len(s) : s[k] = e
  BY DEF Contains
<1>2. {i \in 1 .. Len(s) : s[i] = e} = {k}
  BY <1>1 DEF List
<1>3. Min({k}) = k
  BY DEF Min
<1>4. SelectInSeq(s, LAMBDA v : v = e) = k
  BY <1>2, <1>3 DEF SelectInSeq
<1>5. RemoveFirst(s, e) = SubSeq(s, 1, k - 1) \o SubSeq(s, k + 1, Len(s))
  BY <1>1, <1>4 DEF RemoveFirst, RemoveAt
<1>6. PICK r : r = RemoveFirst(s, e)
  OBVIOUS
<1>7. s \in Seq(S) /\ Len(s) \in Nat /\ k \in Nat
  BY <1>1 DEF List
<1>8. /\ SubSeq(s, 1, k - 1) \in Seq(S) /\ Len(SubSeq(s, 1, k - 1)) = k - 1
      /\ SubSeq(s, k + 1, Len(s)) \in Seq(S) /\ Len(SubSeq(s, k + 1, Len(s))) = Len(s) - k
      /\ \A j \in 1 .. k - 1 : SubSeq(s, 1, k - 1)[j] = s[j]
      /\ \A j \in 1 .. Len(s) - k : SubSeq(s, k + 1, Len(s))[j] = s[k + j]
  BY <1>1, <1>7
<1>9. /\ r \in Seq(S) /\ Len(r) = Len(s) - 1
      /\ \A j \in 1 .. Len(s) - 1 : r[j] = IF j < k THEN s[j] ELSE s[j + 1]
  <2>1. PICK t : t = SubSeq(s, 1, k - 1)
    OBVIOUS
  <2>2. PICK u : u = SubSeq(s, k + 1, Len(s))
    OBVIOUS
  <2>3. r = t \o u
    BY <1>5, <1>6, <2>1, <2>2
  <2>4. t \in Seq(S) /\ u \in Seq(S) /\ Len(t) = k - 1 /\ Len(u) = Len(s) - k
    BY <1>8, <2>1, <2>2
  <2>5. /\ r \in Seq(S) /\ Len(r) = Len(t) + Len(u)
        /\ \A j \in 1 .. Len(t) + Len(u) : r[j] = IF j <= Len(t) THEN t[j] ELSE u[j - Len(t)]
    <3>1. /\ t \o u \in Seq(S) /\ Len(t \o u) = Len(t) + Len(u)
          /\ \A j \in 1 .. Len(t) + Len(u) : (t \o u)[j] = IF j <= Len(t) THEN t[j] ELSE u[j - Len(t)]
      BY <2>4, ConcatProperties, Zenon
    <3> QED
      BY <2>3, <3>1, Zenon
  <2>5a. \A j \in 1 .. Len(s) - 1 : r[j] = IF j <= k - 1 THEN t[j] ELSE u[j - (k - 1)]
    <3>1. Len(t) + Len(u) = Len(s) - 1
      BY <1>1, <1>7, <2>4
    <3> QED
      BY <2>4, <2>5, <3>1, Zenon
  <2>6. ASSUME NEW j \in 1 .. Len(s) - 1 PROVE r[j] = IF j < k THEN s[j] ELSE s[j + 1]
    <3>1. CASE j < k
      <4>1. r[j] = t[j] /\ j \in 1 .. k - 1
        BY <1>1, <1>7, <2>5a, <3>1
      <4> QED
        BY <1>8, <2>1, <3>1, <4>1
    <3>2. CASE ~ (j < k)
      <4>1. r[j] = u[j - (k - 1)] /\ j - (k - 1) \in 1 .. Len(s) - k /\ k + (j - (k - 1)) = j + 1
        BY <1>1, <1>7, <2>5a, <3>2
      <4> QED
        BY <1>8, <2>2, <3>2, <4>1
    <3> QED
      BY <3>1, <3>2
  <2> QED
    BY <1>1, <1>7, <2>4, <2>5, <2>6
<1>10. List(r, S)
  <2> SUFFICES ASSUME NEW i \in 1 .. Len(r), NEW j \in 1 .. Len(r), r[i] = r[j] PROVE i = j
    BY <1>9 DEF List
  <2> DEFINE at(l) == IF l < k THEN l ELSE l + 1
  <2>1. /\ i \in 1 .. Len(s) - 1 /\ j \in 1 .. Len(s) - 1
        /\ at(i) \in 1 .. Len(s) /\ at(j) \in 1 .. Len(s) /\ (at(i) = at(j) => i = j)
    BY <1>1, <1>7, <1>9
  <2>2. r[i] = s[at(i)] /\ r[j] = s[at(j)]
    BY <1>9, <2>1
  <2> QED
    BY <2>1, <2>2 DEF List
<1>11. ASSUME NEW x PROVE Contains(r, x) <=> Contains(s, x) /\ x # e
  <2>1. ASSUME NEW j \in 1 .. Len(r), r[j] = x PROVE Contains(s, x) /\ x # e
    <3> DEFINE l == IF j < k THEN j ELSE j + 1
    <3>1. l \in 1 .. Len(s) /\ l # k /\ j \in 1 .. Len(s) - 1
      BY <1>1, <1>7, <1>9
    <3>2. s[l] = x
      BY <1>9, <2>1, <3>1
    <3> QED
      BY <1>1, <3>1, <3>2 DEF Contains, List
  <2>2. ASSUME NEW l \in 1 .. Len(s), s[l] = x, x # e PROVE Contains(r, x)
    <3> DEFINE j == IF l < k THEN l ELSE l - 1
    <3>1. l # k
      BY <1>1, <2>2
    <3>2. j \in 1 .. Len(s) - 1 /\ r[j] = s[l]
      BY <1>1, <1>7, <1>9, <3>1
    <3> QED
      BY <1>9, <2>2, <3>2 DEF Contains
  <2> QED
    BY <2>1, <2>2 DEF Contains
<1> QED
  BY <1>6, <1>9, <1>10, <1>11

LEMMA ReplacedAll ==
  ASSUME NEW S, NEW s, List(s, S), NEW old, NEW new \in S, Contains(s, old), ~ Contains(s, new)
  PROVE  /\ List(ReplaceAll(s, old, new), S) /\ Len(ReplaceAll(s, old, new)) = Len(s)
         /\ \A x : Contains(ReplaceAll(s, old, new), x) <=> (Contains(s, x) /\ x # old) \/ x = new
<1>1. PICK r : r = ReplaceAll(s, old, new)
  OBVIOUS
<1>2. /\ r \in Seq(S) /\ Len(r) = Len(s) /\ Len(s) \in Nat
      /\ \A i \in 1 .. Len(s) : r[i] = IF s[i] = old THEN new ELSE s[i]
  <2>1. s \in Seq(S) /\ Len(s) \in Nat /\ \A i \in 1 .. Len(s) : s[i] \in S
    BY DEF List
  <2>2. r = [i \in 1 .. Len(s) |-> IF s[i] = old THEN new ELSE s[i]]
    BY <1>1 DEF ReplaceAll
  <2>3. r \in [1 .. Len(s) -> S]
    BY <2>1, <2>2
  <2> QED
    BY <2>1, <2>2, <2>3
<1>3. \A i \in 1 .. Len(s) : s[i] # new
  BY DEF Contains
<1>4. List(r, S)
  BY <1>2, <1>3 DEF List
<1>5. PICK k \in 1 .. Len(s) : s[k] = old
  BY DEF Contains
<1>6. ASSUME NEW x PROVE Contains(r, x) <=> (Contains(s, x) /\ x # old) \/ x = new
  <2>1. ASSUME NEW i \in 1 .. Len(s), r[i] = x PROVE (Contains(s, x) /\ x # old) \/ x = new
    BY <1>2, <2>1 DEF Contains
  <2>2. ASSUME NEW i \in 1 .. Len(s), s[i] = x, x # old PROVE Contains(r, x)
    BY <1>2, <2>2 DEF Contains
  <2>3. Contains(r, new)
    BY <1>2, <1>5 DEF Contains
  <2> QED
    BY <1>2, <2>1, <2>2, <2>3 DEF Contains
<1> QED
  BY <1>1, <1>2, <1>4, <1>6

(* A neighbour takes the place of another, or loses it if it is there       *)
(* already.                                                                 *)
LEMMA ReplacedList ==
  ASSUME NEW S, NEW s, List(s, S), NEW old, NEW new \in S, Contains(s, old), old # new
  PROVE  /\ List(Replaced(s, old, new), S) /\ Len(Replaced(s, old, new)) \in 1 .. Len(s)
         /\ \A x : Contains(Replaced(s, old, new), x) <=> (Contains(s, x) /\ x # old) \/ x = new
<1>1. CASE Contains(s, new)
  <2>1. Replaced(s, old, new) = RemoveFirst(s, old)
    BY <1>1 DEF Replaced
  <2>2. \A x : Contains(RemoveFirst(s, old), x) <=> (Contains(s, x) /\ x # old) \/ x = new
    BY <1>1, RemovedList
  <2>3. Len(RemoveFirst(s, old)) = Len(s) - 1 /\ Len(s) - 1 # 0 /\ Len(s) \in Nat
    <3>1. Len(RemoveFirst(s, old)) = Len(s) - 1 /\ Len(s) \in Nat
      BY RemovedList DEF List
    <3>2. Contains(RemoveFirst(s, old), new)
      BY <2>2
    <3>3. Len(RemoveFirst(s, old)) # 0
      BY <3>2 DEF Contains
    <3> QED
      BY <3>1, <3>3
  <2>4. Len(s) >= 1
    BY <2>3 DEF Contains
  <2> QED
    BY <2>1, <2>2, <2>3, <2>4, RemovedList
<1>2. CASE ~ Contains(s, new)
  <2>1. Replaced(s, old, new) = ReplaceAll(s, old, new)
    BY <1>2 DEF Replaced
  <2>2. Len(s) \in Nat /\ Len(s) >= 1
    BY DEF Contains, List
  <2> QED
    BY <1>2, <2>1, <2>2, ReplacedAll
<1> QED
  BY <1>1, <1>2

(* The list to which the others are added, one after the other.             *)
Joins(base, others, f, m) ==
  f = [i \in 1 .. m |-> IF i = 1 THEN base ELSE AddOnce(f[i - 1], others[i])]

LEMMA JoinsExist ==
  ASSUME NEW base, NEW others, NEW m \in Nat
  PROVE  \E f : Joins(base, others, f, m)
<1> DEFINE S == {n \in Nat : \E f : Joins(base, others, f, n)}
<1>1. 0 \in S
  <2> DEFINE f == [i \in 1 .. 0 |-> base]
  <2>1. f = [i \in 1 .. 0 |-> IF i = 1 THEN base ELSE AddOnce(f[i - 1], others[i])]
    OBVIOUS
  <2> HIDE DEF f
  <2> QED
    BY <2>1 DEF Joins
<1>2. ASSUME NEW n \in Nat, n \in S PROVE n + 1 \in S
  <2>1. PICK f : Joins(base, others, f, n)
    BY <1>2
  <2> DEFINE value(i, h) == IF i = 1 THEN base ELSE AddOnce(h[i - 1], others[i])
             h == [i \in 1 .. n + 1 |-> IF i = n + 1 THEN value(n + 1, f) ELSE f[i]]
  <2>2. \A i \in 1 .. n : f[i] = value(i, f)
    BY <2>1, Zenon DEF Joins
  <2>3. ASSUME NEW i \in 1 .. n + 1 PROVE h[i] = value(i, h)
    <3>1. CASE i \in 1 .. n
      <4>1. h[i] = f[i] /\ (i # 1 => h[i - 1] = f[i - 1])
        BY <3>1
      <4> QED
        BY <2>2, <3>1, <4>1, Zenon
    <3>2. CASE i = n + 1
      <4>1. h[i] = value(n + 1, f)
        BY <3>2
      <4>2. i # 1 => h[i - 1] = f[i - 1]
        BY <3>2
      <4> QED
        BY <3>2, <4>1, <4>2, Zenon
    <3> QED
      BY <3>1, <3>2
  <2>4. h = [i \in 1 .. n + 1 |-> h[i]]
    OBVIOUS
  <2> HIDE DEF h
  <2>5. h = [i \in 1 .. n + 1 |-> value(i, h)]
    BY <2>3, <2>4, Zenon
  <2>6. Joins(base, others, h, n + 1)
    BY <2>5, Zenon DEF Joins
  <2> QED
    BY <2>6
<1> HIDE DEF S
<1>3. m \in S
  BY <1>1, <1>2, NatSetInduction
<1> QED
  BY <1>3 DEF S

LEMMA AddedOnce ==
  ASSUME NEW S, NEW s, List(s, S), NEW e \in S
  PROVE  /\ List(AddOnce(s, e), S)
         /\ \A x : Contains(AddOnce(s, e), x) <=> Contains(s, x) \/ x = e
<1>1. CASE Contains(s, e)
  BY <1>1 DEF AddOnce
<1>2. CASE ~ Contains(s, e)
  <2>1. PICK r : r = Append(s, e)
    OBVIOUS
  <2>2. /\ r \in Seq(S) /\ Len(r) = Len(s) + 1 /\ Len(s) \in Nat /\ r[Len(s) + 1] = e
        /\ \A i \in 1 .. Len(s) : r[i] = s[i]
    BY <2>1 DEF List
  <2>3. \A i \in 1 .. Len(s) : s[i] # e
    BY <1>2 DEF Contains
  <2>4. \A i \in 1 .. Len(r) : i \in 1 .. Len(s) \/ i = Len(s) + 1
    BY <2>2
  <2>5. List(r, S)
    BY <2>2, <2>3, <2>4 DEF List
  <2>6. \A x : Contains(r, x) <=> Contains(s, x) \/ x = e
    <3>1. \A i \in 1 .. Len(s) : i \in 1 .. Len(r)
      BY <2>2
    <3>2. Len(s) + 1 \in 1 .. Len(r)
      BY <2>2
    <3> QED
      BY <2>2, <2>4, <3>1, <3>2, Zenon DEF Contains
  <2> QED
    BY <1>2, <2>1, <2>5, <2>6 DEF AddOnce
<1> QED
  BY <1>1, <1>2

LEMMA JoinedList ==
  ASSUME NEW S, NEW base, List(base, S), NEW others \in Seq(S), Len(others) >= 1, NEW f,
         Joins(base, others, f, Len(others)), Contains(base, others[1])
  PROVE  /\ List(f[Len(others)], S)
         /\ \A x : Contains(f[Len(others)], x) <=> Contains(base, x) \/ Contains(others, x)
<1> DEFINE m == Len(others)
           Good(i) == /\ List(f[i], S)
                      /\ \A x : Contains(f[i], x) <=> Contains(base, x) \/ \E j \in 1 .. i : others[j] = x
           T == {k \in Nat : k + 1 <= m => Good(k + 1)}
<1>1. m \in Nat /\ m >= 1 /\ \A i \in 1 .. m : others[i] \in S
  OBVIOUS
<1>2. \A i \in 1 .. m : f[i] = IF i = 1 THEN base ELSE AddOnce(f[i - 1], others[i])
  BY Zenon DEF Joins
<1> HIDE DEF m
<1>3. 0 \in T
  <2>1. f[1] = base
    BY <1>1, <1>2
  <2>2. Good(1)
    BY <2>1
  <2> QED
    BY <2>2
<1>4. ASSUME NEW k \in Nat, k \in T PROVE k + 1 \in T
  <2> SUFFICES ASSUME k + 2 <= m PROVE Good(k + 2)
    OBVIOUS
  <2>0. k + 1 <= m /\ k + 2 \in 1 .. m /\ k + 2 # 1 /\ (k + 2) - 1 = k + 1
    BY <1>1
  <2>1. Good(k + 1)
    BY <1>4, <2>0
  <2>2. f[k + 2] = AddOnce(f[k + 1], others[k + 2]) /\ others[k + 2] \in S
    BY <1>1, <1>2, <2>0
  <2>3. /\ List(f[k + 2], S)
        /\ \A x : Contains(f[k + 2], x) <=> Contains(f[k + 1], x) \/ x = others[k + 2]
    BY <2>1, <2>2, AddedOnce
  <2>4. \A j : j \in 1 .. k + 2 <=> j \in 1 .. k + 1 \/ j = k + 2
    OBVIOUS
  <2> QED
    BY <2>1, <2>3, <2>4, Zenon
<1> HIDE DEF T
<1>5. m - 1 \in T /\ (m - 1) + 1 = m
  BY <1>1, <1>3, <1>4, NatSetInduction
<1>6. Good(m)
  BY <1>1, <1>5 DEF T
<1> QED
  BY <1>6 DEF Contains, m

LEMMA ListBeside ==
  ASSUME NEW S, NEW s, List(s, S), NEW e, ~ Contains(s, e)
  PROVE  List(s, S \ {e})
<1>1. s \in Seq(S) /\ Len(s) \in Nat /\ \A i \in 1 .. Len(s) : s[i] \in S \ {e}
  BY DEF List, Contains
<1>2. s = [i \in 1 .. Len(s) |-> s[i]]
  BY <1>1
<1>3. s \in [1 .. Len(s) -> S \ {e}]
  BY <1>1, <1>2
<1>4. s \in Seq(S \ {e})
  BY <1>1, <1>3
<1> QED
  BY <1>4 DEF List

-----------------------------------------------------------------------------
(* What holds of every graph: every node has a successor, the lists mirror  *)
(* each other, what can be removed has a predecessor, and every cycle goes  *)
(* through the loop's head, since all other edges go upwards in the order R. *)

Order(R) == /\ \A n : << n, n >> \notin R
            /\ \A n, m, k : << n, m >> \in R /\ << m, k >> \in R => << n, k >> \in R

Placed(g, R, nodes, n) ==
  /\ List(g.succ[n], nodes) /\ Len(g.succ[n]) >= 1
  /\ List(g.pred[n], nodes)
  /\ Op(g, n) \in {"assign", "copy"} => Len(g.succ[n]) = 1
  /\ Op(g, n) = "if" => Len(g.succ[n]) <= 2
  /\ Op(g, n) \in {"assign", "copy", "if"} => Len(g.pred[n]) >= 1
  /\ \A m \in nodes :
       /\ Contains(g.succ[n], m) <=> Contains(g.pred[m], n)
       /\ Contains(g.succ[n], m) => Op(g, n) = "while" \/ Op(g, m) = "while" \/ << n, m >> \in R

Shape(g, R) ==
  /\ DOMAIN g.succ \subseteq Nat /\ DOMAIN g.stmt = DOMAIN g.succ /\ DOMAIN g.pred = DOMAIN g.succ
  /\ \A n \in DOMAIN g.succ : Placed(g, R, DOMAIN g.succ, n)

LEMMA WithoutIs ==
  ASSUME NEW g, NEW n, Len(g.pred[n]) \in Nat
  PROVE  \E f : /\ Joins(Replaced(g.pred[g.succ[n][1]], n, g.pred[n][1]), g.pred[n], f, Len(g.pred[n]))
                /\ Without(g, n) =
                     [stmt |-> [m \in DOMAIN g.stmt \ {n} |-> g.stmt[m]],
                      succ |-> [m \in DOMAIN g.succ \ {n} |->
                                  IF Contains(g.pred[n], m) THEN Replaced(g.succ[m], n, g.succ[n][1])
                                  ELSE g.succ[m]],
                      pred |-> [m \in DOMAIN g.pred \ {n} |->
                                  IF m = g.succ[n][1] THEN f[Len(g.pred[n])] ELSE g.pred[m]]]
<1> DEFINE preds == g.pred[n]
           succ == g.succ[n][1]
           base == Replaced(g.pred[succ], n, preds[1])
           f == CHOOSE h : h = [i \in 1 .. Len(preds) |->
                                  IF i = 1 THEN base ELSE AddOnce(h[i - 1], preds[i])]
<1>1. Joins(base, preds, f, Len(preds))
  <2>1. \E h : Joins(base, preds, h, Len(preds))
    <3> HIDE DEF base, preds
    <3>1. Len(preds) \in Nat
      BY DEF preds
    <3> QED
      BY <3>1, JoinsExist
  <2> QED
    BY <2>1, Zenon DEF Joins
<1>2. Without(g, n) =
        [stmt |-> [m \in DOMAIN g.stmt \ {n} |-> g.stmt[m]],
         succ |-> [m \in DOMAIN g.succ \ {n} |->
                     IF Contains(preds, m) THEN Replaced(g.succ[m], n, succ) ELSE g.succ[m]],
         pred |-> [m \in DOMAIN g.pred \ {n} |-> IF m = succ THEN f[Len(preds)] ELSE g.pred[m]]]
  BY Zenon DEF Without
<1> HIDE DEF f
<1> QED
  BY <1>1, <1>2

(* A node is taken out, and the graph has the same shape.                   *)
LEMMA WithoutShape ==
  ASSUME NEW R, Order(R), NEW g, Shape(g, R), NEW n \in DOMAIN g.succ,
         Op(g, n) # "while", Len(g.succ[n]) = 1, Len(g.pred[n]) >= 1
  PROVE  /\ Shape(Without(g, n), R)
         /\ DOMAIN Without(g, n).succ = DOMAIN g.succ \ {n}
         /\ \A m \in DOMAIN g.succ \ {n} :
              /\ Without(g, n).stmt[m] = g.stmt[m]
              /\ Len(g.succ[m]) = 1 => Len(Without(g, n).succ[m]) = 1
<1> DEFINE s == g.succ[n][1]
<1>0. PICK N : N = DOMAIN g.succ
  OBVIOUS
<1>1. /\ n \in N /\ N \subseteq Nat /\ DOMAIN g.stmt = N /\ DOMAIN g.pred = N
      /\ \A m \in N : List(g.succ[m], N) /\ Len(g.succ[m]) >= 1 /\ List(g.pred[m], N)
  BY <1>0 DEF Shape, Placed
<1>1a. ASSUME NEW m \in N, NEW l \in N
       PROVE  /\ Contains(g.succ[m], l) <=> Contains(g.pred[l], m)
              /\ Contains(g.succ[m], l) =>
                   Op(g, m) = "while" \/ Op(g, l) = "while" \/ << m, l >> \in R
  BY <1>0, Zenon DEF Shape, Placed
<1>2. /\ Len(g.pred[n]) \in Nat /\ g.pred[n] \in Seq(N) /\ g.pred[n][1] \in N
      /\ Contains(g.pred[n], g.pred[n][1])
  <2>1. g.pred[n] \in Seq(N)
    BY <1>1 DEF List
  <2>2. PICK t : t = g.pred[n]
    OBVIOUS
  <2>3. t \in Seq(N) /\ Len(t) >= 1
    BY <2>1, <2>2
  <2>4. Len(t) \in Nat /\ 1 \in 1 .. Len(t) /\ t[1] \in N
    BY <2>3
  <2> QED
    BY <2>1, <2>2, <2>4 DEF Contains
<1>3. s \in N /\ \A m : Contains(g.succ[n], m) <=> m = s
  <2>1. g.succ[n] \in Seq(N) /\ Len(g.succ[n]) = 1
    BY <1>1 DEF List
  <2>2. PICK t : t = g.succ[n]
    OBVIOUS
  <2>3. t \in Seq(N) /\ Len(t) = 1 /\ 1 .. 1 = {1}
    BY <2>1, <2>2
  <2>4. t[1] \in N /\ \A m : Contains(t, m) <=> m = t[1]
    BY <2>3 DEF Contains
  <2> QED
    BY <2>2, <2>4, Zenon
<1>4. << n, n >> \notin R
  BY DEF Order
<1> HIDE DEF s
<1>5. s # n /\ ~ Contains(g.succ[n], n) /\ ~ Contains(g.pred[n], n)
  BY <1>1, <1>1a, <1>3, <1>4
<1>6. PICK f : /\ Joins(Replaced(g.pred[s], n, g.pred[n][1]), g.pred[n], f, Len(g.pred[n]))
               /\ Without(g, n) =
                     [stmt |-> [m \in DOMAIN g.stmt \ {n} |-> g.stmt[m]],
                      succ |-> [m \in DOMAIN g.succ \ {n} |->
                                  IF Contains(g.pred[n], m) THEN Replaced(g.succ[m], n, g.succ[n][1])
                                  ELSE g.succ[m]],
                      pred |-> [m \in DOMAIN g.pred \ {n} |->
                                  IF m = g.succ[n][1] THEN f[Len(g.pred[n])] ELSE g.pred[m]]]
  BY <1>2, WithoutIs DEF s
<1>7. PICK h : h = Without(g, n)
  OBVIOUS
<1>8. PICK joined : joined = f[Len(g.pred[n])]
  OBVIOUS
<1> DEFINE left == N \ {n}
<1>9. /\ DOMAIN h.stmt = left /\ DOMAIN h.succ = left /\ DOMAIN h.pred = left
      /\ \A m \in left : /\ h.stmt[m] = g.stmt[m]
                         /\ h.succ[m] = IF Contains(g.pred[n], m) THEN Replaced(g.succ[m], n, s)
                                        ELSE g.succ[m]
                         /\ h.pred[m] = IF m = s THEN joined ELSE g.pred[m]
  BY <1>0, <1>1, <1>6, <1>7, <1>8 DEF s
<1>10. /\ List(joined, N)
       /\ \A x : Contains(joined, x) <=> (Contains(g.pred[s], x) /\ x # n) \/ Contains(g.pred[n], x)
  <2>1. PICK first : first = g.pred[n][1]
    OBVIOUS
  <2>2. PICK base : base = Replaced(g.pred[s], n, first)
    OBVIOUS
  <2>3. Contains(g.pred[s], n) /\ first \in N /\ first # n /\ List(g.pred[s], N)
    BY <1>1, <1>1a, <1>2, <1>3, <1>5, <2>1
  <2>4. /\ List(base, N)
        /\ \A x : Contains(base, x) <=> (Contains(g.pred[s], x) /\ x # n) \/ x = first
    BY <2>2, <2>3, ReplacedList
  <2>5. Joins(base, g.pred[n], f, Len(g.pred[n])) /\ Contains(base, g.pred[n][1])
    BY <1>6, <2>1, <2>2, <2>4
  <2>6. /\ List(joined, N)
        /\ \A x : Contains(joined, x) <=> Contains(base, x) \/ Contains(g.pred[n], x)
    BY <1>2, <1>8, <2>4, <2>5, JoinedList
  <2> QED
    BY <1>2, <2>1, <2>4, <2>6
<1>11. ASSUME NEW m \in left
       PROVE  /\ List(h.succ[m], left) /\ Len(h.succ[m]) \in 1 .. Len(g.succ[m])
              /\ \A x : Contains(h.succ[m], x) <=>
                          (Contains(g.succ[m], x) /\ x # n) \/ (Contains(g.succ[m], n) /\ x = s)
  <2>1. List(g.succ[m], N) /\ Len(g.succ[m]) >= 1 /\ (Contains(g.succ[m], n) <=> Contains(g.pred[n], m))
    BY <1>1, <1>1a
  <2>2. Len(g.succ[m]) \in Nat
    BY <2>1 DEF List
  <2>3. CASE Contains(g.succ[m], n)
    <3>1. h.succ[m] = Replaced(g.succ[m], n, s)
      BY <1>9, <2>1, <2>3
    <3>2. /\ List(h.succ[m], N) /\ Len(h.succ[m]) \in 1 .. Len(g.succ[m])
          /\ \A x : Contains(h.succ[m], x) <=> (Contains(g.succ[m], x) /\ x # n) \/ x = s
      BY <1>3, <1>5, <2>1, <2>3, <3>1, ReplacedList
    <3>3. ~ Contains(h.succ[m], n)
      BY <1>5, <3>2
    <3>4. List(h.succ[m], left)
      BY <3>2, <3>3, ListBeside
    <3> QED
      BY <2>3, <3>2, <3>4
  <2>4. CASE ~ Contains(g.succ[m], n)
    <3>1. h.succ[m] = g.succ[m]
      BY <1>9, <2>1, <2>4
    <3>2. List(h.succ[m], left)
      BY <2>1, <2>4, <3>1, ListBeside
    <3> QED
      BY <2>1, <2>2, <2>4, <3>1, <3>2
  <2> QED
    BY <2>3, <2>4
<1>12. ASSUME NEW m \in left
       PROVE  /\ List(h.pred[m], left)
              /\ Len(g.pred[m]) >= 1 => Len(h.pred[m]) >= 1
              /\ \A x : Contains(h.pred[m], x) <=>
                          (Contains(g.pred[m], x) /\ x # n) \/ (m = s /\ Contains(g.pred[n], x))
  <2>1. CASE m = s
    <3>1. h.pred[m] = joined
      BY <1>9, <2>1
    <3>2. ~ Contains(joined, n)
      BY <1>5, <1>10
    <3>3. List(joined, left)
      BY <1>10, <3>2, ListBeside
    <3>4. Contains(joined, g.pred[n][1])
      BY <1>2, <1>10
    <3>5. Len(joined) >= 1
      BY <3>3, <3>4 DEF Contains, List
    <3> QED
      BY <1>10, <2>1, <3>1, <3>3, <3>5
  <2>2. CASE m # s
    <3>1. h.pred[m] = g.pred[m] /\ ~ Contains(g.pred[m], n)
      BY <1>1, <1>1a, <1>3, <1>9, <2>2
    <3>2. List(h.pred[m], left)
      BY <1>1, <3>1, ListBeside
    <3> QED
      BY <2>2, <3>1, <3>2
  <2> QED
    BY <2>1, <2>2
<1>13. \A m \in left : Op(h, m) = Op(g, m)
  BY <1>9 DEF Op
<1>14. ASSUME NEW m \in left, NEW l \in left
       PROVE  /\ Contains(h.succ[m], l) <=> Contains(h.pred[l], m)
              /\ Contains(h.succ[m], l) =>
                   Op(h, m) = "while" \/ Op(h, l) = "while" \/ << m, l >> \in R
  <2>1. Contains(h.succ[m], l) <=> Contains(h.pred[l], m)
    <3>1. m \in N /\ l \in N /\ m # n /\ l # n
      OBVIOUS
    <3>2. Contains(h.succ[m], l) <=> Contains(g.succ[m], l) \/ (Contains(g.succ[m], n) /\ l = s)
      BY <1>11, <3>1
    <3>3. Contains(h.pred[l], m) <=> Contains(g.pred[l], m) \/ (l = s /\ Contains(g.pred[n], m))
      BY <1>12, <3>1
    <3>4. /\ Contains(g.succ[m], l) <=> Contains(g.pred[l], m)
          /\ Contains(g.succ[m], n) <=> Contains(g.pred[n], m)
      BY <1>1, <1>1a, <3>1
    <3> QED
      BY <3>2, <3>3, <3>4
  <2>2. ASSUME Contains(g.succ[m], n), l = s
        PROVE  Op(g, m) = "while" \/ Op(g, l) = "while" \/ << m, l >> \in R
    <3>1. Op(g, m) = "while" \/ << m, n >> \in R
      BY <1>1, <1>1a, <2>2
    <3>2. Op(g, l) = "while" \/ << n, l >> \in R
      BY <1>1, <1>1a, <1>3, <2>2
    <3> QED
      BY <3>1, <3>2 DEF Order
  <2> QED
    BY <1>1a, <1>11, <1>13, <2>1, <2>2
<1>15. ASSUME NEW m \in left
       PROVE  /\ Op(h, m) \in {"assign", "copy"} => Len(h.succ[m]) = 1
              /\ Op(h, m) = "if" => Len(h.succ[m]) <= 2
              /\ Op(h, m) \in {"assign", "copy", "if"} => Len(h.pred[m]) >= 1
              /\ Len(g.succ[m]) = 1 => Len(h.succ[m]) = 1
  <2>1. Len(h.succ[m]) \in Nat /\ Len(h.succ[m]) >= 1 /\ Len(h.succ[m]) <= Len(g.succ[m])
        /\ Len(g.succ[m]) \in Nat
    <3>1. Len(g.succ[m]) \in Nat
      <4>1. List(g.succ[m], N)
        BY <1>1
      <4> QED
        BY <4>1 DEF List
    <3> QED
      BY <1>11, <3>1
  <2>2. /\ Op(g, m) \in {"assign", "copy"} => Len(g.succ[m]) = 1
        /\ Op(g, m) = "if" => Len(g.succ[m]) <= 2
        /\ Op(g, m) \in {"assign", "copy", "if"} => Len(g.pred[m]) >= 1
    BY <1>0 DEF Shape, Placed
  <2>3. PICK a : a = Len(g.succ[m])
    OBVIOUS
  <2>4. PICK b : b = Len(h.succ[m])
    OBVIOUS
  <2>5. a \in Nat /\ b \in Nat /\ 1 <= b /\ b <= a
    BY <2>1, <2>3, <2>4
  <2>6. (a = 1 => b = 1) /\ (a <= 2 => b <= 2)
    BY <2>5
  <2>7. Len(g.pred[m]) >= 1 => Len(h.pred[m]) >= 1
    BY <1>12
  <2>8. Op(h, m) = Op(g, m)
    BY <1>13
  <2> QED
    BY <2>2, <2>3, <2>4, <2>6, <2>7, <2>8, Zenon
<1>16. Shape(h, R)
  <2>1. left \subseteq Nat /\ DOMAIN h.succ = left /\ DOMAIN h.stmt = left /\ DOMAIN h.pred = left
    BY <1>1, <1>9
  <2>2. \A m \in left : Len(h.succ[m]) >= 1
    <3> SUFFICES ASSUME NEW m \in left PROVE Len(h.succ[m]) >= 1
      OBVIOUS
    <3>1. Len(g.succ[m]) \in Nat
      <4>1. List(g.succ[m], N)
        BY <1>1
      <4> QED
        BY <4>1 DEF List
    <3> QED
      BY <1>11, <3>1
  <2>3. \A m \in left : List(h.succ[m], left) /\ List(h.pred[m], left)
    BY <1>11, <1>12
  <2>4. \A m \in left : Placed(h, R, left, m)
    BY <1>14, <1>15, <2>2, <2>3 DEF Placed
  <2> HIDE DEF left
  <2> QED
    BY <2>1, <2>4 DEF Shape
<1> QED
  BY <1>0, <1>7, <1>9, <1>15, <1>16

(* The graphs that are left, one node after the other.                      *)
Lefts(g, ns, f, m) ==
  f = [k \in 0 .. m |-> IF k = 0 THEN g
                        ELSE IF k - 1 \in ns THEN Without(f[k - 1], k - 1) ELSE f[k - 1]]

LEMMA LeftsExist ==
  ASSUME NEW g, NEW ns, NEW m \in Nat
  PROVE  \E f : Lefts(g, ns, f, m)
<1> DEFINE S == {n \in Nat : \E f : Lefts(g, ns, f, n)}
           value(i, h) == IF i = 0 THEN g
                          ELSE IF i - 1 \in ns THEN Without(h[i - 1], i - 1) ELSE h[i - 1]
<1>1. 0 \in S
  <2> DEFINE f == [i \in 0 .. 0 |-> g]
  <2>1. f = [i \in 0 .. 0 |-> value(i, f)]
    OBVIOUS
  <2> HIDE DEF f
  <2>2. Lefts(g, ns, f, 0)
    BY <2>1, Zenon DEF Lefts
  <2> QED
    BY <2>2
<1>2. ASSUME NEW n \in Nat, n \in S PROVE n + 1 \in S
  <2>1. PICK f : Lefts(g, ns, f, n)
    BY <1>2
  <2> DEFINE h == [i \in 0 .. n + 1 |-> IF i = n + 1 THEN value(n + 1, f) ELSE f[i]]
  <2>2. \A i \in 0 .. n : f[i] = value(i, f)
    BY <2>1, Zenon DEF Lefts
  <2>3. ASSUME NEW i \in 0 .. n + 1 PROVE h[i] = value(i, h)
    <3>1. CASE i \in 0 .. n
      <4>1. h[i] = f[i] /\ (i # 0 => h[i - 1] = f[i - 1])
        BY <3>1
      <4> QED
        BY <2>2, <3>1, <4>1, Zenon
    <3>2. CASE i = n + 1
      <4>1. h[i] = value(n + 1, f)
        BY <3>2
      <4>2. i # 0 => h[i - 1] = f[i - 1]
        BY <3>2
      <4> QED
        BY <3>2, <4>1, <4>2, Zenon
    <3> QED
      BY <3>1, <3>2
  <2>4. h = [i \in 0 .. n + 1 |-> h[i]]
    OBVIOUS
  <2> HIDE DEF h
  <2>5. h = [i \in 0 .. n + 1 |-> value(i, h)]
    BY <2>3, <2>4, Zenon
  <2>6. Lefts(g, ns, h, n + 1)
    BY <2>5, Zenon DEF Lefts
  <2> QED
    BY <2>6
<1> HIDE DEF S
<1>3. m \in S
  BY <1>1, <1>2, NatSetInduction
<1> QED
  BY <1>3 DEF S

(* Whatever is removed, as long as it has one successor.                    *)
LEMMA LeftShape ==
  ASSUME NEW R, Order(R), NEW g, Shape(g, R), NEW ns, ns \subseteq DOMAIN g.succ,
         \A n \in ns : Op(g, n) \in {"assign", "copy", "if"} /\ Len(g.succ[n]) = 1,
         NEW m \in Nat, NEW f, Lefts(g, ns, f, m)
  PROVE  /\ Shape(f[m], R)
         /\ DOMAIN f[m].succ \subseteq DOMAIN g.succ
         /\ DOMAIN g.succ \ ns \subseteq DOMAIN f[m].succ
         /\ \A n \in DOMAIN f[m].succ : f[m].stmt[n] = g.stmt[n]
<1> DEFINE Good(k) == /\ Shape(f[k], R)
                      /\ DOMAIN f[k].succ = DOMAIN g.succ \ {n \in ns : n < k}
                      /\ \A n \in DOMAIN f[k].succ :
                           /\ f[k].stmt[n] = g.stmt[n]
                           /\ n \in ns => Len(f[k].succ[n]) = 1
           T == {k \in Nat : k <= m => Good(k)}
<1>0. PICK N : N = DOMAIN g.succ
  OBVIOUS
<1>1. N \subseteq Nat /\ ns \subseteq N
  BY <1>0 DEF Shape
<1>2. \A k \in 0 .. m : f[k] = IF k = 0 THEN g
                               ELSE IF k - 1 \in ns THEN Without(f[k - 1], k - 1) ELSE f[k - 1]
  BY Zenon DEF Lefts
<1>3. 0 \in T
  <2>1. f[0] = g
    BY <1>2
  <2>2. ASSUME NEW n \in ns PROVE ~ (n < 0)
    <3>1. n \in Nat
      BY <1>1
    <3> QED
      BY <3>1
  <2>3. Good(0)
    BY <2>1, <2>2
  <2> QED
    BY <2>3
<1>4. ASSUME NEW k \in Nat, k \in T PROVE k + 1 \in T
  <2> SUFFICES ASSUME k + 1 <= m PROVE Good(k + 1)
    OBVIOUS
  <2>0. k \in 0 .. m /\ k + 1 \in 0 .. m /\ k + 1 # 0 /\ (k + 1) - 1 = k
    OBVIOUS
  <2>1. Good(k)
    BY <1>4, <2>0
  <2>2. f[k + 1] = IF k \in ns THEN Without(f[k], k) ELSE f[k]
    BY <1>2, <2>0
  <2>3. PICK h : h = f[k]
    OBVIOUS
  <2>4. PICK D : D = DOMAIN h.succ
    OBVIOUS
  <2>5. /\ Shape(h, R) /\ D = N \ {n \in ns : n < k}
        /\ \A n \in D : h.stmt[n] = g.stmt[n] /\ (n \in ns => Len(h.succ[n]) = 1)
    BY <1>0, <2>1, <2>3, <2>4
  <2>6. \A n \in N : n < k + 1 <=> n < k \/ n = k
    BY <1>1
  <2>7. CASE k \in ns
    <3>1. k \in D
      BY <1>1, <2>5, <2>7
    <3>2. Op(h, k) \in {"assign", "copy", "if"} /\ Len(h.succ[k]) = 1
      BY <2>5, <2>7, <3>1 DEF Op
    <3>3. Len(h.pred[k]) >= 1
      BY <2>4, <2>5, <3>1, <3>2 DEF Shape, Placed
    <3>4. PICK w : w = Without(h, k)
      OBVIOUS
    <3>5. /\ Shape(w, R) /\ DOMAIN w.succ = D \ {k}
          /\ \A n \in D \ {k} : w.stmt[n] = h.stmt[n] /\ (Len(h.succ[n]) = 1 => Len(w.succ[n]) = 1)
      <4>1. k \in DOMAIN h.succ /\ Op(h, k) # "while" /\ Len(h.succ[k]) = 1
        BY <2>4, <3>1, <3>2
      <4>2. /\ Shape(Without(h, k), R) /\ DOMAIN Without(h, k).succ = DOMAIN h.succ \ {k}
            /\ \A n \in DOMAIN h.succ \ {k} :
                 /\ Without(h, k).stmt[n] = h.stmt[n]
                 /\ Len(h.succ[n]) = 1 => Len(Without(h, k).succ[n]) = 1
        BY <2>5, <3>3, <4>1, WithoutShape
      <4> QED
        BY <2>4, <3>4, <4>2
    <3>6. D \ {k} = N \ {n \in ns : n < k + 1}
      BY <1>1, <2>5, <2>6, <2>7
    <3>7. f[k + 1] = w
      BY <2>2, <2>3, <2>7, <3>4
    <3> QED
      BY <1>0, <2>5, <3>5, <3>6, <3>7
  <2>8. CASE k \notin ns
    <3>1. f[k + 1] = h
      BY <2>2, <2>3, <2>8
    <3>2. D = N \ {n \in ns : n < k + 1}
      BY <1>1, <2>5, <2>6, <2>8
    <3> QED
      BY <1>0, <2>4, <2>5, <3>1, <3>2
  <2> QED
    BY <2>7, <2>8
<1> HIDE DEF T
<1>5. m \in T
  BY <1>3, <1>4, NatSetInduction
<1>6. Good(m)
  BY <1>5 DEF T
<1> QED
  BY <1>6

(* The graph while it is analysed: the first node is empty and stays.       *)
GraphInv ==
  /\ \E R : Order(R) /\ Shape(graph, R)
  /\ 0 \in Nodes /\ Op(graph, 0) = "empty"
  /\ \E b \in Nat : \A n \in Nodes : n <= b

LEMMA WithoutAllIs ==
  ASSUME NEW ns, LastNode \in Nat
  PROVE  \E h : Lefts(graph, ns, h, LastNode + 1) /\ WithoutAll(ns) = h[LastNode + 1]
<1> DEFINE m == LastNode + 1
           g == graph
           f == CHOOSE h : h = [k \in 0 .. LastNode + 1 |->
                                  IF k = 0 THEN graph
                                  ELSE IF k - 1 \in ns THEN Without(h[k - 1], k - 1) ELSE h[k - 1]]
<1>1. Lefts(graph, ns, f, LastNode + 1)
  <2>1. \E h : Lefts(graph, ns, h, LastNode + 1)
    BY LeftsExist
  <2> QED
    BY <2>1, Zenon DEF Lefts
<1>2. WithoutAll(ns) = f[LastNode + 1]
  BY Zenon DEF WithoutAll
<1> HIDE DEF f
<1> QED
  BY <1>1, <1>2

LEMMA RemovalKeeps ==
  ASSUME GraphInv, NEW ns \in SUBSET Nodes, graph' = WithoutAll(ns),
         \A n \in ns : Op(graph, n) \in {"assign", "copy", "if"} /\ Len(graph.succ[n]) = 1
  PROVE  /\ GraphInv' /\ Nodes' \subseteq Nodes
         /\ \A n \in Nodes' : graph'.stmt[n] = graph.stmt[n]
<1>1. PICK R : Order(R) /\ Shape(graph, R)
  BY DEF GraphInv
<1>2. PICK b \in Nat : \A n \in Nodes : n <= b
  BY DEF GraphInv
<1>3. PICK N : N = Nodes
  OBVIOUS
<1>4. N \subseteq Nat /\ 0 \in N /\ Op(graph, 0) = "empty"
  BY <1>1, <1>3 DEF GraphInv, Shape, Nodes
<1>5. LastNode \in Nat
  <2>1. Max(N) \in N
    BY <1>2, <1>3, <1>4, MaxOf
  <2> QED
    BY <1>3, <1>4, <2>1 DEF LastNode
<1>6. PICK h : Lefts(graph, ns, h, LastNode + 1) /\ WithoutAll(ns) = h[LastNode + 1]
  BY <1>5, WithoutAllIs
<1>7. PICK m \in Nat : m = LastNode + 1
  BY <1>5
<1>8. PICK g : g = graph
  OBVIOUS
<1>9. /\ Shape(h[m], R) /\ DOMAIN h[m].succ \subseteq N /\ N \ ns \subseteq DOMAIN h[m].succ
      /\ \A n \in DOMAIN h[m].succ : h[m].stmt[n] = g.stmt[n]
  <2>1. Shape(g, R) /\ DOMAIN g.succ = N /\ ns \in SUBSET N /\ Lefts(g, ns, h, m)
    BY <1>1, <1>3, <1>6, <1>7, <1>8 DEF Nodes
  <2>2. \A n \in ns : Op(g, n) \in {"assign", "copy", "if"} /\ Len(g.succ[n]) = 1
    BY <1>8
  <2>3. ns \subseteq DOMAIN g.succ
    BY <2>1
  <2>4. /\ Shape(h[m], R) /\ DOMAIN h[m].succ \subseteq DOMAIN g.succ
        /\ DOMAIN g.succ \ ns \subseteq DOMAIN h[m].succ
        /\ \A n \in DOMAIN h[m].succ : h[m].stmt[n] = g.stmt[n]
    <3>1. Order(R) /\ Shape(g, R) /\ Lefts(g, ns, h, m)
      BY <1>1, <2>1
    <3>2. m \in Nat
      OBVIOUS
    <3>3. Shape(h[m], R)
      BY <2>2, <2>3, <3>1, <3>2, LeftShape, Zenon
    <3>4. DOMAIN h[m].succ \subseteq DOMAIN g.succ
      BY <2>2, <2>3, <3>1, <3>2, LeftShape, Zenon
    <3>5. DOMAIN g.succ \ ns \subseteq DOMAIN h[m].succ
      BY <2>2, <2>3, <3>1, <3>2, LeftShape, Zenon
    <3>6. ASSUME NEW n \in DOMAIN h[m].succ PROVE h[m].stmt[n] = g.stmt[n]
      BY <2>2, <2>3, <3>1, <3>2, LeftShape, SMTT(30)
    <3> QED
      BY <3>3, <3>4, <3>5, <3>6
  <2> QED
    BY <2>1, <2>4
<1>10. graph' = h[m]
  BY <1>6, <1>7
<1>11. Nodes' = DOMAIN h[m].succ
  BY <1>10 DEF Nodes
<1>12. 0 \notin ns
  BY <1>4
<1>13. 0 \in Nodes' /\ Op(graph, 0)' = "empty"
  BY <1>4, <1>8, <1>9, <1>10, <1>11, <1>12 DEF Op
<1>14. \E S : Order(S) /\ Shape(graph', S)
  BY <1>1, <1>9, <1>10
<1>15. \A n \in Nodes' : n <= b
  BY <1>2, <1>3, <1>9, <1>11
<1> QED
  BY <1>3, <1>8, <1>9, <1>10, <1>11, <1>13, <1>14, <1>15 DEF GraphInv

(* What is known of an assignment of a variable to itself that is there.    *)
SelfInv == \A n \in deadAssignmentSet : n \in Nodes => Op(graph, n) = "copy"

LEMMA NodeOf ==
  ASSUME GraphInv, NEW n \in Nodes
  PROVE  /\ Op(graph, n) \in {"assign", "copy"} => Len(graph.succ[n]) = 1
         /\ Op(graph, n) = "if" => Len(graph.succ[n]) \in {1, 2}
<1>1. PICK R : Order(R) /\ Shape(graph, R)
  BY DEF GraphInv
<1>2. Placed(graph, R, Nodes, n)
  BY <1>1 DEF Shape, Nodes
<1>3. PICK a : a = Len(graph.succ[n])
  OBVIOUS
<1>4. a \in Nat /\ a >= 1
  BY <1>2, <1>3 DEF Placed, List
<1>5. /\ Op(graph, n) \in {"assign", "copy"} => a = 1
      /\ Op(graph, n) = "if" => a <= 2
  BY <1>2, <1>3 DEF Placed
<1>6. a <= 2 => a \in {1, 2}
  BY <1>4
<1> QED
  BY <1>3, <1>5, <1>6

LEMMA LivenessKeeps ==
  ASSUME GraphInv, SelfInv, LivenessNext
  PROVE  GraphInv' /\ SelfInv'
<1>1. ASSUME UNCHANGED << graph, deadAssignmentSet >> PROVE GraphInv' /\ SelfInv'
  BY <1>1 DEF GraphInv, SelfInv, Nodes, Op
<1>2. ASSUME NEW ns \in SUBSET Nodes, graph' = WithoutAll(ns), UNCHANGED deadAssignmentSet,
             \A n \in ns : Op(graph, n) \in {"assign", "copy", "if"} /\ Len(graph.succ[n]) = 1
      PROVE  GraphInv' /\ SelfInv'
  <2>1. /\ GraphInv' /\ Nodes' \subseteq Nodes
        /\ \A n \in Nodes' : graph'.stmt[n] = graph.stmt[n]
    BY <1>2, RemovalKeeps
  <2>2. ASSUME NEW n \in deadAssignmentSet', n \in Nodes' PROVE Op(graph, n)' = "copy"
    <3>1. n \in deadAssignmentSet /\ n \in Nodes /\ graph'.stmt[n] = graph.stmt[n]
      BY <1>2, <2>1, <2>2
    <3> QED
      BY <3>1 DEF SelfInv, Op
  <2> QED
    BY <2>1, <2>2 DEF SelfInv, Op
<1>3. CASE Traverse
  BY <1>1, <1>3 DEF Traverse
<1>4. CASE CountToggles
  BY <1>1, <1>4 DEF CountToggles
<1>5. CASE RemoveDead
  <2>1. PICK x \in assigned : graph' = WithoutAll({n \in Nodes : x \in Assigns(Statement(n)) /\ IsDead(n)})
    BY <1>5 DEF RemoveDead
  <2>2. PICK dead : dead = {n \in Nodes : x \in Assigns(Statement(n)) /\ IsDead(n)}
    OBVIOUS
  <2>3. ASSUME NEW n \in dead PROVE n \in Nodes /\ Op(graph, n) \in {"assign", "copy"}
    <3>1. n \in Nodes /\ x \in Assigns(Statement(n))
      BY <2>2
    <3> QED
      BY <3>1 DEF Assigns, Only, Op, Statement
  <2>4. UNCHANGED deadAssignmentSet
    BY <1>5 DEF RemoveDead
  <2> QED
    BY <1>2, <2>1, <2>2, <2>3, <2>4, NodeOf
<1>6. CASE RemovePointless
  <2>1. CASE deadNodeDetected
    <3>1. graph' = WithoutAll(pointlessIfStmts) /\ UNCHANGED deadAssignmentSet
      BY <1>6, <2>1 DEF RemovePointless
    <3>2. PICK ns : ns = pointlessIfStmts
      OBVIOUS
    <3>3. ASSUME NEW n \in ns PROVE n \in Nodes /\ Op(graph, n) = "if" /\ Len(graph.succ[n]) = 1
      BY <3>2, NodeOf DEF pointlessIfStmts
    <3> QED
      BY <1>2, <3>1, <3>2, <3>3
  <2>2. CASE ~ deadNodeDetected
    BY <1>1, <1>6, <2>2 DEF RemovePointless
  <2> QED
    BY <2>1, <2>2
<1>7. CASE RemoveSelfAssignments
  <2>1. CASE deadAssignmentSet \subseteq Nodes
    <3>1. graph' = WithoutAll(deadAssignmentSet) /\ UNCHANGED deadAssignmentSet
      BY <1>7, <2>1 DEF RemoveSelfAssignments
    <3>2. PICK ns : ns = deadAssignmentSet
      OBVIOUS
    <3>3. ASSUME NEW n \in ns PROVE n \in Nodes /\ Op(graph, n) = "copy" /\ Len(graph.succ[n]) = 1
      BY <2>1, <3>2, NodeOf DEF SelfInv
    <3> QED
      BY <1>2, <3>1, <3>2, <3>3
  <2>2. CASE ~ (deadAssignmentSet \subseteq Nodes)
    BY <1>1, <1>7, <2>2 DEF RemoveSelfAssignments
  <2> QED
    BY <2>1, <2>2
<1> QED
  BY <1>3, <1>4, <1>5, <1>6, <1>7 DEF LivenessNext

LEMMA MirrorsWhenShaped ==
  ASSUME NEW R, Shape(graph, R)
  PROVE  NeighboursMirror
<1> SUFFICES ASSUME NEW n \in Nodes
             PROVE  /\ graph.succ[n] # << >>
                    /\ ToSet(graph.succ[n]) \cup ToSet(graph.pred[n]) \subseteq Nodes
                    /\ \A m \in Nodes : Contains(graph.succ[n], m) <=> Contains(graph.pred[m], n)
  BY DEF NeighboursMirror
<1>1. Placed(graph, R, Nodes, n)
  BY DEF Shape, Nodes
<1>2. graph.succ[n] \in Seq(Nodes) /\ graph.pred[n] \in Seq(Nodes) /\ Len(graph.succ[n]) >= 1
  BY <1>1 DEF Placed, List
<1>3. PICK s : s = graph.succ[n]
  OBVIOUS
<1>4. PICK t : t = graph.pred[n]
  OBVIOUS
<1>5. s # << >> /\ ToSet(s) \subseteq Nodes /\ ToSet(t) \subseteq Nodes
  BY <1>2, <1>3, <1>4 DEF ToSet
<1> QED
  BY <1>1, <1>3, <1>4, <1>5 DEF Placed

-----------------------------------------------------------------------------
(* The graph is built from a thread's blocks.                               *)

(* The blocks that may follow the one at i of the map m of the source s,    *)
(* where next gives those of a block.                                       *)
Following(s, next, m, i) == IF i = 2 THEN {s.first} ELSE ToSet(next[m[i].clang])

CfgBlocks(S, T) == [clang : Nat, stmts : S, terminator : T, succ : Seq(Nat)]
Kinds(s, ends) ==
  CfgBlocks({<< >>, s.init} \cup {s.blocks[b].stmts : b \in DOMAIN s.blocks},
            {<< >>} \cup {ends[b] : b \in DOMAIN s.blocks})

(* Block i of the map, which is neither the entry nor the constructor's.     *)
OfClang(s, ends, m, i) ==
  /\ m[i].clang \in DOMAIN s.blocks
  /\ m[i].stmts = s.blocks[m[i].clang].stmts
  /\ m[i].terminator = ends[m[i].clang]

Led(s, next, m, i, j) ==
  j \in 2 .. Len(m) - 1 /\ m[j + 1].clang \in Following(s, next, m, i)

(* The map while it is built.                                               *)
MapInv(s, next, ends, m) ==
  /\ m \in Seq(Kinds(s, ends)) /\ Len(m) >= 2
  /\ m[1] = [clang |-> Entry, stmts |-> << >>, terminator |-> << >>, succ |-> << 1 >>]
  /\ m[2].clang = Entry /\ m[2].stmts = s.init /\ m[2].terminator = << >>
  /\ \A i \in 3 .. Len(m) : OfClang(s, ends, m, i)
  /\ \A i, j \in 3 .. Len(m) : m[i].clang = m[j].clang => i = j
  /\ \A i \in 2 .. Len(m) : /\ List(m[i].succ, Nat)
                            /\ \A k \in 1 .. Len(m[i].succ) : Led(s, next, m, i, m[i].succ[k])

(* What is still to be visited: blocks, each with the number of a parent.   *)
CallSet(s) == (DOMAIN s.blocks) \X Nat

TodoInv(s, next, m, calls) ==
  /\ calls \in Seq(CallSet(s))
  /\ \A k \in 1 .. Len(calls) : /\ calls[k][2] + 1 \in 2 .. Len(m)
                                /\ calls[k][1] \in Following(s, next, m, calls[k][2] + 1)
  /\ \A i \in 2 .. Len(m) : m[i].succ = << >> => \E k \in 1 .. Len(calls) : calls[k][2] + 1 = i

Reached(m) == \A j \in 2 .. Len(m) : \E i \in 1 .. Len(m) : Contains(m[i].succ, j - 1)

Nexts == [b \in DOMAIN source.blocks |-> VisitNext(b)]
Ends == [b \in DOMAIN source.blocks |-> Terminator(b)]

BuildInv ==
  /\ MapInv(source, Nexts, Ends, controlFlowMap)
  /\ TodoInv(source, Nexts, controlFlowMap, todo)
  /\ Reached(controlFlowMap)

(* The blocks of a source, where next gives those that are visited after    *)
(* one and ends the statement it ends with.                                 *)
LaidNext(blocks, next, ends, b) ==
  /\ next[b] \in Seq(DOMAIN blocks) /\ next[b] # << >>
  /\ \/ Len(next[b]) = 1 /\ ends[b] = << >> /\ blocks[b].class # "while"
     \/ Len(next[b]) = 2 /\ Len(ends[b]) = 1 /\ ends[b][1].op = "if" /\ blocks[b].class = "if"
     \/ /\ Len(next[b]) = 1 /\ ends[b] = << [op |-> "while"] >>
        /\ blocks[b].class = "while" /\ blocks[b].stmts = << >>
  /\ blocks[b].stmts \in Seq(ToSet(blocks[b].stmts))
  /\ ends[b] \in Seq(ToSet(ends[b]))
  /\ blocks[b].class # "while" => \A c \in ToSet(next[b]) : blocks[c].class = "while" \/ c < b

Laid(s, next, ends) ==
  /\ DOMAIN s.blocks \subseteq Nat \ {Entry} /\ s.first \in DOMAIN s.blocks
  /\ s.init \in Seq(ToSet(s.init))
  /\ DOMAIN next = DOMAIN s.blocks /\ DOMAIN ends = DOMAIN s.blocks
  /\ \A b \in DOMAIN s.blocks : LaidNext(s.blocks, next, ends, b)

LEMMA LaidVisits ==
  ASSUME LaidOut(source), NEW b \in DOMAIN source.blocks
  PROVE  LaidNext(source.blocks, Nexts, Ends, b)
<1>1. PICK B : B = DOMAIN source.blocks
  OBVIOUS
<1>2. PICK next : next = source.blocks[b].succ
  OBVIOUS
<1>3. LaidOutBlock(source.blocks, b)
  BY DEF LaidOut
<1>4. next \in Seq(B) /\ next # << >>
  BY <1>1, <1>2, <1>3 DEF LaidOutBlock
<1>5. Nexts[b] = VisitNext(b) /\ Ends[b] = Terminator(b)
  BY DEF Nexts, Ends
<1>6. CASE Class(b) = "operand"
  <2>1. Len(next) = 2 /\ \E c \in ToSet(next) : source.blocks[c].class # "none"
    BY <1>2, <1>3, <1>6 DEF LaidOutBlock, Class
  <2>2. next[1] \in B /\ next[2] \in B /\ ToSet(next) = {next[1], next[2]}
    BY <1>4, <2>1 DEF ToSet
  <2>3. HasTerminator(next[1]) \/ HasTerminator(next[2])
    BY <2>1, <2>2 DEF HasTerminator, Class
  <2>4. Nexts[b] = << next[1] >> \/ Nexts[b] = << next[2] >>
    BY <1>2, <1>5, <1>6, <2>3, Zenon DEF VisitNext, Containing, ClangSucc
  <2>5. PICK c \in {next[1], next[2]} : Nexts[b] = << c >>
    BY <2>4
  <2>6. c \in B /\ c \in ToSet(next)
    BY <2>2
  <2>7. /\ Nexts[b] \in Seq(B) /\ Nexts[b] # << >> /\ Len(Nexts[b]) = 1
        /\ ToSet(Nexts[b]) = {c}
    BY <2>5, <2>6 DEF ToSet
  <2>8. Ends[b] = << >>
    BY <1>5, <1>6 DEF Terminator, IsIf
  <2>9. source.blocks[b].class = "operand"
    BY <1>6 DEF Class
  <2>10. source.blocks[c].class = "while" \/ c < b
    BY <1>2, <1>3, <2>6, <2>9 DEF LaidOutBlock
  <2>11. source.blocks[b].stmts \in Seq(ToSet(source.blocks[b].stmts))
    BY <1>3 DEF LaidOutBlock
  <2>12. << >> \in Seq(ToSet(<< >>))
    OBVIOUS
  <2> QED
    BY <1>1, <2>7, <2>8, <2>9, <2>10, <2>11, <2>12 DEF LaidNext
<1>7. CASE Class(b) # "operand"
  <2>1. Nexts[b] = next
    BY <1>2, <1>5, <1>7 DEF VisitNext, ClangSucc
  <2>2. PICK class : class = source.blocks[b].class
    OBVIOUS
  <2>3. class \in {"none", "if", "while"}
    BY <1>3, <1>7, <2>2 DEF LaidOutBlock, Class
  <2>4. /\ class \in {"none", "while"} => Len(next) = 1
        /\ class = "if" => Len(next) = 2
        /\ class = "while" => source.blocks[b].stmts = << >>
        /\ class # "while" => \A c \in ToSet(next) : source.blocks[c].class = "while" \/ c < b
        /\ source.blocks[b].stmts \in Seq(ToSet(source.blocks[b].stmts))
    BY <1>2, <1>3, <2>2 DEF LaidOutBlock
  <2>5. /\ class = "none" => Ends[b] = << >>
        /\ class = "if" => Ends[b] = << [op |-> "if", test |-> source.blocks[b].whole] >>
        /\ class = "while" => Ends[b] = << [op |-> "while"] >>
    BY <1>5, <2>2 DEF Terminator, IsIf, Class
  <2>6. class = "if" => Len(Ends[b]) = 1 /\ Ends[b][1].op = "if"
    BY <2>5
  <2>7. Ends[b] \in Seq(ToSet(Ends[b]))
    <3>1. ASSUME NEW x PROVE << x >> \in Seq(ToSet(<< x >>))
      BY DEF ToSet
    <3>2. << >> \in Seq(ToSet(<< >>))
      OBVIOUS
    <3> QED
      BY <2>3, <2>5, <3>1, <3>2
  <2> QED
    BY <1>1, <1>4, <2>1, <2>2, <2>3, <2>4, <2>5, <2>6, <2>7 DEF LaidNext
<1> QED
  BY <1>6, <1>7

LEMMA LaidSource ==
  ASSUME LaidOut(source)
  PROVE  Laid(source, Nexts, Ends)
<1>1. DOMAIN Nexts = DOMAIN source.blocks /\ DOMAIN Ends = DOMAIN source.blocks
  BY DEF Nexts, Ends
<1>2. \A b \in DOMAIN source.blocks : LaidNext(source.blocks, Nexts, Ends, b)
  BY LaidVisits
<1> QED
  BY <1>1, <1>2 DEF LaidOut, Laid

LEMMA ElementsOf ==
  ASSUME NEW K, NEW m \in Seq(K)
  PROVE  Len(m) \in Nat /\ DOMAIN m = 1 .. Len(m) /\ \A j \in 1 .. Len(m) : m[j] \in K
OBVIOUS

LEMMA SeqOfFunction ==
  ASSUME NEW K, NEW n \in Nat, NEW h \in [1 .. n -> K]
  PROVE  h \in Seq(K) /\ Len(h) = n
OBVIOUS

(* A block gets one more successor.                                         *)
WithLink(m, i, id) == [m EXCEPT ![i].succ = Append(@, id)]

LEMMA LinkedBlock ==
  ASSUME NEW S, NEW T, NEW K, K = CfgBlocks(S, T),
         NEW m \in Seq(K), NEW i \in 1 .. Len(m), NEW id \in Nat
  PROVE  \E h \in Seq(K) :
           /\ h = WithLink(m, i, id) /\ Len(h) = Len(m)
           /\ \A j \in 1 .. Len(m) :
                /\ h[j].clang = m[j].clang /\ h[j].stmts = m[j].stmts
                /\ h[j].terminator = m[j].terminator
                /\ j # i => h[j] = m[j]
           /\ h[i].succ = Append(m[i].succ, id)
<1>0. PICK h : h = WithLink(m, i, id)
  OBVIOUS
<1>1. Len(m) \in Nat /\ DOMAIN m = 1 .. Len(m) /\ \A j \in 1 .. Len(m) : m[j] \in K
  BY ElementsOf, Zenon
<1>2. PICK e : e = [m[i] EXCEPT !.succ = Append(m[i].succ, id)]
  OBVIOUS
<1>3. /\ e \in K /\ e.clang = m[i].clang /\ e.stmts = m[i].stmts /\ e.terminator = m[i].terminator
      /\ e.succ = Append(m[i].succ, id)
  <2>1. m[i] \in K
    BY <1>1
  <2>2. PICK r \in K : r = m[i]
    BY <2>1
  <2>3. r.succ \in Seq(Nat)
    BY <2>2 DEF CfgBlocks
  <2>4. Append(r.succ, id) \in Seq(Nat)
    BY <2>3
  <2> QED
    BY <1>2, <2>2, <2>4 DEF CfgBlocks
<1>4. h = [m EXCEPT ![i] = e]
  BY <1>0, <1>2 DEF WithLink
<1>5. h = [j \in 1 .. Len(m) |-> IF j = i THEN e ELSE m[j]]
  BY <1>1, <1>4
<1>6. \A j \in 1 .. Len(m) : h[j] = IF j = i THEN e ELSE m[j]
  BY <1>5
<1>7. h \in Seq(K) /\ Len(h) = Len(m)
  <2>1. PICK n \in Nat : n = Len(m)
    BY <1>1
  <2>2. h = [j \in 1 .. n |-> IF j = i THEN e ELSE m[j]] /\ \A j \in 1 .. n : m[j] \in K
    BY <1>1, <1>5, <2>1
  <2>3. h \in [1 .. n -> K]
    BY <1>3, <2>2
  <2> QED
    BY <2>1, <2>3, SeqOfFunction, Zenon
<1> QED
  BY <1>0, <1>3, <1>6, <1>7

LEMMA LinkAdds ==
  ASSUME NEW s, NEW next, NEW ends, NEW m, MapInv(s, next, ends, m),
         NEW i \in 1 .. Len(m), NEW id \in Nat
  PROVE  WithLink(m, i, id)[i].succ = Append(m[i].succ, id)
<1>1. PICK S : S = {<< >>, s.init} \cup {s.blocks[b].stmts : b \in DOMAIN s.blocks}
  OBVIOUS
<1>2. PICK T : T = {<< >>} \cup {ends[b] : b \in DOMAIN s.blocks}
  OBVIOUS
<1>3. PICK K : K = CfgBlocks(S, T)
  OBVIOUS
<1>4. Kinds(s, ends) = K
  BY <1>1, <1>2, <1>3, Zenon DEF Kinds
<1>5. m \in Seq(K)
  BY <1>4 DEF MapInv
<1> QED
  BY <1>3, <1>5, LinkedBlock

LEMMA Linking ==
  ASSUME NEW s, NEW next, NEW ends, NEW m, MapInv(s, next, ends, m),
         NEW i \in 2 .. Len(m), NEW id, Led(s, next, m, i, id), ~ Contains(m[i].succ, id),
         NEW h, h = WithLink(m, i, id)
  PROVE  /\ MapInv(s, next, ends, h) /\ Len(h) = Len(m)
         /\ \A j \in 1 .. Len(m) : h[j].clang = m[j].clang /\ (j # i => h[j] = m[j])
         /\ \A j \in 1 .. Len(m) : \A x :
              Contains(h[j].succ, x) <=> Contains(m[j].succ, x) \/ (j = i /\ x = id)
<1>1. PICK N \in Nat : N = Len(m)
  BY DEF MapInv
<1>2. i \in 1 .. N /\ i # 1 /\ N >= 2 /\ id \in Nat
  BY <1>1 DEF MapInv, Led
<1>3. PICK S : S = {<< >>, s.init} \cup {s.blocks[b].stmts : b \in DOMAIN s.blocks}
  OBVIOUS
<1>4. PICK T : T = {<< >>} \cup {ends[b] : b \in DOMAIN s.blocks}
  OBVIOUS
<1>5. PICK K : K = Kinds(s, ends)
  OBVIOUS
<1>6. m \in Seq(K) /\ K = CfgBlocks(S, T)
  <2>1. Kinds(s, ends) = CfgBlocks(S, T)
    BY <1>3, <1>4, Zenon DEF Kinds
  <2> QED
    BY <1>5, <2>1 DEF MapInv
<1>7. /\ h \in Seq(K) /\ Len(h) = Len(m)
      /\ \A j \in 1 .. Len(m) :
           /\ h[j].clang = m[j].clang /\ h[j].stmts = m[j].stmts
           /\ h[j].terminator = m[j].terminator
           /\ j # i => h[j] = m[j]
      /\ h[i].succ = Append(m[i].succ, id)
  <2>1. i \in 1 .. Len(m) /\ id \in Nat
    BY <1>1, <1>2
  <2>2. m \in Seq(K) /\ K = CfgBlocks(S, T)
    BY <1>6
  <2>3. \E g \in Seq(K) :
          /\ g = WithLink(m, i, id) /\ Len(g) = Len(m)
          /\ \A j \in 1 .. Len(m) :
               /\ g[j].clang = m[j].clang /\ g[j].stmts = m[j].stmts
               /\ g[j].terminator = m[j].terminator
               /\ j # i => g[j] = m[j]
          /\ g[i].succ = Append(m[i].succ, id)
    BY <2>1, <2>2, LinkedBlock
  <2> QED
    BY <2>3
<1>8. h \in Seq(Kinds(s, ends)) /\ Len(h) = N
  BY <1>1, <1>5, <1>7
<1>9. \A j \in 1 .. N : /\ h[j].clang = m[j].clang /\ h[j].stmts = m[j].stmts
                        /\ h[j].terminator = m[j].terminator
                        /\ j # i => h[j] = m[j]
  BY <1>1, <1>7
<1>10. \A j \in 2 .. N : Following(s, next, h, j) = Following(s, next, m, j)
  BY <1>1, <1>9 DEF Following
<1>11. ASSUME NEW j \in 2 .. N, NEW k PROVE Led(s, next, h, j, k) <=> Led(s, next, m, j, k)
  <2>1. k \in 2 .. N - 1 => h[k + 1].clang = m[k + 1].clang
    BY <1>9
  <2> QED
    BY <1>1, <1>8, <1>10, <2>1 DEF Led
<1>12. \A j \in 2 .. N : /\ List(m[j].succ, Nat)
                         /\ \A k \in 1 .. Len(m[j].succ) : Led(s, next, m, j, m[j].succ[k])
  BY <1>1, Zenon DEF MapInv
<1>13. PICK old : old = m[i].succ
  OBVIOUS
<1>14. PICK new : new = h[i].succ
  OBVIOUS
<1>15. /\ List(new, Nat) /\ \A x : Contains(new, x) <=> Contains(old, x) \/ x = id
       /\ \A k \in 1 .. Len(new) : Led(s, next, h, i, new[k])
  <2>1. List(old, Nat) /\ ~ Contains(old, id) /\ \A k \in 1 .. Len(old) : Led(s, next, m, i, old[k])
    BY <1>1, <1>2, <1>12, <1>13
  <2>2. new = Append(old, id)
    BY <1>7, <1>13, <1>14
  <2>3. AddOnce(old, id) = new
    BY <2>1, <2>2 DEF AddOnce
  <2>4. List(new, Nat) /\ \A x : Contains(new, x) <=> Contains(old, x) \/ x = id
    BY <1>2, <2>1, <2>3, AddedOnce
  <2>5. ASSUME NEW k \in 1 .. Len(new) PROVE Led(s, next, h, i, new[k])
    <3>1. Contains(new, new[k])
      BY DEF Contains
    <3>2. CASE new[k] = id
      BY <1>1, <1>11, <3>2
    <3>3. CASE new[k] # id
      <4>1. PICK l \in 1 .. Len(old) : old[l] = new[k]
        BY <2>4, <3>1, <3>3 DEF Contains
      <4> QED
        BY <1>1, <1>11, <2>1, <4>1
    <3> QED
      BY <3>2, <3>3
  <2> QED
    BY <2>4, <2>5
<1>16. ASSUME NEW j \in 2 .. N
       PROVE  /\ List(h[j].succ, Nat)
              /\ \A k \in 1 .. Len(h[j].succ) : Led(s, next, h, j, h[j].succ[k])
  <2>1. CASE j = i
    BY <1>14, <1>15, <2>1
  <2>2. CASE j # i
    <3>1. h[j] = m[j]
      BY <1>9, <2>2
    <3> QED
      BY <1>11, <1>12, <3>1
  <2> QED
    BY <2>1, <2>2
<1>17. /\ h[1] = [clang |-> Entry, stmts |-> << >>, terminator |-> << >>, succ |-> << 1 >>]
       /\ h[2].clang = Entry /\ h[2].stmts = s.init /\ h[2].terminator = << >>
  <2>1. 1 \in 1 .. N /\ 2 \in 1 .. N
    BY <1>2
  <2> QED
    BY <1>2, <1>9, <2>1 DEF MapInv
<1>18. \A j \in 3 .. N : OfClang(s, ends, h, j)
  <2> SUFFICES ASSUME NEW j \in 3 .. N PROVE OfClang(s, ends, h, j)
    OBVIOUS
  <2>1. OfClang(s, ends, m, j)
    BY <1>1 DEF MapInv
  <2> QED
    BY <1>9, <2>1 DEF OfClang
<1>19. \A j, k \in 3 .. N : h[j].clang = h[k].clang => j = k
  <2>1. \A j, k \in 3 .. N : m[j].clang = m[k].clang => j = k
    BY <1>1 DEF MapInv
  <2>2. \A j \in 3 .. N : h[j].clang = m[j].clang
    BY <1>9
  <2> QED
    BY <2>1, <2>2
<1>20. MapInv(s, next, ends, h)
  BY <1>2, <1>8, <1>16, <1>17, <1>18, <1>19 DEF MapInv
<1>21. ASSUME NEW j \in 1 .. N, NEW x
       PROVE  Contains(h[j].succ, x) <=> Contains(m[j].succ, x) \/ (j = i /\ x = id)
  BY <1>9, <1>13, <1>14, <1>15
<1> QED
  BY <1>1, <1>8, <1>9, <1>20, <1>21

(* A block is put at the end.                                               *)
LEMMA Adding ==
  ASSUME NEW s, NEW next, NEW ends, Laid(s, next, ends), NEW m, MapInv(s, next, ends, m),
         NEW b \in DOMAIN s.blocks, \A i \in 1 .. Len(m) : m[i].clang # b
  PROVE  \E h : /\ h = Append(m, CfgBlock(b, s.blocks[b].stmts, ends[b]))
                /\ MapInv(s, next, ends, h) /\ Len(h) = Len(m) + 1
                /\ \A j \in 1 .. Len(m) : h[j] = m[j]
                /\ h[Len(m) + 1].clang = b /\ h[Len(m) + 1].succ = << >>
<1>0. PICK h : h = Append(m, CfgBlock(b, s.blocks[b].stmts, ends[b]))
  OBVIOUS
<1>1. PICK N \in Nat : N = Len(m)
  BY DEF MapInv
<1>2. N >= 2
  BY <1>1 DEF MapInv
<1>3. PICK e : e = CfgBlock(b, s.blocks[b].stmts, ends[b])
  OBVIOUS
<1>4. /\ e \in Kinds(s, ends) /\ e.clang = b /\ e.stmts = s.blocks[b].stmts
      /\ e.terminator = ends[b] /\ e.succ = << >>
  <2>1. b \in Nat
    BY DEF Laid
  <2>2. s.blocks[b].stmts \in {<< >>, s.init} \cup {s.blocks[c].stmts : c \in DOMAIN s.blocks}
    OBVIOUS
  <2>3. ends[b] \in {<< >>} \cup {ends[c] : c \in DOMAIN s.blocks}
    OBVIOUS
  <2>4. << >> \in Seq(Nat)
    OBVIOUS
  <2>5. e = [clang |-> b, stmts |-> s.blocks[b].stmts, terminator |-> ends[b], succ |-> << >>]
    BY <1>3 DEF CfgBlock
  <2>6. e \in Kinds(s, ends)
    BY <2>1, <2>2, <2>3, <2>4, <2>5, Zenon DEF Kinds, CfgBlocks
  <2> QED
    BY <2>5, <2>6
<1>5. /\ h \in Seq(Kinds(s, ends)) /\ Len(h) = N + 1 /\ h[N + 1] = e
      /\ \A j \in 1 .. N : h[j] = m[j]
  <2>1. PICK K : K = Kinds(s, ends)
    OBVIOUS
  <2>2. m \in Seq(K) /\ e \in K /\ h = Append(m, e)
    BY <1>0, <1>3, <1>4, <2>1 DEF MapInv
  <2> QED
    BY <1>1, <2>1, <2>2
<1>6. \A j \in 2 .. N : Following(s, next, h, j) = Following(s, next, m, j)
  BY <1>5 DEF Following
<1>7. ASSUME NEW j \in 2 .. N, NEW k, Led(s, next, m, j, k) PROVE Led(s, next, h, j, k)
  <2>1. k \in 2 .. N - 1
    BY <1>1, <1>7 DEF Led
  <2>2. h[k + 1] = m[k + 1] /\ k \in 2 .. (N + 1) - 1
    BY <1>5, <2>1
  <2> QED
    BY <1>5, <1>6, <1>7, <2>2 DEF Led
<1>8. \A j \in 2 .. N : /\ List(m[j].succ, Nat)
                        /\ \A k \in 1 .. Len(m[j].succ) : Led(s, next, m, j, m[j].succ[k])
  BY <1>1, Zenon DEF MapInv
<1>9. ASSUME NEW j \in 2 .. N + 1
      PROVE  /\ List(h[j].succ, Nat)
             /\ \A k \in 1 .. Len(h[j].succ) : Led(s, next, h, j, h[j].succ[k])
  <2>0. j \in 2 .. N \/ j = N + 1
    BY <1>2
  <2>1. CASE j \in 2 .. N
    BY <1>5, <1>7, <1>8, <2>1
  <2>2. CASE j = N + 1
    <3>1. h[j].succ = << >>
      BY <1>4, <1>5, <2>2
    <3>2. List(<< >>, Nat) /\ 1 .. Len(<< >>) = {}
      BY DEF List
    <3> QED
      BY <3>1, <3>2
  <2> QED
    BY <2>0, <2>1, <2>2
<1>10. /\ h[1] = [clang |-> Entry, stmts |-> << >>, terminator |-> << >>, succ |-> << 1 >>]
       /\ h[2].clang = Entry /\ h[2].stmts = s.init /\ h[2].terminator = << >>
  <2>1. 1 \in 1 .. N /\ 2 \in 1 .. N
    BY <1>2
  <2> QED
    BY <1>5, <2>1 DEF MapInv
<1>11. ASSUME NEW j \in 3 .. N + 1 PROVE OfClang(s, ends, h, j)
  <2>1. CASE j \in 3 .. N
    <3>1. OfClang(s, ends, m, j)
      BY <1>1, <2>1 DEF MapInv
    <3> QED
      BY <1>5, <2>1, <3>1 DEF OfClang
  <2>2. CASE j = N + 1
    BY <1>4, <1>5, <2>2 DEF OfClang
  <2> QED
    BY <2>1, <2>2
<1>12. ASSUME NEW j \in 3 .. N + 1, NEW k \in 3 .. N + 1, h[j].clang = h[k].clang PROVE j = k
  <2>1. \A l \in 1 .. N : h[l].clang # b
    BY <1>1, <1>5
  <2>2. h[N + 1].clang = b
    BY <1>4, <1>5
  <2>3. CASE j \in 3 .. N /\ k \in 3 .. N
    <3>1. m[j].clang = m[k].clang
      BY <1>5, <1>12, <2>3
    <3> QED
      BY <1>1, <2>3, <3>1 DEF MapInv
  <2>4. CASE ~ (j \in 3 .. N /\ k \in 3 .. N)
    <3>1. (j \in 1 .. N /\ k \in 1 .. N) \/ j = N + 1 \/ k = N + 1
      BY <1>2
    <3>2. \A l \in 3 .. N + 1 : l \in 1 .. N \/ l = N + 1
      BY <1>2
    <3>3. \A l \in 3 .. N + 1 : l \in 3 .. N \/ l = N + 1
      BY <1>2
    <3> QED
      BY <1>12, <2>1, <2>2, <2>4, <3>2, <3>3
  <2> QED
    BY <2>3, <2>4
<1>13. Len(h) >= 2
  BY <1>2, <1>5
<1>14. MapInv(s, next, ends, h)
  <2>1. \A j \in 3 .. Len(h) : OfClang(s, ends, h, j)
    BY <1>5, <1>11
  <2>2. \A j, k \in 3 .. Len(h) : h[j].clang = h[k].clang => j = k
    BY <1>5, <1>12
  <2>3. \A j \in 2 .. Len(h) : /\ List(h[j].succ, Nat)
                               /\ \A k \in 1 .. Len(h[j].succ) : Led(s, next, h, j, h[j].succ[k])
    BY <1>5, <1>9
  <2> QED
    BY <1>5, <1>10, <1>13, <2>1, <2>2, <2>3 DEF MapInv
<1> QED
  BY <1>0, <1>1, <1>4, <1>5, <1>14

(* The place of a block in the map.                                         *)
LEMMA PlaceOf ==
  ASSUME NEW s, NEW next, NEW ends, Laid(s, next, ends), NEW m, MapInv(s, next, ends, m),
         NEW b \in DOMAIN s.blocks, NEW i \in 1 .. Len(m), m[i].clang = b
  PROVE  i \in 3 .. Len(m) /\ BlockId(m, b) = i - 1
<1>1. Len(m) \in Nat /\ Len(m) >= 2 /\ DOMAIN m = 1 .. Len(m)
  BY DEF MapInv
<1>2. b # Entry
  BY DEF Laid
<1>3. ASSUME NEW j \in 1 .. Len(m), m[j].clang = b PROVE j \in 3 .. Len(m)
  <2>1. j # 1 /\ j # 2
    BY <1>2, <1>3 DEF MapInv
  <2> QED
    BY <1>1, <2>1
<1>4. \A j \in 1 .. Len(m) : m[j].clang = b => j = i
  BY <1>3 DEF MapInv
<1>5. PICK h : h = CHOOSE j \in DOMAIN m : m[j].clang = b
  OBVIOUS
<1>6. h = i
  <2>1. h \in DOMAIN m /\ m[h].clang = b
    BY <1>1, <1>5
  <2> QED
    BY <1>1, <1>4, <2>1
<1>7. BlockId(m, b) = h - 1
  BY <1>5, Zenon DEF BlockId
<1> QED
  BY <1>3, <1>6, <1>7

(* The list of calls with new ones in front.                                *)
InFront(c, f, calls) ==
  /\ c = f \o Tail(calls)
  /\ \A k \in 1 .. Len(c) : \/ k \in 1 .. Len(f) /\ c[k] = f[k]
                            \/ \E l \in 2 .. Len(calls) : c[k] = calls[l]
  /\ \A k \in 1 .. Len(f) : k \in 1 .. Len(c) /\ c[k] = f[k]
  /\ \A l \in 2 .. Len(calls) : \E k \in 1 .. Len(c) : c[k] = calls[l]

LEMMA CallsAre ==
  ASSUME NEW S, NEW calls \in Seq(S), calls # << >>, NEW f \in Seq(S)
  PROVE  \E c \in Seq(S) : InFront(c, f, calls)
<1>1. PICK t : t = Tail(calls)
  OBVIOUS
<1>2. /\ t \in Seq(S) /\ Len(calls) \in Nat /\ Len(t) = Len(calls) - 1
      /\ \A k \in 1 .. Len(t) : t[k] = calls[k + 1]
  BY <1>1
<1>3. PICK c : c = f \o t
  OBVIOUS
<1>4. /\ c \in Seq(S) /\ Len(c) = Len(f) + Len(t)
      /\ \A k \in 1 .. Len(f) + Len(t) : c[k] = IF k <= Len(f) THEN f[k] ELSE t[k - Len(f)]
  <2>1. /\ f \o t \in Seq(S) /\ Len(f \o t) = Len(f) + Len(t)
        /\ \A k \in 1 .. Len(f) + Len(t) : (f \o t)[k] = IF k <= Len(f) THEN f[k] ELSE t[k - Len(f)]
    BY <1>2, ConcatProperties, Zenon
  <2> QED
    BY <1>3, <2>1, Zenon
<1>5. PICK a \in Nat : a = Len(f)
  OBVIOUS
<1>6. PICK d \in Nat : d = Len(t)
  BY <1>2
<1>7. Len(c) = a + d /\ Len(calls) = d + 1
  BY <1>2, <1>4, <1>5, <1>6
<1>8. \A k \in 1 .. a + d : c[k] = IF k <= a THEN f[k] ELSE t[k - a]
  BY <1>4, <1>5, <1>6, Zenon
<1>9. ASSUME NEW k \in 1 .. a + d
      PROVE  (k \in 1 .. a /\ c[k] = f[k]) \/ \E l \in 2 .. d + 1 : c[k] = calls[l]
  <2>1. CASE k <= a
    BY <1>8, <2>1
  <2>2. CASE ~ (k <= a)
    <3>1. c[k] = t[k - a] /\ k - a \in 1 .. d /\ (k - a) + 1 \in 2 .. d + 1
      BY <1>8, <2>2
    <3>2. t[k - a] = calls[(k - a) + 1]
      BY <1>2, <1>6, <3>1
    <3> QED
      BY <3>1, <3>2
  <2> QED
    BY <2>1, <2>2
<1>10. ASSUME NEW l \in 2 .. d + 1 PROVE \E k \in 1 .. a + d : c[k] = calls[l]
  <2>1. (a + l) - 1 \in 1 .. a + d /\ ~ ((a + l) - 1 <= a) /\ ((a + l) - 1) - a = l - 1
    OBVIOUS
  <2>2. c[(a + l) - 1] = t[l - 1]
    BY <1>8, <2>1
  <2>3. t[l - 1] = calls[l]
    BY <1>2, <1>6
  <2> QED
    BY <2>1, <2>2, <2>3
<1>11. \A k \in 1 .. a : k \in 1 .. a + d /\ c[k] = f[k]
  BY <1>8
<1>12. c = f \o Tail(calls)
  BY <1>1, <1>3
<1>13. \A k \in 1 .. Len(c) : (k \in 1 .. Len(f) /\ c[k] = f[k]) \/ \E l \in 2 .. Len(calls) : c[k] = calls[l]
  BY <1>5, <1>7, <1>9, Zenon
<1>14. \A k \in 1 .. Len(f) : k \in 1 .. Len(c) /\ c[k] = f[k]
  BY <1>5, <1>7, <1>11, Zenon
<1>15. \A l \in 2 .. Len(calls) : \E k \in 1 .. Len(c) : c[k] = calls[l]
  BY <1>7, <1>10, Zenon
<1> QED
  BY <1>4, <1>12, <1>13, <1>14, <1>15, Zenon DEF InFront

LEMMA PairOf ==
  ASSUME NEW D, NEW c \in D \X Nat
  PROVE  c = << c[1], c[2] >> /\ c[1] \in D /\ c[2] \in Nat
OBVIOUS

LEMMA PairIn ==
  ASSUME NEW D, NEW x \in D, NEW y \in Nat
  PROVE  << x, y >> \in D \X Nat
OBVIOUS

Known(m, b) == \E j \in 1 .. Len(m) : m[j].clang = b

(* What a call for the block b does: it gets, unless it has one, a place at *)
(* the end of the map, and its parent p one more successor.                 *)
LinksTo(next, m, m2, calls2, b, p, id) ==
  /\ \/ Known(m, b) /\ Len(m2) = Len(m)
     \/ /\ ~ Known(m, b) /\ Len(m2) = Len(m) + 1 /\ id = Len(m)
        /\ m2[Len(m) + 1].clang = b /\ m2[Len(m) + 1].succ = << >>
        /\ calls2 # << >> /\ calls2[1] = << next[b][1], Len(m) >>
  /\ \A j \in 1 .. Len(m) : /\ m2[j].clang = m[j].clang
                            /\ j # p + 1 => m2[j] = m[j]
  /\ m2[p + 1].succ = Append(m[p + 1].succ, id)

Called(s, next, m, calls, m2, calls2) ==
  \E b, p, id : /\ calls # << >> /\ calls[1] = << b, p >> /\ p + 1 \in 2 .. Len(m)
                /\ b \in DOMAIN s.blocks /\ p \in Nat /\ id \in Nat
                /\ b \in Following(s, next, m, p + 1)
                /\ \/ Known(m, b) /\ m2 = m
                   \/ LinksTo(next, m, m2, calls2, b, p, id)

(* One call of traverseBlocks.                                              *)
LEMMA TraverseKeeps ==
  ASSUME LaidOut(source), BuildInv, traverseBlocks
  PROVE  BuildInv' /\ Called(source, Nexts, controlFlowMap, todo, controlFlowMap', todo')
<1>1. source' = source /\ todo # << >>
  BY DEF traverseBlocks
<1>2. Nexts' = Nexts /\ Ends' = Ends
  BY <1>1 DEF Nexts, Ends, VisitNext, Containing, Class, ClangSucc, HasTerminator, IsIf,
              exprContainedInIf, Terminator
<1>3. PICK s : s = source
  OBVIOUS
<1>4. PICK next : next = Nexts
  OBVIOUS
<1>5. PICK ends : ends = Ends
  OBVIOUS
<1>6. PICK m : m = controlFlowMap
  OBVIOUS
<1>7. PICK calls : calls = todo
  OBVIOUS
<1>8. /\ Laid(s, next, ends) /\ MapInv(s, next, ends, m) /\ TodoInv(s, next, m, calls)
      /\ Reached(m)
  BY <1>3, <1>4, <1>5, <1>6, <1>7, LaidSource DEF BuildInv
<1>9. SUFFICES ASSUME NEW m2, m2 = controlFlowMap', NEW calls2, calls2 = todo'
               PROVE  /\ MapInv(s, next, ends, m2) /\ TodoInv(s, next, m2, calls2) /\ Reached(m2)
                      /\ Called(s, next, m, calls, m2, calls2)
  <2>1. PICK m2 : m2 = controlFlowMap'
    OBVIOUS
  <2>2. PICK calls2 : calls2 = todo'
    OBVIOUS
  <2>3. /\ MapInv(s, next, ends, m2) /\ TodoInv(s, next, m2, calls2) /\ Reached(m2)
        /\ Called(s, next, m, calls, m2, calls2)
    BY <1>9, <2>1, <2>2
  <2>4. source' = s /\ Nexts' = next /\ Ends' = ends /\ controlFlowMap' = m2 /\ todo' = calls2
    BY <1>1, <1>2, <1>3, <1>4, <1>5, <2>1, <2>2
  <2>5. BuildInv'
    BY <2>3, <2>4 DEF BuildInv
  <2>6. Called(source, Nexts, controlFlowMap, todo, controlFlowMap', todo')
    BY <1>3, <1>4, <1>6, <1>7, <2>1, <2>2, <2>3
  <2> QED
    BY <2>5, <2>6
<1>10. PICK N \in Nat : N = Len(m)
  BY <1>8 DEF MapInv
<1>11. PICK b : b = todo[1][1]
  OBVIOUS
<1>12. PICK p : p = todo[1][2]
  OBVIOUS
<1>13. /\ calls \in Seq(CallSet(s)) /\ calls # << >> /\ Len(calls) \in Nat
       /\ 1 \in 1 .. Len(calls) /\ calls[1] = << b, p >>
       /\ b \in DOMAIN s.blocks /\ p \in Nat /\ p + 1 \in 2 .. N
       /\ b \in Following(s, next, m, p + 1) /\ N >= 2
  <2>1. calls \in Seq(CallSet(s)) /\ calls # << >> /\ Len(calls) \in Nat
    BY <1>1, <1>7, <1>8 DEF TodoInv
  <2>2. 1 \in 1 .. Len(calls) /\ calls[1] \in CallSet(s)
    BY <2>1
  <2>3. calls[1] = << b, p >> /\ b \in DOMAIN s.blocks /\ p \in Nat
    <3>1. PICK c \in CallSet(s) : c = calls[1]
      BY <2>2
    <3>2. c[1] = b /\ c[2] = p
      BY <1>7, <1>11, <1>12, <3>1
    <3>3. c = << b, p >> /\ b \in DOMAIN s.blocks /\ p \in Nat
      <4>1. c = << c[1], c[2] >> /\ c[1] \in DOMAIN s.blocks /\ c[2] \in Nat
        BY PairOf, Zenon DEF CallSet
      <4> QED
        BY <3>2, <4>1
    <3> QED
      BY <3>1, <3>3
  <2>4. calls[1][2] + 1 \in 2 .. Len(m) /\ calls[1][1] \in Following(s, next, m, calls[1][2] + 1)
    BY <1>8, <2>2 DEF TodoInv
  <2> QED
    BY <1>8, <1>10, <2>1, <2>2, <2>3, <2>4 DEF MapInv
<1>14. Head(todo)[1] = b /\ Head(todo)[2] = p
  BY <1>1, <1>11, <1>12
<1>15. /\ \A j \in 2 .. N : /\ List(m[j].succ, Nat)
                            /\ \A k \in 1 .. Len(m[j].succ) : Led(s, next, m, j, m[j].succ[k])
       /\ \A k \in 1 .. Len(calls) : /\ calls[k][2] + 1 \in 2 .. N
                                     /\ calls[k][1] \in Following(s, next, m, calls[k][2] + 1)
       /\ \A i \in 2 .. N : m[i].succ = << >> => \E k \in 1 .. Len(calls) : calls[k][2] + 1 = i
       /\ DOMAIN m = 1 .. N
  <2>1. \A j \in 2 .. N : /\ List(m[j].succ, Nat)
                          /\ \A k \in 1 .. Len(m[j].succ) : Led(s, next, m, j, m[j].succ[k])
    BY <1>8, <1>10, Zenon DEF MapInv
  <2>2. /\ \A k \in 1 .. Len(calls) : /\ calls[k][2] + 1 \in 2 .. N
                                      /\ calls[k][1] \in Following(s, next, m, calls[k][2] + 1)
        /\ \A i \in 2 .. N : m[i].succ = << >> => \E k \in 1 .. Len(calls) : calls[k][2] + 1 = i
    BY <1>8, <1>10, Zenon DEF TodoInv
  <2>3. DOMAIN m = 1 .. N
    <3>1. PICK K : m \in Seq(K)
      BY <1>8 DEF MapInv
    <3> QED
      BY <1>10, <3>1, ElementsOf
  <2> QED
    BY <2>1, <2>2, <2>3
<1>16. CASE Linked(b, p)
  <2>1. m2 = m /\ calls2 = Tail(calls)
    BY <1>6, <1>7, <1>9, <1>14, <1>16 DEF traverseBlocks
  <2>2. m[p + 1].succ # << >>
    <3>1. PICK x : Contains(m[p + 1].succ, x)
      BY <1>6, <1>16 DEF Linked
    <3> QED
      BY <3>1 DEF Contains
  <2>3. PICK D : D = CallSet(s)
    OBVIOUS
  <2>4. calls \in Seq(D)
    BY <1>13, <2>3
  <2>5. /\ calls2 \in Seq(D) /\ Len(calls2) = Len(calls) - 1
        /\ \A k \in 1 .. Len(calls) - 1 : calls2[k] = calls[k + 1]
    BY <1>13, <2>1, <2>4
  <2>6. PICK c \in Nat : c = Len(calls)
    BY <1>13
  <2>7. ASSUME NEW k \in 1 .. c - 1
        PROVE  /\ calls2[k][2] + 1 \in 2 .. N
               /\ calls2[k][1] \in Following(s, next, m, calls2[k][2] + 1)
    <3>1. k + 1 \in 1 .. c
      BY <2>6
    <3> QED
      BY <1>15, <2>5, <2>6, <3>1
  <2>8. ASSUME NEW i \in 2 .. N, m[i].succ = << >>
        PROVE  \E k \in 1 .. c - 1 : calls2[k][2] + 1 = i
    <3>1. PICK l \in 1 .. c : calls[l][2] + 1 = i
      BY <1>15, <2>6, <2>8
    <3>2. l # 1
      BY <1>13, <2>2, <2>8, <3>1
    <3>3. l - 1 \in 1 .. c - 1 /\ (l - 1) + 1 = l
      BY <2>6, <3>2
    <3> QED
      BY <2>5, <2>6, <3>1, <3>3
  <2>9. TodoInv(s, next, m, calls2)
    <3>1. Len(calls2) = c - 1
      BY <2>5, <2>6
    <3>2. calls2 \in Seq(CallSet(s))
      BY <2>3, <2>5
    <3> QED
      BY <1>10, <2>7, <2>8, <3>1, <3>2 DEF TodoInv
  <2>10. Known(m, b)
    BY <1>6, <1>10, <1>15, <1>16 DEF Linked, Visited, Known
  <2>11. Called(s, next, m, calls, m2, calls2)
    BY <1>10, <1>13, <2>1, <2>10 DEF Called
  <2> QED
    BY <1>8, <2>1, <2>9, <2>11
<1>17. CASE ~ Linked(b, p)
  <2>1. PICK m1 : m1 = IF Visited(b) THEN m
                       ELSE Append(m, CfgBlock(b, s.blocks[b].stmts, ends[b]))
    OBVIOUS
  <2>2. createCFGNode(b, p) = WithLink(m1, p + 1, BlockId(m1, b))
    <3>1. ends[b] = Terminator(b) /\ s.blocks[b].stmts = source.blocks[b].stmts
      BY <1>3, <1>5, <1>13 DEF Ends
    <3> QED
      BY <1>6, <1>17, <2>1, <3>1, Zenon DEF createCFGNode, WithLink
  <2>3. ClangSucc(b) # << >>
    BY <1>3, <1>13 DEF LaidOut, LaidOutBlock, ClangSucc
  <2>4. next[b] = VisitNext(b)
    BY <1>3, <1>4, <1>13 DEF Nexts
  <2>5. m2 = createCFGNode(b, p) /\ calls2 = Calls(next[b], BlockId(m2, b))
    BY <1>9, <1>14, <1>17, <2>3, <2>4, Zenon DEF traverseBlocks
  <2>6. PICK i1 : /\ i1 \in 3 .. Len(m1) /\ m1[i1].clang = b /\ BlockId(m1, b) = i1 - 1
                  /\ MapInv(s, next, ends, m1) /\ Len(m1) \in {N, N + 1}
                  /\ \A j \in 1 .. N : m1[j] = m[j]
                  /\ \/ i1 \in 1 .. N /\ Len(m1) = N /\ Known(m, b)
                     \/ i1 = N + 1 /\ i1 = Len(m1) /\ m1[N + 1].succ = << >> /\ ~ Known(m, b)
                  /\ ~ Contains(m[p + 1].succ, i1 - 1)
                  /\ \A j \in 1 .. Len(m1) : j \in 1 .. N \/ j = i1
    <3>1. CASE Visited(b)
      <4>1. m1 = m
        BY <2>1, <3>1
      <4>2. PICK j \in 1 .. N : m[j].clang = b
        BY <1>6, <1>15, <3>1 DEF Visited
      <4>3. j \in 3 .. N /\ BlockId(m, b) = j - 1
        BY <1>8, <1>10, <1>13, <4>2, PlaceOf
      <4>4. ~ Contains(m[p + 1].succ, j - 1)
        BY <1>6, <1>17, <3>1, <4>3 DEF Linked
      <4>5. Known(m, b)
        BY <1>10, <4>2 DEF Known
      <4> QED
        BY <1>8, <1>10, <4>1, <4>2, <4>3, <4>4, <4>5
    <3>2. CASE ~ Visited(b)
      <4>1. m1 = Append(m, CfgBlock(b, s.blocks[b].stmts, ends[b]))
        BY <2>1, <3>2
      <4>2. \A j \in 1 .. Len(m) : m[j].clang # b
        BY <1>6, <1>10, <1>15, <3>2 DEF Visited
      <4>3. /\ MapInv(s, next, ends, m1) /\ Len(m1) = Len(m) + 1
            /\ \A j \in 1 .. Len(m) : m1[j] = m[j]
            /\ m1[Len(m) + 1].clang = b /\ m1[Len(m) + 1].succ = << >>
        <5>1. \E h : /\ h = Append(m, CfgBlock(b, s.blocks[b].stmts, ends[b]))
                     /\ MapInv(s, next, ends, h) /\ Len(h) = Len(m) + 1
                     /\ \A j \in 1 .. Len(m) : h[j] = m[j]
                     /\ h[Len(m) + 1].clang = b /\ h[Len(m) + 1].succ = << >>
          BY <1>8, <1>13, <4>2, Adding
        <5> QED
          BY <4>1, <5>1
      <4>4. /\ Len(m1) = N + 1 /\ m1[N + 1].clang = b /\ m1[N + 1].succ = << >>
            /\ \A j \in 1 .. N : m1[j] = m[j]
        BY <1>10, <4>3
      <4>5. N + 1 \in 3 .. N + 1 /\ N + 1 \in 1 .. N + 1
        BY <1>13
      <4>6. BlockId(m1, b) = (N + 1) - 1
        <5>1. PICK j \in 1 .. Len(m1) : j = N + 1
          BY <4>4, <4>5
        <5>2. m1[j].clang = b /\ MapInv(s, next, ends, m1)
          BY <4>3, <4>4, <5>1
        <5>3. Laid(s, next, ends) /\ b \in DOMAIN s.blocks
          BY <1>8, <1>13
        <5>4. BlockId(m1, b) = j - 1
          BY <5>2, <5>3, PlaceOf
        <5> QED
          BY <5>1, <5>4
      <4>7. ASSUME Contains(m[p + 1].succ, (N + 1) - 1) PROVE FALSE
        <5>1. PICK k \in 1 .. Len(m[p + 1].succ) : m[p + 1].succ[k] = (N + 1) - 1
          BY <4>7 DEF Contains
        <5>2. Led(s, next, m, p + 1, m[p + 1].succ[k])
          BY <1>13, <1>15
        <5>3. (N + 1) - 1 \in 2 .. N - 1
          BY <1>10, <5>1, <5>2 DEF Led
        <5> QED
          BY <5>3
      <4>8. \A j \in 1 .. N + 1 : j \in 1 .. N \/ j = N + 1
        OBVIOUS
      <4>9. ~ Known(m, b)
        BY <4>2 DEF Known
      <4> QED
        BY <4>3, <4>4, <4>5, <4>6, <4>7, <4>8, <4>9
    <3> QED
      BY <3>1, <3>2
  <2>7. PICK M \in Nat : M = Len(m1)
    BY <2>6
  <2>8. /\ p + 1 \in 2 .. M /\ p + 1 \in 1 .. N /\ i1 - 1 \in 2 .. M - 1 /\ (i1 - 1) + 1 = i1
        /\ N <= M /\ i1 \in 1 .. M /\ i1 # 2 /\ i1 \in 2 .. M
    BY <1>13, <2>6, <2>7
  <2>9. Led(s, next, m1, p + 1, i1 - 1)
    <3>1. Following(s, next, m1, p + 1) = Following(s, next, m, p + 1)
      BY <2>6, <2>8 DEF Following
    <3> QED
      BY <1>13, <2>6, <2>7, <2>8, <3>1 DEF Led
  <2>10. m2 = WithLink(m1, p + 1, i1 - 1)
    BY <2>2, <2>5, <2>6
  <2>11. /\ MapInv(s, next, ends, m2) /\ Len(m2) = M
         /\ \A j \in 1 .. M : m2[j].clang = m1[j].clang /\ (j # p + 1 => m2[j] = m1[j])
         /\ \A j \in 1 .. M : \A x :
              Contains(m2[j].succ, x) <=> Contains(m1[j].succ, x) \/ (j = p + 1 /\ x = i1 - 1)
    <3>1. p + 1 \in 2 .. Len(m1) /\ ~ Contains(m1[p + 1].succ, i1 - 1)
      BY <2>6, <2>7, <2>8
    <3>2. PICK q : q = p + 1
      OBVIOUS
    <3>3. PICK id : id = i1 - 1
      OBVIOUS
    <3>4. /\ MapInv(s, next, ends, m2) /\ Len(m2) = Len(m1)
          /\ \A j \in 1 .. Len(m1) : m2[j].clang = m1[j].clang /\ (j # q => m2[j] = m1[j])
          /\ \A j \in 1 .. Len(m1) : \A x :
               Contains(m2[j].succ, x) <=> Contains(m1[j].succ, x) \/ (j = q /\ x = id)
      <4>1. /\ MapInv(s, next, ends, m1) /\ q \in 2 .. Len(m1) /\ Led(s, next, m1, q, id)
            /\ ~ Contains(m1[q].succ, id) /\ m2 = WithLink(m1, q, id)
        BY <2>6, <2>9, <2>10, <3>1, <3>2, <3>3
      <4> QED
        BY <4>1, Linking
    <3> QED
      BY <2>7, <3>2, <3>3, <3>4
  <2>12. BlockId(m2, b) = i1 - 1
    BY <1>8, <1>13, <2>6, <2>8, <2>11, PlaceOf
  <2>13. PICK D : D = DOMAIN s.blocks
    OBVIOUS
  <2>14. /\ next[b] \in Seq(D) /\ Len(next[b]) \in Nat /\ Len(next[b]) >= 1
         /\ DOMAIN next[b] = 1 .. Len(next[b])
    <3>1. PICK t : t = next[b]
      OBVIOUS
    <3>2. t \in Seq(D) /\ t # << >>
      BY <1>8, <1>13, <2>13, <3>1 DEF Laid, LaidNext
    <3> QED
      BY <3>1, <3>2
  <2>15. PICK f : f = [k \in 1 .. Len(next[b]) |-> << next[b][k], i1 - 1 >>]
    OBVIOUS
  <2>16. f \in Seq(CallSet(s)) /\ Len(f) = Len(next[b])
    <3>1. \A k \in 1 .. Len(next[b]) : next[b][k] \in D
      BY <2>14
    <3>2. i1 - 1 \in Nat
      BY <2>8
    <3>3. \A k \in 1 .. Len(next[b]) : << next[b][k], i1 - 1 >> \in CallSet(s)
      BY <2>13, <3>1, <3>2, PairIn, Zenon DEF CallSet
    <3>4. f \in [1 .. Len(next[b]) -> CallSet(s)]
      BY <2>15, <3>3
    <3> QED
      BY <2>14, <3>4, SeqOfFunction
  <2>17. calls2 = f \o Tail(calls)
    BY <1>7, <2>5, <2>12, <2>14, <2>15 DEF Calls
  <2>18. /\ calls2 \in Seq(CallSet(s))
         /\ \A k \in 1 .. Len(calls2) : \/ k \in 1 .. Len(f) /\ calls2[k] = f[k]
                                        \/ \E l \in 2 .. Len(calls) : calls2[k] = calls[l]
         /\ \A k \in 1 .. Len(f) : k \in 1 .. Len(calls2) /\ calls2[k] = f[k]
         /\ \A l \in 2 .. Len(calls) : \E k \in 1 .. Len(calls2) : calls2[k] = calls[l]
    <3>1. PICK C : C = CallSet(s)
      OBVIOUS
    <3>2. calls \in Seq(C) /\ calls # << >> /\ f \in Seq(C)
      BY <1>13, <2>16, <3>1
    <3>3. PICK c \in Seq(C) : InFront(c, f, calls)
      BY <3>2, CallsAre, Zenon
    <3>4. c = calls2
      BY <2>17, <3>3 DEF InFront
    <3>5. calls2 \in Seq(CallSet(s))
      BY <3>1, <3>3, <3>4
    <3> QED
      BY <3>3, <3>4, <3>5, Zenon DEF InFront
  <2>19. ASSUME NEW k \in 1 .. Len(f)
         PROVE  f[k][2] + 1 = i1 /\ f[k][1] \in Following(s, next, m2, i1)
    <3>1. f[k] = << next[b][k], i1 - 1 >> /\ k \in DOMAIN next[b]
      BY <2>14, <2>15, <2>16
    <3>2. m2[i1].clang = b
      BY <2>6, <2>8, <2>11
    <3>3. next[b][k] \in ToSet(next[b])
      BY <3>1 DEF ToSet
    <3> QED
      BY <2>8, <3>1, <3>2, <3>3 DEF Following
  <2>20. ASSUME NEW j \in 2 .. N PROVE Following(s, next, m2, j) = Following(s, next, m, j)
    <3>1. j \in 1 .. M /\ j \in 1 .. N
      BY <2>8
    <3> QED
      BY <2>6, <2>11, <3>1 DEF Following
  <2>21. ASSUME NEW k \in 1 .. Len(calls2)
         PROVE  /\ calls2[k][2] + 1 \in 2 .. M
                /\ calls2[k][1] \in Following(s, next, m2, calls2[k][2] + 1)
    <3>1. CASE k \in 1 .. Len(f) /\ calls2[k] = f[k]
      BY <2>8, <2>19, <3>1
    <3>2. CASE \E l \in 2 .. Len(calls) : calls2[k] = calls[l]
      <4>1. PICK l \in 2 .. Len(calls) : calls2[k] = calls[l]
        BY <3>2
      <4>2. l \in 1 .. Len(calls)
        BY <1>13
      <4>3. calls[l][2] + 1 \in 2 .. N /\ calls[l][1] \in Following(s, next, m, calls[l][2] + 1)
        BY <1>15, <4>2
      <4>4. calls[l][2] + 1 \in 2 .. M
        BY <2>8, <4>3
      <4> QED
        BY <2>20, <4>1, <4>3, <4>4
    <3> QED
      BY <2>18, <3>1, <3>2
  <2>22. ASSUME NEW i \in 2 .. M, m2[i].succ = << >>
         PROVE  \E k \in 1 .. Len(calls2) : calls2[k][2] + 1 = i
    <3>1. i # p + 1
      <4>1. Contains(m2[p + 1].succ, i1 - 1)
        BY <2>8, <2>11
      <4> QED
        BY <2>22, <4>1 DEF Contains
    <3>2. CASE i = i1
      <4>1. 1 \in 1 .. Len(f)
        BY <2>14, <2>16
      <4> QED
        BY <2>18, <2>19, <3>2, <4>1
    <3>3. CASE i # i1
      <4>1. i \in 1 .. M
        OBVIOUS
      <4>2. i \in 1 .. N
        BY <2>6, <2>7, <3>3, <4>1
      <4>3. m[i].succ = << >>
        <5>1. m2[i] = m1[i]
          BY <2>11, <3>1, <4>1
        <5>2. m1[i] = m[i]
          BY <2>6, <4>2
        <5> QED
          BY <2>22, <5>1, <5>2
      <4>4. PICK l \in 1 .. Len(calls) : calls[l][2] + 1 = i
        BY <1>15, <4>2, <4>3
      <4>5. l # 1
        BY <1>13, <3>1, <4>4
      <4>6. l \in 2 .. Len(calls)
        BY <1>13, <4>5
      <4> QED
        BY <2>18, <4>4, <4>6
    <3> QED
      BY <3>2, <3>3
  <2>23. TodoInv(s, next, m2, calls2)
    BY <2>11, <2>18, <2>21, <2>22 DEF TodoInv
  <2>24. Reached(m2)
    <3> SUFFICES ASSUME NEW j \in 2 .. M PROVE \E i \in 1 .. M : Contains(m2[i].succ, j - 1)
      BY <2>11 DEF Reached
    <3>1. CASE j = i1
      BY <2>8, <2>11, <3>1
    <3>2. CASE j # i1
      <4>1. j \in 1 .. M
        OBVIOUS
      <4>2. j \in 2 .. N
        BY <2>6, <2>7, <3>2, <4>1
      <4>3. PICK i \in 1 .. N : Contains(m[i].succ, j - 1)
        BY <1>8, <1>10, <4>2 DEF Reached
      <4>4. i \in 1 .. M /\ Contains(m1[i].succ, j - 1)
        BY <2>6, <2>8, <4>3
      <4> QED
        BY <2>11, <4>4
    <3> QED
      BY <3>1, <3>2
  <2>25. LinksTo(next, m, m2, calls2, b, p, i1 - 1)
    <3>1. ASSUME NEW j \in 1 .. N
          PROVE  m2[j].clang = m[j].clang /\ (j # p + 1 => m2[j] = m[j])
      <4>1. j \in 1 .. M
        BY <2>8
      <4> QED
        BY <2>6, <2>11, <4>1
    <3>2. m2[p + 1].succ = Append(m[p + 1].succ, i1 - 1)
      <4>1. p + 1 \in 1 .. Len(m1) /\ i1 - 1 \in Nat
        BY <2>7, <2>8
      <4>2. m2[p + 1].succ = Append(m1[p + 1].succ, i1 - 1)
        BY <2>6, <2>10, <4>1, LinkAdds
      <4> QED
        BY <2>6, <2>8, <4>2
    <3>3. CASE Known(m, b) /\ Len(m1) = N
      <4>1. Len(m2) = Len(m)
        BY <1>10, <2>7, <2>11, <3>3
      <4> QED
        BY <1>10, <3>1, <3>2, <3>3, <4>1, Zenon DEF LinksTo
    <3>4. CASE ~ Known(m, b) /\ i1 = N + 1 /\ i1 = Len(m1) /\ m1[N + 1].succ = << >>
      <4>1. Len(m2) = N + 1 /\ i1 - 1 = N /\ M = N + 1 /\ p + 1 # N + 1
        BY <1>13, <2>7, <2>11, <3>4
      <4>2. m2[N + 1].clang = b /\ m2[N + 1].succ = << >>
        <5>1. N + 1 \in 1 .. M
          BY <4>1
        <5> QED
          BY <2>6, <2>11, <3>4, <4>1, <5>1
      <4>3. calls2 # << >> /\ calls2[1] = << next[b][1], N >>
        <5>1. 1 \in 1 .. Len(f) /\ f[1] = << next[b][1], i1 - 1 >>
          BY <2>14, <2>15, <2>16
        <5>2. 1 \in 1 .. Len(calls2) /\ calls2[1] = f[1]
          BY <2>18, <5>1
        <5> QED
          BY <4>1, <5>1, <5>2
      <4> QED
        BY <1>10, <3>1, <3>2, <3>4, <4>1, <4>2, <4>3, Zenon DEF LinksTo
    <3> QED
      BY <2>6, <3>3, <3>4
  <2>26. Called(s, next, m, calls, m2, calls2)
    <3>1. i1 - 1 \in Nat
      BY <2>8
    <3> QED
      BY <1>10, <1>13, <2>25, <3>1 DEF Called
  <2> QED
    BY <2>11, <2>23, <2>24, <2>26
<1> QED
  BY <1>16, <1>17

-----------------------------------------------------------------------------
(* The nodes of the graph.                                                  *)

(* The first node of the next block, for every block.                       *)
Starts(m, f, n) == f = [i \in 0 .. n |-> IF i = 0 THEN 0 ELSE f[i - 1] + Len(NodesOf(m[i]))]

LEMMA StartsExist ==
  ASSUME NEW m, NEW k \in Nat
  PROVE  \E f : Starts(m, f, k)
<1> DEFINE S == {n \in Nat : \E f : Starts(m, f, n)}
           value(i, h) == IF i = 0 THEN 0 ELSE h[i - 1] + Len(NodesOf(m[i]))
<1>1. 0 \in S
  <2> DEFINE f == [i \in 0 .. 0 |-> 0]
  <2>1. f = [i \in 0 .. 0 |-> value(i, f)]
    OBVIOUS
  <2> HIDE DEF f
  <2>2. Starts(m, f, 0)
    BY <2>1, Zenon DEF Starts
  <2> QED
    BY <2>2
<1>2. ASSUME NEW n \in Nat, n \in S PROVE n + 1 \in S
  <2>1. PICK f : Starts(m, f, n)
    BY <1>2
  <2> DEFINE h == [i \in 0 .. n + 1 |-> IF i = n + 1 THEN value(n + 1, f) ELSE f[i]]
  <2>2. \A i \in 0 .. n : f[i] = value(i, f)
    BY <2>1, Zenon DEF Starts
  <2>3. ASSUME NEW i \in 0 .. n + 1 PROVE h[i] = value(i, h)
    <3>1. CASE i \in 0 .. n
      <4>1. h[i] = f[i] /\ (i # 0 => h[i - 1] = f[i - 1])
        BY <3>1
      <4> QED
        BY <2>2, <3>1, <4>1, Zenon
    <3>2. CASE i = n + 1
      <4>1. h[i] = value(n + 1, f)
        BY <3>2
      <4>2. i # 0 => h[i - 1] = f[i - 1]
        BY <3>2
      <4> QED
        BY <3>2, <4>1, <4>2, Zenon
    <3> QED
      BY <3>1, <3>2
  <2>4. h = [i \in 0 .. n + 1 |-> h[i]]
    OBVIOUS
  <2> HIDE DEF h
  <2>5. h = [i \in 0 .. n + 1 |-> value(i, h)]
    BY <2>3, <2>4, Zenon
  <2>6. Starts(m, h, n + 1)
    BY <2>5, Zenon DEF Starts
  <2> QED
    BY <2>6
<1> HIDE DEF S
<1>3. k \in S
  BY <1>1, <1>2, NatSetInduction
<1> QED
  BY <1>3 DEF S

LEMMA StartsOf ==
  ASSUME NEW m, NEW N \in Nat, NEW f, Starts(m, f, N),
         \A i \in 1 .. N : Len(NodesOf(m[i])) \in Nat /\ Len(NodesOf(m[i])) >= 1
  PROVE  /\ f[0] = 0 /\ \A i \in 0 .. N : f[i] \in Nat
         /\ \A i \in 1 .. N : f[i] = f[i - 1] + Len(NodesOf(m[i])) /\ f[i - 1] < f[i]
         /\ \A i, j \in 0 .. N : i < j => f[i] < f[j]
         /\ \A n \in Nat : n < f[N] => \E i \in 1 .. N : f[i - 1] <= n /\ n < f[i]
<1> DEFINE Good(k) == /\ f[k] \in Nat
                      /\ \A i \in 0 .. k - 1 : f[i] \in Nat /\ f[i] < f[k]
                      /\ \A n \in Nat : n < f[k] => \E i \in 1 .. k : f[i - 1] <= n /\ n < f[i]
           T == {k \in Nat : k <= N => Good(k)}
<1>1. f[0] = 0 /\ \A i \in 1 .. N : f[i] = f[i - 1] + Len(NodesOf(m[i]))
  <2>1. \A i \in 0 .. N : f[i] = IF i = 0 THEN 0 ELSE f[i - 1] + Len(NodesOf(m[i]))
    BY Zenon DEF Starts
  <2> QED
    BY <2>1
<1>2. 0 \in T
  BY <1>1
<1>3. ASSUME NEW k \in Nat, k \in T PROVE k + 1 \in T
  <2> SUFFICES ASSUME k + 1 <= N PROVE Good(k + 1)
    OBVIOUS
  <2>1. Good(k) /\ k + 1 \in 1 .. N /\ (k + 1) - 1 = k
    BY <1>3
  <2>2. PICK d \in Nat : d = Len(NodesOf(m[k + 1])) /\ d >= 1
    BY <2>1
  <2>3. f[k + 1] = f[k] + d
    BY <1>1, <2>1, <2>2
  <2>4. f[k + 1] \in Nat /\ f[k] < f[k + 1] /\ f[k] \in Nat
    BY <2>1, <2>2, <2>3
  <2>5. ASSUME NEW i \in 0 .. (k + 1) - 1 PROVE f[i] \in Nat /\ f[i] < f[k + 1]
    <3>1. CASE i = k
      BY <2>4, <3>1
    <3>2. CASE i # k
      <4>1. i \in 0 .. k - 1
        BY <3>2
      <4>2. f[i] < f[k] /\ f[i] \in Nat
        BY <2>1, <4>1
      <4> QED
        BY <2>4, <4>2
    <3> QED
      BY <3>1, <3>2
  <2>6. ASSUME NEW n \in Nat, n < f[k + 1] PROVE \E i \in 1 .. k + 1 : f[i - 1] <= n /\ n < f[i]
    <3>1. CASE n < f[k]
      <4>1. PICK i \in 1 .. k : f[i - 1] <= n /\ n < f[i]
        BY <2>1, <3>1
      <4> QED
        BY <4>1
    <3>2. CASE ~ (n < f[k])
      BY <2>1, <2>4, <2>6, <3>2
    <3> QED
      BY <3>1, <3>2
  <2> QED
    BY <2>4, <2>5, <2>6
<1>4. \A k \in Nat : k \in T
  <2> HIDE DEF T
  <2> QED
    BY <1>2, <1>3, NatSetInduction
<1>5. \A k \in 0 .. N : Good(k)
  BY <1>4
<1>6. \A i, j \in 0 .. N : i < j => f[i] < f[j]
  <2> SUFFICES ASSUME NEW i \in 0 .. N, NEW j \in 0 .. N, i < j PROVE f[i] < f[j]
    OBVIOUS
  <2>1. i \in 0 .. j - 1
    OBVIOUS
  <2> QED
    BY <1>5, <2>1
<1>7. ASSUME NEW i \in 1 .. N PROVE f[i - 1] < f[i]
  BY <1>6
<1> QED
  BY <1>1, <1>5, <1>6, <1>7

(* The predecessors of a node.                                              *)
UpTo(succ, n, f, k) ==
  f = [m \in 0 .. k |-> IF m = 0 THEN << >>
                        ELSE IF Contains(succ[m - 1], n) THEN Append(f[m - 1], m - 1)
                        ELSE f[m - 1]]

LEMMA UpToExist ==
  ASSUME NEW succ, NEW n, NEW k \in Nat
  PROVE  \E f : UpTo(succ, n, f, k)
<1> DEFINE S == {j \in Nat : \E f : UpTo(succ, n, f, j)}
           value(i, h) == IF i = 0 THEN << >>
                          ELSE IF Contains(succ[i - 1], n) THEN Append(h[i - 1], i - 1) ELSE h[i - 1]
<1>1. 0 \in S
  <2> DEFINE f == [i \in 0 .. 0 |-> << >>]
  <2>1. f = [i \in 0 .. 0 |-> value(i, f)]
    OBVIOUS
  <2> HIDE DEF f
  <2>2. UpTo(succ, n, f, 0)
    BY <2>1, Zenon DEF UpTo
  <2> QED
    BY <2>2
<1>2. ASSUME NEW j \in Nat, j \in S PROVE j + 1 \in S
  <2>1. PICK f : UpTo(succ, n, f, j)
    BY <1>2
  <2> DEFINE h == [i \in 0 .. j + 1 |-> IF i = j + 1 THEN value(j + 1, f) ELSE f[i]]
  <2>2. \A i \in 0 .. j : f[i] = value(i, f)
    BY <2>1, Zenon DEF UpTo
  <2>3. ASSUME NEW i \in 0 .. j + 1 PROVE h[i] = value(i, h)
    <3>1. CASE i \in 0 .. j
      <4>1. h[i] = f[i] /\ (i # 0 => h[i - 1] = f[i - 1])
        BY <3>1
      <4> QED
        BY <2>2, <3>1, <4>1, Zenon
    <3>2. CASE i = j + 1
      <4>1. h[i] = value(j + 1, f)
        BY <3>2
      <4>2. i # 0 => h[i - 1] = f[i - 1]
        BY <3>2
      <4> QED
        BY <3>2, <4>1, <4>2, Zenon
    <3> QED
      BY <3>1, <3>2
  <2>4. h = [i \in 0 .. j + 1 |-> h[i]]
    OBVIOUS
  <2> HIDE DEF h
  <2>5. h = [i \in 0 .. j + 1 |-> value(i, h)]
    BY <2>3, <2>4, Zenon
  <2>6. UpTo(succ, n, h, j + 1)
    BY <2>5, Zenon DEF UpTo
  <2> QED
    BY <2>6
<1> HIDE DEF S
<1>3. k \in S
  BY <1>1, <1>2, NatSetInduction
<1> QED
  BY <1>3 DEF S

LEMMA PredecessorsOf ==
  ASSUME NEW succ, NEW n, NEW k \in Nat
  PROVE  /\ List(Predecessors(succ, n, k), 0 .. k - 1)
         /\ \A x : Contains(Predecessors(succ, n, k), x) <=> x \in 0 .. k - 1 /\ Contains(succ[x], n)
<1> DEFINE f == CHOOSE h : h = [m \in 0 .. k |->
                                  IF m = 0 THEN << >>
                                  ELSE IF Contains(succ[m - 1], n) THEN Append(h[m - 1], m - 1)
                                  ELSE h[m - 1]]
           Good(m) == /\ List(f[m], Nat)
                      /\ \A x : Contains(f[m], x) <=> x \in 0 .. m - 1 /\ Contains(succ[x], n)
           T == {m \in Nat : m <= k => Good(m)}
<1>1. UpTo(succ, n, f, k)
  <2>1. \E h : UpTo(succ, n, h, k)
    BY UpToExist
  <2> QED
    BY <2>1, Zenon DEF UpTo
<1>2. Predecessors(succ, n, k) = f[k]
  BY Zenon DEF Predecessors
<1> HIDE DEF f
<1>3. \A m \in 0 .. k : f[m] = IF m = 0 THEN << >>
                               ELSE IF Contains(succ[m - 1], n) THEN Append(f[m - 1], m - 1)
                               ELSE f[m - 1]
  BY <1>1, Zenon DEF UpTo
<1>4. 0 \in T
  <2>1. f[0] = << >>
    BY <1>3
  <2>2. List(<< >>, Nat) /\ \A x : ~ Contains(<< >>, x)
    BY DEF List, Contains
  <2> QED
    BY <2>1, <2>2
<1>5. ASSUME NEW m \in Nat, m \in T PROVE m + 1 \in T
  <2> SUFFICES ASSUME m + 1 <= k PROVE Good(m + 1)
    OBVIOUS
  <2>1. Good(m) /\ m + 1 \in 0 .. k /\ m + 1 # 0 /\ (m + 1) - 1 = m
    BY <1>5
  <2>2. f[m + 1] = IF Contains(succ[m], n) THEN Append(f[m], m) ELSE f[m]
    BY <1>3, <2>1
  <2>3. \A x : x \in 0 .. (m + 1) - 1 <=> x \in 0 .. m - 1 \/ x = m
    OBVIOUS
  <2>4. PICK old : old = f[m]
    OBVIOUS
  <2>5. List(old, Nat) /\ \A x : Contains(old, x) <=> x \in 0 .. m - 1 /\ Contains(succ[x], n)
    BY <2>1, <2>4
  <2>6. CASE Contains(succ[m], n)
    <3>1. ~ (m \in 0 .. m - 1)
      OBVIOUS
    <3>2. ~ Contains(old, m)
      BY <2>5, <3>1
    <3>3. f[m + 1] = AddOnce(old, m)
      BY <2>2, <2>4, <2>6, <3>2 DEF AddOnce
    <3>4. List(AddOnce(old, m), Nat) /\ \A x : Contains(AddOnce(old, m), x) <=> Contains(old, x) \/ x = m
      BY <2>5, AddedOnce
    <3> QED
      BY <2>3, <2>5, <2>6, <3>3, <3>4, Zenon
  <2>7. CASE ~ Contains(succ[m], n)
    BY <2>2, <2>3, <2>4, <2>5, <2>7, Zenon
  <2> QED
    BY <2>6, <2>7
<1>6. k \in T
  <2> HIDE DEF T
  <2> QED
    BY <1>4, <1>5, NatSetInduction
<1>7. PICK p : p = f[k]
  OBVIOUS
<1>8. List(p, Nat) /\ \A x : Contains(p, x) <=> x \in 0 .. k - 1 /\ Contains(succ[x], n)
  BY <1>6, <1>7
<1>9. List(p, 0 .. k - 1)
  <2>1. p \in Seq(Nat) /\ Len(p) \in Nat
    BY <1>8 DEF List
  <2>2. ASSUME NEW i \in 1 .. Len(p) PROVE p[i] \in 0 .. k - 1
    <3>1. Contains(p, p[i])
      BY DEF Contains
    <3> QED
      BY <1>8, <3>1
  <2>3. PICK l \in Nat : l = Len(p)
    BY <2>1
  <2>4. p = [i \in 1 .. l |-> p[i]]
    BY <2>1, <2>3
  <2>5. p \in [1 .. l -> 0 .. k - 1]
    BY <2>2, <2>3, <2>4
  <2>6. p \in Seq(0 .. k - 1)
    BY <2>5, SeqOfFunction
  <2> QED
    BY <1>8, <2>6 DEF List
<1> QED
  BY <1>2, <1>7, <1>8, <1>9

(* A block whose one node is the head of the loop, and the order of the     *)
(* other blocks.                                                            *)
IsLoop(m, i) == NodesOf(m[i]) = << [op |-> "while"] >>

Above(m, i, j) == \/ i = 1 /\ j # 1
                  \/ i = 2 /\ j > 2
                  \/ i > 2 /\ j > 2 /\ m[j].clang < m[i].clang

(* What the graph needs to know of a block.                                 *)
BlockShape(m, i) ==
  /\ Len(NodesOf(m[i])) \in Nat /\ Len(NodesOf(m[i])) >= 1
  /\ List(m[i].succ, 1 .. Len(m) - 1) /\ Len(m[i].succ) >= 1
  /\ \/ Len(m[i].succ) = 1
     \/ Len(m[i].succ) <= 2 /\ NodesOf(m[i])[Len(NodesOf(m[i]))].op = "if"
     \/ IsLoop(m, i)
  /\ \A k \in 1 .. Len(m[i].succ) :
       IsLoop(m, i) \/ IsLoop(m, m[i].succ[k] + 1) \/ Above(m, i, m[i].succ[k] + 1)

LEMMA NodesOfBlock ==
  ASSUME NEW block, NEW S, NEW T, block.stmts \in Seq(S), block.terminator \in Seq(T)
  PROVE  /\ Len(NodesOf(block)) \in Nat /\ Len(NodesOf(block)) >= 1
         /\ Len(block.terminator) = 1 =>
              NodesOf(block)[Len(NodesOf(block))] = block.terminator[1]
         /\ block.stmts = << >> /\ block.terminator # << >> => NodesOf(block) = block.terminator
         /\ block.stmts = << >> /\ block.terminator = << >> => NodesOf(block) = << [op |-> "empty"] >>
<1>1. PICK U : U = S \cup T
  OBVIOUS
<1>2. PICK u : u = block.stmts
  OBVIOUS
<1>3. PICK v : v = block.terminator
  OBVIOUS
<1>4. u \in Seq(U) /\ v \in Seq(U)
  <2>1. u \in Seq(S) /\ v \in Seq(T) /\ S \subseteq U /\ T \subseteq U
    BY <1>1, <1>2, <1>3
  <2> QED
    BY <2>1
<1>5. PICK a \in Nat : a = Len(u)
  BY <1>4
<1>6. PICK b \in Nat : b = Len(v)
  BY <1>4
<1>7. PICK w : w = u \o v
  OBVIOUS
<1>8. /\ w \in Seq(U) /\ Len(w) = a + b
      /\ \A k \in 1 .. a + b : w[k] = IF k <= a THEN u[k] ELSE v[k - a]
  <2>1. /\ u \o v \in Seq(U) /\ Len(u \o v) = Len(u) + Len(v)
        /\ \A k \in 1 .. Len(u) + Len(v) : (u \o v)[k] = IF k <= Len(u) THEN u[k] ELSE v[k - Len(u)]
    BY <1>4, ConcatProperties, Zenon
  <2> QED
    BY <1>5, <1>6, <1>7, <2>1, Zenon
<1>9. NodesOf(block) = IF w = << >> THEN << [op |-> "empty"] >> ELSE w
  BY <1>2, <1>3, <1>7 DEF NodesOf
<1>10. CASE w = << >>
  <2>1. a + b = 0 /\ a = 0 /\ b = 0
    <3>1. Len(w) = 0
      BY <1>10
    <3>2. a + b = 0
      BY <1>8, <3>1
    <3> QED
      BY <3>2
  <2>2. u = << >> /\ v = << >>
    <3>1. Len(u) = 0 /\ Len(v) = 0
      BY <1>5, <1>6, <2>1
    <3> QED
      BY <1>4, <3>1, EmptySeq
  <2>3. NodesOf(block) = << [op |-> "empty"] >>
    BY <1>9, <1>10
  <2>4. Len(NodesOf(block)) = 1
    BY <2>3
  <2> QED
    BY <1>2, <1>3, <2>2, <2>3, <2>4
<1>11. CASE w # << >>
  <2>1. NodesOf(block) = w
    BY <1>9, <1>11
  <2>2. Len(w) \in Nat /\ Len(w) >= 1
    BY <1>8, <1>11
  <2>3. b = 1 => w[a + b] = v[1]
    <3>1. b = 1 => a + b \in 1 .. a + b /\ ~ (a + b <= a) /\ (a + b) - a = 1
      OBVIOUS
    <3> QED
      BY <1>8, <3>1
  <2>4. u = << >> => w = v
    BY <1>4, <1>7
  <2>5. ~ (u = << >> /\ v = << >>)
    BY <1>7, <1>11
  <2> QED
    BY <1>2, <1>3, <1>6, <1>8, <2>1, <2>2, <2>3, <2>4, <2>5
<1> QED
  BY <1>10, <1>11

(* A block has at most as many successors as clang gives it.                *)
LEMMA FewSuccessors ==
  ASSUME NEW D, NEW t \in Seq(D), NEW q, List(q, Nat), Len(q) >= 1, NEW m,
         \A k \in 1 .. Len(q) : m[q[k] + 1].clang \in ToSet(t),
         \A k, l \in 1 .. Len(q) : m[q[k] + 1].clang = m[q[l] + 1].clang => q[k] = q[l]
  PROVE  /\ Len(t) = 1 => Len(q) = 1
         /\ Len(t) = 2 => Len(q) <= 2
<1>1. q \in Seq(Nat) /\ Len(q) \in Nat /\ \A k, l \in 1 .. Len(q) : q[k] = q[l] => k = l
  BY DEF List
<1>2. PICK a \in Nat : a = Len(q)
  BY <1>1
<1>3. \A k, l \in 1 .. a : m[q[k] + 1].clang = m[q[l] + 1].clang => k = l
  BY <1>1, <1>2
<1>4. ASSUME Len(t) = 1, a >= 2 PROVE FALSE
  <2>1. ToSet(t) = {t[1]}
    BY <1>4 DEF ToSet
  <2>2. 1 \in 1 .. a /\ 2 \in 1 .. a
    BY <1>4
  <2>3. m[q[1] + 1].clang = t[1] /\ m[q[2] + 1].clang = t[1]
    BY <1>2, <2>1, <2>2
  <2> QED
    BY <1>3, <2>2, <2>3
<1>5. ASSUME Len(t) = 2, a >= 3 PROVE FALSE
  <2>1. ToSet(t) = {t[1], t[2]}
    BY <1>5 DEF ToSet
  <2>2. 1 \in 1 .. a /\ 2 \in 1 .. a /\ 3 \in 1 .. a
    BY <1>5
  <2>3. /\ m[q[1] + 1].clang = t[1] \/ m[q[1] + 1].clang = t[2]
        /\ m[q[2] + 1].clang = t[1] \/ m[q[2] + 1].clang = t[2]
        /\ m[q[3] + 1].clang = t[1] \/ m[q[3] + 1].clang = t[2]
    BY <1>2, <2>1, <2>2
  <2>4. m[q[1] + 1].clang # m[q[2] + 1].clang /\ m[q[1] + 1].clang # m[q[3] + 1].clang /\ m[q[2] + 1].clang # m[q[3] + 1].clang
    BY <1>3, <2>2
  <2> QED
    BY <2>3, <2>4
<1>6. a >= 1 /\ (a < 2 => a = 1) /\ (a < 3 => a <= 2)
  BY <1>2
<1>7. (Len(t) = 1 => a < 2) /\ (Len(t) = 2 => a < 3)
  BY <1>4, <1>5
<1> QED
  BY <1>2, <1>6, <1>7

LEMMA ListIn ==
  ASSUME NEW p, List(p, Nat), NEW S, \A i \in 1 .. Len(p) : p[i] \in S
  PROVE  List(p, S)
<1>1. p \in Seq(Nat) /\ Len(p) \in Nat
  BY DEF List
<1>2. PICK l \in Nat : l = Len(p)
  BY <1>1
<1>3. p = [i \in 1 .. l |-> p[i]]
  BY <1>1, <1>2
<1>4. p \in [1 .. l -> S]
  BY <1>2, <1>3
<1>5. p \in Seq(S)
  BY <1>4, SeqOfFunction
<1> QED
  BY <1>5 DEF List

(* Block i of the map ends with an `if'.                                    *)
OfIf(s, m, i) == i \in 3 .. Len(m) /\ s.blocks[m[i].clang].class = "if"

LEMMA BlocksShape ==
  ASSUME NEW s, NEW next, NEW ends, Laid(s, next, ends), NEW m, MapInv(s, next, ends, m),
         NEW i \in 1 .. Len(m), m[i].succ # << >>
  PROVE  BlockShape(m, i) /\ (Len(m[i].succ) = 1 \/ OfIf(s, m, i))
<1>1. PICK N \in Nat : N = Len(m)
  BY DEF MapInv
<1>2. N >= 2 /\ i \in 1 .. N
  BY <1>1 DEF MapInv
<1>3. PICK q : q = m[i].succ
  OBVIOUS
<1>4. CASE i = 1
  <2>1. m[1] = [clang |-> Entry, stmts |-> << >>, terminator |-> << >>, succ |-> << 1 >>]
    BY DEF MapInv
  <2>2. q = << 1 >> /\ m[1].stmts = << >> /\ m[1].terminator = << >>
    BY <1>3, <1>4, <2>1
  <2>3. << >> \in Seq(Nat)
    OBVIOUS
  <2>4. Len(NodesOf(m[1])) \in Nat /\ Len(NodesOf(m[1])) >= 1
    BY <2>2, <2>3, NodesOfBlock
  <2>5. Len(q) = 1 /\ q[1] = 1 /\ q \in Seq(1 .. N - 1)
    BY <1>2, <2>2
  <2>6. List(q, 1 .. N - 1)
    BY <2>5 DEF List
  <2>7. \A k \in 1 .. Len(q) : Above(m, 1, q[k] + 1)
    BY <2>5 DEF Above
  <2> QED
    BY <1>1, <1>3, <1>4, <2>4, <2>5, <2>6, <2>7 DEF BlockShape
<1>5. CASE i # 1
  <2>1. i \in 2 .. N
    BY <1>2, <1>5
  <2>2. List(q, Nat) /\ \A k \in 1 .. Len(q) : Led(s, next, m, i, q[k])
    BY <1>1, <1>3, <2>1 DEF MapInv
  <2>3. q \in Seq(Nat) /\ Len(q) \in Nat /\ Len(q) >= 1
    <3>1. q \in Seq(Nat) /\ q # << >>
      BY <1>3, <2>2 DEF List
    <3> QED
      BY <3>1
  <2>4. \A k \in 1 .. Len(q) : /\ q[k] \in 1 .. N - 1 /\ q[k] + 1 \in 3 .. N
                               /\ m[q[k] + 1].clang \in Following(s, next, m, i)
    BY <1>1, <2>2 DEF Led
  <2>5. List(q, 1 .. N - 1)
    BY <2>2, <2>4, ListIn
  <2>6. \A k, l \in 1 .. Len(q) : m[q[k] + 1].clang = m[q[l] + 1].clang => q[k] = q[l]
    <3> SUFFICES ASSUME NEW k \in 1 .. Len(q), NEW l \in 1 .. Len(q),
                        m[q[k] + 1].clang = m[q[l] + 1].clang
                 PROVE  q[k] = q[l]
      OBVIOUS
    <3>1. q[k] + 1 \in 3 .. N /\ q[l] + 1 \in 3 .. N /\ q[k] \in 1 .. N - 1 /\ q[l] \in 1 .. N - 1
      BY <2>4
    <3>2. q[k] + 1 = q[l] + 1
      BY <1>1, <3>1 DEF MapInv
    <3> QED
      BY <3>1, <3>2
  <2>7. CASE i = 2
    <3>1. PICK t : t = << s.first >>
      OBVIOUS
    <3>2. t \in Seq({s.first}) /\ Len(t) = 1 /\ ToSet(t) = {s.first}
      BY <3>1 DEF ToSet
    <3>3. \A k \in 1 .. Len(q) : m[q[k] + 1].clang \in ToSet(t)
      BY <2>4, <2>7, <3>2 DEF Following
    <3>4. Len(q) = 1
      BY <2>2, <2>3, <2>6, <3>2, <3>3, FewSuccessors
    <3>5. m[2].stmts = s.init /\ m[2].terminator = << >> /\ s.init \in Seq(ToSet(s.init))
      BY DEF MapInv, Laid
    <3>6. << >> \in Seq(Nat)
      OBVIOUS
    <3>7. Len(NodesOf(m[2])) \in Nat /\ Len(NodesOf(m[2])) >= 1
      <4>1. m[2].stmts \in Seq(ToSet(s.init)) /\ m[2].terminator \in Seq(Nat)
        BY <3>5, <3>6
      <4> QED
        BY <4>1, NodesOfBlock
    <3>8. \A k \in 1 .. Len(q) : Above(m, 2, q[k] + 1)
      BY <2>4 DEF Above
    <3> QED
      BY <1>1, <1>3, <2>3, <2>5, <2>7, <3>4, <3>7, <3>8 DEF BlockShape
  <2>8. CASE i # 2
    <3>1. i \in 3 .. N
      BY <2>1, <2>8
    <3>2. PICK c : c = m[i].clang
      OBVIOUS
    <3>3. PICK t : t = next[c]
      OBVIOUS
    <3>4. PICK blocks : blocks = s.blocks
      OBVIOUS
    <3>5. /\ c \in DOMAIN blocks /\ m[i].stmts = blocks[c].stmts /\ m[i].terminator = ends[c]
          /\ LaidNext(blocks, next, ends, c) /\ DOMAIN blocks \subseteq Nat
      BY <1>1, <3>1, <3>2, <3>4 DEF MapInv, OfClang, Laid
    <3>6. PICK te : te = ends[c]
      OBVIOUS
    <3>7. /\ t \in Seq(DOMAIN blocks) /\ m[i].terminator = te
          /\ \/ Len(t) = 1 /\ te = << >> /\ blocks[c].class # "while"
             \/ Len(t) = 2 /\ Len(te) = 1 /\ te[1].op = "if" /\ blocks[c].class = "if"
             \/ /\ Len(t) = 1 /\ te = << [op |-> "while"] >>
                /\ blocks[c].class = "while" /\ m[i].stmts = << >>
          /\ m[i].stmts \in Seq(ToSet(m[i].stmts)) /\ te \in Seq(ToSet(te))
          /\ blocks[c].class # "while" =>
               \A d \in ToSet(t) : blocks[d].class = "while" \/ d < c
      BY <3>3, <3>5, <3>6 DEF LaidNext
    <3>8. \A k \in 1 .. Len(q) : m[q[k] + 1].clang \in ToSet(t)
      BY <2>4, <2>8, <3>2, <3>3 DEF Following
    <3>9. (Len(t) = 1 => Len(q) = 1) /\ (Len(t) = 2 => Len(q) <= 2)
      <4>1. t \in Seq(DOMAIN blocks) /\ List(q, Nat) /\ Len(q) >= 1
        BY <2>2, <2>3, <3>7
      <4> QED
        BY <2>6, <3>8, <4>1, FewSuccessors
    <3>10. /\ Len(NodesOf(m[i])) \in Nat /\ Len(NodesOf(m[i])) >= 1
           /\ Len(te) = 1 => NodesOf(m[i])[Len(NodesOf(m[i]))] = te[1]
           /\ m[i].stmts = << >> /\ te # << >> => NodesOf(m[i]) = te
      <4>1. m[i].stmts \in Seq(ToSet(m[i].stmts)) /\ m[i].terminator \in Seq(ToSet(te))
        BY <3>7
      <4>2. /\ Len(NodesOf(m[i])) \in Nat /\ Len(NodesOf(m[i])) >= 1
            /\ Len(m[i].terminator) = 1 =>
                 NodesOf(m[i])[Len(NodesOf(m[i]))] = m[i].terminator[1]
            /\ m[i].stmts = << >> /\ m[i].terminator # << >> => NodesOf(m[i]) = m[i].terminator
        BY <4>1, NodesOfBlock
      <4> QED
        BY <3>7, <4>2
    <3>11. ASSUME NEW k \in 1 .. Len(q)
           PROVE  IsLoop(m, i) \/ IsLoop(m, q[k] + 1) \/ Above(m, i, q[k] + 1)
      <4>1. CASE blocks[c].class = "while"
        <5>1. PICK v : v = << [op |-> "while"] >>
          OBVIOUS
        <5>2. te = v /\ m[i].stmts = << >>
          BY <3>7, <4>1, <5>1, Zenon
        <5>3. v # << >>
          BY <5>1
        <5>4. NodesOf(m[i]) = v
          BY <3>10, <5>2, <5>3
        <5> QED
          BY <5>1, <5>4 DEF IsLoop
      <4>2. CASE blocks[c].class # "while"
        <5>1. PICK j \in 3 .. N : j = q[k] + 1
          BY <2>4
        <5>2. PICK d : d = m[j].clang
          OBVIOUS
        <5>3. d \in ToSet(t)
          BY <3>8, <5>1, <5>2
        <5>4. CASE blocks[d].class = "while"
          <6>1. /\ d \in DOMAIN blocks /\ m[j].stmts = blocks[d].stmts /\ m[j].terminator = ends[d]
                /\ LaidNext(blocks, next, ends, d)
            BY <1>1, <3>4, <5>2 DEF MapInv, OfClang, Laid
          <6>2. ends[d] = << [op |-> "while"] >> /\ m[j].stmts = << >>
            BY <5>4, <6>1 DEF LaidNext
          <6>3. PICK v : v = << [op |-> "while"] >>
            OBVIOUS
          <6>4. m[j].terminator = v /\ v \in Seq(ToSet(v)) /\ v # << >> /\ << >> \in Seq(Nat)
            BY <6>1, <6>2, <6>3 DEF ToSet
          <6>5. NodesOf(m[j]) = v
            <7>1. m[j].stmts \in Seq(Nat) /\ m[j].terminator \in Seq(ToSet(v))
              BY <6>2, <6>4
            <7>2. m[j].stmts = << >> /\ m[j].terminator # << >> => NodesOf(m[j]) = m[j].terminator
              BY <7>1, NodesOfBlock
            <7> QED
              BY <6>2, <6>4, <7>2
          <6> QED
            BY <5>1, <6>3, <6>5 DEF IsLoop
        <5>5. CASE blocks[d].class # "while"
          <6>1. d < c
            BY <3>7, <4>2, <5>3, <5>5
          <6>2. i > 2 /\ j > 2
            BY <3>1
          <6> QED
            BY <3>2, <5>1, <5>2, <6>1, <6>2 DEF Above
        <5> QED
          BY <5>4, <5>5
      <4> QED
        BY <4>1, <4>2
    <3>12. \/ Len(q) = 1
           \/ Len(q) <= 2 /\ NodesOf(m[i])[Len(NodesOf(m[i]))].op = "if"
           \/ IsLoop(m, i)
      <4>1. CASE Len(t) = 1
        BY <3>9, <4>1
      <4>2. CASE Len(t) = 2 /\ Len(te) = 1 /\ te[1].op = "if"
        BY <3>9, <3>10, <4>2
      <4>3. CASE te = << [op |-> "while"] >> /\ m[i].stmts = << >>
        <5>1. te # << >>
          BY <4>3
        <5> QED
          BY <3>10, <4>3, <5>1 DEF IsLoop
      <4> QED
        BY <3>7, <4>1, <4>2, <4>3
    <3>13. Len(q) = 1 \/ OfIf(s, m, i)
      <4>1. Len(t) = 1 \/ blocks[c].class = "if"
        BY <3>7
      <4> QED
        BY <1>1, <3>1, <3>2, <3>4, <3>9, <4>1 DEF OfIf
    <3> QED
      BY <1>1, <1>3, <2>3, <2>5, <3>10, <3>11, <3>12, <3>13 DEF BlockShape
  <2> QED
    BY <2>7, <2>8
<1> QED
  BY <1>4, <1>5

-----------------------------------------------------------------------------
(* The graph of a map m of blocks, of which block i has the nodes from      *)
(* f[i - 1] to f[i] - 1.                                                    *)
BlockOf(m, f, n) == CHOOSE i \in DOMAIN m : n \in f[i - 1] .. f[i] - 1

Flow(m, f) ==
  [n \in 0 .. f[Len(m)] - 1 |->
     IF n = f[BlockOf(m, f, n)] - 1
     THEN [k \in DOMAIN m[BlockOf(m, f, n)].succ |-> f[(m[BlockOf(m, f, n)].succ[k] + 1) - 1]]
     ELSE << n + 1 >>]

GraphOf(m, f) ==
  [stmt |-> [n \in 0 .. f[Len(m)] - 1 |->
               NodesOf(m[BlockOf(m, f, n)])[n - f[BlockOf(m, f, n) - 1] + 1]],
   succ |-> Flow(m, f),
   pred |-> [n \in 0 .. f[Len(m)] - 1 |-> Predecessors(Flow(m, f), n, f[Len(m)])]]

LEMMA RealCFGIs ==
  ASSUME Len(controlFlowMap) \in Nat
  PROVE  \E f : /\ Starts(controlFlowMap, f, Len(controlFlowMap))
                /\ RealCFG = GraphOf(controlFlowMap, f)
<1> DEFINE f == CHOOSE h : h = [i \in 0 .. Len(controlFlowMap) |->
                                  IF i = 0 THEN 0 ELSE h[i - 1] + Len(NodesOf(controlFlowMap[i]))]
<1>1. Starts(controlFlowMap, f, Len(controlFlowMap))
  <2>1. \E h : Starts(controlFlowMap, h, Len(controlFlowMap))
    BY StartsExist
  <2> QED
    BY <2>1, Zenon DEF Starts
<1>2. RealCFG = GraphOf(controlFlowMap, f)
  BY Zenon DEF RealCFG, GraphOf, Flow, BlockOf
<1> HIDE DEF f
<1> QED
  BY <1>1, <1>2

(* Where the blocks of the map are in the graph.                            *)
Spread(m, f, N) ==
  /\ N = Len(m) /\ N >= 2 /\ DOMAIN m = 1 .. N
  /\ f[0] = 0 /\ \A i \in 0 .. N : f[i] \in Nat
  /\ \A i \in 1 .. N : f[i] = f[i - 1] + Len(NodesOf(m[i])) /\ f[i - 1] < f[i]
  /\ \A i, j \in 0 .. N : i < j => f[i] < f[j]
  /\ \A n \in Nat : n < f[N] => \E i \in 1 .. N : f[i - 1] <= n /\ n < f[i]
  /\ \A i \in 1 .. N : BlockShape(m, i)

LEMMA BlockOfNode ==
  ASSUME NEW m, NEW f, NEW N \in Nat, Spread(m, f, N), NEW i \in 1 .. N, NEW n \in Nat,
         f[i - 1] <= n, n < f[i]
  PROVE  BlockOf(m, f, n) = i
<1>1. \A j \in 0 .. N : f[j] \in Nat
  BY DEF Spread
<1>2. \A j, k \in 0 .. N : j < k => f[j] < f[k]
  BY DEF Spread
<1>3. DOMAIN m = 1 .. N
  BY DEF Spread
<1>4. \A j \in DOMAIN m : n \in f[j - 1] .. f[j] - 1 <=> f[j - 1] <= n /\ n < f[j]
  <2> SUFFICES ASSUME NEW j \in 1 .. N
               PROVE  n \in f[j - 1] .. f[j] - 1 <=> f[j - 1] <= n /\ n < f[j]
    BY <1>3
  <2>1. PICK a \in Nat : a = f[j - 1]
    BY <1>1
  <2>2. PICK b \in Nat : b = f[j]
    BY <1>1
  <2> QED
    BY <2>1, <2>2
<1>5. PICK j : j = BlockOf(m, f, n)
  OBVIOUS
<1>6. j \in DOMAIN m /\ n \in f[j - 1] .. f[j] - 1
  <2>1. \E k \in DOMAIN m : n \in f[k - 1] .. f[k] - 1
    BY <1>3, <1>4
  <2> QED
    BY <1>5, <2>1, Zenon DEF BlockOf
<1>7. j \in 1 .. N /\ f[j - 1] <= n /\ n < f[j]
  BY <1>3, <1>4, <1>6
<1>8. ASSUME j < i PROVE FALSE
  <2>1. j = i - 1 \/ j < i - 1
    BY <1>7, <1>8
  <2>2. f[j] <= f[i - 1]
    BY <1>1, <1>2, <1>7, <2>1
  <2>3. f[j] \in Nat /\ f[i - 1] \in Nat
    BY <1>1, <1>7
  <2> QED
    BY <1>7, <2>2, <2>3
<1>9. ASSUME i < j PROVE FALSE
  <2>1. i = j - 1 \/ i < j - 1
    BY <1>7, <1>9
  <2>2. f[i] <= f[j - 1]
    BY <1>1, <1>2, <1>7, <2>1
  <2>3. f[i] \in Nat /\ f[j - 1] \in Nat
    BY <1>1, <1>7
  <2> QED
    BY <1>7, <2>2, <2>3
<1> QED
  BY <1>5, <1>7, <1>8, <1>9

(* The nodes of a block follow each other; the last one leads to the first  *)
(* ones of the blocks that follow.                                          *)
LEMMA FlowOf ==
  ASSUME NEW m, NEW f, NEW N \in Nat, Spread(m, f, N), NEW i \in 1 .. N, NEW n \in Nat,
         f[i - 1] <= n, n < f[i]
  PROVE  /\ n \in 0 .. f[N] - 1
         /\ n + 1 < f[i] => Flow(m, f)[n] = << n + 1 >>
         /\ n + 1 = f[i] => Flow(m, f)[n] = [k \in 1 .. Len(m[i].succ) |-> f[m[i].succ[k]]]
<1>1. \A j \in 0 .. N : f[j] \in Nat
  BY DEF Spread
<1>2. BlockOf(m, f, n) = i
  BY BlockOfNode
<1>3. n \in 0 .. f[N] - 1
  <2>1. i = N \/ i < N
    OBVIOUS
  <2>2. f[i] <= f[N]
    BY <1>1, <2>1 DEF Spread
  <2>3. f[i] \in Nat /\ f[N] \in Nat
    BY <1>1
  <2> QED
    BY <2>2, <2>3
<1>4. PICK q : q = m[i].succ
  OBVIOUS
<1>5. q \in Seq(1 .. N - 1)
  <2>1. BlockShape(m, i) /\ N = Len(m)
    BY DEF Spread
  <2> QED
    BY <1>4, <2>1 DEF BlockShape, List
<1>6. Flow(m, f)[n] = IF n = f[i] - 1 THEN [k \in DOMAIN q |-> f[(q[k] + 1) - 1]] ELSE << n + 1 >>
  <2>1. Len(m) = N
    BY DEF Spread
  <2>2. n \in 0 .. f[Len(m)] - 1
    BY <1>3, <2>1
  <2>3. Flow(m, f)[n] =
          IF n = f[BlockOf(m, f, n)] - 1
          THEN [k \in DOMAIN m[BlockOf(m, f, n)].succ |-> f[(m[BlockOf(m, f, n)].succ[k] + 1) - 1]]
          ELSE << n + 1 >>
    BY <2>2, Zenon DEF Flow
  <2> QED
    BY <1>2, <1>4, <2>3, Zenon
<1>7. [k \in DOMAIN q |-> f[(q[k] + 1) - 1]] = [k \in 1 .. Len(q) |-> f[q[k]]]
  <2>1. DOMAIN q = 1 .. Len(q)
    BY <1>5
  <2>2. \A k \in 1 .. Len(q) : (q[k] + 1) - 1 = q[k]
    BY <1>5
  <2> QED
    BY <2>1, <2>2
<1>8. PICK e \in Nat : e = f[i]
  BY <1>1
<1>9. n + 1 < e => n # e - 1
  OBVIOUS
<1>10. n + 1 = e => n = e - 1
  OBVIOUS
<1>11. n + 1 < f[i] => Flow(m, f)[n] = << n + 1 >>
  BY <1>6, <1>8, <1>9, Zenon
<1>12. n + 1 = f[i] => Flow(m, f)[n] = [k \in 1 .. Len(q) |-> f[q[k]]]
  BY <1>6, <1>7, <1>8, <1>10, Zenon
<1> QED
  BY <1>3, <1>4, <1>11, <1>12, Zenon

(* The order of the nodes D, where node n is in block b[n].                 *)
InOrder(R, m, b, D) ==
  /\ Order(R)
  /\ \A n, k \in D : << n, k >> \in R <=> Above(m, b[n], b[k]) \/ (b[n] = b[k] /\ n < k)

LEMMA NodeOrder ==
  ASSUME NEW m, NEW N \in Nat, \A i \in 3 .. N : m[i].clang \in Nat,
         NEW D \in SUBSET Nat, NEW b \in [D -> 1 .. N]
  PROVE  \E R : InOrder(R, m, b, D)
<1> DEFINE R == {p \in D \X D : Above(m, b[p[1]], b[p[2]]) \/ (b[p[1]] = b[p[2]] /\ p[1] < p[2])}
<1>1. \A n, k : << n, k >> \in R <=> /\ n \in D /\ k \in D
                                     /\ Above(m, b[n], b[k]) \/ (b[n] = b[k] /\ n < k)
  OBVIOUS
<1> HIDE DEF R
<1>2. \A i \in 1 .. N : ~ Above(m, i, i)
  BY DEF Above
<1>3. \A i, j, k \in 1 .. N : Above(m, i, j) /\ Above(m, j, k) => Above(m, i, k)
  <2> SUFFICES ASSUME NEW i \in 1 .. N, NEW j \in 1 .. N, NEW k \in 1 .. N,
                      Above(m, i, j), Above(m, j, k)
               PROVE  Above(m, i, k)
    OBVIOUS
  <2>1. CASE i = 1 \/ i = 2
    BY <2>1 DEF Above
  <2>2. CASE i > 2
    <3>1. i \in 3 .. N /\ j \in 3 .. N /\ k \in 3 .. N
      BY <2>2 DEF Above
    <3>2. m[j].clang < m[i].clang /\ m[k].clang < m[j].clang
      BY <2>2, <3>1 DEF Above
    <3>3. m[k].clang < m[i].clang
      BY <3>1, <3>2
    <3> QED
      BY <2>2, <3>1, <3>3 DEF Above
  <2> QED
    BY <2>1, <2>2
<1>4. \A n \in D : b[n] \in 1 .. N /\ n \in Nat
  OBVIOUS
<1>5. ASSUME NEW n, << n, n >> \in R PROVE FALSE
  <2>1. n \in D /\ (Above(m, b[n], b[n]) \/ n < n)
    BY <1>1, <1>5
  <2>2. b[n] \in 1 .. N /\ n \in Nat
    BY <1>4, <2>1
  <2>3. ~ Above(m, b[n], b[n])
    BY <1>2, <2>2
  <2>4. ~ (n < n)
    BY <2>2
  <2> QED
    BY <2>1, <2>3, <2>4
<1>6. ASSUME NEW n, NEW k, NEW l, << n, k >> \in R, << k, l >> \in R
      PROVE  << n, l >> \in R
  <2>1. n \in D /\ k \in D /\ l \in D
    BY <1>1, <1>6
  <2>2. b[n] \in 1 .. N /\ b[k] \in 1 .. N /\ b[l] \in 1 .. N
    BY <1>4, <2>1
  <2>3. Above(m, b[n], b[k]) \/ (b[n] = b[k] /\ n < k)
    BY <1>1, <1>6
  <2>4. Above(m, b[k], b[l]) \/ (b[k] = b[l] /\ k < l)
    BY <1>1, <1>6
  <2>5. CASE Above(m, b[n], b[k]) /\ Above(m, b[k], b[l])
    BY <1>1, <1>3, <2>1, <2>2, <2>5
  <2>6. CASE Above(m, b[n], b[k]) /\ b[k] = b[l]
    BY <1>1, <2>1, <2>6
  <2>7. CASE b[n] = b[k] /\ Above(m, b[k], b[l])
    BY <1>1, <2>1, <2>7
  <2>8. CASE b[n] = b[k] /\ n < k /\ b[k] = b[l] /\ k < l
    <3>1. n < l
      BY <1>4, <2>1, <2>8
    <3> QED
      BY <1>1, <2>1, <2>8, <3>1
  <2> QED
    BY <2>3, <2>4, <2>5, <2>6, <2>7, <2>8
<1>7. Order(R)
  BY <1>5, <1>6 DEF Order
<1>8. \A n, k \in D : << n, k >> \in R <=> Above(m, b[n], b[k]) \/ (b[n] = b[k] /\ n < k)
  BY <1>1
<1> QED
  BY <1>7, <1>8 DEF InOrder

(* The successors of the last node of block i.                              *)
EndList(m, f, N, i, list) ==
  /\ list = [k \in 1 .. Len(m[i].succ) |-> f[m[i].succ[k]]]
  /\ List(list, 0 .. f[N] - 1) /\ Len(list) = Len(m[i].succ)
  /\ \A x : Contains(list, x) <=> \E j \in 1 .. N - 1 : Contains(m[i].succ, j) /\ x = f[j]

LEMMA EndOf ==
  ASSUME NEW m, NEW f, NEW N \in Nat, Spread(m, f, N), NEW i \in 1 .. N
  PROVE  \E list : EndList(m, f, N, i, list)
<1>1. \A j \in 0 .. N : f[j] \in Nat
  BY DEF Spread
<1>2. \A j, k \in 0 .. N : j < k => f[j] < f[k]
  BY DEF Spread
<1>3. PICK q : q = m[i].succ
  OBVIOUS
<1>4. q \in Seq(1 .. N - 1) /\ \A k, l \in 1 .. Len(q) : q[k] = q[l] => k = l
  <2>1. BlockShape(m, i) /\ N = Len(m)
    BY DEF Spread
  <2> QED
    BY <1>3, <2>1 DEF BlockShape, List
<1>5. PICK a \in Nat : a = Len(q)
  BY <1>4
<1>6. \A k \in 1 .. a : q[k] \in 1 .. N - 1
  BY <1>4, <1>5
<1>7. PICK D : D = 0 .. f[N] - 1
  OBVIOUS
<1>8. \A j \in 1 .. N - 1 : f[j] \in D
  <2> SUFFICES ASSUME NEW j \in 1 .. N - 1 PROVE f[j] \in D
    OBVIOUS
  <2>1. f[j] \in Nat /\ f[N] \in Nat /\ f[j] < f[N]
    BY <1>1, <1>2
  <2> QED
    BY <1>7, <2>1
<1>9. PICK list : list = [k \in 1 .. a |-> f[q[k]]]
  OBVIOUS
<1>10. \A k \in 1 .. a : list[k] = f[q[k]] /\ list[k] \in D
  BY <1>6, <1>8, <1>9
<1>11. list \in [1 .. a -> D]
  BY <1>9, <1>10
<1>12. list \in Seq(D) /\ Len(list) = a
  BY <1>11, SeqOfFunction
<1>13. ASSUME NEW k \in 1 .. a, NEW l \in 1 .. a, list[k] = list[l] PROVE k = l
  <2>1. q[k] \in 0 .. N /\ q[l] \in 0 .. N
    BY <1>6
  <2>2. f[q[k]] = f[q[l]]
    BY <1>10, <1>13
  <2>3. q[k] = q[l]
    BY <1>1, <1>2, <2>1, <2>2
  <2> QED
    BY <1>4, <1>5, <2>3
<1>14. List(list, D)
  BY <1>12, <1>13 DEF List
<1>15. \A x : Contains(list, x) <=> \E j \in 1 .. N - 1 : Contains(q, j) /\ x = f[j]
  <2>1. ASSUME NEW x, Contains(list, x) PROVE \E j \in 1 .. N - 1 : Contains(q, j) /\ x = f[j]
    <3>1. PICK k \in 1 .. a : list[k] = x
      BY <1>12, <2>1 DEF Contains
    <3>2. q[k] \in 1 .. N - 1 /\ Contains(q, q[k]) /\ x = f[q[k]]
      BY <1>5, <1>6, <1>10, <3>1 DEF Contains
    <3> QED
      BY <3>2
  <2>2. ASSUME NEW x, NEW j \in 1 .. N - 1, Contains(q, j), x = f[j] PROVE Contains(list, x)
    <3>1. PICK k \in 1 .. a : q[k] = j
      BY <1>5, <2>2 DEF Contains
    <3>2. list[k] = x
      BY <1>10, <2>2, <3>1
    <3> QED
      BY <1>12, <3>2 DEF Contains
  <2> QED
    BY <2>1, <2>2
<1>16. List(list, 0 .. f[N] - 1)
  BY <1>7, <1>14
<1>17. list = [k \in 1 .. Len(m[i].succ) |-> f[m[i].succ[k]]] /\ Len(list) = Len(m[i].succ)
  BY <1>3, <1>5, <1>9, <1>12, Zenon
<1>18. \A x : Contains(list, x) <=> \E j \in 1 .. N - 1 : Contains(m[i].succ, j) /\ x = f[j]
  BY <1>3, <1>15, Zenon
<1> QED
  BY <1>16, <1>17, <1>18, Zenon DEF EndList

(* A graph that is laid out in this way has the shape in which nodes can be *)
(* removed.                                                                 *)
LEMMA GraphShape ==
  ASSUME NEW m, NEW f, NEW N \in Nat, Spread(m, f, N), Reached(m),
         \A i \in 3 .. N : m[i].clang \in Nat,
         NodesOf(m[1]) = << [op |-> "empty"] >>
  PROVE  /\ \E R : Order(R) /\ Shape(GraphOf(m, f), R)
         /\ 0 \in DOMAIN GraphOf(m, f).succ /\ Op(GraphOf(m, f), 0) = "empty"
         /\ \E b \in Nat : \A n \in DOMAIN GraphOf(m, f).succ : n <= b
<1>1. /\ N = Len(m) /\ N >= 2 /\ DOMAIN m = 1 .. N
      /\ f[0] = 0 /\ \A i \in 0 .. N : f[i] \in Nat
      /\ \A i \in 1 .. N : f[i] = f[i - 1] + Len(NodesOf(m[i])) /\ f[i - 1] < f[i]
      /\ \A n \in Nat : n < f[N] => \E i \in 1 .. N : f[i - 1] <= n /\ n < f[i]
      /\ \A i \in 1 .. N : BlockShape(m, i)
  BY DEF Spread
<1>2. PICK K \in Nat : K = f[N]
  BY <1>1
<1>3. PICK D : D = 0 .. K - 1
  OBVIOUS
<1>4. D \in SUBSET Nat
  BY <1>3
<1>5. PICK b : b = [n \in D |-> BlockOf(m, f, n)]
  OBVIOUS
<1>6. ASSUME NEW n \in D
      PROVE  b[n] \in 1 .. N /\ n \in Nat /\ f[b[n] - 1] <= n /\ n < f[b[n]]
  <2>1. n \in Nat /\ n < f[N]
    BY <1>2, <1>3
  <2>2. PICK i \in 1 .. N : f[i - 1] <= n /\ n < f[i]
    BY <1>1, <2>1
  <2>3. BlockOf(m, f, n) = i
    BY <2>1, <2>2, BlockOfNode
  <2>4. b[n] = i
    BY <1>5, <2>3
  <2> QED
    BY <2>1, <2>2, <2>4
<1>7. ASSUME NEW i \in 1 .. N, NEW n \in Nat, f[i - 1] <= n, n < f[i]
      PROVE  /\ n \in D /\ b[n] = i
             /\ n + 1 < f[i] => Flow(m, f)[n] = << n + 1 >>
             /\ n + 1 = f[i] => Flow(m, f)[n] = [k \in 1 .. Len(m[i].succ) |-> f[m[i].succ[k]]]
  <2>1. BlockOf(m, f, n) = i
    BY <1>7, BlockOfNode
  <2>2. /\ n \in 0 .. f[N] - 1
        /\ n + 1 < f[i] => Flow(m, f)[n] = << n + 1 >>
        /\ n + 1 = f[i] => Flow(m, f)[n] = [k \in 1 .. Len(m[i].succ) |-> f[m[i].succ[k]]]
    BY <1>7, FlowOf
  <2>3. n \in D
    BY <1>2, <1>3, <2>2
  <2>4. b[n] = i
    BY <1>5, <2>1, <2>3
  <2> QED
    BY <2>2, <2>3, <2>4, Zenon
<1>8. b \in [D -> 1 .. N]
  BY <1>5, <1>6
<1>8b. PICK R : InOrder(R, m, b, D)
  BY <1>4, <1>8, NodeOrder
<1>9. /\ Order(R)
      /\ \A n, k \in D : << n, k >> \in R <=> Above(m, b[n], b[k]) \/ (b[n] = b[k] /\ n < k)
  BY <1>8b, Zenon DEF InOrder
<1>10. PICK g : g = GraphOf(m, f)
  OBVIOUS
<1>11. /\ DOMAIN g.succ = D /\ DOMAIN g.stmt = D /\ DOMAIN g.pred = D
       /\ \A n \in D : g.succ[n] = Flow(m, f)[n]
  BY <1>1, <1>2, <1>3, <1>10 DEF GraphOf, Flow
<1>12. \A n \in D : g.pred[n] = Predecessors(Flow(m, f), n, K)
  BY <1>1, <1>2, <1>3, <1>10 DEF GraphOf
<1>13. \A n \in D : g.stmt[n] = NodesOf(m[b[n]])[n - f[b[n] - 1] + 1]
  BY <1>1, <1>2, <1>3, <1>5, <1>10 DEF GraphOf
<1>14. ASSUME NEW n \in D
       PROVE  /\ List(g.pred[n], D)
              /\ \A x : Contains(g.pred[n], x) <=> x \in D /\ Contains(g.succ[x], n)
  <2>1. /\ List(Predecessors(Flow(m, f), n, K), 0 .. K - 1)
        /\ \A x : Contains(Predecessors(Flow(m, f), n, K), x) <=>
                    x \in 0 .. K - 1 /\ Contains(Flow(m, f)[x], n)
    BY PredecessorsOf
  <2>2. g.pred[n] = Predecessors(Flow(m, f), n, K) /\ D = 0 .. K - 1
    BY <1>3, <1>12
  <2>3. ASSUME NEW x PROVE Contains(g.pred[n], x) <=> x \in D /\ Contains(g.succ[x], n)
    BY <1>11, <2>1, <2>2, Zenon
  <2>4. List(g.pred[n], D)
    BY <2>1, <2>2
  <2> QED
    BY <2>3, <2>4
(* The last node of a block.                                                *)
<1>15. ASSUME NEW i \in 1 .. N
       PROVE  \E n \in D : n + 1 = f[i] /\ b[n] = i /\ EndList(m, f, N, i, g.succ[n])
  <2>1. f[i] \in Nat /\ f[i - 1] \in Nat /\ f[i - 1] < f[i]
    BY <1>1
  <2>2. PICK n \in Nat : n + 1 = f[i] /\ f[i - 1] <= n /\ n < f[i]
    <3>1. PICK x \in Nat : x = f[i]
      BY <2>1
    <3>2. PICK y \in Nat : y = f[i - 1]
      BY <2>1
    <3>3. y < x
      BY <2>1, <3>1, <3>2
    <3>4. x - 1 \in Nat /\ (x - 1) + 1 = x /\ y <= x - 1 /\ x - 1 < x
      BY <3>3
    <3> QED
      BY <3>1, <3>2, <3>4
  <2>3. n \in D /\ b[n] = i /\ Flow(m, f)[n] = [k \in 1 .. Len(m[i].succ) |-> f[m[i].succ[k]]]
    BY <1>7, <2>2
  <2>4. PICK list : EndList(m, f, N, i, list)
    BY EndOf
  <2>5. g.succ[n] = list
    BY <1>11, <2>3, <2>4, Zenon DEF EndList
  <2> QED
    BY <2>2, <2>3, <2>4, <2>5
(* The head of the loop is the one node of its block.                       *)
<1>16. ASSUME NEW n \in D, IsLoop(m, b[n]) PROVE Op(g, n) = "while"
  <2>1. PICK i \in 1 .. N : i = b[n]
    BY <1>6
  <2>2. PICK w : w = << [op |-> "while"] >>
    OBVIOUS
  <2>3. NodesOf(m[i]) = w /\ Len(w) = 1 /\ w[1].op = "while"
    BY <1>16, <2>1, <2>2 DEF IsLoop
  <2>4. f[i] = f[i - 1] + 1 /\ f[i - 1] \in Nat
    <3>1. f[i] = f[i - 1] + Len(NodesOf(m[i])) /\ f[i - 1] \in Nat
      BY <1>1
    <3> QED
      BY <2>3, <3>1
  <2>5. f[i - 1] <= n /\ n < f[i] /\ n \in Nat
    BY <1>6, <2>1
  <2>6. n - f[i - 1] + 1 = 1
    BY <2>4, <2>5
  <2> QED
    BY <1>13, <2>1, <2>3, <2>6 DEF Op
<1>17. ASSUME NEW n \in D
       PROVE  /\ List(g.succ[n], D) /\ Len(g.succ[n]) >= 1
              /\ Len(g.succ[n]) = 1 \/ (Len(g.succ[n]) <= 2 /\ Op(g, n) = "if") \/ Op(g, n) = "while"
              /\ \A x \in D : Contains(g.succ[n], x) =>
                   Op(g, n) = "while" \/ Op(g, x) = "while" \/ << n, x >> \in R
  <2>1. PICK i \in 1 .. N : i = b[n] /\ f[i - 1] <= n /\ n < f[i] /\ n \in Nat
    BY <1>6
  <2>2. f[i] \in Nat /\ f[i - 1] \in Nat
    BY <1>1
  <2>3. CASE n + 1 < f[i]
    <3>1. n + 1 \in D /\ b[n + 1] = i
      <4>1. n + 1 \in Nat /\ f[i - 1] <= n + 1
        BY <2>1, <2>2
      <4> QED
        BY <1>7, <2>3, <4>1
    <3>2. PICK list : list = << n + 1 >>
      OBVIOUS
    <3>3. g.succ[n] = list
      BY <1>7, <1>11, <2>1, <2>3, <3>2
    <3>4. list \in Seq(D) /\ Len(list) = 1 /\ list[1] = n + 1
      BY <3>1, <3>2
    <3>5. List(list, D)
      BY <3>4 DEF List
    <3>6. \A x : Contains(list, x) => x = n + 1
      BY <3>4 DEF Contains
    <3>7. << n, n + 1 >> \in R
      <4>1. b[n] = b[n + 1] /\ n < n + 1
        BY <2>1, <3>1
      <4> QED
        BY <1>9, <3>1, <4>1
    <3> QED
      BY <3>3, <3>4, <3>5, <3>6, <3>7
  <2>4. CASE ~ (n + 1 < f[i])
    <3>1. n + 1 = f[i]
      BY <2>1, <2>2, <2>4
    <3>2. PICK e \in D : e + 1 = f[i] /\ b[e] = i /\ EndList(m, f, N, i, g.succ[e])
      BY <1>15
    <3>3. PICK list : list = g.succ[e]
      OBVIOUS
    <3>4. e = n
      <4>1. e \in Nat /\ n \in Nat /\ e + 1 = n + 1
        BY <1>4, <3>1, <3>2
      <4> QED
        BY <4>1
    <3>5. /\ g.succ[n] = list /\ List(list, D) /\ Len(list) = Len(m[i].succ)
          /\ \A x : Contains(list, x) <=> \E j \in 1 .. N - 1 : Contains(m[i].succ, j) /\ x = f[j]
      BY <1>2, <1>3, <3>2, <3>3, <3>4 DEF EndList
    <3>6. /\ Len(m[i].succ) >= 1 /\ Len(NodesOf(m[i])) \in Nat
          /\ \/ Len(m[i].succ) = 1
             \/ Len(m[i].succ) <= 2 /\ NodesOf(m[i])[Len(NodesOf(m[i]))].op = "if"
             \/ IsLoop(m, i)
          /\ \A k \in 1 .. Len(m[i].succ) :
               IsLoop(m, i) \/ IsLoop(m, m[i].succ[k] + 1) \/ Above(m, i, m[i].succ[k] + 1)
      BY <1>1 DEF BlockShape
    <3>7. Op(g, n) = NodesOf(m[i])[Len(NodesOf(m[i]))].op
      <4>1. PICK z \in Nat : z = Len(NodesOf(m[i]))
        BY <3>6
      <4>2. n + 1 = f[i - 1] + z
        BY <1>1, <3>1, <4>1
      <4>3. n - f[i - 1] + 1 = z
        BY <2>1, <2>2, <4>2
      <4> QED
        BY <1>13, <2>1, <4>1, <4>3 DEF Op
    <3>8. IsLoop(m, i) => Op(g, n) = "while"
      BY <1>16, <2>1
    <3>9. ASSUME NEW x \in D, Contains(list, x)
          PROVE  Op(g, n) = "while" \/ Op(g, x) = "while" \/ << n, x >> \in R
      <4>1. PICK j \in 1 .. N - 1 : Contains(m[i].succ, j) /\ x = f[j]
        BY <3>5, <3>9
      <4>2. b[x] = j + 1
        <5>1. j + 1 \in 1 .. N /\ (j + 1) - 1 = j
          OBVIOUS
        <5>2. f[j] \in Nat /\ f[j] < f[j + 1] /\ f[j] <= f[j]
          BY <1>1, <5>1
        <5> QED
          BY <1>7, <4>1, <5>1, <5>2
      <4>3. PICK k \in 1 .. Len(m[i].succ) : m[i].succ[k] = j
        BY <4>1 DEF Contains
      <4>4. IsLoop(m, i) \/ IsLoop(m, j + 1) \/ Above(m, i, j + 1)
        BY <3>6, <4>3
      <4>5. IsLoop(m, j + 1) => Op(g, x) = "while"
        BY <1>16, <4>2
      <4>6. Above(m, i, j + 1) => << n, x >> \in R
        BY <1>9, <2>1, <4>2
      <4> QED
        BY <3>8, <4>4, <4>5, <4>6
    <3> QED
      BY <3>5, <3>6, <3>7, <3>8, <3>9, Zenon
  <2> QED
    BY <2>3, <2>4
<1>18. 0 \in D /\ Op(g, 0) = "empty"
  <2>1. 1 \in 1 .. N /\ 1 - 1 = 0 /\ f[0] = 0 /\ f[0] < f[1] /\ 0 <= 0
    BY <1>1
  <2>2. 0 \in D /\ b[0] = 1
    <3>1. f[1 - 1] <= 0 /\ 0 < f[1] /\ 0 \in Nat
      BY <2>1
    <3> QED
      BY <1>7, <2>1, <3>1
  <2>3. PICK w : w = << [op |-> "empty"] >>
    OBVIOUS
  <2>4. NodesOf(m[1]) = w /\ w[1].op = "empty"
    BY <2>3
  <2>5. 0 - f[0] + 1 = 1
    BY <2>1
  <2> QED
    BY <1>13, <2>1, <2>2, <2>4, <2>5 DEF Op
(* Every node but the first one is led to.                                  *)
<1>19. ASSUME NEW n \in D, n # 0 PROVE \E x \in D : Contains(g.succ[x], n)
  <2>1. PICK i \in 1 .. N : i = b[n] /\ f[i - 1] <= n /\ n < f[i] /\ n \in Nat
    BY <1>6
  <2>2. f[i] \in Nat /\ f[i - 1] \in Nat
    BY <1>1
  <2>3. CASE f[i - 1] < n
    <3>1. n - 1 \in Nat /\ f[i - 1] <= n - 1 /\ n - 1 < f[i] /\ (n - 1) + 1 = n /\ (n - 1) + 1 < f[i]
      BY <1>19, <2>1, <2>2, <2>3
    <3>2. n - 1 \in D /\ Flow(m, f)[n - 1] = << (n - 1) + 1 >>
      BY <1>7, <3>1
    <3>3. g.succ[n - 1] = << n >>
      BY <1>11, <3>1, <3>2
    <3>4. Contains(<< n >>, n)
      BY DEF Contains
    <3> QED
      BY <3>2, <3>3, <3>4
  <2>4. CASE ~ (f[i - 1] < n)
    <3>1. n = f[i - 1]
      BY <2>1, <2>2, <2>4
    <3>2. i # 1
      BY <1>1, <1>19, <3>1
    <3>3. i \in 2 .. Len(m) /\ i - 1 \in 1 .. N - 1
      BY <1>1, <3>2
    <3>4. PICK j \in 1 .. N : Contains(m[j].succ, i - 1)
      BY <1>1, <3>3 DEF Reached
    <3>5. PICK x \in D : EndList(m, f, N, j, g.succ[x])
      BY <1>15
    <3>6. Contains(g.succ[x], n)
      BY <3>1, <3>3, <3>4, <3>5 DEF EndList
    <3> QED
      BY <3>6
  <2> QED
    BY <2>3, <2>4
<1>20. ASSUME NEW n \in D PROVE Placed(g, R, D, n)
  <2>1. Op(g, n) \in {"assign", "copy", "if"} => Len(g.pred[n]) >= 1
    <3> SUFFICES ASSUME Op(g, n) \in {"assign", "copy", "if"} PROVE Len(g.pred[n]) >= 1
      OBVIOUS
    <3>1. n # 0
      BY <1>18
    <3>2. PICK x \in D : Contains(g.succ[x], n)
      BY <1>19, <3>1
    <3>3. Contains(g.pred[n], x)
      BY <1>14, <3>2
    <3>4. g.pred[n] \in Seq(D)
      BY <1>14 DEF List
    <3>5. PICK k \in 1 .. Len(g.pred[n]) : g.pred[n][k] = x
      BY <3>3 DEF Contains
    <3> QED
      BY <3>4, <3>5
  <2>2. \A x \in D : Contains(g.succ[n], x) <=> Contains(g.pred[x], n)
    BY <1>14
  <2>3. Op(g, n) \in {"assign", "copy"} => Len(g.succ[n]) = 1
    BY <1>17
  <2>4. Op(g, n) = "if" => Len(g.succ[n]) <= 2
    <3>1. PICK z : z = Len(g.succ[n])
      OBVIOUS
    <3>2. z = 1 \/ (z <= 2 /\ Op(g, n) = "if") \/ Op(g, n) = "while"
      BY <1>17, <3>1
    <3>3. z = 1 => z <= 2
      OBVIOUS
    <3> QED
      BY <3>1, <3>2, <3>3
  <2> QED
    BY <1>14, <1>17, <2>1, <2>2, <2>3, <2>4 DEF Placed
<1>21. Shape(g, R)
  BY <1>4, <1>11, <1>20 DEF Shape
<1>22. \A n \in D : n <= K
  BY <1>3
<1> QED
  BY <1>2, <1>9, <1>10, <1>11, <1>18, <1>21, <1>22

(* The map of a thread at the start.                                        *)
LEMMA BuildStarts ==
  ASSUME LaidOut(source), source.kind = "thread", BuildInit(Sources)
  PROVE  BuildInv
<1>1. PICK init : init = source.init
  OBVIOUS
<1>2. PICK first : first = source.first
  OBVIOUS
<1>3. PICK e1 : e1 = [clang |-> Entry, stmts |-> << >>, terminator |-> << >>, succ |-> << 1 >>]
  OBVIOUS
<1>4. PICK e2 : e2 = [clang |-> Entry, stmts |-> init, terminator |-> << >>, succ |-> << >>]
  OBVIOUS
<1>5. PICK m : m = controlFlowMap
  OBVIOUS
<1>6. m = << e1, e2 >> /\ todo = << << first, Len(m) - 1 >> >>
  BY <1>1, <1>2, <1>3, <1>4, <1>5 DEF BuildInit, CfgBlock
<1>7. Len(m) = 2 /\ m[1] = e1 /\ m[2] = e2
  BY <1>6
<1>8. PICK calls : calls = << << first, 1 >> >>
  OBVIOUS
<1>9. todo = calls
  BY <1>6, <1>7, <1>8
<1>10. MapInv(source, Nexts, Ends, m)
  <2>1. PICK K : K = Kinds(source, Ends)
    OBVIOUS
  <2>2. PICK S : S = {<< >>, init} \cup {source.blocks[b].stmts : b \in DOMAIN source.blocks}
    OBVIOUS
  <2>3. PICK T : T = {<< >>} \cup {Ends[b] : b \in DOMAIN source.blocks}
    OBVIOUS
  <2>4. << >> \in S /\ init \in S /\ << >> \in T
    BY <2>2, <2>3
  <2>5. K = [clang : Nat, stmts : S, terminator : T, succ : Seq(Nat)]
    BY <1>1, <2>1, <2>2, <2>3 DEF Kinds, CfgBlocks
  <2>6. Entry \in Nat /\ << 1 >> \in Seq(Nat) /\ << >> \in Seq(Nat)
    BY DEF Entry
  <2>7. e1 \in K /\ e2 \in K
    BY <1>3, <1>4, <2>4, <2>5, <2>6
  <2>8. m \in Seq(K)
    BY <1>6, <2>7
  <2>9. m[2].clang = Entry /\ m[2].stmts = init /\ m[2].terminator = << >> /\ m[2].succ = << >>
    BY <1>4, <1>7
  <2>10. \A i \in 3 .. Len(m) : FALSE
    BY <1>7
  <2>11. ASSUME NEW i \in 2 .. Len(m)
         PROVE  List(m[i].succ, Nat) /\ \A k \in 1 .. Len(m[i].succ) : Led(source, Nexts, m, i, m[i].succ[k])
    <3>1. i = 2
      BY <1>7, <2>11
    <3>2. PICK w : w = << >>
      OBVIOUS
    <3>3. m[i].succ = w /\ Len(w) = 0 /\ w \in Seq(Nat)
      BY <2>6, <2>9, <3>1, <3>2
    <3> QED
      BY <3>3 DEF List
  <2> QED
    BY <1>1, <1>3, <1>7, <2>1, <2>8, <2>9, <2>10, <2>11 DEF MapInv
<1>11. TodoInv(source, Nexts, m, calls)
  <2>1. first \in DOMAIN source.blocks
    BY <1>2 DEF LaidOut
  <2>2. calls \in Seq(CallSet(source)) /\ Len(calls) = 1 /\ calls[1][1] = first /\ calls[1][2] = 1
    BY <1>8, <2>1 DEF CallSet
  <2>3. ASSUME NEW k \in 1 .. Len(calls)
        PROVE  /\ calls[k][2] + 1 \in 2 .. Len(m)
               /\ calls[k][1] \in Following(source, Nexts, m, calls[k][2] + 1)
    <3>1. k = 1 /\ calls[k][2] + 1 = 2
      BY <2>2
    <3>2. calls[k][1] \in Following(source, Nexts, m, 2)
      BY <1>2, <2>2, <3>1 DEF Following
    <3> QED
      BY <1>7, <3>1, <3>2
  <2>4. ASSUME NEW i \in 2 .. Len(m) PROVE \E k \in 1 .. Len(calls) : calls[k][2] + 1 = i
    <3>1. i = 2 /\ 1 \in 1 .. Len(calls) /\ calls[1][2] + 1 = 2
      BY <1>7, <2>2
    <3> QED
      BY <3>1
  <2> QED
    BY <2>2, <2>3, <2>4 DEF TodoInv
<1>12. Reached(m)
  <2>1. ASSUME NEW j \in 2 .. Len(m) PROVE \E i \in 1 .. Len(m) : Contains(m[i].succ, j - 1)
    <3>1. j - 1 = 1 /\ 1 \in 1 .. Len(m)
      BY <1>7
    <3>2. m[1].succ = << 1 >>
      BY <1>3, <1>7
    <3>3. Contains(<< 1 >>, 1)
      BY DEF Contains
    <3> QED
      BY <3>1, <3>2, <3>3
  <2> QED
    BY <2>1 DEF Reached
<1> QED
  BY <1>5, <1>9, <1>10, <1>11, <1>12 DEF BuildInv

(* The nodes of the blocks once all of them were visited.                   *)
LEMMA BuiltSpread ==
  ASSUME LaidOut(source), BuildInv, todo = << >>
  PROVE  /\ \E f : Spread(controlFlowMap, f, Len(controlFlowMap)) /\ RealCFG = GraphOf(controlFlowMap, f)
         /\ Len(controlFlowMap) \in Nat /\ Reached(controlFlowMap)
         /\ \A i \in 3 .. Len(controlFlowMap) : controlFlowMap[i].clang \in Nat
         /\ NodesOf(controlFlowMap[1]) = << [op |-> "empty"] >>
<1>1. PICK m : m = controlFlowMap
  OBVIOUS
<1>2. /\ MapInv(source, Nexts, Ends, m) /\ TodoInv(source, Nexts, m, << >>) /\ Reached(m)
  BY <1>1 DEF BuildInv
<1>3. Laid(source, Nexts, Ends)
  BY LaidSource
<1>4. PICK N \in Nat : N = Len(m)
  BY <1>2 DEF MapInv
<1>5. N >= 2 /\ DOMAIN m = 1 .. N
  BY <1>2, <1>4 DEF MapInv
<1>6. \A i \in 3 .. N : m[i].clang \in Nat
  <2> SUFFICES ASSUME NEW i \in 3 .. N PROVE m[i].clang \in Nat
    OBVIOUS
  <2>1. OfClang(source, Ends, m, i) /\ DOMAIN source.blocks \subseteq Nat
    BY <1>2, <1>3, <1>4 DEF MapInv, Laid
  <2> QED
    BY <2>1 DEF OfClang
<1>7. m[1] = [clang |-> Entry, stmts |-> << >>, terminator |-> << >>, succ |-> << 1 >>]
  BY <1>2 DEF MapInv
<1>8. NodesOf(m[1]) = << [op |-> "empty"] >>
  <2>1. m[1].stmts = << >> /\ m[1].terminator = << >>
    BY <1>7
  <2>2. << >> \in Seq(Nat)
    OBVIOUS
  <2>3. m[1].stmts \in Seq(Nat) /\ m[1].terminator \in Seq(Nat)
    BY <2>1, <2>2
  <2>4. m[1].stmts = << >> /\ m[1].terminator = << >> => NodesOf(m[1]) = << [op |-> "empty"] >>
    BY <2>3, NodesOfBlock
  <2> QED
    BY <2>1, <2>4
<1>9. ASSUME NEW i \in 1 .. N PROVE BlockShape(m, i)
  <2>1. m[i].succ # << >>
    <3>1. CASE i = 1
      BY <1>7, <3>1
    <3>2. CASE i # 1
      <4>1. i \in 2 .. Len(m)
        BY <1>4, <3>2
      <4>2. m[i].succ = << >> => \E k \in 1 .. Len(<< >>) : << >>[k][2] + 1 = i
        BY <1>2, <4>1 DEF TodoInv
      <4>3. ~ \E k \in 1 .. Len(<< >>) : << >>[k][2] + 1 = i
        OBVIOUS
      <4> QED
        BY <4>2, <4>3
    <3> QED
      BY <3>1, <3>2
  <2>2. i \in 1 .. Len(m)
    BY <1>4
  <2> QED
    BY <1>2, <1>3, <2>1, <2>2, BlocksShape
<1>10. PICK f : Starts(m, f, N) /\ RealCFG = GraphOf(m, f)
  BY <1>1, <1>4, RealCFGIs
<1>11. \A i \in 1 .. N : Len(NodesOf(m[i])) \in Nat /\ Len(NodesOf(m[i])) >= 1
  BY <1>9 DEF BlockShape
<1>12. /\ f[0] = 0 /\ \A i \in 0 .. N : f[i] \in Nat
       /\ \A i \in 1 .. N : f[i] = f[i - 1] + Len(NodesOf(m[i])) /\ f[i - 1] < f[i]
       /\ \A i, j \in 0 .. N : i < j => f[i] < f[j]
       /\ \A n \in Nat : n < f[N] => \E i \in 1 .. N : f[i - 1] <= n /\ n < f[i]
  BY <1>10, <1>11, StartsOf
<1>13. Spread(m, f, N)
  BY <1>4, <1>5, <1>9, <1>12 DEF Spread
<1> QED
  BY <1>1, <1>2, <1>4, <1>6, <1>8, <1>10, <1>13

(* When every block was visited the graph has the shape that is needed.     *)
LEMMA BuiltShape ==
  ASSUME LaidOut(source), BuildInv, todo = << >>, graph' = RealCFG
  PROVE  GraphInv'
<1>1. PICK m : m = controlFlowMap
  OBVIOUS
<1>2. PICK N \in Nat : N = Len(m)
  BY <1>1, BuiltSpread
<1>3. PICK f : Spread(m, f, N) /\ RealCFG = GraphOf(m, f)
  BY <1>1, <1>2, BuiltSpread
<1>4. /\ Reached(m) /\ NodesOf(m[1]) = << [op |-> "empty"] >>
      /\ \A i \in 3 .. N : m[i].clang \in Nat
  BY <1>1, <1>2, BuiltSpread
<1>5. PICK g : g = GraphOf(m, f)
  OBVIOUS
<1>6. /\ \E R : Order(R) /\ Shape(g, R)
      /\ 0 \in DOMAIN g.succ /\ Op(g, 0) = "empty" /\ \E b \in Nat : \A n \in DOMAIN g.succ : n <= b
  BY <1>3, <1>4, <1>5, GraphShape
<1>7. graph' = g
  BY <1>3, <1>5
<1> QED
  BY <1>6, <1>7 DEF GraphInv, Nodes, Op

-----------------------------------------------------------------------------
(* The map is sound while the graph is built, and then the graph.           *)
MirrorInv ==
  /\ source \in Sources
  /\ source.kind = "thread" =>
       IF step = "blocks" THEN BuildInv /\ deadAssignmentSet = {} /\ Nodes = {}
       ELSE GraphInv /\ SelfInv

LEMMA MirrorInvInit == Init => MirrorInv
<1> SUFFICES ASSUME Init PROVE MirrorInv
  OBVIOUS
<1>1. source \in Sources /\ step = "blocks" /\ deadAssignmentSet = {}
  BY DEF Init, BuildInit
<1>2. Nodes = {}
  BY DEF Init, Nodes
<1>3. source.kind = "thread" => BuildInv
  <2>1. source.kind = "thread" => LaidOut(source)
    BY <1>1, SourcesAssumption
  <2> QED
    BY <2>1, BuildStarts DEF Init
<1> QED
  BY <1>1, <1>2, <1>3 DEF MirrorInv

LEMMA MirrorInvNext ==
  ASSUME MirrorInv, [Next]_vars
  PROVE  MirrorInv'
<1>1. source' = source
  BY DEF Next, vars, buildVars, Build, traverseBlocks, Built, NextAnalysis, RunBoth, RunBefore,
         RunAfter, Communicate
<1>2. CASE source.kind # "thread"
  BY <1>1, <1>2 DEF MirrorInv
<1>3. CASE source.kind = "thread"
  <2>1. LaidOut(source)
    BY <1>3, SourcesAssumption DEF MirrorInv
  <2>2. ASSUME UNCHANGED << graph, deadAssignmentSet >>, step # "blocks", step' # "blocks"
        PROVE  MirrorInv'
    BY <1>1, <1>3, <2>2 DEF MirrorInv, GraphInv, SelfInv, Nodes, Op
  <2>3. CASE Build
    <3>1. step = "blocks" /\ traverseBlocks /\ UNCHANGED << graph, deadAssignmentSet, step >>
      BY <2>3 DEF Build, livenessVars
    <3>2. BuildInv'
      BY <1>3, <2>1, <3>1, TraverseKeeps DEF MirrorInv
    <3> QED
      BY <1>1, <1>3, <3>1, <3>2 DEF MirrorInv, Nodes
  <2>4. CASE Built
    <3>1. /\ step = "blocks" /\ step' = "analysed" /\ todo = << >> /\ graph' = RealCFG
          /\ UNCHANGED deadAssignmentSet
      BY <2>4 DEF Built
    <3>2. GraphInv'
      BY <1>3, <2>1, <3>1, BuiltShape DEF MirrorInv
    <3>3. SelfInv'
      BY <1>3, <3>1 DEF MirrorInv, SelfInv
    <3> QED
      BY <1>1, <3>1, <3>2, <3>3 DEF MirrorInv
  <2>5. CASE NextAnalysis
    <3>1. CASE analyses < Analyses
      <4>1. step = "analysed" /\ Analyse(graph) /\ UNCHANGED graph
        BY <2>5, <3>1 DEF NextAnalysis
      <4>2. step' = "traverse" /\ deadAssignmentSet' = {n \in Nodes : IsSelfAssignment(graph.stmt[n])}
        BY <4>1 DEF Analyse, Nodes
      <4>3. SelfInv'
        BY <4>1, <4>2 DEF SelfInv, IsSelfAssignment, Op
      <4>4. GraphInv'
        BY <1>3, <4>1 DEF MirrorInv, GraphInv, Nodes, Op
      <4> QED
        BY <1>1, <4>2, <4>3, <4>4 DEF MirrorInv
    <3>2. CASE ~ (analyses < Analyses)
      BY <2>2, <2>5, <3>2 DEF NextAnalysis
    <3> QED
      BY <3>1, <3>2
  <2>6. CASE LivenessNext
    <3>1. step # "blocks" /\ step' # "blocks"
      BY <2>6 DEF LivenessNext, Traverse, CountToggles, RemoveDead, RemovePointless, RemoveSelfAssignments
    <3>2. GraphInv' /\ SelfInv'
      BY <1>3, <2>6, <3>1, LivenessKeeps DEF MirrorInv
    <3> QED
      BY <1>1, <3>1, <3>2 DEF MirrorInv
  <2>7. CASE RenumberNext
    BY <2>2, <2>7 DEF RenumberNext, Number, OtherBranch, Renumbered, livenessVars
  <2>8. CASE RunBoth
    BY <2>2, <2>8 DEF RunBoth
  <2>9. CASE RunBefore \/ RunAfter \/ Communicate
    BY <2>2, <2>9 DEF RunBefore, RunAfter, Communicate, livenessVars
  <2>10. CASE UNCHANGED vars
    BY <2>10 DEF vars, livenessVars, buildVars, MirrorInv, BuildInv, GraphInv, SelfInv, Nodes, Op,
                 Nexts, Ends, VisitNext, Terminator, Containing, ClangSucc, HasTerminator, IsIf, Class,
                 exprContainedInIf
  <2> QED
    BY <2>3, <2>4, <2>5, <2>6, <2>7, <2>8, <2>9, <2>10 DEF Next
<1> QED
  BY <1>2, <1>3

(* A thread's graph is consistent from the time it is built, whatever the   *)
(* optimizer removes from it: no node is left without a successor or with   *)
(* a neighbour that was removed, and predecessors mirror successors, so     *)
(* that the backward searches see what the forward ones see (CFGFactory,    *)
(* CreateRealCFG, LivenessAnalysis).  The graph of a function has an end,   *)
(* which leads nowhere, and is not analysed.                                *)
THEOREM MirrorKept == Spec => [](source.kind = "thread" => NeighboursMirror)
<1>1. MirrorInv /\ [Next]_vars => MirrorInv'
  BY MirrorInvNext
<1>2. MirrorInv => (source.kind = "thread" => NeighboursMirror)
  <2> SUFFICES ASSUME MirrorInv, source.kind = "thread" PROVE NeighboursMirror
    OBVIOUS
  <2>1. CASE step = "blocks"
    BY <2>1 DEF MirrorInv, NeighboursMirror
  <2>2. CASE step # "blocks"
    <3>1. PICK R : Shape(graph, R)
      BY <2>2 DEF MirrorInv, GraphInv
    <3> QED
      BY <3>1, MirrorsWhenShaped
  <2> QED
    BY <2>1, <2>2
<1> QED
  BY <1>1, <1>2, MirrorInvInit, PTL DEF Spec

-----------------------------------------------------------------------------
(* The `then' branch of a condition is the next block.                      *)

(* Into a `then' branch leads nothing but its `if'.                         *)
ThenOnly(s, next) ==
  \A b \in DOMAIN s.blocks : s.blocks[b].class = "if" =>
    /\ next[b][1] # s.first
    /\ \A c \in DOMAIN s.blocks : Contains(next[c], next[b][1]) => c = b

(* The first successor of block i is the next one ...                       *)
Behind(next, m, i) ==
  /\ i + 1 \in 3 .. Len(m) /\ m[i + 1].clang = next[m[i].clang][1]
  /\ m[i].succ # << >> /\ m[i].succ[1] = i

(* ... or will be visited next.                                             *)
Pending(next, m, calls, i) ==
  /\ i = Len(m) /\ m[i].succ = << >>
  /\ calls # << >> /\ calls[1] = << next[m[i].clang][1], i - 1 >>
  /\ ~ Known(m, next[m[i].clang][1])

ThenInv(s, next, m, calls) ==
  \A i \in 1 .. Len(m) : OfIf(s, m, i) => Behind(next, m, i) \/ Pending(next, m, calls, i)

(* If an `if' has not been visited then neither has its `then' branch.      *)
LEMMA ThenUnknown ==
  ASSUME NEW s, NEW next, NEW ends, Laid(s, next, ends), ThenOnly(s, next),
         NEW m, MapInv(s, next, ends, m), Reached(m),
         NEW b \in DOMAIN s.blocks, s.blocks[b].class = "if", ~ Known(m, b),
         NEW i \in 2 .. Len(m), b \in Following(s, next, m, i)
  PROVE  next[b][1] # b /\ ~ Known(m, next[b][1])
<1>1. PICK t : t = next[b][1]
  OBVIOUS
<1>2. t \in DOMAIN s.blocks /\ t # Entry /\ b # Entry
  <2>1. PICK q : q = next[b]
    OBVIOUS
  <2>2. q \in Seq(DOMAIN s.blocks) /\ q # << >>
    BY <2>1 DEF Laid, LaidNext
  <2>3. q[1] \in DOMAIN s.blocks
    BY <2>2
  <2> QED
    BY <1>1, <2>1, <2>3 DEF Laid
<1>3. t # s.first /\ \A c \in DOMAIN s.blocks : Contains(next[c], t) => c = b
  BY <1>1 DEF ThenOnly
<1>4. PICK N \in Nat : N = Len(m) /\ N >= 2
  BY DEF MapInv
<1>5. ASSUME NEW j \in 2 .. N, t \in Following(s, next, m, j)
      PROVE  FALSE
  <2>1. CASE j = 2
    BY <1>3, <1>5, <2>1 DEF Following
  <2>2. CASE j # 2
    <3>1. j \in 3 .. N
      BY <2>2
    <3>2. PICK c : c = m[j].clang
      OBVIOUS
    <3>3. c \in DOMAIN s.blocks
      BY <1>4, <3>1, <3>2 DEF MapInv, OfClang
    <3>4. PICK q : q = next[c]
      OBVIOUS
    <3>5. q \in Seq(DOMAIN s.blocks)
      BY <3>3, <3>4 DEF Laid, LaidNext
    <3>6. t \in ToSet(q)
      BY <1>5, <2>2, <3>2, <3>4 DEF Following
    <3>7. Contains(q, t)
      BY <3>5, <3>6 DEF ToSet, Contains
    <3>8. c = b
      BY <1>3, <3>3, <3>4, <3>7
    <3>9. Known(m, b)
      <4>1. j \in 1 .. Len(m) /\ m[j].clang = b
        BY <1>4, <3>1, <3>2, <3>8
      <4> QED
        BY <4>1 DEF Known
    <3> QED
      BY <3>9
  <2> QED
    BY <2>1, <2>2
<1>6. t # b
  BY <1>4, <1>5
<1>7. ASSUME Known(m, t) PROVE FALSE
  <2>1. PICK j \in 1 .. N : m[j].clang = t
    BY <1>4, <1>7 DEF Known
  <2>2. j \in 3 .. N
    <3>1. j # 1 /\ j # 2
      BY <1>2, <2>1 DEF MapInv
    <3> QED
      BY <3>1
  <2>3. j \in 2 .. N
    BY <2>2
  <2>4. PICK k \in 1 .. N : Contains(m[k].succ, j - 1)
    BY <1>4, <2>3 DEF Reached
  <2>5. k # 1
    <3>1. m[1].succ = << 1 >>
      BY DEF MapInv
    <3>2. j - 1 # 1
      BY <2>2
    <3>3. ~ Contains(<< 1 >>, j - 1)
      BY <3>2 DEF Contains
    <3> QED
      BY <2>4, <3>1, <3>3
  <2>6. k \in 2 .. N
    BY <2>5
  <2>7. PICK q : q = m[k].succ
    OBVIOUS
  <2>8. \A l \in 1 .. Len(q) : Led(s, next, m, k, q[l])
    BY <1>4, <2>6, <2>7 DEF MapInv
  <2>9. PICK l \in 1 .. Len(q) : q[l] = j - 1
    BY <2>4, <2>7 DEF Contains
  <2>10. Led(s, next, m, k, j - 1)
    BY <2>8, <2>9
  <2>11. (j - 1) + 1 = j
    BY <2>2
  <2>12. t \in Following(s, next, m, k)
    BY <2>1, <2>10, <2>11 DEF Led
  <2> QED
    BY <1>5, <2>6, <2>12
<1> QED
  BY <1>1, <1>6, <1>7

LEMMA ThenStep ==
  ASSUME NEW s, NEW next, NEW ends, Laid(s, next, ends), ThenOnly(s, next),
         NEW m, MapInv(s, next, ends, m), Reached(m),
         NEW calls, ThenInv(s, next, m, calls),
         NEW m2, NEW calls2, Called(s, next, m, calls, m2, calls2)
  PROVE  ThenInv(s, next, m2, calls2)
<1>1. PICK N \in Nat : N = Len(m) /\ N >= 2
  BY DEF MapInv
<1>2. PICK b, p, id :
        /\ calls # << >> /\ calls[1] = << b, p >> /\ p + 1 \in 2 .. Len(m)
        /\ b \in DOMAIN s.blocks /\ p \in Nat /\ id \in Nat
        /\ b \in Following(s, next, m, p + 1)
        /\ \/ Known(m, b) /\ m2 = m
           \/ LinksTo(next, m, m2, calls2, b, p, id)
  BY DEF Called
(* Who waits for the block of this call is its parent.                      *)
<1>3. ASSUME NEW i \in 1 .. N, Pending(next, m, calls, i)
      PROVE  ~ Known(m, b) /\ next[m[i].clang][1] = b /\ i = N /\ p = N - 1 /\ m[i].succ = << >>
  <2>1. PICK t : t = next[m[i].clang][1]
    OBVIOUS
  <2>2. << t, i - 1 >> = << b, p >> /\ i = N /\ ~ Known(m, t) /\ m[i].succ = << >>
    BY <1>1, <1>2, <1>3, <2>1 DEF Pending
  <2>3. t = b /\ i - 1 = p
    BY <2>2
  <2> QED
    BY <2>1, <2>2, <2>3
<1>4. CASE Known(m, b) /\ m2 = m
  <2> SUFFICES ASSUME NEW i \in 1 .. Len(m), OfIf(s, m, i) PROVE Behind(next, m, i)
    BY <1>4 DEF ThenInv
  <2>1. Behind(next, m, i) \/ Pending(next, m, calls, i)
    BY DEF ThenInv
  <2> QED
    BY <1>1, <1>3, <1>4, <2>1
<1>5. CASE LinksTo(next, m, m2, calls2, b, p, id)
  <2>1. PICK q \in 2 .. N : q = p + 1
    BY <1>1, <1>2
  <2>2. PICK M : M = Len(m2)
    OBVIOUS
  <2>3. M = N \/ M = N + 1
    BY <1>1, <1>5, <2>2 DEF LinksTo
  <2>4. \A j \in 1 .. N : m2[j].clang = m[j].clang /\ (j # q => m2[j] = m[j])
    BY <1>1, <1>5, <2>1 DEF LinksTo
  <2>5. m2[q].succ = Append(m[q].succ, id)
    BY <1>5, <2>1 DEF LinksTo
  <2>6. m[q].succ \in Seq(Nat)
    BY <1>1, <2>1 DEF MapInv, List
  <2>7. ASSUME NEW i \in 1 .. N, OfIf(s, m2, i)
        PROVE  OfIf(s, m, i)
    BY <1>1, <2>4, <2>7 DEF OfIf
  <2>8. ASSUME NEW i \in 1 .. N, Behind(next, m, i)
        PROVE  Behind(next, m2, i)
    <3>1. i + 1 \in 3 .. N /\ i + 1 \in 1 .. N
      BY <1>1, <2>8 DEF Behind
    <3>2. m2[i + 1].clang = next[m2[i].clang][1] /\ i + 1 \in 3 .. M
      BY <1>1, <2>3, <2>4, <2>8, <3>1 DEF Behind
    <3>3. m2[i].succ # << >> /\ m2[i].succ[1] = i
      <4>1. PICK u : u = m[i].succ
        OBVIOUS
      <4>2. u # << >> /\ u[1] = i
        BY <2>8, <4>1 DEF Behind
      <4>3. CASE i = q
        <5>1. u \in Seq(Nat) /\ m2[i].succ = Append(u, id)
          BY <2>5, <2>6, <4>1, <4>3
        <5>2. id \in Nat /\ Len(u) >= 1
          BY <1>2, <4>2, <5>1
        <5>3. PICK w : w = Append(u, id)
          OBVIOUS
        <5>4. w \in Seq(Nat) /\ Len(w) = Len(u) + 1 /\ w[1] = u[1]
          BY <5>1, <5>2, <5>3
        <5>5. w # << >>
          BY <5>1, <5>4
        <5> QED
          BY <4>2, <5>1, <5>3, <5>4, <5>5
      <4>4. CASE i # q
        BY <2>4, <4>1, <4>2, <4>4
      <4> QED
        BY <4>3, <4>4
    <3> QED
      BY <2>2, <3>2, <3>3 DEF Behind
  <2>9. CASE Known(m, b)
    <3>1. M = N
      BY <1>1, <1>5, <2>2, <2>9 DEF LinksTo
    <3> SUFFICES ASSUME NEW i \in 1 .. N, OfIf(s, m2, i) PROVE Behind(next, m2, i)
      BY <2>2, <3>1 DEF ThenInv
    <3>2. Behind(next, m, i) \/ Pending(next, m, calls, i)
      BY <1>1, <2>7 DEF ThenInv
    <3> QED
      BY <1>3, <2>8, <2>9, <3>2
  <2>10. CASE ~ Known(m, b)
    <3>1. /\ M = N + 1 /\ id = N /\ m2[N + 1].clang = b /\ m2[N + 1].succ = << >>
          /\ calls2 # << >> /\ calls2[1] = << next[b][1], N >>
      BY <1>1, <1>5, <2>2, <2>10 DEF LinksTo
    <3>2. ASSUME NEW i \in 1 .. N, OfIf(s, m2, i) PROVE Behind(next, m2, i)
      <4>1. Behind(next, m, i) \/ Pending(next, m, calls, i)
        BY <1>1, <2>7, <3>2 DEF ThenInv
      <4>2. CASE Pending(next, m, calls, i)
        <5>1. next[m[i].clang][1] = b /\ i = N /\ p = N - 1 /\ m[i].succ = << >>
          BY <1>3, <4>2
        <5>2. i = q
          BY <2>1, <5>1
        <5>3. m2[i].succ = Append(<< >>, N)
          BY <2>5, <3>1, <5>1, <5>2
        <5>4. Append(<< >>, N) # << >> /\ Append(<< >>, N)[1] = N
          BY <1>1
        <5>5. m2[i].clang = m[i].clang /\ i + 1 = N + 1 /\ i + 1 \in 3 .. M
          BY <1>1, <2>4, <3>1, <5>1
        <5> QED
          BY <2>2, <3>1, <5>1, <5>3, <5>4, <5>5 DEF Behind
      <4> QED
        BY <2>8, <4>1, <4>2
    <3>3. ASSUME OfIf(s, m2, N + 1) PROVE Pending(next, m2, calls2, N + 1)
      <4>1. s.blocks[b].class = "if"
        BY <3>1, <3>3 DEF OfIf
      <4>2. next[b][1] # b /\ ~ Known(m, next[b][1])
        BY <1>1, <1>2, <2>1, <2>10, <4>1, ThenUnknown
      <4>3. ~ Known(m2, next[b][1])
        <5> SUFFICES ASSUME NEW j \in 1 .. M, m2[j].clang = next[b][1] PROVE FALSE
          BY <2>2 DEF Known
        <5>1. j \in 1 .. N \/ j = N + 1
          BY <3>1
        <5> QED
          BY <1>1, <2>4, <3>1, <4>2, <5>1 DEF Known
      <4>4. (N + 1) - 1 = N
        BY <1>1
      <4> QED
        BY <2>2, <3>1, <4>3, <4>4 DEF Pending
    <3> SUFFICES ASSUME NEW i \in 1 .. M, OfIf(s, m2, i)
                 PROVE  Behind(next, m2, i) \/ Pending(next, m2, calls2, i)
      BY <2>2 DEF ThenInv
    <3>4. i \in 1 .. N \/ i = N + 1
      BY <3>1
    <3> QED
      BY <3>2, <3>3, <3>4
  <2> QED
    BY <2>9, <2>10
<1> QED
  BY <1>2, <1>4, <1>5

(* In the graph of such a map a node with two successors is the last one of *)
(* its block, and the next node the first of the next block.                *)
NumberedThen(g) ==
  \A n \in DOMAIN g.succ : IsBranch(g, n) => g.succ[n][1] = n + 1 /\ g.succ[n][2] # n + 1

LEMMA GraphThen ==
  ASSUME NEW m, NEW f, NEW N \in Nat, Spread(m, f, N),
         \A i \in 1 .. N : Len(m[i].succ) = 1 \/ m[i].succ[1] = i
  PROVE  NumberedThen(GraphOf(m, f))
<1>1. PICK g : g = GraphOf(m, f)
  OBVIOUS
<1>2. N = Len(m) /\ \A n \in Nat : n < f[N] => \E i \in 1 .. N : f[i - 1] <= n /\ n < f[i]
  BY DEF Spread
<1>3. \A i \in 0 .. N : f[i] \in Nat
  BY DEF Spread
<1>4. PICK K \in Nat : K = f[N]
  BY <1>3
<1>5. DOMAIN g.succ = 0 .. K - 1 /\ g.succ = Flow(m, f)
  BY <1>1, <1>2, <1>4 DEF GraphOf, Flow
<1> SUFFICES ASSUME NEW n \in 0 .. K - 1, IsBranch(g, n)
             PROVE  g.succ[n][1] = n + 1 /\ g.succ[n][2] # n + 1
  BY <1>1, <1>5 DEF NumberedThen
<1>6. PICK i \in 1 .. N : f[i - 1] <= n /\ n < f[i]
  BY <1>2, <1>4
<1>7. PICK q : q = g.succ[n]
  OBVIOUS
<1>8. Len(q) > 1
  BY <1>7 DEF IsBranch, Succ
<1>8a. Len(q) # 1
  <2> SUFFICES ASSUME NEW l, l = 1, l > 1 PROVE FALSE
    BY <1>8
  <2> QED
    OBVIOUS
<1>9. /\ n + 1 < f[i] => q = << n + 1 >>
      /\ n + 1 = f[i] => q = [k \in 1 .. Len(m[i].succ) |-> f[m[i].succ[k]]]
  <2>1. n \in Nat
    BY <1>4
  <2>2. /\ n + 1 < f[i] => Flow(m, f)[n] = << n + 1 >>
        /\ n + 1 = f[i] => Flow(m, f)[n] = [k \in 1 .. Len(m[i].succ) |-> f[m[i].succ[k]]]
    BY <1>6, <2>1, FlowOf
  <2> QED
    BY <1>5, <1>7, <2>2, Zenon
<1>10. ~ (n + 1 < f[i])
  <2>1. Len(<< n + 1 >>) = 1
    OBVIOUS
  <2> QED
    BY <1>8a, <1>9, <2>1, Zenon
<1>11. n + 1 = f[i]
  <2>1. PICK e \in Nat : e = f[i]
    BY <1>3
  <2> QED
    BY <1>6, <1>10, <2>1
<1>12. PICK list : EndList(m, f, N, i, list)
  BY EndOf
<1>13. list = q /\ Len(q) = Len(m[i].succ) /\ List(q, 0 .. f[N] - 1)
  BY <1>9, <1>11, <1>12 DEF EndList
<1>14. m[i].succ[1] = i
  BY <1>8a, <1>13, Zenon
<1>15. PICK a \in Nat : a = Len(m[i].succ) /\ a = Len(q) /\ a >= 2
  <2>1. Len(q) \in Nat
    BY <1>13 DEF List
  <2> QED
    BY <1>8, <1>13, <2>1
<1>16. q[1] = f[i]
  BY <1>9, <1>11, <1>14, <1>15
<1>17. q[2] # q[1]
  BY <1>13, <1>15 DEF List
<1> QED
  BY <1>7, <1>11, <1>16, <1>17

LEMMA BuiltThen ==
  ASSUME LaidOut(source), BuildInv, todo = << >>,
         ThenInv(source, Nexts, controlFlowMap, todo), graph' = RealCFG
  PROVE  NumberedThen(graph')
<1>1. PICK m : m = controlFlowMap
  OBVIOUS
<1>2. /\ MapInv(source, Nexts, Ends, m) /\ TodoInv(source, Nexts, m, << >>) /\ Reached(m)
      /\ ThenInv(source, Nexts, m, << >>)
  BY <1>1 DEF BuildInv
<1>3. Laid(source, Nexts, Ends)
  BY LaidSource
<1>4. PICK N \in Nat : N = Len(m)
  BY <1>2 DEF MapInv
<1>5. PICK f : Spread(m, f, N) /\ RealCFG = GraphOf(m, f)
  BY <1>1, <1>4, BuiltSpread
<1>6. ASSUME NEW i \in 1 .. N PROVE Len(m[i].succ) = 1 \/ m[i].succ[1] = i
  <2>1. m[i].succ # << >>
    <3>1. BlockShape(m, i)
      BY <1>5 DEF Spread
    <3>2. Len(m[i].succ) >= 1
      BY <3>1 DEF BlockShape
    <3>3. ~ (Len(<< >>) >= 1)
      OBVIOUS
    <3> QED
      BY <3>2, <3>3
  <2>2. Len(m[i].succ) = 1 \/ OfIf(source, m, i)
    BY <1>2, <1>3, <1>4, <2>1, BlocksShape
  <2>3. ~ Pending(Nexts, m, << >>, i)
    BY DEF Pending
  <2> QED
    BY <1>2, <1>4, <2>2, <2>3 DEF ThenInv, Behind
<1>7. NumberedThen(GraphOf(m, f))
  BY <1>5, <1>6, GraphThen
<1> QED
  BY <1>5, <1>7

(* What is assumed of clang's blocks: nothing leads into the `then' branch  *)
(* of a condition but the condition.  An operand does, if the search takes  *)
(* it for one that leads to the whole condition (the run or_skips_condition). *)
ThenEntered ==
  \A b \in DOMAIN source.blocks : IsIf(b) =>
    /\ ClangSucc(b)[1] # source.first
    /\ \A c \in DOMAIN source.blocks : Contains(VisitNext(c), ClangSucc(b)[1]) => c = b

LEMMA EnteredOnly ==
  ASSUME ThenEntered
  PROVE  ThenOnly(source, Nexts)
<1> SUFFICES ASSUME NEW b \in DOMAIN source.blocks, source.blocks[b].class = "if"
             PROVE  /\ Nexts[b][1] # source.first
                    /\ \A c \in DOMAIN source.blocks : Contains(Nexts[c], Nexts[b][1]) => c = b
  BY DEF ThenOnly
<1>1. \A c \in DOMAIN source.blocks : Nexts[c] = VisitNext(c)
  BY DEF Nexts
<1>2. IsIf(b) /\ Class(b) # "operand"
  BY DEF IsIf, Class
<1>3. Nexts[b] = ClangSucc(b)
  BY <1>1, <1>2 DEF VisitNext
<1> QED
  BY <1>1, <1>2, <1>3 DEF ThenEntered

NumberInv ==
  /\ MirrorInv
  /\ analyses \in Nat /\ (step \notin {"blocks", "analysed"} => analyses # 0)
  /\ source.kind = "thread" /\ ThenEntered =>
       /\ step = "blocks" => ThenInv(source, Nexts, controlFlowMap, todo)
       /\ ThenIsNext

LEMMA NumberInvInit == Init => NumberInv
<1> SUFFICES ASSUME Init PROVE NumberInv
  OBVIOUS
<1>1. step = "blocks" /\ analyses = 0 /\ MirrorInv
  BY MirrorInvInit DEF Init
<1>2. source.kind = "thread" => ThenInv(source, Nexts, controlFlowMap, todo)
  <2> SUFFICES ASSUME source.kind = "thread", NEW i \in 1 .. Len(controlFlowMap)
               PROVE  ~ OfIf(source, controlFlowMap, i)
    BY DEF ThenInv
  <2>1. Len(controlFlowMap) = 2
    BY DEF Init, BuildInit
  <2> QED
    BY <2>1 DEF OfIf
<1> QED
  BY <1>1, <1>2 DEF NumberInv, ThenIsNext

LEMMA NumberInvNext ==
  ASSUME NumberInv, [Next]_vars
  PROVE  NumberInv'
<1>1. MirrorInv'
  BY MirrorInvNext DEF NumberInv
<1>2. source' = source
  BY DEF Next, vars, buildVars, Build, traverseBlocks, Built, NextAnalysis, RunBoth, RunBefore,
         RunAfter, Communicate
<1>3. Nexts' = Nexts /\ (ThenEntered' <=> ThenEntered)
  BY <1>2 DEF Nexts, VisitNext, Containing, Class, ClangSucc, HasTerminator, IsIf,
              exprContainedInIf, ThenEntered
<1>4. analyses \in Nat
  BY DEF NumberInv
<1>5. ASSUME step' # "blocks", analyses' \in Nat, analyses' # 0
      PROVE  NumberInv'
  BY <1>1, <1>5 DEF NumberInv, ThenIsNext
<1>6. CASE Build
  <2>1. step = "blocks" /\ traverseBlocks /\ step' = "blocks" /\ analyses' = analyses
    BY <1>6 DEF Build, livenessVars
  <2>2. ASSUME source.kind = "thread", ThenEntered
        PROVE  ThenInv(source, Nexts, controlFlowMap', todo')
    <3>1. LaidOut(source) /\ BuildInv /\ ThenInv(source, Nexts, controlFlowMap, todo)
      BY <2>1, <2>2, SourcesAssumption DEF NumberInv, MirrorInv
    <3>2. Called(source, Nexts, controlFlowMap, todo, controlFlowMap', todo')
      BY <2>1, <3>1, TraverseKeeps
    <3>3. /\ Laid(source, Nexts, Ends) /\ ThenOnly(source, Nexts)
          /\ MapInv(source, Nexts, Ends, controlFlowMap) /\ Reached(controlFlowMap)
      BY <2>2, <3>1, LaidSource, EnteredOnly DEF BuildInv
    <3>4. PICK m2 : m2 = controlFlowMap'
      OBVIOUS
    <3>5. PICK calls2 : calls2 = todo'
      OBVIOUS
    <3>6. Called(source, Nexts, controlFlowMap, todo, m2, calls2)
      BY <3>2, <3>4, <3>5
    <3>7. ThenInv(source, Nexts, m2, calls2)
      BY <3>1, <3>3, <3>6, ThenStep
    <3> QED
      BY <3>4, <3>5, <3>7
  <2> QED
    BY <1>1, <1>2, <1>3, <1>4, <2>1, <2>2 DEF NumberInv, ThenIsNext
<1>7. CASE Built
  <2>1. /\ step = "blocks" /\ step' = "analysed" /\ todo = << >> /\ graph' = RealCFG
        /\ analyses' = analyses
    BY <1>7 DEF Built
  <2>2. ASSUME source.kind = "thread", ThenEntered
        PROVE  ThenIsNext'
    <3>1. LaidOut(source) /\ BuildInv /\ ThenInv(source, Nexts, controlFlowMap, todo)
      BY <2>1, <2>2, SourcesAssumption DEF NumberInv, MirrorInv
    <3>2. NumberedThen(graph')
      BY <2>1, <3>1, BuiltThen
    <3> QED
      BY <3>2 DEF NumberedThen, ThenIsNext, Nodes
  <2> QED
    BY <1>1, <1>2, <1>3, <1>4, <2>1, <2>2 DEF NumberInv
<1>8. CASE NextAnalysis
  <2>1. step = "analysed"
    BY <1>8 DEF NextAnalysis
  <2>2. CASE analyses < Analyses
    <3>1. step' = "traverse" /\ analyses' = analyses + 1
      BY <1>8, <2>2 DEF NextAnalysis, Analyse
    <3>2. analyses + 1 \in Nat /\ analyses + 1 # 0
      BY <1>4
    <3> QED
      BY <1>5, <3>1, <3>2
  <2>3. CASE ~ (analyses < Analyses)
    <3>1. step' = "renumber" /\ analyses' = analyses
      BY <1>8, <2>3 DEF NextAnalysis
    <3>2. analyses # 0
      BY <1>4, <2>3 DEF Analyses
    <3> QED
      BY <1>4, <1>5, <3>1, <3>2
  <2> QED
    BY <2>2, <2>3
<1>9. CASE LivenessNext /\ UNCHANGED analyses
  <2>1. step \notin {"blocks", "analysed"} /\ step' # "blocks"
    BY <1>9 DEF LivenessNext, Traverse, CountToggles, RemoveDead, RemovePointless, RemoveSelfAssignments
  <2>2. analyses' = analyses
    BY <1>9
  <2> QED
    BY <1>4, <1>5, <2>1, <2>2 DEF NumberInv
<1>10. CASE (RenumberNext /\ UNCHANGED analyses) \/ RunBoth \/ RunBefore \/ RunAfter \/ Communicate
  <2>1. step \notin {"blocks", "analysed"} /\ step' # "blocks"
    BY <1>10 DEF RenumberNext, Number, OtherBranch, Renumbered, RunBoth, RunBefore, RunAfter,
                 Communicate, livenessVars
  <2>2. analyses' = analyses
    BY <1>10 DEF RunBoth, RunBefore, RunAfter, Communicate
  <2> QED
    BY <1>4, <1>5, <2>1, <2>2 DEF NumberInv
<1>11. CASE UNCHANGED vars
  BY <1>1, <1>2, <1>3, <1>11 DEF vars, livenessVars, buildVars, NumberInv, ThenIsNext, Nodes
<1> QED
  BY <1>6, <1>7, <1>8, <1>9, <1>10, <1>11 DEF Next

(* In a thread's graph as it is built, the `then' branch of every condition *)
(* has the next number and the other branch has not, however conditions are *)
(* nested in the branches of others (CFGFactory::traverseBlocks and         *)
(* CreateRealCFG, "this must have id+1", CreateOperationsSlave.cpp:80).     *)
THEOREM ThenNumbered == Spec => [](source.kind = "thread" /\ ThenEntered => ThenIsNext)
<1>1. NumberInv /\ [Next]_vars => NumberInv'
  BY NumberInvNext
<1>2. NumberInv => (source.kind = "thread" /\ ThenEntered => ThenIsNext)
  BY DEF NumberInv
<1> QED
  BY <1>1, <1>2, NumberInvInit, PTL DEF Spec
=============================================================================
