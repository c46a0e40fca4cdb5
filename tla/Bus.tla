--------------------------------- MODULE Bus ---------------------------------
(***************************************************************************)
(* What a bus between a master and its slaves promises: a request whose    *)
(* address belongs to a slave is served by that slave, once and under the  *)
(* slave's own address, before it is answered with what the slave replied. *)
(***************************************************************************)
EXTENDS Integers

CONSTANTS Slave, Request, Reply

VARIABLES request,   \* << the request that is not answered yet >> or << >>
          served,    \* << who served it, as what, with what reply >> or << >>
          answer     \* the last answer

vars == << request, served, answer >>

(* Eight addresses for each slave. *)
Addressed(q) == {s \in Slave : q.addr \in 8 * s .. 8 * s + 7}
Local(s, q) == [q EXCEPT !.addr = @ - 8 * s,
                         !.data = IF q.trans_type = "SINGLE_READ" THEN 0 ELSE @]

Init == request = << >> /\ served = << >> /\ answer \in Reply

Ask(q) == /\ request = << >>
          /\ request' = << q >>
          /\ UNCHANGED << served, answer >>

Serve(s, reply) == /\ request # << >> /\ s \in Addressed(request[1])
                   /\ served = << >>
                   /\ served' = << [slave |-> s, request |-> Local(s, request[1]), reply |-> reply] >>
                   /\ UNCHANGED << request, answer >>

(* A read returns the slave's data, a write leaves the data as they were.   *)
(* Nobody's address reads as 0.                                             *)
Answer ==
  /\ request # << >>
  /\ served = << >> => Addressed(request[1]) = {}
  /\ answer' = [ack |-> IF served = << >> \/ served[1].reply.ack = "OK" THEN "OK" ELSE "ERR",
                data |-> IF request[1].trans_type = "SINGLE_WRITE" THEN answer.data
                         ELSE IF served = << >> THEN 0 ELSE served[1].reply.data]
  /\ request' = << >> /\ served' = << >>

Next == \/ \E q \in Request : Ask(q)
        \/ \E s \in Slave, reply \in Reply : Serve(s, reply)
        \/ Answer

Spec == Init /\ [][Next]_vars

=============================================================================
