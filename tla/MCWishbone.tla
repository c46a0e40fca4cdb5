----------------------------- MODULE MCWishbone -----------------------------
(* Two slaves; an address of each and one of nobody.                         *)
EXTENDS Wishbone

Asks(op, a, d) == [addr |-> a, trans_type |-> op, data |-> d]
SomeRequests == {Asks("SINGLE_READ", 10, 1), Asks("SINGLE_WRITE", 3, 1),
                Asks("SINGLE_READ", 16, 0)}
SomeReplies == {[ack |-> "OK", data |-> 1], [ack |-> "ERR", data |-> 0],
               [ack |-> "OK", data |-> 0], [ack |-> "ERR", data |-> 1]}
Messages == Request \cup Reply \cup {Asks("SINGLE_READ", 2, 0)}

(* Uninitialized members, other than those that look like a request or an    *)
(* acknowledgement: with these every property fails in the first cycle.      *)
HarmlessMaster == {[addr |-> 3, data |-> 1, we |-> TRUE, stb |-> FALSE, cyc |-> TRUE]}
HarmlessSlave == {NoSlave, [data |-> 1, ack |-> FALSE, err |-> TRUE]}

BusOps == [p \in Proc |-> {"read", "write", "pause"}]

=============================================================================
