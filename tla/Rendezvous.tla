----------------------------- MODULE Rendezvous -----------------------------
(***************************************************************************)
(* What a channel promises (Blocking.hpp: "The probability of reading      *)
(* every written value is assured by waiting for notification of the other *)
(* side"): the offer of a blocking write is firm, it stays as it is until  *)
(* the reader takes it, once.  Any other offer (a try_write) is loose: its *)
(* writer may change, replace or withdraw it.                              *)
(***************************************************************************)
EXTENDS Sequences

CONSTANTS Chan, Data

VARIABLES slot,   \* slot[c] is << >> or << the value offered and not read >>
          firm,   \* the offer on c is that of a blocking write
          out     \* out[c] is the last value read from c

vars == << slot, firm, out >>

TypeOK == /\ slot \in [Chan -> {<< >>} \cup {<< v >> : v \in Data}]
          /\ firm \in [Chan -> BOOLEAN]
          /\ out \in [Chan -> Data]

Init == /\ slot = [c \in Chan |-> << >>]
        /\ firm = [c \in Chan |-> FALSE]
        /\ out \in [Chan -> Data]

Put(c, v) == /\ ~ firm[c]
             /\ slot' = [slot EXCEPT ![c] = << v >>]
             /\ firm' = [firm EXCEPT ![c] = TRUE]
             /\ UNCHANGED out

Loose(c, v) == /\ ~ firm[c]
               /\ slot' = [slot EXCEPT ![c] = << v >>]
               /\ UNCHANGED << firm, out >>

Withdraw(c) == /\ ~ firm[c]
               /\ slot' = [slot EXCEPT ![c] = << >>]
               /\ UNCHANGED << firm, out >>

Get(c) == /\ slot[c] # << >>
          /\ out' = [out EXCEPT ![c] = slot[c][1]]
          /\ slot' = [slot EXCEPT ![c] = << >>]
          /\ firm' = [firm EXCEPT ![c] = FALSE]

Next == \E c \in Chan : Get(c) \/ Withdraw(c) \/ \E v \in Data : Put(c, v) \/ Loose(c, v)

Spec == Init /\ [][Next]_vars

=============================================================================
