---------------------------- MODULE SharedChannel ----------------------------
(***************************************************************************)
(* The channels of example/Interfaces/Shared.hpp.  Neither call waits and  *)
(* nobody is notified: get() empties the channel, but leaves the reader's  *)
(* variable alone when there is nothing new; set() overwrites.             *)
(***************************************************************************)
CONSTANT Shared   \* the channels

VARIABLE wires    \* wires[c] is the channel's shared_data and available_data

SharedInit(initial) ==
  wires = [c \in Shared |-> [shared_data |-> initial[c], available_data |-> FALSE]]

(* What the reader's variable holds after get(): `out' is what it held.     *)
Received(c, out) == IF wires[c].available_data THEN wires[c].shared_data ELSE out

(* The channels w after a get() from c, and after a set() of c to val.      *)
get(w, c) == [w EXCEPT ![c].available_data = FALSE]
set(w, c, val) == [w EXCEPT ![c] = [shared_data |-> val, available_data |-> TRUE]]

(* In this step other data replaces data that the reader did not get.       *)
Overwritten(c) == /\ wires[c].available_data /\ wires'[c].available_data
                  /\ wires'[c].shared_data # wires[c].shared_data

=============================================================================
