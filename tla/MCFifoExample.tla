---------------------------- MODULE MCFifoExample ----------------------------
(* A sender, the FIFO and a receiver.                                        *)
EXTENDS FifoExample

FifoReader == [producer |-> "fifo", consumer |-> "sink"]
FifoOps == [p \in Proc |-> {"read", "write", "try_write", "pause"}]
FifoWriter == [producer |-> "source", consumer |-> "fifo"]

=============================================================================
