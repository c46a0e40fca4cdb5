---------------------------- MODULE MCMasterSlave ----------------------------
(* A chain p1 --a--> p2 --b--> p3.                                            *)
EXTENDS MasterSlaveChannel

ChainReader == [a |-> "p2", b |-> "p3"]
ChainWriter == [a |-> "p1", b |-> "p2"]

=============================================================================
