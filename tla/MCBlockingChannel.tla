-------------------------- MODULE MCBlockingChannel --------------------------
(* A channel whose processes make every call, and beside it one whose        *)
(* processes exchange blocking messages, with a pause in between or without. *)
EXTENDS BlockingChannel

Readers == [polled |-> "reader", busy |-> "sink"]
Writers == [polled |-> "writer", busy |-> "source"]
CallsOf == [reader |-> AllOps, writer |-> AllOps,
            sink |-> {"read"}, source |-> {"write", "pause"}]

=============================================================================
