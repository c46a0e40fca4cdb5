----------------------------- MODULE MCHardware -----------------------------
(* Model checking of what is made of a program against the running program. *)
EXTENDS Hardware, ProgramShapes

(* A turn of the loop is its own number: no two turns are confused.         *)
TurnItself(arch) == arch
=============================================================================
