-------------------------- MODULE MCFindOperations --------------------------
(* Model checking of the translation on all programs of a few shapes.      *)
EXTENDS FindOperations, ProgramShapes

(* A turn of the loop is its own number: no two turns are confused. *)
TurnItself(arch) == arch
=============================================================================
