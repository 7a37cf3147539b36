---------------------------- MODULE MCUserInput ----------------------------
(***************************************************************************)
(* One row, two fields, two values, all alike.                             *)
(***************************************************************************)
EXTENDS UserInput, TLC

Symmetry == Permutations(Fields) \cup Permutations(Values)
=============================================================================
