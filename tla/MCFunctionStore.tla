--------------------------- MODULE MCFunctionStore ---------------------------
(* An instance of FunctionStore for TLC. *)
EXTENDS FunctionStore, TLC

MCSymmetry == Permutations(Creates)
=============================================================================
