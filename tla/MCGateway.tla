------------------------------ MODULE MCGateway ------------------------------
(* Instances of Gateway for TLC. *)
EXTENDS Gateway, TLC

MCExitCodes == {0, 1}

(* Absent, inside the range, on its edges and just outside.                *)
MCTimeoutInputs == {-1, 0, 1, 300, 301}
MCMemoryInputs  == {0, 63, 64, 2048}

(* No name, environment, create request or invocation is singled out.      *)
MCSymmetry ==
  Permutations(Names) \cup Permutations(Envs)
    \cup Permutations(Creates) \cup Permutations(Invocations)
=============================================================================
