---------------------------- MODULE MCCommandLine ----------------------------
(* Instances of CommandLine for TLC. *)
EXTENDS CommandLine, TLC

CONSTANTS n1, n2, n3      \* names: foo, foo?v1 and a/b, say

MCExitCodes == {0, 1}
MCOneExitCode == {0}
MCSymmetry == Permutations(Calls)

MCPathName == n1 :> n1 @@ n2 :> n1 @@ n3 :> NoRoute
MCOtherName == n1 :> n1 @@ n2 :> n1
=============================================================================
