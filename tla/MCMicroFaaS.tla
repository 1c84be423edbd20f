----------------------------- MODULE MCMicroFaaS -----------------------------
(* An instance of MicroFaaS for TLC. *)
EXTENDS MicroFaaS, TLC

CONSTANTS n1, n2                 \* names: foo and foo%zz, say

MCExitCodes == {0}
MCPathName == n1 :> n1 @@ n2 :> BadURL
=============================================================================
