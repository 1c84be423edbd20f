------------------------- MODULE MCContainerManager -------------------------
(* Instances of ContainerManager for TLC. *)
EXTENDS ContainerManager, TLC

MCExitCodes == {0, 1}
=============================================================================
