---------------------------- MODULE MCEngineStart ----------------------------
(* Instances of EngineStart for TLC. *)
EXTENDS EngineStart, TLC

(* A whole file, the one of the repository (src/config.yaml), which has no *)
(* section jwt, one without a port, one without a database, one with a mode*)
(* that gin does not know, and no YAML.                                    *)
MCUserFiles ==
  {Sections, Sections \ {"jwt"}, {"database"}, {"server"}, Sections \cup {BadMode},
   Unparseable}
=============================================================================
