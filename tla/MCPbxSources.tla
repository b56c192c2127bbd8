---------------------------- MODULE MCPbxSources ----------------------------
(* Small instances of PbxSources for TLC. *)
EXTENDS PbxSources
=============================================================================
