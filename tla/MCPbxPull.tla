----------------------------- MODULE MCPbxPull -----------------------------
(* Small instances of PbxPull for TLC. *)
EXTENDS PbxPull, TLC

CONSTANTS f1, f2
FirstOfTwoDays == f1 :> 1
TwoDays == (f1 :> 1) @@ (f2 :> 2)
=============================================================================
