------------------------------ MODULE MCGrants ------------------------------
(* Small instances of Grants for TLC. *)
EXTENDS Grants
=============================================================================
