------------------------------- MODULE MCAuth -------------------------------
(* Small instances of Auth for TLC. *)
EXTENDS Auth, TLC

AuthSymmetry ==
  Permutations(Tokens) \cup Permutations(Requests)
    \cup Permutations(Passwords) \cup Permutations(Secrets)
=============================================================================
