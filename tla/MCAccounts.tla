----------------------------- MODULE MCAccounts ------------------------------
(* Small instances of Accounts for TLC. *)
EXTENDS Accounts, TLC

(* The rules' folders, and two more spellings of them: LIKE finds SUPPORT     *)
(* under Support, and only str.lower BUERO under Buero, with its umlaut.      *)
Support == [word |-> "support", ascii |-> {1}, beyond |-> {}]
Buero == [word |-> "buero", ascii |-> {1}, beyond |-> {}]
SUPPORT == [word |-> "support", ascii |-> 1..7, beyond |-> {}]
BUERO == [word |-> "buero", ascii |-> {1, 3, 4}, beyond |-> {2}]

(* Both customers have an extension 436: the second's recording would match    *)
(* the first's rules if those were not confined to their customer.            *)
MCRecordings ==
  {[customer |-> 1, type |-> "exten", target |-> "436", party |-> "outside",
    within |-> {BUERO}],
   [customer |-> 2, type |-> "out", target |-> "outside", party |-> "436",
    within |-> {SUPPORT}]}

MCRules ==
  {[extensions |-> {"436"}, queues |-> {}, dids |-> {}, folders |-> {}],
   [extensions |-> {}, queues |-> {"600"}, dids |-> {"701"},
    folders |-> {Support, Buero}]}

Symmetry == Permutations(Requests)
=============================================================================
