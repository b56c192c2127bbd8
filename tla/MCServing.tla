----------------------------- MODULE MCServing ------------------------------
(* A small instance of Serving for TLC: one customer bound to a disk, which is   *)
(* at its root or at the other's, one bound to none, and a recording a day older *)
(* than the other.                                                            *)
EXTENDS Serving, TLC

MCDay == ("p" :> 1) @@ ("q" :> 0)
MCMounted == ("r1" :> "d1") @@ ("r2" :> "d2")
MCSerials == ("k1" :> "d1") @@ ("k2" :> "nodisk")
MCRow(k, p) == [cust |-> k, path |-> p]
MCIndexed == (1 :> MCRow("k2", "p")) @@ (2 :> MCRow("k1", "p"))
MCForms == {[cust |-> "k1", days |-> 1, active |-> TRUE],
            [cust |-> "k1", days |-> 0, active |-> TRUE],
            [cust |-> "k2", days |-> 1, active |-> FALSE]}
ReaderSymmetry == Permutations(Readers)
=============================================================================
