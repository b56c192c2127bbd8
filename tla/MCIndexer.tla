----------------------------- MODULE MCIndexer -----------------------------
(* Small instances of Indexer for TLC: two files, each in a folder of its    *)
(* own.                                                                      *)
EXTENDS Indexer, TLC

CONSTANTS f1, f2, a, b

TwoFolders == (f1 :> a) @@ (f2 :> b)
=============================================================================
