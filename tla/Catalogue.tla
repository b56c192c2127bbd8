----------------------------- MODULE Catalogue ------------------------------
(***************************************************************************)
(* What the recordings table promises to everything that reads it, whatever  *)
(* runs, disks and administrators do: one catalogue for each customer that    *)
(* exists, empty when the customer comes, gone when the customer goes, and    *)
(* changed for one customer at a time.  Indexer implements it.                *)
(***************************************************************************)
CONSTANTS CatalogueIds, Recordings

VARIABLES
  live,    \* the ids that are customers
  shown    \* by id, the recordings that have a row

catalogueVars == <<live, shown>>

CatInit == live \in SUBSET CatalogueIds /\ shown = [c \in CatalogueIds |-> {}]

Learn(c, F) ==
  /\ c \in live
  /\ shown' = [shown EXCEPT ![c] = @ \cup F]
  /\ UNCHANGED live

Forget(c, F) ==
  /\ c \in live
  /\ shown' = [shown EXCEPT ![c] = @ \ F]
  /\ UNCHANGED live

(* An id may be given again, to a customer of whom nothing is known yet.       *)
Come(c) ==
  /\ c \notin live /\ shown[c] = {}
  /\ live' = live \cup {c}
  /\ UNCHANGED shown

Go(c) ==
  /\ c \in live
  /\ live' = live \ {c}
  /\ shown' = [shown EXCEPT ![c] = {}]

CatNext ==
  \E c \in CatalogueIds :
    \/ \E F \in SUBSET Recordings : Learn(c, F) \/ Forget(c, F)
    \/ Come(c) \/ Go(c)

CatSpec == CatInit /\ [][CatNext]_catalogueVars
=============================================================================
