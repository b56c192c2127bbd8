------------------------------ MODULE Archive -------------------------------
(***************************************************************************)
(* What the archive of recordings promises, whatever pulls are begun, killed *)
(* or fail (pbxpull.py:17-24): every copy that was ever in it is kept; a copy *)
(* leaves its place only while the PBX offers a longer one, and what is put   *)
(* in the empty place is longer than any copy there ever was.  The promise    *)
(* rests on one pull at a time, and ends when that is breached.  PbxPull      *)
(* implements it.                                                           *)
(***************************************************************************)
EXTENDS Naturals

CONSTANTS Recordings, Largest

VARIABLES
  offered,    \* by recording, the size the PBX has; 0 is none
  stored,     \* the size of the copy in its place
  copies,     \* the sizes of all copies, in their place or set aside
  breached    \* two pulls have been at work at once

archiveVars == <<offered, stored, copies, breached>>

Lengths == 0..Largest

ArcInit ==
  /\ offered \in [Recordings -> Lengths] /\ stored \in [Recordings -> Lengths]
  /\ copies = [f \in Recordings |-> {stored[f]} \ {0}]
  /\ breached = FALSE

(* The PBX goes on recording a call. *)
Record(f) ==
  /\ \E n \in Lengths : offered[f] < n /\ offered' = [offered EXCEPT ![f] = n]
  /\ UNCHANGED <<stored, copies, breached>>

(* A short copy makes place; it stays one of the copies. *)
SetAside(f) ==
  /\ stored[f] # 0 /\ stored[f] < offered[f]
  /\ stored' = [stored EXCEPT ![f] = 0]
  /\ UNCHANGED <<offered, copies, breached>>

Deliver(f, n) ==
  /\ stored[f] = 0
  /\ 0 < n /\ n <= offered[f] /\ \A k \in copies[f] : k < n
  /\ stored' = [stored EXCEPT ![f] = n]
  /\ copies' = [copies EXCEPT ![f] = @ \cup {n}]
  /\ UNCHANGED <<offered, breached>>

Breach == breached' = TRUE /\ UNCHANGED <<offered, stored, copies>>

ArcNext ==
  \/ breached /\ breached'
  \/ Breach
  \/ \E f \in Recordings :
       \/ Record(f) \/ SetAside(f)
       \/ \E n \in Lengths : Deliver(f, n)

ArcSpec == ArcInit /\ [][ArcNext]_archiveVars
=============================================================================
