---------------------------- MODULE Credentials -----------------------------
(***************************************************************************)
(* What sign-in promises, however requests interleave and whatever they have  *)
(* read.  A session opens with the present password, worth one factor.  It    *)
(* becomes worth two by a code that is later than all the codes before it,    *)
(* or is born so when the password is changed.  A secret is never replaced,   *)
(* only taken away; and with a password or a secret go all the sessions that  *)
(* were opened with it.  Auth implements it.                                 *)
(***************************************************************************)
EXTENDS Naturals

CONSTANTS Users, Tokens, Passwords, Secrets, NoSecret, Steps

VARIABLES
  password,
  secret,      \* NoSecret, or that of the authenticator
  confirmed,   \* a code of the authenticator has been accepted
  used,        \* the steps whose code has been accepted for this secret
  door         \* by token, who has come in and with what; or Nobody

credentialVars == <<password, secret, confirmed, used, door>>

Nobody == [in |-> FALSE]
Visit(u, pw, full) == [in |-> TRUE, user |-> u, pw |-> pw, full |-> full]
BelongsTo(s, u) == door[s].in /\ door[s].user = u

(* The sessions of u have ended. *)
DoorWithout(u) ==
  [s \in Tokens |-> IF BelongsTo(s, u) THEN Nobody ELSE door[s]]

CredInit ==
  /\ password \in [Users -> Passwords]
  /\ secret = [u \in Users |-> NoSecret]
  /\ confirmed = [u \in Users |-> FALSE]
  /\ used = [u \in Users |-> {}]
  /\ door = [s \in Tokens |-> Nobody]

Enter(u, s) ==
  /\ ~ door[s].in
  /\ door' = [door EXCEPT ![s] = Visit(u, password[u], FALSE)]
  /\ UNCHANGED <<password, secret, confirmed, used>>

Enrol(u, k) ==
  /\ secret[u] = NoSecret
  /\ secret' = [secret EXCEPT ![u] = k]
  /\ used' = [used EXCEPT ![u] = {}]
  /\ UNCHANGED <<password, confirmed, door>>

(* The session that presents the code may have ended meanwhile. *)
Prove(u, t) ==
  /\ secret[u] # NoSecret /\ \A x \in used[u] : x < t
  /\ confirmed' = [confirmed EXCEPT ![u] = TRUE]
  /\ used' = [used EXCEPT ![u] = @ \cup {t}]
  /\ \/ UNCHANGED door
     \/ \E s \in Tokens :
          /\ BelongsTo(s, u)
          /\ door' = [door EXCEPT ![s] = Visit(u, @.pw, TRUE)]
  /\ UNCHANGED <<password, secret>>

Change(u, pw, s) ==
  /\ confirmed[u] /\ pw # password[u]
  /\ door[s].in => BelongsTo(s, u)
  /\ password' = [password EXCEPT ![u] = pw]
  /\ door' = [DoorWithout(u) EXCEPT ![s] = Visit(u, pw, TRUE)]
  /\ UNCHANGED <<secret, confirmed, used>>

TakePassword(u, pw) ==
  /\ pw # password[u]
  /\ password' = [password EXCEPT ![u] = pw]
  /\ door' = DoorWithout(u)
  /\ UNCHANGED <<secret, confirmed, used>>

TakeSecret(u) ==
  /\ secret[u] # NoSecret
  /\ secret' = [secret EXCEPT ![u] = NoSecret]
  /\ confirmed' = [confirmed EXCEPT ![u] = FALSE]
  /\ used' = [used EXCEPT ![u] = {}]
  /\ door' = DoorWithout(u)
  /\ UNCHANGED password

(* Logout, expiry, a user who is disabled. *)
Leave(S) ==
  /\ door' = [s \in Tokens |-> IF s \in S THEN Nobody ELSE door[s]]
  /\ UNCHANGED <<password, secret, confirmed, used>>

CredNext ==
  \/ \E S \in SUBSET Tokens : Leave(S)
  \/ \E u \in Users :
       \/ \E s \in Tokens : Enter(u, s)
       \/ \E k \in Secrets : Enrol(u, k)
       \/ \E t \in Steps : Prove(u, t)
       \/ TakeSecret(u)
       \/ \E pw \in Passwords :
            TakePassword(u, pw) \/ \E s \in Tokens : Change(u, pw, s)

CredSpec == CredInit /\ [][CredNext]_credentialVars
=============================================================================
