-------------------------------- MODULE Auth --------------------------------
(***************************************************************************)
(* Sign-in, second factor and sessions (televault/auth.py, mfa.py,           *)
(* security.py) with the administrators' resets (admin.py, cli.py).          *)
(*                                                                           *)
(* A request is one transaction, but SQLite opens it with its first write:   *)
(* what was read before that may be out of date.  So a sign-in reads the     *)
(* user, verifies the password, and only then writes; and a request of a     *)
(* session reads the session and its user (resolve_session's SELECT) and     *)
(* from its UPDATE on holds the write lock, which makes the rest one step.   *)
(***************************************************************************)
EXTENDS Naturals, FiniteSets

CONSTANTS
  Users,
  Tokens,       \* session tokens
  Requests,     \* requests in progress at the same time
  Passwords,
  Secrets,      \* authenticator secrets
  NoSecret,     \* mfa_secret IS NULL
  MaxFailures,  \* login_max_failures
  MaxWrong,     \* MAX_SESSION_FAILURES
  LockSteps,    \* login_lock_minutes, in TOTP steps
  MaxNow        \* bound: the last TOTP step

ASSUME AuthAssumption ==
  /\ NoSecret \notin Secrets
  /\ MaxFailures \in Nat \ {0} /\ MaxWrong \in Nat \ {0}
  /\ LockSteps \in Nat /\ MaxNow \in Nat \ {0, 1}

VARIABLES
  now,       \* the clock, in TOTP steps
  users,     \* table `users`
  sessions,  \* table `sessions`; live is FALSE for a token that has no row
  req,       \* what each request in progress has read
  accepted,  \* history: steps whose code was accepted for the present secret
  behind,    \* history: requests overtaken by a reset or a password change
  late       \* history: tokens of sessions that an overtaken request made

vars == <<now, users, sessions, req, accepted, behind, late>>

-----------------------------------------------------------------------------
(* Types                                                                     *)

(* A step of 0 is no step: mfa_last_step of a new user, locked_until NULL.   *)
UserRow == [active: BOOLEAN, pw: Passwords, fails: 0..MaxFailures - 1,
            lock: 0..MaxNow + LockSteps, secret: Secrets \cup {NoSecret},
            enrolled: BOOLEAN, step: 0..MaxNow + 1]

(* pw is the password that opened the session: history. *)
Ended == [live |-> FALSE]
Session == [live: {TRUE}, user: Users, ok: BOOLEAN, wrong: 0..MaxWrong - 1,
            pw: Passwords]

(* A sign-in whose password did or did not match, one that has read           *)
(* failed_attempts, and a request of a session with what resolve_session read. *)
Free == [pc |-> "free"]
Request == {Free} \cup [pc: {"right"}, user: Users, pw: Passwords]
                  \cup [pc: {"wrong"}, user: Users]
                  \cup [pc: {"failing"}, user: Users, fails: 0..MaxFailures - 1]
                  \cup [pc: {"route"}, user: Users, token: Tokens, ok: BOOLEAN,
                        enrolled: BOOLEAN]

TypeOK ==
  /\ now \in 2..MaxNow
  /\ users \in [Users -> UserRow]
  /\ sessions \in [Tokens -> {Ended} \cup Session]
  /\ req \in [Requests -> Request]
  /\ accepted \in [Users -> SUBSET (1..MaxNow + 1)]
  /\ behind \in SUBSET Requests /\ late \in SUBSET Tokens

-----------------------------------------------------------------------------
(* Helpers                                                                   *)

Locked(u) == users[u].lock > now

(* register_failure, n being the failures counted with this one.  Below the   *)
(* limit it writes NULL to locked_until.                                      *)
Failed(row, n) ==
  IF n >= MaxFailures
  THEN [row EXCEPT !.fails = 0, !.lock = now + LockSteps]
  ELSE [row EXCEPT !.fails = n, !.lock = 0]

(* DELETE FROM sessions WHERE user_id = u. *)
WithoutSessionsOf(u) ==
  [s \in Tokens |-> IF sessions[s].live /\ sessions[s].user = u
                    THEN Ended ELSE sessions[s]]

(* secrets.token_urlsafe: no session and no other request has this token;     *)
(* r's own session, which ends now, leaves its name to the new one.           *)
FreshToken(s, r) ==
  /\ sessions[s].live => req[r].pc = "route" /\ req[r].token = s
  /\ \A q \in Requests \ {r} : req[q].pc = "route" => req[q].token # s

Finish(r) == req' = [req EXCEPT ![r] = Free]

Unmoved == UNCHANGED <<now, accepted>>

Init ==
  /\ now = 2
  /\ users \in [Users -> {row \in UserRow :
                  /\ row.active /\ row.fails = 0 /\ row.lock = 0
                  /\ row.secret = NoSecret /\ ~ row.enrolled /\ row.step = 0}]
  /\ sessions = [s \in Tokens |-> Ended]
  /\ req = [r \in Requests |-> Free]
  /\ accepted = [u \in Users |-> {}]
  /\ behind = {} /\ late = {}

-----------------------------------------------------------------------------
(* POST /login                                                               *)

(* SELECT the user and verify the password.  Unknown, inactive and locked    *)
(* users, like an address that has tried too often, are refused here and     *)
(* change nothing.                                                           *)
LoginRead(r, u) ==
  /\ req[r].pc = "free"
  /\ users[u].active /\ ~ Locked(u)
  /\ \/ req' = [req EXCEPT ![r] = [pc |-> "right", user |-> u, pw |-> users[u].pw]]
     \/ req' = [req EXCEPT ![r] = [pc |-> "wrong", user |-> u]]
  /\ UNCHANGED <<users, sessions, behind, late>> /\ Unmoved

(* register_failure: the SELECT, outside the transaction ... *)
ReadFailures(r) ==
  /\ req[r].pc = "wrong"
  /\ req' = [req EXCEPT ![r] = [pc |-> "failing", user |-> @.user,
                               fails |-> users[@.user].fails]]
  /\ UNCHANGED <<users, sessions, behind, late>> /\ Unmoved

(* ... and the UPDATE that opens it. *)
WriteFailure(r) ==
  LET u == req[r].user IN
  /\ req[r].pc = "failing"
  /\ users' = [users EXCEPT ![u] = Failed(@, req[r].fails + 1)]
  /\ Finish(r) /\ behind' = behind \ {r}
  /\ UNCHANGED <<sessions, late>> /\ Unmoved

(* register_success and create_session; the second factor is pending. *)
SignIn(r, s) ==
  LET u == req[r].user IN
  /\ req[r].pc = "right" /\ FreshToken(s, r)
  /\ users' = [users EXCEPT ![u].fails = 0, ![u].lock = 0]
  /\ sessions' = [sessions EXCEPT ![s] =
                    [live |-> TRUE, user |-> u, ok |-> FALSE, wrong |-> 0,
                     pw |-> req[r].pw]]
  /\ late' = IF r \in behind THEN late \cup {s} ELSE late \ {s}
  /\ Finish(r) /\ behind' = behind \ {r}
  /\ Unmoved

-----------------------------------------------------------------------------
(* Requests of a session                                                     *)

(* resolve_session's SELECT.  Expired sessions and those of inactive users    *)
(* are not accepted (see EndSession).                                        *)
Resolve(r, s) ==
  /\ req[r].pc = "free"
  /\ sessions[s].live /\ users[sessions[s].user].active
  /\ req' = [req EXCEPT ![r] =
               [pc |-> "route", user |-> sessions[s].user, token |-> s,
                ok |-> sessions[s].ok,
                enrolled |-> users[sessions[s].user].enrolled]]
  /\ behind' = IF s \in late THEN behind \cup {r} ELSE behind \ {r}
  /\ UNCHANGED <<users, sessions, late>> /\ Unmoved

(* A request that is refused or only reads; a superadmin's sign-in from      *)
(* outside the staff networks.                                               *)
Answer(r) ==
  /\ req[r].pc \in {"route", "right"}
  /\ Finish(r) /\ behind' = behind \ {r}
  /\ UNCHANGED <<users, sessions, late>> /\ Unmoved

(* POST /mfa/setup makes a secret only when there is none, confirmed or not.  *)
SetupAnew(r, k) ==          \* planted fault: a new secret on every call
  LET u == req[r].user IN
  /\ req[r].pc = "route" /\ ~ req[r].enrolled
  /\ k # users[u].secret
  /\ users' = [users EXCEPT ![u].secret = k]
  /\ accepted' = [accepted EXCEPT ![u] = {}]
  /\ Finish(r) /\ behind' = behind \ {r}
  /\ UNCHANGED <<now, sessions, late>>
Setup(r, k) ==
  LET u == req[r].user IN
  /\ req[r].pc = "route" /\ ~ req[r].enrolled
  /\ users[u].secret = NoSecret
  /\ users' = [users EXCEPT ![u].secret = k]
  /\ accepted' = [accepted EXCEPT ![u] = {}]
  /\ Finish(r) /\ behind' = behind \ {r}
  /\ UNCHANGED <<now, sessions, late>>

(* POST /mfa/verify with the code of step t: within one step of the clock and *)
(* later than any accepted before.  UPDATE sessions finds no row when the     *)
(* session has ended meanwhile.                                               *)
VerifyAgain(r, t) ==        \* planted fault: the last step is accepted again
  LET u == req[r].user
      s == req[r].token
  IN
  /\ req[r].pc = "route" /\ users[u].secret # NoSecret
  /\ t \in now - 1 .. now + 1 /\ t >= users[u].step
  /\ users' = [users EXCEPT ![u].enrolled = TRUE, ![u].step = t, ![u].fails = 0]
  /\ sessions' = IF sessions[s].live
                 THEN [sessions EXCEPT ![s].ok = TRUE, ![s].wrong = 0]
                 ELSE sessions
  /\ accepted' = [accepted EXCEPT ![u] = @ \cup {t}]
  /\ Finish(r) /\ behind' = behind \ {r}
  /\ UNCHANGED <<now, late>>
Verify(r, t) ==
  LET u == req[r].user
      s == req[r].token
  IN
  /\ req[r].pc = "route" /\ users[u].secret # NoSecret
  /\ t \in now - 1 .. now + 1 /\ t > users[u].step
  /\ users' = [users EXCEPT ![u].enrolled = TRUE, ![u].step = t, ![u].fails = 0]
  /\ sessions' = IF sessions[s].live
                 THEN [sessions EXCEPT ![s].ok = TRUE, ![s].wrong = 0]
                 ELSE sessions
  /\ accepted' = [accepted EXCEPT ![u] = @ \cup {t}]
  /\ Finish(r) /\ behind' = behind \ {r}
  /\ UNCHANGED <<now, late>>

(* A wrong or reused code counts against the account and the session. *)
VerifyFails(r) ==
  LET u == req[r].user
      s == req[r].token
  IN
  /\ req[r].pc = "route" /\ users[u].secret # NoSecret
  /\ users' = [users EXCEPT ![u] = Failed(@, @.fails + 1)]
  /\ sessions' = IF sessions[s].live /\ sessions[s].wrong + 1 < MaxWrong
                 THEN [sessions EXCEPT ![s].wrong = @ + 1]
                 ELSE [sessions EXCEPT ![s] = Ended]
  /\ Finish(r) /\ behind' = behind \ {r}
  /\ UNCHANGED late /\ Unmoved

(* Requests that have read user u, other than r, are overtaken. *)
Overtake(u, r) ==
  behind' = (behind \cup {q \in Requests : req[q].pc # "free" /\ req[q].user = u})
              \ {r}

(* POST /change-password: the present password is verified under the lock,    *)
(* every session of the user ends, and a new one begins that has passed the   *)
(* second factor because this one had when it was read.                       *)
ChangePassword(r, pw, s) ==
  LET u == req[r].user IN
  /\ req[r].pc = "route" /\ req[r].ok
  /\ pw # users[u].pw
  /\ FreshToken(s, r)
  /\ users' = [users EXCEPT ![u].pw = pw]
  /\ sessions' = [WithoutSessionsOf(u) EXCEPT ![s] =
                    [live |-> TRUE, user |-> u, ok |-> TRUE, wrong |-> 0, pw |-> pw]]
  /\ late' = IF r \in behind THEN late \cup {s} ELSE late \ {s}
  /\ Finish(r) /\ Overtake(u, r)
  /\ Unmoved

(* Logout, expiry and purge_expired_sessions, a change of role. *)
EndSession(s) ==
  /\ sessions[s].live
  /\ sessions' = [sessions EXCEPT ![s] = Ended]
  /\ UNCHANGED <<users, req, behind, late>> /\ Unmoved

-----------------------------------------------------------------------------
(* Administrators, the console and MCP: one write transaction each           *)

(* POST /users/{uid}/reset-password, `set-password`. *)
ResetPasswordOnly(u, pw) ==     \* planted fault: the sessions stay
  /\ pw # users[u].pw
  /\ users' = [users EXCEPT ![u].pw = pw, ![u].fails = 0, ![u].lock = 0]
  /\ behind' = behind \cup {q \in Requests : req[q].pc # "free" /\ req[q].user = u}
  /\ UNCHANGED <<sessions, req, late>> /\ Unmoved
ResetPassword(u, pw) ==
  /\ pw # users[u].pw
  /\ users' = [users EXCEPT ![u].pw = pw, ![u].fails = 0, ![u].lock = 0]
  /\ sessions' = WithoutSessionsOf(u)
  /\ behind' = behind \cup {q \in Requests : req[q].pc # "free" /\ req[q].user = u}
  /\ UNCHANGED <<req, late>> /\ Unmoved

(* POST /users/{uid}/reset-mfa, `reset-mfa`. *)
ResetMfa(u) ==
  /\ users[u].secret # NoSecret
  /\ users' = [users EXCEPT ![u].secret = NoSecret, ![u].enrolled = FALSE,
                            ![u].step = 0]
  /\ sessions' = WithoutSessionsOf(u)
  /\ accepted' = [accepted EXCEPT ![u] = {}]
  /\ behind' = behind \cup {q \in Requests : req[q].pc # "free" /\ req[q].user = u}
  /\ UNCHANGED <<now, req, late>>

(* PUT /users/{uid}. *)
SetActive(u, active) ==
  /\ users[u].active # active
  /\ users' = [users EXCEPT ![u].active = active]
  /\ sessions' = IF active THEN sessions ELSE WithoutSessionsOf(u)
  /\ UNCHANGED <<req, behind, late>> /\ Unmoved

(* The MCP tool unlock_user. *)
Unlock(u) ==
  /\ users[u].fails # 0 \/ Locked(u)
  /\ users' = [users EXCEPT ![u].fails = 0, ![u].lock = 0]
  /\ UNCHANGED <<sessions, req, behind, late>> /\ Unmoved

Tick ==
  /\ now < MaxNow
  /\ now' = now + 1
  /\ UNCHANGED <<users, sessions, req, accepted, behind, late>>

RequestStep(r) ==
  \/ \E u \in Users : LoginRead(r, u)
  \/ ReadFailures(r) \/ WriteFailure(r) \/ Answer(r) \/ VerifyFails(r)
  \/ \E s \in Tokens : SignIn(r, s) \/ Resolve(r, s)
  \/ \E k \in Secrets : Setup(r, k)
  \/ \E t \in 1..MaxNow + 1 : Verify(r, t)
  \/ \E pw \in Passwords, s \in Tokens : ChangePassword(r, pw, s)

AdminStep(u) ==
  \/ \E pw \in Passwords : ResetPassword(u, pw)
  \/ ResetMfa(u) \/ Unlock(u)
  \/ \E active \in BOOLEAN : SetActive(u, active)

Next ==
  \/ \E r \in Requests : RequestStep(r)
  \/ \E s \in Tokens : EndSession(s)
  \/ \E u \in Users : AdminStep(u)
  \/ Tick

Spec == Init /\ [][Next]_vars

-----------------------------------------------------------------------------
(* Properties                                                                *)

(* A confirmed authenticator has a secret, and the codes accepted for it lie  *)
(* at or before the step remembered.                                         *)
CodesAreBehind ==
  \A u \in Users :
    /\ users[u].enrolled => users[u].secret # NoSecret
    /\ \A t \in accepted[u] : t <= users[u].step

(* A session is worth what was proven in it: its user's authenticator is      *)
(* confirmed if it passed the second factor, and the password that opened it  *)
(* is the present one.  Only a request overtaken by a reset between reading    *)
(* and writing can make another (auth.py:190-193, cli.py:148, admin.py:633).  *)
Worth(s) ==
  /\ sessions[s].ok => users[sessions[s].user].enrolled
  /\ sessions[s].pw = users[sessions[s].user].pw

SessionsAreWorthIt == \A s \in Tokens \ late : sessions[s].live => Worth(s)

(* What the requests in progress know is still so unless they are behind. *)
ReadingsHold ==
  \A r \in Requests \ behind :
    /\ req[r].pc = "right" => req[r].pw = users[req[r].user].pw
    /\ req[r].pc = "route" /\ req[r].ok => users[req[r].user].enrolled

(* A request's token still names the session it read, or none. *)
TokensAreOnesOwn ==
  \A r \in Requests :
    req[r].pc = "route" /\ sessions[req[r].token].live
      => sessions[req[r].token].user = req[r].user

AuthInv ==
  CodesAreBehind /\ SessionsAreWorthIt /\ ReadingsHold /\ TokensAreOnesOwn

(* A code is accepted once, whatever sessions and requests present it         *)
(* (mfa.py:12-13, 164-165).                                                   *)
CodeOnce ==
  [][\A r \in Requests, t \in 1..MaxNow + 1 :
       Verify(r, t) => t \notin accepted[req[r].user]]_vars

(* Once an authenticator is confirmed its secret stays until it is reset,     *)
(* whatever a request that read the user before asks for (mfa.py:134-142).    *)
ConfirmedSecretStays ==
  [][\A u \in Users : users[u].enrolled /\ users'[u].enrolled
                        => users'[u].secret = users[u].secret]_vars

(* A failed attempt never lifts the lock (README, login_lock_minutes).        *)
FailuresKeepLocks ==
  [][\A u \in Users : Locked(u) /\ (\E r \in Requests : WriteFailure(r) \/ VerifyFails(r))
                        => Locked(u)']_vars

-----------------------------------------------------------------------------
(* Refinement: the credentials, and the sessions but for those that a request *)
(* made which a reset had overtaken.                                         *)

Shown(s) ==
  IF sessions[s].live /\ s \notin late
  THEN [in |-> TRUE, user |-> sessions[s].user, pw |-> sessions[s].pw,
        full |-> sessions[s].ok]
  ELSE [in |-> FALSE]

Cred == INSTANCE Credentials WITH
          Steps <- 1..MaxNow + 1,
          password <- [u \in Users |-> users[u].pw],
          secret <- [u \in Users |-> users[u].secret],
          confirmed <- [u \in Users |-> users[u].enrolled],
          used <- accepted,
          door <- [s \in Tokens |-> Shown(s)]

(* What the requests do together, each acting on what it read before, is what *)
(* Credentials allows: a session gains the second factor only by a new code    *)
(* or a change of password, and loses everything when the user's password or   *)
(* secret goes (auth.py:168-196, mfa.py:131-185, admin.py:624-647).            *)
ImplementsCredentials == Cred!CredSpec
=============================================================================
