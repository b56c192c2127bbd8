----------------------------- MODULE AuthProofs -----------------------------
(***************************************************************************)
(* Proofs about Auth for every number of users, tokens and requests.         *)
(***************************************************************************)
EXTENDS Auth, TLAPS

-----------------------------------------------------------------------------
(* Type correctness                                                          *)

(* What a request in progress has read, by its kind. *)
LEMMA RequestFields ==
  ASSUME NEW q \in Request
  PROVE  /\ q.pc \in {"free", "right", "wrong", "failing", "route"}
         /\ q.pc # "free" => q.user \in Users
         /\ q.pc = "right" => q.pw \in Passwords
         /\ q.pc = "failing" => q.fails \in 0..MaxFailures - 1
         /\ q.pc = "route" => /\ q.token \in Tokens /\ q.ok \in BOOLEAN
                              /\ q.enrolled \in BOOLEAN
BY DEF Request, Free

(* register_failure keeps a user a user. *)
LEMMA FailedType ==
  ASSUME TypeOK, NEW row \in UserRow, NEW n \in 1..MaxFailures
  PROVE  Failed(row, n) \in UserRow
<1>1. CASE n >= MaxFailures
  <2>1. 0 \in 0..MaxFailures - 1 /\ now + LockSteps \in 0..MaxNow + LockSteps
    BY AuthAssumption DEF TypeOK
  <2>2. [row EXCEPT !.fails = 0, !.lock = now + LockSteps] \in UserRow
    BY <2>1 DEF UserRow
  <2> QED BY <1>1, <2>2 DEF Failed
<1>2. CASE ~ (n >= MaxFailures)
  <2>1. n \in 0..MaxFailures - 1 /\ 0 \in 0..MaxNow + LockSteps
    BY <1>2, AuthAssumption
  <2>2. [row EXCEPT !.fails = n, !.lock = 0] \in UserRow
    BY <2>1 DEF UserRow
  <2> QED BY <1>2, <2>2 DEF Failed
<1> QED BY <1>1, <1>2

(* So does clearing the counter and the lock. *)
LEMMA ClearedType ==
  ASSUME NEW row \in UserRow
  PROVE  /\ [row EXCEPT !.fails = 0, !.lock = 0] \in UserRow
         /\ \A pw \in Passwords :
              [row EXCEPT !.pw = pw, !.fails = 0, !.lock = 0] \in UserRow
<1>1. 0 \in 0..MaxFailures - 1 /\ 0 \in 0..MaxNow + LockSteps
  BY AuthAssumption
<1> QED BY <1>1 DEF UserRow

(* So does confirming the authenticator, and a session stays one. *)
LEMMA ConfirmedType ==
  ASSUME NEW row \in UserRow, NEW t \in 0..MaxNow + 1
  PROVE  [row EXCEPT !.enrolled = TRUE, !.step = t, !.fails = 0] \in UserRow
<1>1. 0 \in 0..MaxFailures - 1
  BY AuthAssumption
<1> QED BY <1>1 DEF UserRow

LEMMA SessionType ==
  ASSUME NEW x \in Session
  PROVE  /\ [x EXCEPT !.ok = TRUE, !.wrong = 0] \in Session
         /\ x.wrong + 1 < MaxWrong => [x EXCEPT !.wrong = @ + 1] \in Session
<1>1. 0 \in 0..MaxWrong - 1
  BY AuthAssumption
<1>2. [x EXCEPT !.ok = TRUE, !.wrong = 0] \in Session
  BY <1>1 DEF Session
<1>3. ASSUME x.wrong + 1 < MaxWrong PROVE [x EXCEPT !.wrong = @ + 1] \in Session
  <2>1. x.wrong + 1 \in 0..MaxWrong - 1
    BY <1>3, AuthAssumption DEF Session
  <2>2. [x EXCEPT !.wrong = x.wrong + 1] \in Session
    <3> DEFINE n == x.wrong + 1
    <3>1. n \in 0..MaxWrong - 1
      BY <2>1
    <3> HIDE DEF n
    <3>2. [x EXCEPT !.wrong = n] \in Session
      BY <3>1 DEF Session
    <3> QED BY <3>2 DEF n
  <2> QED BY <2>2
<1> QED BY <1>2, <1>3

(* A request that ends, and the sessions of one user. *)
LEMMA FinishType ==
  ASSUME TypeOK, NEW r \in Requests, Finish(r)
  PROVE  req' \in [Requests -> Request]
BY DEF TypeOK, Finish, Request

LEMMA WithoutType ==
  ASSUME TypeOK, NEW u
  PROVE  WithoutSessionsOf(u) \in [Tokens -> {Ended} \cup Session]
BY DEF TypeOK, WithoutSessionsOf

LEMMA RequestStepType ==
  ASSUME TypeOK, NEW r \in Requests, RequestStep(r)
  PROVE  TypeOK'
<1> USE DEF Unmoved
<1>0. req[r] \in Request
  BY DEF TypeOK
<1>1. ASSUME NEW u \in Users, LoginRead(r, u) PROVE TypeOK'
  <2>1. /\ [pc |-> "right", user |-> u, pw |-> users[u].pw] \in Request
        /\ [pc |-> "wrong", user |-> u] \in Request
    BY DEF TypeOK, UserRow, Request
  <2> QED BY <1>1, <2>1 DEF LoginRead, TypeOK
<1>2. CASE ReadFailures(r)
  <2>1. [pc |-> "failing", user |-> req[r].user,
         fails |-> users[req[r].user].fails] \in Request
    BY <1>0, <1>2, RequestFields DEF ReadFailures, TypeOK, UserRow, Request
  <2> QED BY <1>2, <2>1 DEF ReadFailures, TypeOK
<1>3. CASE WriteFailure(r)
  <2>1. req[r].user \in Users /\ req[r].fails + 1 \in 1..MaxFailures
    BY <1>0, <1>3, RequestFields, AuthAssumption DEF WriteFailure
  <2>2. Failed(users[req[r].user], req[r].fails + 1) \in UserRow
    BY <2>1, FailedType DEF TypeOK
  <2>3. users' \in [Users -> UserRow]
    BY <1>3, <2>1, <2>2 DEF WriteFailure, TypeOK
  <2> QED BY <1>3, <2>3, FinishType DEF WriteFailure, TypeOK
<1>4. CASE Answer(r)
  BY <1>4, FinishType DEF Answer, TypeOK
<1>5. CASE VerifyFails(r)
  <2>1. req[r].user \in Users /\ req[r].token \in Tokens
    BY <1>0, <1>5, RequestFields DEF VerifyFails
  <2>2. users[req[r].user].fails + 1 \in 1..MaxFailures
    BY <2>1, AuthAssumption DEF TypeOK, UserRow
  <2>3. users' \in [Users -> UserRow]
    BY <1>5, <2>1, <2>2, FailedType DEF VerifyFails, TypeOK
  <2>4. sessions' \in [Tokens -> {Ended} \cup Session]
    <3> DEFINE s == req[r].token
    <3>1. CASE sessions[s].live /\ sessions[s].wrong + 1 < MaxWrong
      <4>1. sessions[s] \in Session
        BY <2>1, <3>1 DEF TypeOK, Ended
      <4>2. [sessions[s] EXCEPT !.wrong = @ + 1] \in Session
        BY <3>1, <4>1, SessionType
      <4> QED BY <1>5, <2>1, <3>1, <4>2 DEF VerifyFails, TypeOK
    <3>2. CASE ~ (sessions[s].live /\ sessions[s].wrong + 1 < MaxWrong)
      BY <1>5, <2>1, <3>2 DEF VerifyFails, TypeOK
    <3> QED BY <3>1, <3>2
  <2> QED BY <1>5, <2>3, <2>4, FinishType DEF VerifyFails, TypeOK
<1>6. ASSUME NEW s \in Tokens, SignIn(r, s) PROVE TypeOK'
  <2>1. req[r].user \in Users /\ req[r].pw \in Passwords
    BY <1>0, <1>6, RequestFields DEF SignIn
  <2>2. users' \in [Users -> UserRow]
    BY <1>6, <2>1, ClearedType DEF SignIn, TypeOK
  <2>3. [live |-> TRUE, user |-> req[r].user, ok |-> FALSE, wrong |-> 0,
         pw |-> req[r].pw] \in Session
    BY <2>1, AuthAssumption DEF Session
  <2>4. sessions' \in [Tokens -> {Ended} \cup Session]
    BY <1>6, <2>3 DEF SignIn, TypeOK
  <2> QED BY <1>6, <2>2, <2>4, FinishType DEF SignIn, TypeOK
<1>7. ASSUME NEW s \in Tokens, Resolve(r, s) PROVE TypeOK'
  <2>1. sessions[s] \in Session
    BY <1>7 DEF Resolve, TypeOK, Ended
  <2>2. [pc |-> "route", user |-> sessions[s].user, token |-> s,
         ok |-> sessions[s].ok, enrolled |-> users[sessions[s].user].enrolled]
          \in Request
    BY <2>1 DEF TypeOK, UserRow, Session, Request
  <2>3. req' \in [Requests -> Request]
    BY <1>7, <2>2 DEF Resolve, TypeOK
  <2> QED BY <1>7, <2>3 DEF Resolve, TypeOK
<1>8. ASSUME NEW k \in Secrets, Setup(r, k) PROVE TypeOK'
  <2>1. req[r].user \in Users
    BY <1>0, <1>8, RequestFields DEF Setup
  <2>2. users' \in [Users -> UserRow]
    BY <1>8, <2>1 DEF Setup, TypeOK, UserRow
  <2> QED BY <1>8, <2>1, <2>2, FinishType DEF Setup, TypeOK
<1>9. ASSUME NEW t \in 1..MaxNow + 1, Verify(r, t) PROVE TypeOK'
  <2>1. req[r].user \in Users /\ req[r].token \in Tokens
    BY <1>0, <1>9, RequestFields DEF Verify
  <2>2. users' \in [Users -> UserRow]
    <3>1. t \in 0..MaxNow + 1 /\ users[req[r].user] \in UserRow
      BY <2>1, AuthAssumption DEF TypeOK
    <3>2. [users[req[r].user] EXCEPT !.enrolled = TRUE, !.step = t, !.fails = 0]
            \in UserRow
      BY <3>1, ConfirmedType
    <3> QED BY <1>9, <2>1, <3>2 DEF Verify, TypeOK
  <2>3. sessions' \in [Tokens -> {Ended} \cup Session]
    <3> DEFINE s == req[r].token
    <3>1. CASE sessions[s].live
      <4>1. sessions[s] \in Session
        BY <2>1, <3>1 DEF TypeOK, Ended
      <4>2. [sessions[s] EXCEPT !.ok = TRUE, !.wrong = 0] \in Session
        BY <4>1, SessionType
      <4> QED BY <1>9, <2>1, <3>1, <4>2 DEF Verify, TypeOK
    <3>2. CASE ~ sessions[s].live
      BY <1>9, <3>2 DEF Verify, TypeOK
    <3> QED BY <3>1, <3>2
  <2> QED BY <1>9, <2>1, <2>2, <2>3, FinishType DEF Verify, TypeOK
<1>10. ASSUME NEW pw \in Passwords, NEW s \in Tokens, ChangePassword(r, pw, s)
       PROVE  TypeOK'
  <2>1. req[r].user \in Users
    BY <1>0, <1>10, RequestFields DEF ChangePassword
  <2>2. users' \in [Users -> UserRow]
    <3>1. [users[req[r].user] EXCEPT !.pw = pw] \in UserRow
      BY <2>1 DEF TypeOK, UserRow
    <3> QED BY <1>10, <2>1, <3>1 DEF ChangePassword, TypeOK
  <2>3. [live |-> TRUE, user |-> req[r].user, ok |-> TRUE, wrong |-> 0, pw |-> pw]
          \in Session
    BY <2>1, AuthAssumption DEF Session
  <2>4. sessions' \in [Tokens -> {Ended} \cup Session]
    BY <1>10, <2>3, WithoutType DEF ChangePassword
  <2> QED BY <1>10, <2>2, <2>4, FinishType DEF ChangePassword, Overtake, TypeOK
<1> QED BY <1>1, <1>2, <1>3, <1>4, <1>5, <1>6, <1>7, <1>8, <1>9, <1>10
        DEF RequestStep

LEMMA AdminStepType ==
  ASSUME TypeOK, NEW u \in Users, AdminStep(u)
  PROVE  TypeOK'
<1> USE DEF Unmoved
<1>1. ASSUME NEW pw \in Passwords, ResetPassword(u, pw) PROVE TypeOK'
  <2>1. users' \in [Users -> UserRow]
    BY <1>1, ClearedType DEF ResetPassword, TypeOK
  <2> QED BY <1>1, <2>1, WithoutType DEF ResetPassword, TypeOK
<1>2. CASE ResetMfa(u)
  <2>1. 0 \in 0..MaxNow + 1
    BY AuthAssumption
  <2>2. [users[u] EXCEPT !.secret = NoSecret, !.enrolled = FALSE, !.step = 0]
          \in UserRow
    BY <2>1 DEF TypeOK, UserRow
  <2>3. users' \in [Users -> UserRow]
    BY <1>2, <2>2 DEF ResetMfa, TypeOK
  <2> QED BY <1>2, <2>3, WithoutType DEF ResetMfa, TypeOK
<1>3. CASE Unlock(u)
  <2>1. users' \in [Users -> UserRow]
    BY <1>3, ClearedType DEF Unlock, TypeOK
  <2> QED BY <1>3, <2>1 DEF Unlock, TypeOK
<1>4. ASSUME NEW active \in BOOLEAN, SetActive(u, active) PROVE TypeOK'
  <2>1. users' \in [Users -> UserRow]
    BY <1>4 DEF SetActive, TypeOK, UserRow
  <2> QED BY <1>4, <2>1, WithoutType DEF SetActive, TypeOK
<1> QED BY <1>1, <1>2, <1>3, <1>4 DEF AdminStep

(* Every state of sign-in is of its type. *)
THEOREM TypeCorrect == Spec => []TypeOK
<1>1. Init => TypeOK
  <2> SUFFICES ASSUME Init PROVE TypeOK
    OBVIOUS
  <2>1. now \in 2..MaxNow /\ users \in [Users -> UserRow]
    BY AuthAssumption DEF Init
  <2> QED BY <2>1 DEF Init, TypeOK, Request
<1>2. TypeOK /\ [Next]_vars => TypeOK'
  <2> SUFFICES ASSUME TypeOK, [Next]_vars PROVE TypeOK'
    OBVIOUS
  <2>1. ASSUME NEW s \in Tokens, EndSession(s) PROVE TypeOK'
    BY <2>1 DEF EndSession, TypeOK, Unmoved
  <2>2. CASE Tick
    BY <2>2, AuthAssumption DEF Tick, TypeOK
  <2>3. CASE UNCHANGED vars
    BY <2>3 DEF vars, TypeOK
  <2> QED BY <2>1, <2>2, <2>3, RequestStepType, AdminStepType DEF Next
<1> QED BY <1>1, <1>2, PTL DEF Spec

-----------------------------------------------------------------------------
(* What sessions are worth                                                   *)

(* What most steps leave alone: the factors of every user, the sessions but   *)
(* for those that end, and the readings but for those that are dropped.       *)
SameWorth ==
  \A u \in Users : /\ users'[u].enrolled = users[u].enrolled
                   /\ users'[u].pw = users[u].pw

SameFactors ==
  \A u \in Users : /\ users'[u].enrolled = users[u].enrolled
                   /\ users'[u].secret = users[u].secret
                   /\ users'[u].step = users[u].step

FewerSessions ==
  \A s \in Tokens :
    sessions'[s].live => /\ sessions[s].live
                         /\ sessions'[s].user = sessions[s].user
                         /\ sessions'[s].ok = sessions[s].ok
                         /\ sessions'[s].pw = sessions[s].pw

FewerReadings ==
  \A r \in Requests :
    \/ req'[r] = req[r] /\ (r \in behind => r \in behind')
    \/ req'[r].pc \in {"free", "wrong", "failing"}

LEMMA CodesKept ==
  ASSUME CodesAreBehind, SameFactors, accepted' = accepted
  PROVE  CodesAreBehind'
BY DEF CodesAreBehind, SameFactors

LEMMA LiveSession ==
  ASSUME TypeOK, NEW s \in Tokens, sessions[s].live
  PROVE  sessions[s] \in Session /\ sessions[s].user \in Users
<1>1. sessions[s] \in Session
  BY DEF TypeOK, Ended
<1> QED BY <1>1 DEF Session

LEMMA SessionsKept ==
  ASSUME TypeOK, SessionsAreWorthIt, SameWorth, FewerSessions, late \subseteq late'
  PROVE  SessionsAreWorthIt'
<1> SUFFICES ASSUME NEW s \in Tokens, s \notin late', sessions'[s].live
             PROVE  Worth(s)'
  BY DEF SessionsAreWorthIt
<1>1. sessions[s].live /\ Worth(s)
  BY DEF SessionsAreWorthIt, FewerSessions
<1>2. sessions[s].user \in Users
  BY <1>1, LiveSession
<1> QED BY <1>1, <1>2 DEF Worth, FewerSessions, SameWorth

LEMMA ReadingsKept ==
  ASSUME TypeOK, ReadingsHold, SameWorth, FewerReadings
  PROVE  ReadingsHold'
<1> SUFFICES ASSUME NEW r \in Requests, r \notin behind'
             PROVE  /\ req'[r].pc = "right" =>
                         req'[r].pw = users'[req'[r].user].pw
                    /\ req'[r].pc = "route" /\ req'[r].ok =>
                         users'[req'[r].user].enrolled
  BY DEF ReadingsHold
<1>1. CASE req'[r] = req[r] /\ r \notin behind
  <2>1. req[r] \in Request
    BY DEF TypeOK
  <2> QED BY <1>1, <2>1, RequestFields DEF ReadingsHold, SameWorth
<1>2. CASE req'[r].pc \in {"free", "wrong", "failing"}
  BY <1>2
<1> QED BY <1>1, <1>2 DEF FewerReadings

LEMMA TokensKept ==
  ASSUME TypeOK, TokensAreOnesOwn, FewerSessions, FewerReadings
  PROVE  TokensAreOnesOwn'
<1> SUFFICES ASSUME NEW r \in Requests, req'[r].pc = "route",
                    sessions'[req'[r].token].live
             PROVE  sessions'[req'[r].token].user = req'[r].user
  BY DEF TokensAreOnesOwn
<1>1. req'[r] = req[r] /\ req[r] \in Request
  BY DEF FewerReadings, TypeOK
<1> QED BY <1>1, RequestFields DEF TokensAreOnesOwn, FewerSessions

(* So a step that disturbs none of these keeps the invariant. *)
Quiet ==
  /\ SameWorth /\ SameFactors /\ FewerSessions
  /\ accepted' = accepted /\ late \subseteq late'

LEMMA QuietStep ==
  ASSUME TypeOK, AuthInv, Quiet, FewerReadings
  PROVE  AuthInv'
BY CodesKept, SessionsKept, ReadingsKept, TokensKept DEF AuthInv, Quiet

(* register_failure and the counter's resets do not touch the factors. *)
LEMMA FailedKeeps ==
  ASSUME NEW row \in UserRow, NEW n
  PROVE  /\ Failed(row, n).enrolled = row.enrolled
         /\ Failed(row, n).secret = row.secret
         /\ Failed(row, n).step = row.step
         /\ Failed(row, n).pw = row.pw
BY DEF Failed, UserRow

LEMMA ClearedKeeps ==
  ASSUME NEW row \in UserRow
  PROVE  LET new == [row EXCEPT !.fails = 0, !.lock = 0] IN
         /\ new.enrolled = row.enrolled /\ new.secret = row.secret
         /\ new.step = row.step /\ new.pw = row.pw
BY DEF UserRow

LEMMA FinishReadings ==
  ASSUME TypeOK, NEW r \in Requests, Finish(r), behind \ {r} \subseteq behind'
  PROVE  FewerReadings
BY DEF Finish, FewerReadings, TypeOK, Free

LEMMA WithoutSessions ==
  ASSUME TypeOK, NEW u, sessions' = WithoutSessionsOf(u)
  PROVE  /\ FewerSessions
         /\ \A s \in Tokens : sessions'[s].live => sessions[s].user # u
BY DEF TypeOK, WithoutSessionsOf, FewerSessions, Ended

(* What a wrong password or code leaves. *)
LEMMA WriteFailureKeeps ==
  ASSUME TypeOK, AuthInv, NEW r \in Requests, WriteFailure(r)
  PROVE  AuthInv' /\ Quiet
<1> DEFINE u == req[r].user
<1>1. req[r] \in Request /\ u \in Users
  BY RequestFields DEF WriteFailure, TypeOK
<1>2. users[u] \in UserRow
  BY <1>1 DEF TypeOK
<1>3. SameWorth /\ SameFactors
  <2>1. \A v \in Users : users'[v] = IF v = u THEN Failed(users[u], req[r].fails + 1)
                                     ELSE users[v]
    BY <1>1 DEF WriteFailure, TypeOK
  <2> QED BY <1>1, <1>2, <2>1, FailedKeeps DEF SameWorth, SameFactors
<1>4. FewerReadings
  BY FinishReadings DEF WriteFailure
<1>5. Quiet
  BY <1>3 DEF WriteFailure, FewerSessions, Unmoved, Quiet
<1> QED BY <1>4, <1>5, QuietStep

LEMMA VerifyFailsKeeps ==
  ASSUME TypeOK, AuthInv, NEW r \in Requests, VerifyFails(r)
  PROVE  AuthInv' /\ Quiet
<1> DEFINE u == req[r].user
           s == req[r].token
<1>1. req[r] \in Request /\ u \in Users /\ s \in Tokens
  BY RequestFields DEF VerifyFails, TypeOK
<1>2. users[u] \in UserRow
  BY <1>1 DEF TypeOK
<1>3. SameWorth /\ SameFactors
  <2>1. \A v \in Users : users'[v] = IF v = u THEN Failed(users[u], users[u].fails + 1)
                                     ELSE users[v]
    BY <1>1 DEF VerifyFails, TypeOK
  <2> QED BY <1>1, <1>2, <2>1, FailedKeeps DEF SameWorth, SameFactors
<1>4. FewerSessions
  <2>1. CASE sessions[s].live /\ sessions[s].wrong + 1 < MaxWrong
    <3>1. sessions[s] \in Session
      BY <1>1, <2>1, LiveSession
    <3>2. sessions' = [sessions EXCEPT ![s] =
                        [sessions[s] EXCEPT !.wrong = sessions[s].wrong + 1]]
      BY <2>1 DEF VerifyFails
    <3>3. \A n : [sessions[s] EXCEPT !.wrong = n].user = sessions[s].user
            /\ [sessions[s] EXCEPT !.wrong = n].ok = sessions[s].ok
            /\ [sessions[s] EXCEPT !.wrong = n].pw = sessions[s].pw
      BY <3>1 DEF Session
    <3> QED BY <1>1, <2>1, <3>2, <3>3 DEF FewerSessions, TypeOK
  <2>2. CASE ~ (sessions[s].live /\ sessions[s].wrong + 1 < MaxWrong)
    <3>1. sessions' = [sessions EXCEPT ![s] = Ended]
      BY <2>2 DEF VerifyFails
    <3> QED BY <1>1, <3>1 DEF FewerSessions, TypeOK, Ended
  <2> QED BY <2>1, <2>2
<1>5. FewerReadings
  BY FinishReadings DEF VerifyFails
<1>6. Quiet
  BY <1>3, <1>4 DEF VerifyFails, Unmoved, Quiet
<1> QED BY <1>5, <1>6, QuietStep

(* A sign-in that nothing overtook makes a session worth its password. *)
LEMMA LoginReadKeeps ==
  ASSUME TypeOK, AuthInv, NEW r \in Requests, NEW u \in Users, LoginRead(r, u)
  PROVE  AuthInv' /\ Quiet
<1>1. SameWorth /\ SameFactors /\ FewerSessions
  BY DEF LoginRead, SameWorth, SameFactors, FewerSessions
<1>2. /\ \A q \in Requests \ {r} : req'[q] = req[q]
      /\ req'[r].pc # "route"
      /\ req'[r].pc = "right" => req'[r].user = u /\ req'[r].pw = users[u].pw
  BY DEF LoginRead, TypeOK
<1>3. ReadingsHold'
  BY <1>2 DEF AuthInv, ReadingsHold, LoginRead
<1>4. TokensAreOnesOwn'
  BY <1>2 DEF AuthInv, TokensAreOnesOwn, LoginRead
<1> QED BY <1>1, <1>3, <1>4, CodesKept, SessionsKept
        DEF AuthInv, LoginRead, Unmoved, Quiet

LEMMA SignInKeeps ==
  ASSUME TypeOK, AuthInv, NEW r \in Requests, NEW s \in Tokens, SignIn(r, s)
  PROVE  AuthInv' /\ SameWorth /\ SameFactors
<1> DEFINE u == req[r].user
<1>1. req[r] \in Request /\ u \in Users
  BY RequestFields DEF SignIn, TypeOK
<1>2. SameWorth /\ SameFactors
  <2>1. users[u] \in UserRow
    BY <1>1 DEF TypeOK
  <2> DEFINE new == [users[u] EXCEPT !.fails = 0, !.lock = 0]
  <2>2. \A v \in Users : users'[v] = IF v = u THEN new ELSE users[v]
    BY <1>1 DEF SignIn, TypeOK
  <2>3. /\ new.enrolled = users[u].enrolled /\ new.secret = users[u].secret
        /\ new.step = users[u].step /\ new.pw = users[u].pw
    BY <2>1, ClearedKeeps
  <2> HIDE DEF new
  <2> QED BY <1>1, <2>2, <2>3 DEF SameWorth, SameFactors
<1>3. /\ \A x \in Tokens \ {s} : sessions'[x] = sessions[x]
      /\ sessions'[s].live /\ sessions'[s].user = u /\ ~ sessions'[s].ok
      /\ sessions'[s].pw = req[r].pw
  BY DEF SignIn, TypeOK
<1>4. SessionsAreWorthIt'
  <2> SUFFICES ASSUME NEW x \in Tokens, x \notin late', sessions'[x].live
               PROVE  Worth(x)'
    BY DEF SessionsAreWorthIt
  <2>1. CASE x = s
    <3>1. r \notin behind
      BY <2>1 DEF SignIn
    <3>2. sessions'[s].pw = users[u].pw
      BY <1>3, <3>1 DEF AuthInv, ReadingsHold, SignIn
    <3> QED BY <1>1, <1>2, <1>3, <2>1, <3>2 DEF Worth, SameWorth
  <2>2. CASE x # s
    <3>1. sessions[x].live /\ x \notin late /\ sessions'[x] = sessions[x]
      BY <1>3, <2>2 DEF SignIn
    <3>2. Worth(x) /\ sessions[x].user \in Users
      BY <3>1, LiveSession DEF AuthInv, SessionsAreWorthIt
    <3> QED BY <1>2, <3>1, <3>2 DEF Worth, SameWorth
  <2> QED BY <2>1, <2>2
<1>5. FewerReadings
  BY FinishReadings DEF SignIn
<1>6. TokensAreOnesOwn'
  <2> SUFFICES ASSUME NEW q \in Requests, req'[q].pc = "route",
                      sessions'[req'[q].token].live
               PROVE  sessions'[req'[q].token].user = req'[q].user
    BY DEF TokensAreOnesOwn
  <2>1. q # r /\ req'[q] = req[q]
    BY DEF SignIn, Finish, TypeOK, Free
  <2>2. req[q].token \in Tokens /\ req[q].token # s
    BY <2>1, RequestFields DEF SignIn, FreshToken, TypeOK
  <2> QED BY <1>3, <2>1, <2>2 DEF AuthInv, TokensAreOnesOwn
<1> QED BY <1>2, <1>4, <1>5, <1>6, CodesKept, ReadingsKept
        DEF AuthInv, SignIn, Unmoved

(* A request of a session that nothing overtook reads what it is worth. *)
LEMMA ResolveKeeps ==
  ASSUME TypeOK, AuthInv, NEW r \in Requests, NEW s \in Tokens, Resolve(r, s)
  PROVE  AuthInv' /\ Quiet
<1>1. SameWorth /\ SameFactors /\ FewerSessions
  BY DEF Resolve, SameWorth, SameFactors, FewerSessions
<1>2. /\ \A q \in Requests \ {r} : req'[q] = req[q]
      /\ req'[r].pc = "route" /\ req'[r].user = sessions[s].user
      /\ req'[r].token = s /\ req'[r].ok = sessions[s].ok
  BY DEF Resolve, TypeOK
<1>3. ReadingsHold'
  <2> SUFFICES ASSUME NEW q \in Requests, q \notin behind'
               PROVE  /\ req'[q].pc = "right" =>
                           req'[q].pw = users[req'[q].user].pw
                      /\ req'[q].pc = "route" /\ req'[q].ok =>
                           users[req'[q].user].enrolled
    BY DEF ReadingsHold, Resolve
  <2>1. CASE q = r
    <3>1. s \notin late /\ sessions[s].live
      BY <2>1 DEF Resolve
    <3> QED BY <1>2, <2>1, <3>1 DEF AuthInv, SessionsAreWorthIt, Worth
  <2>2. CASE q # r
    <3>1. q \notin behind
      BY <2>2 DEF Resolve
    <3> QED BY <1>2, <2>2, <3>1 DEF AuthInv, ReadingsHold
  <2> QED BY <2>1, <2>2
<1>4. TokensAreOnesOwn'
  BY <1>2 DEF AuthInv, TokensAreOnesOwn, Resolve
<1> QED BY <1>1, <1>3, <1>4, CodesKept, SessionsKept
        DEF AuthInv, Resolve, Unmoved, Quiet

(* A secret is made only where none is confirmed. *)
LEMMA SetupKeeps ==
  ASSUME TypeOK, AuthInv, NEW r \in Requests, NEW k \in Secrets, Setup(r, k)
  PROVE  AuthInv'
<1> DEFINE u == req[r].user
<1>1. req[r] \in Request /\ u \in Users
  BY RequestFields DEF Setup, TypeOK
<1>2. \A v \in Users : /\ users'[v].enrolled = users[v].enrolled
                       /\ users'[v].pw = users[v].pw
                       /\ users'[v].step = users[v].step
                       /\ users'[v].secret = IF v = u THEN k ELSE users[v].secret
  BY <1>1 DEF Setup, TypeOK, UserRow
<1>3. SameWorth
  BY <1>2 DEF SameWorth
<1>4. CodesAreBehind'
  <2> SUFFICES ASSUME NEW v \in Users
               PROVE  /\ users'[v].enrolled => users'[v].secret # NoSecret
                      /\ \A t \in accepted'[v] : t <= users'[v].step
    BY DEF CodesAreBehind
  <2>1. accepted'[v] = IF v = u THEN {} ELSE accepted[v]
    BY <1>1 DEF Setup, TypeOK
  <2> QED BY <1>2, <2>1, AuthAssumption DEF AuthInv, CodesAreBehind
<1>5. FewerSessions /\ FewerReadings
  BY FinishReadings DEF Setup, FewerSessions
<1> QED BY <1>3, <1>4, <1>5, SessionsKept, ReadingsKept, TokensKept
        DEF AuthInv, Setup

(* A code confirms the authenticator and passes its own user's session. *)
LEMMA VerifyKeeps ==
  ASSUME TypeOK, AuthInv, NEW r \in Requests, NEW t \in 1..MaxNow + 1, Verify(r, t)
  PROVE  AuthInv'
<1> DEFINE u == req[r].user
           s == req[r].token
<1>1. req[r] \in Request /\ u \in Users /\ s \in Tokens
  BY RequestFields DEF Verify, TypeOK
<1>2. \A v \in Users :
        /\ users'[v].pw = users[v].pw /\ users'[v].secret = users[v].secret
        /\ v # u => users'[v] = users[v]
        /\ v = u => users'[v].enrolled /\ users'[v].step = t
  BY <1>1 DEF Verify, TypeOK, UserRow
<1>3. CodesAreBehind'
  <2> SUFFICES ASSUME NEW v \in Users
               PROVE  /\ users'[v].enrolled => users'[v].secret # NoSecret
                      /\ \A x \in accepted'[v] : x <= users'[v].step
    BY DEF CodesAreBehind
  <2>1. CASE v = u
    <3>1. accepted'[v] = accepted[u] \cup {t}
      BY <1>1, <2>1 DEF Verify, TypeOK
    <3>2. users[u].secret # NoSecret /\ users[u].step < t
      BY <1>1 DEF Verify, TypeOK, UserRow
    <3>3. \A x \in accepted[u] : x \in Nat /\ x <= users[u].step
      BY <1>1 DEF AuthInv, CodesAreBehind, TypeOK
    <3>4. users[u].step \in Nat /\ t \in Nat
      BY <1>1 DEF TypeOK, UserRow
    <3> QED BY <1>1, <1>2, <2>1, <3>1, <3>2, <3>3, <3>4
  <2>2. CASE v # u
    <3>1. accepted'[v] = accepted[v] /\ users'[v] = users[v]
      BY <1>2, <2>2 DEF Verify, TypeOK
    <3> QED BY <3>1 DEF AuthInv, CodesAreBehind
  <2> QED BY <2>1, <2>2
<1>4. \A x \in Tokens :
        sessions'[x].live => /\ sessions[x].live
                             /\ sessions'[x].user = sessions[x].user
                             /\ sessions'[x].pw = sessions[x].pw
                             /\ x # s => sessions'[x] = sessions[x]
  <2>1. CASE sessions[s].live
    <3>1. sessions[s] \in Session
      BY <1>1, <2>1, LiveSession
    <3> DEFINE new == [sessions[s] EXCEPT !.ok = TRUE, !.wrong = 0]
    <3>2. new.user = sessions[s].user /\ new.pw = sessions[s].pw
      BY <3>1 DEF Session
    <3>3. sessions' = [sessions EXCEPT ![s] = new]
      BY <2>1 DEF Verify
    <3> HIDE DEF new
    <3> QED BY <1>1, <2>1, <3>2, <3>3 DEF TypeOK
  <2>2. CASE ~ sessions[s].live
    BY <2>2 DEF Verify
  <2> QED BY <2>1, <2>2
<1>5. SessionsAreWorthIt'
  <2> SUFFICES ASSUME NEW x \in Tokens, x \notin late', sessions'[x].live
               PROVE  Worth(x)'
    BY DEF SessionsAreWorthIt
  <2>1. /\ sessions[x].live /\ Worth(x) /\ sessions'[x].user = sessions[x].user
        /\ sessions'[x].pw = sessions[x].pw
    BY <1>4 DEF AuthInv, SessionsAreWorthIt, Verify
  <2>2. sessions[x].user \in Users
    BY <2>1, LiveSession
  <2>3. users'[sessions[x].user].pw = users[sessions[x].user].pw
    BY <1>2, <2>2
  <2>4. sessions'[x].ok => users'[sessions[x].user].enrolled
    <3>1. CASE sessions[x].user = u
      BY <1>1, <1>2, <3>1
    <3>2. CASE sessions[x].user # u
      <4>1. x # s
        BY <1>1, <2>1, <3>2 DEF AuthInv, TokensAreOnesOwn, Verify
      <4>2. sessions'[x] = sessions[x]
        BY <1>4, <4>1
      <4> QED BY <1>2, <2>1, <2>2, <3>2, <4>2 DEF Worth
    <3> QED BY <3>1, <3>2
  <2> QED BY <2>1, <2>3, <2>4 DEF Worth
<1>6. FewerReadings
  BY FinishReadings DEF Verify
<1>7. ReadingsHold'
  <2> SUFFICES ASSUME NEW q \in Requests, q \notin behind'
               PROVE  /\ req'[q].pc = "right" =>
                           req'[q].pw = users'[req'[q].user].pw
                      /\ req'[q].pc = "route" /\ req'[q].ok =>
                           users'[req'[q].user].enrolled
    BY DEF ReadingsHold
  <2>1. CASE req'[q].pc \in {"free", "wrong", "failing"}
    BY <2>1
  <2>2. CASE req'[q] = req[q] /\ q \notin behind
    <3>1. req[q].pc # "free" => req[q].user \in Users
      BY RequestFields DEF TypeOK
    <3> QED BY <1>1, <1>2, <2>2, <3>1 DEF AuthInv, ReadingsHold
  <2> QED BY <1>6, <2>1, <2>2 DEF FewerReadings
<1>8. TokensAreOnesOwn'
  <2> SUFFICES ASSUME NEW q \in Requests, req'[q].pc = "route",
                      sessions'[req'[q].token].live
               PROVE  sessions'[req'[q].token].user = req'[q].user
    BY DEF TokensAreOnesOwn
  <2>1. req'[q] = req[q] /\ req[q] \in Request
    BY <1>6 DEF FewerReadings, TypeOK
  <2> QED BY <1>4, <2>1, RequestFields DEF AuthInv, TokensAreOnesOwn
<1> QED BY <1>3, <1>5, <1>7, <1>8 DEF AuthInv

(* A change or a reset: what read the user is behind, and the user's sessions *)
(* are gone.                                                                  *)
ReadersAreBehind(u) ==
  \A q \in Requests :
    \/ req'[q].pc = "free"
    \/ /\ req'[q] = req[q]
       /\ q \in behind => q \in behind'
       /\ req[q].user = u => q \in behind'

OthersSame(u) ==
  \A v \in Users : v # u => users'[v] = users[v]

LEMMA OvertakenReadings ==
  ASSUME TypeOK, ReadingsHold, NEW u \in Users, OthersSame(u), ReadersAreBehind(u)
  PROVE  ReadingsHold'
<1> SUFFICES ASSUME NEW q \in Requests, q \notin behind'
             PROVE  /\ req'[q].pc = "right" =>
                         req'[q].pw = users'[req'[q].user].pw
                    /\ req'[q].pc = "route" /\ req'[q].ok =>
                         users'[req'[q].user].enrolled
  BY DEF ReadingsHold
<1>1. CASE req'[q].pc = "free"
  BY <1>1
<1>2. CASE req'[q] = req[q] /\ q \notin behind /\ req[q].user # u
  <2>1. req[q].pc # "free" => req[q].user \in Users
    BY RequestFields DEF TypeOK
  <2> QED BY <1>2, <2>1 DEF ReadingsHold, OthersSame
<1> QED BY <1>1, <1>2 DEF ReadersAreBehind

LEMMA OvertakenSessions ==
  ASSUME TypeOK, SessionsAreWorthIt, NEW u \in Users, OthersSame(u),
         sessions' = WithoutSessionsOf(u), late' = late
  PROVE  SessionsAreWorthIt'
<1> SUFFICES ASSUME NEW x \in Tokens, x \notin late, sessions'[x].live
             PROVE  Worth(x)'
  BY DEF SessionsAreWorthIt
<1>1. /\ sessions[x].live /\ sessions[x].user # u
      /\ sessions'[x].user = sessions[x].user
      /\ sessions'[x].ok = sessions[x].ok /\ sessions'[x].pw = sessions[x].pw
  BY WithoutSessions DEF FewerSessions
<1>2. Worth(x) /\ sessions[x].user \in Users
  BY <1>1, LiveSession DEF SessionsAreWorthIt
<1> QED BY <1>1, <1>2 DEF Worth, OthersSame

LEMMA ResetPasswordKeeps ==
  ASSUME TypeOK, AuthInv, NEW u \in Users, NEW pw \in Passwords, ResetPassword(u, pw)
  PROVE  AuthInv'
<1>1. OthersSame(u)
  BY DEF ResetPassword, OthersSame, TypeOK
<1>2. ReadersAreBehind(u) /\ FewerReadings
  BY DEF ResetPassword, ReadersAreBehind, FewerReadings
<1>3. SameFactors
  <2> DEFINE new == [users[u] EXCEPT !.pw = pw, !.fails = 0, !.lock = 0]
  <2>1. \A v \in Users : users'[v] = IF v = u THEN new ELSE users[v]
    BY DEF ResetPassword, TypeOK
  <2>2. users[u] \in UserRow
    BY DEF TypeOK
  <2>3. /\ new.enrolled = users[u].enrolled /\ new.secret = users[u].secret
        /\ new.step = users[u].step
    BY <2>2 DEF UserRow
  <2> HIDE DEF new
  <2> QED BY <2>1, <2>3 DEF SameFactors
<1>4. FewerSessions
  BY WithoutSessions DEF ResetPassword
<1> QED BY <1>1, <1>2, <1>3, <1>4, CodesKept, OvertakenSessions,
           OvertakenReadings, TokensKept
        DEF AuthInv, ResetPassword, Unmoved

LEMMA ResetMfaKeeps ==
  ASSUME TypeOK, AuthInv, NEW u \in Users, ResetMfa(u)
  PROVE  AuthInv'
<1>1. OthersSame(u)
  BY DEF ResetMfa, OthersSame, TypeOK
<1>2. ReadersAreBehind(u) /\ FewerReadings
  BY DEF ResetMfa, ReadersAreBehind, FewerReadings
<1>3. CodesAreBehind'
  <2> SUFFICES ASSUME NEW v \in Users
               PROVE  /\ users'[v].enrolled => users'[v].secret # NoSecret
                      /\ \A x \in accepted'[v] : x <= users'[v].step
    BY DEF CodesAreBehind
  <2>1. CASE v = u
    <3>1. accepted'[v] = {}
      BY <2>1 DEF ResetMfa, TypeOK
    <3>2. ~ users'[v].enrolled
      BY <2>1 DEF ResetMfa, TypeOK, UserRow
    <3> QED BY <3>1, <3>2
  <2>2. CASE v # u
    <3>1. accepted'[v] = accepted[v] /\ users'[v] = users[v]
      BY <2>2 DEF ResetMfa, TypeOK
    <3> QED BY <3>1 DEF AuthInv, CodesAreBehind
  <2> QED BY <2>1, <2>2
<1>4. FewerSessions
  BY WithoutSessions DEF ResetMfa
<1> QED BY <1>1, <1>2, <1>3, <1>4, OvertakenSessions, OvertakenReadings, TokensKept
        DEF AuthInv, ResetMfa

LEMMA ChangePasswordKeeps ==
  ASSUME TypeOK, AuthInv, NEW r \in Requests, NEW pw \in Passwords,
         NEW s \in Tokens, ChangePassword(r, pw, s)
  PROVE  AuthInv'
<1> DEFINE u == req[r].user
           rest == WithoutSessionsOf(u)
<1>1. req[r] \in Request /\ u \in Users
  BY RequestFields DEF ChangePassword, TypeOK
<1>2. \A v \in Users : /\ users'[v].enrolled = users[v].enrolled
                       /\ users'[v].secret = users[v].secret
                       /\ users'[v].step = users[v].step
                       /\ v = u => users'[v].pw = pw
                       /\ v # u => users'[v] = users[v]
  BY <1>1 DEF ChangePassword, TypeOK, UserRow
<1>3. CodesAreBehind'
  BY <1>2, CodesKept DEF AuthInv, SameFactors, ChangePassword, Unmoved
<1>4. OthersSame(u)
  BY <1>2 DEF OthersSame
<1>5. ReadersAreBehind(u)
  BY DEF ChangePassword, ReadersAreBehind, Overtake, Finish, TypeOK, Free
<1>6. /\ sessions'[s].live /\ sessions'[s].user = u /\ sessions'[s].pw = pw
      /\ \A x \in Tokens \ {s} : sessions'[x] = rest[x]
  BY DEF ChangePassword, WithoutSessionsOf
<1>7. \A x \in Tokens : rest[x].live =>
        rest[x] = sessions[x] /\ sessions[x].live /\ sessions[x].user # u
  BY DEF WithoutSessionsOf, Ended
<1>8. SessionsAreWorthIt'
  <2> SUFFICES ASSUME NEW x \in Tokens, x \notin late', sessions'[x].live
               PROVE  Worth(x)'
    BY DEF SessionsAreWorthIt
  <2>1. CASE x = s
    <3>1. r \notin behind
      BY <2>1 DEF ChangePassword
    <3>2. users[u].enrolled
      BY <3>1 DEF AuthInv, ReadingsHold, ChangePassword
    <3> QED BY <1>1, <1>2, <1>6, <2>1, <3>2 DEF Worth
  <2>2. CASE x # s
    <3>1. x \notin late
      BY <2>2 DEF ChangePassword
    <3>2. sessions'[x] = sessions[x] /\ sessions[x].live /\ sessions[x].user # u
      BY <1>6, <1>7, <2>2
    <3>3. Worth(x) /\ sessions[x].user \in Users
      BY <3>1, <3>2, LiveSession DEF AuthInv, SessionsAreWorthIt
    <3> QED BY <1>2, <3>2, <3>3 DEF Worth
  <2> QED BY <2>1, <2>2
<1>9. ReadingsHold'
  BY <1>1, <1>4, <1>5, OvertakenReadings DEF AuthInv
<1>10. TokensAreOnesOwn'
  <2> SUFFICES ASSUME NEW q \in Requests, req'[q].pc = "route",
                      sessions'[req'[q].token].live
               PROVE  sessions'[req'[q].token].user = req'[q].user
    BY DEF TokensAreOnesOwn
  <2>1. q # r /\ req'[q] = req[q]
    BY DEF ChangePassword, Finish, TypeOK, Free
  <2>2. req[q].token \in Tokens /\ req[q].token # s
    BY <2>1, RequestFields DEF ChangePassword, FreshToken, TypeOK
  <2> QED BY <1>6, <1>7, <2>1, <2>2 DEF AuthInv, TokensAreOnesOwn
<1> QED BY <1>3, <1>8, <1>9, <1>10 DEF AuthInv

(* PUT /users/{uid} and unlock_user do not touch the factors. *)
LEMMA SetActiveKeeps ==
  ASSUME TypeOK, AuthInv, NEW u \in Users, NEW active \in BOOLEAN,
         SetActive(u, active)
  PROVE  AuthInv' /\ Quiet
<1>1. SameWorth /\ SameFactors
  BY DEF SetActive, SameWorth, SameFactors, TypeOK, UserRow
<1>2. FewerSessions
  <2>1. CASE active
    BY <2>1 DEF SetActive, FewerSessions
  <2>2. CASE ~ active
    BY <2>2, WithoutSessions DEF SetActive
  <2> QED BY <2>1, <2>2
<1> QED BY <1>1, <1>2, QuietStep DEF SetActive, FewerReadings, Unmoved, Quiet

LEMMA UnlockKeeps ==
  ASSUME TypeOK, AuthInv, NEW u \in Users, Unlock(u)
  PROVE  AuthInv' /\ Quiet
<1>1. SameWorth /\ SameFactors
  BY DEF Unlock, SameWorth, SameFactors, TypeOK, UserRow
<1> QED BY <1>1, QuietStep DEF Unlock, FewerSessions, FewerReadings, Unmoved, Quiet

LEMMA QuietKeeps ==
  ASSUME TypeOK, AuthInv,
         \/ \E r \in Requests : ReadFailures(r) \/ Answer(r)
         \/ \E s \in Tokens : EndSession(s)
         \/ Tick
         \/ UNCHANGED vars
  PROVE  AuthInv' /\ Quiet
<1>1. SameWorth /\ SameFactors /\ accepted' = accepted /\ late' = late
  BY DEF SameWorth, SameFactors, ReadFailures, Answer, EndSession, Tick, vars,
         Unmoved
<1>2. FewerSessions
  BY DEF FewerSessions, ReadFailures, Answer, EndSession, Tick, vars, TypeOK, Ended
<1>3. FewerReadings
  <2>1. ASSUME NEW r \in Requests, ReadFailures(r) PROVE FewerReadings
    BY <2>1 DEF ReadFailures, FewerReadings, TypeOK
  <2>2. ASSUME NEW r \in Requests, Answer(r) PROVE FewerReadings
    BY <2>2, FinishReadings DEF Answer
  <2> QED BY <2>1, <2>2 DEF FewerReadings, EndSession, Tick, vars
<1> QED BY <1>1, <1>2, <1>3, QuietStep DEF Quiet

LEMMA AuthInvKept ==
  ASSUME TypeOK, AuthInv, [Next]_vars
  PROVE  AuthInv'
<1>1. ASSUME NEW r \in Requests, RequestStep(r) PROVE AuthInv'
  BY <1>1, LoginReadKeeps, QuietKeeps, WriteFailureKeeps, VerifyFailsKeeps,
     SignInKeeps, ResolveKeeps, SetupKeeps, VerifyKeeps, ChangePasswordKeeps
     DEF RequestStep
<1>2. ASSUME NEW u \in Users, AdminStep(u) PROVE AuthInv'
  BY <1>2, ResetPasswordKeeps, ResetMfaKeeps, UnlockKeeps, SetActiveKeeps
     DEF AdminStep
<1> QED BY <1>1, <1>2, QuietKeeps DEF Next

(* Whatever requests overtake one another, a session is worth what was proven *)
(* in it unless a reset overtook the request that made it, and every code     *)
(* accepted lies at or before the step remembered.                            *)
THEOREM AuthInvHolds == Spec => []AuthInv
<1>1. Init => AuthInv
  BY DEF Init, AuthInv, CodesAreBehind, SessionsAreWorthIt, ReadingsHold,
         TokensAreOnesOwn, Ended, Free
<1>2. TypeOK /\ AuthInv /\ [Next]_vars => AuthInv'
  BY AuthInvKept
<1> QED BY <1>1, <1>2, TypeCorrect, PTL DEF Spec

(* No code is accepted twice for one secret, in whichever sessions and        *)
(* requests it is presented.                                                  *)
THEOREM CodeOnceHolds == Spec => CodeOnce
<1>1. ASSUME TypeOK, AuthInv, NEW r \in Requests, NEW t \in 1..MaxNow + 1,
             Verify(r, t)
      PROVE  t \notin accepted[req[r].user]
  <2> DEFINE u == req[r].user
  <2>1. u \in Users
    BY <1>1, RequestFields DEF Verify, TypeOK
  <2>2. users[u].step \in Nat /\ users[u].step < t
    BY <1>1, <2>1 DEF Verify, TypeOK, UserRow
  <2>3. \A x \in accepted[u] : x <= users[u].step
    BY <1>1, <2>1 DEF AuthInv, CodesAreBehind
  <2> QED BY <2>2, <2>3
<1>2. TypeOK /\ AuthInv
        => [\A r \in Requests, t \in 1..MaxNow + 1 :
              Verify(r, t) => t \notin accepted[req[r].user]]_vars
  BY <1>1
<1> QED BY <1>2, TypeCorrect, AuthInvHolds, PTL DEF CodeOnce

(* Once an authenticator is confirmed, no request replaces its secret: a      *)
(* setup that read the user before finds the secret it may not overwrite.     *)
THEOREM ConfirmedSecretStaysHolds == Spec => ConfirmedSecretStays
<1> DEFINE Stays == \A u \in Users : users[u].enrolled /\ users'[u].enrolled
                                       => users'[u].secret = users[u].secret
<1>1. ASSUME TypeOK, AuthInv, NEW r \in Requests, RequestStep(r) PROVE Stays
  <2> DEFINE u == req[r].user
  <2> USE <1>1
  <2>0. req[r] \in Request /\ (req[r].pc # "free" => u \in Users)
    BY RequestFields DEF TypeOK
  <2>1. ASSUME NEW k \in Secrets, Setup(r, k) PROVE Stays
    <3>1. ~ users[u].enrolled
      BY <2>0, <2>1 DEF Setup, AuthInv, CodesAreBehind
    <3>2. \A v \in Users : v # u => users'[v] = users[v]
      BY <2>1 DEF Setup, TypeOK
    <3> QED BY <3>1, <3>2
  <2>2. ASSUME NEW t \in 1..MaxNow + 1, Verify(r, t) PROVE Stays
    BY <2>0, <2>2 DEF Verify, TypeOK, UserRow
  <2>3. CASE WriteFailure(r)
    BY <2>0, <2>3, FailedKeeps DEF WriteFailure, TypeOK
  <2>4. CASE VerifyFails(r)
    BY <2>0, <2>4, FailedKeeps DEF VerifyFails, TypeOK
  <2>5. ASSUME NEW s \in Tokens, SignIn(r, s) PROVE Stays
    BY <2>0, <2>5 DEF SignIn, TypeOK, UserRow
  <2>6. ASSUME NEW pw \in Passwords, NEW s \in Tokens, ChangePassword(r, pw, s)
        PROVE  Stays
    BY <2>0, <2>6 DEF ChangePassword, TypeOK, UserRow
  <2>7. CASE users' = users
    BY <2>7
  <2> QED BY <2>1, <2>2, <2>3, <2>4, <2>5, <2>6, <2>7
          DEF RequestStep, LoginRead, ReadFailures, Answer, Resolve
<1>2. ASSUME TypeOK, NEW u \in Users, AdminStep(u) PROVE Stays
  <2>1. ASSUME NEW pw \in Passwords, ResetPassword(u, pw) PROVE Stays
    BY <1>2, <2>1 DEF ResetPassword, TypeOK, UserRow
  <2>2. CASE ResetMfa(u)
    BY <1>2, <2>2 DEF ResetMfa, TypeOK, UserRow
  <2>3. CASE Unlock(u)
    BY <1>2, <2>3 DEF Unlock, TypeOK, UserRow
  <2>4. ASSUME NEW active \in BOOLEAN, SetActive(u, active) PROVE Stays
    BY <1>2, <2>4 DEF SetActive, TypeOK, UserRow
  <2> QED BY <1>2, <2>1, <2>2, <2>3, <2>4 DEF AdminStep
<1>3. TypeOK /\ AuthInv /\ [Next]_vars => [Stays]_vars
  BY <1>1, <1>2 DEF Next, EndSession, Tick
<1> QED BY <1>3, TypeCorrect, AuthInvHolds, PTL DEF Spec, ConfirmedSecretStays

-----------------------------------------------------------------------------
(* Refinement: what each step does to the credentials                        *)

(* Whoever is seen at the door was let in by a request that nothing overtook. *)
LEMMA Unseen ==
  ASSUME NEW s \in Tokens
  PROVE  /\ Shown(s).in <=> sessions[s].live /\ s \notin late
         /\ Shown(s).in => /\ Shown(s).user = sessions[s].user
                           /\ Shown(s) = Cred!Visit(sessions[s].user,
                                                    sessions[s].pw, sessions[s].ok)
         /\ ~ Shown(s).in => Shown(s) = Cred!Nobody
BY DEF Shown, Cred!Visit, Cred!Nobody

SameCredentials ==
  /\ SameWorth
  /\ \A u \in Users : users'[u].secret = users[u].secret

LEMMA CredentialsStay ==
  ASSUME SameCredentials
  PROVE  /\ [u \in Users |-> users[u].pw]' = [u \in Users |-> users[u].pw]
         /\ [u \in Users |-> users[u].secret]' = [u \in Users |-> users[u].secret]
         /\ [u \in Users |-> users[u].enrolled]' = [u \in Users |-> users[u].enrolled]
BY DEF SameCredentials, SameWorth

(* Sessions end, or nothing is seen to happen. *)
LEMMA QuietLeaves ==
  ASSUME Quiet
  PROVE  Cred!CredNext
<1> DEFINE S == {s \in Tokens : ~ (sessions'[s].live /\ s \notin late')}
<1>1. \A s \in Tokens : Shown(s)' = IF s \in S THEN Cred!Nobody ELSE Shown(s)
  <2> SUFFICES ASSUME NEW s \in Tokens
               PROVE  Shown(s)' = IF s \in S THEN Cred!Nobody ELSE Shown(s)
    OBVIOUS
  <2>1. CASE s \in S
    BY <2>1 DEF Shown, Cred!Nobody
  <2>2. CASE s \notin S
    <3>1. /\ sessions'[s].live /\ s \notin late' /\ sessions[s].live /\ s \notin late
          /\ sessions'[s].user = sessions[s].user
          /\ sessions'[s].ok = sessions[s].ok /\ sessions'[s].pw = sessions[s].pw
      BY <2>2 DEF Quiet, FewerSessions
    <3> QED BY <2>2, <3>1 DEF Shown
  <2> QED BY <2>1, <2>2
<1>2. Cred!Leave(S)
  <2>1. SameCredentials
    BY DEF Quiet, SameCredentials, SameFactors
  <2> QED BY <1>1, <2>1, CredentialsStay DEF Cred!Leave, Quiet
<1>3. S \in SUBSET Tokens
  OBVIOUS
<1> QED BY <1>2, <1>3 DEF Cred!CredNext

LEMMA NothingSeen ==
  ASSUME SameCredentials, accepted' = accepted,
         \A s \in Tokens : Shown(s)' = Shown(s)
  PROVE  Cred!CredNext
<1>1. Cred!Leave({})
  BY CredentialsStay DEF Cred!Leave
<1> QED BY <1>1 DEF Cred!CredNext

(* A sign-in enters with the present password, or is not seen.                *)
LEMMA SignInEnters ==
  ASSUME TypeOK, AuthInv, NEW r \in Requests, NEW s \in Tokens, SignIn(r, s)
  PROVE  Cred!CredNext
<1> DEFINE u == req[r].user
<1>1. req[r] \in Request /\ u \in Users
  BY RequestFields DEF SignIn, TypeOK
<1>2. SameCredentials /\ accepted' = accepted
  BY SignInKeeps DEF SameCredentials, SameFactors, SignIn, Unmoved
<1>3. ~ sessions[s].live
  BY DEF SignIn, FreshToken
<1>4. /\ \A x \in Tokens \ {s} : sessions'[x] = sessions[x] /\ (x \in late' <=> x \in late)
      /\ sessions'[s] = [live |-> TRUE, user |-> u, ok |-> FALSE, wrong |-> 0,
                         pw |-> req[r].pw]
      /\ s \in late' <=> r \in behind
  BY DEF SignIn, TypeOK
<1>5. \A x \in Tokens \ {s} : Shown(x)' = Shown(x)
  BY <1>4 DEF Shown
<1>6. Shown(s) = Cred!Nobody /\ ~ Shown(s).in
  BY <1>3 DEF Shown, Cred!Nobody
<1>7. CASE r \in behind
  <2>1. Shown(s)' = Cred!Nobody
    BY <1>4, <1>7 DEF Shown, Cred!Nobody
  <2> QED BY <1>2, <1>5, <1>6, <2>1, NothingSeen
<1>8. CASE r \notin behind
  <2>1. req[r].pw = users[u].pw
    BY <1>8 DEF AuthInv, ReadingsHold, SignIn
  <2>2. Shown(s)' = Cred!Visit(u, users[u].pw, FALSE)
    BY <1>4, <1>8, <2>1 DEF Shown, Cred!Visit
  <2>3. Cred!Enter(u, s)
    BY <1>1, <1>2, <1>5, <1>6, <2>2, CredentialsStay DEF Cred!Enter
  <2> QED BY <1>1, <2>3 DEF Cred!CredNext
<1> QED BY <1>7, <1>8

(* A setup enrols a secret where there is none.                               *)
LEMMA SetupEnrols ==
  ASSUME TypeOK, AuthInv, NEW r \in Requests, NEW k \in Secrets, Setup(r, k)
  PROVE  Cred!CredNext
<1> DEFINE u == req[r].user
<1>1. req[r] \in Request /\ u \in Users
  BY RequestFields DEF Setup, TypeOK
<1>2. \A v \in Users : /\ users'[v].enrolled = users[v].enrolled
                       /\ users'[v].pw = users[v].pw
                       /\ users'[v].secret = IF v = u THEN k ELSE users[v].secret
  BY <1>1 DEF Setup, TypeOK, UserRow
<1>3. \A s \in Tokens : Shown(s)' = Shown(s)
  BY DEF Setup, Shown
<1>4. Cred!Enrol(u, k)
  BY <1>1, <1>2, <1>3 DEF Cred!Enrol, Setup
<1> QED BY <1>1, <1>4 DEF Cred!CredNext

(* A good code proves the second factor, to its own user's session if that    *)
(* is still there.                                                            *)
LEMMA VerifyProves ==
  ASSUME TypeOK, AuthInv, NEW r \in Requests, NEW t \in 1..MaxNow + 1, Verify(r, t)
  PROVE  Cred!CredNext
<1>0. req[r] \in Request /\ req[r].user \in Users /\ req[r].token \in Tokens
  BY RequestFields DEF Verify, TypeOK
<1>1. PICK u \in Users, s \in Tokens : u = req[r].user /\ s = req[r].token
  BY <1>0
<1>2. \A v \in Users :
        /\ users'[v].pw = users[v].pw /\ users'[v].secret = users[v].secret
        /\ users'[v].enrolled = IF v = u THEN TRUE ELSE users[v].enrolled
  BY <1>1 DEF Verify, TypeOK, UserRow
<1>3. users[u].secret # NoSecret /\ \A x \in accepted[u] : x < t
  <2>1. /\ users[u].secret # NoSecret
        /\ users[u].step \in Nat /\ users[u].step < t /\ t \in Nat
    BY <1>1 DEF Verify, TypeOK, UserRow
  <2>2. \A x \in accepted[u] : x \in Nat /\ x <= users[u].step
    BY <1>1 DEF AuthInv, CodesAreBehind, TypeOK
  <2> QED BY <2>1, <2>2
<1>4. accepted' = [accepted EXCEPT ![u] = @ \cup {t}] /\ late' = late
  BY <1>1 DEF Verify
<1>5. \/ \A x \in Tokens : Shown(x)' = Shown(x)
      \/ /\ Shown(s).in /\ Shown(s).user = u
         /\ \A x \in Tokens \ {s} : Shown(x)' = Shown(x)
         /\ Shown(s)' = Cred!Visit(u, Shown(s).pw, TRUE)
  <2>1. CASE ~ sessions[s].live
    BY <1>1, <1>4, <2>1 DEF Verify, Shown
  <2>2. CASE sessions[s].live
    <3> DEFINE new == [sessions[s] EXCEPT !.ok = TRUE, !.wrong = 0]
    <3>1. sessions[s] \in Session
      BY <1>1, <2>2, LiveSession
    <3>2. /\ new.live /\ new.user = sessions[s].user
          /\ new.pw = sessions[s].pw /\ new.ok = TRUE
      BY <3>1 DEF Session
    <3>3. sessions' = [sessions EXCEPT ![s] = new]
      BY <1>1, <2>2 DEF Verify
    <3> HIDE DEF new
    <3>4. sessions'[s] = new /\ \A x \in Tokens \ {s} : sessions'[x] = sessions[x]
      BY <1>1, <3>3 DEF TypeOK
    <3>5. \A x \in Tokens \ {s} : Shown(x)' = Shown(x)
      BY <1>4, <3>4 DEF Shown
    <3>6. CASE s \in late
      <4>1. Shown(s)' = Shown(s)
        BY <1>4, <3>6 DEF Shown
      <4> QED BY <3>5, <4>1
    <3>7. CASE s \notin late
      <4>1. Shown(s).in /\ Shown(s).user = u /\ Shown(s).pw = sessions[s].pw
        <5>1. sessions[s].user = u
          BY <1>1, <2>2 DEF AuthInv, TokensAreOnesOwn, Verify
        <5> QED BY <2>2, <3>7, <5>1 DEF Shown
      <4>2. Shown(s)' = [in |-> TRUE, user |-> new.user, pw |-> new.pw, full |-> new.ok]
        BY <1>4, <3>2, <3>4, <3>7 DEF Shown
      <4>3. new.user = u /\ new.pw = sessions[s].pw /\ new.ok = TRUE
        BY <1>1, <2>2, <3>2 DEF AuthInv, TokensAreOnesOwn, Verify
      <4>4. Shown(s)' = Cred!Visit(u, Shown(s).pw, TRUE)
        BY Zenon, <4>1, <4>2, <4>3 DEF Cred!Visit
      <4> QED BY <3>5, <4>1, <4>4
    <3> QED BY <3>6, <3>7
  <2> QED BY <2>1, <2>2
<1>6. Cred!Prove(u, t)
  <2> DEFINE Door == [x \in Tokens |-> Shown(x)]
  <2>1. \/ Door' = Door
        \/ /\ Cred!BelongsTo(s, u)
           /\ Door' = [Door EXCEPT ![s] = Cred!Visit(u, @.pw, TRUE)]
    <3>1. CASE \A x \in Tokens : Shown(x)' = Shown(x)
      BY <3>1
    <3>2. CASE /\ Shown(s).in /\ Shown(s).user = u
               /\ \A x \in Tokens \ {s} : Shown(x)' = Shown(x)
               /\ Shown(s)' = Cred!Visit(u, Shown(s).pw, TRUE)
      <4>1. Cred!BelongsTo(s, u)
        BY <1>1, <3>2 DEF Cred!BelongsTo
      <4> DEFINE visit == Cred!Visit(u, Shown(s).pw, TRUE)
      <4>2. \A x \in Tokens : Shown(x)' = IF x = s THEN visit ELSE Shown(x)
        <5>1. \A x \in Tokens : x = s => Shown(x)' = visit
          BY Zenon, <3>2
        <5> QED BY <3>2, <5>1
      <4> HIDE DEF visit
      <4>3. Door' = [Door EXCEPT ![s] = visit]
        BY <1>1, <4>2
      <4>4. Door[s] = Shown(s)
        BY <1>1
      <4> QED BY <4>1, <4>3, <4>4 DEF visit
    <3> QED BY <1>5, <3>1, <3>2
  <2>2. [v \in Users |-> users[v].enrolled]'
          = [[v \in Users |-> users[v].enrolled] EXCEPT ![u] = TRUE]
    BY <1>1, <1>2
  <2>3. /\ [v \in Users |-> users[v].pw]' = [v \in Users |-> users[v].pw]
        /\ [v \in Users |-> users[v].secret]' = [v \in Users |-> users[v].secret]
    BY <1>2
  <2> QED BY <1>1, <1>3, <1>4, <2>1, <2>2, <2>3 DEF Cred!Prove
<1> QED BY <1>1, <1>6 DEF Cred!CredNext

(* Whatever ends the sessions of a user empties the door of them.             *)
LEMMA WithoutIsSeen ==
  ASSUME NEW u, NEW x \in Tokens,
         sessions'[x] = WithoutSessionsOf(u)[x], x \in late' <=> x \in late
  PROVE  Shown(x)' = Cred!DoorWithout(u)[x]
<1>1. CASE Shown(x).in /\ Shown(x).user = u
  <2>1. sessions[x].live /\ sessions[x].user = u
    BY <1>1, Unseen
  <2>2. ~ sessions'[x].live
    BY <2>1 DEF WithoutSessionsOf, Ended
  <2> QED BY <1>1, <2>2 DEF Shown, Cred!DoorWithout, Cred!BelongsTo, Cred!Nobody
<1>2. CASE ~ Shown(x).in
  <2>1. ~ sessions'[x].live \/ x \in late'
    BY <1>2, Unseen DEF WithoutSessionsOf, Ended
  <2>2. Shown(x)' = Cred!Nobody
    BY <2>1 DEF Shown, Cred!Nobody
  <2> QED BY <1>2, <2>2, Unseen DEF Cred!DoorWithout, Cred!BelongsTo
<1>3. CASE Shown(x).in /\ Shown(x).user # u
  <2>1. sessions'[x] = sessions[x]
    BY <1>3, Unseen DEF WithoutSessionsOf
  <2> QED BY <1>3, <2>1 DEF Shown, Cred!DoorWithout, Cred!BelongsTo
<1> QED BY <1>1, <1>2, <1>3

LEMMA ResetPasswordTakes ==
  ASSUME TypeOK, NEW u \in Users, NEW pw \in Passwords, ResetPassword(u, pw)
  PROVE  Cred!CredNext
<1>1. \A v \in Users : /\ users'[v].pw = IF v = u THEN pw ELSE users[v].pw
                       /\ users'[v].secret = users[v].secret
                       /\ users'[v].enrolled = users[v].enrolled
  BY DEF ResetPassword, TypeOK, UserRow
<1>2. \A x \in Tokens : Shown(x)' = Cred!DoorWithout(u)[x]
  BY WithoutIsSeen DEF ResetPassword
<1>3. Cred!TakePassword(u, pw)
  <2>1. pw # users[u].pw /\ accepted' = accepted
    BY DEF ResetPassword, Unmoved
  <2>2. [x \in Tokens |-> Shown(x)]' = Cred!DoorWithout(u)
    BY <1>2 DEF Cred!DoorWithout
  <2> QED BY <1>1, <2>1, <2>2 DEF Cred!TakePassword
<1> QED BY <1>3 DEF Cred!CredNext

LEMMA ResetMfaTakes ==
  ASSUME TypeOK, NEW u \in Users, ResetMfa(u)
  PROVE  Cred!CredNext
<1>1. \A v \in Users : /\ users'[v].secret = IF v = u THEN NoSecret ELSE users[v].secret
                       /\ users'[v].enrolled = IF v = u THEN FALSE ELSE users[v].enrolled
                       /\ users'[v].pw = users[v].pw
  BY DEF ResetMfa, TypeOK, UserRow
<1>2. \A x \in Tokens : Shown(x)' = Cred!DoorWithout(u)[x]
  BY WithoutIsSeen DEF ResetMfa
<1>3. Cred!TakeSecret(u)
  <2>1. users[u].secret # NoSecret /\ accepted' = [accepted EXCEPT ![u] = {}]
    BY DEF ResetMfa
  <2>2. [x \in Tokens |-> Shown(x)]' = Cred!DoorWithout(u)
    BY <1>2 DEF Cred!DoorWithout
  <2> QED BY <1>1, <2>1, <2>2 DEF Cred!TakeSecret
<1> QED BY <1>3 DEF Cred!CredNext

(* A change of password ends the user's sessions; the new one is seen unless   *)
(* the request had been overtaken, when the change is a reset to the door.     *)
LEMMA ChangePasswordChanges ==
  ASSUME TypeOK, AuthInv, NEW r \in Requests, NEW pw \in Passwords,
         NEW s \in Tokens, ChangePassword(r, pw, s)
  PROVE  Cred!CredNext
<1>0. req[r] \in Request /\ req[r].user \in Users
  BY RequestFields DEF ChangePassword, TypeOK
<1>1. PICK u \in Users : u = req[r].user
  BY <1>0
<1>2. \A v \in Users : /\ users'[v].pw = IF v = u THEN pw ELSE users[v].pw
                       /\ users'[v].secret = users[v].secret
                       /\ users'[v].enrolled = users[v].enrolled
  BY <1>1 DEF ChangePassword, TypeOK, UserRow
<1>3. /\ \A x \in Tokens \ {s} : /\ sessions'[x] = WithoutSessionsOf(u)[x]
                                 /\ x \in late' <=> x \in late
      /\ sessions'[s] = [live |-> TRUE, user |-> u, ok |-> TRUE, wrong |-> 0, pw |-> pw]
      /\ s \in late' <=> r \in behind
  BY <1>1 DEF ChangePassword, WithoutSessionsOf
<1>4. \A x \in Tokens \ {s} : Shown(x)' = Cred!DoorWithout(u)[x]
  <2>1. ASSUME NEW x \in Tokens, x # s PROVE Shown(x)' = Cred!DoorWithout(u)[x]
    <3>1. sessions'[x] = WithoutSessionsOf(u)[x]
      BY Zenon, <1>3, <2>1
    <3>2. x \in late' <=> x \in late
      BY <2>1 DEF ChangePassword
    <3> QED BY <3>1, <3>2, WithoutIsSeen
  <2> QED BY <2>1
<1>5. Shown(s).in => Shown(s).user = u
  BY <1>1, Unseen DEF ChangePassword, FreshToken, AuthInv, TokensAreOnesOwn
<1>6. pw # users[u].pw /\ accepted' = accepted
  BY <1>1 DEF ChangePassword, Unmoved
<1>7. CASE r \in behind
  <2>1. Shown(s)' = Cred!Nobody
    BY <1>3, <1>7 DEF Shown, Cred!Nobody
  <2>2. Cred!DoorWithout(u)[s] = Cred!Nobody
    BY <1>5, Unseen DEF Cred!DoorWithout, Cred!BelongsTo
  <2>3. Cred!TakePassword(u, pw)
    BY <1>1, <1>2, <1>4, <1>6, <2>1, <2>2 DEF Cred!TakePassword, Cred!DoorWithout
  <2> QED BY <1>1, <2>3 DEF Cred!CredNext
<1>8. CASE r \notin behind
  <2>1. Shown(s)' = Cred!Visit(u, pw, TRUE)
    BY <1>3, <1>8 DEF Shown, Cred!Visit
  <2>2. users[u].enrolled
    BY <1>1, <1>8 DEF AuthInv, ReadingsHold, ChangePassword
  <2>3. Cred!Change(u, pw, s)
    <3> DEFINE visit == Cred!Visit(u, pw, TRUE)
               rest == Cred!DoorWithout(u)
    <3>1. \A x \in Tokens : Shown(x)' = IF x = s THEN visit ELSE rest[x]
      <4>1. \A x \in Tokens : x = s => Shown(x)' = visit
        BY Zenon, <2>1
      <4> QED BY <1>4, <4>1
    <3>2. rest = [x \in Tokens |-> rest[x]]
      BY DEF Cred!DoorWithout
    <3> HIDE DEF visit, rest
    <3>3. [x \in Tokens |-> Shown(x)]' = [rest EXCEPT ![s] = visit]
      BY <3>1, <3>2
    <3>4. Shown(s).in => Cred!BelongsTo(s, u)
      BY <1>5 DEF Cred!BelongsTo
    <3> QED BY <1>1, <1>2, <1>6, <2>2, <3>3, <3>4 DEF Cred!Change, visit, rest
  <2> QED BY <1>1, <2>3 DEF Cred!CredNext
<1> QED BY <1>7, <1>8

LEMMA StepsOfTheCredentials ==
  ASSUME TypeOK, AuthInv, [Next]_vars
  PROVE  Cred!CredNext
<1>1. ASSUME NEW r \in Requests, RequestStep(r) PROVE Cred!CredNext
  BY <1>1, LoginReadKeeps, QuietKeeps, WriteFailureKeeps, VerifyFailsKeeps,
     ResolveKeeps, QuietLeaves, SignInEnters, SetupEnrols, VerifyProves,
     ChangePasswordChanges DEF RequestStep
<1>2. ASSUME NEW u \in Users, AdminStep(u) PROVE Cred!CredNext
  BY <1>2, ResetPasswordTakes, ResetMfaTakes, UnlockKeeps, SetActiveKeeps,
     QuietLeaves DEF AdminStep
<1> QED BY <1>1, <1>2, QuietKeeps, QuietLeaves DEF Next

(* Whatever the requests have read and however they interleave, every step is *)
(* one that Credentials allows (auth.py:168-196, mfa.py:131-185,              *)
(* admin.py:624-647).                                                         *)
THEOREM ImplementsCredentialsHolds == Spec => ImplementsCredentials
<1>1. Init => Cred!CredInit
  <2> SUFFICES ASSUME Init PROVE Cred!CredInit
    OBVIOUS
  <2>1. \A u \in Users : /\ users[u].pw \in Passwords /\ users[u].secret = NoSecret
                         /\ users[u].enrolled = FALSE
    BY DEF Init, UserRow
  <2>2. \A s \in Tokens : Shown(s) = Cred!Nobody
    BY DEF Init, Shown, Ended, Cred!Nobody
  <2> QED BY <2>1, <2>2 DEF Init, Cred!CredInit
<1>2. TypeOK /\ AuthInv /\ [Next]_vars => [Cred!CredNext]_(Cred!credentialVars)
  BY StepsOfTheCredentials
<1> QED BY <1>1, <1>2, TypeCorrect, AuthInvHolds, PTL
        DEF Spec, ImplementsCredentials, Cred!CredSpec
=============================================================================
