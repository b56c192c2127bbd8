---------------------------- MODULE ProcessProofs ----------------------------
(* Proofs about what lives in the web application's process: the limiter and   *)
(* the indexer's thread (Server), and the listener, sessions and supervisor of *)
(* the SFTP feed (SftpFeed).                                                  *)
EXTENDS Server, SftpFeed, FiniteSetTheorems, TLAPS

USE ServerAssumption

-----------------------------------------------------------------------------
(* The process                                                               *)

(* Every state of the process's memory is well formed (security.py:142-167,    *)
(* indexer.py:241-280).                                                       *)
THEOREM ServerTypeCorrect == ServerSpec => []ServerTypeOK
<1>1. ServerInit => ServerTypeOK
  <2> SUFFICES ASSUME ServerInit PROVE ServerTypeOK
    OBVIOUS
  <2>1. hits \in [Ips -> Nat] /\ req \in [Requests -> {NoWork} \cup Attempt \cup Change]
    BY DEF ServerInit
  <2>2. changes \in 0..MaxChanges /\ restarts \in 0..MaxRestarts
    BY DEF ServerInit
  <2>3. committed \in SUBSET Changes /\ unheard \in SUBSET Changes
        /\ wake \in BOOLEAN /\ stop \in BOOLEAN
    BY DEF ServerInit
  <2> QED BY <2>1, <2>2, <2>3 DEF ServerInit, ServerTypeOK
<1>2. ServerTypeOK /\ [ServerNext]_serverVars => ServerTypeOK'
  <2> SUFFICES ASSUME ServerTypeOK, [ServerNext]_serverVars PROVE ServerTypeOK'
    OBVIOUS
  <2> USE DEF ServerTypeOK, Scheduled, Threaded
  <2>1. ASSUME NEW r \in Requests, NEW ip \in Ips, BeginAttempt(r, ip)
        PROVE  ServerTypeOK'
    BY <2>1 DEF BeginAttempt, Turn, Attempt
  <2>2. ASSUME NEW r \in Requests, AttemptFails(r) \/ AttemptEnds(r)
        PROVE  ServerTypeOK'
    BY <2>2 DEF AttemptFails, AttemptEnds, Turn, NoWork, Attempt, Change
  <2>3. ASSUME NEW r \in Requests, NEW quiet \in BOOLEAN, Write(r, quiet)
        PROVE  ServerTypeOK'
    <3>1. changes + 1 \in Changes
      BY <2>3 DEF Write, Changes
    <3> QED BY <2>3, <3>1 DEF Write, Turn, Change, Changes
  <2>4. ASSUME NEW r \in Requests, Trigger(r) \/ Commit(r) \/ RollBack(r)
        PROVE  ServerTypeOK'
    <3>1. req[r].pc \in {"written", "triggered"} => req[r] \in Change
      BY DEF NoWork, Attempt, Change
    <3>2. ASSUME Trigger(r) PROVE ServerTypeOK'
      <4> DEFINE n == [req[r] EXCEPT !.pc = "triggered"]
      <4>1. n \in Change
        BY <3>1, <3>2 DEF Trigger, Change
      <4>2. req' = [req EXCEPT ![r] = n]
        BY <3>2 DEF Trigger, Turn
      <4> HIDE DEF n
      <4> QED BY <3>2, <4>1, <4>2 DEF Trigger
    <3>3. ASSUME Commit(r) PROVE ServerTypeOK'
      <4>1. req[r].change \in Changes
        BY <3>1, <3>3 DEF Commit, MayCommit, Change
      <4> QED BY <3>3, <4>1 DEF Commit, Turn
    <3>4. RollBack(r) => ServerTypeOK'
      BY DEF RollBack, Turn
    <3> QED BY <2>4, <3>2, <3>3, <3>4
  <2>5. ASSUME NEW ip \in Ips, HitsExpire(ip) PROVE ServerTypeOK'
    <3>1. Cardinality(Requests) \in Nat
      BY FS_CardinalityType
    <3> QED BY <2>5, <3>1 DEF HitsExpire
  <2>6. CASE ThreadStep
    <3>1. InTheAir \subseteq Changes
      BY DEF InTheAir, NoWork, Attempt, Change
    <3> QED BY <2>6, <3>1 DEF ThreadStep, ThreadStarts, ThreadTests, PassReads, PassEnds,
         WaitEnds, ThreadClears
  <2>7. CASE Stop \/ UNCHANGED serverVars
    BY <2>7 DEF Stop, serverVars
  <2>8. CASE Restart
    <3>1. hits' \in [Ips -> Nat] /\ req' \in [Requests -> {NoWork} \cup Attempt \cup Change]
      BY <2>8 DEF Restart
    <3>2. restarts' \in 0..MaxRestarts
      BY <2>8 DEF Restart
    <3> QED BY <2>8, <3>1, <3>2 DEF Restart
  <2> QED BY <2>1, <2>2, <2>3, <2>4, <2>5, <2>6, <2>7, <2>8 DEF ServerNext
<1> QED BY <1>1, <1>2, PTL DEF ServerSpec

LEMMA TryingIsFinite ==
  ASSUME NEW ip \in Ips
  PROVE  /\ IsFiniteSet(Trying(ip)) /\ Cardinality(Trying(ip)) \in Nat
         /\ Cardinality(Requests) \in Nat
         /\ Cardinality(Trying(ip)) <= Cardinality(Requests)
BY FS_Subset, FS_CardinalityType DEF Trying

(* A thread that ends its attempt makes the others' number one smaller; no other *)
(* turn but BeginAttempt makes it larger.                                      *)
LEMMA TryingShrinks ==
  ASSUME NEW ip \in Ips, Trying(ip)' \subseteq Trying(ip)
  PROVE  /\ Cardinality(Trying(ip)') \in Nat
         /\ Cardinality(Trying(ip)') <= Cardinality(Trying(ip))
BY TryingIsFinite, FS_Subset, FS_CardinalityType

(* However many requests were let in before the first of them failed, an address *)
(* is charged with fewer attempts than the limit and one for each thread          *)
(* (security.py:155-166, auth.py:86-107).                                      *)
THEOREM LimiterBoundHolds == ServerSpec => []LimiterBound
<1>0. Cardinality(Requests) \in Nat
  BY FS_CardinalityType
<1>1. ServerInit => LimiterBound
  <2> SUFFICES ASSUME ServerInit, NEW ip \in Ips
               PROVE  hits[ip] + Cardinality(Trying(ip)) < MaxAttempts + Cardinality(Requests)
    BY DEF LimiterBound
  <2>1. Trying(ip) = {} /\ hits[ip] = 0
    BY DEF ServerInit, Trying, NoWork
  <2> QED BY <1>0, <2>1, FS_EmptySet
<1>2. ServerTypeOK /\ LimiterBound /\ [ServerNext]_serverVars => LimiterBound'
  <2> SUFFICES ASSUME ServerTypeOK, LimiterBound, [ServerNext]_serverVars, NEW ip \in Ips
               PROVE  hits'[ip] + Cardinality(Trying(ip)')
                        < MaxAttempts + Cardinality(Requests)
    BY DEF LimiterBound
  <2>0. /\ hits[ip] + Cardinality(Trying(ip)) < MaxAttempts + Cardinality(Requests)
        /\ hits[ip] \in Nat /\ Cardinality(Trying(ip)) \in Nat
    BY TryingIsFinite DEF LimiterBound, ServerTypeOK
  <2> DEFINE Goal == hits'[ip] + Cardinality(Trying(ip)')
                       < MaxAttempts + Cardinality(Requests)
  <2>1. ASSUME hits'[ip] \in Nat, hits'[ip] <= hits[ip], Trying(ip)' \subseteq Trying(ip)
        PROVE  Goal
    BY <1>0, <2>0, <2>1, TryingShrinks
  <2>2. ASSUME NEW r \in Requests, NEW a \in Ips, BeginAttempt(r, a) PROVE Goal
    <3>1. hits' = hits
      BY <2>2 DEF BeginAttempt
    <3>2. CASE a = ip
      <4>1. hits[ip] < MaxAttempts
        BY <2>2, <3>2 DEF BeginAttempt, Allowed
      <4>2. Cardinality(Trying(ip)') \in Nat
            /\ Cardinality(Trying(ip)') <= Cardinality(Requests)
        BY FS_Subset, FS_CardinalityType DEF Trying
      <4> QED BY <1>0, <2>0, <3>1, <4>1, <4>2
    <3>3. CASE a # ip
      <4>1. Trying(ip)' \subseteq Trying(ip)
        BY <2>2, <3>3 DEF BeginAttempt, Turn, Trying, ServerTypeOK
      <4> QED BY <2>0, <2>1, <3>1, <4>1
    <3> QED BY <3>2, <3>3
  <2>3. ASSUME NEW r \in Requests, AttemptFails(r) PROVE Goal
    <3>1. CASE req[r].ip = ip
      <4>1. hits'[ip] = hits[ip] + 1 /\ r \in Trying(ip)
        BY <2>3, <3>1 DEF AttemptFails, Trying, ServerTypeOK
      <4>2. Trying(ip)' = Trying(ip) \ {r}
        BY <2>3, <3>1 DEF AttemptFails, Trying, Turn, NoWork, ServerTypeOK
      <4>3. Cardinality(Trying(ip)') = Cardinality(Trying(ip)) - 1
        <5>1. IsFiniteSet(Trying(ip))
          BY TryingIsFinite
        <5>2. Cardinality(Trying(ip) \ {r}) = Cardinality(Trying(ip)) - 1
          BY <4>1, <5>1, FS_RemoveElement
        <5> QED BY <4>2, <5>2
      <4> QED BY <1>0, <2>0, <4>1, <4>3
    <3>2. CASE req[r].ip # ip
      <4>1. hits'[ip] = hits[ip] /\ Trying(ip)' \subseteq Trying(ip)
        BY <2>3, <3>2 DEF AttemptFails, Trying, Turn, NoWork, ServerTypeOK
      <4> QED BY <2>0, <2>1, <4>1
    <3> QED BY <3>1, <3>2
  <2>4. ASSUME NEW r \in Requests,
               AttemptEnds(r) \/ (\E quiet \in BOOLEAN : Write(r, quiet))
                 \/ Trigger(r) \/ Commit(r) \/ RollBack(r)
        PROVE  Goal
    <3>1. hits' = hits
      BY <2>4 DEF AttemptEnds, Write, Trigger, Commit, RollBack
    <3>2. Trying(ip)' \subseteq Trying(ip)
      <4>1. \A o \in Requests \ {r} : req'[o] = req[o]
        BY <2>4 DEF AttemptEnds, Write, Trigger, Commit, RollBack, Turn, ServerTypeOK
      <4>2. req'[r].pc # "attempt"
        <5>1. Trigger(r) => req[r] \in Change
          BY DEF Trigger, ServerTypeOK, NoWork, Attempt, Change
        <5> QED BY <2>4, <5>1 DEF AttemptEnds, Write, Trigger, Commit, RollBack, Turn,
             NoWork, ServerTypeOK, Change
      <4> QED BY <4>1, <4>2 DEF Trying
    <3> QED BY <2>0, <2>1, <3>1, <3>2
  <2>5. ASSUME NEW a \in Ips, HitsExpire(a) PROVE Goal
    <3>1. Trying(ip)' \subseteq Trying(ip)
      BY <2>5 DEF HitsExpire, Trying
    <3>2. hits'[ip] \in Nat /\ hits'[ip] <= hits[ip]
      BY <1>0, <2>0, <2>5 DEF HitsExpire, ServerTypeOK
    <3> QED BY <2>1, <3>1, <3>2
  <2>6. CASE ThreadStep \/ Stop \/ UNCHANGED serverVars
    <3>1. hits' = hits /\ req' = req
      BY <2>6 DEF ThreadStep, ThreadStarts, ThreadTests, PassReads, PassEnds, WaitEnds,
         ThreadClears, Stop, Threaded, serverVars
    <3>2. Trying(ip)' \subseteq Trying(ip)
      BY <3>1 DEF Trying
    <3> QED BY <2>0, <2>1, <3>1, <3>2
  <2>7. CASE Restart
    <3>1. hits'[ip] = 0 /\ Trying(ip)' \subseteq Trying(ip)
      BY <2>7 DEF Restart, Trying, NoWork
    <3> QED BY <2>0, <2>1, <3>1
  <2> QED BY <2>2, <2>3, <2>4, <2>5, <2>6, <2>7 DEF ServerNext
<1> QED BY <1>1, <1>2, ServerTypeCorrect, PTL DEF ServerSpec

(* A trigger whose request is still to commit counts as much as the commit:     *)
(* either a pass that has read the customers without it is on record, or the     *)
(* thread is still to read them.                                              *)
Reading == {"asleep", "test", "read", "clear", "ended"}
TriggersStand ==
  \A r \in Requests :
    req[r].pc = "triggered" => req[r].change \in unheard \/ wake \/ thread \in Reading

(* What is committed after its request woke the thread is read by the pass it    *)
(* asked for or by a later one, not left to the interval, unless that pass had   *)
(* already read the customers (indexer.py:256-280, admin.py:136, 183).          *)
THEOREM TriggersAreNotLostHolds == ServerSpec => []TriggersAreNotLost
<1> DEFINE Inv == TriggersAreNotLost /\ TriggersStand
<1>1. ServerInit => Inv
  BY DEF ServerInit, TriggersAreNotLost, TriggersStand, NoWork
<1>2. ServerTypeOK /\ Inv /\ [ServerNext]_serverVars => Inv'
  <2> SUFFICES ASSUME ServerTypeOK, TriggersAreNotLost, TriggersStand,
                      [ServerNext]_serverVars
               PROVE  Inv'
    OBVIOUS
  <2> USE DEF TriggersAreNotLost, TriggersStand, Reading
  <2>1. ASSUME NEW r \in Requests,
               \/ \E ip \in Ips : BeginAttempt(r, ip)
               \/ AttemptFails(r) \/ AttemptEnds(r)
               \/ \E quiet \in BOOLEAN : Write(r, quiet)
               \/ RollBack(r)
        PROVE  Inv'
    <3>1. /\ UNCHANGED <<wake, thread, committed, unheard>>
          /\ \A o \in Requests \ {r} : req'[o] = req[o]
      BY <2>1 DEF BeginAttempt, AttemptFails, AttemptEnds, Write, RollBack, Turn,
         Scheduled, ServerTypeOK
    <3>2. req'[r].pc # "triggered"
      BY <2>1 DEF BeginAttempt, AttemptFails, AttemptEnds, Write, RollBack, Turn, NoWork,
         ServerTypeOK
    <3> QED BY <3>1, <3>2
  <2>2. ASSUME NEW r \in Requests, Trigger(r) PROVE Inv'
    BY <2>2 DEF Trigger
  <2>3. ASSUME NEW r \in Requests, Commit(r) PROVE Inv'
    <3>1. \A o \in Requests : req'[o].pc = "triggered" => req'[o] = req[o]
      BY <2>3 DEF Commit, Turn, NoWork, ServerTypeOK
    <3>2. TriggersStand'
      BY <2>3, <3>1 DEF Commit
    <3>3. TriggersAreNotLost'
      BY <2>3 DEF Commit, MayCommit
    <3> QED BY <3>2, <3>3
  <2>4. CASE PassReads
    BY <2>4 DEF PassReads, InTheAir, Threaded
  <2>5. CASE ThreadStarts \/ ThreadTests \/ PassEnds \/ WaitEnds \/ ThreadClears
    BY <2>5 DEF ThreadStarts, ThreadTests, PassEnds, WaitEnds, ThreadClears, Threaded
  <2>6. CASE Stop \/ Restart \/ UNCHANGED serverVars
    BY <2>6 DEF Stop, Restart, Threaded, serverVars, NoWork
  <2>7. ASSUME NEW ip \in Ips, HitsExpire(ip) PROVE Inv'
    BY <2>7 DEF HitsExpire, Scheduled
  <2> QED BY <2>1, <2>2, <2>3, <2>4, <2>5, <2>6, <2>7 DEF ServerNext, ThreadStep
<1> QED BY <1>1, <1>2, ServerTypeCorrect, PTL DEF ServerSpec

-----------------------------------------------------------------------------
(* The SFTP feed                                                             *)

RowOrNone == {NoAccount} \cup Account
Live == [at: {"accepted", "made", "open", "trying", "in"}, ip: Addrs,
         tunnel: BOOLEAN, acct: {NoCopy} \cup Copied, late: BOOLEAN]

LEMMA LiveOnes ==
  ASSUME FeedTypeOK, NEW c \in Conns, conns[c] # Free
  PROVE  conns[c] \in Live
BY DEF FeedTypeOK, Conn, Live

LEMMA FreeIsFree ==
  ASSUME FeedTypeOK, NEW c \in Conns
  PROVE  (conns[c] = Free) <=> (conns[c].at = "free")
BY DEF FeedTypeOK, Conn, Free

(* Every step that does not begin or break a pass only shrinks the ghost.       *)
LEMMA StaleShrinks ==
  ASSUME StillStale PROVE stale' \subseteq stale
BY DEF StillStale

(* The states of the feed that the admin page can save are well formed.         *)
LEMMA EditsTyped ==
  ASSUME FeedTypeOK, Edit, accounts' \in [AccountIds -> RowOrNone], settings' \in Settings
  PROVE  FeedTypeOK'
<1>1. stale' \in SUBSET (Conns \X Reasons)
  BY StaleShrinks DEF Edit, FeedTypeOK
<1>2. edits' \in 0..MaxEdits
  BY FeedAssumption DEF Edit, FeedTypeOK
<1> QED BY <1>1, <1>2 DEF Edit, FeedTypeOK, RowOrNone

LEMMA SavesTyped ==
  ASSUME FeedTypeOK,
         \/ \E a \in Forms : CreateSftp(a) \/ \E i \in AccountIds : UpdateSftp(i, a)
         \/ \E i \in AccountIds : DeleteSftp(i)
         \/ \E k \in FeedCustomers : RemoveFeedCustomer(k)
         \/ \E s \in Settings : UpdateSftpServer(s)
  PROVE  FeedTypeOK'
<1>1. accounts \in [AccountIds -> RowOrNone] /\ settings \in Settings
  BY DEF FeedTypeOK, RowOrNone
<1>2. Forms \subseteq RowOrNone
  BY FeedAssumption DEF RowOrNone
<1>3. ASSUME NEW a \in Forms, CreateSftp(a) PROVE FeedTypeOK'
  BY <1>1, <1>2, <1>3, EditsTyped DEF CreateSftp
<1>4. ASSUME NEW a \in Forms, NEW i \in AccountIds, UpdateSftp(i, a) PROVE FeedTypeOK'
  BY <1>1, <1>2, <1>4, EditsTyped DEF UpdateSftp
<1>5. ASSUME NEW i \in AccountIds, DeleteSftp(i) PROVE FeedTypeOK'
  BY <1>1, <1>5, EditsTyped DEF DeleteSftp, RowOrNone
<1>6. ASSUME NEW k \in FeedCustomers, RemoveFeedCustomer(k) PROVE FeedTypeOK'
  <2>1. accounts' \in [AccountIds -> RowOrNone]
    BY <1>1, <1>6 DEF RemoveFeedCustomer, RowOrNone
  <2> QED BY <1>1, <1>6, <2>1, EditsTyped DEF RemoveFeedCustomer
<1>7. ASSUME NEW s \in Settings, UpdateSftpServer(s) PROVE FeedTypeOK'
  BY <1>1, <1>7, EditsTyped DEF UpdateSftpServer
<1> QED BY <1>3, <1>4, <1>5, <1>6, <1>7

(* A connection's step is typed when what it becomes is.                       *)
LEMMA BecomesTyped ==
  ASSUME FeedTypeOK, NEW c \in Conns, NEW s \in Conn, Becomes(c, s),
         fails' \in [Addrs -> 0..FailLimit]
  PROVE  FeedTypeOK'
<1>1. stale' \in SUBSET (Conns \X Reasons)
  BY StaleShrinks DEF Becomes, FeedTypeOK
<1> QED BY <1>1 DEF Becomes, FeedTypeOK

LEMMA FailedTyped ==
  ASSUME FeedTypeOK, NEW ip \in Addrs, Failed(ip, 1)
  PROVE  fails' \in [Addrs -> 0..FailLimit]
BY FeedAssumption DEF Failed, FeedTypeOK

LEMMA ConnectionsTyped ==
  ASSUME FeedTypeOK, NEW c \in Conns,
         \/ \E ip \in Addrs : Accept(c, ip)
         \/ ConnectionMade(c) \/ ConnectionJudged(c)
         \/ \E u \in Usernames : BeginAuth(c, u)
         \/ WrongPassword(c) \/ AuthCompleted(c) \/ ConnectionLost(c)
  PROVE  FeedTypeOK'
<1> DEFINE s == conns[c]
<1>0. Free \in Conn /\ Live \subseteq Conn /\ fails \in [Addrs -> 0..FailLimit]
  BY DEF Conn, Live, FeedTypeOK
<1>1. ASSUME NEW ip \in Addrs, Accept(c, ip) PROVE FeedTypeOK'
  <2>1. [at |-> "accepted", ip |-> ip, tunnel |-> FALSE, acct |-> NoCopy,
         late |-> FALSE] \in Conn
    BY <1>0 DEF Live
  <2> QED BY <1>0, <1>1, <2>1, BecomesTyped DEF Accept
<1>2. s.at # "free" => s \in Live
  BY LiveOnes, FreeIsFree
<1>3. CASE ConnectionMade(c)
  <2> DEFINE b == Tunnelled /\ s.ip = Loopback
             n == [s EXCEPT !.at = "made", !.tunnel = b]
  <2>1. s \in Live /\ b \in BOOLEAN
    BY <1>2, <1>3 DEF ConnectionMade
  <2>2. n \in Conn
    <3> HIDE DEF b
    <3> QED BY <1>0, <2>1 DEF Live
  <2>3. Becomes(c, n) /\ UNCHANGED fails
    BY <1>3 DEF ConnectionMade
  <2> HIDE DEF n
  <2> QED BY <1>0, <2>2, <2>3, BecomesTyped
<1>4. CASE ConnectionJudged(c)
  <2> DEFINE n == [s EXCEPT !.at = "open"]
  <2>1. s \in Live
    BY <1>2, <1>4 DEF ConnectionJudged
  <2>2. n \in Conn
    BY <1>0, <2>1 DEF Live
  <2>3. (Becomes(c, n) \/ Becomes(c, Free)) /\ UNCHANGED fails
    BY <1>4 DEF ConnectionJudged
  <2> HIDE DEF n
  <2> QED BY <1>0, <2>2, <2>3, BecomesTyped
<1>5. ASSUME NEW u \in Usernames, BeginAuth(c, u) PROVE FeedTypeOK'
  <2>1. s \in Live
    BY <1>2, <1>5 DEF BeginAuth
  <2>2. ASSUME NEW a \in {NoCopy} \cup Copied
        PROVE  [s EXCEPT !.at = "trying", !.acct = a] \in Conn
    BY <1>0, <2>1, <2>2 DEF Live
  <2>3. CopyOf(u, s) \subseteq Copied
    <3>1. \A j \in ActiveNamed(u) : j \in AccountIds /\ accounts[j].cust \in FeedCustomers
      BY DEF ActiveNamed, FeedTypeOK, Account
    <3> QED BY <3>1 DEF CopyOf, Copied
  <2>4. CASE CopyOf(u, s) = {}
    <3>1. Becomes(c, [s EXCEPT !.at = "trying", !.acct = NoCopy]) /\ Failed(s.ip, 1)
      BY <1>5, <2>4 DEF BeginAuth
    <3>2. s.ip \in Addrs
      BY <2>1 DEF Live
    <3> QED BY <2>2, <3>1, <3>2, BecomesTyped, FailedTyped
  <2>5. CASE CopyOf(u, s) # {}
    <3>1. PICK a \in CopyOf(u, s) : Becomes(c, [s EXCEPT !.at = "trying", !.acct = a])
      BY <1>5, <2>5 DEF BeginAuth
    <3>2. UNCHANGED fails
      BY <1>5, <2>5 DEF BeginAuth
    <3> QED BY <1>0, <2>2, <2>3, <3>1, <3>2, BecomesTyped
  <2> QED BY <2>4, <2>5
<1>6. CASE WrongPassword(c)
  <2>1. s.ip \in Addrs
    BY <1>2, <1>6 DEF WrongPassword, Live
  <2>2. fails' \in [Addrs -> 0..FailLimit]
    BY <1>6, <2>1, FailedTyped DEF WrongPassword
  <2>3. stale' \in SUBSET (Conns \X Reasons)
    BY <1>6, StaleShrinks DEF WrongPassword, FeedTypeOK
  <2> QED BY <1>6, <2>2, <2>3 DEF WrongPassword, FeedTypeOK
<1>7. CASE AuthCompleted(c)
  <2> DEFINE n == [s EXCEPT !.at = "in"]
  <2>1. s \in Live
    BY <1>2, <1>7 DEF AuthCompleted
  <2>2. n \in Conn
    BY <1>0, <2>1 DEF Live
  <2>3. Becomes(c, n) /\ UNCHANGED fails
    BY <1>7 DEF AuthCompleted
  <2> HIDE DEF n
  <2> QED BY <1>0, <2>2, <2>3, BecomesTyped
<1>8. CASE ConnectionLost(c)
  BY <1>0, <1>8, BecomesTyped DEF ConnectionLost
<1> QED BY <1>1, <1>3, <1>4, <1>5, <1>6, <1>7, <1>8

LEMMA AbortedTyped ==
  ASSUME FeedTypeOK, NEW S \in SUBSET Conns
  PROVE  Aborted(S) \in [Conns -> Conn] /\ Closed \in [Conns -> Conn]
<1>1. Free \in Conn
  BY DEF Conn
<1>2. ASSUME NEW c \in Conns, conns[c].at = "accepted"
      PROVE  [conns[c] EXCEPT !.late = TRUE] \in Conn
  <2>1. conns[c] \in Live
    BY <1>2, LiveOnes, FreeIsFree
  <2>2. [conns[c] EXCEPT !.late = TRUE] \in Live
    BY <2>1 DEF Live
  <2> QED BY <2>2 DEF Live, Conn
<1> QED BY <1>1, <1>2 DEF Aborted, Closed, FeedTypeOK

LEMMA BeginKickTyped ==
  ASSUME FeedTypeOK, NEW table, BeginKick(table)
  PROVE  sup' \in Sup /\ stale' \in SUBSET (Conns \X Reasons)
<1> DEFINE todo == {c \in Conns : InSession(table[c])}
<1>1. \A p \in {"sleep", "kick"}, S \in SUBSET Conns :
        [sup EXCEPT !.pc = p, !.todo = S] \in Sup
  BY DEF FeedTypeOK, Sup
<1>2. sup' = [sup EXCEPT !.pc = IF todo = {} THEN "sleep" ELSE "kick", !.todo = todo]
  BY DEF BeginKick
<1>3. sup' \in Sup
  <2> HIDE DEF todo
  <2>1. todo \in SUBSET Conns
    BY DEF todo
  <2> QED BY <1>1, <1>2, <2>1
<1> QED BY <1>3 DEF BeginKick

LEMMA DoneWithTyped ==
  ASSUME FeedTypeOK, NEW c \in Conns, DoneWith(c)
  PROVE  sup' \in Sup
<1> DEFINE todo == sup.todo \ {c}
<1>1. \A p \in {"sleep", "kick"}, S \in SUBSET Conns :
        [sup EXCEPT !.pc = p, !.todo = S, !.judged = {}] \in Sup
  BY DEF FeedTypeOK, Sup
<1>2. sup' = [sup EXCEPT !.pc = IF todo = {} THEN "sleep" ELSE "kick", !.todo = todo,
                         !.judged = {}]
  BY DEF DoneWith
<1>3. todo \in SUBSET Conns
  BY DEF FeedTypeOK, Sup
<1> HIDE DEF todo
<1> QED BY <1>1, <1>2, <1>3

(* What the supervisor writes.                                                *)
LEMMA SupervisedTyped ==
  ASSUME FeedTypeOK, Supervised, sup' \in Sup, listener' \in {Down} \cup Endpoint,
         conns' \in [Conns -> Conn], faults' \in 0..MaxFaults,
         stale' \in SUBSET (Conns \X Reasons)
  PROVE  FeedTypeOK'
BY DEF Supervised, FeedTypeOK

LEMMA SupervisorTyped ==
  ASSUME FeedTypeOK, Supervise \/ SupFails
  PROVE  FeedTypeOK'
<1>0. /\ sup \in Sup /\ settings \in Settings /\ sup.want \in Settings
      /\ listener \in {Down} \cup Endpoint /\ conns \in [Conns -> Conn]
      /\ faults \in 0..MaxFaults /\ stale \in SUBSET (Conns \X Reasons)
  BY DEF FeedTypeOK, Sup
<1>1. StillStale => stale' \in SUBSET (Conns \X Reasons)
  BY <1>0, StaleShrinks
<1>2. Closed \in [Conns -> Conn] /\ \A c \in Conns : Aborted({c}) \in [Conns -> Conn]
  BY AbortedTyped
<1>3. [sup EXCEPT !.pc = "start"] \in Sup
      /\ [sup EXCEPT !.pc = "follow", !.want = settings] \in Sup
      /\ [sup EXCEPT !.pc = "sleep", !.todo = {}, !.judged = {}] \in Sup
      /\ \A c \in Conns : [sup EXCEPT !.pc = "mode", !.judged = {c}] \in Sup
  BY <1>0 DEF Sup
<1>4. CASE SupLooks
  BY <1>0, <1>1, <1>3, <1>4, SupervisedTyped DEF SupLooks
<1>5. CASE SupCloses
  BY <1>0, <1>1, <1>2, <1>3, <1>5, SupervisedTyped, BeginKickTyped DEF SupCloses
<1>6. CASE SupKeeps
  BY <1>0, <1>1, <1>3, <1>6, SupervisedTyped, BeginKickTyped DEF SupKeeps
<1>7. CASE SupStarts
  <2>1. EndpointOf(sup.want) \in Endpoint
    BY <1>0 DEF EndpointOf, ListenHost, Endpoint, Settings
  <2> QED BY <1>0, <1>7, <2>1, SupervisedTyped, BeginKickTyped DEF SupStarts
<1>8. ASSUME NEW c \in Conns, KickByAccount(c) PROVE FeedTypeOK'
  BY <1>0, <1>1, <1>2, <1>3, <1>8, SupervisedTyped, DoneWithTyped DEF KickByAccount
<1>9. ASSUME NEW c \in Conns, KickByMode(c) PROVE FeedTypeOK'
  BY <1>0, <1>1, <1>2, <1>9, SupervisedTyped, DoneWithTyped DEF KickByMode
<1>10. CASE SupFails
  <2>1. faults' \in 0..MaxFaults
    BY <1>0, <1>10, FeedAssumption DEF SupFails
  <2> QED BY <1>0, <1>3, <1>10, <2>1, SupervisedTyped DEF SupFails
<1> QED BY <1>4, <1>5, <1>6, <1>7, <1>8, <1>9, <1>10 DEF Supervise

PlansOf == [pc: {"settings", "planned", "removed"}, plan: Plan]

LEMMA WorkerTyped ==
  ASSUME FeedTypeOK, KeepRule \/ WorkerFails
  PROVE  FeedTypeOK'
<1>0. /\ fw \in {Resting} \cup PlansOf /\ rule \in {NoRule} \cup Rule
      /\ settings \in Settings /\ faults \in 0..MaxFaults
      /\ stale \in SUBSET (Conns \X Reasons)
  BY DEF FeedTypeOK, Fw, PlansOf
<1>1. fw.pc \in {"settings", "planned", "removed"} => fw \in PlansOf
  BY <1>0 DEF Resting
<1>2. ASSUME Worked, fw' \in {Resting} \cup PlansOf, rule' \in {NoRule} \cup Rule,
             faults' \in 0..MaxFaults
      PROVE  FeedTypeOK'
  BY <1>0, <1>2, StaleShrinks DEF Worked, FeedTypeOK, Fw, PlansOf
<1>3. CASE PlanSettings
  <2>1. fw' \in PlansOf
    BY <1>0, <1>3 DEF PlanSettings, PlansOf, Plan, Settings
  <2> QED BY <1>0, <1>2, <1>3, <2>1 DEF PlanSettings
<1>4. CASE PlanAddresses
  <2> DEFINE n == [fw EXCEPT !.pc = "planned", !.plan.ips = ActiveIps]
  <2>1. ActiveIps \subseteq Addrs
    BY DEF ActiveIps, FeedTypeOK, Account
  <2>2. fw \in PlansOf
    BY <1>1, <1>4 DEF PlanAddresses
  <2>3. n \in PlansOf
    <3>1. fw.plan \in Plan
      BY <2>2 DEF PlansOf
    <3>2. [fw.plan EXCEPT !.ips = ActiveIps] \in Plan
      BY <2>1, <3>1 DEF Plan
    <3> QED BY <2>2, <3>2 DEF PlansOf
  <2> HIDE DEF n
  <2> QED BY <1>0, <1>2, <1>4, <2>3 DEF PlanAddresses, n
<1>5. fw \in PlansOf => RuleOf(fw.plan) \in {NoRule} \cup Rule
  BY DEF PlansOf, Plan, RuleOf, Rule
<1>6. CASE WorkerCloses
  BY <1>0, <1>1, <1>2, <1>5, <1>6 DEF WorkerCloses
<1>7. CASE WorkerRemoves
  <2>1. [fw EXCEPT !.pc = "removed"] \in PlansOf
    BY <1>1, <1>7 DEF WorkerRemoves, PlansOf
  <2> QED BY <1>0, <1>2, <1>7, <2>1 DEF WorkerRemoves
<1>8. CASE WorkerOpens
  BY <1>0, <1>1, <1>2, <1>5, <1>8 DEF WorkerOpens
<1>9. CASE WorkerFails
  <2>1. faults' \in 0..MaxFaults
    BY <1>0, <1>9, FeedAssumption DEF WorkerFails
  <2> QED BY <1>0, <1>2, <1>9, <2>1 DEF WorkerFails
<1> QED BY <1>3, <1>4, <1>6, <1>7, <1>8, <1>9 DEF KeepRule

(* Every state of the feed is well formed (db.py:161-175, sftp.py:195-535).     *)
THEOREM FeedTypeCorrect == FeedSpec => []FeedTypeOK
<1>1. FeedInit => FeedTypeOK
  <2> SUFFICES ASSUME FeedInit PROVE FeedTypeOK
    OBVIOUS
  <2>1. accounts \in [AccountIds -> RowOrNone] /\ settings \in Settings
        /\ rule \in {NoRule} \cup Rule
    BY FeedAssumption DEF FeedInit, RowOrNone
  <2>2. conns \in [Conns -> Conn] /\ fails \in [Addrs -> 0..FailLimit]
    BY FeedAssumption DEF FeedInit, Conn
  <2>3. sup \in Sup /\ listener = Down /\ fw \in Fw /\ stale = {}
    BY <2>1 DEF FeedInit, Sup, Fw
  <2>4. edits \in 0..MaxEdits /\ faults \in 0..MaxFaults
    BY FeedAssumption DEF FeedInit
  <2> QED BY <2>1, <2>2, <2>3, <2>4 DEF FeedTypeOK, RowOrNone
<1>2. FeedTypeOK /\ [FeedNext]_feedVars => FeedTypeOK'
  <2> SUFFICES ASSUME FeedTypeOK, [FeedNext]_feedVars PROVE FeedTypeOK'
    OBVIOUS
  <2>1. ASSUME NEW ip \in Addrs, FailsForgotten(ip) PROVE FeedTypeOK'
    BY <2>1, StaleShrinks DEF FailsForgotten, FeedTypeOK
  <2>2. CASE UNCHANGED feedVars
    BY <2>2 DEF feedVars, FeedTypeOK
  <2> QED BY <2>1, <2>2, SavesTyped, ConnectionsTyped, SupervisorTyped, WorkerTyped
         DEF FeedNext
<1> QED BY <1>1, <1>2, PTL DEF FeedSpec

(* While the supervisor is about to listen nothing is listening.                *)
StartsFromNone == sup.pc = "start" => listener = Down

LEMMA BeginKickMoves ==
  ASSUME FeedTypeOK, NEW table, BeginKick(table)
  PROVE  sup'.pc \in {"sleep", "kick"}
BY DEF BeginKick, FeedTypeOK, Sup

LEMMA DoneWithMoves ==
  ASSUME FeedTypeOK, NEW c \in Conns, DoneWith(c)
  PROVE  sup'.pc \in {"sleep", "kick"} /\ sup'.todo = sup.todo \ {c}
         /\ (sup'.pc = "sleep" => sup'.todo = {})
BY DEF DoneWith, FeedTypeOK, Sup

(* A connection that goes on keeps its mark.                                   *)
LEMMA LateStays ==
  ASSUME FeedTypeOK, NEW c \in Conns,
         \/ ConnectionMade(c) \/ ConnectionJudged(c)
         \/ \E u \in Usernames : BeginAuth(c, u)
         \/ WrongPassword(c) \/ AuthCompleted(c) \/ ConnectionLost(c)
  PROVE  \A d \in Conns : conns'[d] # Free => conns[d] # Free /\ conns'[d].late = conns[d].late
<1> DEFINE s == conns[c]
           Goal == \A d \in Conns :
             conns'[d] # Free => conns[d] # Free /\ conns'[d].late = conns[d].late
<1>1. ASSUME NEW t, Becomes(c, t), s # Free, t = Free \/ t.late = s.late PROVE Goal
  BY <1>1 DEF Becomes, FeedTypeOK
<1>2. s.at # "free" => s \in Live /\ s # Free
  BY LiveOnes, FreeIsFree
<1>3. CASE ConnectionMade(c)
  <2> DEFINE b == Tunnelled /\ s.ip = Loopback
             n == [s EXCEPT !.at = "made", !.tunnel = b]
  <2>1. s \in Live /\ s # Free
    BY <1>2, <1>3 DEF ConnectionMade
  <2>2. n.late = s.late
    <3> HIDE DEF b
    <3> QED BY <2>1 DEF Live
  <2>3. Becomes(c, n)
    BY <1>3 DEF ConnectionMade
  <2> HIDE DEF n
  <2> QED BY <1>1, <2>1, <2>2, <2>3
<1>4. CASE ConnectionJudged(c)
  <2> DEFINE n == [s EXCEPT !.at = "open"]
  <2>1. s \in Live /\ s # Free
    BY <1>2, <1>4 DEF ConnectionJudged
  <2>2. n.late = s.late
    BY <2>1 DEF Live
  <2>3. Becomes(c, n) \/ Becomes(c, Free)
    BY <1>4 DEF ConnectionJudged
  <2> HIDE DEF n
  <2> QED BY <1>1, <2>1, <2>2, <2>3
<1>5. ASSUME NEW u \in Usernames, BeginAuth(c, u) PROVE Goal
  <2>1. s \in Live /\ s # Free
    BY <1>2, <1>5 DEF BeginAuth
  <2>2. \E a \in {NoCopy} \cup CopyOf(u, s) :
          Becomes(c, [s EXCEPT !.at = "trying", !.acct = a])
    BY <1>5 DEF BeginAuth
  <2>3. PICK a \in {NoCopy} \cup CopyOf(u, s) :
          Becomes(c, [s EXCEPT !.at = "trying", !.acct = a])
    BY <2>2
  <2>4. [s EXCEPT !.at = "trying", !.acct = a].late = s.late
    BY <2>1 DEF Live
  <2> QED BY <1>1, <2>1, <2>3, <2>4
<1>6. CASE WrongPassword(c)
  BY <1>6 DEF WrongPassword
<1>7. CASE AuthCompleted(c)
  <2> DEFINE n == [s EXCEPT !.at = "in"]
  <2>1. s \in Live /\ s # Free
    BY <1>2, <1>7 DEF AuthCompleted
  <2>2. n.late = s.late
    BY <2>1 DEF Live
  <2>3. Becomes(c, n)
    BY <1>7 DEF AuthCompleted
  <2> HIDE DEF n
  <2> QED BY <1>1, <2>1, <2>2, <2>3
<1>8. CASE ConnectionLost(c)
  BY <1>1, <1>8 DEF ConnectionLost
<1> QED BY <1>3, <1>4, <1>5, <1>6, <1>7, <1>8

(* A closed feed keeps no connection but those it had accepted and not handed    *)
(* over when it closed, for any number of connections and accounts              *)
(* (sftp.py:216-218, 309-319, 509-535).                                        *)
THEOREM ClosedFeedKeepsLateOnlyHolds == FeedSpec => []ClosedFeedKeepsLateOnly
<1> DEFINE Inv == ClosedFeedKeepsLateOnly /\ StartsFromNone
<1>1. FeedInit => Inv
  BY DEF FeedInit, ClosedFeedKeepsLateOnly, StartsFromNone
<1>2. FeedTypeOK /\ Inv /\ [FeedNext]_feedVars => Inv'
  <2> SUFFICES ASSUME FeedTypeOK, ClosedFeedKeepsLateOnly, StartsFromNone,
                      [FeedNext]_feedVars
               PROVE  Inv'
    OBVIOUS
  <2> USE DEF ClosedFeedKeepsLateOnly, StartsFromNone
  <2>1. CASE UNCHANGED <<listener, conns, sup>>
    BY <2>1
  <2>2. CASE \/ \E a \in Forms : CreateSftp(a) \/ \E i \in AccountIds : UpdateSftp(i, a)
             \/ \E i \in AccountIds : DeleteSftp(i)
             \/ \E k \in FeedCustomers : RemoveFeedCustomer(k)
             \/ \E s \in Settings : UpdateSftpServer(s)
             \/ \E ip \in Addrs : FailsForgotten(ip)
             \/ KeepRule \/ WorkerFails \/ UNCHANGED feedVars
    BY <2>1, <2>2 DEF CreateSftp, UpdateSftp, DeleteSftp, RemoveFeedCustomer,
       UpdateSftpServer, Edit, FailsForgotten, KeepRule, PlanSettings, PlanAddresses,
       WorkerCloses, WorkerRemoves, WorkerOpens, WorkerFails, Worked, feedVars
  <2>3. ASSUME NEW c \in Conns, NEW ip \in Addrs, Accept(c, ip) PROVE Inv'
    BY <2>3 DEF Accept, Becomes
  <2>4. ASSUME NEW c \in Conns,
               \/ ConnectionMade(c) \/ ConnectionJudged(c)
               \/ \E u \in Usernames : BeginAuth(c, u)
               \/ WrongPassword(c) \/ AuthCompleted(c) \/ ConnectionLost(c)
        PROVE  Inv'
    <3>1. UNCHANGED <<listener, sup>>
      BY <2>4 DEF ConnectionMade, ConnectionJudged, BeginAuth, WrongPassword,
         AuthCompleted, ConnectionLost, Becomes
    <3> QED BY <2>4, <3>1, LateStays
  <2>5. \A c \in Conns : Aborted({c})[c] = Free
          /\ \A d \in Conns : Aborted({c})[d] \in {Free, conns[d]}
    BY DEF Aborted
  <2>6. CASE SupLooks
    <3>1. sup'.pc = "follow" /\ UNCHANGED <<listener, conns>>
      BY <2>6 DEF SupLooks, FeedTypeOK, Sup
    <3> QED BY <3>1
  <2>7. CASE SupCloses
    <3>1. listener' = Down /\ conns' = Closed
      BY <2>7 DEF SupCloses
    <3>2. ASSUME NEW c \in Conns, Closed[c] # Free PROVE Closed[c].late
      <4>1. conns[c].at = "accepted" /\ Closed[c] = [conns[c] EXCEPT !.late = TRUE]
        BY <3>2 DEF Closed
      <4>2. conns[c] \in Live
        BY <4>1, LiveOnes, FreeIsFree
      <4> QED BY <4>1, <4>2 DEF Live
    <3> QED BY <3>1, <3>2
  <2>8. CASE SupKeeps
    <3>1. UNCHANGED <<listener, conns>>
      BY <2>8 DEF SupKeeps
    <3>2. StartsFromNone'
      <4>1. CASE sup.want.enabled /\ listener = Down
        BY <3>1, <4>1
      <4>2. CASE ~(sup.want.enabled /\ listener = Down)
        BY <2>8, <4>2, BeginKickMoves DEF SupKeeps
      <4> QED BY <4>1, <4>2
    <3> QED BY <3>1, <3>2
  <2>9. CASE SupStarts
    <3>1. listener = Down /\ conns' = conns
      BY <2>9 DEF SupStarts
    <3>2. sup'.pc # "start"
      BY <2>9, BeginKickMoves DEF SupStarts
    <3> QED BY <3>1, <3>2
  <2>10. ASSUME NEW c \in Conns, KickByAccount(c) \/ KickByMode(c) PROVE Inv'
    <3>1. listener' = listener /\ (conns' = conns \/ conns' = Aborted({c}))
      BY <2>10 DEF KickByAccount, KickByMode
    <3>2. sup'.pc # "start"
      <4>1. [sup EXCEPT !.pc = "mode", !.judged = {c}].pc = "mode"
        BY DEF FeedTypeOK, Sup
      <4> QED BY <2>10, <4>1, DoneWithMoves DEF KickByAccount, KickByMode
    <3>3. \A d \in Conns : conns'[d] # Free => conns'[d] = conns[d]
      BY <2>5, <3>1
    <3> QED BY <3>1, <3>2, <3>3
  <2>11. CASE SupFails
    <3>1. sup'.pc = "sleep" /\ UNCHANGED <<listener, conns>>
      BY <2>11 DEF SupFails, FeedTypeOK, Sup
    <3> QED BY <3>1
  <2> QED BY <2>2, <2>3, <2>4, <2>6, <2>7, <2>8, <2>9, <2>10, <2>11
         DEF FeedNext, Supervise
<1> QED BY <1>1, <1>2, FeedTypeCorrect, PTL DEF FeedSpec

-----------------------------------------------------------------------------
(* What kick_stale has still to judge: a session that one of its tests would end *)
(* is on the list, and one whose account it has just let pass stands by that.    *)
StaleIsListed ==
  /\ sup.pc \in {"sleep", "follow", "start"} => stale = {}
  /\ sup.pc \in {"kick", "mode"} => \A w \in stale : w[1] \in sup.todo
  /\ sup.pc = "mode" => \A c \in sup.judged : <<c, "account">> \notin stale

LEMMA KeepsStale ==
  ASSUME StaleIsListed, StillStale,
         \/ sup' = sup
         \/ sup.pc \in {"sleep", "follow"} /\ sup'.pc \in {"follow", "start"}
  PROVE  StaleIsListed'
BY StaleShrinks DEF StaleIsListed

LEMMA BeginKickLists ==
  ASSUME FeedTypeOK, NEW table, BeginKick(table)
  PROVE  StaleIsListed'
<1> DEFINE todo == {c \in Conns : InSession(table[c])}
<1>1. \A w \in stale' : w[1] \in todo
  BY DEF BeginKick, Ended
<1>2. sup'.todo = todo /\ sup'.pc = IF todo = {} THEN "sleep" ELSE "kick"
  <2>1. sup' = [sup EXCEPT !.pc = IF todo = {} THEN "sleep" ELSE "kick", !.todo = todo]
    BY DEF BeginKick
  <2> HIDE DEF todo
  <2> QED BY <2>1 DEF FeedTypeOK, Sup
<1> HIDE DEF todo
<1> QED BY <1>1, <1>2 DEF StaleIsListed

(* The last test of a session: nothing that would end it is left.               *)
LEMMA DoneLists ==
  ASSUME FeedTypeOK, StaleIsListed, sup.pc \in {"kick", "mode"}, StillStale,
         NEW c \in Conns, DoneWith(c), \A w \in stale' : w[1] # c
  PROVE  StaleIsListed'
<1>1. \A w \in stale' : w[1] \in sup.todo \ {c}
  BY StaleShrinks DEF StaleIsListed
<1> QED BY <1>1, DoneWithMoves DEF StaleIsListed

(* Whoever a pass of the supervisor leaves in a session that ran to its end      *)
(* passed every test of kick_stale at some moment of it, however the accounts,   *)
(* the mode and the connections moved meanwhile (sftp.py:202-214, 509-535).      *)
THEOREM PassEndsStaleSessionsHolds == FeedSpec => []PassEndsStaleSessions
<1>1. FeedInit => StaleIsListed
  BY DEF FeedInit, StaleIsListed
<1>2. FeedTypeOK /\ StaleIsListed /\ [FeedNext]_feedVars => StaleIsListed'
  <2> SUFFICES ASSUME FeedTypeOK, StaleIsListed, [FeedNext]_feedVars
               PROVE  StaleIsListed'
    OBVIOUS
  <2>0. stale \subseteq Conns \X Reasons
    BY DEF FeedTypeOK
  <2>1. CASE \/ \E a \in Forms : CreateSftp(a) \/ \E i \in AccountIds : UpdateSftp(i, a)
             \/ \E i \in AccountIds : DeleteSftp(i)
             \/ \E k \in FeedCustomers : RemoveFeedCustomer(k)
             \/ \E s \in Settings : UpdateSftpServer(s)
             \/ \E ip \in Addrs : FailsForgotten(ip)
             \/ KeepRule \/ WorkerFails
    <3>1. sup' = sup /\ StillStale
      BY <2>1 DEF CreateSftp, UpdateSftp, DeleteSftp, RemoveFeedCustomer,
         UpdateSftpServer, Edit, FailsForgotten, KeepRule, PlanSettings, PlanAddresses,
         WorkerCloses, WorkerRemoves, WorkerOpens, WorkerFails, Worked
    <3> QED BY <3>1, KeepsStale
  <2>2. ASSUME NEW c \in Conns,
               \/ \E ip \in Addrs : Accept(c, ip)
               \/ ConnectionMade(c) \/ ConnectionJudged(c)
               \/ \E u \in Usernames : BeginAuth(c, u)
               \/ WrongPassword(c) \/ AuthCompleted(c) \/ ConnectionLost(c)
        PROVE  StaleIsListed'
    <3>1. sup' = sup /\ StillStale
      BY <2>2 DEF Accept, ConnectionMade, ConnectionJudged, BeginAuth, WrongPassword,
         AuthCompleted, ConnectionLost, Becomes
    <3> QED BY <3>1, KeepsStale
  <2>3. CASE SupLooks
    <3>1. sup.pc = "sleep" /\ sup'.pc = "follow" /\ StillStale
      BY <2>3 DEF SupLooks, FeedTypeOK, Sup
    <3> QED BY <3>1, KeepsStale
  <2>4. CASE SupCloses \/ SupKeeps
    <3>1. [sup EXCEPT !.pc = "start"].pc = "start" /\ sup.pc = "follow"
      BY <2>4 DEF SupCloses, SupKeeps, FeedTypeOK, Sup
    <3>2. \/ BeginKick(Closed) \/ BeginKick(conns)
          \/ sup' = [sup EXCEPT !.pc = "start"] /\ StillStale
      BY <2>4 DEF SupCloses, SupKeeps
    <3> QED BY <3>1, <3>2, BeginKickLists, KeepsStale
  <2>5. CASE SupStarts
    BY <2>5, BeginKickLists DEF SupStarts
  <2>6. ASSUME NEW c \in Conns, KickByAccount(c) PROVE StaleIsListed'
    <3>1. CASE AccountStands(accounts, conns[c])
      <4>1. /\ sup' = [sup EXCEPT !.pc = "mode", !.judged = {c}] /\ sup.pc = "kick"
            /\ StillStale /\ UNCHANGED <<conns, accounts, settings>>
        BY <2>6, <3>1 DEF KickByAccount, Supervised
      <4>2. sup'.pc = "mode" /\ sup'.judged = {c} /\ sup'.todo = sup.todo
        BY <4>1 DEF FeedTypeOK, Sup
      <4>3. <<c, "account">> \notin stale'
        BY <3>1, <4>1 DEF StillStale, Ended, Stands
      <4> QED BY <4>1, <4>2, <4>3, StaleShrinks DEF StaleIsListed
    <3>2. CASE ~AccountStands(accounts, conns[c])
      <4>1. DoneWith(c) /\ conns' = Aborted({c}) /\ StillStale /\ sup.pc = "kick"
        BY <2>6, <3>2 DEF KickByAccount
      <4>2. \A w \in stale' : w[1] # c
        BY <2>0, <4>1 DEF StillStale, Ended, InSession, Aborted, Free
      <4> QED BY <4>1, <4>2, DoneLists
    <3> QED BY <3>1, <3>2
  <2>7. ASSUME NEW c \in Conns, KickByMode(c) PROVE StaleIsListed'
    <3>1. /\ DoneWith(c) /\ StillStale /\ sup.pc = "mode" /\ c \in sup.judged
          /\ conns' = IF ModeStands(settings, conns[c]) THEN conns ELSE Aborted({c})
          /\ settings' = settings
      BY <2>7 DEF KickByMode, Supervised
    <3>2. \A w \in stale' : w[1] # c
      <4> SUFFICES ASSUME NEW w \in stale', w[1] = c PROVE FALSE
        OBVIOUS
      <4>1. w \in stale /\ Ended(w[2], accounts', settings', conns'[w[1]])
        BY <3>1 DEF StillStale
      <4>2. w = <<c, w[2]>> /\ w[2] \in {"account", "mode"}
        BY <2>0, <4>1 DEF Reasons
      <4>3. w[2] = "mode"
        BY <3>1, <4>1, <4>2 DEF StaleIsListed
      <4>4. CASE ModeStands(settings, conns[c])
        BY <3>1, <4>1, <4>3, <4>4 DEF Ended, Stands
      <4>5. CASE ~ModeStands(settings, conns[c])
        <5>1. conns'[c] = Free
          BY <3>1, <4>5 DEF Aborted
        <5> QED BY <4>1, <5>1 DEF Ended, InSession, Free
      <4> QED BY <4>4, <4>5
    <3> QED BY <3>1, <3>2, DoneLists
  <2>8. CASE SupFails
    BY <2>8 DEF SupFails, StaleIsListed
  <2>9. CASE UNCHANGED feedVars
    BY <2>9 DEF feedVars, StaleIsListed
  <2> QED BY <2>1, <2>2, <2>3, <2>4, <2>5, <2>6, <2>7, <2>8, <2>9
         DEF FeedNext, Supervise
<1>3. StaleIsListed => PassEndsStaleSessions
  BY DEF StaleIsListed, PassEndsStaleSessions
<1> QED BY <1>1, <1>2, <1>3, FeedTypeCorrect, PTL DEF FeedSpec
=============================================================================
