------------------------------ MODULE SftpFeed ------------------------------
(***************************************************************************)
(* The read-only SFTP feed (televault/sftp.py): the accounts and the server  *)
(* settings of the admin page, the connections of the listener from accept   *)
(* to login, the supervisor that follows the settings and ends sessions that *)
(* no longer stand, and the firewall rule kept by scripts/grant-worker.ps1.  *)
(*                                                                           *)
(* All of sftp.py runs on one event loop: while a callback or the supervisor *)
(* holds it no other of them moves, but the admin page's requests run in     *)
(* threads and commit between any two reads of the database.  Passwords and  *)
(* keys are left to chance: a check succeeds or fails.                       *)
(***************************************************************************)
EXTENDS Naturals, FiniteSets

CONSTANTS
  Usernames,
  FeedCustomers,   \* ids of customers; a removed one's id may be given again
  Addrs,           \* source addresses
  Loopback,        \* 127.0.0.1: cloudflared connects from here
  Conns,           \* connections at the same time
  Ports,
  FailLimit,       \* FAIL_LIMIT
  MaxIps,          \* addresses the worker accepts for its rule (50)
  Saved,           \* what the accounts, settings and rule may be at the start
  Forms,           \* what superadmins enter for an account
  MaxAccount,      \* bound: the last row id of sftp_accounts
  MaxEdits,        \* bound: changes of accounts and settings
  MaxFaults        \* bound: exceptions of a pass, deaths of the worker

VARIABLES
  accounts,  \* table `sftp_accounts`
  settings,  \* sftp_enabled, sftp_mode, sftp_port of table `settings`
  listener,  \* supervise's server and the (host, port) it was started with
  conns,     \* Feed.conns and what each connection has come to
  fails,     \* Feed._fails: recent failures by address, up to FailLimit
  sup,       \* where supervise stands in its pass
  rule,      \* the Windows firewall rule
  fw,        \* the running instance of the worker
  edits, faults,
  stale      \* history: sessions that a test of kick_stale would end when it
             \* began and at every moment since, with the test

feedVars == <<accounts, settings, listener, conns, fails, sup, rule, fw, edits,
              faults, stale>>

-----------------------------------------------------------------------------
AccountIds == 1..MaxAccount

NoAccount == [name |-> "none"]
Account == [name: Usernames, cust: FeedCustomers, ips: SUBSET Addrs, active: BOOLEAN]

Settings == [enabled: BOOLEAN, mode: {"tunnel", "direct"}, port: Ports]
ListenHost(s) == IF s.mode = "tunnel" THEN "loopback" ELSE "public"
Endpoint == [host: {"loopback", "public"}, port: Ports]
Down == [host |-> "none"]
EndpointOf(s) == [host |-> ListenHost(s), port |-> s.port]

(* The row a connection copied in begin_auth. *)
Copied == [id: AccountIds, name: Usernames, cust: FeedCustomers]
NoCopy == [id |-> 0]

(* accepted: connection_made is still to be called; made: in the middle of it; *)
(* open: no user name yet; trying: since begin_auth; in: since auth_completed.  *)
(* late: the listener that accepted it closed before connection_made.          *)
Free == [at |-> "free"]
Conn == {Free} \cup
        [at: {"accepted", "made", "open", "trying", "in"}, ip: Addrs,
         tunnel: BOOLEAN, acct: {NoCopy} \cup Copied, late: BOOLEAN]

Sup == [pc: {"sleep", "follow", "start", "kick", "mode"}, want: Settings,
        todo: SUBSET Conns, judged: SUBSET Conns]

NoRule == [from |-> {}]
Rule == [from: SUBSET Addrs, port: Ports]
Plan == [enabled: BOOLEAN, port: Ports, ips: SUBSET Addrs]
Resting == [pc |-> "idle"]
Fw == {Resting} \cup [pc: {"settings", "planned", "removed"}, plan: Plan]

(* What kick_stale tests of a session, in the two reads it makes.              *)
Reasons == {"account", "mode"}

ASSUME FeedAssumption ==
  /\ Loopback \in Addrs
  /\ IsFiniteSet(Addrs) /\ IsFiniteSet(Conns)
  /\ FailLimit \in Nat \ {0} /\ MaxIps \in Nat
  /\ MaxAccount \in Nat \ {0} /\ MaxEdits \in Nat /\ MaxFaults \in Nat
  /\ Forms \subseteq Account
  /\ Saved \subseteq [accounts: [AccountIds -> {NoAccount} \cup Account],
                      settings: Settings, rule: {NoRule} \cup Rule]

FeedTypeOK ==
  /\ accounts \in [AccountIds -> {NoAccount} \cup Account]
  /\ settings \in Settings
  /\ listener \in {Down} \cup Endpoint
  /\ conns \in [Conns -> Conn]
  /\ fails \in [Addrs -> 0..FailLimit]
  /\ sup \in Sup
  /\ rule \in {NoRule} \cup Rule
  /\ fw \in Fw
  /\ edits \in 0..MaxEdits /\ faults \in 0..MaxFaults
  /\ stale \in SUBSET (Conns \X Reasons)

-----------------------------------------------------------------------------
(* Reading the accounts and the settings                                     *)

Tunnelled == settings.mode = "tunnel"

(* `WHERE username = ? AND active = 1`; names are unique.                      *)
ActiveNamed(u) ==
  {i \in AccountIds : accounts[i] # NoAccount /\ accounts[i].name = u
                       /\ accounts[i].active}

ActiveIps == UNION {accounts[i].ips : i \in {j \in AccountIds :
                     accounts[j] # NoAccount /\ accounts[j].active}}

(* The tests of kick_stale, on the accounts and the mode at one moment.        *)
AccountStands(table, s) ==
  LET i == s.acct.id IN
  /\ i \in AccountIds /\ table[i] # NoAccount
  /\ table[i].active /\ table[i].name = s.acct.name /\ table[i].cust = s.acct.cust
  /\ s.tunnel \/ s.ip \in table[i].ips

ModeStands(set, s) == s.tunnel = (set.mode = "tunnel")

Stands(reason, table, set, s) ==
  IF reason = "account" THEN AccountStands(table, s) ELSE ModeStands(set, s)

InSession(s) == s.at = "in"

Ended(reason, table, set, s) == InSession(s) /\ ~Stands(reason, table, set, s)

(* Follows the ghost through every step that does not begin or break a pass.   *)
StillStale ==
  stale' = {w \in stale : Ended(w[2], accounts', settings', conns'[w[1]])}

-----------------------------------------------------------------------------
(* The admin page                                                            *)

Edit ==
  /\ edits < MaxEdits /\ edits' = edits + 1
  /\ UNCHANGED <<listener, conns, fails, sup, rule, fw, faults>>
  /\ StillStale

Taken(u, i) == \E j \in AccountIds \ {i} : accounts[j] # NoAccount /\ accounts[j].name = u

(* INTEGER PRIMARY KEY without AUTOINCREMENT: one more than the largest id.     *)
NextAccount(i) ==
  /\ \A j \in AccountIds : accounts[j] # NoAccount => j < i
  /\ i # 1 => accounts[i - 1] # NoAccount

CreateSftp(a) ==
  /\ ~Taken(a.name, 0)
  /\ \E i \in AccountIds : NextAccount(i) /\ accounts' = [accounts EXCEPT ![i] = a]
  /\ UNCHANGED settings /\ Edit

UpdateSftp(i, a) ==
  /\ accounts[i] # NoAccount /\ ~Taken(a.name, i)
  /\ accounts' = [accounts EXCEPT ![i] = a]
  /\ UNCHANGED settings /\ Edit

DeleteSftp(i) ==
  /\ accounts[i] # NoAccount
  /\ accounts' = [accounts EXCEPT ![i] = NoAccount]
  /\ UNCHANGED settings /\ Edit

(* `remove-customer`: the accounts go with the customer (ON DELETE CASCADE).    *)
RemoveFeedCustomer(k) ==
  /\ \E i \in AccountIds : accounts[i] # NoAccount /\ accounts[i].cust = k
  /\ accounts' = [i \in AccountIds |->
        IF accounts[i] # NoAccount /\ accounts[i].cust = k THEN NoAccount
        ELSE accounts[i]]
  /\ UNCHANGED settings /\ Edit

UpdateSftpServer(s) ==
  /\ s # settings /\ settings' = s
  /\ UNCHANGED accounts /\ Edit

-----------------------------------------------------------------------------
(* Connections (class _SSHServer)                                            *)

LoopFree ==
  /\ sup.pc \in {"sleep", "start"}
  /\ \A c \in Conns : conns[c].at # "made"

Becomes(c, s) ==
  /\ conns' = [conns EXCEPT ![c] = s]
  /\ UNCHANGED <<accounts, settings, listener, sup, rule, fw, edits, faults>>
  /\ StillStale

Failed(ip, n) ==
  fails' = [fails EXCEPT ![ip] = IF @ + n > FailLimit THEN FailLimit ELSE @ + n]

(* asyncio accepts in one callback and calls connection_made in a later one.    *)
Accept(c, ip) ==
  /\ LoopFree /\ conns[c] = Free /\ listener # Down
  /\ listener.host = "loopback" => ip = Loopback
  /\ Becomes(c, [at |-> "accepted", ip |-> ip, tunnel |-> FALSE, acct |-> NoCopy,
                  late |-> FALSE])
  /\ UNCHANGED fails

(* connection_made, up to its read of the mode ...                             *)
ConnectionMade(c) ==
  /\ LoopFree /\ conns[c].at = "accepted"
  /\ Becomes(c, [conns[c] EXCEPT !.at = "made",
                    !.tunnel = Tunnelled /\ conns[c].ip = Loopback])
  /\ UNCHANGED fails

(* ... and from its read of the active accounts' addresses on.                 *)
Admitted(s) == fails[s.ip] < FailLimit /\ (s.tunnel \/ s.ip \in ActiveIps)

ConnectionJudged(c) ==
  /\ conns[c].at = "made"
  /\ Becomes(c, IF Admitted(conns[c]) THEN [conns[c] EXCEPT !.at = "open"] ELSE Free)
  /\ UNCHANGED fails

(* asyncssh calls begin_auth for the first user name and for each further one.  *)
CopyOf(u, s) ==
  {[id |-> i, name |-> u, cust |-> accounts[i].cust] :
     i \in {j \in ActiveNamed(u) : s.tunnel \/ s.ip \in accounts[j].ips}}

BeginAuth(c, u) ==
  /\ LoopFree /\ conns[c].at \in {"open", "trying"}
  /\ IF CopyOf(u, conns[c]) = {}
     THEN /\ Becomes(c, [conns[c] EXCEPT !.at = "trying", !.acct = NoCopy])
          /\ Failed(conns[c].ip, 1)
     ELSE /\ \E a \in CopyOf(u, conns[c]) :
               Becomes(c, [conns[c] EXCEPT !.at = "trying", !.acct = a])
          /\ UNCHANGED fails

(* validate_password says no; a key that does not fit counts for nothing.      *)
WrongPassword(c) ==
  /\ LoopFree /\ conns[c].at = "trying"
  /\ Failed(conns[c].ip, 1)
  /\ UNCHANGED <<accounts, settings, listener, conns, sup, rule, fw, edits, faults>>
  /\ StillStale

(* A password or a key of the row that begin_auth copied, however old the copy. *)
AuthCompleted(c) ==
  /\ LoopFree /\ conns[c].at = "trying" /\ conns[c].acct # NoCopy
  /\ Becomes(c, [conns[c] EXCEPT !.at = "in"])
  /\ UNCHANGED fails

ConnectionLost(c) ==
  /\ LoopFree /\ conns[c] # Free
  /\ Becomes(c, Free)
  /\ UNCHANGED fails

(* FAIL_WINDOW has passed for the oldest failures of an address.               *)
FailsForgotten(ip) ==
  /\ \E n \in 0..FailLimit : n < fails[ip] /\ fails' = [fails EXCEPT ![ip] = n]
  /\ UNCHANGED <<accounts, settings, listener, conns, sup, rule, fw, edits, faults>>
  /\ StillStale

-----------------------------------------------------------------------------
(* supervise, every five seconds                                             *)

Supervised == UNCHANGED <<accounts, settings, fails, rule, fw, edits>>

Aborted(S) == [c \in Conns |-> IF c \in S THEN Free ELSE conns[c]]

Registered == {c \in Conns : conns[c].at \notin {"free", "accepted"}}   \* Feed.conns

SupLooks ==
  /\ LoopFree /\ sup.pc = "sleep"
  /\ sup' = [sup EXCEPT !.pc = "follow", !.want = settings]
  /\ UNCHANGED <<listener, conns, faults>> /\ Supervised /\ StillStale

(* The list of kick_stale: sessions only, the others are passed over.          *)
BeginKick(table) ==
  LET todo == {c \in Conns : InSession(table[c])} IN
  /\ sup' = [sup EXCEPT !.pc = IF todo = {} THEN "sleep" ELSE "kick", !.todo = todo]
  /\ stale' = {w \in Conns \X Reasons : Ended(w[2], accounts, settings, table[w[1]])}

(* server.close() and close_all(); what is accepted but not made stays.        *)
Closed == [c \in Conns |->
  IF conns[c].at = "accepted" THEN [conns[c] EXCEPT !.late = TRUE] ELSE Free]

MustCloseOff ==             \* planted fault: a new port or host is not looked at
  listener # Down /\ ~sup.want.enabled
MustClose == listener # Down /\ (~sup.want.enabled \/ listener # EndpointOf(sup.want))

SupClosesListener ==        \* planted fault: no close_all
  /\ sup.pc = "follow" /\ MustClose
  /\ listener' = Down /\ UNCHANGED <<conns, faults>> /\ Supervised
  /\ IF sup.want.enabled
     THEN sup' = [sup EXCEPT !.pc = "start"] /\ StillStale
     ELSE BeginKick(conns)
SupCloses ==
  /\ sup.pc = "follow" /\ MustClose
  /\ listener' = Down /\ conns' = Closed
  /\ UNCHANGED faults /\ Supervised
  /\ IF sup.want.enabled
     THEN sup' = [sup EXCEPT !.pc = "start"] /\ StillStale
     ELSE BeginKick(Closed)

SupKeeps ==
  /\ sup.pc = "follow" /\ ~MustClose
  /\ UNCHANGED <<listener, conns, faults>> /\ Supervised
  /\ IF sup.want.enabled /\ listener = Down
     THEN sup' = [sup EXCEPT !.pc = "start"] /\ StillStale
     ELSE BeginKick(conns)

(* `await start(...)`: it listens, or the port is taken (OSError).             *)
SupStartsAsked ==           \* planted fault: keeps the settings for the endpoint
  /\ LoopFree /\ sup.pc = "start"
  /\ listener' \in {sup.want, Down}
  /\ UNCHANGED <<conns, faults>> /\ Supervised
  /\ BeginKick(conns)
SupStarts ==
  /\ LoopFree /\ sup.pc = "start"
  /\ listener' \in {EndpointOf(sup.want), Down}
  /\ BeginKick(conns)
  /\ UNCHANGED <<conns, faults>> /\ Supervised

(* One session of kick_stale: the account first, the mode after.               *)
DoneWith(c) ==
  LET todo == sup.todo \ {c} IN
  sup' = [sup EXCEPT !.pc = IF todo = {} THEN "sleep" ELSE "kick", !.todo = todo,
                     !.judged = {}]

KickByName(c) ==            \* planted fault: any active account of the name will do
  /\ sup.pc = "kick" /\ c \in sup.todo
  /\ IF ActiveNamed(conns[c].acct.name) # {}
     THEN sup' = [sup EXCEPT !.pc = "mode", !.judged = {c}] /\ UNCHANGED conns
     ELSE DoneWith(c) /\ conns' = Aborted({c})
  /\ UNCHANGED <<listener, faults>> /\ Supervised /\ StillStale
KickByAccount(c) ==
  /\ sup.pc = "kick" /\ c \in sup.todo
  /\ IF AccountStands(accounts, conns[c])
     THEN sup' = [sup EXCEPT !.pc = "mode", !.judged = {c}] /\ UNCHANGED conns
     ELSE DoneWith(c) /\ conns' = Aborted({c})
  /\ UNCHANGED <<listener, faults>> /\ Supervised /\ StillStale

KickByNoMode(c) ==          \* planted fault: the mode is not tested
  /\ sup.pc = "mode" /\ c \in sup.judged
  /\ DoneWith(c)
  /\ UNCHANGED <<conns, listener, faults>> /\ Supervised /\ StillStale
KickByMode(c) ==
  /\ sup.pc = "mode" /\ c \in sup.judged
  /\ conns' = IF ModeStands(settings, conns[c]) THEN conns ELSE Aborted({c})
  /\ DoneWith(c)
  /\ UNCHANGED <<listener, faults>> /\ Supervised /\ StillStale

(* Any other exception ends the pass; the next one starts afresh.              *)
SupFails ==
  /\ faults < MaxFaults /\ faults' = faults + 1
  /\ sup.pc \in {"kick", "mode"} \/ (sup.pc = "start" /\ LoopFree)
  /\ sup' = [sup EXCEPT !.pc = "sleep", !.todo = {}, !.judged = {}]
  /\ stale' = {}
  /\ UNCHANGED <<listener, conns>> /\ Supervised

Supervise ==
  \/ SupLooks \/ SupCloses \/ SupKeeps \/ SupStarts
  \/ \E c \in Conns : KickByAccount(c) \/ KickByMode(c)

-----------------------------------------------------------------------------
(* The worker's firewall rule                                                *)

Worked ==
  /\ UNCHANGED <<accounts, settings, listener, conns, fails, sup, edits>>
  /\ StillStale

(* `sftp-firewall plan`: the settings in one read, the addresses in the next.   *)
PlanSettings ==
  /\ fw = Resting
  /\ fw' = [pc |-> "settings",
            plan |-> [enabled |-> settings.enabled /\ ~Tunnelled,
                      port |-> settings.port, ips |-> {}]]
  /\ UNCHANGED <<rule, faults>> /\ Worked

PlanAddresses ==
  /\ fw.pc = "settings"
  /\ fw' = [fw EXCEPT !.pc = "planned", !.plan.ips = ActiveIps]
  /\ UNCHANGED <<rule, faults>> /\ Worked

RuleOf(p) ==
  IF p.enabled /\ p.ips # {} /\ Cardinality(p.ips) <= MaxIps
  THEN [from |-> p.ips, port |-> p.port] ELSE NoRule

(* No rule is wanted, or the plan is refused (fail closed), or nothing changed. *)
WorkerKeeps ==              \* planted fault: a rule no longer wanted is not removed
  /\ fw.pc = "planned" /\ RuleOf(fw.plan) \in {NoRule, rule}
  /\ fw' = Resting
  /\ UNCHANGED <<rule, faults>> /\ Worked
WorkerCloses ==
  /\ fw.pc = "planned" /\ RuleOf(fw.plan) \in {NoRule, rule}
  /\ rule' = RuleOf(fw.plan) /\ fw' = Resting
  /\ UNCHANGED faults /\ Worked

WorkerRemoves ==
  /\ fw.pc = "planned" /\ RuleOf(fw.plan) \notin {NoRule, rule}
  /\ rule' = NoRule /\ fw' = [fw EXCEPT !.pc = "removed"]
  /\ UNCHANGED faults /\ Worked

WorkerOpens ==
  /\ fw.pc = "removed"
  /\ rule' = RuleOf(fw.plan) /\ fw' = Resting
  /\ UNCHANGED faults /\ Worked

(* It dies where it is, or catches an exception and removes the rule.          *)
WorkerFails ==
  /\ faults < MaxFaults /\ faults' = faults + 1
  /\ fw # Resting /\ fw' = Resting
  /\ rule' \in {rule, NoRule}
  /\ Worked

KeepRule ==
  PlanSettings \/ PlanAddresses \/ WorkerCloses \/ WorkerRemoves \/ WorkerOpens

-----------------------------------------------------------------------------
(* The process starts with what was saved; the rule is Windows' and stays too.  *)
FeedInit ==
  /\ \E s \in Saved :
       accounts = s.accounts /\ settings = s.settings /\ rule = s.rule
  /\ listener = Down
  /\ conns = [c \in Conns |-> Free]
  /\ fails = [ip \in Addrs |-> 0]
  /\ sup = [pc |-> "sleep", want |-> settings, todo |-> {}, judged |-> {}]
  /\ fw = Resting
  /\ edits = 0 /\ faults = 0 /\ stale = {}

FeedNext ==
  \/ \E a \in Forms : CreateSftp(a) \/ \E i \in AccountIds : UpdateSftp(i, a)
  \/ \E i \in AccountIds : DeleteSftp(i)
  \/ \E k \in FeedCustomers : RemoveFeedCustomer(k)
  \/ \E s \in Settings : UpdateSftpServer(s)
  \/ \E c \in Conns :
       \/ \E ip \in Addrs : Accept(c, ip)
       \/ ConnectionMade(c) \/ ConnectionJudged(c)
       \/ \E u \in Usernames : BeginAuth(c, u)
       \/ WrongPassword(c) \/ AuthCompleted(c) \/ ConnectionLost(c)
  \/ \E ip \in Addrs : FailsForgotten(ip)
  \/ Supervise \/ SupFails \/ KeepRule \/ WorkerFails

(* The loop runs what is ready in the order it became ready: no stream of       *)
(* connections keeps the supervisor from its turn.  The worker's task is        *)
(* started again and again.  Clients and superadmins owe nothing.              *)
FeedFairness ==
  /\ SF_feedVars(Supervise)
  /\ \A c \in Conns : WF_feedVars(ConnectionMade(c) \/ ConnectionJudged(c))
  /\ WF_feedVars(KeepRule)

FeedSpec == FeedInit /\ [][FeedNext]_feedVars /\ FeedFairness

-----------------------------------------------------------------------------
(* A pass that runs to its end leaves no session that one of kick_stale's own  *)
(* tests would have ended at every moment since kick_stale began: an account    *)
(* that was disabled, removed, renamed, moved to another customer or to other   *)
(* addresses, or a mode that was changed.  What an account was between two      *)
(* passes is not seen: one removed and created again under its freed id, name   *)
(* and customer counts as never gone.                                          *)
PassEndsStaleSessions == sup.pc = "sleep" => stale = {}

(* While the listener is closed no connection is left but those it had accepted *)
(* and not yet handed to connection_made when it closed.                       *)
ClosedFeedKeepsLateOnly ==
  listener = Down => \A c \in Conns : conns[c] # Free => conns[c].late

(* Once nothing is edited any more, the sessions left are of active accounts    *)
(* with their customer, from their addresses and in the mode in force, although *)
(* logins complete with copies of accounts as old as their connections.        *)
SessionsSettle ==
  <>[](\A c \in Conns, r \in Reasons : ~Ended(r, accounts, settings, conns[c]))

(* Once nothing is edited any more, the feed listens where the settings say or  *)
(* nowhere, and nowhere when it is switched off.                               *)
ListenerSettles ==
  <>[](/\ listener \in {Down, EndpointOf(settings)}
       /\ ~settings.enabled => listener = Down)

(* Once nothing is edited any more, the firewall admits the saved port from the *)
(* active accounts' addresses, or has no rule in tunnel mode, when switched     *)
(* off, without addresses or with more than the worker accepts.                *)
FirewallSettles ==
  <>[](rule = RuleOf([enabled |-> settings.enabled /\ ~Tunnelled,
                      port |-> settings.port, ips |-> ActiveIps]))
=============================================================================
