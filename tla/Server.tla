------------------------------- MODULE Server -------------------------------
(***************************************************************************)
(* What lives in the memory of the web application's process                 *)
(* (televault/main.py): the limiter of attempts by address                    *)
(* (security.IpLimiter), used by sign-in and second factor, and the thread    *)
(* that indexes (indexer.IndexerThread), woken by requests that change a       *)
(* customer before they commit.  Both are lost when the process is restarted. *)
(*                                                                           *)
(* Requests run in a pool of threads; each is one thread's work.              *)
(***************************************************************************)
EXTENDS Naturals, FiniteSets

CONSTANTS
  Ips,
  Requests,      \* threads of the pool
  MaxAttempts,   \* cfg.ip_max_attempts
  MaxChanges,    \* bound: requests that change or reindex a customer
  MaxRestarts    \* bound: ends of the process

ASSUME ServerAssumption ==
  /\ IsFiniteSet(Requests)
  /\ MaxAttempts \in Nat \ {0} /\ MaxChanges \in Nat /\ MaxRestarts \in Nat

VARIABLES
  hits,      \* IpLimiter._hits: attempts in the window, by address
  req,       \* what each thread of the pool is doing
  wake,      \* IndexerThread._wake
  stop,      \* IndexerThread._stop
  thread,    \* where IndexerThread.run stands
  changes,   \* changes of customers so far
  committed, \* changes committed and not read by a pass since
  unheard,   \* history: changes that woke nobody, or whose wake-up was spent on
             \* a pass that read the customers before the commit
  restarts

serverVars ==
  <<hits, req, wake, stop, thread, changes, committed, unheard, restarts>>

-----------------------------------------------------------------------------
Changes == 1..MaxChanges

NoWork == [pc |-> "idle"]
Attempt == [pc: {"attempt"}, ip: Ips]
(* quiet: a change that wakes nobody, like a new name or `enabled`.            *)
Change == [pc: {"written", "triggered"}, change: Changes, quiet: BOOLEAN]

ServerTypeOK ==
  /\ hits \in [Ips -> Nat]
  /\ req \in [Requests -> {NoWork} \cup Attempt \cup Change]
  /\ wake \in BOOLEAN /\ stop \in BOOLEAN
  /\ thread \in {"asleep", "test", "read", "pass", "wait", "clear", "ended"}
  /\ changes \in 0..MaxChanges
  /\ committed \in SUBSET Changes /\ unheard \in SUBSET Changes
  /\ restarts \in 0..MaxRestarts

-----------------------------------------------------------------------------
(* Sign-in and second factor                                                 *)

Scheduled == UNCHANGED <<wake, stop, thread, changes, committed, unheard, restarts>>

Turn(r, w) == req' = [req EXCEPT ![r] = w]

AllowedAtLimit(ip) == hits[ip] <= MaxAttempts    \* planted fault: one too many
Allowed(ip) == hits[ip] < MaxAttempts

(* A refused attempt ends here and is not counted.                             *)
BeginAttempt(r, ip) ==
  /\ req[r] = NoWork /\ Allowed(ip)
  /\ Turn(r, [pc |-> "attempt", ip |-> ip])
  /\ UNCHANGED hits /\ Scheduled

(* Unknown, disabled or locked, a wrong password or code: counted when it is    *)
(* known, with whatever has been counted meanwhile.                            *)
AttemptFails(r) ==
  /\ req[r].pc = "attempt"
  /\ hits' = [hits EXCEPT ![req[r].ip] = @ + 1]
  /\ Turn(r, NoWork) /\ Scheduled

(* It succeeds, is refused for other reasons, or ends in an exception.          *)
AttemptEnds(r) ==
  /\ req[r].pc = "attempt"
  /\ Turn(r, NoWork)
  /\ UNCHANGED hits /\ Scheduled

(* The window has passed for the oldest attempts of an address.                *)
HitsExpire(ip) ==
  /\ \E n \in 0..MaxAttempts + Cardinality(Requests) :
       n < hits[ip] /\ hits' = [hits EXCEPT ![ip] = n]
  /\ UNCHANGED req /\ Scheduled

-----------------------------------------------------------------------------
(* Requests that change a customer, or ask for a new index                    *)

(* SQLite has one writer: from its first write to its end a request is alone.    *)
Writing == \E r \in Requests : req[r].pc \in {"written", "triggered"}

Write(r, quiet) ==
  /\ req[r] = NoWork /\ ~Writing /\ changes < MaxChanges
  /\ changes' = changes + 1
  /\ Turn(r, [pc |-> "written", change |-> changes + 1, quiet |-> quiet])
  /\ UNCHANGED <<hits, wake, stop, thread, committed, unheard, restarts>>

Trigger(r) ==
  /\ req[r].pc = "written" /\ ~req[r].quiet
  /\ wake' = TRUE
  /\ Turn(r, [req[r] EXCEPT !.pc = "triggered"])
  /\ UNCHANGED <<hits, stop, thread, changes, committed, unheard, restarts>>

MayCommit(r) ==
  req[r].pc = "triggered" \/ (req[r].pc = "written" /\ req[r].quiet)

Commit(r) ==
  /\ MayCommit(r)
  /\ committed' = committed \cup {req[r].change}
  /\ unheard' = IF req[r].quiet THEN unheard \cup {req[r].change} ELSE unheard
  /\ Turn(r, NoWork)
  /\ UNCHANGED <<hits, wake, stop, thread, changes, restarts>>

(* An exception: rolled back, whether triggered or not.                         *)
RollBack(r) ==
  /\ req[r].pc \in {"written", "triggered"}
  /\ Turn(r, NoWork)
  /\ UNCHANGED <<hits, wake, stop, thread, changes, committed, unheard, restarts>>

-----------------------------------------------------------------------------
(* IndexerThread.run                                                         *)

Threaded == UNCHANGED <<hits, req, changes, restarts>>

ThreadStarts ==
  /\ thread = "asleep" /\ thread' = "test"
  /\ UNCHANGED <<wake, stop, committed, unheard>> /\ Threaded

ThreadTests ==
  /\ thread = "test" /\ thread' = IF stop THEN "ended" ELSE "read"
  /\ UNCHANGED <<wake, stop, committed, unheard>> /\ Threaded

InTheAir == {req[r].change : r \in {s \in Requests : req[s].pc = "triggered"}}

(* index_all reads the enabled customers.                                     *)
PassReads ==
  /\ thread = "read" /\ thread' = "pass"
  /\ committed' = {} /\ unheard' = unheard \cup InTheAir
  /\ UNCHANGED <<wake, stop>> /\ Threaded

(* index_all returns or raises; last_run is set; _busy is released.             *)
PassRaises ==               \* planted fault: an exception ends the thread
  /\ thread = "pass" /\ thread' \in {"wait", "ended"}
  /\ UNCHANGED <<wake, stop, committed, unheard>> /\ Threaded
PassClears ==               \* planted fault: _wake is cleared before the wait
  /\ thread = "pass" /\ thread' = "wait" /\ wake' = FALSE
  /\ UNCHANGED <<stop, committed, unheard>> /\ Threaded
PassEnds ==
  /\ thread = "pass" /\ thread' = "wait"
  /\ UNCHANGED <<wake, stop, committed, unheard>> /\ Threaded

(* Woken, or the interval is over.                                            *)
WaitEnds ==
  /\ thread = "wait" /\ thread' = "clear"
  /\ UNCHANGED <<wake, stop, committed, unheard>> /\ Threaded

ThreadClears ==
  /\ thread = "clear" /\ thread' = "test" /\ wake' = FALSE
  /\ UNCHANGED <<stop, committed, unheard>> /\ Threaded

ThreadStep ==
  \/ ThreadStarts \/ ThreadTests \/ PassReads \/ PassEnds \/ WaitEnds \/ ThreadClears

-----------------------------------------------------------------------------
(* The process                                                               *)

(* The lifespan ends: indexer.stop().                                         *)
Stop ==
  /\ ~stop /\ stop' = TRUE /\ wake' = TRUE
  /\ UNCHANGED <<thread, committed, unheard>> /\ Threaded

(* The process ends, in order or not, and is started again.                    *)
Restart ==
  /\ restarts < MaxRestarts /\ restarts' = restarts + 1
  /\ hits' = [ip \in Ips |-> 0]
  /\ req' = [r \in Requests |-> NoWork]
  /\ wake' = FALSE /\ stop' = FALSE /\ thread' = "asleep"
  /\ UNCHANGED <<changes, committed, unheard>>

ServerInit ==
  /\ hits = [ip \in Ips |-> 0]
  /\ req = [r \in Requests |-> NoWork]
  /\ wake = FALSE /\ stop = FALSE /\ thread = "asleep"
  /\ changes = 0 /\ committed = {} /\ unheard = {} /\ restarts = 0

ServerNext ==
  \/ \E r \in Requests :
       \/ \E ip \in Ips : BeginAttempt(r, ip)
       \/ AttemptFails(r) \/ AttemptEnds(r)
       \/ \E quiet \in BOOLEAN : Write(r, quiet)
       \/ Trigger(r) \/ Commit(r) \/ RollBack(r)
  \/ \E ip \in Ips : HitsExpire(ip)
  \/ ThreadStep \/ Stop \/ Restart

(* The thread runs, passes end, and the interval passes.                       *)
ServerSpec ==
  ServerInit /\ [][ServerNext]_serverVars /\ WF_serverVars(ThreadStep)

-----------------------------------------------------------------------------
(* The requests that were allowed and are not over.                            *)
Trying(ip) == {r \in Requests : req[r].pc = "attempt" /\ req[r].ip = ip}

(* An address is never charged with more attempts than the limit and one for     *)
(* each further thread of the pool: requests that were all let in before any of  *)
(* them was counted overshoot by no more than their number (security.py:155-166, *)
(* auth.py:86-107).                                                           *)
LimiterBound ==
  \A ip \in Ips :
    hits[ip] + Cardinality(Trying(ip)) < MaxAttempts + Cardinality(Requests)

(* Nothing committed is left for the interval to find except what woke nobody or *)
(* was committed only after the pass it had triggered read the customers: a       *)
(* trigger is not lost, whatever the thread is doing (indexer.py:256-280).        *)
TriggersAreNotLost ==
  committed \ unheard # {} =>
    wake \/ thread \in {"asleep", "test", "read", "clear", "ended"}

(* Every committed change is read by a pass in the end, unless the process is      *)
(* stopped.                                                                    *)
ChangesAreIndexed ==
  \A c \in Changes : (c \in committed) ~> (c \notin committed \/ stop)
=============================================================================
