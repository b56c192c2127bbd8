------------------------------- MODULE Grants -------------------------------
(***************************************************************************)
(* Requests for folder access: queued by the web application and the MCP    *)
(* endpoint (televault/grants.py, admin.py, mcp_server.py), applied by the   *)
(* SYSTEM task (scripts/grant-worker.ps1, `cli grant-queue`).                *)
(*                                                                           *)
(* A web request holds the write lock before it looks for an open request,   *)
(* so looking and queueing are one step; an MCP call looks first and opens   *)
(* its transaction with the INSERT.  The worker selects, claims, checks,     *)
(* applies and reports in transactions of their own, and may die anywhere.   *)
(***************************************************************************)
EXTENDS Naturals, FiniteSets

CONSTANTS
  Customers,
  Folders,
  NoFolder,     \* no such customer
  Calls,        \* MCP calls in progress at the same time
  MaxId,        \* bound: the last row id of access_grants
  StaleSteps,   \* STALE_RUNNING_MINUTES
  MaxFaults     \* bound: worker deaths and reports that fail

ASSUME GrantsAssumption ==
  /\ NoFolder \notin Folders
  /\ IsFiniteSet(Calls)
  /\ MaxId \in Nat \ {0} /\ StaleSteps \in Nat /\ MaxFaults \in Nat

VARIABLES
  cust,     \* the customers' folders
  rows,     \* table `access_grants`
  call,     \* what each MCP call has read
  worker,   \* the running instance of the task
  faults,   \* faults so far
  served,   \* history: rows whose folder was given access while they were open
  astray    \* history: rows given an id that the worker held for another

vars == <<cust, rows, call, worker, faults, served, astray>>

-----------------------------------------------------------------------------
Ids == 1..MaxId

NoRow == [status |-> "none"]
Row == [status: {"pending", "running", "done", "error"}, cust: Customers,
        path: Folders, age: 0..StaleSteps]

(* A call that found no open request for this customer and folder. *)
Silent == [pc |-> "silent"]
Call == {Silent} \cup [pc: {"insert"}, cust: Customers, path: Folders]

Job == [id: Ids, path: Folders]

(* jobs are the requests not yet reported, ok what is to be said of the first. *)
Worker == [pc: {"idle", "claim", "check", "apply", "report"},
           jobs: SUBSET Job, ok: BOOLEAN]
Asleep == [pc |-> "idle", jobs |-> {}, ok |-> FALSE]

TypeOK ==
  /\ cust \in [Customers -> Folders \cup {NoFolder}]
  /\ rows \in [Ids -> {NoRow} \cup Row]
  /\ call \in [Calls -> Call]
  /\ worker \in Worker
  /\ faults \in 0..MaxFaults
  /\ served \in SUBSET Ids /\ astray \in SUBSET Ids

-----------------------------------------------------------------------------
(* queue_grant                                                               *)

IsOpen(i) == rows[i].status \in {"pending", "running"}

OpenFor(c, f) == {i \in Ids : IsOpen(i) /\ rows[i].cust = c /\ rows[i].path = f}

(* INTEGER PRIMARY KEY without AUTOINCREMENT: one more than the largest id. *)
NextId(i) ==
  /\ \A j \in Ids : rows[j] # NoRow => j < i
  /\ i # 1 => rows[i - 1] # NoRow

Insert(i, c, f) ==
  /\ NextId(i)
  /\ rows' = [rows EXCEPT ![i] = [status |-> "pending", cust |-> c, path |-> f,
                                  age |-> 0]]
  /\ served' = served \ {i}
  /\ astray' = IF \E j \in worker.jobs : j.id = i
               THEN astray \cup {i} ELSE astray \ {i}

Unqueued == UNCHANGED <<rows, served, astray>>

QueueAlways(c, f) ==        \* planted fault: no look for an open request
  \E i \in Ids : Insert(i, c, f)
Queue(c, f) ==
  IF OpenFor(c, f) # {} THEN Unqueued ELSE \E i \in Ids : Insert(i, c, f)

-----------------------------------------------------------------------------
(* The web application, the console and MCP                                  *)

CreateCustomer(c, f) ==
  /\ cust[c] = NoFolder
  /\ cust' = [cust EXCEPT ![c] = f] /\ Queue(c, f)
  /\ UNCHANGED <<call, worker, faults>>

MoveCustomer(c, f) ==
  /\ cust[c] \notin {NoFolder, f}
  /\ cust' = [cust EXCEPT ![c] = f] /\ Queue(c, f)
  /\ UNCHANGED <<call, worker, faults>>

GrantAccess(c) ==
  /\ cust[c] # NoFolder
  /\ Queue(c, cust[c])
  /\ UNCHANGED <<cust, call, worker, faults>>

(* `remove-customer`: the requests go with the customer. *)
RemoveCustomer(c) ==
  /\ cust[c] # NoFolder
  /\ cust' = [cust EXCEPT ![c] = NoFolder]
  /\ rows' = [i \in Ids |-> IF rows[i] # NoRow /\ rows[i].cust = c
                            THEN NoRow ELSE rows[i]]
  /\ UNCHANGED <<call, worker, faults, served, astray>>

(* request_folder_access: the customer's folder and its open requests ... *)
CallReads(m, c) ==
  /\ call[m] = Silent
  /\ cust[c] # NoFolder /\ OpenFor(c, cust[c]) = {}
  /\ call' = [call EXCEPT ![m] = [pc |-> "insert", cust |-> c, path |-> cust[c]]]
  /\ UNCHANGED <<cust, worker, faults>> /\ Unqueued

(* ... and the INSERT, which needs the customer to be there still. *)
CallQueues(m) ==
  /\ call[m] # Silent
  /\ IF cust[call[m].cust] = NoFolder THEN Unqueued
     ELSE \E i \in Ids : Insert(i, call[m].cust, call[m].path)
  /\ call' = [call EXCEPT ![m] = Silent]
  /\ UNCHANGED <<cust, worker, faults>>

-----------------------------------------------------------------------------
(* The worker: the task starts every minute unless an instance runs          *)

(* take_pending's SELECT: what waits, and what has run for too long. *)
Due(i) == \/ rows[i].status = "pending"
          \/ rows[i].status = "running" /\ rows[i].age = StaleSteps

SelectPending ==            \* planted fault: a stale request is not offered again
  LET due == {i \in Ids : rows[i].status = "pending"} IN
  /\ worker.pc = "idle" /\ due # {}
  /\ worker' = [pc |-> "claim", ok |-> FALSE,
                jobs |-> {[id |-> i, path |-> rows[i].path] : i \in due}]
  /\ UNCHANGED <<cust, call, faults>> /\ Unqueued
SelectAll ==                \* planted fault: whatever its status
  LET due == {i \in Ids : rows[i] # NoRow} IN
  /\ worker.pc = "idle" /\ due # {}
  /\ worker' = [pc |-> "claim", ok |-> FALSE,
                jobs |-> {[id |-> i, path |-> rows[i].path] : i \in due}]
  /\ UNCHANGED <<cust, call, faults>> /\ Unqueued
SelectDue ==
  LET due == {i \in Ids : Due(i)} IN
  /\ worker.pc = "idle" /\ due # {}
  /\ worker' = [pc |-> "claim", ok |-> FALSE,
                jobs |-> {[id |-> i, path |-> rows[i].path] : i \in due}]
  /\ UNCHANGED <<cust, call, faults>> /\ Unqueued

(* Its UPDATEs, one transaction; a row that is gone is not found. *)
Claim ==
  /\ worker.pc = "claim"
  /\ rows' = [i \in Ids |-> IF rows[i] # NoRow /\ \E j \in worker.jobs : j.id = i
                            THEN [rows[i] EXCEPT !.status = "running", !.age = 0]
                            ELSE rows[i]]
  /\ worker' = [worker EXCEPT !.pc = "check"]
  /\ UNCHANGED <<cust, call, faults, served, astray>>

(* ORDER BY id. *)
First(j) == j \in worker.jobs /\ \A k \in worker.jobs : j.id <= k.id

(* Test-GrantPath refuses the folder or lets it pass. *)
Check ==
  /\ worker.pc = "check"
  /\ \/ worker' = [worker EXCEPT !.pc = "report", !.ok = FALSE]
     \/ worker' = [worker EXCEPT !.pc = "apply"]
  /\ UNCHANGED <<cust, call, faults>> /\ Unqueued

(* grant-drive.ps1 writes the rule for the job's folder, or fails. *)
Apply(j) ==
  /\ worker.pc = "apply" /\ First(j)
  /\ \/ /\ worker' = [worker EXCEPT !.pc = "report", !.ok = TRUE]
        /\ served' = served \cup {i \in Ids : IsOpen(i) /\ rows[i].path = j.path}
     \/ /\ worker' = [worker EXCEPT !.pc = "report", !.ok = FALSE]
        /\ UNCHANGED served
  /\ UNCHANGED <<cust, rows, call, faults, astray>>

(* The worker goes on with the next job or ends. *)
GoOn(j) ==
  worker' = IF worker.jobs = {j} THEN Asleep
            ELSE [pc |-> "check", ok |-> FALSE, jobs |-> worker.jobs \ {j}]

(* `grant-queue finish`: a request that is gone is "No such request". *)
ReportDone(j) ==            \* planted fault: done, whatever came of it
  /\ worker.pc = "report" /\ First(j)
  /\ rows' = IF rows[j.id] = NoRow THEN rows
             ELSE [rows EXCEPT ![j.id].status = "done"]
  /\ GoOn(j)
  /\ UNCHANGED <<cust, call, faults, served, astray>>
Report(j) ==
  /\ worker.pc = "report" /\ First(j)
  /\ rows' = IF rows[j.id] = NoRow THEN rows
             ELSE [rows EXCEPT ![j.id].status =
                     IF worker.ok THEN "done" ELSE "error"]
  /\ GoOn(j)
  /\ UNCHANGED <<cust, call, faults, served, astray>>

(* The report's process fails; the script does not look at its exit code. *)
ReportFails(j) ==
  /\ worker.pc = "report" /\ First(j) /\ faults < MaxFaults
  /\ GoOn(j) /\ faults' = faults + 1
  /\ UNCHANGED <<cust, call>> /\ Unqueued

(* A restart, or the task's time limit. *)
WorkerDies ==
  /\ worker.pc # "idle" /\ faults < MaxFaults
  /\ worker' = Asleep /\ faults' = faults + 1
  /\ UNCHANGED <<cust, call>> /\ Unqueued

(* started_at of running requests recedes. *)
Tick ==
  /\ rows' = [i \in Ids |->
                IF rows[i].status = "running" /\ rows[i].age < StaleSteps
                THEN [rows[i] EXCEPT !.age = @ + 1] ELSE rows[i]]
  /\ UNCHANGED <<cust, call, worker, faults, served, astray>>

Init ==
  /\ cust \in [Customers -> Folders \cup {NoFolder}]
  /\ rows = [i \in Ids |-> NoRow]
  /\ call = [m \in Calls |-> Silent]
  /\ worker = Asleep /\ faults = 0
  /\ served = {} /\ astray = {}

Asking ==
  \/ \E c \in Customers, f \in Folders : CreateCustomer(c, f) \/ MoveCustomer(c, f)
  \/ \E c \in Customers : GrantAccess(c) \/ RemoveCustomer(c)
  \/ \E m \in Calls, c \in Customers : CallReads(m, c)
  \/ \E m \in Calls : CallQueues(m)

WorkerStep ==
  \/ SelectDue \/ Claim \/ Check
  \/ \E j \in worker.jobs : Apply(j) \/ Report(j)

Fault == WorkerDies \/ \E j \in worker.jobs : ReportFails(j)

Next == Asking \/ WorkerStep \/ Fault \/ Tick

(* The scheduler starts the task every minute and time goes on. *)
Spec == Init /\ [][Next]_vars /\ WF_vars(WorkerStep) /\ WF_vars(Tick)

-----------------------------------------------------------------------------
(* Properties                                                                *)

(* The worker holds a request once, and never one that has ended. *)
JobsAreOpen ==
  /\ \A j, k \in worker.jobs : j.id = k.id => j = k
  /\ \A j \in worker.jobs : rows[j.id] # NoRow => IsOpen(j.id)

(* A held request asks for the folder the worker has, unless its id was given  *)
(* to another meanwhile; then it is astray.                                   *)
JobsKeepTheirFolder ==
  \A j \in worker.jobs :
    rows[j.id] # NoRow => j.id \in astray \/ rows[j.id].path = j.path

(* What is about to be reported as done has been done. *)
ReportsAreTrue ==
  worker.pc = "report" /\ worker.ok =>
    \A j \in worker.jobs : First(j) /\ rows[j.id] # NoRow
                             => j.id \in served \cup astray

(* A request reported as done had its folder given access after it was asked  *)
(* for and before it was reported; the only way around that is the id of a    *)
(* removed customer's request, given to a new one while the worker held it    *)
(* (grants.py:73-87, grant-worker.ps1:66-71).                                 *)
DoneIsServed ==
  \A i \in Ids : rows[i].status = "done" => i \in served \cup astray

GrantsInv ==
  TypeOK /\ JobsAreOpen /\ JobsKeepTheirFolder /\ ReportsAreTrue /\ DoneIsServed

(* At most one request of a customer's folder is open, and one more for each  *)
(* MCP call that looked before the others wrote (grants.py:23-31).            *)
Waiting(c, f) ==
  {m \in Calls : call[m] = [pc |-> "insert", cust |-> c, path |-> f]}

OpenBound ==
  \A c \in Customers, f \in Folders :
    OpenFor(c, f) # {} =>
      Cardinality(OpenFor(c, f)) + Cardinality(Waiting(c, f))
        <= 1 + Cardinality(Calls)

(* The outcome of a request, once reported, stays: no instance of the worker  *)
(* takes up or reports again what has ended (grants.py:75-82).                *)
OutcomeStays ==
  [][\A i \in Ids : rows[i].status \in {"done", "error"} =>
       rows'[i] = rows[i] \/ rows'[i] = NoRow]_vars

(* Every request ends, although the worker dies and reports fail: what is     *)
(* stuck in running is offered again (grants.py:19-20).                       *)
EveryRequestEnds == \A i \in Ids : IsOpen(i) ~> ~ IsOpen(i)
=============================================================================
