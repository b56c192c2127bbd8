---------------------------- MODULE GrantsProofs ----------------------------
(***************************************************************************)
(* Proofs about Grants for every number of customers, calls and requests.   *)
(***************************************************************************)
EXTENDS Grants, FiniteSetTheorems, TLAPS

-----------------------------------------------------------------------------
(* The rows                                                                  *)

LEMMA RowFacts ==
  ASSUME TypeOK, NEW i \in Ids
  PROVE  /\ rows[i] = NoRow <=> rows[i].status = "none"
         /\ rows[i] # NoRow => rows[i] \in Row
         /\ rows[i] \in Row =>
              /\ rows[i].status \in {"pending", "running", "done", "error"}
              /\ rows[i].cust \in Customers /\ rows[i].path \in Folders
BY DEF TypeOK, NoRow, Row

(* INSERT gives a request an id that no row has. *)
LEMMA InsertFacts ==
  ASSUME TypeOK, NEW i \in Ids, NEW c \in Customers, NEW f \in Folders,
         Insert(i, c, f)
  PROVE  /\ rows[i] = NoRow
         /\ \A k \in Ids \ {i} : rows'[k] = rows[k]
         /\ rows'[i] \in Row /\ rows'[i].status = "pending"
         /\ rows'[i].cust = c /\ rows'[i].path = f
         /\ rows' \in [Ids -> {NoRow} \cup Row]
         /\ served' = served \ {i}
         /\ astray' \in SUBSET Ids
         /\ \A k \in Ids \ {i} : k \in astray' <=> k \in astray
         /\ (\E j \in worker.jobs : j.id = i) => i \in astray'
<1> DEFINE new == [status |-> "pending", cust |-> c, path |-> f, age |-> 0]
<1>1. new \in Row /\ new.status = "pending" /\ new.cust = c /\ new.path = f
  BY GrantsAssumption DEF Row
<1>2. rows' = [rows EXCEPT ![i] = new]
  BY DEF Insert
<1>3. rows[i] = NoRow
  BY DEF Insert, NextId, Ids
<1> HIDE DEF new
<1>4. /\ \A k \in Ids \ {i} : rows'[k] = rows[k]
      /\ rows'[i] = new
      /\ rows' \in [Ids -> {NoRow} \cup Row]
  BY <1>1, <1>2 DEF TypeOK
<1>5. /\ served' = served \ {i} /\ astray' \in SUBSET Ids
      /\ \A k \in Ids \ {i} : k \in astray' <=> k \in astray
      /\ (\E j \in worker.jobs : j.id = i) => i \in astray'
  BY DEF Insert, TypeOK
<1> QED BY <1>1, <1>3, <1>4, <1>5

LEMMA JobFacts ==
  ASSUME TypeOK, NEW j \in worker.jobs
  PROVE  j.id \in Ids /\ j.path \in Folders
BY DEF TypeOK, Worker, Job

-----------------------------------------------------------------------------
(* The invariant, step by step                                               *)

(* Queueing a request. *)
LEMMA InsertKeeps ==
  ASSUME GrantsInv, NEW i \in Ids, NEW c \in Customers, NEW f \in Folders,
         Insert(i, c, f), worker' = worker, faults' = faults,
         cust' \in [Customers -> Folders \cup {NoFolder}],
         call' \in [Calls -> Call]
  PROVE  GrantsInv'
<1> USE DEF GrantsInv
<1>1. TypeOK'
  BY InsertFacts DEF TypeOK
<1>2. JobsAreOpen'
  BY InsertFacts, JobFacts DEF JobsAreOpen, IsOpen
<1>3. JobsKeepTheirFolder'
  BY InsertFacts, JobFacts DEF JobsKeepTheirFolder
<1>4. ReportsAreTrue'
  BY InsertFacts, JobFacts DEF ReportsAreTrue, First
<1>5. DoneIsServed'
  BY InsertFacts DEF DoneIsServed
<1> QED BY <1>1, <1>2, <1>3, <1>4, <1>5

LEMMA UnqueuedKeeps ==
  ASSUME GrantsInv, Unqueued, worker' = worker, faults' = faults,
         cust' \in [Customers -> Folders \cup {NoFolder}],
         call' \in [Calls -> Call]
  PROVE  GrantsInv'
BY DEF GrantsInv, Unqueued, TypeOK, JobsAreOpen, JobsKeepTheirFolder,
       ReportsAreTrue, DoneIsServed, First, IsOpen

LEMMA AskingKeeps ==
  ASSUME GrantsInv, Asking
  PROVE  GrantsInv'
<1>0. TypeOK
  BY DEF GrantsInv
<1>1. ASSUME NEW c \in Customers, NEW f \in Folders, Queue(c, f),
             UNCHANGED <<call, worker, faults>>,
             cust' \in [Customers -> Folders \cup {NoFolder}]
      PROVE  GrantsInv'
  BY <1>0, <1>1, InsertKeeps, UnqueuedKeeps DEF Queue, TypeOK
<1>2. ASSUME NEW c \in Customers, NEW f \in Folders,
             CreateCustomer(c, f) \/ MoveCustomer(c, f)
      PROVE  GrantsInv'
  BY <1>0, <1>1, <1>2 DEF CreateCustomer, MoveCustomer, TypeOK
<1>3. ASSUME NEW c \in Customers, GrantAccess(c) PROVE GrantsInv'
  BY <1>0, <1>1, <1>3 DEF GrantAccess, TypeOK
<1>4. ASSUME NEW c \in Customers, RemoveCustomer(c) PROVE GrantsInv'
  <2>1. \A i \in Ids : rows'[i] \in {NoRow, rows[i]}
    BY <1>4 DEF RemoveCustomer
  <2>2. TypeOK'
    BY <1>0, <1>4, <2>1 DEF RemoveCustomer, TypeOK
  <2>3. JobsAreOpen' /\ JobsKeepTheirFolder' /\ ReportsAreTrue'
    BY <1>0, <1>4, <2>1, JobFacts DEF RemoveCustomer, GrantsInv, JobsAreOpen,
       JobsKeepTheirFolder, ReportsAreTrue, First, IsOpen
  <2>4. DoneIsServed'
    BY <1>4, <2>1 DEF RemoveCustomer, GrantsInv, DoneIsServed, NoRow
  <2> QED BY <2>2, <2>3, <2>4 DEF GrantsInv
<1>5. ASSUME NEW m \in Calls, NEW c \in Customers, CallReads(m, c)
      PROVE  GrantsInv'
  <2>1. [pc |-> "insert", cust |-> c, path |-> cust[c]] \in Call
    BY <1>0, <1>5 DEF CallReads, TypeOK, Call
  <2>2. call' \in [Calls -> Call]
    BY <1>0, <1>5, <2>1 DEF CallReads, TypeOK
  <2> QED BY <1>0, <1>5, <2>2, UnqueuedKeeps DEF CallReads, TypeOK
<1>6. ASSUME NEW m \in Calls, CallQueues(m) PROVE GrantsInv'
  <2>1. call[m].cust \in Customers /\ call[m].path \in Folders
    BY <1>0, <1>6 DEF CallQueues, TypeOK, Call
  <2>2. call' \in [Calls -> Call] /\ cust' \in [Customers -> Folders \cup {NoFolder}]
    BY <1>0, <1>6 DEF CallQueues, TypeOK, Call
  <2> QED BY <1>6, <2>1, <2>2, InsertKeeps, UnqueuedKeeps DEF CallQueues
<1> QED BY <1>2, <1>3, <1>4, <1>5, <1>6 DEF Asking

(* The worker. *)
LEMMA SelectDueKeeps ==
  ASSUME GrantsInv, SelectDue
  PROVE  GrantsInv'
<1> DEFINE due == {i \in Ids : Due(i)}
           jobs == {[id |-> i, path |-> rows[i].path] : i \in due}
<1>0. TypeOK
  BY DEF GrantsInv
<1>1. \A i \in due : IsOpen(i) /\ rows[i].path \in Folders
  BY <1>0, RowFacts DEF Due, IsOpen
<1>2. worker' = [pc |-> "claim", ok |-> FALSE, jobs |-> jobs]
  BY DEF SelectDue
<1>3. jobs \in SUBSET Job
  BY <1>1 DEF Job
<1>4. \A j \in jobs : j.id \in due /\ j.path = rows[j.id].path
  OBVIOUS
<1>5. \A j, k \in jobs : j.id = k.id => j = k
  OBVIOUS
<1> HIDE DEF jobs, due
<1>6. worker' \in Worker /\ worker'.jobs = jobs /\ worker'.pc = "claim"
  BY <1>2, <1>3 DEF Worker
<1>7. TypeOK'
  BY <1>0, <1>6 DEF SelectDue, Unqueued, TypeOK
<1>8. JobsAreOpen' /\ JobsKeepTheirFolder'
  BY <1>1, <1>4, <1>5, <1>6 DEF SelectDue, Unqueued, JobsAreOpen,
     JobsKeepTheirFolder, IsOpen
<1>9. ReportsAreTrue' /\ DoneIsServed'
  BY <1>6 DEF SelectDue, Unqueued, ReportsAreTrue, GrantsInv, DoneIsServed
<1> QED BY <1>7, <1>8, <1>9 DEF GrantsInv

LEMMA ClaimRows ==
  ASSUME TypeOK, JobsAreOpen, Claim
  PROVE  \A i \in Ids :
           \/ rows'[i] = rows[i]
           \/ /\ IsOpen(i) /\ rows'[i] \in Row /\ rows'[i].status = "running"
              /\ rows'[i].cust = rows[i].cust /\ rows'[i].path = rows[i].path
<1> SUFFICES ASSUME NEW i \in Ids, NEW j \in worker.jobs, j.id = i, rows[i] # NoRow
             PROVE  /\ IsOpen(i) /\ rows'[i] \in Row /\ rows'[i].status = "running"
                    /\ rows'[i].cust = rows[i].cust /\ rows'[i].path = rows[i].path
  BY DEF Claim
<1>1. rows'[i] = [rows[i] EXCEPT !.status = "running", !.age = 0]
  BY DEF Claim
<1>2. rows[i] \in Row /\ IsOpen(i)
  BY RowFacts DEF JobsAreOpen
<1>3. 0 \in 0..StaleSteps
  BY GrantsAssumption
<1>4. \A row \in Row : LET new == [row EXCEPT !.status = "running", !.age = 0] IN
        /\ new \in Row /\ new.status = "running"
        /\ new.cust = row.cust /\ new.path = row.path
  BY <1>3 DEF Row
<1> QED BY <1>1, <1>2, <1>4

LEMMA ClaimKeeps ==
  ASSUME GrantsInv, Claim
  PROVE  GrantsInv'
<1>0. TypeOK /\ JobsAreOpen
  BY DEF GrantsInv
<1>1. worker' \in Worker /\ worker'.jobs = worker.jobs /\ worker'.pc = "check"
  BY <1>0 DEF Claim, TypeOK, Worker
<1>2. TypeOK'
  <2>1. rows' \in [Ids -> {NoRow} \cup Row]
    <3>1. \A i \in Ids : rows'[i] \in {NoRow} \cup Row
      BY <1>0, ClaimRows DEF TypeOK
    <3> QED BY <3>1 DEF Claim
  <2> QED BY <1>0, <1>1, <2>1 DEF Claim, TypeOK
<1>3. JobsAreOpen'
  BY <1>0, <1>1, ClaimRows, JobFacts DEF JobsAreOpen, IsOpen
<1>4. JobsKeepTheirFolder'
  <2> SUFFICES ASSUME NEW j \in worker.jobs, rows'[j.id] # NoRow, j.id \notin astray
               PROVE  rows'[j.id].path = j.path
    BY <1>1 DEF JobsKeepTheirFolder, Claim
  <2>1. rows[j.id] # NoRow /\ rows'[j.id].path = rows[j.id].path
    BY <1>0, ClaimRows, JobFacts DEF IsOpen, NoRow
  <2> QED BY <2>1 DEF GrantsInv, JobsKeepTheirFolder
<1>5. ReportsAreTrue'
  BY <1>1 DEF ReportsAreTrue
<1>6. DoneIsServed'
  BY <1>0, ClaimRows DEF GrantsInv, DoneIsServed, Claim
<1> QED BY <1>2, <1>3, <1>4, <1>5, <1>6 DEF GrantsInv

LEMMA CheckKeeps ==
  ASSUME GrantsInv, Check
  PROVE  GrantsInv'
<1>1. /\ worker' \in Worker /\ worker'.jobs = worker.jobs
      /\ worker'.pc = "report" => ~ worker'.ok
  BY DEF GrantsInv, TypeOK, Worker, Check
<1>2. TypeOK'
  BY <1>1 DEF GrantsInv, TypeOK, Check, Unqueued
<1>3. JobsAreOpen' /\ JobsKeepTheirFolder'
  BY <1>1 DEF GrantsInv, JobsAreOpen, JobsKeepTheirFolder, Check, Unqueued, IsOpen
<1>4. ReportsAreTrue' /\ DoneIsServed'
  BY <1>1 DEF GrantsInv, ReportsAreTrue, DoneIsServed, Check, Unqueued
<1> QED BY <1>2, <1>3, <1>4 DEF GrantsInv

LEMMA ApplyKeeps ==
  ASSUME GrantsInv, NEW j \in worker.jobs, Apply(j)
  PROVE  GrantsInv'
<1>0. TypeOK /\ JobsAreOpen /\ JobsKeepTheirFolder /\ DoneIsServed
  BY DEF GrantsInv
<1>1. worker' \in Worker /\ worker'.jobs = worker.jobs
  BY <1>0 DEF TypeOK, Worker, Apply
<1>2. TypeOK'
  BY <1>0, <1>1 DEF TypeOK, Apply
<1>3. JobsAreOpen' /\ JobsKeepTheirFolder'
  BY <1>0, <1>1 DEF JobsAreOpen, JobsKeepTheirFolder, Apply, IsOpen
<1>4. DoneIsServed'
  BY <1>0 DEF DoneIsServed, Apply
<1>5. ReportsAreTrue'
  <2> SUFFICES ASSUME worker'.ok, NEW k \in worker.jobs, First(k)', rows[k.id] # NoRow
               PROVE  k.id \in served' \cup astray
    BY <1>1 DEF ReportsAreTrue, Apply
  <2>1. k.id = j.id
    <3>1. k.id <= j.id /\ j.id <= k.id
      BY <1>1 DEF First, Apply
    <3>2. k.id \in Ids /\ j.id \in Ids
      BY <1>0, JobFacts
    <3> QED BY <3>1, <3>2 DEF Ids
  <2>2. k = j
    BY <1>0, <2>1 DEF JobsAreOpen
  <2>3. served' = served \cup {i \in Ids : IsOpen(i) /\ rows[i].path = j.path}
    BY <1>0 DEF Apply, TypeOK, Worker
  <2>4. IsOpen(j.id) /\ (j.id \in astray \/ rows[j.id].path = j.path) /\ j.id \in Ids
    BY <1>0, <2>2, JobFacts DEF JobsAreOpen, JobsKeepTheirFolder
  <2> QED BY <2>2, <2>3, <2>4
<1> QED BY <1>2, <1>3, <1>4, <1>5 DEF GrantsInv

(* Going on takes the job out of the worker's hands. *)
LEMMA GoOnFacts ==
  ASSUME TypeOK, NEW j \in worker.jobs, GoOn(j)
  PROVE  /\ worker' \in Worker /\ worker'.pc # "report"
         /\ worker'.jobs = worker.jobs \ {j}
BY DEF TypeOK, Worker, GoOn, Asleep

LEMMA ReportKeeps ==
  ASSUME GrantsInv, NEW j \in worker.jobs, Report(j)
  PROVE  GrantsInv'
<1>0. TypeOK /\ JobsAreOpen /\ JobsKeepTheirFolder /\ DoneIsServed
  BY DEF GrantsInv
<1>1. j.id \in Ids /\ GoOn(j)
  BY <1>0, JobFacts DEF Report
<1>2. \A i \in Ids \ {j.id} : rows'[i] = rows[i]
  BY <1>0 DEF Report, TypeOK
<1>3. \/ rows[j.id] = NoRow /\ rows'[j.id] = NoRow
      \/ /\ rows[j.id] \in Row /\ rows'[j.id] \in Row
         /\ rows'[j.id].status = IF worker.ok THEN "done" ELSE "error"
  <2>1. CASE rows[j.id] = NoRow
    BY <2>1 DEF Report
  <2>2. CASE rows[j.id] # NoRow
    <3> DEFINE st == IF worker.ok THEN "done" ELSE "error"
    <3>1. st \in {"done", "error"}
      OBVIOUS
    <3>2. rows[j.id] \in Row
      BY <1>0, <1>1, <2>2, RowFacts
    <3>3. rows' = [rows EXCEPT ![j.id].status = st]
      BY <2>2 DEF Report
    <3> HIDE DEF st
    <3>4. rows'[j.id] = [rows[j.id] EXCEPT !.status = st]
      BY <1>0, <1>1, <3>3 DEF TypeOK
    <3>5. rows'[j.id] \in Row /\ rows'[j.id].status = st
      BY <3>1, <3>2, <3>4 DEF Row
    <3> QED BY <3>2, <3>5 DEF st
  <2> QED BY <2>1, <2>2
<1>4. TypeOK'
  <2>1. rows' \in [Ids -> {NoRow} \cup Row]
    <3>1. \A i \in Ids : rows'[i] \in {NoRow} \cup Row
      BY <1>0, <1>2, <1>3 DEF TypeOK
    <3> QED BY <1>0, <3>1 DEF Report, TypeOK
  <2> QED BY <1>0, <1>1, <2>1, GoOnFacts DEF Report, TypeOK
<1>5. \A k \in worker'.jobs : k \in worker.jobs /\ k.id # j.id /\ k.id \in Ids
  BY <1>0, <1>1, GoOnFacts, JobFacts DEF JobsAreOpen
<1>6. JobsAreOpen' /\ JobsKeepTheirFolder'
  BY <1>0, <1>2, <1>5 DEF JobsAreOpen, JobsKeepTheirFolder, IsOpen, Report
<1>7. ReportsAreTrue'
  BY <1>0, <1>1, GoOnFacts DEF ReportsAreTrue
<1>8. DoneIsServed'
  BY <1>0, <1>2, <1>3 DEF DoneIsServed, GrantsInv, ReportsAreTrue, Report, NoRow
<1> QED BY <1>4, <1>6, <1>7, <1>8 DEF GrantsInv

LEMMA FaultKeeps ==
  ASSUME GrantsInv, Fault
  PROVE  GrantsInv'
<1>0. TypeOK
  BY DEF GrantsInv
<1>1. /\ worker' \in Worker /\ worker'.jobs \subseteq worker.jobs
      /\ worker'.pc # "report"
  <2>1. CASE WorkerDies
    BY <2>1 DEF WorkerDies, Asleep, Worker
  <2>2. ASSUME NEW j \in worker.jobs, ReportFails(j)
        PROVE  /\ worker' \in Worker /\ worker'.jobs \subseteq worker.jobs
               /\ worker'.pc # "report"
    <3>1. GoOn(j)
      BY <2>2 DEF ReportFails
    <3> QED BY <1>0, <3>1, GoOnFacts
  <2> QED BY <2>1, <2>2 DEF Fault
<1>2. Unqueued /\ cust' = cust /\ call' = call /\ faults' \in 0..MaxFaults
  <2>1. Unqueued /\ cust' = cust /\ call' = call /\ faults' = faults + 1
        /\ faults < MaxFaults
    BY DEF Fault, WorkerDies, ReportFails
  <2> QED BY <1>0, <2>1, GrantsAssumption DEF TypeOK
<1>3. TypeOK'
  BY <1>0, <1>1, <1>2 DEF TypeOK, Unqueued
<1>4. JobsAreOpen' /\ JobsKeepTheirFolder'
  BY <1>1, <1>2 DEF GrantsInv, JobsAreOpen, JobsKeepTheirFolder, Unqueued, IsOpen
<1>5. ReportsAreTrue' /\ DoneIsServed'
  BY <1>1, <1>2 DEF GrantsInv, ReportsAreTrue, DoneIsServed, Unqueued
<1> QED BY <1>3, <1>4, <1>5 DEF GrantsInv

LEMMA TickRows ==
  ASSUME TypeOK, Tick, NEW i \in Ids
  PROVE  \/ rows'[i] = rows[i]
         \/ /\ IsOpen(i) /\ rows'[i] \in Row /\ rows'[i].status = "running"
            /\ rows'[i].cust = rows[i].cust /\ rows'[i].path = rows[i].path
<1> SUFFICES ASSUME rows[i].status = "running", rows[i].age < StaleSteps
             PROVE  /\ IsOpen(i) /\ rows'[i] \in Row /\ rows'[i].status = "running"
                    /\ rows'[i].cust = rows[i].cust /\ rows'[i].path = rows[i].path
  BY DEF Tick
<1>1. rows[i] \in Row
  BY RowFacts
<1> DEFINE n == rows[i].age + 1
<1>2. n \in 0..StaleSteps
  BY <1>1, GrantsAssumption DEF Row
<1>3. rows'[i] = [rows[i] EXCEPT !.age = n]
  BY DEF Tick
<1> HIDE DEF n
<1> QED BY <1>1, <1>2, <1>3 DEF Row, IsOpen

LEMMA TickKeeps ==
  ASSUME GrantsInv, Tick
  PROVE  GrantsInv'
<1>0. TypeOK /\ JobsAreOpen /\ JobsKeepTheirFolder /\ ReportsAreTrue /\ DoneIsServed
  BY DEF GrantsInv
<1>1. TypeOK'
  <2>1. \A i \in Ids : rows'[i] \in {NoRow} \cup Row
    BY <1>0, TickRows DEF TypeOK
  <2> QED BY <1>0, <2>1 DEF Tick, TypeOK
<1>2. \A i \in Ids : /\ rows'[i] # NoRow <=> rows[i] # NoRow
                     /\ IsOpen(i)' <=> IsOpen(i)
                     /\ rows'[i] # NoRow => rows'[i].path = rows[i].path
                     /\ rows'[i].status = "done" => rows[i].status = "done"
  BY <1>0, TickRows DEF IsOpen, NoRow
<1>3. JobsAreOpen' /\ JobsKeepTheirFolder' /\ ReportsAreTrue'
  BY <1>0, <1>2, JobFacts DEF Tick, JobsAreOpen, JobsKeepTheirFolder,
     ReportsAreTrue, First
<1>4. DoneIsServed'
  BY <1>0, <1>2 DEF Tick, DoneIsServed
<1> QED BY <1>1, <1>3, <1>4 DEF GrantsInv

LEMMA GrantsInvKept ==
  ASSUME GrantsInv, [Next]_vars
  PROVE  GrantsInv'
<1>1. CASE UNCHANGED vars
  BY <1>1, UnqueuedKeeps DEF vars, Unqueued, GrantsInv, TypeOK
<1> QED BY <1>1, AskingKeeps, SelectDueKeeps, ClaimKeeps, CheckKeeps, ApplyKeeps,
           ReportKeeps, FaultKeeps, TickKeeps DEF Next, WorkerStep

(* Whenever the worker dies and whatever is asked or removed meanwhile, a     *)
(* request reported as done had its folder given access while it was open.    *)
THEOREM GrantsInvHolds == Spec => []GrantsInv
<1>1. Init => GrantsInv
  <2> SUFFICES ASSUME Init PROVE GrantsInv
    OBVIOUS
  <2>1. Asleep \in Worker /\ Asleep.jobs = {} /\ Asleep.pc = "idle"
    BY DEF Asleep, Worker
  <2>2. TypeOK
    BY <2>1, GrantsAssumption DEF Init, TypeOK, Call
  <2> QED BY <2>1, <2>2 DEF Init, GrantsInv, JobsAreOpen, JobsKeepTheirFolder,
          ReportsAreTrue, DoneIsServed, NoRow
<1> QED BY <1>1, GrantsInvKept, PTL DEF Spec

(* The outcome of a request, once reported, stays. *)
THEOREM OutcomeStaysHolds == Spec => OutcomeStays
<1> DEFINE Stays == \A i \in Ids : rows[i].status \in {"done", "error"} =>
                                     rows'[i] = rows[i] \/ rows'[i] = NoRow
<1>1. ASSUME GrantsInv, Next PROVE Stays
  <2> SUFFICES ASSUME NEW i \in Ids, rows[i].status \in {"done", "error"}
               PROVE  rows'[i] = rows[i] \/ rows'[i] = NoRow
    OBVIOUS
  <2>0. TypeOK /\ JobsAreOpen /\ rows[i] # NoRow /\ ~ IsOpen(i)
    BY <1>1 DEF GrantsInv, NoRow, IsOpen
  <2>1. ASSUME NEW c \in Customers, NEW f \in Folders, Queue(c, f)
        PROVE  rows'[i] = rows[i]
    BY <2>0, <2>1, InsertFacts DEF Queue, Unqueued
  <2>2. CASE Asking
    <3>1. ASSUME NEW m \in Calls, CallQueues(m) PROVE rows'[i] = rows[i]
      <4>1. call[m].cust \in Customers /\ call[m].path \in Folders
        BY <2>0, <3>1 DEF CallQueues, TypeOK, Call
      <4> QED BY <2>0, <3>1, <4>1, InsertFacts DEF CallQueues, Unqueued
    <3>2. ASSUME NEW c \in Customers, GrantAccess(c) PROVE rows'[i] = rows[i]
      BY <2>0, <2>1, <3>2 DEF GrantAccess, TypeOK
    <3> QED BY <2>1, <2>2, <3>1, <3>2 DEF Asking, CreateCustomer, MoveCustomer,
            RemoveCustomer, CallReads, Unqueued
  <2>3. CASE Claim
    BY <2>0, <2>3, ClaimRows
  <2>4. ASSUME NEW j \in worker.jobs, Report(j) PROVE rows'[i] = rows[i]
    <3>1. rows[j.id] # NoRow => j.id # i
      BY <2>0 DEF JobsAreOpen
    <3> QED BY <2>0, <2>4, <3>1 DEF Report, TypeOK
  <2>5. CASE Tick
    BY <2>0, <2>5, TickRows
  <2>6. CASE rows' = rows
    BY <2>6
  <2> QED BY <1>1, <2>2, <2>3, <2>4, <2>5, <2>6 DEF Next, WorkerStep, SelectDue,
          Check, Apply, Fault, WorkerDies, ReportFails, Unqueued
<1>2. GrantsInv /\ [Next]_vars => [Stays]_vars
  BY <1>1
<1> QED BY <1>2, GrantsInvHolds, PTL DEF Spec, OutcomeStays

-----------------------------------------------------------------------------
(* How many requests of one folder are open                                  *)

LEMMA CountsAreFinite ==
  ASSUME NEW c, NEW f
  PROVE  /\ IsFiniteSet(OpenFor(c, f)) /\ Cardinality(OpenFor(c, f)) \in Nat
         /\ IsFiniteSet(Waiting(c, f)) /\ Cardinality(Waiting(c, f)) \in Nat
         /\ Cardinality(Calls) \in Nat
         /\ Cardinality(Waiting(c, f)) <= Cardinality(Calls)
<1>1. IsFiniteSet(Ids)
  BY GrantsAssumption, FS_Interval DEF Ids
<1>2. OpenFor(c, f) \subseteq Ids /\ Waiting(c, f) \subseteq Calls
  BY DEF OpenFor, Waiting
<1> QED BY <1>1, <1>2, GrantsAssumption, FS_Subset, FS_CardinalityType

(* Fewer open requests and fewer waiting calls keep the bound. *)
LEMMA FewerKeepsBound ==
  ASSUME OpenBound, NEW c \in Customers, NEW f \in Folders,
         OpenFor(c, f)' \subseteq OpenFor(c, f),
         Waiting(c, f)' \subseteq Waiting(c, f),
         OpenFor(c, f)' # {}
  PROVE  Cardinality(OpenFor(c, f)') + Cardinality(Waiting(c, f)')
           <= 1 + Cardinality(Calls)
<1>1. /\ Cardinality(OpenFor(c, f)') <= Cardinality(OpenFor(c, f))
      /\ Cardinality(Waiting(c, f)') <= Cardinality(Waiting(c, f))
      /\ Cardinality(OpenFor(c, f)') \in Nat /\ Cardinality(Waiting(c, f)') \in Nat
  BY CountsAreFinite, FS_Subset, FS_CardinalityType
<1>2. Cardinality(OpenFor(c, f)) + Cardinality(Waiting(c, f)) <= 1 + Cardinality(Calls)
  BY DEF OpenBound
<1> QED BY <1>1, <1>2, CountsAreFinite

(* A new request is the only one of its folder to become open. *)
LEMMA InsertOpens ==
  ASSUME TypeOK, NEW i \in Ids, NEW c \in Customers, NEW f \in Folders,
         Insert(i, c, f)
  PROVE  /\ OpenFor(c, f)' = OpenFor(c, f) \cup {i} /\ i \notin OpenFor(c, f)
         /\ \A d \in Customers, g \in Folders :
              d # c \/ g # f => OpenFor(d, g)' = OpenFor(d, g)
BY InsertFacts DEF OpenFor, IsOpen, NoRow

(* The web looks and queues in one step. *)
LEMMA QueueKeepsBound ==
  ASSUME TypeOK, OpenBound, NEW c \in Customers, NEW f \in Folders, Queue(c, f),
         call' = call
  PROVE  OpenBound'
<1>0. \A d, g : Waiting(d, g)' = Waiting(d, g)
  BY DEF Waiting
<1>1. CASE OpenFor(c, f) # {}
  BY <1>0, <1>1 DEF Queue, Unqueued, OpenBound, OpenFor, IsOpen
<1>2. ASSUME OpenFor(c, f) = {}, NEW i \in Ids, Insert(i, c, f) PROVE OpenBound'
  <2> SUFFICES ASSUME NEW d \in Customers, NEW g \in Folders, OpenFor(d, g)' # {}
               PROVE  Cardinality(OpenFor(d, g)') + Cardinality(Waiting(d, g)')
                        <= 1 + Cardinality(Calls)
    BY DEF OpenBound
  <2>1. CASE d = c /\ g = f
    <3>1. OpenFor(d, g)' = {i}
      BY <1>2, <2>1, InsertOpens
    <3>2. Cardinality(OpenFor(d, g)') = 1
      BY <3>1, FS_Singleton
    <3> QED BY <1>0, <3>2, CountsAreFinite
  <2>2. CASE d # c \/ g # f
    BY <1>0, <1>2, <2>2, InsertOpens, FewerKeepsBound
  <2> QED BY <2>1, <2>2
<1> QED BY <1>1, <1>2 DEF Queue

(* A call waits only from when nothing is open. *)
LEMMA CallReadsKeepsBound ==
  ASSUME TypeOK, OpenBound, NEW m \in Calls, NEW c \in Customers, CallReads(m, c)
  PROVE  OpenBound'
<1> SUFFICES ASSUME NEW d \in Customers, NEW g \in Folders, OpenFor(d, g)' # {}
             PROVE  Cardinality(OpenFor(d, g)') + Cardinality(Waiting(d, g)')
                      <= 1 + Cardinality(Calls)
  BY DEF OpenBound
<1>1. OpenFor(d, g)' = OpenFor(d, g)
  BY DEF CallReads, Unqueued, OpenFor, IsOpen
<1>2. d # c \/ g # cust[c]
  BY <1>1 DEF CallReads
<1>3. call' = [call EXCEPT ![m] = [pc |-> "insert", cust |-> c, path |-> cust[c]]]
  BY DEF CallReads
<1>4. Waiting(d, g)' \subseteq Waiting(d, g)
  BY <1>2, <1>3 DEF Waiting, TypeOK
<1> QED BY <1>1, <1>4, FewerKeepsBound

(* An INSERT takes one from the waiting for the one it opens. *)
LEMMA CallQueuesKeepsBound ==
  ASSUME TypeOK, OpenBound, NEW m \in Calls, CallQueues(m)
  PROVE  OpenBound'
<1>1. PICK c \in Customers, f \in Folders :
        call[m] = [pc |-> "insert", cust |-> c, path |-> f]
  BY DEF CallQueues, TypeOK, Call
<1>2. Silent # call[m] /\ call' = [call EXCEPT ![m] = Silent]
  BY DEF CallQueues
<1>3. \A d, g : Waiting(d, g)' = Waiting(d, g) \ {m}
  <2>1. \A d, g : Silent # [pc |-> "insert", cust |-> d, path |-> g]
    BY DEF Silent
  <2> QED BY <1>2, <2>1 DEF Waiting, TypeOK
<1>4. m \in Waiting(c, f)
  BY <1>1 DEF Waiting
<1>5. CASE Unqueued
  <2>1. \A d, g : OpenFor(d, g)' = OpenFor(d, g)
    BY <1>5 DEF Unqueued, OpenFor, IsOpen
  <2> QED BY <1>3, <2>1, FewerKeepsBound DEF OpenBound
<1>6. ASSUME NEW i \in Ids, Insert(i, c, f) PROVE OpenBound'
  <2> SUFFICES ASSUME NEW d \in Customers, NEW g \in Folders, OpenFor(d, g)' # {}
               PROVE  Cardinality(OpenFor(d, g)') + Cardinality(Waiting(d, g)')
                        <= 1 + Cardinality(Calls)
    BY DEF OpenBound
  <2>1. CASE d = c /\ g = f
    <3>1. Cardinality(OpenFor(c, f)') = Cardinality(OpenFor(c, f)) + 1
      BY <1>1, <1>6, InsertOpens, CountsAreFinite, FS_AddElement
    <3>2. Cardinality(Waiting(c, f)') = Cardinality(Waiting(c, f)) - 1
      BY <1>3, <1>4, CountsAreFinite, FS_RemoveElement
    <3>3. OpenFor(c, f) = {} => Cardinality(OpenFor(c, f)) = 0
      BY FS_EmptySet
    <3>4. OpenFor(c, f) # {} =>
            Cardinality(OpenFor(c, f)) + Cardinality(Waiting(c, f))
              <= 1 + Cardinality(Calls)
      BY <1>1 DEF OpenBound
    <3> QED BY <2>1, <3>1, <3>2, <3>3, <3>4, CountsAreFinite
  <2>2. CASE d # c \/ g # f
    BY <1>1, <1>3, <1>6, <2>2, InsertOpens, FewerKeepsBound
  <2> QED BY <2>1, <2>2
<1> QED BY <1>1, <1>5, <1>6 DEF CallQueues

(* However many customers, folders and MCP calls there are, no more requests  *)
(* of one folder are open than one and one for each call in progress.         *)
THEOREM OpenBoundHolds == Spec => []OpenBound
<1>1. Init => OpenBound
  BY DEF Init, OpenBound, OpenFor, IsOpen, NoRow
<1>2. ASSUME GrantsInv, OpenBound, [Next]_vars PROVE OpenBound'
  <2>0. TypeOK /\ JobsAreOpen
    BY <1>2 DEF GrantsInv
  <2>1. CASE /\ call' = call
             /\ \A c \in Customers, f \in Folders : OpenFor(c, f)' \subseteq OpenFor(c, f)
    <3>1. \A c, f : Waiting(c, f)' = Waiting(c, f)
      BY <2>1 DEF Waiting
    <3> QED BY <1>2, <2>1, <3>1, FewerKeepsBound DEF OpenBound
  <2>2. ASSUME NEW c \in Customers, NEW f \in Folders,
               CreateCustomer(c, f) \/ MoveCustomer(c, f)
        PROVE  OpenBound'
    BY <1>2, <2>0, <2>2, QueueKeepsBound DEF CreateCustomer, MoveCustomer
  <2>3. ASSUME NEW c \in Customers, GrantAccess(c) PROVE OpenBound'
    BY <1>2, <2>0, <2>3, QueueKeepsBound DEF GrantAccess, TypeOK
  <2>4. ASSUME NEW c \in Customers, RemoveCustomer(c) PROVE OpenBound'
    BY <2>1, <2>4 DEF RemoveCustomer, OpenFor, IsOpen, NoRow
  <2>5. CASE Asking
    BY <1>2, <2>0, <2>2, <2>3, <2>4, <2>5, CallReadsKeepsBound,
       CallQueuesKeepsBound DEF Asking
  <2>6. CASE Claim
    BY <2>0, <2>1, <2>6, ClaimRows DEF Claim, OpenFor, IsOpen
  <2>7. CASE Tick
    BY <2>0, <2>1, <2>7, TickRows DEF Tick, OpenFor, IsOpen
  <2>8. ASSUME NEW j \in worker.jobs, Report(j) PROVE OpenBound'
    <3>1. \A i \in Ids : rows'[i] = rows[i]
                           \/ rows'[i].status \in {"done", "error"}
      <4>1. rows[j.id] # NoRow =>
              rows'[j.id] = [rows[j.id] EXCEPT !.status =
                               IF worker.ok THEN "done" ELSE "error"]
        BY <2>0, <2>8, JobFacts DEF Report, TypeOK
      <4>2. rows[j.id] # NoRow => rows'[j.id].status \in {"done", "error"}
        BY <2>0, <4>1, JobFacts, RowFacts DEF Row
      <4> QED BY <2>0, <2>8, <4>2 DEF Report, TypeOK
    <3> QED BY <2>1, <2>8, <3>1 DEF Report, OpenFor, IsOpen
  <2>9. CASE rows' = rows /\ call' = call
    BY <2>1, <2>9 DEF OpenFor, IsOpen
  <2> QED BY <1>2, <2>5, <2>6, <2>7, <2>8, <2>9 DEF Next, WorkerStep, SelectDue,
          Check, Apply, Fault, WorkerDies, ReportFails, Unqueued, vars
<1> QED BY <1>1, <1>2, GrantsInvHolds, PTL DEF Spec
=============================================================================
