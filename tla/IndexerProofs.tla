--------------------------- MODULE IndexerProofs ---------------------------
(***************************************************************************)
(* Proofs about Indexer for every number of customers, disks, files and      *)
(* workers.                                                                  *)
(***************************************************************************)
EXTENDS Indexer, TLAPS

(* The constants that start and reset the tables are of their types. *)
LEMMA Defaults ==
  /\ SomeRoot \in Roots /\ SomeId \in Ids
  /\ NoEntry \in Entry /\ NoRow \in Row /\ NoRows \in [Files -> Row]
  /\ Idle \in Run /\ NoHistory \in History
<1>1. SomeRoot \in Roots /\ SomeId \in Ids
  BY IndexerAssumption DEF SomeRoot, SomeId
<1>2. NoEntry \in Entry /\ NoRow \in Row /\ NoRows \in [Files -> Row]
  BY IndexerAssumption DEF NoEntry, Entry, NoRow, Row, NoRows, DiskOrNone
<1>3. Idle \in Run
  BY <1>1, <1>2 DEF Idle, Run, NoEntry, DiskOrNone
<1>4. NoHistory \in History
  BY DEF NoHistory, History, DiskOrNone
<1> QED BY <1>1, <1>2, <1>3, <1>4

(* The walk's bookkeeping keeps a run a run. *)
LEMMA AfterWalkType ==
  ASSUME NEW r \in Run PROVE AfterWalk(r) \in Run
BY DEF AfterWalk, Run

(* A call's local state changes to another of its type. *)
LEMMA SetType ==
  ASSUME TypeOK, NEW w \in Workers, NEW r \in Run, Set(w, r)
  PROVE  run' \in [Workers -> Run]
BY DEF TypeOK, Set

(* So does the history, whoever stays alone. *)
LEMMA ObserveType ==
  ASSUME TypeOK, NEW W, Observe(W)
  PROVE  hist' \in [Workers -> History]
<1>1. ASSUME NEW w \in Workers
      PROVE  [hist[w] EXCEPT !.alone = @ /\ w \in W] \in History
  BY DEF TypeOK, History
<1> QED BY <1>1, Defaults DEF Observe

(* A spent event stays within the bound. *)
LEMMA EventType ==
  ASSUME TypeOK, Event \/ UNCHANGED events
  PROVE  events' \in 0..MaxEvents
BY IndexerAssumption DEF TypeOK, Event

-----------------------------------------------------------------------------
(* Type correctness, one lemma per kind of step. *)

LEMMA RunStepType ==
  ASSUME TypeOK, NEW w \in Workers, RunStep(w)
  PROVE  TypeOK'
<1> USE DEF world, tables
<1> DEFINE r == run[w]
<1>0. r \in Run /\ hist[w] \in History
  BY DEF TypeOK
<1>r. /\ r.id \in Ids /\ r.root \in Roots /\ mount[r.root] \in DiskOrNone
      /\ r.serial \in DiskOrNone /\ r.disk \in DiskOrNone
      /\ r.walk \in [Files -> Entry] /\ r.batch \in SUBSET Files
      /\ r.rest \in SUBSET Files /\ r.names \in SUBSET Files
      /\ r.folders \in SUBSET Folders
  BY <1>0 DEF TypeOK, Run
<1>1. ASSUME NEW c \in Ids, StartRun(w, c) PROVE TypeOK'
  <2>1. [Idle EXCEPT !.pc = "open", !.id = c, !.root = cust[c].root,
                     !.serial = cust[c].serial] \in Run
    BY Defaults DEF TypeOK, Run, Customer
  <2>2. run' \in [Workers -> Run]
    BY <1>1, <2>1, Defaults, SetType DEF StartRun, Finish
  <2>3. todo' \in SUBSET Ids
    BY <1>1 DEF TypeOK, StartRun
  <2> QED BY <1>1, <2>2, <2>3 DEF TypeOK, StartRun
<1>2. CASE OpenRun(w)
  <2>1. [r EXCEPT !.pc = "online"] \in Run
    BY <1>0 DEF Run
  <2>2. run' \in [Workers -> Run]
    BY <1>2, <2>1, Defaults, SetType DEF OpenRun, Finish, Goto
  <2>3. hist' \in [Workers -> History]
    BY <1>2, ObserveType DEF OpenRun
  <2> QED BY <1>2, <2>2, <2>3 DEF TypeOK, OpenRun
<1>3. CASE AskOnline(w)
  <2>1. [r EXCEPT !.pc = "serial"] \in Run
    BY <1>0 DEF Run
  <2>2. run' \in [Workers -> Run]
    BY <1>3, <2>1, Defaults, SetType DEF AskOnline, Finish, Goto
  <2>3. hist' \in [Workers -> History]
    BY <1>3, ObserveType DEF AskOnline
  <2> QED BY <1>3, <2>2, <2>3 DEF TypeOK, AskOnline
<1>11. CASE AskSerial(w)
  <2>1. ASSUME NEW d \in SerialAnswers(r.root)
        PROVE  [r EXCEPT !.disk = d,
                  !.pc = IF d # NoDisk /\ r.serial = NoDisk THEN "bind"
                         ELSE "scan"] \in Run
    BY <1>0, <1>r DEF Run, SerialAnswers, DiskOrNone
  <2>2. run' \in [Workers -> Run]
    BY <1>11, <2>1, Defaults, SetType DEF AskSerial, Finish
  <2>3. hist' \in [Workers -> History]
    BY <1>11, ObserveType DEF AskSerial
  <2>4. events' \in 0..MaxEvents
    BY <1>11, EventType DEF AskSerial
  <2> QED BY <1>11, <2>2, <2>3, <2>4 DEF TypeOK, AskSerial
<1>4. CASE Bind(w)
  <2>1. [r EXCEPT !.pc = "scan"] \in Run
    BY <1>0 DEF Run
  <2>2. run' \in [Workers -> Run]
    BY <1>4, <2>1, SetType DEF Bind, Goto
  <2>3. cust' \in [Ids -> Customer]
    <3> DEFINE new == [cust[r.id] EXCEPT !.serial = r.disk]
    <3>1. new \in Customer
      <4>1. ASSUME NEW c \in Customer, NEW d \in DiskOrNone
            PROVE  [c EXCEPT !.serial = d] \in Customer
        BY DEF Customer
      <4>2. cust[r.id] \in Customer
        BY <1>r DEF TypeOK
      <4> QED BY <1>r, <4>1, <4>2
    <3>2. cust' = cust \/ cust' = [cust EXCEPT ![r.id] = new]
      <4>1. CASE r.id \in Live
        BY Zenon, <1>4, <4>1 DEF Bind
      <4>2. CASE r.id \notin Live
        BY <1>4, <4>2 DEF Bind
      <4> QED BY <4>1, <4>2
    <3> HIDE DEF new
    <3> QED BY <1>r, <3>1, <3>2 DEF TypeOK
  <2>4. hist' \in [Workers -> History]
    BY <1>4, ObserveType DEF Bind
  <2> QED BY <1>4, <2>2, <2>3, <2>4 DEF TypeOK, Bind
<1>5. CASE ScanRoot(w)
  <2>1. [r EXCEPT !.pc = "walk", !.folders = Folders] \in Run
    BY <1>0 DEF Run
  <2>2. run' \in [Workers -> Run]
    BY <1>5, <2>1, Defaults, SetType DEF ScanRoot, Finish
  <2>3. hist' \in [Workers -> History]
    <3>1. Missing(mount[r.root]) \in SUBSET Files
      BY DEF Missing
    <3>2. [hist[w] EXCEPT !.missed = Missing(mount[r.root])] \in History
      BY <1>0, <3>1 DEF History
    <3> QED BY <1>5, <3>2, ObserveType DEF ScanRoot, TypeOK
  <2>4. events' \in 0..MaxEvents
    BY <1>5, EventType DEF ScanRoot
  <2> QED BY <1>5, <2>2, <2>3, <2>4 DEF TypeOK, ScanRoot
<1>6. CASE ListFolder(w)
  <2>1. ASSUME NEW d PROVE
          /\ [r EXCEPT !.folders = @ \ {d}, !.errors = TRUE] \in Run
          /\ [r EXCEPT !.folders = @ \ {d},
                       !.names = {f \in Visible(r.root) : FolderOf[f] = d}] \in Run
    <3>1. {f \in Visible(r.root) : FolderOf[f] = d} \in SUBSET Files
      BY DEF Visible
    <3> QED BY <1>0, <3>1 DEF Run
  <2>2. run' \in [Workers -> Run]
    BY <1>6, <2>1, AfterWalkType, SetType DEF ListFolder
  <2>4. events' \in 0..MaxEvents
    BY <1>6, EventType DEF ListFolder
  <2> QED BY <1>6, <2>2, <2>4 DEF TypeOK, ListFolder
<1>7. CASE StatFile(w)
  <2>1. ASSUME NEW f \in r.names PROVE
          /\ [r EXCEPT !.names = @ \ {f}] \in Run
          /\ f \in Visible(r.root) =>
               [r EXCEPT !.names = @ \ {f},
                         !.walk[f] = [disk |-> mount[r.root],
                                      ver |-> content[mount[r.root]][f]]] \in Run
          /\ [hist EXCEPT ![w].skipped = @ \cup {f}] \in [Workers -> History]
    <3>0. f \in Files
      BY <1>r
    <3>1. f \in Visible(r.root) =>
            [disk |-> mount[r.root], ver |-> content[mount[r.root]][f]] \in Entry
      BY <3>0, <1>r DEF Visible, Online, TypeOK, Entry, DiskOrNone
    <3>2. [hist EXCEPT ![w].skipped = @ \cup {f}] \in [Workers -> History]
      BY <3>0 DEF TypeOK, History
    <3> QED BY <1>0, <3>0, <3>1, <3>2 DEF Run
  <2>2. run' \in [Workers -> Run] /\ hist' \in [Workers -> History]
    BY <1>7, <2>1, AfterWalkType, SetType DEF StatFile, TypeOK
  <2>4. events' \in 0..MaxEvents
    BY <1>7, EventType DEF StatFile
  <2> QED BY <1>7, <2>2, <2>4 DEF TypeOK, StatFile
<1>8. CASE SelectBatch(w)
  <2>1. [r EXCEPT !.pc = "delete", !.rest = {}] \in Run
    BY <1>0 DEF Run
  <2>2. ASSUME NEW taken \in SUBSET r.rest, NEW passed PROVE
          [r EXCEPT !.rest = @ \ (taken \cup passed),
                    !.batch = {f \in taken : Writable(r.id, r.walk, f)},
                    !.pc = IF \E f \in taken : Writable(r.id, r.walk, f)
                           THEN "upsert" ELSE "select"] \in Run
    BY <1>0, <1>r DEF Run
  <2>3. CASE Set(w, [r EXCEPT !.pc = "delete", !.rest = {}])
    BY <1>8, <2>1, <2>3, SetType DEF SelectBatch, TypeOK, world, tables
  <2> DEFINE stale == {f \in r.rest : Stale(r.id, r.walk, f)}
             next(taken, passed) ==
               [r EXCEPT !.rest = @ \ (taken \cup passed),
                         !.batch = {f \in taken : Writable(r.id, r.walk, f)},
                         !.pc = IF \E f \in taken : Writable(r.id, r.walk, f)
                                THEN "upsert" ELSE "select"]
  <2>4. ASSUME NEW taken \in SUBSET stale, NEW passed \in SUBSET (r.rest \ stale),
               Set(w, next(taken, passed))
        PROVE  TypeOK'
    <3>1. taken \in SUBSET r.rest
      BY <2>4
    <3>2. next(taken, passed) \in Run
      BY <2>2, <3>1
    <3>3. run' \in [Workers -> Run]
      BY <2>4, <3>2, SetType
    <3> QED BY <1>8, <3>3 DEF SelectBatch, TypeOK, world, tables
  <2>5. \/ Set(w, [r EXCEPT !.pc = "delete", !.rest = {}])
        \/ \E taken \in SUBSET stale, passed \in SUBSET (r.rest \ stale) :
             Set(w, next(taken, passed))
    BY <1>8, Zenon DEF SelectBatch
  <2> HIDE DEF stale, next
  <2> QED BY <2>3, <2>4, <2>5
<1>9. CASE UpsertBatch(w)
  <2>1. [r EXCEPT !.pc = "select", !.batch = {}] \in Run
    BY <1>0 DEF Run
  <2>2. run' \in [Workers -> Run]
    BY <1>9, <2>1, Defaults, SetType DEF UpsertBatch, Finish
  <2>3. rows' \in [Ids -> [Files -> Row]]
    <3> DEFINE new == [f \in Files |->
                 IF f \in r.batch
                 THEN [ver |-> r.walk[f].ver, parsed |-> f \in parser]
                 ELSE rows[r.id][f]]
    <3>1. ASSUME NEW f \in Files PROVE new[f] \in Row
      BY <1>r DEF TypeOK, Row, Entry
    <3>2. new \in [Files -> Row]
      BY <3>1
    <3>3. rows' = rows \/ rows' = [rows EXCEPT ![r.id] = new]
      BY <1>9 DEF UpsertBatch
    <3> QED BY <1>r, <3>2, <3>3 DEF TypeOK
  <2>4. hist' \in [Workers -> History]
    BY <1>9, ObserveType DEF UpsertBatch
  <2> QED BY <1>9, <2>2, <2>3, <2>4 DEF TypeOK, UpsertBatch
<1>10. CASE DeleteMissing(w)
  <2>2. run' \in [Workers -> Run]
    BY <1>10, Defaults, SetType DEF DeleteMissing, Finish
  <2>3. rows' \in [Ids -> [Files -> Row]]
    <3> DEFINE new == [f \in Files |->
                 IF r.walk[f].ver = 0 THEN NoRow ELSE rows[r.id][f]]
    <3>1. new \in [Files -> Row]
      BY <1>r, Defaults DEF TypeOK
    <3>2. rows' = rows \/ rows' = [rows EXCEPT ![r.id] = new]
      BY <1>10 DEF DeleteMissing
    <3> QED BY <1>r, <3>1, <3>2 DEF TypeOK
  <2>4. hist' \in [Workers -> History]
    BY <1>10, ObserveType DEF DeleteMissing
  <2> QED BY <1>10, <2>2, <2>3, <2>4 DEF TypeOK, DeleteMissing
<1> QED BY <1>1, <1>2, <1>3, <1>4, <1>5, <1>6, <1>7, <1>8, <1>9, <1>10, <1>11
   DEF RunStep

LEMMA FaultType ==
  ASSUME TypeOK, NEW w \in Workers, RunFails(w) \/ Crash(w)
  PROVE  TypeOK'
<1>1. run' \in [Workers -> Run]
  BY Defaults, SetType DEF RunFails, Crash, Finish
<1>2. hist' \in [Workers -> History]
  BY ObserveType DEF RunFails, Crash
<1>3. events' \in 0..MaxEvents
  BY EventType DEF RunFails, Crash
<1>4. todo' \in SUBSET Ids
  BY DEF RunFails, Crash, TypeOK
<1> QED BY <1>1, <1>2, <1>3, <1>4 DEF RunFails, Crash, TypeOK, world, tables

LEMMA AdminStepType ==
  ASSUME TypeOK, AdminStep
  PROVE  TypeOK'
<1> USE DEF world, tables
<1>1. ASSUME NEW c \in Ids, NEW r \in Roots, NEW viaWeb \in BOOLEAN,
             NEW e \in BOOLEAN, AddCustomer(c, r, viaWeb, e)
      PROVE  TypeOK'
  <2>1. cust' \in [Ids -> Customer]
    <3>1. PICK d \in DiskOrNone :
            cust' = [cust EXCEPT ![c] = [live |-> TRUE, root |-> r,
                                         enabled |-> e, serial |-> d]]
      BY <1>1 DEF TypeOK, AddCustomer, SerialAnswers, DiskOrNone
    <3>2. [live |-> TRUE, root |-> r, enabled |-> e, serial |-> d] \in Customer
      BY DEF Customer
    <3> QED BY <3>1, <3>2 DEF TypeOK
  <2>2. hist' \in [Workers -> History] /\ events' \in 0..MaxEvents
    BY <1>1, ObserveType, EventType DEF AddCustomer
  <2> QED BY <1>1, <2>1, <2>2 DEF TypeOK, AddCustomer
<1>2. ASSUME NEW c \in Ids, NEW r \in Roots, NEW e \in BOOLEAN,
             UpdateCustomer(c, r, e)
      PROVE  TypeOK'
  <2>1. cust' \in [Ids -> Customer]
    <3>1. PICK d \in DiskOrNone :
            cust' = [cust EXCEPT ![c] = [live |-> TRUE, root |-> r,
                                         enabled |-> e, serial |-> d]]
      BY <1>2 DEF TypeOK, UpdateCustomer, SerialAnswers, DiskOrNone, Customer
    <3>2. [live |-> TRUE, root |-> r, enabled |-> e, serial |-> d] \in Customer
      BY DEF Customer
    <3> QED BY <3>1, <3>2 DEF TypeOK
  <2>2. hist' \in [Workers -> History] /\ events' \in 0..MaxEvents
    BY <1>2, ObserveType, EventType DEF UpdateCustomer
  <2> QED BY <1>2, <2>1, <2>2 DEF TypeOK, UpdateCustomer
<1>3. ASSUME NEW c \in Ids, RebindDrive(c)
      PROVE  TypeOK'
  <2>1. cust' \in [Ids -> Customer]
    BY <1>3 DEF TypeOK, RebindDrive, Customer
  <2>2. hist' \in [Workers -> History] /\ events' \in 0..MaxEvents
    BY <1>3, ObserveType, EventType DEF RebindDrive
  <2> QED BY <1>3, <2>1, <2>2 DEF TypeOK, RebindDrive
<1>4. ASSUME NEW c \in Ids, RemoveCustomer(c)
      PROVE  TypeOK'
  <2>1. cust' \in [Ids -> Customer]
    BY <1>4, Defaults DEF TypeOK, RemoveCustomer, Customer, DiskOrNone
  <2>2. rows' \in [Ids -> [Files -> Row]]
    BY <1>4, Defaults DEF TypeOK, RemoveCustomer
  <2>3. ASSUME NEW w \in Workers
        PROVE  [hist[w] EXCEPT !.alone = FALSE, !.orphan = @ \/ run[w].id = c]
                 \in History
    <3> DEFINE orphan == hist[w].orphan \/ run[w].id = c
    <3>1. orphan \in BOOLEAN
      OBVIOUS
    <3> HIDE DEF orphan
    <3>2. [hist[w] EXCEPT !.alone = FALSE, !.orphan = orphan] \in History
      BY <3>1 DEF TypeOK, History
    <3> QED BY <3>2 DEF orphan
  <2>4. hist' \in [Workers -> History]
    BY <1>4, <2>3, Defaults DEF RemoveCustomer
  <2>5. events' \in 0..MaxEvents
    BY <1>4, EventType DEF RemoveCustomer
  <2> QED BY <1>4, <2>1, <2>2, <2>4, <2>5 DEF TypeOK, RemoveCustomer
<1> QED BY <1>1, <1>2, <1>3, <1>4 DEF AdminStep

LEMMA WorldStepType ==
  ASSUME TypeOK, WorldStep
  PROVE  TypeOK'
<1> USE DEF world, tables
<1>1. ASSUME NEW d \in Disks, NEW r \in Roots, Plug(d, r)
      PROVE  TypeOK'
  <2>1. mount' \in [Roots -> DiskOrNone]
    BY <1>1 DEF TypeOK, Plug, DiskOrNone
  <2>2. ASSUME NEW w \in Workers
        PROVE  [hist[w] EXCEPT !.alone = FALSE,
                  !.missed = IF Walks(w, r) THEN @ \cup Missing(d) ELSE @,
                  !.swapped = @ \/ (Accepting(w) /\ run[w].root = r
                                    /\ run[w].disk \notin {NoDisk, d})]
                 \in History
    <3> DEFINE swapped == \/ hist[w].swapped
                          \/ Accepting(w) /\ run[w].root = r
                             /\ run[w].disk \notin {NoDisk, d}
               missed == IF Walks(w, r) THEN hist[w].missed \cup Missing(d)
                         ELSE hist[w].missed
    <3>1. swapped \in BOOLEAN
      OBVIOUS
    <3>2. missed \in SUBSET Files
      BY DEF TypeOK, History, Missing
    <3> HIDE DEF swapped, missed
    <3>3. [hist[w] EXCEPT !.alone = FALSE, !.missed = missed, !.swapped = swapped]
            \in History
      BY <3>1, <3>2 DEF TypeOK, History
    <3> QED BY <3>3 DEF swapped, missed
  <2>3. hist' \in [Workers -> History]
    BY <1>1, <2>2, Defaults DEF Plug
  <2>4. events' \in 0..MaxEvents
    BY <1>1, EventType DEF Plug
  <2> QED BY <1>1, <2>1, <2>3, <2>4 DEF TypeOK, Plug
<1>2. ASSUME NEW r \in Roots, Unplug(r)
      PROVE  TypeOK'
  <2>1. mount' \in [Roots -> DiskOrNone]
    BY <1>2 DEF TypeOK, Unplug, DiskOrNone
  <2>2. hist' \in [Workers -> History] /\ events' \in 0..MaxEvents
    BY <1>2, ObserveType, EventType DEF Unplug
  <2> QED BY <1>2, <2>1, <2>2 DEF TypeOK, Unplug
<1>3. ASSUME NEW d \in Disks, NEW f \in Files, NEW v \in 0..MaxVer,
             ChangeFile(d, f, v)
      PROVE  TypeOK'
  <2>1. content' \in [Disks -> [Files -> 0..MaxVer]]
    BY <1>3 DEF TypeOK, ChangeFile
  <2>2. ASSUME NEW w \in Workers
        PROVE  [hist[w] EXCEPT !.alone = FALSE,
                  !.missed = IF v = 0 /\ Walks(w, run[w].root)
                                /\ mount[run[w].root] = d
                             THEN @ \cup {f} ELSE @] \in History
    BY DEF TypeOK, History
  <2>3. hist' \in [Workers -> History]
    BY <1>3, <2>2, Defaults DEF ChangeFile
  <2>4. events' \in 0..MaxEvents
    BY <1>3, EventType DEF ChangeFile
  <2> QED BY <1>3, <2>1, <2>3, <2>4 DEF TypeOK, ChangeFile
<1>4. ASSUME NEW f \in Files, Upgrade(f)
      PROVE  TypeOK'
  <2>1. events' \in 0..MaxEvents
    BY <1>4, EventType DEF Upgrade
  <2> QED BY <1>4, <2>1 DEF TypeOK, Upgrade
<1> QED BY <1>1, <1>2, <1>3, <1>4 DEF WorldStep

(* Every state of the indexer is of its type. *)
THEOREM TypeCorrect == Spec => []TypeOK
<1>1. Init => TypeOK
  <2> SUFFICES ASSUME Init PROVE TypeOK
    OBVIOUS
  <2>1. content \in [Disks -> [Files -> 0..MaxVer]] /\ events \in 0..MaxEvents
    BY IndexerAssumption DEF Init
  <2>2. cust \in [Ids -> Customer]
    BY DEF Init
  <2>3. parser \in SUBSET Files
    BY IndexerAssumption DEF Init
  <2> QED BY <2>1, <2>2, <2>3, Defaults DEF Init, TypeOK
<1>2. TypeOK /\ [Next]_vars => TypeOK'
  <2> SUFFICES ASSUME TypeOK, [Next]_vars PROVE TypeOK'
    OBVIOUS
  <2>1. CASE StartPass
    BY <2>1 DEF StartPass, TypeOK, Live, world, tables
  <2>2. CASE UNCHANGED vars
    BY <2>2 DEF vars, TypeOK
  <2> QED BY <2>1, <2>2, RunStepType, FaultType, AdminStepType, WorldStepType
          DEF Next
<1> QED BY <1>1, <1>2, PTL DEF Spec

-----------------------------------------------------------------------------
(* The walk invariant.                                                       *)
(*                                                                           *)
(* Its parts speak of one worker at a time, so a step is looked at from the  *)
(* side of each worker u: either u took the step, or u's local state stayed   *)
(* and its history only grew.                                                 *)

WalkInvOf(u) ==
  /\ run[u].pc = "walk" /\ Online(run[u].root) =>
       Missing(mount[run[u].root]) \subseteq hist[u].missed
  /\ run[u].pc \in Walked /\ ~ run[u].errors =>
       \A f \in Files : run[u].walk[f].ver = 0 =>
         \/ FolderOf[f] \in run[u].folders
         \/ f \in run[u].names \cup hist[u].missed \cup hist[u].skipped
  /\ run[u].disk # NoDisk =>
       /\ run[u].serial \in {NoDisk, run[u].disk}
       /\ Accepting(u) /\ ~ hist[u].swapped =>
            mount[run[u].root] \in {NoDisk, run[u].disk}
  /\ run[u].pc # "walk" => run[u].folders = {} /\ run[u].names = {}
  /\ run[u].pc \notin Walked => \A f \in Files : run[u].walk[f].ver = 0
  /\ \A f \in Files :
       /\ run[u].walk[f].ver # 0 /\ run[u].disk # NoDisk /\ ~ hist[u].swapped =>
            run[u].walk[f].disk = run[u].disk
       /\ f \in run[u].rest \cup run[u].batch => run[u].walk[f].ver # 0
  /\ run[u].pc = "idle" => run[u] = Idle

LEMMA WalkInvSplits == WalkInv <=> \A u \in Workers : WalkInvOf(u)
BY DEF WalkInv, WalkInvOf, LacksAreMissed, RootIsSteady, UnmetIsAccountedFor,
       WalkIsOver, NothingMetYet, MetOnOwnDisk, IdleIsClean

(* A worker outside a call satisfies it. *)
LEMMA IdleIsFine ==
  ASSUME NEW u \in Workers, run[u] = Idle
  PROVE  WalkInvOf(u)
BY DEF WalkInvOf, Idle, Accepting, Walked, NoEntry

LEMMA IdleIsFineNext ==
  ASSUME NEW u \in Workers, run'[u] = Idle
  PROVE  WalkInvOf(u)'
BY DEF WalkInvOf, Idle, Accepting, Walked, NoEntry

(* A step that leaves u's call where it was, whose history names what the disk *)
(* at u's root lacks and says if that disk is another, keeps it.              *)
LEMMA OthersKeepIt ==
  ASSUME NEW u \in Workers, WalkInvOf(u), run'[u] = run[u],
         run[u].pc # "idle" =>
            /\ hist'[u].skipped = hist[u].skipped
            /\ hist[u].missed \subseteq hist'[u].missed
            /\ hist[u].swapped => hist'[u].swapped,
         run[u].pc = "walk" /\ mount'[run[u].root] # NoDisk =>
           Missing(mount[run[u].root])' \subseteq hist'[u].missed,
         Accepting(u) /\ run[u].disk # NoDisk /\ ~ hist'[u].swapped =>
           mount'[run[u].root] \in {NoDisk, run[u].disk}
  PROVE  WalkInvOf(u)'
<1>1. CASE run[u].pc = "idle"
  BY <1>1, IdleIsFineNext DEF WalkInvOf
<1>2. CASE run[u].pc # "idle"
  <2>1. (run[u].pc = "walk" /\ Online(run[u].root) =>
          Missing(mount[run[u].root]) \subseteq hist[u].missed)'
    BY DEF Online
  <2>2. (run[u].pc \in Walked /\ ~ run[u].errors =>
          \A f \in Files : run[u].walk[f].ver = 0 =>
            \/ FolderOf[f] \in run[u].folders
            \/ f \in run[u].names \cup hist[u].missed \cup hist[u].skipped)'
    BY <1>2 DEF WalkInvOf
  <2>3. (run[u].disk # NoDisk =>
          /\ run[u].serial \in {NoDisk, run[u].disk}
          /\ Accepting(u) /\ ~ hist[u].swapped =>
               mount[run[u].root] \in {NoDisk, run[u].disk})'
    BY DEF WalkInvOf, Accepting
  <2> QED BY <1>2, <2>1, <2>2, <2>3 DEF WalkInvOf
<1> QED BY <1>1, <1>2

(* In particular a step that leaves disks and files as they are. *)
LEMMA BystandersKeepIt ==
  ASSUME TypeOK, NEW u \in Workers, WalkInvOf(u), run'[u] = run[u],
         UNCHANGED <<mount, content>>,
         UNCHANGED hist[u] \/ \E W : Observe(W)
  PROVE  WalkInvOf(u)'
<1>1. hist[u] \in History
  BY DEF TypeOK
<1>2. run[u].pc # "idle" =>
        /\ hist'[u].skipped = hist[u].skipped
        /\ hist'[u].missed = hist[u].missed
        /\ hist'[u].swapped = hist[u].swapped
  BY <1>1 DEF Observe, History
<1>3. run[u].pc = "walk" /\ mount'[run[u].root] # NoDisk =>
        Missing(mount[run[u].root])' \subseteq hist'[u].missed
  <2>1. Missing(mount[run[u].root])' = Missing(mount[run[u].root])
    BY DEF Missing
  <2> QED BY <1>2, <2>1 DEF WalkInvOf, Online
<1>4. Accepting(u) /\ run[u].disk # NoDisk /\ ~ hist'[u].swapped =>
        mount'[run[u].root] \in {NoDisk, run[u].disk}
  BY <1>2 DEF WalkInvOf, Accepting
<1> QED BY <1>2, <1>3, <1>4, OthersKeepIt

(* A call that ends. *)
LEMMA FinishKeepsIt ==
  ASSUME TypeOK, NEW w \in Workers, Finish(w)
  PROVE  WalkInvOf(w)'
BY IdleIsFineNext DEF Finish, Set, TypeOK

(* The local state a step gives the acting worker. *)
LEMMA SetActs ==
  ASSUME TypeOK, NEW w \in Workers, NEW r, Set(w, r)
  PROVE  run'[w] = r /\ \A u \in Workers \ {w} : run'[u] = run[u]
BY DEF Set, TypeOK

(* The acting worker's history, when no file or disk changed. *)
LEMMA ObserveActs ==
  ASSUME TypeOK, NEW w \in Workers, NEW W, Observe(W), run'[w].pc # "idle"
  PROVE  /\ hist'[w].missed = hist[w].missed
         /\ hist'[w].skipped = hist[w].skipped /\ hist'[w].swapped = hist[w].swapped
BY DEF Observe, TypeOK, History

(* Before the walk nothing is met, so only the disk that answered matters. *)
LEMMA BeforeTheWalkItHolds ==
  ASSUME NEW w \in Workers, WalkInvOf(w),
         run[w].pc \notin Walked, run'[w].pc \notin Walked \cup {"idle"},
         run'[w].folders = run[w].folders, run'[w].names = run[w].names,
         run'[w].walk = run[w].walk,
         run'[w].rest = run[w].rest, run'[w].batch = run[w].batch,
         run'[w].disk # NoDisk =>
           /\ run'[w].serial \in {NoDisk, run'[w].disk}
           /\ ~ hist'[w].swapped => mount'[run'[w].root] \in {NoDisk, run'[w].disk}
  PROVE  WalkInvOf(w)'
BY DEF WalkInvOf, Walked

(* Reading the customer, the run's row and the drive. *)
LEMMA OpeningKeepsIt ==
  ASSUME TypeOK, NEW w \in Workers, WalkInvOf(w),
         \/ \E c \in Ids : StartRun(w, c)
         \/ OpenRun(w) \/ AskOnline(w) \/ AskSerial(w) \/ Bind(w) \/ ScanRoot(w)
  PROVE  WalkInvOf(w)'
<1> USE DEF world, tables
<1> SUFFICES ASSUME ~ Finish(w) PROVE WalkInvOf(w)'
  BY FinishKeepsIt
<1>0. run[w] \in Run
  BY DEF TypeOK
<1>1. ASSUME NEW c \in Ids, StartRun(w, c) PROVE WalkInvOf(w)'
  <2>1. run'[w] = [Idle EXCEPT !.pc = "open", !.id = c, !.root = cust[c].root,
                               !.serial = cust[c].serial]
    BY <1>1, SetActs DEF StartRun
  <2>2. /\ run'[w].pc = "open" /\ run'[w].folders = {} /\ run'[w].names = {}
        /\ run'[w].walk = [f \in Files |-> NoEntry] /\ run'[w].disk = NoDisk
        /\ run'[w].rest = {} /\ run'[w].batch = {}
    BY <2>1 DEF Idle
  <2> QED BY <2>2 DEF WalkInvOf, Walked, NoEntry
<1>2. CASE OpenRun(w) \/ AskOnline(w)
  <2>1. PICK l \in {"online", "serial"} : run'[w] = [run[w] EXCEPT !.pc = l]
    BY <1>2, SetActs DEF OpenRun, AskOnline, Goto
  <2>2. /\ run'[w].pc = l /\ run[w].pc \in {"open", "online"}
        /\ run'[w].folders = run[w].folders /\ run'[w].names = run[w].names
        /\ run'[w].rest = run[w].rest /\ run'[w].batch = run[w].batch
        /\ run'[w].walk = run[w].walk /\ run'[w].disk = run[w].disk
        /\ run'[w].serial = run[w].serial /\ run'[w].root = run[w].root
    BY <1>0, <1>2, <2>1 DEF OpenRun, AskOnline, Run
  <2> QED BY <2>2 DEF WalkInvOf, Accepting, Walked
<1>3. CASE AskSerial(w)
  <2>1. PICK d \in SerialAnswers(run[w].root) :
          /\ NoDisk \in {d, run[w].serial} \/ d = run[w].serial
          /\ Set(w, [run[w] EXCEPT !.disk = d,
                       !.pc = IF d # NoDisk /\ run[w].serial = NoDisk THEN "bind"
                              ELSE "scan"])
    BY <1>3 DEF AskSerial
  <2>2. run[w].pc = "serial" /\ mount' = mount
    BY <1>3 DEF AskSerial
  <2>3. run'[w] = [run[w] EXCEPT !.disk = d,
                     !.pc = IF d # NoDisk /\ run[w].serial = NoDisk THEN "bind"
                            ELSE "scan"]
    BY <2>1, SetActs
  <2>4. /\ run'[w].disk = d /\ run'[w].root = run[w].root
        /\ run'[w].serial = run[w].serial
        /\ run'[w].pc \in {"bind", "scan"} /\ run'[w].folders = run[w].folders
        /\ run'[w].names = run[w].names /\ run'[w].walk = run[w].walk
        /\ run'[w].rest = run[w].rest /\ run'[w].batch = run[w].batch
    BY <1>0, <2>3 DEF Run
  <2>5. d # NoDisk => mount[run[w].root] = d /\ run[w].serial \in {NoDisk, d}
    BY <2>1 DEF SerialAnswers
  <2> QED BY <2>2, <2>4, <2>5, BeforeTheWalkItHolds DEF Walked
<1>4. CASE Bind(w)
  <2>1. run'[w] = [run[w] EXCEPT !.pc = "scan"]
    BY <1>4, SetActs DEF Bind, Goto
  <2>2. /\ run'[w].pc = "scan" /\ run[w].pc = "bind"
        /\ run'[w].disk = run[w].disk /\ run'[w].root = run[w].root
        /\ run'[w].serial = run[w].serial /\ run'[w].folders = run[w].folders
        /\ run'[w].names = run[w].names /\ run'[w].walk = run[w].walk
        /\ run'[w].rest = run[w].rest /\ run'[w].batch = run[w].batch
    BY <1>0, <1>4, <2>1 DEF Bind, Run
  <2>3. Observe({w}) /\ UNCHANGED <<mount, content>>
    BY <1>4 DEF Bind
  <2>4. hist'[w].swapped = hist[w].swapped
    BY <2>2, <2>3, ObserveActs
  <2>5. run'[w].disk # NoDisk =>
          /\ run'[w].serial \in {NoDisk, run'[w].disk}
          /\ ~ hist'[w].swapped => mount'[run'[w].root] \in {NoDisk, run'[w].disk}
    BY <2>2, <2>3, <2>4 DEF WalkInvOf, Accepting
  <2> QED BY <2>2, <2>5, BeforeTheWalkItHolds DEF Walked
<1>5. CASE ScanRoot(w)
  <2>1. run'[w] = [run[w] EXCEPT !.pc = "walk", !.folders = Folders]
    BY <1>5, SetActs DEF ScanRoot
  <2>2. /\ run'[w].pc = "walk" /\ run[w].pc = "scan" /\ run'[w].folders = Folders
        /\ run'[w].walk = run[w].walk /\ run'[w].rest = run[w].rest
        /\ run'[w].batch = run[w].batch /\ run'[w].root = run[w].root
        /\ run'[w].disk = run[w].disk /\ run'[w].serial = run[w].serial
    BY <1>0, <1>5, <2>1 DEF ScanRoot, Run
  <2>3. /\ hist' = [hist EXCEPT ![w].missed = Missing(mount[run[w].root])]
        /\ UNCHANGED <<mount, content>>
    BY <1>5 DEF ScanRoot
  <2>4. /\ hist'[w].missed = Missing(mount[run[w].root])
        /\ hist'[w].swapped = hist[w].swapped
    BY <2>3 DEF TypeOK, History
  <2>5. Missing(mount[run[w].root])' = Missing(mount[run[w].root])
    BY <2>2, <2>3 DEF Missing
  <2>6. Missing(mount[run[w].root])' \subseteq hist'[w].missed
    BY <2>4, <2>5
  <2>7. \A f \in Files : FolderOf[f] \in Folders
    BY IndexerAssumption
  <2>8. run'[w].disk # NoDisk =>
          /\ run'[w].serial \in {NoDisk, run'[w].disk}
          /\ ~ hist'[w].swapped => mount'[run'[w].root] \in {NoDisk, run'[w].disk}
    BY <2>2, <2>3, <2>4 DEF WalkInvOf, Accepting
  <2> QED BY <2>2, <2>6, <2>7, <2>8 DEF WalkInvOf, Walked
<1> QED BY <1>1, <1>2, <1>3, <1>4, <1>5

(* What the end of the walk leaves as it was. *)
LEMMA AfterWalkKeeps ==
  ASSUME NEW r \in Run, r.pc = "walk"
  PROVE  LET q == AfterWalk(r) IN
         /\ q.walk = r.walk /\ q.folders = r.folders /\ q.names = r.names
         /\ q.errors = r.errors /\ q.root = r.root /\ q.disk = r.disk
         /\ q.batch = r.batch /\ q.serial = r.serial
         /\ \/ q.pc = "walk" /\ q.rest = r.rest
            \/ /\ q.pc = "select" /\ q.folders = {} /\ q.names = {}
               /\ q.rest = {f \in Files : r.walk[f].ver # 0}
BY DEF AfterWalk, Run

(* A step of the walk: enough that the local state r before AfterWalk is fine. *)
LEMMA WalkStepKeepsIt ==
  ASSUME TypeOK, NEW w \in Workers, WalkInvOf(w), run[w].pc = "walk",
         UNCHANGED <<mount, content>>,
         NEW r \in Run, Set(w, AfterWalk(r)),
         r.pc = "walk", r.rest = run[w].rest, r.batch = run[w].batch,
         r.root = run[w].root, r.disk = run[w].disk,
         r.serial = run[w].serial, hist'[w].missed = hist[w].missed,
         hist'[w].swapped = hist[w].swapped,
         ~ r.errors => \A f \in Files : r.walk[f].ver = 0 =>
           \/ FolderOf[f] \in r.folders
           \/ f \in r.names \cup hist[w].missed \cup hist'[w].skipped,
         r.disk # NoDisk /\ ~ hist[w].swapped =>
           \A f \in Files : r.walk[f].ver # 0 => r.walk[f].disk = r.disk,
         \A f \in Files : run[w].walk[f].ver # 0 => r.walk[f].ver # 0
  PROVE  WalkInvOf(w)'
<1> DEFINE q == AfterWalk(r)
<1>1. run'[w] = q
  BY SetActs
<1>2. (Missing(mount[run[w].root]))' = Missing(mount[r.root])
  <2>1. run'[w].root = run[w].root
    BY <1>1 DEF AfterWalk, Run
  <2> QED BY <2>1 DEF Missing
<1>3. /\ q.walk = r.walk /\ q.folders = r.folders /\ q.names = r.names
      /\ q.errors = r.errors /\ q.root = r.root /\ q.disk = r.disk
      /\ q.batch = r.batch /\ q.serial = r.serial
      /\ \/ q.pc = "walk" /\ q.rest = r.rest
         \/ /\ q.pc = "select" /\ q.folders = {} /\ q.names = {}
            /\ q.rest = {f \in Files : r.walk[f].ver # 0}
  BY AfterWalkKeeps
<1> HIDE DEF q
<1>4. \A f \in Files : f \in q.rest \cup q.batch => q.walk[f].ver # 0
  BY <1>3 DEF WalkInvOf
<1>5. /\ Online(r.root) => Missing(mount[r.root]) \subseteq hist[w].missed
      /\ r.disk # NoDisk =>
           /\ r.serial \in {NoDisk, r.disk}
           /\ ~ hist[w].swapped => mount[r.root] \in {NoDisk, r.disk}
  BY DEF WalkInvOf, Accepting
<1> QED BY <1>1, <1>2, <1>3, <1>4, <1>5
        DEF WalkInvOf, Accepting, Walked, Online

(* Listing folders and looking at files. *)
LEMMA WalkingKeepsIt ==
  ASSUME TypeOK, NEW w \in Workers, WalkInvOf(w), ListFolder(w) \/ StatFile(w)
  PROVE  WalkInvOf(w)'
<1> USE DEF world, tables
<1>0. run[w] \in Run /\ hist[w] \in History
  BY DEF TypeOK
<1>r. /\ run[w].walk \in [Files -> Entry] /\ run[w].root \in Roots
      /\ run[w].names \in SUBSET Files /\ run[w].folders \in SUBSET Folders
  BY <1>0 DEF Run
<1>1. /\ run[w].pc = "walk" /\ UNCHANGED <<mount, content>>
  BY DEF ListFolder, StatFile
<1>2. /\ Online(run[w].root) => Missing(mount[run[w].root]) \subseteq hist[w].missed
      /\ run[w].disk # NoDisk /\ ~ hist[w].swapped =>
           mount[run[w].root] \in {NoDisk, run[w].disk}
      /\ ~ run[w].errors => \A f \in Files : run[w].walk[f].ver = 0 =>
           \/ FolderOf[f] \in run[w].folders
           \/ f \in run[w].names \cup hist[w].missed \cup hist[w].skipped
      /\ run[w].disk # NoDisk /\ ~ hist[w].swapped =>
           \A f \in Files : run[w].walk[f].ver # 0 => run[w].walk[f].disk = run[w].disk
  BY <1>1 DEF WalkInvOf, Accepting, Walked
<1>3. Online(run[w].root) =>
        Files \ Visible(run[w].root) \subseteq hist[w].missed
  BY <1>2 DEF Visible
<1>4. ASSUME NEW d \in run[w].folders, hist' = hist, run[w].names = {},
             \/ /\ Online(run[w].root)
                /\ Set(w, AfterWalk([run[w] EXCEPT !.folders = @ \ {d},
                     !.names = {f \in Visible(run[w].root) : FolderOf[f] = d}]))
             \/ Set(w, AfterWalk([run[w] EXCEPT !.folders = @ \ {d}, !.errors = TRUE]))
      PROVE  WalkInvOf(w)'
  <2>1. CASE Online(run[w].root) /\
             Set(w, AfterWalk([run[w] EXCEPT !.folders = @ \ {d},
                     !.names = {f \in Visible(run[w].root) : FolderOf[f] = d}]))
    <3> DEFINE r == [run[w] EXCEPT !.folders = @ \ {d},
                       !.names = {f \in Visible(run[w].root) : FolderOf[f] = d}]
    <3>1. {f \in Visible(run[w].root) : FolderOf[f] = d} \in SUBSET Files
      BY DEF Visible
    <3>2. r \in Run
      BY <1>0, <3>1 DEF Run
    <3>3. /\ r.pc = "walk" /\ r.rest = run[w].rest /\ r.batch = run[w].batch
          /\ r.root = run[w].root /\ r.disk = run[w].disk /\ r.walk = run[w].walk
          /\ r.serial = run[w].serial
          /\ r.errors = run[w].errors /\ r.folders = run[w].folders \ {d}
          /\ r.names = {f \in Visible(run[w].root) : FolderOf[f] = d}
      BY <1>0, <1>1 DEF Run
    <3> HIDE DEF r
    <3>4. ~ r.errors => \A f \in Files : r.walk[f].ver = 0 =>
            \/ FolderOf[f] \in r.folders
            \/ f \in r.names \cup hist[w].missed \cup hist'[w].skipped
      BY <1>2, <1>3, <1>4, <2>1, <3>3
    <3>5. Set(w, AfterWalk(r))
      BY <2>1 DEF r
    <3> QED BY <1>1, <1>2, <1>4, <3>2, <3>3, <3>4, <3>5, WalkStepKeepsIt
  <2>2. CASE Set(w, AfterWalk([run[w] EXCEPT !.folders = @ \ {d}, !.errors = TRUE]))
    <3> DEFINE r == [run[w] EXCEPT !.folders = @ \ {d}, !.errors = TRUE]
    <3>1. /\ r \in Run
          /\ r.pc = "walk" /\ r.rest = run[w].rest /\ r.batch = run[w].batch
          /\ r.root = run[w].root /\ r.disk = run[w].disk /\ r.walk = run[w].walk
          /\ r.serial = run[w].serial /\ r.errors
      BY <1>0, <1>1 DEF Run
    <3>2. Set(w, AfterWalk(r))
      BY <2>2
    <3> HIDE DEF r
    <3> QED BY <1>1, <1>2, <1>4, <3>1, <3>2, WalkStepKeepsIt
  <2> QED BY <1>4, <2>1, <2>2
<1>5. ASSUME NEW f \in run[w].names,
             \/ /\ f \in Visible(run[w].root) /\ hist' = hist
                /\ Set(w, AfterWalk([run[w] EXCEPT !.names = @ \ {f},
                     !.walk[f] = [disk |-> mount[run[w].root],
                                  ver |-> content[mount[run[w].root]][f]]]))
             \/ /\ Set(w, AfterWalk([run[w] EXCEPT !.names = @ \ {f}]))
                /\ hist' = [hist EXCEPT ![w].skipped = @ \cup {f}]
      PROVE  WalkInvOf(w)'
  <2>0. f \in Files
    BY <1>r
  <2>1. CASE /\ f \in Visible(run[w].root) /\ hist' = hist
             /\ Set(w, AfterWalk([run[w] EXCEPT !.names = @ \ {f},
                  !.walk[f] = [disk |-> mount[run[w].root],
                               ver |-> content[mount[run[w].root]][f]]]))
    <3> DEFINE e == [disk |-> mount[run[w].root],
                     ver |-> content[mount[run[w].root]][f]]
               r == [run[w] EXCEPT !.names = @ \ {f}, !.walk[f] = e]
    <3>0. Online(run[w].root) /\ mount[run[w].root] \in Disks
      BY <1>r, <2>1 DEF Visible, Online, TypeOK, DiskOrNone
    <3>1. /\ e \in Entry /\ e.ver # 0
          /\ run[w].disk # NoDisk /\ ~ hist[w].swapped => e.disk = run[w].disk
      <4>1. content[mount[run[w].root]][f] \in 0..MaxVer
        BY <2>0, <3>0 DEF TypeOK
      <4>2. content[mount[run[w].root]][f] # 0
        BY <2>0, <2>1, <3>0, IndexerAssumption DEF Visible, Missing
      <4> QED BY <1>2, <3>0, <4>1, <4>2 DEF Entry, DiskOrNone, Online
    <3> HIDE DEF e
    <3>2. r \in Run
      BY <1>0, <2>0, <3>1 DEF Run
    <3>3. /\ r.pc = "walk" /\ r.rest = run[w].rest /\ r.batch = run[w].batch
          /\ r.root = run[w].root /\ r.disk = run[w].disk
          /\ r.serial = run[w].serial
          /\ r.errors = run[w].errors /\ r.folders = run[w].folders
          /\ r.names = run[w].names \ {f} /\ r.walk = [run[w].walk EXCEPT ![f] = e]
      BY <1>0, <1>1 DEF Run
    <3>4. Set(w, AfterWalk(r))
      BY <2>1 DEF e
    <3> HIDE DEF r
    <3>5. \A g \in Files : r.walk[g] = IF g = f THEN e ELSE run[w].walk[g]
      BY <1>r, <3>3
    <3>6. ~ r.errors => \A g \in Files : r.walk[g].ver = 0 =>
            \/ FolderOf[g] \in r.folders
            \/ g \in r.names \cup hist[w].missed \cup hist'[w].skipped
      BY <1>2, <2>1, <3>1, <3>3, <3>5
    <3>7. \A g \in Files : /\ r.walk[g].ver # 0 /\ r.disk # NoDisk
                              /\ ~ hist[w].swapped => r.walk[g].disk = r.disk
                           /\ run[w].walk[g].ver # 0 => r.walk[g].ver # 0
      BY <1>2, <3>1, <3>3, <3>5
    <3> QED BY <1>1, <2>1, <3>2, <3>3, <3>4, <3>6, <3>7, WalkStepKeepsIt
  <2>2. CASE /\ Set(w, AfterWalk([run[w] EXCEPT !.names = @ \ {f}]))
             /\ hist' = [hist EXCEPT ![w].skipped = @ \cup {f}]
    <3> DEFINE r == [run[w] EXCEPT !.names = @ \ {f}]
    <3>1. /\ r \in Run
          /\ r.pc = "walk" /\ r.rest = run[w].rest /\ r.batch = run[w].batch
          /\ r.root = run[w].root /\ r.disk = run[w].disk /\ r.walk = run[w].walk
          /\ r.serial = run[w].serial
          /\ r.errors = run[w].errors /\ r.folders = run[w].folders
          /\ r.names = run[w].names \ {f}
      BY <1>0, <1>1 DEF Run
    <3>2. Set(w, AfterWalk(r))
      BY <2>2
    <3> HIDE DEF r
    <3>3. /\ hist'[w].missed = hist[w].missed
          /\ hist'[w].skipped = hist[w].skipped \cup {f}
          /\ hist'[w].swapped = hist[w].swapped
      BY <1>0, <2>2 DEF TypeOK, History
    <3>4. ~ r.errors => \A g \in Files : r.walk[g].ver = 0 =>
            \/ FolderOf[g] \in r.folders
            \/ g \in r.names \cup hist[w].missed \cup hist'[w].skipped
      BY <1>2, <3>1, <3>3
    <3> QED BY <1>1, <1>2, <3>1, <3>2, <3>3, <3>4, WalkStepKeepsIt
  <2> QED BY <1>5, <2>1, <2>2
<1>6. CASE ListFolder(w)
  BY <1>4, <1>6 DEF ListFolder
<1>7. CASE StatFile(w)
  BY <1>5, <1>7 DEF StatFile
<1> QED BY <1>6, <1>7

(* A step after the walk: the walk stays and the batch comes from it. *)
LEMMA AfterTheWalkKeepsIt ==
  ASSUME TypeOK, NEW w \in Workers, WalkInvOf(w),
         run[w].pc \in {"select", "upsert", "delete"},
         UNCHANGED <<mount, content>>,
         hist' = hist \/ \E W : Observe(W),
         NEW r, run'[w] = r, r.pc \in {"select", "upsert", "delete"},
         r.walk = run[w].walk, r.errors = run[w].errors,
         r.folders = run[w].folders, r.names = run[w].names,
         r.disk = run[w].disk, r.serial = run[w].serial,
         r.rest \subseteq run[w].rest,
         r.batch \subseteq run[w].rest \cup run[w].batch
  PROVE  WalkInvOf(w)'
<1>1. /\ hist'[w].missed = hist[w].missed
      /\ hist'[w].skipped = hist[w].skipped /\ hist'[w].swapped = hist[w].swapped
  BY ObserveActs
<1> QED BY <1>1 DEF WalkInvOf, Accepting, Walked

LEMMA WritingKeepsIt ==
  ASSUME TypeOK, NEW w \in Workers, WalkInvOf(w),
         SelectBatch(w) \/ UpsertBatch(w) \/ DeleteMissing(w)
  PROVE  WalkInvOf(w)'
<1> USE DEF world, tables
<1> SUFFICES ASSUME ~ Finish(w) PROVE WalkInvOf(w)'
  BY FinishKeepsIt
<1>0. run[w] \in Run
  BY DEF TypeOK
<1>1. CASE SelectBatch(w)
  <2> DEFINE stale == {f \in run[w].rest : Stale(run[w].id, run[w].walk, f)}
             next(taken, passed) ==
               [run[w] EXCEPT
                  !.rest = @ \ (taken \cup passed),
                  !.batch = {f \in taken : Writable(run[w].id, run[w].walk, f)},
                  !.pc = IF \E f \in taken : Writable(run[w].id, run[w].walk, f)
                         THEN "upsert" ELSE "select"]
  <2>1. run[w].pc = "select" /\ hist' = hist /\ UNCHANGED <<mount, content>>
    BY <1>1 DEF SelectBatch
  <2>2. CASE Set(w, [run[w] EXCEPT !.pc = "delete", !.rest = {}])
    <3> DEFINE r == [run[w] EXCEPT !.pc = "delete", !.rest = {}]
    <3>1. /\ r.pc = "delete" /\ r.walk = run[w].walk /\ r.errors = run[w].errors
          /\ r.folders = run[w].folders /\ r.names = run[w].names
          /\ r.disk = run[w].disk /\ r.serial = run[w].serial
          /\ r.rest = {} /\ r.batch = run[w].batch
      BY <1>0 DEF Run
    <3>2. run'[w] = r
      BY <2>2, SetActs
    <3> HIDE DEF r
    <3> QED BY <2>1, <3>1, <3>2, AfterTheWalkKeepsIt
  <2>3. ASSUME NEW taken \in SUBSET stale, NEW passed \in SUBSET (run[w].rest \ stale),
               Set(w, next(taken, passed))
        PROVE  WalkInvOf(w)'
    <3> DEFINE r == next(taken, passed)
    <3>1. /\ r.pc \in {"upsert", "select"} /\ r.walk = run[w].walk
          /\ r.errors = run[w].errors
          /\ r.folders = run[w].folders /\ r.names = run[w].names
          /\ r.disk = run[w].disk /\ r.serial = run[w].serial
          /\ r.rest = run[w].rest \ (taken \cup passed)
          /\ r.batch = {f \in taken : Writable(run[w].id, run[w].walk, f)}
      BY <1>0 DEF Run
    <3>2. taken \subseteq run[w].rest
      OBVIOUS
    <3>3. run'[w] = r
      BY <2>3, SetActs
    <3>4. r.batch \subseteq run[w].rest /\ r.rest \subseteq run[w].rest
      BY <3>1, <3>2
    <3> HIDE DEF r
    <3> QED BY <2>1, <3>1, <3>3, <3>4, AfterTheWalkKeepsIt
  <2>4. \/ Set(w, [run[w] EXCEPT !.pc = "delete", !.rest = {}])
        \/ \E taken \in SUBSET stale, passed \in SUBSET (run[w].rest \ stale) :
             Set(w, next(taken, passed))
    BY <1>1, Zenon DEF SelectBatch
  <2> HIDE DEF stale, next
  <2> QED BY <2>2, <2>3, <2>4
<1>2. CASE UpsertBatch(w)
  <2>1. /\ run[w].pc = "upsert" /\ Observe({w}) /\ UNCHANGED <<mount, content>>
        /\ Set(w, [run[w] EXCEPT !.pc = "select", !.batch = {}])
    BY <1>2 DEF UpsertBatch
  <2> DEFINE r == [run[w] EXCEPT !.pc = "select", !.batch = {}]
  <2>2. /\ r.pc = "select" /\ r.walk = run[w].walk /\ r.errors = run[w].errors
        /\ r.folders = run[w].folders /\ r.names = run[w].names
        /\ r.disk = run[w].disk /\ r.serial = run[w].serial
        /\ r.rest = run[w].rest /\ r.batch = {}
    BY <1>0 DEF Run
  <2>3. run'[w] = r
    BY <2>1, SetActs
  <2> HIDE DEF r
  <2> QED BY <2>1, <2>2, <2>3, AfterTheWalkKeepsIt
<1>3. CASE DeleteMissing(w)
  BY <1>3 DEF DeleteMissing
<1> QED BY <1>1, <1>2, <1>3

(* Every step keeps the walk invariant. *)
LEMMA NextKeepsWalkInv ==
  ASSUME TypeOK, WalkInv, [Next]_vars
  PROVE  WalkInv'
<1> USE DEF world, tables
<1> SUFFICES ASSUME NEW u \in Workers PROVE WalkInvOf(u)'
  BY WalkInvSplits DEF WalkInv, WalkInvOf, LacksAreMissed, RootIsSteady,
     UnmetIsAccountedFor, WalkIsOver, NothingMetYet, MetOnOwnDisk, IdleIsClean
<1>0. WalkInvOf(u)
  BY WalkInvSplits
<1>1. ASSUME NEW w \in Workers, RunStep(w) \/ RunFails(w) \/ Crash(w)
      PROVE  WalkInvOf(u)'
  <2>1. CASE u = w
    <3>1. RunFails(w) \/ Crash(w) => Finish(w)
      BY DEF RunFails, Crash
    <3> QED BY <1>0, <1>1, <2>1, <3>1, FinishKeepsIt, OpeningKeepsIt,
               WalkingKeepsIt, WritingKeepsIt DEF RunStep
  <2>2. CASE u # w
    <3>1. UNCHANGED <<mount, content>>
      BY <1>1 DEF RunStep, StartRun, OpenRun, AskOnline, AskSerial, Bind, ScanRoot,
         ListFolder, StatFile, SelectBatch, UpsertBatch, DeleteMissing,
         RunFails, Crash
    <3>2. \E r : Set(w, r)
      BY <1>1 DEF RunStep, StartRun, OpenRun, AskOnline, AskSerial, Bind, ScanRoot,
         ListFolder, StatFile, SelectBatch, UpsertBatch, DeleteMissing,
         RunFails, Crash, Finish, Goto
    <3>3. run'[u] = run[u]
      BY <2>2, <3>2, SetActs
    <3>4. UNCHANGED hist[u] \/ \E W : Observe(W)
      BY <1>1, <2>2 DEF RunStep, StartRun, OpenRun, AskOnline, AskSerial, Bind, ScanRoot,
         ListFolder, StatFile, SelectBatch, UpsertBatch, DeleteMissing,
         RunFails, Crash, TypeOK
    <3> QED BY <1>0, <3>1, <3>3, <3>4, BystandersKeepIt
  <2> QED BY <2>1, <2>2
<1>2. CASE StartPass \/ UNCHANGED vars \/ \E f \in Files : Upgrade(f)
  <2>1. /\ run'[u] = run[u] /\ UNCHANGED <<mount, content>> /\ UNCHANGED hist[u]
    BY <1>2 DEF StartPass, vars, Upgrade
  <2> QED BY <1>0, <2>1, BystandersKeepIt
<1>3. CASE \/ \E c \in Ids, r \in Roots, viaWeb, e \in BOOLEAN :
                AddCustomer(c, r, viaWeb, e)
           \/ \E c \in Ids, r \in Roots, e \in BOOLEAN : UpdateCustomer(c, r, e)
           \/ \E c \in Ids : RebindDrive(c)
  <2>1. run' = run /\ UNCHANGED <<mount, content>> /\ Observe({})
    BY <1>3 DEF AddCustomer, UpdateCustomer, RebindDrive
  <2> QED BY <1>0, <2>1, BystandersKeepIt
<1>4. ASSUME NEW c \in Ids, RemoveCustomer(c)
      PROVE  WalkInvOf(u)'
  <2>1. run' = run /\ UNCHANGED <<mount, content>>
    BY <1>4 DEF RemoveCustomer
  <2>2. run[u].pc # "idle" =>
          /\ hist'[u].skipped = hist[u].skipped
          /\ hist'[u].missed = hist[u].missed
          /\ hist'[u].swapped = hist[u].swapped
    BY <1>4 DEF RemoveCustomer, TypeOK, History
  <2>3. run[u].pc = "walk" /\ mount'[run[u].root] # NoDisk =>
          Missing(mount[run[u].root])' \subseteq hist'[u].missed
    <3>1. Missing(mount[run[u].root])' = Missing(mount[run[u].root])
      BY <2>1 DEF Missing
    <3> QED BY <1>0, <2>1, <2>2, <3>1 DEF WalkInvOf, Online
  <2>4. Accepting(u) /\ run[u].disk # NoDisk /\ ~ hist'[u].swapped =>
          mount'[run[u].root] \in {NoDisk, run[u].disk}
    BY <1>0, <2>1, <2>2 DEF WalkInvOf, Accepting
  <2> QED BY <1>0, <2>1, <2>2, <2>3, <2>4, OthersKeepIt
<1>5. ASSUME NEW d \in Disks, NEW r \in Roots, Plug(d, r)
      PROVE  WalkInvOf(u)'
  <2> DEFINE swap == Accepting(u) /\ run[u].root = r /\ run[u].disk \notin {NoDisk, d}
             missed == IF Walks(u, r) THEN hist[u].missed \cup Missing(d)
                       ELSE hist[u].missed
  <2>1. run' = run /\ content' = content /\ mount' = [mount EXCEPT ![r] = d]
    BY <1>5 DEF Plug
  <2>2. run[u].pc # "idle" =>
          hist'[u] = [hist[u] EXCEPT !.alone = FALSE, !.missed = missed,
                                     !.swapped = hist[u].swapped \/ swap]
    BY <1>5 DEF Plug
  <2>3. run[u].pc # "idle" =>
          /\ hist'[u].skipped = hist[u].skipped
          /\ hist'[u].missed = missed
          /\ hist'[u].swapped <=> hist[u].swapped \/ swap
    <3> HIDE DEF swap, missed
    <3> QED BY <2>2 DEF TypeOK, History
  <2>4. run[u].root \in Roots
    BY DEF TypeOK, Run
  <2>5. run[u].pc = "walk" /\ mount'[run[u].root] # NoDisk =>
          Missing(mount[run[u].root])' \subseteq hist'[u].missed
    <3> SUFFICES ASSUME run[u].pc = "walk", mount'[run[u].root] # NoDisk
                 PROVE  Missing(mount[run[u].root])' \subseteq missed
      BY <2>3
    <3>1. CASE run[u].root = r
      <4>1. mount'[run[u].root] = d
        BY <2>1, <2>4, <3>1 DEF TypeOK
      <4>2. Missing(mount[run[u].root])' = Missing(d)
        BY <2>1, <4>1 DEF Missing
      <4> QED BY <3>1, <4>2 DEF Walks
    <3>2. CASE run[u].root # r
      <4>1. mount'[run[u].root] = mount[run[u].root]
        BY <2>1, <2>4, <3>2 DEF TypeOK
      <4>2. Missing(mount[run[u].root])' = Missing(mount[run[u].root])
        BY <2>1, <4>1 DEF Missing
      <4> QED BY <1>0, <3>2, <4>1, <4>2 DEF Walks, WalkInvOf, Online
    <3> QED BY <3>1, <3>2
  <2>6. Accepting(u) /\ run[u].disk # NoDisk /\ ~ hist'[u].swapped =>
          mount'[run[u].root] \in {NoDisk, run[u].disk}
    <3>1. Accepting(u) => run[u].pc # "idle"
      BY DEF Accepting
    <3> QED BY <1>0, <2>1, <2>3, <2>4, <3>1 DEF WalkInvOf, TypeOK
  <2>7. run[u].pc # "idle" => /\ hist[u].missed \subseteq hist'[u].missed
                              /\ hist[u].swapped => hist'[u].swapped
    BY <2>3
  <2> HIDE DEF swap, missed
  <2> QED BY <1>0, <2>1, <2>3, <2>5, <2>6, <2>7, OthersKeepIt
<1>6. ASSUME NEW r \in Roots, Unplug(r)
      PROVE  WalkInvOf(u)'
  <2>1. /\ run' = run /\ content' = content /\ Observe({})
        /\ mount' = [mount EXCEPT ![r] = NoDisk]
    BY <1>6 DEF Unplug
  <2>2. run[u].pc # "idle" =>
          /\ hist'[u].skipped = hist[u].skipped
          /\ hist'[u].missed = hist[u].missed
          /\ hist'[u].swapped = hist[u].swapped
    BY <2>1, ObserveActs
  <2>3. run[u].root \in Roots /\ mount'[run[u].root] \in {NoDisk, mount[run[u].root]}
    BY <2>1 DEF TypeOK, Run
  <2>4. run[u].pc = "walk" /\ mount'[run[u].root] # NoDisk =>
          Missing(mount[run[u].root])' \subseteq hist'[u].missed
    <3> SUFFICES ASSUME run[u].pc = "walk", mount'[run[u].root] # NoDisk
                 PROVE  Missing(mount[run[u].root])' \subseteq hist'[u].missed
      OBVIOUS
    <3>1. Missing(mount[run[u].root])' = Missing(mount[run[u].root])
      BY <2>1, <2>3 DEF Missing
    <3> QED BY <1>0, <2>2, <2>3, <3>1 DEF WalkInvOf, Online
  <2>5. Accepting(u) /\ run[u].disk # NoDisk /\ ~ hist'[u].swapped =>
          mount'[run[u].root] \in {NoDisk, run[u].disk}
    BY <1>0, <2>2, <2>3 DEF WalkInvOf, Accepting
  <2> QED BY <1>0, <2>1, <2>2, <2>4, <2>5, OthersKeepIt
<1>7. ASSUME NEW d \in Disks, NEW f \in Files, NEW v \in 0..MaxVer,
             ChangeFile(d, f, v)
      PROVE  WalkInvOf(u)'
  <2>1. run' = run /\ mount' = mount /\ content' = [content EXCEPT ![d][f] = v]
    BY <1>7 DEF ChangeFile
  <2>2. run[u].pc # "idle" =>
          /\ hist'[u].skipped = hist[u].skipped
          /\ hist'[u].missed = IF v = 0 /\ Walks(u, run[u].root)
                                    /\ mount[run[u].root] = d
                               THEN hist[u].missed \cup {f}
                               ELSE hist[u].missed
          /\ hist'[u].swapped = hist[u].swapped
    BY <1>7 DEF ChangeFile, TypeOK, History
  <2>3. run[u].pc = "walk" /\ mount'[run[u].root] # NoDisk =>
          Missing(mount[run[u].root])' \subseteq hist'[u].missed
    <3> SUFFICES ASSUME run[u].pc = "walk", mount[run[u].root] # NoDisk,
                        NEW g \in Missing(mount[run[u].root])'
                 PROVE  g \in hist'[u].missed
      BY <2>1
    <3>1. /\ mount[run[u].root] \in Disks
          /\ Missing(mount[run[u].root]) \subseteq hist[u].missed
      BY <1>0 DEF TypeOK, Run, DiskOrNone, WalkInvOf, Online
    <3>2. g \in Files /\ content'[mount[run[u].root]][g] = 0
      BY <2>1, <3>1 DEF Missing
    <3>3. CASE mount[run[u].root] = d /\ g = f
      <4>1. v = 0
        BY <2>1, <3>2, <3>3 DEF TypeOK
      <4> QED BY <2>2, <3>3, <4>1 DEF Walks
    <3>4. CASE ~ (mount[run[u].root] = d /\ g = f)
      <4>1. content[mount[run[u].root]][g] = 0
        BY <2>1, <3>1, <3>2, <3>4 DEF TypeOK
      <4>2. g \in Missing(mount[run[u].root])
        BY <3>1, <3>2, <4>1, IndexerAssumption DEF Missing
      <4> QED BY <2>2, <3>1, <4>2
    <3> QED BY <3>3, <3>4
  <2>4. Accepting(u) /\ run[u].disk # NoDisk /\ ~ hist'[u].swapped =>
          mount'[run[u].root] \in {NoDisk, run[u].disk}
    BY <1>0, <2>1, <2>2 DEF WalkInvOf, Accepting
  <2> QED BY <1>0, <2>1, <2>2, <2>3, <2>4, OthersKeepIt
<1> QED BY <1>1, <1>2, <1>3, <1>4, <1>5, <1>6, <1>7 DEF Next, AdminStep, WorldStep

(* Whoever else works on the customer and whatever administrators, disks and   *)
(* files do, the walk invariant of every call holds (indexer.py:90-238).        *)
THEOREM WalkInvHolds == Spec => []WalkInv
<1>1. Init => WalkInv
  <2> SUFFICES ASSUME Init, NEW u \in Workers PROVE WalkInvOf(u)
    BY WalkInvSplits
  <2> QED BY IdleIsFine DEF Init
<1>2. TypeOK /\ WalkInv /\ [Next]_vars => WalkInv'
  BY NextKeepsWalkInv
<1> QED BY <1>1, <1>2, TypeCorrect, PTL DEF Spec

(* The type invariant and the walk invariant together.                       *)
THEOREM RunInvHolds == Spec => []RunInv
<1>1. TypeOK /\ WalkInv => RunInv
  BY DEF RunInv
<1> QED BY <1>1, TypeCorrect, WalkInvHolds, PTL

-----------------------------------------------------------------------------
(* What the steps do to the recordings table.                                *)

(* Only three kinds of step touch it. *)
LEMMA RowsChange ==
  ASSUME [Next]_vars, rows' # rows
  PROVE  \/ \E w \in Workers : UpsertBatch(w) \/ DeleteMissing(w)
         \/ \E c \in Ids : RemoveCustomer(c)
BY DEF Next, vars, tables, StartPass, RunStep, StartRun, OpenRun, AskOnline, AskSerial,
       Bind, ScanRoot, ListFolder, StatFile, SelectBatch, RunFails, Crash,
       AdminStep, AddCustomer, UpdateCustomer, RebindDrive, WorldStep, Plug,
       Unplug, ChangeFile, Upgrade

(* A batch writes the rows of its own customer, as the walk met the files. *)
LEMMA UpsertWrites ==
  ASSUME TypeOK, NEW w \in Workers, UpsertBatch(w),
         NEW c \in Ids, NEW f \in Files, rows'[c][f] # rows[c][f]
  PROVE  /\ run[w].pc = "upsert" /\ run[w].id = c /\ f \in run[w].batch
         /\ rows'[c][f].ver = run[w].walk[f].ver
<1> DEFINE new == [g \in Files |->
             IF g \in run[w].batch
             THEN [ver |-> run[w].walk[g].ver, parsed |-> g \in parser]
             ELSE rows[run[w].id][g]]
<1>1. run[w].pc = "upsert" /\ rows' = [rows EXCEPT ![run[w].id] = new]
  BY DEF UpsertBatch
<1>2. run[w].id \in Ids
  BY DEF TypeOK, Run
<1>3. run[w].id = c /\ rows'[c] = new
  <2> HIDE DEF new
  <2> QED BY <1>1, <1>2 DEF TypeOK
<1> QED BY <1>1, <1>3

(* The DELETE removes rows of its own customer that the walk has not met. *)
LEMMA DeleteRemoves ==
  ASSUME TypeOK, NEW w \in Workers, DeleteMissing(w),
         NEW c \in Ids, NEW f \in Files, rows'[c][f] # rows[c][f]
  PROVE  /\ run[w].pc = "delete" /\ run[w].id = c /\ ~ run[w].errors
         /\ run[w].walk[f].ver = 0 /\ rows'[c][f] = NoRow /\ run'[w] = Idle
<1> DEFINE new == [g \in Files |->
             IF run[w].walk[g].ver = 0 THEN NoRow ELSE rows[run[w].id][g]]
<1>1. /\ run[w].pc = "delete" /\ ~ run[w].errors /\ Finish(w)
      /\ rows' = [rows EXCEPT ![run[w].id] = new]
  BY DEF DeleteMissing
<1>2. run[w].id \in Ids
  BY DEF TypeOK, Run
<1>3. run[w].id = c /\ rows'[c] = new
  <2> HIDE DEF new
  <2> QED BY <1>1, <1>2 DEF TypeOK
<1> QED BY <1>1, <1>3, SetActs DEF Finish

(* No row of a customer that stays is lost but to a run of that customer that  *)
(* closes, could list every folder, and missed the file on the disk at its     *)
(* root or could not stat it, however many runs work on the customer at once,  *)
(* wherever it moves, and whatever disks come to its root                      *)
(* (indexer.py:5-8, 211-218).                                                 *)
THEOREM ForgetsOnlyTheGoneHolds == Spec => ForgetsOnlyTheGone
<1>1. ASSUME TypeOK, WalkInv, [Next]_vars, NEW c \in Ids, NEW f \in Files,
             Removed(c, f), cust'[c].live
      PROVE  \E w \in Workers : /\ Closes(w) /\ run[w].id = c /\ ~ run[w].errors
                                /\ f \in hist[w].missed \cup hist[w].skipped
  <2>1. rows'[c][f] # rows[c][f] /\ rows'[c][f].ver = 0
    BY <1>1 DEF Removed
  <2>2. ASSUME NEW w \in Workers, UpsertBatch(w) PROVE FALSE
    BY <1>1, <2>1, <2>2, UpsertWrites DEF WalkInv, MetOnOwnDisk
  <2>3. ASSUME NEW w \in Workers, DeleteMissing(w)
        PROVE  /\ Closes(w) /\ run[w].id = c /\ ~ run[w].errors
               /\ f \in hist[w].missed \cup hist[w].skipped
    <3>1. /\ run[w].pc = "delete" /\ run[w].id = c /\ ~ run[w].errors
          /\ run[w].walk[f].ver = 0 /\ run'[w] = Idle
      BY <1>1, <2>1, <2>3, DeleteRemoves
    <3>2. run[w].folders = {} /\ run[w].names = {}
      BY <1>1, <3>1 DEF WalkInv, WalkIsOver
    <3>3. f \in hist[w].missed \cup hist[w].skipped
      BY <1>1, <3>1, <3>2 DEF WalkInv, UnmetIsAccountedFor, Walked
    <3> QED BY <3>1, <3>3 DEF Closes, Idle
  <2>4. ASSUME NEW o \in Ids, RemoveCustomer(o) PROVE FALSE
    <3>1. cust' = [cust EXCEPT ![o] = [live |-> FALSE, root |-> SomeRoot,
                                       serial |-> NoDisk, enabled |-> FALSE]]
      BY <2>4 DEF RemoveCustomer
    <3>2. o # c
      BY <1>1, <3>1 DEF TypeOK
    <3> QED BY <1>1, <2>1, <2>4, <3>2 DEF RemoveCustomer, TypeOK
  <2> QED BY <1>1, <2>1, <2>2, <2>3, <2>4, RowsChange
<1>2. TypeOK /\ WalkInv /\ [Next]_vars =>
        [\A c \in Ids, f \in Files :
           Removed(c, f) /\ cust'[c].live =>
             \E w \in Workers : /\ Closes(w) /\ run[w].id = c /\ ~ run[w].errors
                                /\ f \in hist[w].missed \cup hist[w].skipped]_vars
  BY <1>1
<1> QED BY <1>2, TypeCorrect, WalkInvHolds, PTL DEF Spec, ForgetsOnlyTheGone

-----------------------------------------------------------------------------
(* The runs nobody disturbs.                                                 *)
(*                                                                           *)
(* A disk that comes or goes is somebody else's change: the run it happens to *)
(* is no longer alone.                                                       *)

(* Whoever else is at work, a call's local state is kept in order: nothing is *)
(* left of a call that is over, folders and names of one whose walk is over,  *)
(* a batch or rows to come of one that is not writing; and only files the     *)
(* walk has met are to be written.                                            *)
TidyOf(u) ==
  /\ run[u].pc = "idle" => run[u] = Idle /\ hist[u] = NoHistory
  /\ run[u].pc # "walk" => run[u].folders = {} /\ run[u].names = {}
  /\ run[u].pc \notin Walked => \A f \in Files : run[u].walk[f].ver = 0
  /\ run[u].pc # "upsert" => run[u].batch = {}
  /\ run[u].pc \notin {"select", "upsert"} => run[u].rest = {}
  /\ \A f \in Files : f \in run[u].rest \cup run[u].batch => run[u].walk[f].ver # 0

Alone(u) == run[u].pc # "idle" /\ hist[u].alone

Accepted == {"serial", "bind", "scan"} \cup Walked

(* The customer is as the run read it and a disk is at its root. *)
CustomerStays(u) ==
  /\ cust[run[u].id].live /\ cust[run[u].id].root = run[u].root
  /\ run[u].pc \in Accepted => Online(run[u].root)

(* What the walk met is on the drive as it was met; of a walk without errors, *)
(* what it has not met is not there, or still to be met, or was passed over.   *)
WalkIsExact(u) ==
  \A f \in Files :
    /\ run[u].walk[f].ver # 0 =>
         content[mount[run[u].root]][f] = run[u].walk[f].ver
    /\ run[u].pc \in Walked /\ ~ run[u].errors /\ run[u].walk[f].ver = 0 =>
         \/ content[mount[run[u].root]][f] = 0
         \/ FolderOf[f] \in run[u].folders
         \/ f \in run[u].names \cup hist[u].skipped

(* A row the run will not look at again agrees with the walk. *)
Agrees(u, f) ==
  /\ rows[run[u].id][f].ver = run[u].walk[f].ver
  /\ f \in parser => rows[run[u].id][f].parsed

SettledRowsAgree(u) ==
  run[u].pc \in {"select", "upsert", "delete"} =>
    \A f \in Files :
      run[u].walk[f].ver # 0 /\ f \notin run[u].rest \cup run[u].batch => Agrees(u, f)

AloneInvOf(u) ==
  /\ TidyOf(u)
  /\ Alone(u) => CustomerStays(u) /\ WalkIsExact(u) /\ SettledRowsAgree(u)

AloneInv == \A u \in Workers : AloneInvOf(u)

(* A call that is over. *)
LEMMA OverIsTidy ==
  ASSUME NEW u \in Workers, run[u] = Idle, hist[u] = NoHistory
  PROVE  AloneInvOf(u)
BY DEF AloneInvOf, TidyOf, Alone, Idle, Walked, NoEntry

LEMMA OverIsTidyNext ==
  ASSUME NEW u \in Workers, run'[u] = Idle, hist'[u] = NoHistory
  PROVE  AloneInvOf(u)'
BY DEF AloneInvOf, TidyOf, Alone, Idle, Walked, NoEntry

(* A step of somebody else: either it changes nothing the run looks at, or    *)
(* the run is no longer alone.                                               *)
LEMMA BystandersStayAlone ==
  ASSUME NEW u \in Workers, AloneInvOf(u), run'[u] = run[u],
         run[u].pc = "idle" => hist'[u] = NoHistory,
         run[u].pc # "idle" /\ hist'[u].alone =>
           /\ hist[u].alone /\ hist'[u].skipped = hist[u].skipped
           /\ UNCHANGED <<mount, content, parser, cust, rows>>
  PROVE  AloneInvOf(u)'
<1>1. TidyOf(u)'
  BY DEF AloneInvOf, TidyOf
<1>2. ASSUME Alone(u)' PROVE (CustomerStays(u) /\ WalkIsExact(u) /\ SettledRowsAgree(u))'
  <2>1. /\ Alone(u) /\ hist'[u].skipped = hist[u].skipped
        /\ UNCHANGED <<mount, content, parser, cust, rows>>
    BY <1>2 DEF Alone
  <2>2. CustomerStays(u)'
    BY <2>1 DEF AloneInvOf, CustomerStays, Online
  <2>3. WalkIsExact(u)'
    BY <2>1 DEF AloneInvOf, WalkIsExact
  <2>4. SettledRowsAgree(u)'
    BY <2>1 DEF AloneInvOf, SettledRowsAgree, Agrees
  <2> QED BY <2>2, <2>3, <2>4
<1> QED BY <1>1, <1>2 DEF AloneInvOf

(* A call that ends leaves no history. *)
LEMMA EndingIsTidy ==
  ASSUME TypeOK, NEW w \in Workers, Finish(w), NEW W, Observe(W)
  PROVE  AloneInvOf(w)'
<1>1. run'[w] = Idle /\ run'[w].pc = "idle"
  BY SetActs DEF Finish, Idle
<1>2. hist'[w] = NoHistory
  BY <1>1 DEF Observe
<1> QED BY <1>1, <1>2, OverIsTidyNext

(* What a call in progress remembers of its history after its own step. *)
LEMMA ObserveOwnStep ==
  ASSUME TypeOK, NEW w \in Workers, NEW W, Observe(W), w \in W, run'[w].pc # "idle"
  PROVE  hist'[w].alone = hist[w].alone /\ hist'[w].skipped = hist[w].skipped
<1>1. hist'[w] = [hist[w] EXCEPT !.alone = hist[w].alone /\ w \in W]
  BY DEF Observe
<1>2. hist[w] \in History
  BY DEF TypeOK
<1> QED BY <1>1, <1>2 DEF History

(* Before the walk the only thing at stake is the customer and the drive. *)
LEMMA BeforeTheWalk ==
  ASSUME NEW w \in Workers,
         run'[w].pc \in {"open", "online", "serial", "bind", "scan"},
         run'[w].folders = {}, run'[w].names = {}, run'[w].batch = {}, run'[w].rest = {},
         \A f \in Files : run'[w].walk[f].ver = 0,
         Alone(w)' => CustomerStays(w)'
  PROVE  AloneInvOf(w)'
<1>1. TidyOf(w)'
  BY DEF TidyOf
<1>2. WalkIsExact(w)' /\ SettledRowsAgree(w)'
  BY DEF WalkIsExact, SettledRowsAgree, Walked
<1> QED BY <1>1, <1>2 DEF AloneInvOf

(* Reading the customer, the run's row and the drive. *)
LEMMA OpeningStaysAlone ==
  ASSUME TypeOK, NEW w \in Workers, AloneInvOf(w),
         \/ \E c \in Ids : StartRun(w, c)
         \/ OpenRun(w) \/ AskOnline(w) \/ AskSerial(w) \/ Bind(w) \/ ScanRoot(w)
  PROVE  AloneInvOf(w)'
<1> USE DEF world, tables
<1>0. run[w] \in Run /\ hist[w] \in History
  BY DEF TypeOK
<1>1. ASSUME NEW c \in Ids, StartRun(w, c) PROVE AloneInvOf(w)'
  <2>0. hist'[w] = NoHistory /\ cust' = cust
    BY <1>1 DEF StartRun, AloneInvOf, TidyOf
  <2>1. CASE c \notin Live
    <3>1. run'[w] = Idle
      BY <1>1, <2>1, SetActs DEF StartRun, Finish
    <3> QED BY <2>0, <3>1, OverIsTidyNext
  <2>2. CASE c \in Live
    <3>1. run'[w] = [Idle EXCEPT !.pc = "open", !.id = c, !.root = cust[c].root,
                                 !.serial = cust[c].serial]
      BY <1>1, <2>2, SetActs DEF StartRun
    <3>2. /\ run'[w].pc = "open" /\ run'[w].folders = {} /\ run'[w].names = {}
          /\ run'[w].rest = {} /\ run'[w].batch = {}
          /\ run'[w].id = c /\ run'[w].root = cust[c].root
          /\ \A f \in Files : run'[w].walk[f].ver = 0
      BY <3>1 DEF Idle, NoEntry
    <3>3. CustomerStays(w)'
      BY <2>0, <2>2, <3>2 DEF CustomerStays, Accepted, Walked, Live
    <3> QED BY <3>2, <3>3, BeforeTheWalk
  <2> QED BY <2>1, <2>2
<1>2. CASE OpenRun(w)
  <2>1. CASE Finish(w)
    BY <1>2, <2>1, EndingIsTidy DEF OpenRun
  <2>2. CASE ~ Finish(w)
    <3>1. run'[w] = [run[w] EXCEPT !.pc = "online"]
      BY <1>2, <2>2, SetActs DEF OpenRun, Goto
    <3>2. /\ run[w].pc = "open" /\ run'[w].pc = "online"
          /\ run'[w].folders = run[w].folders /\ run'[w].names = run[w].names
          /\ run'[w].rest = run[w].rest /\ run'[w].batch = run[w].batch
          /\ run'[w].id = run[w].id /\ run'[w].root = run[w].root
          /\ run'[w].walk = run[w].walk
      BY <1>0, <1>2, <3>1 DEF OpenRun, Run
    <3>3. Observe(Workers) /\ cust' = cust
      BY <1>2 DEF OpenRun
    <3>4. Alone(w)' => Alone(w)
      BY <3>2, <3>3, ObserveOwnStep DEF Alone
    <3>5. Alone(w)' => CustomerStays(w)'
      BY <3>2, <3>3, <3>4 DEF AloneInvOf, CustomerStays, Accepted, Walked
    <3> QED BY <3>2, <3>5, BeforeTheWalk DEF AloneInvOf, TidyOf, Walked
  <2> QED BY <2>1, <2>2
<1>3. CASE AskOnline(w)
  <2>1. CASE Finish(w)
    BY <1>3, <2>1, EndingIsTidy DEF AskOnline
  <2>2. CASE ~ Finish(w)
    <3>1. run'[w] = [run[w] EXCEPT !.pc = "serial"]
      BY <1>3, <2>2, SetActs DEF AskOnline, Goto
    <3>2. /\ run[w].pc = "online" /\ run'[w].pc = "serial"
          /\ run'[w].folders = run[w].folders /\ run'[w].names = run[w].names
          /\ run'[w].rest = run[w].rest /\ run'[w].batch = run[w].batch
          /\ run'[w].id = run[w].id /\ run'[w].root = run[w].root
          /\ run'[w].walk = run[w].walk
      BY <1>0, <1>3, <3>1 DEF AskOnline, Run
    <3>3. Observe(Workers) /\ UNCHANGED <<mount, cust>> /\ Online(run[w].root)
      BY <1>3, <2>2 DEF AskOnline
    <3>4. Alone(w)' => Alone(w)
      BY <3>2, <3>3, ObserveOwnStep DEF Alone
    <3>5. Alone(w)' => CustomerStays(w)'
      BY <3>2, <3>3, <3>4 DEF AloneInvOf, CustomerStays, Online
    <3> QED BY <3>2, <3>5, BeforeTheWalk DEF AloneInvOf, TidyOf, Walked
  <2> QED BY <2>1, <2>2
<1>6. CASE AskSerial(w)
  <2>1. CASE Finish(w)
    BY <1>6, <2>1, EndingIsTidy DEF AskSerial
  <2>2. CASE ~ Finish(w)
    <3>1. PICK d \in SerialAnswers(run[w].root) :
            Set(w, [run[w] EXCEPT !.disk = d,
                      !.pc = IF d # NoDisk /\ run[w].serial = NoDisk THEN "bind"
                             ELSE "scan"])
      BY <1>6, <2>2 DEF AskSerial
    <3>2. run'[w] = [run[w] EXCEPT !.disk = d,
                       !.pc = IF d # NoDisk /\ run[w].serial = NoDisk THEN "bind"
                              ELSE "scan"]
      BY <3>1, SetActs
    <3>3. /\ run'[w].pc \in {"bind", "scan"}
          /\ run'[w].folders = run[w].folders /\ run'[w].names = run[w].names
          /\ run'[w].rest = run[w].rest /\ run'[w].batch = run[w].batch
          /\ run'[w].id = run[w].id /\ run'[w].root = run[w].root
          /\ run'[w].walk = run[w].walk
      BY <1>0, <3>2 DEF Run
    <3>4. /\ run[w].pc = "serial" /\ Observe(Workers)
          /\ UNCHANGED <<mount, cust>>
      BY <1>6 DEF AskSerial
    <3>5. Alone(w)' => Alone(w)
      BY <3>3, <3>4, ObserveOwnStep DEF Alone
    <3>6. Alone(w)' => CustomerStays(w)'
      BY <3>3, <3>4, <3>5 DEF AloneInvOf, CustomerStays, Accepted, Online
    <3> QED BY <3>3, <3>4, <3>6, BeforeTheWalk DEF AloneInvOf, TidyOf, Walked
  <2> QED BY <2>1, <2>2
<1>4. CASE Bind(w)
  <2>1. run'[w] = [run[w] EXCEPT !.pc = "scan"]
    BY <1>4, SetActs DEF Bind, Goto
  <2>2. /\ run[w].pc = "bind" /\ run'[w].pc = "scan" /\ run'[w].disk = run[w].disk
        /\ run'[w].folders = run[w].folders /\ run'[w].names = run[w].names
        /\ run'[w].rest = run[w].rest /\ run'[w].batch = run[w].batch
        /\ run'[w].id = run[w].id /\ run'[w].root = run[w].root
        /\ run'[w].walk = run[w].walk
    BY <1>0, <1>4, <2>1 DEF Bind, Run
  <2>3. Observe({w}) /\ UNCHANGED <<mount>>
    BY <1>4 DEF Bind
  <2>4. Alone(w)' => Alone(w)
    BY <2>2, <2>3, ObserveOwnStep DEF Alone
  <2>5. /\ cust'[run[w].id].live = cust[run[w].id].live
        /\ cust'[run[w].id].root = cust[run[w].id].root
    <3>1. run[w].id \in Ids
      BY <1>0 DEF Run
    <3> QED BY <1>4, <3>1 DEF Bind, TypeOK, Customer
  <2>6. Alone(w)' => CustomerStays(w)'
    BY <2>2, <2>3, <2>4, <2>5 DEF AloneInvOf, CustomerStays, Accepted, Online
  <2> QED BY <2>2, <2>6, BeforeTheWalk DEF AloneInvOf, TidyOf, Walked
<1>5. CASE ScanRoot(w)
  <2>1. CASE Finish(w) /\ Observe(Workers)
    BY <2>1, EndingIsTidy
  <2>2. CASE ~ (Finish(w) /\ Observe(Workers))
    <3>1. run'[w] = [run[w] EXCEPT !.pc = "walk", !.folders = Folders]
      BY <1>5, <2>2, SetActs DEF ScanRoot
    <3>2. /\ run[w].pc = "scan" /\ run'[w].pc = "walk" /\ run'[w].folders = Folders
          /\ run'[w].rest = run[w].rest /\ run'[w].batch = run[w].batch
          /\ run'[w].id = run[w].id /\ run'[w].root = run[w].root
          /\ run'[w].walk = run[w].walk /\ run'[w].disk = run[w].disk
      BY <1>0, <1>5, <3>1 DEF ScanRoot, Run
    <3>3. /\ hist' = [hist EXCEPT ![w].missed = Missing(mount[run[w].root])]
          /\ UNCHANGED <<mount, cust>>
      BY <1>5, <2>2 DEF ScanRoot
    <3>4. Alone(w)' => Alone(w)
      BY <3>2, <3>3 DEF Alone, TypeOK, History
    <3>5. TidyOf(w)'
      BY <3>2 DEF AloneInvOf, TidyOf, Walked
    <3>6. Alone(w)' => CustomerStays(w)'
      BY <3>2, <3>3, <3>4 DEF AloneInvOf, CustomerStays, Accepted, Walked, Online
    <3>7. WalkIsExact(w)' /\ SettledRowsAgree(w)'
      <4>1. \A f \in Files : run'[w].walk[f].ver = 0 /\ FolderOf[f] \in Folders
        BY <3>2, IndexerAssumption DEF AloneInvOf, TidyOf, Walked
      <4> QED BY <3>2, <4>1 DEF WalkIsExact, SettledRowsAgree
    <3> QED BY <3>5, <3>6, <3>7 DEF AloneInvOf
  <2> QED BY <2>1, <2>2
<1> QED BY <1>1, <1>2, <1>3, <1>4, <1>5, <1>6

(* A step of the walk: enough that the local state r before AfterWalk is fine. *)
LEMMA WalkStepStaysAlone ==
  ASSUME TypeOK, NEW w \in Workers, AloneInvOf(w), run[w].pc = "walk",
         UNCHANGED <<mount, content, cust>>,
         NEW r \in Run, Set(w, AfterWalk(r)),
         r.pc = "walk", r.id = run[w].id, r.root = run[w].root, r.disk = run[w].disk,
         r.rest = run[w].rest, r.batch = run[w].batch,
         hist'[w].alone = hist[w].alone,
         \A f \in Files : run[w].walk[f].ver # 0 => r.walk[f].ver # 0,
         Alone(w) => \A f \in Files :
           /\ r.walk[f].ver # 0 => content[mount[r.root]][f] = r.walk[f].ver
           /\ ~ r.errors /\ r.walk[f].ver = 0 =>
                \/ content[mount[r.root]][f] = 0
                \/ FolderOf[f] \in r.folders
                \/ f \in r.names \cup hist'[w].skipped
  PROVE  AloneInvOf(w)'
<1> DEFINE q == AfterWalk(r)
<1>1. run'[w] = q
  BY SetActs
<1>2. /\ q.walk = r.walk /\ q.folders = r.folders /\ q.names = r.names
      /\ q.errors = r.errors /\ q.root = r.root /\ q.disk = r.disk
      /\ q.batch = r.batch
      /\ \/ q.pc = "walk" /\ q.rest = r.rest
         \/ /\ q.pc = "select" /\ q.folders = {} /\ q.names = {}
            /\ q.rest = {f \in Files : r.walk[f].ver # 0}
  BY AfterWalkKeeps
<1>3. q.id = run[w].id
  BY DEF AfterWalk, Run
<1> HIDE DEF q
<1>4. run[w].rest = {} /\ run[w].batch = {}
  BY DEF AloneInvOf, TidyOf
<1>5. TidyOf(w)'
  BY <1>1, <1>2, <1>4 DEF TidyOf, Walked
<1>6. Alone(w)' => Alone(w)
  BY DEF Alone
<1>7. Alone(w) => CustomerStays(w)'
  BY <1>1, <1>2, <1>3 DEF AloneInvOf, CustomerStays, Accepted, Walked, Online
<1>8. Alone(w) => WalkIsExact(w)'
  BY <1>1, <1>2 DEF WalkIsExact
<1>9. SettledRowsAgree(w)'
  BY <1>1, <1>2 DEF SettledRowsAgree
<1> QED BY <1>5, <1>6, <1>7, <1>8, <1>9 DEF AloneInvOf

(* Listing folders and looking at files: the drive is still the one that was  *)
(* accepted, so a listing names all the folder holds and a stat reads what is *)
(* there.                                                                    *)
LEMMA WalkingStaysAlone ==
  ASSUME TypeOK, NEW w \in Workers, AloneInvOf(w), ListFolder(w) \/ StatFile(w)
  PROVE  AloneInvOf(w)'
<1> USE DEF world, tables
<1>0. run[w] \in Run /\ hist[w] \in History
  BY DEF TypeOK
<1>r. /\ run[w].walk \in [Files -> Entry] /\ run[w].root \in Roots
      /\ run[w].names \in SUBSET Files /\ run[w].folders \in SUBSET Folders
      /\ run[w].disk \in DiskOrNone
  BY <1>0 DEF Run
<1>1. /\ run[w].pc = "walk" /\ UNCHANGED <<mount, content, cust>>
  BY DEF ListFolder, StatFile
<1>2. Alone(w) =>
        Visible(run[w].root) = {f \in Files : content[mount[run[w].root]][f] # 0}
  <2>1. Alone(w) => Online(run[w].root)
    BY <1>1 DEF AloneInvOf, CustomerStays, Accepted, Walked
  <2> QED BY <2>1 DEF Visible, Online, Missing
<1>3. Alone(w) => \A f \in Files :
        /\ run[w].walk[f].ver # 0 => content[mount[run[w].root]][f] = run[w].walk[f].ver
        /\ ~ run[w].errors /\ run[w].walk[f].ver = 0 =>
             \/ content[mount[run[w].root]][f] = 0
             \/ FolderOf[f] \in run[w].folders
             \/ f \in run[w].names \cup hist[w].skipped
  BY <1>1 DEF AloneInvOf, WalkIsExact, Walked
<1>4. ASSUME NEW d \in run[w].folders, hist' = hist, run[w].names = {},
             Set(w, AfterWalk([run[w] EXCEPT !.folders = @ \ {d},
                     !.names = {f \in Visible(run[w].root) : FolderOf[f] = d}]))
      PROVE  AloneInvOf(w)'
  <2> DEFINE r == [run[w] EXCEPT !.folders = @ \ {d},
                     !.names = {f \in Visible(run[w].root) : FolderOf[f] = d}]
  <2>1. {f \in Visible(run[w].root) : FolderOf[f] = d} \in SUBSET Files
    BY DEF Visible
  <2>2. r \in Run
    BY <1>0, <2>1 DEF Run
  <2>3. /\ r.pc = "walk" /\ r.rest = run[w].rest /\ r.batch = run[w].batch
        /\ r.id = run[w].id /\ r.root = run[w].root /\ r.disk = run[w].disk
        /\ r.walk = run[w].walk /\ r.errors = run[w].errors
        /\ r.folders = run[w].folders \ {d}
        /\ r.names = {f \in Visible(run[w].root) : FolderOf[f] = d}
    BY <1>0, <1>1 DEF Run
  <2>4. Set(w, AfterWalk(r))
    BY <1>4
  <2> HIDE DEF r
  <2>5. Alone(w) => \A f \in Files :
          /\ r.walk[f].ver # 0 => content[mount[r.root]][f] = r.walk[f].ver
          /\ ~ r.errors /\ r.walk[f].ver = 0 =>
               \/ content[mount[r.root]][f] = 0
               \/ FolderOf[f] \in r.folders
               \/ f \in r.names \cup hist'[w].skipped
    BY <1>2, <1>3, <1>4, <2>3
  <2> QED BY <1>1, <1>4, <2>2, <2>3, <2>4, <2>5, WalkStepStaysAlone
<1>5. ASSUME NEW d \in run[w].folders, hist' = hist,
             Set(w, AfterWalk([run[w] EXCEPT !.folders = @ \ {d}, !.errors = TRUE]))
      PROVE  AloneInvOf(w)'
  <2> DEFINE r == [run[w] EXCEPT !.folders = @ \ {d}, !.errors = TRUE]
  <2>1. /\ r \in Run
        /\ r.pc = "walk" /\ r.rest = run[w].rest /\ r.batch = run[w].batch
        /\ r.id = run[w].id /\ r.root = run[w].root /\ r.disk = run[w].disk
        /\ r.walk = run[w].walk /\ r.errors
    BY <1>0, <1>1 DEF Run
  <2>2. Set(w, AfterWalk(r))
    BY <1>5
  <2> HIDE DEF r
  <2> QED BY <1>1, <1>3, <1>5, <2>1, <2>2, WalkStepStaysAlone
<1>6. ASSUME NEW f \in run[w].names, f \in Visible(run[w].root), hist' = hist,
             Set(w, AfterWalk([run[w] EXCEPT !.names = @ \ {f},
                  !.walk[f] = [disk |-> mount[run[w].root],
                               ver |-> content[mount[run[w].root]][f]]]))
      PROVE  AloneInvOf(w)'
  <2> DEFINE e == [disk |-> mount[run[w].root],
                   ver |-> content[mount[run[w].root]][f]]
             r == [run[w] EXCEPT !.names = @ \ {f}, !.walk[f] = e]
  <2>0. f \in Files
    BY <1>r
  <2>1. e \in Entry /\ e.ver # 0 /\ (Alone(w) => e.ver = content[mount[run[w].root]][f])
    <3>1. /\ mount[run[w].root] \in Disks
          /\ content[mount[run[w].root]][f] \in 0..MaxVer
      BY <1>r, <1>6, <2>0 DEF Visible, Online, TypeOK, DiskOrNone
    <3>2. content[mount[run[w].root]][f] # 0
      BY <1>6, <2>0, <3>1, IndexerAssumption DEF Visible, Missing
    <3> QED BY <1>2, <3>1, <3>2 DEF Entry, DiskOrNone
  <2> HIDE DEF e
  <2>2. r \in Run
    BY <1>0, <2>0, <2>1 DEF Run
  <2>3. /\ r.pc = "walk" /\ r.rest = run[w].rest /\ r.batch = run[w].batch
        /\ r.id = run[w].id /\ r.root = run[w].root /\ r.disk = run[w].disk
        /\ r.errors = run[w].errors /\ r.folders = run[w].folders
        /\ r.names = run[w].names \ {f} /\ r.walk = [run[w].walk EXCEPT ![f] = e]
    BY <1>0, <1>1 DEF Run
  <2>4. Set(w, AfterWalk(r))
    BY <1>6 DEF e
  <2> HIDE DEF r
  <2>5. \A g \in Files : r.walk[g] = IF g = f THEN e ELSE run[w].walk[g]
    BY <1>r, <2>3
  <2>6. \A g \in Files : run[w].walk[g].ver # 0 => r.walk[g].ver # 0
    BY <2>1, <2>5
  <2>7. Alone(w) => \A g \in Files :
          /\ r.walk[g].ver # 0 => content[mount[r.root]][g] = r.walk[g].ver
          /\ ~ r.errors /\ r.walk[g].ver = 0 =>
               \/ content[mount[r.root]][g] = 0
               \/ FolderOf[g] \in r.folders
               \/ g \in r.names \cup hist'[w].skipped
    BY <1>3, <1>6, <2>1, <2>3, <2>5
  <2> QED BY <1>1, <1>6, <2>2, <2>3, <2>4, <2>6, <2>7, WalkStepStaysAlone
<1>7. ASSUME NEW f \in run[w].names,
             Set(w, AfterWalk([run[w] EXCEPT !.names = @ \ {f}])),
             hist' = [hist EXCEPT ![w].skipped = @ \cup {f}]
      PROVE  AloneInvOf(w)'
  <2> DEFINE r == [run[w] EXCEPT !.names = @ \ {f}]
  <2>1. /\ r \in Run
        /\ r.pc = "walk" /\ r.rest = run[w].rest /\ r.batch = run[w].batch
        /\ r.id = run[w].id /\ r.root = run[w].root /\ r.disk = run[w].disk
        /\ r.walk = run[w].walk
        /\ r.errors = run[w].errors /\ r.folders = run[w].folders
        /\ r.names = run[w].names \ {f}
    BY <1>0, <1>1 DEF Run
  <2>2. Set(w, AfterWalk(r))
    BY <1>7
  <2> HIDE DEF r
  <2>3. /\ hist'[w].alone = hist[w].alone
        /\ hist'[w].skipped = hist[w].skipped \cup {f}
    BY <1>0, <1>7 DEF TypeOK, History
  <2>4. Alone(w) => \A g \in Files :
          /\ r.walk[g].ver # 0 => content[mount[r.root]][g] = r.walk[g].ver
          /\ ~ r.errors /\ r.walk[g].ver = 0 =>
               \/ content[mount[r.root]][g] = 0
               \/ FolderOf[g] \in r.folders
               \/ g \in r.names \cup hist'[w].skipped
    BY <1>3, <2>1, <2>3
  <2> QED BY <1>1, <2>1, <2>2, <2>3, <2>4, WalkStepStaysAlone
<1>8. CASE ListFolder(w)
  BY <1>4, <1>5, <1>8 DEF ListFolder
<1>9. CASE StatFile(w)
  BY <1>6, <1>7, <1>9 DEF StatFile
<1> QED BY <1>8, <1>9

(* A step after the walk keeps the drive and the walk as they are; what is    *)
(* left to show is that the rows it settles agree.                           *)
LEMMA WriteStepStaysAlone ==
  ASSUME TypeOK, NEW w \in Workers, AloneInvOf(w),
         run[w].pc \in {"select", "upsert"},
         UNCHANGED <<mount, content, parser, cust>>,
         hist' = hist \/ Observe({w}),
         NEW r, run'[w] = r, r.pc \in {"select", "upsert", "delete"},
         r.id = run[w].id, r.root = run[w].root, r.disk = run[w].disk,
         r.walk = run[w].walk, r.errors = run[w].errors,
         r.folders = run[w].folders, r.names = run[w].names,
         r.rest \subseteq run[w].rest, r.batch \subseteq run[w].rest,
         r.pc # "upsert" => r.batch = {}, r.pc = "delete" => r.rest = {},
         Alone(w) => \A f \in Files :
           r.walk[f].ver # 0 /\ f \notin r.rest \cup r.batch =>
             /\ rows'[r.id][f].ver = r.walk[f].ver
             /\ f \in parser => rows'[r.id][f].parsed
  PROVE  AloneInvOf(w)'
<1>1. hist'[w].alone = hist[w].alone /\ hist'[w].skipped = hist[w].skipped
  BY ObserveOwnStep
<1>2. Alone(w)' => Alone(w)
  BY <1>1 DEF Alone
<1>3. TidyOf(w)'
  BY DEF AloneInvOf, TidyOf, Walked
<1>4. Alone(w) => CustomerStays(w)'
  BY DEF AloneInvOf, CustomerStays, Accepted, Walked, Online
<1>5. Alone(w) => WalkIsExact(w)'
  BY <1>1 DEF AloneInvOf, WalkIsExact, Walked
<1>6. Alone(w) => SettledRowsAgree(w)'
  BY DEF SettledRowsAgree, Agrees
<1> QED BY <1>2, <1>3, <1>4, <1>5, <1>6 DEF AloneInvOf

(* The SELECT settles the rows that need nothing and those it takes and       *)
(* leaves alone; the batch settles the rows it writes.                       *)
LEMMA WritingStaysAlone ==
  ASSUME TypeOK, NEW w \in Workers, AloneInvOf(w),
         SelectBatch(w) \/ UpsertBatch(w) \/ DeleteMissing(w)
  PROVE  AloneInvOf(w)'
<1> USE DEF world, tables
<1>0. run[w] \in Run /\ run[w].id \in Ids /\ run[w].rest \in SUBSET Files
      /\ run[w].batch \in SUBSET Files
  BY DEF TypeOK, Run
<1>1. CASE SelectBatch(w)
  <2> DEFINE stale == {f \in run[w].rest : Stale(run[w].id, run[w].walk, f)}
             writable(taken) == {f \in taken : Writable(run[w].id, run[w].walk, f)}
             next(taken, passed) ==
               [run[w] EXCEPT
                  !.rest = @ \ (taken \cup passed),
                  !.batch = writable(taken),
                  !.pc = IF \E f \in taken : Writable(run[w].id, run[w].walk, f)
                         THEN "upsert" ELSE "select"]
  <2>1. /\ run[w].pc = "select" /\ hist' = hist
        /\ UNCHANGED <<mount, content, parser, cust, rows>>
    BY <1>1 DEF SelectBatch
  <2>2. run[w].batch = {}
    BY <2>1 DEF AloneInvOf, TidyOf
  <2>3. \A f \in run[w].rest : run[w].walk[f].ver # 0
    BY <1>0 DEF AloneInvOf, TidyOf
  <2>4. \A f \in run[w].rest \ stale : Agrees(w, f)
    BY <2>3 DEF Stale, Agrees
  <2>5. Alone(w) => \A f \in Files :
          run[w].walk[f].ver # 0 /\ f \notin run[w].rest => Agrees(w, f)
    BY <2>1, <2>2 DEF AloneInvOf, SettledRowsAgree
  <2>6. CASE stale = {} /\ Set(w, [run[w] EXCEPT !.pc = "delete", !.rest = {}])
    <3> DEFINE r == [run[w] EXCEPT !.pc = "delete", !.rest = {}]
    <3>1. /\ r.pc = "delete" /\ r.walk = run[w].walk /\ r.errors = run[w].errors
          /\ r.folders = run[w].folders /\ r.names = run[w].names
          /\ r.id = run[w].id /\ r.root = run[w].root /\ r.disk = run[w].disk
          /\ r.rest = {} /\ r.batch = run[w].batch
      BY <1>0 DEF Run
    <3>2. run'[w] = r
      BY <2>6, SetActs
    <3> HIDE DEF r
    <3>3. Alone(w) => \A f \in Files : run[w].walk[f].ver # 0 => Agrees(w, f)
      BY <2>4, <2>5, <2>6
    <3>4. Alone(w) => \A f \in Files :
            r.walk[f].ver # 0 /\ f \notin r.rest \cup r.batch =>
              /\ rows'[r.id][f].ver = r.walk[f].ver
              /\ f \in parser => rows'[r.id][f].parsed
      BY <2>1, <3>1, <3>3 DEF Agrees
    <3> QED BY <2>1, <2>2, <3>1, <3>2, <3>4, WriteStepStaysAlone
  <2>7. ASSUME NEW taken \in SUBSET stale, NEW passed \in SUBSET (run[w].rest \ stale),
               Set(w, next(taken, passed))
        PROVE  AloneInvOf(w)'
    <3> DEFINE r == next(taken, passed)
    <3>1. /\ r.pc = IF \E f \in taken : Writable(run[w].id, run[w].walk, f)
                    THEN "upsert" ELSE "select"
          /\ r.walk = run[w].walk /\ r.errors = run[w].errors
          /\ r.folders = run[w].folders /\ r.names = run[w].names
          /\ r.id = run[w].id /\ r.root = run[w].root /\ r.disk = run[w].disk
          /\ r.rest = run[w].rest \ (taken \cup passed)
          /\ r.batch = writable(taken)
      BY <1>0 DEF Run
    <3>2. run'[w] = r
      BY <2>7, SetActs
    <3>3. \A f \in taken \ writable(taken) : Agrees(w, f)
      BY DEF Writable, Agrees
    <3>4. r.batch \subseteq run[w].rest /\ r.rest \subseteq run[w].rest
      BY <3>1
    <3>5. r.pc # "upsert" => r.batch = {}
      BY <3>1
    <3>6. \A f \in Files : f \notin r.rest \cup r.batch =>
            \/ f \notin run[w].rest \/ f \in run[w].rest \ stale
            \/ f \in taken \ writable(taken)
      BY <3>1
    <3> HIDE DEF r, stale, writable
    <3>7. Alone(w) => \A f \in Files :
            r.walk[f].ver # 0 /\ f \notin r.rest \cup r.batch => Agrees(w, f)
      BY <2>4, <2>5, <3>1, <3>3, <3>6
    <3>8. Alone(w) => \A f \in Files :
            r.walk[f].ver # 0 /\ f \notin r.rest \cup r.batch =>
              /\ rows'[r.id][f].ver = r.walk[f].ver
              /\ f \in parser => rows'[r.id][f].parsed
      BY <2>1, <3>1, <3>7 DEF Agrees
    <3> QED BY <2>1, <3>1, <3>2, <3>4, <3>5, <3>8, WriteStepStaysAlone
  <2>8. \/ stale = {} /\ Set(w, [run[w] EXCEPT !.pc = "delete", !.rest = {}])
        \/ \E taken \in SUBSET stale, passed \in SUBSET (run[w].rest \ stale) :
             Set(w, next(taken, passed))
    BY <1>1, Zenon DEF SelectBatch
  <2> HIDE DEF stale, next
  <2> QED BY <2>6, <2>7, <2>8
<1>2. CASE UpsertBatch(w)
  <2>1. CASE Finish(w) /\ Observe(Workers)
    BY <2>1, EndingIsTidy
  <2>2. CASE ~ (Finish(w) /\ Observe(Workers))
    <3> DEFINE new == [f \in Files |->
                 IF f \in run[w].batch
                 THEN [ver |-> run[w].walk[f].ver, parsed |-> f \in parser]
                 ELSE rows[run[w].id][f]]
               r == [run[w] EXCEPT !.pc = "select", !.batch = {}]
    <3>1. /\ run[w].pc = "upsert" /\ Observe({w})
          /\ UNCHANGED <<mount, content, parser, cust>>
          /\ Set(w, r) /\ rows' = [rows EXCEPT ![run[w].id] = new]
      BY <1>2, <2>2 DEF UpsertBatch
    <3>2. /\ r.pc = "select" /\ r.walk = run[w].walk /\ r.errors = run[w].errors
          /\ r.folders = run[w].folders /\ r.names = run[w].names
          /\ r.id = run[w].id /\ r.root = run[w].root /\ r.disk = run[w].disk
          /\ r.rest = run[w].rest /\ r.batch = {}
      BY <1>0 DEF Run
    <3>3. run'[w] = r
      BY <3>1, SetActs
    <3>4. rows'[run[w].id] = new
      <4> HIDE DEF new
      <4> QED BY <1>0, <3>1 DEF TypeOK
    <3>5. \A f \in Files :
            /\ f \in run[w].batch =>
                 /\ rows'[run[w].id][f].ver = run[w].walk[f].ver
                 /\ f \in parser => rows'[run[w].id][f].parsed
            /\ f \notin run[w].batch => rows'[run[w].id][f] = rows[run[w].id][f]
      <4> SUFFICES ASSUME NEW f \in Files
                   PROVE  /\ f \in run[w].batch =>
                               /\ new[f].ver = run[w].walk[f].ver
                               /\ f \in parser => new[f].parsed
                          /\ f \notin run[w].batch => new[f] = rows[run[w].id][f]
        BY <3>4
      <4>1. ASSUME f \in run[w].batch
            PROVE  new[f] = [ver |-> run[w].walk[f].ver, parsed |-> f \in parser]
        BY <4>1
      <4>2. ASSUME f \notin run[w].batch PROVE new[f] = rows[run[w].id][f]
        BY <4>2
      <4> HIDE DEF new
      <4>3. f \in run[w].batch => new[f].ver = run[w].walk[f].ver
        BY <4>1
      <4>4. ASSUME f \in run[w].batch, f \in parser PROVE new[f].parsed
        <5>1. (f \in parser) = TRUE
          BY <4>4
        <5>2. new[f] = [ver |-> run[w].walk[f].ver, parsed |-> TRUE]
          BY <4>1, <4>4, <5>1, Zenon
        <5> QED BY <5>2
      <4> QED BY <4>2, <4>3, <4>4
    <3> HIDE DEF r, new
    <3>6. Alone(w) => \A f \in Files :
            run[w].walk[f].ver # 0 /\ f \notin run[w].rest \cup run[w].batch =>
              Agrees(w, f)
      BY <3>1 DEF AloneInvOf, SettledRowsAgree
    <3>7. Alone(w) => \A f \in Files :
            r.walk[f].ver # 0 /\ f \notin r.rest \cup r.batch =>
              /\ rows'[r.id][f].ver = r.walk[f].ver
              /\ f \in parser => rows'[r.id][f].parsed
      <4> SUFFICES ASSUME Alone(w), NEW f \in Files,
                          r.walk[f].ver # 0, f \notin r.rest \cup r.batch
                   PROVE  /\ rows'[r.id][f].ver = r.walk[f].ver
                          /\ f \in parser => rows'[r.id][f].parsed
        OBVIOUS
      <4>1. CASE f \in run[w].batch
        BY <3>2, <3>5, <4>1
      <4>2. CASE f \notin run[w].batch
        <5>1. Agrees(w, f) /\ rows'[run[w].id][f] = rows[run[w].id][f]
          BY <3>2, <3>5, <3>6, <4>2
        <5> QED BY <3>2, <5>1 DEF Agrees
      <4> QED BY <4>1, <4>2
    <3> QED BY <3>1, <3>2, <3>3, <3>7, WriteStepStaysAlone
  <2> QED BY <2>1, <2>2
<1>3. CASE DeleteMissing(w)
  BY <1>3, EndingIsTidy DEF DeleteMissing
<1> QED BY <1>1, <1>2, <1>3

(* Every step keeps every call in order and the undisturbed ones exact. *)
LEMMA NextKeepsAloneInv ==
  ASSUME TypeOK, AloneInv, [Next]_vars
  PROVE  AloneInv'
<1> USE DEF world, tables
<1> SUFFICES ASSUME NEW u \in Workers PROVE AloneInvOf(u)'
  BY DEF AloneInv
<1>0. AloneInvOf(u) /\ (run[u].pc = "idle" => hist[u] = NoHistory)
  BY DEF AloneInv, AloneInvOf, TidyOf
<1>1. ASSUME NEW w \in Workers, RunStep(w) \/ RunFails(w) \/ Crash(w)
      PROVE  AloneInvOf(u)'
  <2>1. CASE u = w
    <3>1. ASSUME RunFails(w) \/ Crash(w) PROVE AloneInvOf(w)'
      <4>1. Finish(w) /\ Observe(Workers)
        BY <3>1 DEF RunFails, Crash
      <4> QED BY <4>1, EndingIsTidy
    <3> QED BY <1>0, <1>1, <2>1, <3>1, OpeningStaysAlone, WalkingStaysAlone,
               WritingStaysAlone DEF RunStep
  <2>2. CASE u # w
    <3>1. \E r : Set(w, r)
      BY <1>1 DEF RunStep, StartRun, OpenRun, AskOnline, AskSerial, Bind, ScanRoot,
         ListFolder, StatFile, SelectBatch, UpsertBatch, DeleteMissing,
         RunFails, Crash, Finish, Goto
    <3>2. run'[u] = run[u]
      BY <2>2, <3>1, SetActs
    <3>3. CASE /\ UNCHANGED hist[u]
               /\ UNCHANGED <<mount, content, parser, cust, rows>>
      BY <1>0, <3>2, <3>3, BystandersStayAlone
    <3>4. CASE /\ Observe(Workers)
               /\ UNCHANGED <<mount, content, parser, cust, rows>>
      <4>1. run[u].pc = "idle" => hist'[u] = NoHistory
        BY <3>2, <3>4 DEF Observe
      <4>2. run[u].pc # "idle" => /\ hist'[u].alone = hist[u].alone
                                  /\ hist'[u].skipped = hist[u].skipped
        BY <3>2, <3>4, ObserveOwnStep
      <4> QED BY <1>0, <3>2, <3>4, <4>1, <4>2, BystandersStayAlone
    <3>5. CASE Observe({w})
      <4>1. run[u].pc = "idle" => hist'[u] = NoHistory
        BY <3>2, <3>5 DEF Observe
      <4>2. run[u].pc # "idle" => ~ hist'[u].alone
        BY <2>2, <3>2, <3>5 DEF Observe, TypeOK, History
      <4> QED BY <1>0, <3>2, <4>1, <4>2, BystandersStayAlone
    <3>6. CASE OpenRun(w) \/ AskOnline(w) \/ AskSerial(w) \/ RunFails(w) \/ Crash(w)
      BY <3>4, <3>6 DEF OpenRun, AskOnline, AskSerial, RunFails, Crash
    <3>7. CASE Bind(w) \/ UpsertBatch(w) \/ DeleteMissing(w)
      BY <3>4, <3>5, <3>7 DEF Bind, UpsertBatch, DeleteMissing
    <3>8. CASE (\E c \in Ids : StartRun(w, c)) \/ ListFolder(w) \/ SelectBatch(w)
      BY <3>3, <3>8 DEF StartRun, ListFolder, SelectBatch
    <3>9. CASE ScanRoot(w)
      <4>1. UNCHANGED <<mount, content, parser, cust, rows>>
        BY <3>9 DEF ScanRoot
      <4>2. Observe(Workers) \/ UNCHANGED hist[u]
        BY <2>2, <3>9 DEF ScanRoot, TypeOK
      <4> QED BY <3>3, <3>4, <4>1, <4>2
    <3>10. CASE StatFile(w)
      <4>1. UNCHANGED hist[u]
        BY <2>2, <3>10 DEF StatFile, TypeOK
      <4> QED BY <3>3, <3>10, <4>1 DEF StatFile
    <3> QED BY <1>1, <3>6, <3>7, <3>8, <3>9, <3>10 DEF RunStep
  <2> QED BY <2>1, <2>2
<1>2. CASE StartPass \/ UNCHANGED vars
  <2>1. /\ run'[u] = run[u] /\ UNCHANGED hist[u]
        /\ UNCHANGED <<mount, content, parser, cust, rows>>
    BY <1>2 DEF StartPass, vars
  <2> QED BY <1>0, <2>1, BystandersStayAlone
<1>3. ASSUME NEW f \in Files, Upgrade(f) PROVE AloneInvOf(u)'
  <2>1. run' = run /\ hist' = hist /\ run[u].pc = "idle"
    BY <1>3 DEF Upgrade
  <2> QED BY <1>0, <2>1, BystandersStayAlone
<1>4. ASSUME run' = run, Observe({}) PROVE AloneInvOf(u)'
  <2>1. run[u].pc = "idle" => hist'[u] = NoHistory
    BY <1>4 DEF Observe
  <2>2. run[u].pc # "idle" => ~ hist'[u].alone
    BY <1>4 DEF Observe, TypeOK, History
  <2> QED BY <1>0, <1>4, <2>1, <2>2, BystandersStayAlone
<1>5. ASSUME NEW c \in Ids, RemoveCustomer(c) PROVE AloneInvOf(u)'
  <2>1. run' = run /\ (run[u].pc = "idle" => hist'[u] = NoHistory)
    BY <1>5 DEF RemoveCustomer
  <2>2. run[u].pc # "idle" => ~ hist'[u].alone
    BY <1>5 DEF RemoveCustomer, TypeOK, History
  <2> QED BY <1>0, <2>1, <2>2, BystandersStayAlone
<1>6. ASSUME NEW d \in Disks, NEW f \in Files, NEW v \in 0..MaxVer, ChangeFile(d, f, v)
      PROVE  AloneInvOf(u)'
  <2>1. run' = run /\ (run[u].pc = "idle" => hist'[u] = NoHistory)
    BY <1>6 DEF ChangeFile
  <2>2. run[u].pc # "idle" => ~ hist'[u].alone
    BY <1>6 DEF ChangeFile, TypeOK, History
  <2> QED BY <1>0, <2>1, <2>2, BystandersStayAlone
<1>7. CASE \/ \E c \in Ids, r \in Roots, viaWeb, e \in BOOLEAN :
                AddCustomer(c, r, viaWeb, e)
           \/ \E c \in Ids, r \in Roots, e \in BOOLEAN : UpdateCustomer(c, r, e)
           \/ \E c \in Ids : RebindDrive(c)
           \/ \E r \in Roots : Unplug(r)
  BY <1>4, <1>7 DEF AddCustomer, UpdateCustomer, RebindDrive, Unplug
<1>8. ASSUME NEW d \in Disks, NEW r \in Roots, Plug(d, r) PROVE AloneInvOf(u)'
  <2>1. run' = run /\ (run[u].pc = "idle" => hist'[u] = NoHistory)
    BY <1>8 DEF Plug
  <2>2. run[u].pc # "idle" => ~ hist'[u].alone
    BY <1>8 DEF Plug, TypeOK, History
  <2> QED BY <1>0, <2>1, <2>2, BystandersStayAlone
<1> QED BY <1>1, <1>2, <1>3, <1>5, <1>6, <1>7, <1>8 DEF Next, AdminStep, WorldStep

(* However runs, administrators, disks and files interleave, a call's local    *)
(* state is in order, and a call nobody has disturbed has                     *)
(* the drive and the customer it began with, a walk equal to the drive, and    *)
(* rows equal to the walk wherever it will not look again                      *)
(* (indexer.py:90-227).                                                       *)
THEOREM AloneInvHolds == Spec => []AloneInv
<1>1. Init => AloneInv
  BY OverIsTidy DEF Init, AloneInv
<1>2. TypeOK /\ AloneInv /\ [Next]_vars => AloneInv'
  BY NextKeepsAloneInv
<1> QED BY <1>1, <1>2, TypeCorrect, PTL DEF Spec

(* A run that nobody disturbed and that could stat every file closes with the *)
(* table equal to the drive, whatever was in the table when it began: rows of *)
(* an older parser, of a crashed run, of a disk that was swapped before       *)
(* (indexer.py:143-227).                                                      *)
THEOREM ExactWhenAloneHolds == Spec => ExactWhenAlone
<1>1. ASSUME TypeOK, AloneInv, [Next]_vars, NEW w \in Workers, NEW c \in Ids,
             DeleteMissing(w), run[w].id = c, ~ run[w].errors,
             hist[w].alone, hist[w].skipped = {}
      PROVE  Exact(c)'
  <2> DEFINE new == [f \in Files |->
               IF run[w].walk[f].ver = 0 THEN NoRow ELSE rows[c][f]]
             d == mount[run[w].root]
  <2>1. /\ run[w].pc = "delete" /\ rows' = [rows EXCEPT ![c] = new]
        /\ UNCHANGED <<mount, content, parser, cust>>
    BY <1>1 DEF DeleteMissing, world
  <2>2. /\ TidyOf(w) /\ CustomerStays(w) /\ WalkIsExact(w) /\ SettledRowsAgree(w)
    BY <1>1, <2>1 DEF AloneInv, AloneInvOf, Alone
  <2>3. mount'[cust'[c].root] = d
    BY <1>1, <2>1, <2>2 DEF CustomerStays, Accepted, Walked
  <2>4. rows'[c] = new
    <3> HIDE DEF new
    <3> QED BY <1>1, <2>1 DEF TypeOK
  <2>5. /\ run[w].folders = {} /\ run[w].names = {}
        /\ run[w].rest = {} /\ run[w].batch = {}
    BY <2>1, <2>2 DEF TidyOf
  <2>6. ASSUME NEW f \in Files
        PROVE  /\ rows'[c][f].ver = content[d][f]
               /\ rows'[c][f].ver # 0 /\ f \in parser => rows'[c][f].parsed
    <3>1. CASE run[w].walk[f].ver = 0
      <4>1. content[d][f] = 0
        BY <1>1, <2>1, <2>2, <2>5, <3>1 DEF WalkIsExact, Walked
      <4>2. rows'[c][f] = NoRow
        BY <2>4, <3>1
      <4> QED BY <4>1, <4>2 DEF NoRow
    <3>2. CASE run[w].walk[f].ver # 0
      <4>1. Agrees(w, f)
        BY <2>1, <2>2, <2>5, <3>2 DEF SettledRowsAgree
      <4>2. content[d][f] = run[w].walk[f].ver
        BY <2>2, <3>2 DEF WalkIsExact
      <4>3. rows'[c][f] = rows[c][f]
        BY <2>4, <3>2
      <4> QED BY <1>1, <4>1, <4>2, <4>3 DEF Agrees
    <3> QED BY <3>1, <3>2
  <2> HIDE DEF new, d
  <2> QED BY <2>1, <2>3, <2>6 DEF Exact
<1>2. TypeOK /\ AloneInv /\ [Next]_vars =>
        [\A w \in Workers, c \in Ids :
           (/\ DeleteMissing(w) /\ run[w].id = c /\ ~ run[w].errors
            /\ hist[w].alone /\ hist[w].skipped = {})
           => Exact(c)']_vars
  BY <1>1
<1> QED BY <1>2, TypeCorrect, AloneInvHolds, PTL DEF Spec, ExactWhenAlone

-----------------------------------------------------------------------------
(* The index implements the catalogue.                                       *)

Shown == [c \in Ids |-> {f \in Files : rows[c][f].ver # 0}]
NoOrphanRows ==
  \A c \in Ids : ~ cust[c].live => \A f \in Files : rows[c][f].ver = 0

(* What a step shows of one customer is decided by its rows alone. *)
LEMMA ShownActs ==
  /\ Shown \in [Ids -> SUBSET Files]
  /\ \A c \in Ids : Shown[c] = {f \in Files : rows[c][f].ver # 0}
  /\ \A c \in Ids : Shown'[c] = {f \in Files : rows'[c][f].ver # 0}
  /\ rows' = rows => Shown' = Shown
BY DEF Shown

(* Rows that change for one customer change what is shown of that one. *)
LEMMA ShownElsewhere ==
  ASSUME NEW c \in Ids, NEW F,
         \A o \in Ids \ {c} : rows'[o] = rows[o],
         {f \in Files : rows'[c][f].ver # 0} = F
  PROVE  Shown' = [Shown EXCEPT ![c] = F]
<1>1. Shown' \in [Ids -> SUBSET Files] /\ Shown \in [Ids -> SUBSET Files]
  BY DEF Shown
<1>2. \A o \in Ids : Shown'[o] = IF o = c THEN F ELSE Shown[o]
  <2>1. Shown'[c] = F
    BY ShownActs
  <2>2. ASSUME NEW o \in Ids \ {c} PROVE Shown'[o] = Shown[o]
    <3>1. rows'[o] = rows[o]
      OBVIOUS
    <3> QED BY <3>1 DEF Shown
  <2> QED BY <2>1, <2>2
<1>3. [Shown EXCEPT ![c] = F] = [o \in Ids |-> IF o = c THEN F ELSE Shown[o]]
  BY <1>1
<1> QED BY <1>1, <1>2, <1>3

LEMMA UpsertIsLearn ==
  ASSUME TypeOK, AloneInv, NEW w \in Workers, UpsertBatch(w)
  PROVE  \/ UNCHANGED rows /\ UNCHANGED cust
         \/ /\ run[w].id \in Live /\ UNCHANGED cust
            /\ Shown' = [Shown EXCEPT ![run[w].id] = @ \cup run[w].batch]
            /\ \A o \in Ids \ {run[w].id} : rows'[o] = rows[o]
<1> DEFINE r == run[w]
           new == [f \in Files |->
             IF f \in r.batch
             THEN [ver |-> r.walk[f].ver, parsed |-> f \in parser]
             ELSE rows[r.id][f]]
<1>0. r \in Run /\ r.id \in Ids /\ r.batch \subseteq Files
  BY DEF TypeOK, Run
<1>1. CASE r.id \in Live /\ rows' = [rows EXCEPT ![r.id] = new] /\ UNCHANGED cust
  <2>1. rows'[r.id] = new /\ \A o \in Ids \ {r.id} : rows'[o] = rows[o]
    <3> HIDE DEF new
    <3> QED BY <1>0, <1>1 DEF TypeOK
  <2>2. \A f \in r.batch : r.walk[f].ver # 0
    BY <1>0 DEF AloneInv, AloneInvOf, TidyOf
  <2>3. {f \in Files : rows'[r.id][f].ver # 0} = Shown[r.id] \cup r.batch
    BY SMTT(30), <1>0, <2>1, <2>2, ShownActs
  <2>4. Shown' = [Shown EXCEPT ![r.id] = Shown[r.id] \cup r.batch]
    BY <1>0, <2>1, <2>3, ShownElsewhere
  <2> QED BY <1>1, <2>1, <2>4
<1>2. CASE UNCHANGED rows /\ UNCHANGED cust
  BY <1>2
<1> QED BY <1>1, <1>2 DEF UpsertBatch

LEMMA DeleteIsForget ==
  ASSUME TypeOK, NoOrphanRows, NEW w \in Workers, DeleteMissing(w)
  PROVE  /\ UNCHANGED cust
         /\ \/ UNCHANGED Shown
            \/ /\ run[w].id \in Live
               /\ \E F \in SUBSET Files :
                    Shown' = [Shown EXCEPT ![run[w].id] = @ \ F]
         /\ NoOrphanRows'
<1> DEFINE r == run[w]
           new == [f \in Files |->
             IF r.walk[f].ver = 0 THEN NoRow ELSE rows[r.id][f]]
           gone == {f \in Files : r.walk[f].ver = 0}
<1>0. r.id \in Ids /\ UNCHANGED cust
  BY DEF TypeOK, Run, DeleteMissing
<1>1. CASE rows' = [rows EXCEPT ![r.id] = new]
  <2>1. rows'[r.id] = new /\ \A o \in Ids \ {r.id} : rows'[o] = rows[o]
    <3> HIDE DEF new
    <3> QED BY <1>0, <1>1 DEF TypeOK
  <2>2. {f \in Files : rows'[r.id][f].ver # 0} = Shown[r.id] \ gone
    BY <1>0, <2>1, ShownActs DEF NoRow
  <2>3. Shown' = [Shown EXCEPT ![r.id] = Shown[r.id] \ gone]
    BY <1>0, <2>1, <2>2, ShownElsewhere
  <2>4. NoOrphanRows'
    BY <1>0, <2>1 DEF NoOrphanRows, NoRow
  <2>5. CASE r.id \in Live
    BY <1>0, <2>3, <2>4, <2>5
  <2>6. CASE r.id \notin Live
    <3>1. Shown[r.id] = {}
      BY <1>0, <2>6, ShownActs DEF NoOrphanRows, Live
    <3>2. Shown' = Shown
      BY <1>0, <2>3, <3>1, ShownActs
    <3> QED BY <1>0, <2>4, <3>2
  <2> QED BY <2>5, <2>6
<1>2. CASE UNCHANGED rows
  BY <1>0, <1>2, ShownActs DEF NoOrphanRows
<1> QED BY <1>1, <1>2 DEF DeleteMissing

LEMMA RemoveIsGo ==
  ASSUME TypeOK, NoOrphanRows, NEW c \in Ids, RemoveCustomer(c)
  PROVE  /\ c \in Live /\ Live' = Live \ {c}
         /\ Shown' = [Shown EXCEPT ![c] = {}]
         /\ NoOrphanRows'
<1>1. rows'[c] = NoRows /\ \A o \in Ids \ {c} : rows'[o] = rows[o]
  BY DEF RemoveCustomer, TypeOK
<1>2. ~ cust'[c].live /\ \A o \in Ids \ {c} : cust'[o] = cust[o]
  BY DEF RemoveCustomer, TypeOK
<1>3. c \in Live /\ Live' = Live \ {c}
  BY <1>2 DEF Live, RemoveCustomer
<1>4. {f \in Files : rows'[c][f].ver # 0} = {}
  BY <1>1 DEF NoRows, NoRow
<1>5. Shown' = [Shown EXCEPT ![c] = {}]
  BY <1>1, <1>4, ShownElsewhere
<1>6. NoOrphanRows'
  BY <1>1, <1>2 DEF NoOrphanRows, NoRows, NoRow
<1> QED BY <1>3, <1>5, <1>6

LEMMA AddIsCome ==
  ASSUME TypeOK, NoOrphanRows, NEW c \in Ids, NEW r \in Roots,
         NEW viaWeb \in BOOLEAN, NEW e \in BOOLEAN, AddCustomer(c, r, viaWeb, e)
  PROVE  /\ c \notin Live /\ Live' = Live \cup {c} /\ Shown[c] = {}
         /\ UNCHANGED Shown /\ NoOrphanRows'
<1>1. c \notin Live
  BY IndexerAssumption DEF AddCustomer, NewId
<1>2. cust'[c].live /\ \A o \in Ids \ {c} : cust'[o] = cust[o]
  BY DEF AddCustomer, TypeOK
<1>3. Live' = Live \cup {c}
  BY <1>2 DEF Live
<1>4. rows' = rows
  BY DEF AddCustomer
<1>5. Shown[c] = {}
  BY <1>1, ShownActs DEF NoOrphanRows, Live
<1> QED BY <1>1, <1>2, <1>3, <1>4, <1>5, ShownActs DEF NoOrphanRows

(* Every other step leaves the rows, and which ids are customers, alone. *)
LEMMA OthersShowNothingNew ==
  ASSUME TypeOK, [Next]_vars,
         ~ \E w \in Workers : UpsertBatch(w) \/ DeleteMissing(w),
         ~ \E c \in Ids : RemoveCustomer(c),
         ~ \E c \in Ids, r \in Roots, viaWeb, e \in BOOLEAN :
             AddCustomer(c, r, viaWeb, e)
  PROVE  UNCHANGED rows /\ \A c \in Ids : cust'[c].live = cust[c].live
<1>1. rows' = rows
  BY RowsChange
<1>2. ASSUME NEW c \in Ids, NEW r \in Roots, NEW e \in BOOLEAN,
             UpdateCustomer(c, r, e)
      PROVE  \A o \in Ids : cust'[o].live = cust[o].live
  <2>1. c \in Live /\ \E d : cust' = [cust EXCEPT ![c] =
                              [live |-> TRUE, root |-> r, enabled |-> e, serial |-> d]]
    BY <1>2 DEF UpdateCustomer
  <2>2. PICK d : cust' = [cust EXCEPT ![c] =
                      [live |-> TRUE, root |-> r, enabled |-> e, serial |-> d]]
    BY <2>1
  <2>3. cust[c].live = TRUE
    BY <2>1 DEF TypeOK, Live, Customer
  <2>4. cust'[c].live = TRUE
    BY <2>2 DEF TypeOK
  <2>5. \A o \in Ids \ {c} : cust'[o] = cust[o]
    BY <2>2 DEF TypeOK
  <2> QED BY <2>3, <2>4, <2>5
<1>3. ASSUME NEW c \in Ids, RebindDrive(c)
      PROVE  \A o \in Ids : cust'[o].live = cust[o].live
  BY <1>3 DEF RebindDrive, TypeOK, Live, Customer
<1>4. ASSUME NEW w \in Workers, Bind(w)
      PROVE  \A o \in Ids : cust'[o].live = cust[o].live
  BY <1>4 DEF Bind, TypeOK, Live, Customer
<1>5. \/ UNCHANGED cust \/ \E w \in Workers : Bind(w)
      \/ \E c \in Ids, r \in Roots, e \in BOOLEAN : UpdateCustomer(c, r, e)
      \/ \E c \in Ids : RebindDrive(c)
  BY DEF Next, vars, tables, StartPass, RunStep, StartRun, OpenRun, AskOnline, AskSerial,
       ScanRoot, ListFolder, StatFile, SelectBatch, RunFails, Crash,
       AdminStep, WorldStep, Plug, Unplug, ChangeFile, Upgrade
<1> QED BY <1>1, <1>2, <1>3, <1>4, <1>5

LEMMA StepOfTheCatalogue ==
  ASSUME TypeOK, AloneInv, NoOrphanRows, [Next]_vars
  PROVE  NoOrphanRows' /\ [Cat!CatNext]_(Cat!catalogueVars)
<1> DEFINE Step == Live' = Live /\ Shown' = Shown
<1>0. /\ Step => [Cat!CatNext]_(Cat!catalogueVars)
      /\ \A c \in Ids, F \in SUBSET Files :
           c \in Live /\ Live' = Live /\ Shown' = [Shown EXCEPT ![c] = @ \cup F]
             => [Cat!CatNext]_(Cat!catalogueVars)
      /\ \A c \in Ids, F \in SUBSET Files :
           c \in Live /\ Live' = Live /\ Shown' = [Shown EXCEPT ![c] = @ \ F]
             => [Cat!CatNext]_(Cat!catalogueVars)
      /\ \A c \in Ids :
           c \in Live /\ Live' = Live \ {c} /\ Shown' = [Shown EXCEPT ![c] = {}]
             => [Cat!CatNext]_(Cat!catalogueVars)
      /\ \A c \in Ids :
           c \notin Live /\ Shown[c] = {} /\ Live' = Live \cup {c} /\ Shown' = Shown
             => [Cat!CatNext]_(Cat!catalogueVars)
  BY DEF Cat!CatNext, Cat!catalogueVars, Cat!Learn, Cat!Forget, Cat!Come, Cat!Go,
         Shown
<1>1. ASSUME NEW w \in Workers, UpsertBatch(w)
      PROVE  NoOrphanRows' /\ [Cat!CatNext]_(Cat!catalogueVars)
  <2>1. run[w].id \in Ids /\ run[w].batch \in SUBSET Files
    BY DEF TypeOK, Run
  <2>2. CASE UNCHANGED rows /\ UNCHANGED cust
    BY <1>0, <2>2, ShownActs DEF NoOrphanRows, Live
  <2>3. CASE /\ run[w].id \in Live /\ UNCHANGED cust
             /\ Shown' = [Shown EXCEPT ![run[w].id] = @ \cup run[w].batch]
             /\ \A o \in Ids \ {run[w].id} : rows'[o] = rows[o]
    <3>1. NoOrphanRows'
      BY <2>3 DEF NoOrphanRows, Live
    <3>2. Live' = Live
      BY <2>3 DEF Live
    <3> QED BY <1>0, <2>1, <2>3, <3>1, <3>2
  <2> QED BY <1>1, <2>2, <2>3, UpsertIsLearn
<1>2. ASSUME NEW w \in Workers, DeleteMissing(w)
      PROVE  NoOrphanRows' /\ [Cat!CatNext]_(Cat!catalogueVars)
  <2>1. run[w].id \in Ids
    BY DEF TypeOK, Run
  <2>2. Live' = Live
    BY <1>2, DeleteIsForget DEF Live
  <2> QED BY <1>0, <1>2, <2>1, <2>2, DeleteIsForget
<1>3. ASSUME NEW c \in Ids, RemoveCustomer(c)
      PROVE  NoOrphanRows' /\ [Cat!CatNext]_(Cat!catalogueVars)
  BY <1>0, <1>3, RemoveIsGo
<1>4. ASSUME NEW c \in Ids, NEW r \in Roots, NEW viaWeb \in BOOLEAN,
             NEW e \in BOOLEAN, AddCustomer(c, r, viaWeb, e)
      PROVE  NoOrphanRows' /\ [Cat!CatNext]_(Cat!catalogueVars)
  BY <1>0, <1>4, AddIsCome
<1>5. ASSUME UNCHANGED rows, \A c \in Ids : cust'[c].live = cust[c].live
      PROVE  NoOrphanRows' /\ [Cat!CatNext]_(Cat!catalogueVars)
  <2>1. Live' = Live
    BY <1>5 DEF Live
  <2> QED BY <1>0, <1>5, <2>1, ShownActs DEF NoOrphanRows
<1> QED BY <1>1, <1>2, <1>3, <1>4, <1>5, OthersShowNothingNew

(* Whatever runs, removals and reused ids overlap, an id without a customer   *)
(* has no row (db.py:65-80, cli.py:275-309).                                  *)
THEOREM NoOrphanRowsHold == Spec => []NoOrphanRows
<1>1. Init => NoOrphanRows
  BY DEF Init, NoOrphanRows, NoRows, NoRow
<1>2. TypeOK /\ AloneInv /\ NoOrphanRows /\ [Next]_vars => NoOrphanRows'
  BY StepOfTheCatalogue
<1> QED BY <1>1, <1>2, TypeCorrect, AloneInvHolds, PTL DEF Spec

(* The recordings table is, at every moment and whatever runs, removals,       *)
(* reused ids and swapped disks overlap, a catalogue of the customers there    *)
(* are: every step of the indexer, the administrators and the disks is one of   *)
(* the catalogue's or none (db.py:14-22, 65-80, indexer.py:197-218,             *)
(* cli.py:275-309).                                                          *)
THEOREM ImplementsCatalogueHolds == Spec => ImplementsCatalogue
<1>1. Init => Cat!CatInit
  BY DEF Init, NoRows, NoRow, Cat!CatInit, Live
<1>2. TypeOK /\ AloneInv /\ NoOrphanRows /\ [Next]_vars =>
        [Cat!CatNext]_(Cat!catalogueVars)
  BY StepOfTheCatalogue
<1> QED BY <1>1, <1>2, TypeCorrect, AloneInvHolds, NoOrphanRowsHold, PTL
        DEF Spec, ImplementsCatalogue, Cat!CatSpec
=============================================================================
