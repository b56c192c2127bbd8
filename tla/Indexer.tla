------------------------------ MODULE Indexer ------------------------------
(***************************************************************************)
(* The recording indexer (televault/indexer.py): index_customer runs that   *)
(* walk a customer's folder and bring the `recordings` table in step with   *)
(* it, while disks come and go, files change, administrators move, rebind,  *)
(* add and remove customers, and other runs work on the same customer.      *)
(*                                                                          *)
(* Runs are executed by Workers: the IndexerThread (constant Thread), the   *)
(* MCP `reindex` tool and the `reindex` command.  Nothing serialises them.  *)
(* Each action is one database statement or one file-system call of a run,  *)
(* because every commit and every call is a point where another actor may   *)
(* step in.                                                                 *)
(***************************************************************************)
EXTENDS Naturals, FiniteSets

CONSTANTS
  Ids,          \* customer ids, 1 .. some n
  Roots,        \* folders customers are given; no two are nested
  Disks,        \* physical disks; a disk is its own volume serial
  NoDisk,       \* nothing mounted / no serial recorded
  Files,        \* relative paths of audio files
  Folders,      \* sub-folders of a root
  FolderOf,     \* [Files -> Folders]
  Known,        \* the files whose names the first release can parse
  Workers,      \* those who may run index_customer
  Thread,       \* the IndexerThread, one of the Workers
  Batch,        \* rows per write transaction (BATCH)
  MaxVer,       \* bound: distinct (size, mtime) contents a file can have
  MaxEvents,    \* bound: faults, file changes and administrator actions
  Start         \* customers that exist, unbound, when the model starts

ASSUME IndexerAssumption ==
  /\ Ids \subseteq Nat \ {0} /\ Ids # {} /\ Start \subseteq Ids
  /\ Roots # {}
  /\ NoDisk \notin Disks
  /\ FolderOf \in [Files -> Folders] /\ Known \subseteq Files
  /\ Thread \in Workers
  /\ Batch \in Nat \ {0} /\ MaxVer \in Nat \ {0} /\ MaxEvents \in Nat

VARIABLES
  mount,    \* the disk at each root
  content,  \* of each disk: version of each file, 0 when it is absent
  parser,   \* the file names parse_filename of the running release recognises
  cust,     \* table `customers`; live is FALSE for an id that has no row
  rows,     \* table `recordings`; ver is 0 where there is no row
  run,      \* the local state of each worker's index_customer call
  todo,     \* ids the thread's index_all pass has still to index
  events,   \* faults, changes and administrator actions so far
  hist      \* history of the calls in progress; no action reads it

world == <<mount, content, parser>>
tables == <<cust, rows>>
vars == <<mount, content, parser, cust, rows, run, todo, events, hist>>

-----------------------------------------------------------------------------
(* Types                                                                    *)

DiskOrNone == Disks \cup {NoDisk}
Entry == [disk: DiskOrNone, ver: 0..MaxVer]   \* of temp.walk, and whose disk
Row == [ver: 0..MaxVer, parsed: BOOLEAN]
Customer == [live: BOOLEAN, root: Roots, serial: DiskOrNone, enabled: BOOLEAN]
NoEntry == [disk |-> NoDisk, ver |-> 0]
NoRow == [ver |-> 0, parsed |-> FALSE]
NoRows == [f \in Files |-> NoRow]
SomeRoot == CHOOSE r \in Roots : TRUE
SomeId == CHOOSE c \in Ids : TRUE

Run == [pc: {"idle", "open", "online", "serial", "bind", "scan", "walk",
             "select", "upsert", "delete"},
        id: Ids, root: Roots, serial: DiskOrNone,     \* the row as first read
        disk: DiskOrNone,                             \* volume_serial's answer
        folders: SUBSET Folders,                      \* not yet listed
        names: SUBSET Files,                          \* listed, not yet stat'ed
        walk: [Files -> Entry],                       \* temp.walk
        errors: BOOLEAN,                              \* walk_errors not empty
        rest: SUBSET Files,                           \* rowids above `last`
        batch: SUBSET Files]

(* A worker outside index_customer: connection closed, temp.walk gone. *)
Idle ==
  [pc |-> "idle", id |-> SomeId, root |-> SomeRoot, serial |-> NoDisk,
   disk |-> NoDisk, folders |-> {}, names |-> {},
   walk |-> [f \in Files |-> NoEntry], errors |-> FALSE, rest |-> {},
   batch |-> {}]

(* missed: files that were not on the disk at the run's root at some moment   *)
(* of its walk.  skipped: files whose os.stat failed.  swapped: after the      *)
(* question for the serial and before the end of the walk a disk came to the   *)
(* root that is not the one that answered.  alone: nobody else changed         *)
(* anything since the run began.  orphan: the customer was removed meanwhile.  *)
History == [missed: SUBSET Files, skipped: SUBSET Files, swapped: BOOLEAN,
            alone: BOOLEAN, orphan: BOOLEAN]
NoHistory == [missed |-> {}, skipped |-> {}, swapped |-> FALSE, alone |-> TRUE,
              orphan |-> FALSE]

TypeOK ==
  /\ mount \in [Roots -> DiskOrNone]
  /\ content \in [Disks -> [Files -> 0..MaxVer]]
  /\ parser \in SUBSET Files
  /\ cust \in [Ids -> Customer]
  /\ rows \in [Ids -> [Files -> Row]]
  /\ run \in [Workers -> Run]
  /\ todo \in SUBSET Ids
  /\ events \in 0..MaxEvents
  /\ hist \in [Workers -> History]

-----------------------------------------------------------------------------
(* Helpers                                                                  *)

Live == {c \in Ids : cust[c].live}
Online(r) == mount[r] # NoDisk
Missing(d) == IF d = NoDisk THEN Files ELSE {f \in Files : content[d][f] = 0}

(* The files a listing or a stat under root r would find. *)
Visible(r) == IF Online(r) THEN Files \ Missing(mount[r]) ELSE {}

(* volume_serial: the serial of the disk at root r, or None when the system   *)
(* does not tell, be it that the disk is gone or that the call failed.        *)
SerialAnswers(r) == {mount[r], NoDisk}

(* A fault, a change or an administrator's action uses up one event. *)
Event == events < MaxEvents /\ events' = events + 1

(* Once everything is listed and looked at, the walk is over. *)
AfterWalk(r) ==
  IF r.folders = {} /\ r.names = {}
  THEN [r EXCEPT !.pc = "select", !.rest = {f \in Files : r.walk[f].ver # 0}]
  ELSE r

Set(w, r) == run' = [run EXCEPT ![w] = r]
Goto(w, label) == Set(w, [run[w] EXCEPT !.pc = label])
Finish(w) == Set(w, Idle)

(* History after a step that changed the world or the tables: only the calls *)
(* of the workers in W are still alone.                                      *)
Observe(W) ==
  hist' = [w \in Workers |->
             IF run'[w].pc = "idle" THEN NoHistory
             ELSE [hist[w] EXCEPT !.alone = @ /\ w \in W]]

(* Faults planted to test the properties: no definition uses them.            *)
StaleUntilParsed(c, walk, f) ==      \* forgets rows an older parser left bare
  walk[f].ver # 0 /\ rows[c][f].ver # walk[f].ver
StaleIfAbsent(c, walk, f) ==         \* never looks at size and mtime again
  walk[f].ver # 0 /\ rows[c][f].ver = 0

(* The rows the SELECT returns: no row yet, another size or mtime, or a row  *)
(* an earlier parser could not read.                                         *)
Stale(c, walk, f) ==
  walk[f].ver # 0 /\ (rows[c][f].ver # walk[f].ver \/ ~ rows[c][f].parsed)

(* Of those, a row that is unchanged and still unparseable is left alone.    *)
Writable(c, walk, f) == rows[c][f].ver # walk[f].ver \/ f \in parser

Init ==
  /\ mount \in [Roots -> DiskOrNone]
  /\ \A r, s \in Roots : mount[r] = mount[s] => r = s \/ mount[r] = NoDisk
  /\ content = [d \in Disks |-> [f \in Files |-> 1]]
  /\ parser = Known
  /\ cust \in [Ids -> {k \in Customer : k.serial = NoDisk}]
  /\ \A c \in Ids : /\ cust[c].live <=> c \in Start
                    /\ cust[c].enabled <=> c \in Start
                    /\ c \notin Start => cust[c].root = SomeRoot
  /\ \A c, o \in Start : cust[c].root = cust[o].root => c = o
  /\ rows = [c \in Ids |-> NoRows]
  /\ run = [w \in Workers |-> Idle]
  /\ todo = {}
  /\ events = 0
  /\ hist = [w \in Workers |-> NoHistory]

-----------------------------------------------------------------------------
(* One index_customer call                                                  *)

(* Planted fault: the pass takes only customers that have been bound. *)
StartPassBound ==
  /\ run[Thread].pc = "idle" /\ todo = {}
  /\ todo' = {c \in Live : cust[c].enabled /\ cust[c].serial # NoDisk}
  /\ UNCHANGED <<world, tables, run, events, hist>>

(* index_all reads the enabled customers once and indexes them in turn. *)
StartPass ==
  /\ run[Thread].pc = "idle" /\ todo = {}
  /\ todo' = {c \in Live : cust[c].enabled}
  /\ UNCHANGED <<world, tables, run, events, hist>>

(* The thread takes the ids in order; the MCP tool and the command take any  *)
(* customer.  The customers row is read here and never again.                *)
StartRun(w, c) ==
  /\ run[w].pc = "idle"
  /\ IF w = Thread THEN c \in todo /\ \A o \in todo : c <= o ELSE c \in Live
  /\ todo' = IF w = Thread THEN todo \ {c} ELSE todo
  /\ IF c \in Live
       THEN Set(w, [Idle EXCEPT
                      !.pc = "open", !.id = c, !.root = cust[c].root,
                      !.serial = cust[c].serial])
       ELSE Finish(w)
  /\ UNCHANGED <<world, tables, events, hist>>

(* INSERT INTO index_runs.  If the customer is gone its foreign key fails    *)
(* and the exception leaves index_customer, taking the rest of the thread's  *)
(* pass with it.                                                             *)
OpenRun(w) ==
  /\ run[w].pc = "open"
  /\ \/ /\ run[w].id \in Live
        /\ Goto(w, "online")
        /\ UNCHANGED todo
     \/ /\ run[w].id \notin Live
        /\ Finish(w)
        /\ todo' = IF w = Thread THEN {} ELSE todo
  /\ Observe(Workers)
  /\ UNCHANGED <<world, tables, events>>

(* root_online. *)
AskOnline(w) ==
  /\ run[w].pc = "online"
  /\ IF Online(run[w].root) THEN Goto(w, "serial") ELSE Finish(w)
  /\ Observe(Workers)
  /\ UNCHANGED <<world, tables, todo, events>>

(* Planted fault: any disk at the root will do. *)
AskSerialAny(w) ==
  LET r == run[w] IN
  /\ r.pc = "serial"
  /\ \E d \in SerialAnswers(r.root) :
       /\ IF d = mount[r.root] THEN UNCHANGED events ELSE Event
       /\ Set(w, [r EXCEPT !.disk = d,
                    !.pc = IF d # NoDisk /\ r.serial = NoDisk THEN "bind"
                           ELSE "scan"])
  /\ Observe(Workers)
  /\ UNCHANGED <<world, tables, todo>>

(* volume_serial, a call after root_online, and its comparison with the row    *)
(* read at the start.  Without an answer the run goes on: a bound customer's   *)
(* disk is accepted unseen, and an unbound one stays unbound.  That a disk at  *)
(* the root does not answer is a fault.                                       *)
AskSerial(w) ==
  LET r == run[w] IN
  /\ r.pc = "serial"
  /\ \E d \in SerialAnswers(r.root) :
       /\ IF d = mount[r.root] THEN UNCHANGED events ELSE Event
       /\ IF NoDisk \notin {d, r.serial} /\ d # r.serial THEN Finish(w)
          ELSE Set(w, [r EXCEPT !.disk = d,
                         !.pc = IF d # NoDisk /\ r.serial = NoDisk THEN "bind"
                                ELSE "scan"])
  /\ Observe(Workers)
  /\ UNCHANGED <<world, tables, todo>>

(* Bind on first sight: UPDATE customers SET volume_serial, whatever it is   *)
(* by now.                                                                   *)
Bind(w) ==
  LET c == run[w].id IN
  /\ run[w].pc = "bind"
  /\ cust' = IF c \in Live THEN [cust EXCEPT ![c].serial = run[w].disk] ELSE cust
  /\ Goto(w, "scan")
  /\ Observe({w})
  /\ UNCHANGED <<world, rows, todo, events>>

(* os.scandir(root), then an empty temp.walk.  A root that cannot be listed  *)
(* ends the run as an error; on a mounted disk that is a fault.              *)
ScanRoot(w) ==
  /\ run[w].pc = "scan"
  /\ \/ /\ Online(run[w].root)
        /\ Set(w, [run[w] EXCEPT !.pc = "walk", !.folders = Folders])
        /\ hist' = [hist EXCEPT ![w].missed = Missing(mount[run[w].root])]
        /\ UNCHANGED events
     \/ /\ IF Online(run[w].root) THEN Event ELSE UNCHANGED events
        /\ Finish(w)
        /\ Observe(Workers)
  /\ UNCHANGED <<world, tables, todo>>

(* Planted fault: os.walk without onerror, which passes over a folder it      *)
(* cannot list.                                                               *)
ListFolderSilently(w) ==
  LET r == run[w] IN
  /\ r.pc = "walk" /\ r.names = {}
  /\ \E d \in r.folders :
       Set(w, AfterWalk([r EXCEPT !.folders = @ \ {d},
                   !.names = {f \in Visible(r.root) : FolderOf[f] = d}]))
  /\ UNCHANGED <<world, tables, todo, events, hist>>

(* os.walk lists the next folder once the files of the one before have been  *)
(* looked at; a folder that cannot be listed is remembered in walk_errors.   *)
ListFolder(w) ==
  LET r == run[w] IN
  /\ r.pc = "walk" /\ r.names = {}
  /\ \E d \in r.folders :
       \/ /\ Online(r.root)
          /\ Set(w, AfterWalk([r EXCEPT !.folders = @ \ {d},
                      !.names = {f \in Visible(r.root) : FolderOf[f] = d}]))
          /\ UNCHANGED events
       \/ /\ IF Online(r.root) THEN Event ELSE UNCHANGED events
          /\ Set(w, AfterWalk([r EXCEPT !.folders = @ \ {d}, !.errors = TRUE]))
  /\ UNCHANGED <<world, tables, todo, hist>>

(* os.stat of one listed file.  A file that cannot be stat'ed is passed over *)
(* and nothing remembers it.                                                 *)
StatFile(w) ==
  LET r == run[w] IN
  /\ r.pc = "walk"
  /\ \E f \in r.names :
       \/ /\ f \in Visible(r.root)
          /\ Set(w, AfterWalk([r EXCEPT !.names = @ \ {f},
                      !.walk[f] = [disk |-> mount[r.root],
                                   ver |-> content[mount[r.root]][f]]]))
          /\ UNCHANGED <<events, hist>>
       \/ /\ IF f \in Visible(r.root) THEN Event ELSE UNCHANGED events
          /\ Set(w, AfterWalk([r EXCEPT !.names = @ \ {f}]))
          /\ hist' = [hist EXCEPT ![w].skipped = @ \cup {f}]
  /\ UNCHANGED <<world, tables, todo>>

(* SELECT the next Batch stale rows above `last`.  Walk rows that need no     *)
(* writing and lie below the batch (passed) are not looked at again.          *)
SelectBatch(w) ==
  LET r == run[w]
      stale == {f \in r.rest : Stale(r.id, r.walk, f)}
  IN
  /\ r.pc = "select"
  /\ \/ /\ stale = {}
        /\ Set(w, [r EXCEPT !.pc = "delete", !.rest = {}])
     \/ \E taken \in SUBSET stale, passed \in SUBSET (r.rest \ stale) :
          /\ taken # {}
          /\ Cardinality(taken) <= Batch
          /\ Cardinality(taken) < Batch => taken = stale
          /\ Set(w, [r EXCEPT
                !.rest = @ \ (taken \cup passed),
                !.batch = {f \in taken : Writable(r.id, r.walk, f)},
                !.pc = IF \E f \in taken : Writable(r.id, r.walk, f)
                       THEN "upsert" ELSE "select"])
  /\ UNCHANGED <<world, tables, todo, events, hist>>

(* One write transaction: INSERT ... ON CONFLICT DO UPDATE of the batch.  For *)
(* a customer that is gone the foreign key fails and the run ends.            *)
UpsertBatch(w) ==
  LET r == run[w] IN
  /\ r.pc = "upsert"
  /\ \/ /\ r.id \in Live
        /\ rows' = [rows EXCEPT ![r.id] = [f \in Files |->
                      IF f \in r.batch
                        THEN [ver |-> r.walk[f].ver, parsed |-> f \in parser]
                        ELSE @[f]]]
        /\ Set(w, [r EXCEPT !.pc = "select", !.batch = {}])
        /\ Observe({w})
     \/ /\ r.id \notin Live
        /\ Finish(w)
        /\ Observe(Workers)
        /\ UNCHANGED rows
  /\ UNCHANGED <<world, cust, todo, events>>

(* Planted fault: the DELETE does not name the customer. *)
DeleteEverybodys(w) ==
  /\ run[w].pc = "delete"
  /\ rows' = IF run[w].errors THEN rows
             ELSE [c \in Ids |-> [f \in Files |->
                    IF run[w].walk[f].ver = 0 THEN NoRow ELSE rows[c][f]]]
  /\ Finish(w)
  /\ Observe(IF rows' = rows THEN Workers ELSE {w})
  /\ UNCHANGED <<world, cust, todo, events>>

(* DELETE the rows of files the walk did not meet, unless some folder could   *)
(* not be listed; then the run is closed.                                     *)
DeleteMissing(w) ==
  LET r == run[w] IN
  /\ r.pc = "delete"
  /\ \/ /\ ~ r.errors
        /\ rows' = [rows EXCEPT ![r.id] = [f \in Files |->
                      IF r.walk[f].ver = 0 THEN NoRow ELSE @[f]]]
        /\ Finish(w)
     \/ /\ r.errors
        /\ Finish(w)
        /\ UNCHANGED rows
  /\ Observe(IF rows' = rows THEN Workers ELSE {w})
  /\ UNCHANGED <<world, cust, todo, events>>

(* Planted fault: the handler marks the run and forgets to close it. *)
RunFailsHalfway(w) ==
  /\ run[w].pc \in {"walk", "select", "upsert", "delete"}
  /\ Event
  /\ Goto(w, "error")
  /\ Observe(Workers)
  /\ UNCHANGED <<world, tables, todo>>

(* A database error inside the try block (locked for 30 seconds, disk full):  *)
(* rollback, status 'error'.                                                  *)
RunFails(w) ==
  /\ run[w].pc \in {"walk", "select", "upsert", "delete"}
  /\ Event
  /\ Finish(w)
  /\ Observe(Workers)
  /\ UNCHANGED <<world, tables, todo>>

(* The process dies; its index_runs row stays 'running'. *)
Crash(w) ==
  /\ run[w].pc # "idle"
  /\ Event
  /\ Finish(w)
  /\ todo' = IF w = Thread THEN {} ELSE todo
  /\ Observe(Workers)
  /\ UNCHANGED <<world, tables>>

RunStep(w) ==
  \/ \E c \in Ids : StartRun(w, c)
  \/ OpenRun(w) \/ AskOnline(w) \/ AskSerial(w) \/ Bind(w)
  \/ ScanRoot(w) \/ ListFolder(w) \/ StatFile(w)
  \/ SelectBatch(w) \/ UpsertBatch(w) \/ DeleteMissing(w)

-----------------------------------------------------------------------------
(* Administrators: each is one write transaction                            *)

SharesRoot(c, r) == \E o \in Live \ {c} : cust[o].root = r

(* SQLite gives a new row the id after the largest in use. *)
NewId(c) == (\A o \in Live : o < c) /\ (c = 1 \/ c - 1 \in Live)

(* POST /customers binds to the disk at the root if its serial can be read;   *)
(* `add-customer` neither binds nor looks for a shared root (viaWeb FALSE).    *)
AddCustomer(c, r, viaWeb, enabled) ==
  /\ Event
  /\ NewId(c)
  /\ IF viaWeb THEN ~ SharesRoot(c, r) ELSE enabled
  /\ \E d \in IF viaWeb THEN SerialAnswers(r) ELSE {NoDisk} :
       cust' = [cust EXCEPT ![c] = [live |-> TRUE, root |-> r,
                                    enabled |-> enabled, serial |-> d]]
  /\ UNCHANGED <<world, rows, run, todo>>
  /\ Observe({})

(* PUT /customers/{cid}: the binding follows a move and nothing else. *)
UpdateCustomer(c, r, enabled) ==
  /\ Event
  /\ c \in Live /\ ~ SharesRoot(c, r)
  /\ \E d \in IF cust[c].root = r THEN {cust[c].serial} ELSE SerialAnswers(r) :
       cust' = [cust EXCEPT ![c] = [live |-> TRUE, root |-> r,
                                    enabled |-> enabled, serial |-> d]]
  /\ cust' # cust
  /\ UNCHANGED <<world, rows, run, todo>>
  /\ Observe({})

(* POST /customers/{cid}/rebind-drive; without a serial it is refused. *)
RebindDrive(c) ==
  /\ Event
  /\ c \in Live /\ Online(cust[c].root)
  /\ cust' = [cust EXCEPT ![c].serial = mount[cust[c].root]]
  /\ UNCHANGED <<world, rows, run, todo>>
  /\ Observe({})

(* Planted fault: the index rows stay. *)
RemoveCustomerOnly(c) ==
  /\ Event
  /\ c \in Live
  /\ cust' = [cust EXCEPT ![c] = [live |-> FALSE, root |-> SomeRoot,
                                  serial |-> NoDisk, enabled |-> FALSE]]
  /\ UNCHANGED <<world, rows, run, todo>>
  /\ Observe({})

(* `remove-customer`: the index rows go with the customer. *)
RemoveCustomer(c) ==
  /\ Event
  /\ c \in Live
  /\ cust' = [cust EXCEPT ![c] = [live |-> FALSE, root |-> SomeRoot,
                                  serial |-> NoDisk, enabled |-> FALSE]]
  /\ rows' = [rows EXCEPT ![c] = NoRows]
  /\ UNCHANGED <<world, run, todo>>
  /\ hist' = [w \in Workers |->
                IF run[w].pc = "idle" THEN NoHistory
                ELSE [hist[w] EXCEPT !.alone = FALSE,
                                     !.orphan = @ \/ run[w].id = c]]

AdminStep ==
  \/ \E c \in Ids, r \in Roots, viaWeb, e \in BOOLEAN :
       AddCustomer(c, r, viaWeb, e)
  \/ \E c \in Ids, r \in Roots, e \in BOOLEAN : UpdateCustomer(c, r, e)
  \/ \E c \in Ids : RebindDrive(c) \/ RemoveCustomer(c)

-----------------------------------------------------------------------------
(* The world                                                                *)

Walks(w, r) == run[w].pc = "walk" /\ run[w].root = r
Accepting(w) == run[w].pc \in {"bind", "scan", "walk"}

(* A disk appears at a free root. *)
Plug(d, r) ==
  /\ Event
  /\ ~ Online(r) /\ \A s \in Roots : mount[s] # d
  /\ mount' = [mount EXCEPT ![r] = d]
  /\ UNCHANGED <<content, parser, tables, run, todo>>
  /\ hist' = [w \in Workers |->
                IF run[w].pc = "idle" THEN NoHistory
                ELSE [hist[w] EXCEPT !.alone = FALSE,
                        !.missed = IF Walks(w, r) THEN @ \cup Missing(d) ELSE @,
                        !.swapped = @ \/ (Accepting(w) /\ run[w].root = r
                                          /\ run[w].disk \notin {NoDisk, d})]]

Unplug(r) ==
  /\ Event
  /\ Online(r)
  /\ mount' = [mount EXCEPT ![r] = NoDisk]
  /\ UNCHANGED <<content, parser, tables, run, todo>>
  /\ Observe({})

(* A recording is written or deleted, by the PBX pull or by hand. *)
ChangeFile(d, f, v) ==
  /\ Event
  /\ content[d][f] # v
  /\ content' = [content EXCEPT ![d][f] = v]
  /\ UNCHANGED <<mount, parser, tables, run, todo>>
  /\ hist' = [w \in Workers |->
                IF run[w].pc = "idle" THEN NoHistory
                ELSE [hist[w] EXCEPT !.alone = FALSE,
                        !.missed = IF v = 0 /\ Walks(w, run[w].root)
                                        /\ mount[run[w].root] = d
                                   THEN @ \cup {f} ELSE @]]

(* A release whose parser knows one more form of file name. *)
Upgrade(f) ==
  /\ Event
  /\ \A w \in Workers : run[w].pc = "idle"
  /\ parser' = parser \cup {f}
  /\ f \notin parser
  /\ UNCHANGED <<mount, content, tables, run, todo, hist>>

WorldStep ==
  \/ \E d \in Disks, r \in Roots : Plug(d, r)
  \/ \E r \in Roots : Unplug(r)
  \/ \E d \in Disks, f \in Files, v \in 0..MaxVer : ChangeFile(d, f, v)
  \/ \E f \in Files : Upgrade(f)

-----------------------------------------------------------------------------
Next ==
  \/ StartPass
  \/ \E w \in Workers : RunStep(w) \/ RunFails(w) \/ Crash(w)
  \/ AdminStep
  \/ WorldStep

Spec == Init /\ [][Next]_vars

(* The thread is a live daemon thread: it keeps passing over the customers    *)
(* (every index_interval_minutes, or sooner when triggered) and a call it     *)
(* has begun goes on.  Nothing is assumed of the other workers.               *)
Fairness == WF_vars(StartPass \/ RunStep(Thread))

FairSpec == Spec /\ Fairness

-----------------------------------------------------------------------------
(* What holds during every run                                              *)

Walked == {"walk", "select", "upsert", "delete"}

(* While a run walks, what the disk at its root lacks has been missed. *)
LacksAreMissed ==
  \A w \in Workers : run[w].pc = "walk" /\ Online(run[w].root) =>
    Missing(mount[run[w].root]) \subseteq hist[w].missed

(* A file the walk of a run without errors has not met is still to be met,    *)
(* or was missed or passed over: no disk that comes, goes or changes and no   *)
(* other run makes the walk lose sight of a file that stood at its root.      *)
UnmetIsAccountedFor ==
  \A w \in Workers, f \in Files :
    run[w].pc \in Walked /\ ~ run[w].errors /\ run[w].walk[f].ver = 0
      => \/ FolderOf[f] \in run[w].folders
         \/ f \in run[w].names \cup hist[w].missed \cup hist[w].skipped

(* A disk that answered is the one the customer is bound to, if it is bound,  *)
(* and until the walk is over the root shows that disk or nothing, unless     *)
(* another came.                                                             *)
RootIsSteady ==
  \A w \in Workers : run[w].disk # NoDisk =>
    /\ run[w].serial \in {NoDisk, run[w].disk}
    /\ Accepting(w) /\ ~ hist[w].swapped =>
         mount[run[w].root] \in {NoDisk, run[w].disk}

(* Folders and names are left over only during the walk. *)
WalkIsOver ==
  \A w \in Workers : run[w].pc # "walk" => run[w].folders = {} /\ run[w].names = {}

(* Before the walk nothing is met. *)
NothingMetYet ==
  \A w \in Workers, f \in Files : run[w].pc \notin Walked => run[w].walk[f].ver = 0

(* What the walk met is on the disk that answered, and only what it met is    *)
(* written.                                                                  *)
MetOnOwnDisk ==
  \A w \in Workers, f \in Files :
    /\ run[w].walk[f].ver # 0 /\ run[w].disk # NoDisk /\ ~ hist[w].swapped =>
         run[w].walk[f].disk = run[w].disk
    /\ f \in run[w].rest \cup run[w].batch => run[w].walk[f].ver # 0

(* A call that is over has left nothing behind. *)
IdleIsClean == \A w \in Workers : run[w].pc = "idle" => run[w] = Idle

WalkInv == /\ LacksAreMissed /\ UnmetIsAccountedFor /\ RootIsSteady
           /\ WalkIsOver /\ NothingMetYet /\ MetOnOwnDisk /\ IdleIsClean

(* What every reachable state of the runs satisfies. *)
RunInv == TypeOK /\ WalkInv

-----------------------------------------------------------------------------
(* Properties                                                               *)

Removed(c, f) == rows[c][f].ver # 0 /\ rows'[c][f].ver = 0
Written(c, f) == rows'[c][f] # rows[c][f] /\ rows'[c][f].ver # 0
Closes(w) == run[w].pc = "delete" /\ run'[w].pc = "idle"

(* The index forgets a recording of a customer that stays only when a run of  *)
(* that customer closes that could list every folder and yet found the file   *)
(* off the disk at its root at some moment of its walk, or could not stat it. *)
(* What counts is that run's walk, not the present: a run that looked before   *)
(* the file came, one of the folder the customer had before a move, or one     *)
(* whose root another disk had taken costs the row of a file that is there,    *)
(* which a later run restores (Converges).  A customer's row is never lost to  *)
(* a drive found unplugged, to an unreadable folder, to a file the walk has    *)
(* yet to reach, or to a run of another customer (indexer.py:5-8, 211-218).    *)
ForgetsOnlyTheGone ==
  [][\A c \in Ids, f \in Files :
       Removed(c, f) /\ cust'[c].live =>
         \E w \in Workers : /\ Closes(w) /\ run[w].id = c /\ ~ run[w].errors
                            /\ f \in hist[w].missed \cup hist[w].skipped]_vars

(* A run during which nobody else changed anything and every stat succeeded   *)
(* closes with the table equal to the drive: every file has a row of its      *)
(* present size and mtime, parsed if the parser knows its name, and no row    *)
(* lacks a file (indexer.py:143-227).                                         *)
Exact(c) ==
  \A f \in Files :
    /\ rows[c][f].ver = content[mount[cust[c].root]][f]
    /\ rows[c][f].ver # 0 /\ f \in parser => rows[c][f].parsed

ExactWhenAlone ==
  [][\A w \in Workers, c \in Ids :
       (/\ DeleteMissing(w) /\ run[w].id = c /\ ~ run[w].errors
        /\ hist[w].alone /\ hist[w].skipped = {})
       => Exact(c)']_vars

(* Once faults and changes cease, every enabled customer whose own disk is at *)
(* its root is indexed exactly and stays so, whatever older runs of other     *)
(* workers still do (indexer.py:241-280).                                     *)
Indexable(c) ==
  /\ cust[c].live /\ cust[c].enabled
  /\ Online(cust[c].root)
  /\ cust[c].serial \in {NoDisk, mount[cust[c].root]}

Converges == <>[](\A c \in Ids : Indexable(c) => Exact(c))

(* What everything else sees of the index is a catalogue that belongs to the    *)
(* customers there are: however runs, removals and reused ids overlap, no id     *)
(* without a customer has a row, a new customer starts with none and a removed  *)
(* one leaves none (db.py:14-22, 65-80, indexer.py:197-218, cli.py:275-309).    *)
Cat == INSTANCE Catalogue WITH
         CatalogueIds <- Ids, Recordings <- Files, live <- Live,
         shown <- [c \in Ids |-> {f \in Files : rows[c][f].ver # 0}]

ImplementsCatalogue == Cat!CatSpec

(* The index rows of a removed customer go with it: a run begun for it never  *)
(* writes under its id again (cli.py:276).                                    *)
OrphansWriteNothing ==
  [][\A w \in Workers, f \in Files :
       run[w].pc = "upsert" /\ hist[w].orphan /\ run'[w].pc = "select"
         => ~ Written(run[w].id, f)]_vars
=============================================================================
