------------------------------ MODULE Serving ------------------------------
(***************************************************************************)
(* Reading recordings: the web routes that stream, download and zip them     *)
(* (televault/recordings.py) and the files the SFTP feed opens from its       *)
(* cached tree (televault/sftp.py), while the index gains and loses rows,     *)
(* disks are swapped, files come and go and customers and accounts are        *)
(* changed.                                                                  *)
(*                                                                           *)
(* Both find a row in the index, ask drive_state whether the customer's disk  *)
(* is at its root, and open the file by name; every statement and every       *)
(* system call is a step, for anything may happen in between.                 *)
(***************************************************************************)
EXTENDS Naturals, FiniteSets

CONSTANTS
  Customers, Roots,
  Disks,      \* physical disks; a disk is its own volume serial
  NoDisk,     \* nothing mounted / no serial recorded
  Paths,      \* relative paths of recordings
  Day,        \* [Paths -> Nat], the day in a recording's name
  MaxDays,    \* the longest window of an account
  Readers,    \* web requests and SFTP operations in progress
  Mounted,    \* the disk at each root when the model starts
  Serials,    \* the serial recorded for each customer when the model starts
  Indexed,    \* the recordings table when the model starts
  Forms,      \* what superadmins enter for the account
  MaxRow,     \* bound: the last row id of recordings
  MaxEvents   \* bound: changes of the world, the index and the accounts

VARIABLES
  mount,   \* the disk at each root
  files,   \* the recordings on each disk
  cust,    \* table `customers`
  table,   \* table `recordings`
  acct,    \* the row of an SFTP account
  session, \* the copy of it that its session took at login
  trees,   \* Feed._trees by customer and days
  reader,  \* what each request or operation has read
  audit,   \* what was written to the audit log
  events

world == <<mount, files, cust, table, acct, session, events>>
servingVars == <<world, trees, reader, audit>>

-----------------------------------------------------------------------------
RowIds == 1..MaxRow
DiskOrNone == Disks \cup {NoDisk}

NoRow == [path |-> "none"]
Row == [cust: Customers, path: Paths]

Place == [root: Roots, serial: DiskOrNone]
Account == [cust: Customers, days: 0..MaxDays, active: BOOLEAN]

ASSUME ServingAssumption ==
  /\ NoDisk \notin Disks /\ Paths # {}
  /\ Day \in [Paths -> Nat] /\ MaxDays \in Nat
  /\ Mounted \in [Roots -> Disks \cup {NoDisk}]
  /\ Serials \in [Customers -> Disks \cup {NoDisk}]
  /\ MaxRow \in Nat \ {0} /\ MaxEvents \in Nat
  /\ Forms \subseteq Account /\ Indexed \in [RowIds -> {NoRow} \cup Row]

(* A tree maps paths to row ids, 0 where there is none.  lost: ids whose row    *)
(* the index has dropped since the tree's rows were read (history).           *)
Tree == [ids: [Paths -> 0..MaxRow], lost: SUBSET RowIds, fresh: BOOLEAN]
NoTree == [ids |-> [p \in Paths |-> 0], lost |-> {}, fresh |-> FALSE]
TreeKeys == Customers \X (0..MaxDays)

(* A row as a reader took it, with the place of its customer at that moment,   *)
(* and the disk the bytes came from.                                          *)
Taken == [cust: Customers, path: Paths, place: Place]
Got == [cust: Customers, path: Paths, place: Place, disk: Disks]
With(t, d) == [cust |-> t.cust, path |-> t.path, place |-> t.place, disk |-> d]

(* own: the session's copy of the account, of an SFTP operation; path: what it  *)
(* opens; tree, id: the tree it looks in and the row this names; days, anchor:  *)
(* the window it is held to.  todo: rows to open; drives: places to ask for;    *)
(* asked, swapped: roots it began to ask for, and those of them that were given *)
(* another disk since (history).                                              *)
Reader == [pc: {"idle", "window", "rows", "store", "account", "limit", "row",
                "online", "serial", "open", "audit", "done"},
           feed: BOOLEAN, own: Account, path: Paths, tree: Tree, id: 0..MaxRow,
           days: 0..MaxDays, anchor: Nat,
           todo: SUBSET Taken, drives: SUBSET Place, now: SUBSET Place,
           got: SUBSET Got, asked: SUBSET Roots, swapped: SUBSET Roots]

SomeAccount == CHOOSE a \in Account : TRUE
Idle == [pc |-> "idle", feed |-> FALSE, own |-> SomeAccount,
         path |-> CHOOSE p \in Paths : TRUE, tree |-> NoTree, id |-> 0,
         days |-> 0, anchor |-> 0, todo |-> {}, drives |-> {}, now |-> {},
         got |-> {}, asked |-> {}, swapped |-> {}]

ServingTypeOK ==
  /\ mount \in [Roots -> DiskOrNone]
  /\ files \in [Disks -> SUBSET Paths]
  /\ cust \in [Customers -> Place]
  /\ table \in [RowIds -> {NoRow} \cup Row]
  /\ acct \in Account /\ session \in Account
  /\ trees \in [TreeKeys -> Tree]
  /\ reader \in [Readers -> Reader]
  /\ audit \in SUBSET Row
  /\ events \in 0..MaxEvents

-----------------------------------------------------------------------------
(* Reading the index                                                         *)

Rows == {i \in RowIds : table[i] # NoRow}
RowsOf(k) == {i \in Rows : table[i].cust = k}
TakenRow(i) == [cust |-> table[i].cust, path |-> table[i].path,
                place |-> cust[table[i].cust]]

(* window: counted back from the customer's newest recording.                  *)
IsAnchor(k, n) ==
  IF RowsOf(k) = {} THEN n = 0
  ELSE /\ \E i \in RowsOf(k) : n = Day[table[i].path]
       /\ \A i \in RowsOf(k) : Day[table[i].path] <= n
InWindow(p, days, anchor) == Day[p] + days >= anchor

Listed(k, days, anchor) ==
  {i \in RowsOf(k) : InWindow(table[i].path, days, anchor)}

-----------------------------------------------------------------------------
(* The web routes                                                            *)

Step(r, s) == reader' = [reader EXCEPT ![r] = s]

(* The rows and their customers in one SELECT: one row for stream and           *)
(* download, several for a zip.  Which rows it may name is the scope's business. *)
WebSelect(r, S) ==
  /\ reader[r].pc = "idle" /\ S # {}
  /\ Step(r, [Idle EXCEPT !.pc = "online",
                !.todo = {TakenRow(i) : i \in S},
                !.drives = {TakenRow(i).place : i \in S}])
  /\ UNCHANGED <<world, trees, audit>>

-----------------------------------------------------------------------------
(* SFTP: the tree                                                            *)

KeyOf(a) == <<a.cust, a.days>>

LookUp(r, s, t) ==
  IF t.ids[s.path] = 0 THEN Step(r, Idle)
  ELSE Step(r, [s EXCEPT !.pc = "account", !.tree = t, !.id = t.ids[s.path]])

FeedOpens(r, p) ==
  /\ reader[r].pc = "idle"
  /\ LET t == trees[KeyOf(session)]
         s == [Idle EXCEPT !.feed = TRUE, !.own = session, !.path = p]
     IN IF t.fresh THEN LookUp(r, s, t) ELSE Step(r, [s EXCEPT !.pc = "window"])
  /\ UNCHANGED <<world, trees, audit>>

(* _build in a thread, as often as an operation finds the tree out of date.     *)
BuildWindow(r) ==
  /\ reader[r].pc = "window"
  /\ \E n \in {0} \cup {Day[p] : p \in Paths} :
       /\ IsAnchor(reader[r].own.cust, n)
       /\ Step(r, [reader[r] EXCEPT !.pc = "rows", !.anchor = n])
  /\ UNCHANGED <<world, trees, audit>>

BuildRows(r) ==
  LET s == reader[r]
      listed == Listed(s.own.cust, s.own.days, s.anchor)
  IN
  /\ s.pc = "rows"
  /\ Step(r, [s EXCEPT !.pc = "store", !.anchor = 0,
       !.tree = [ids |-> [p \in Paths |->
                           IF \E i \in listed : table[i].path = p
                           THEN CHOOSE i \in listed : table[i].path = p ELSE 0],
                 lost |-> {}, fresh |-> TRUE]])
  /\ UNCHANGED <<world, trees, audit>>

(* The last build to return is kept, be its rows older or not.                 *)
StoreTree(r) ==
  /\ reader[r].pc = "store"
  /\ trees' = [trees EXCEPT ![KeyOf(reader[r].own)] = reader[r].tree]
  /\ LookUp(r, reader[r], reader[r].tree)
  /\ UNCHANGED <<world, audit>>

(* CACHE_SECONDS have passed.                                                 *)
TreeExpires(k) ==
  /\ trees[k].fresh
  /\ trees' = [trees EXCEPT ![k] = NoTree]
  /\ UNCHANGED <<world, reader, audit>>

-----------------------------------------------------------------------------
(* SFTP: open_recording                                                      *)

Least(m, n) == IF m <= n THEN m ELSE n

FeedAccount(r) ==
  /\ reader[r].pc = "account"
  /\ IF acct.active /\ acct.cust = reader[r].own.cust
     THEN Step(r, [reader[r] EXCEPT !.pc = "limit",
                      !.days = Least(acct.days, reader[r].own.days)])
     ELSE Step(r, Idle)
  /\ UNCHANGED <<world, trees, audit>>

FeedLimit(r) ==
  /\ reader[r].pc = "limit"
  /\ \E n \in {0} \cup {Day[p] : p \in Paths} :
       /\ IsAnchor(reader[r].own.cust, n)
       /\ Step(r, [reader[r] EXCEPT !.pc = "row", !.anchor = n])
  /\ UNCHANGED <<world, trees, audit>>

FeedRowAlone(r) ==          \* planted fault: the row by its id and date alone
  LET s == reader[r] IN
  /\ s.pc = "row"
  /\ IF s.id \in Rows /\ InWindow(table[s.id].path, s.days, s.anchor)
     THEN Step(r, [s EXCEPT !.pc = "online", !.todo = {TakenRow(s.id)},
                            !.drives = {TakenRow(s.id).place}])
     ELSE Step(r, Idle)
  /\ UNCHANGED <<world, trees, audit>>
FeedRow(r) ==
  LET s == reader[r] IN
  /\ s.pc = "row"
  /\ IF s.id \in Listed(s.own.cust, s.days, s.anchor)
     THEN Step(r, [s EXCEPT !.pc = "online", !.todo = {TakenRow(s.id)},
                            !.drives = {TakenRow(s.id).place}])
     ELSE Step(r, Idle)
  /\ UNCHANGED <<world, trees, audit>>

-----------------------------------------------------------------------------
(* drive_state, then the files                                               *)

(* root_online.                                                              *)
AskOnline(r) ==
  /\ reader[r].pc = "online"
  /\ \E d \in reader[r].drives :
       IF mount[d.root] = NoDisk THEN Step(r, Idle)
       ELSE Step(r, [reader[r] EXCEPT !.pc = "serial", !.now = {d},
                        !.asked = @ \cup {d.root}])
  /\ UNCHANGED <<world, trees, audit>>

(* volume_serial: of a disk that has just gone it is None, and that will do.   *)
SerialUnasked(d) == mount[d.root] # NoDisk    \* planted fault: any disk will do
SerialFits(d) == NoDisk \in {d.serial, mount[d.root]} \/ mount[d.root] = d.serial

AskSerial(r) ==
  /\ reader[r].pc = "serial"
  /\ \E d \in reader[r].now :
       LET left == reader[r].drives \ {d} IN
       IF ~SerialFits(d) THEN Step(r, Idle)
       ELSE Step(r, [reader[r] EXCEPT !.pc = IF left = {} THEN "open" ELSE "online",
                        !.drives = left, !.now = {}])
  /\ UNCHANGED <<world, trees, audit>>

Holds(t) == mount[t.place.root] # NoDisk /\ t.path \in files[mount[t.place.root]]

(* A zip passes over a file that is missing when it looks; open_recording, and   *)
(* a route that finds it gone when it reads it, give up.                        *)
AfterFiles(s, left) ==
  IF left # {} THEN "open" ELSE IF s.feed THEN "audit" ELSE "done"

OpenFile(r) ==
  /\ reader[r].pc = "open"
  /\ \E t \in reader[r].todo :
       LET s == reader[r]
           left == s.todo \ {t}
           rest == [s EXCEPT !.pc = AfterFiles(s, left), !.todo = left]
       IN \/ /\ Holds(t)
             /\ Step(r, [rest EXCEPT !.got = @ \cup {With(t, mount[t.place.root])}])
          \/ ~Holds(t) /\ ~s.feed /\ Step(r, rest)
          \/ ~Holds(t) /\ Step(r, Idle)
  /\ UNCHANGED <<world, trees, audit>>

(* The session gets its handle once the audit row is committed.                *)
FeedAuditAsked(r) ==        \* planted fault: logs the path that was asked for
  /\ reader[r].pc = "audit"
  /\ \/ /\ Step(r, [reader[r] EXCEPT !.pc = "done"])
        /\ audit' = audit \cup {[cust |-> g.cust, path |-> reader[r].path] : g \in reader[r].got}
     \/ Step(r, Idle) /\ UNCHANGED audit
  /\ UNCHANGED <<world, trees>>
FeedAudit(r) ==
  /\ reader[r].pc = "audit"
  /\ \/ /\ Step(r, [reader[r] EXCEPT !.pc = "done"])
        /\ audit' = audit \cup {[cust |-> g.cust, path |-> g.path] : g \in reader[r].got}
     \/ Step(r, Idle) /\ UNCHANGED audit
  /\ UNCHANGED <<world, trees>>

Close(r) ==
  /\ reader[r].pc = "done" /\ Step(r, Idle)
  /\ UNCHANGED <<world, trees, audit>>

Read(r) ==
  \/ \E S \in SUBSET Rows : WebSelect(r, S)
  \/ \E p \in Paths : FeedOpens(r, p)
  \/ BuildWindow(r) \/ BuildRows(r) \/ StoreTree(r)
  \/ FeedAccount(r) \/ FeedLimit(r) \/ FeedRow(r)
  \/ AskOnline(r) \/ AskSerial(r) \/ OpenFile(r) \/ FeedAudit(r) \/ Close(r)

-----------------------------------------------------------------------------
(* The index                                                                 *)

Event == events < MaxEvents /\ events' = events + 1

(* recordings.id is INTEGER PRIMARY KEY without AUTOINCREMENT, and a customer's  *)
(* path has one row.                                                          *)
IndexLearns(k, p) ==
  /\ Event
  /\ \A i \in RowsOf(k) : table[i].path # p
  /\ \E i \in RowIds :
       /\ \A j \in Rows : j < i
       /\ i # 1 => i - 1 \in Rows
       /\ table' = [table EXCEPT ![i] = [cust |-> k, path |-> p]]
  /\ UNCHANGED <<mount, files, cust, acct, session, trees, reader, audit>>

(* What an operation still takes from the tree.                                *)
OfTree == {"store", "account", "limit", "row"}

IndexForgets(i) ==
  /\ Event
  /\ i \in Rows /\ table' = [table EXCEPT ![i] = NoRow]
  /\ trees' = [k \in TreeKeys |->
        IF trees[k].fresh THEN [trees[k] EXCEPT !.lost = @ \cup {i}] ELSE trees[k]]
  /\ reader' = [r \in Readers |->
        IF reader[r].pc \in OfTree
        THEN [reader[r] EXCEPT !.tree.lost = @ \cup {i}] ELSE reader[r]]
  /\ UNCHANGED <<mount, files, cust, acct, session, audit>>

-----------------------------------------------------------------------------
(* The world, administrators and sessions                                    *)

(* A disk is unplugged or takes a free root.                                   *)
Swap(root, d) ==
  /\ Event
  /\ IF d = NoDisk THEN mount[root] # NoDisk
     ELSE mount[root] = NoDisk /\ \A o \in Roots : mount[o] # d
  /\ mount' = [mount EXCEPT ![root] = d]
  /\ reader' = [r \in Readers |->
        IF root \in reader[r].asked
        THEN [reader[r] EXCEPT !.swapped = @ \cup {root}] ELSE reader[r]]
  /\ UNCHANGED <<files, cust, table, acct, session, trees, audit>>

ChangeFiles(d, p) ==
  /\ Event
  /\ files' = [files EXCEPT ![d] = IF p \in @ THEN @ \ {p} ELSE @ \cup {p}]
  /\ UNCHANGED <<mount, cust, table, acct, session, trees, reader, audit>>

(* update_customer and rebind_drive.                                          *)
PlaceCustomer(k, root) ==
  /\ Event
  /\ \A o \in Customers \ {k} : cust[o].root # root
  /\ cust' = [cust EXCEPT ![k] = [root |-> root, serial |-> mount[root]]]
  /\ cust' # cust
  /\ UNCHANGED <<mount, files, table, acct, session, trees, reader, audit>>

ChangeAccount(a) ==
  /\ Event
  /\ a # acct /\ acct' = a
  /\ UNCHANGED <<mount, files, cust, table, session, trees, reader, audit>>

Login ==
  /\ acct.active /\ session # acct
  /\ session' = acct
  /\ UNCHANGED <<mount, files, cust, table, acct, events, trees, reader, audit>>

-----------------------------------------------------------------------------
ServingInit ==
  /\ mount = Mounted
  /\ files = [d \in Disks |-> Paths]
  /\ \E home \in [Customers -> Roots] :
       /\ \A k, o \in Customers : home[k] = home[o] => k = o
       /\ cust = [k \in Customers |-> [root |-> home[k], serial |-> Serials[k]]]
  /\ table = Indexed
  /\ acct \in Forms /\ session = acct
  /\ trees = [k \in TreeKeys |-> NoTree]
  /\ reader = [r \in Readers |-> Idle]
  /\ audit = {} /\ events = 0

ServingNext ==
  \/ \E r \in Readers : Read(r)
  \/ \E k \in TreeKeys : TreeExpires(k)
  \/ \E k \in Customers, p \in Paths : IndexLearns(k, p)
  \/ \E i \in RowIds : IndexForgets(i)
  \/ \E root \in Roots, d \in DiskOrNone : Swap(root, d)
  \/ \E d \in Disks, p \in Paths : ChangeFiles(d, p)
  \/ \E k \in Customers, root \in Roots : PlaceCustomer(k, root)
  \/ \E a \in Forms : ChangeAccount(a)
  \/ Login

ServingSpec == ServingInit /\ [][ServingNext]_servingVars

-----------------------------------------------------------------------------
(* Every byte served as a customer's comes from the disk the customer was bound *)
(* to when the row was read, if it was bound at all.  A disk that was swapped   *)
(* after the reader began to ask for it is seen only by the next reader, and by *)
(* a zip of thousands of files not before the next zip (indexer.py:35-64).      *)
RightDisk ==
  \A r \in Readers : \A g \in reader[r].got :
    \/ g.disk = g.place.serial
    \/ g.place.serial = NoDisk
    \/ g.place.root \in reader[r].swapped

(* A file the SFTP feed hands out is of the session's customer, within the       *)
(* window of both the session's days and the account's, and under the path that *)
(* was asked for, unless the row of that path left the index after the cached    *)
(* tree was read and its id was given to another recording (sftp.py:255-295).    *)
OpensWhatWasAsked ==
  \A r \in Readers :
    reader[r].feed /\ reader[r].pc \in {"audit", "done"} =>
      \A g \in reader[r].got :
        /\ g.cust = reader[r].own.cust
        /\ InWindow(g.path, reader[r].days, reader[r].anchor)
        /\ reader[r].days <= reader[r].own.days
        /\ g.path = reader[r].path \/ reader[r].id \in reader[r].tree.lost

(* Every file an SFTP session can read was audited by the name it really has.    *)
HandlesAreAudited ==
  \A r \in Readers :
    reader[r].feed /\ reader[r].pc = "done" =>
      \A g \in reader[r].got : [cust |-> g.cust, path |-> g.path] \in audit
=============================================================================
