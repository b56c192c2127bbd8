---------------------------- MODULE ServingProofs ---------------------------
(* Theorems about Serving, for every number of readers, customers, disks and  *)
(* rows and for changes without bound: what is read comes from the right disk, *)
(* what the SFTP feed opens is what was asked for, and it is audited.         *)
EXTENDS Serving, TLAPS

-----------------------------------------------------------------------------
(* Types                                                                     *)

LEMMA IdleType ==
  ASSUME acct \in Account
  PROVE  Idle \in Reader /\ NoTree \in Tree
<1>1. SomeAccount \in Account /\ (CHOOSE p \in Paths : TRUE) \in Paths
  BY ServingAssumption DEF SomeAccount
<1>2. NoTree \in Tree /\ 0 \in 0..MaxDays /\ 0 \in 0..MaxRow
  BY ServingAssumption DEF NoTree, Tree
<1> QED BY <1>1, <1>2 DEF Idle, Reader

LEMMA StepType ==
  ASSUME ServingTypeOK, NEW r \in Readers, NEW s \in Reader, Step(r, s)
  PROVE  reader' \in [Readers -> Reader]
BY DEF Step, ServingTypeOK

LEMMA TakenType ==
  ASSUME ServingTypeOK, NEW i \in Rows
  PROVE  TakenRow(i) \in Taken /\ TakenRow(i).place \in Place
<1>1. table[i] \in Row /\ i \in RowIds
  BY DEF Rows, ServingTypeOK
<1>2. cust[table[i].cust] \in Place
  BY <1>1 DEF ServingTypeOK, Row
<1> QED BY <1>1, <1>2 DEF TakenRow, Taken, Row

LEMMA LookUpType ==
  ASSUME ServingTypeOK, NEW r \in Readers, NEW s \in Reader, NEW t \in Tree,
         LookUp(r, s, t)
  PROVE  reader' \in [Readers -> Reader]
<1>1. t.ids[s.path] \in 0..MaxRow
  BY DEF Reader, Tree
<1>2. [s EXCEPT !.pc = "account", !.tree = t, !.id = t.ids[s.path]] \in Reader
  BY <1>1 DEF Reader
<1> QED BY <1>2, IdleType, StepType DEF LookUp, ServingTypeOK

LEMMA AnchorType == \A n \in {0} \cup {Day[p] : p \in Paths} : n \in Nat
BY ServingAssumption

LEMMA ReadType ==
  ASSUME ServingTypeOK, NEW r \in Readers, Read(r)
  PROVE  ServingTypeOK'
<1> USE DEF world
<1> DEFINE s == reader[r]
<1>0. s \in Reader /\ Idle \in Reader /\ KeyOf(session) \in TreeKeys
      /\ KeyOf(s.own) \in TreeKeys
  BY IdleType DEF ServingTypeOK, Reader, KeyOf, TreeKeys, Account
<1>1. ASSUME NEW S \in SUBSET Rows, WebSelect(r, S)
      PROVE  ServingTypeOK'
  <2> DEFINE todo == {TakenRow(i) : i \in S}
             drives == {TakenRow(i).place : i \in S}
  <2>1. todo \in SUBSET Taken /\ drives \in SUBSET Place
    BY TakenType
  <2> HIDE DEF todo, drives
  <2>2. [Idle EXCEPT !.pc = "online", !.todo = todo, !.drives = drives] \in Reader
    BY <1>0, <2>1 DEF Reader
  <2>3. Step(r, [Idle EXCEPT !.pc = "online", !.todo = todo, !.drives = drives])
    BY <1>1 DEF WebSelect, todo, drives
  <2> QED BY <1>1, <2>2, <2>3, StepType DEF WebSelect, ServingTypeOK
<1>2. ASSUME NEW p \in Paths, FeedOpens(r, p)
      PROVE  ServingTypeOK'
  <2> DEFINE n == [Idle EXCEPT !.feed = TRUE, !.own = session, !.path = p]
             w == [n EXCEPT !.pc = "window"]
  <2>1. n \in Reader /\ w \in Reader
    BY <1>0 DEF Reader, ServingTypeOK
  <2>2. trees[KeyOf(session)] \in Tree
    BY <1>0 DEF ServingTypeOK
  <2>3. LookUp(r, n, trees[KeyOf(session)]) \/ Step(r, w)
    BY <1>2 DEF FeedOpens
  <2>4. reader' \in [Readers -> Reader]
    <3> HIDE DEF n, w
    <3> QED BY <2>1, <2>2, <2>3, LookUpType, StepType
  <2> QED BY <1>2, <2>4 DEF FeedOpens, ServingTypeOK
<1>3. CASE BuildWindow(r)
  <2>1. ASSUME NEW n \in {0} \cup {Day[p] : p \in Paths}
        PROVE  [s EXCEPT !.pc = "rows", !.anchor = n] \in Reader
    BY <1>0, AnchorType DEF Reader
  <2>2. reader' \in [Readers -> Reader]
    BY <1>3, <2>1, StepType DEF BuildWindow
  <2> QED BY <1>3, <2>2 DEF BuildWindow, ServingTypeOK
<1>4. CASE BuildRows(r)
  <2> DEFINE listed == Listed(s.own.cust, s.own.days, s.anchor)
             tree == [ids |-> [p \in Paths |->
                           IF \E i \in listed : table[i].path = p
                           THEN CHOOSE i \in listed : table[i].path = p ELSE 0],
                      lost |-> {}, fresh |-> TRUE]
  <2>1. \A i \in listed : i \in 0..MaxRow
    BY ServingAssumption DEF Listed, RowsOf, Rows, RowIds
  <2>2. tree \in Tree
    BY <2>1, ServingAssumption DEF Tree
  <2>3. Step(r, [s EXCEPT !.pc = "store", !.anchor = 0, !.tree = tree])
    BY <1>4 DEF BuildRows
  <2> HIDE DEF tree
  <2>4. [s EXCEPT !.pc = "store", !.anchor = 0, !.tree = tree] \in Reader
    BY <1>0, <2>2 DEF Reader
  <2> QED BY <1>4, <2>3, <2>4, StepType DEF BuildRows, ServingTypeOK
<1>5. CASE StoreTree(r)
  <2>1. s.tree \in Tree
    BY <1>0 DEF Reader
  <2>2. reader' \in [Readers -> Reader]
    BY <1>0, <1>5, <2>1, LookUpType DEF StoreTree
  <2>3. trees' \in [TreeKeys -> Tree]
    BY <1>0, <1>5, <2>1 DEF StoreTree, ServingTypeOK
  <2> QED BY <1>5, <2>2, <2>3 DEF StoreTree, ServingTypeOK
<1>6. CASE FeedAccount(r)
  <2>1. Least(acct.days, s.own.days) \in 0..MaxDays
    BY <1>0 DEF Least, ServingTypeOK, Account, Reader
  <2>2. [s EXCEPT !.pc = "limit", !.days = Least(acct.days, s.own.days)] \in Reader
    BY <1>0, <2>1 DEF Reader
  <2>3. reader' \in [Readers -> Reader]
    BY <1>0, <1>6, <2>2, StepType DEF FeedAccount
  <2> QED BY <1>6, <2>3 DEF FeedAccount, ServingTypeOK
<1>7. CASE FeedLimit(r)
  <2>1. ASSUME NEW n \in {0} \cup {Day[p] : p \in Paths}
        PROVE  [s EXCEPT !.pc = "row", !.anchor = n] \in Reader
    BY <1>0, AnchorType DEF Reader
  <2>2. reader' \in [Readers -> Reader]
    BY <1>7, <2>1, StepType DEF FeedLimit
  <2> QED BY <1>7, <2>2 DEF FeedLimit, ServingTypeOK
<1>8. CASE FeedRow(r)
  <2>1. s.id \in Listed(s.own.cust, s.days, s.anchor) =>
          [s EXCEPT !.pc = "online", !.todo = {TakenRow(s.id)},
                    !.drives = {TakenRow(s.id).place}] \in Reader
    <3> SUFFICES ASSUME s.id \in Listed(s.own.cust, s.days, s.anchor)
                 PROVE  [s EXCEPT !.pc = "online", !.todo = {TakenRow(s.id)},
                           !.drives = {TakenRow(s.id).place}] \in Reader
      OBVIOUS
    <3>1. s.id \in Rows
      BY DEF Listed, RowsOf
    <3>2. {TakenRow(s.id)} \in SUBSET Taken /\ {TakenRow(s.id).place} \in SUBSET Place
      BY <3>1, TakenType
    <3> QED BY <1>0, <3>2 DEF Reader
  <2>2. reader' \in [Readers -> Reader]
    BY <1>0, <1>8, <2>1, StepType DEF FeedRow
  <2> QED BY <1>8, <2>2 DEF FeedRow, ServingTypeOK
<1>9. CASE AskOnline(r)
  <2>1. ASSUME NEW d \in s.drives
        PROVE  [s EXCEPT !.pc = "serial", !.now = {d}, !.asked = @ \cup {d.root}]
                 \in Reader
    BY <1>0 DEF Reader, Place
  <2>2. reader' \in [Readers -> Reader]
    BY <1>0, <1>9, <2>1, StepType DEF AskOnline
  <2> QED BY <1>9, <2>2 DEF AskOnline, ServingTypeOK
<1>10. CASE AskSerial(r)
  <2>1. ASSUME NEW d \in s.now
        PROVE  [s EXCEPT !.pc = IF s.drives \ {d} = {} THEN "open" ELSE "online",
                   !.drives = s.drives \ {d}, !.now = {}] \in Reader
    BY <1>0 DEF Reader
  <2>2. reader' \in [Readers -> Reader]
    BY <1>0, <1>10, <2>1, StepType DEF AskSerial
  <2> QED BY <1>10, <2>2 DEF AskSerial, ServingTypeOK
<1>11. CASE OpenFile(r)
  <2>1. PICK t \in s.todo :
          LET rest == [s EXCEPT !.pc = AfterFiles(s, s.todo \ {t}), !.todo = s.todo \ {t}]
          IN \/ /\ Holds(t)
                /\ Step(r, [rest EXCEPT !.got = @ \cup {With(t, mount[t.place.root])}])
             \/ ~Holds(t) /\ ~s.feed /\ Step(r, rest)
             \/ ~Holds(t) /\ Step(r, Idle)
    BY <1>11 DEF OpenFile
  <2> DEFINE rest == [s EXCEPT !.pc = AfterFiles(s, s.todo \ {t}), !.todo = s.todo \ {t}]
  <2>2. rest \in Reader /\ t \in Taken
    BY <1>0 DEF Reader, AfterFiles
  <2>3. Holds(t) => With(t, mount[t.place.root]) \in Got
    BY <2>2 DEF Holds, With, Got, Taken, Place, ServingTypeOK, DiskOrNone
  <2>4. Holds(t) =>
          [rest EXCEPT !.got = @ \cup {With(t, mount[t.place.root])}] \in Reader
    <3> HIDE DEF rest
    <3> QED BY <2>2, <2>3 DEF Reader
  <2>5. reader' \in [Readers -> Reader]
    <3> HIDE DEF rest
    <3>1. \/ /\ Holds(t)
             /\ Step(r, [rest EXCEPT !.got = @ \cup {With(t, mount[t.place.root])}])
          \/ Step(r, rest) \/ Step(r, Idle)
      BY <2>1 DEF rest
    <3> QED BY <1>0, <2>2, <2>4, <3>1, StepType
  <2> QED BY <1>11, <2>5 DEF OpenFile, ServingTypeOK
<1>12. CASE FeedAudit(r)
  <2>1. [s EXCEPT !.pc = "done"] \in Reader
    BY <1>0 DEF Reader
  <2>2. reader' \in [Readers -> Reader]
    BY <1>0, <1>12, <2>1, StepType DEF FeedAudit
  <2>3. \A g \in s.got : [cust |-> g.cust, path |-> g.path] \in Row
    BY <1>0 DEF Reader, Got, Row
  <2>4. audit' \in SUBSET Row
    BY <1>12, <2>3 DEF FeedAudit, ServingTypeOK
  <2> QED BY <1>12, <2>2, <2>4 DEF FeedAudit, ServingTypeOK
<1>13. CASE Close(r)
  BY <1>0, <1>13, StepType DEF Close, ServingTypeOK
<1> QED BY <1>1, <1>2, <1>3, <1>4, <1>5, <1>6, <1>7, <1>8, <1>9, <1>10, <1>11,
           <1>12, <1>13 DEF Read

LEMMA EventType ==
  ASSUME ServingTypeOK, Event PROVE events' \in 0..MaxEvents
BY ServingAssumption DEF ServingTypeOK, Event

LEMMA WorldType ==
  ASSUME ServingTypeOK,
         \/ \E k \in TreeKeys : TreeExpires(k)
         \/ \E k \in Customers, p \in Paths : IndexLearns(k, p)
         \/ \E i \in RowIds : IndexForgets(i)
         \/ \E root \in Roots, d \in DiskOrNone : Swap(root, d)
         \/ \E d \in Disks, p \in Paths : ChangeFiles(d, p)
         \/ \E k \in Customers, root \in Roots : PlaceCustomer(k, root)
         \/ \E a \in Forms : ChangeAccount(a)
         \/ Login
  PROVE  ServingTypeOK'
<1> USE DEF world
<1>1. ASSUME NEW k \in TreeKeys, TreeExpires(k) PROVE ServingTypeOK'
  BY <1>1, IdleType DEF TreeExpires, ServingTypeOK
<1>2. ASSUME NEW k \in Customers, NEW p \in Paths, IndexLearns(k, p)
      PROVE  ServingTypeOK'
  <2>1. PICK i \in RowIds : table' = [table EXCEPT ![i] = [cust |-> k, path |-> p]]
    BY <1>2 DEF IndexLearns
  <2>2. table' \in [RowIds -> {NoRow} \cup Row]
    BY <2>1 DEF ServingTypeOK, Row
  <2> QED BY <1>2, <2>2, EventType DEF IndexLearns, ServingTypeOK
<1>3. ASSUME NEW i \in RowIds, IndexForgets(i) PROVE ServingTypeOK'
  <2>1. table' \in [RowIds -> {NoRow} \cup Row]
    BY <1>3 DEF IndexForgets, ServingTypeOK
  <2>2. ASSUME NEW t \in Tree PROVE [t EXCEPT !.lost = @ \cup {i}] \in Tree
    BY DEF Tree
  <2>3. trees' \in [TreeKeys -> Tree]
    BY <1>3, <2>2 DEF IndexForgets, ServingTypeOK
  <2>4. ASSUME NEW s \in Reader PROVE [s EXCEPT !.tree.lost = @ \cup {i}] \in Reader
    <3>1. [s.tree EXCEPT !.lost = @ \cup {i}] \in Tree
      BY <2>2 DEF Reader
    <3> QED BY <3>1 DEF Reader
  <2>5. reader' \in [Readers -> Reader]
    BY <1>3, <2>4 DEF IndexForgets, ServingTypeOK
  <2> QED BY <1>3, <2>1, <2>3, <2>5, EventType DEF IndexForgets, ServingTypeOK
<1>4. ASSUME NEW root \in Roots, NEW d \in DiskOrNone, Swap(root, d)
      PROVE  ServingTypeOK'
  <2>1. ASSUME NEW s \in Reader PROVE [s EXCEPT !.swapped = @ \cup {root}] \in Reader
    BY DEF Reader
  <2>2. reader' \in [Readers -> Reader]
    BY <1>4, <2>1 DEF Swap, ServingTypeOK
  <2> QED BY <1>4, <2>2, EventType DEF Swap, ServingTypeOK
<1>5. ASSUME NEW d \in Disks, NEW p \in Paths, ChangeFiles(d, p)
      PROVE  ServingTypeOK'
  BY <1>5, EventType DEF ChangeFiles, ServingTypeOK
<1>6. ASSUME NEW k \in Customers, NEW root \in Roots, PlaceCustomer(k, root)
      PROVE  ServingTypeOK'
  <2>1. [root |-> root, serial |-> mount[root]] \in Place
    BY DEF Place, ServingTypeOK
  <2> QED BY <1>6, <2>1, EventType DEF PlaceCustomer, ServingTypeOK
<1>7. ASSUME NEW a \in Forms, ChangeAccount(a) PROVE ServingTypeOK'
  BY <1>7, EventType, ServingAssumption DEF ChangeAccount, ServingTypeOK
<1>8. ASSUME Login PROVE ServingTypeOK'
  BY <1>8 DEF Login, ServingTypeOK
<1> QED BY <1>1, <1>2, <1>3, <1>4, <1>5, <1>6, <1>7, <1>8

(* Every reachable state of any number of readers is of its type.             *)
THEOREM ServingTypeCorrect == ServingSpec => []ServingTypeOK
<1>1. ServingInit => ServingTypeOK
  <2> SUFFICES ASSUME ServingInit PROVE ServingTypeOK
    OBVIOUS
  <2>1. acct \in Account
    BY ServingAssumption DEF ServingInit
  <2>2. PICK home \in [Customers -> Roots] :
          cust = [k \in Customers |-> [root |-> home[k], serial |-> Serials[k]]]
    BY DEF ServingInit
  <2>3. cust \in [Customers -> Place]
    BY <2>2, ServingAssumption DEF Place, DiskOrNone
  <2> QED BY <2>1, <2>3, IdleType, ServingAssumption
          DEF ServingInit, ServingTypeOK, DiskOrNone
<1>2. ServingTypeOK /\ [ServingNext]_servingVars => ServingTypeOK'
  <2> SUFFICES ASSUME ServingTypeOK, [ServingNext]_servingVars PROVE ServingTypeOK'
    OBVIOUS
  <2>1. CASE UNCHANGED servingVars
    BY <2>1 DEF servingVars, world, ServingTypeOK
  <2> QED BY <2>1, ReadType, WorldType DEF ServingNext
<1> QED BY <1>1, <1>2, PTL DEF ServingSpec

-----------------------------------------------------------------------------
(* The right disk                                                            *)

(* A place that has been asked for and found to be right, or given another     *)
(* disk since.                                                                *)
Found(r, d) ==
  /\ d.root \in reader[r].asked
  /\ \/ d.serial = NoDisk \/ d.root \in reader[r].swapped
     \/ mount[d.root] = d.serial

DiskInv(r) ==
  /\ \A t \in reader[r].todo : t.place \in reader[r].drives \/ Found(r, t.place)
  /\ \A d \in reader[r].now :
       /\ d \in reader[r].drives /\ d.root \in reader[r].asked
       /\ mount[d.root] # NoDisk \/ d.root \in reader[r].swapped
  /\ reader[r].pc = "open" => reader[r].drives = {}
  /\ reader[r].pc # "serial" => reader[r].now = {}
  /\ \A g \in reader[r].got :
       \/ g.disk = g.place.serial \/ g.place.serial = NoDisk
       \/ g.place.root \in reader[r].swapped

LEMMA NothingToDo ==
  ASSUME NEW r \in Readers, reader'[r].todo = {}, reader'[r].now = {},
         reader'[r].got = {}, reader'[r].pc # "open"
  PROVE  DiskInv(r)'
BY DEF DiskInv

LEMMA IdleDisk ==
  ASSUME NEW r \in Readers, reader'[r] = Idle PROVE DiskInv(r)'
BY NothingToDo DEF Idle

(* Steps that change neither what the reader took nor the disks.              *)
LEMMA SameDisk ==
  ASSUME NEW r \in Readers, DiskInv(r), mount' = mount,
         reader'[r].todo = reader[r].todo, reader'[r].drives = reader[r].drives,
         reader'[r].now = reader[r].now, reader'[r].got = reader[r].got,
         reader'[r].asked = reader[r].asked,
         reader'[r].swapped = reader[r].swapped,
         reader'[r].pc = "open" => reader[r].pc = "open",
         reader[r].pc = "serial" => reader'[r].pc = "serial"
  PROVE  DiskInv(r)'
BY DEF DiskInv, Found

LEMMA ReadDisk ==
  ASSUME ServingTypeOK, NEW r \in Readers, DiskInv(r), Read(r)
  PROVE  DiskInv(r)'
<1> DEFINE s == reader[r]
<1>0. s \in Reader /\ Idle \in Reader /\ reader' = [reader EXCEPT ![r] = reader'[r]]
      /\ mount' = mount
  BY IdleType DEF ServingTypeOK, Read, Step, WebSelect, FeedOpens, LookUp,
     BuildWindow, BuildRows, StoreTree, FeedAccount, FeedLimit, FeedRow,
     AskOnline, AskSerial, OpenFile, FeedAudit, Close, world
<1>a. \A n : Step(r, n) => reader'[r] = n
  BY DEF Step, ServingTypeOK
<1>1. ASSUME NEW S \in SUBSET Rows, WebSelect(r, S) PROVE DiskInv(r)'
  <2> DEFINE todo == {TakenRow(i) : i \in S}
             drives == {TakenRow(i).place : i \in S}
             n == [Idle EXCEPT !.pc = "online", !.todo = todo, !.drives = drives]
  <2>1. reader'[r] = n
    BY <1>1, <1>a DEF WebSelect
  <2>2. \A t \in todo : t.place \in drives
    OBVIOUS
  <2>3. n.todo = todo /\ n.drives = drives /\ n.now = {} /\ n.got = {} /\ n.pc = "online"
    <3> HIDE DEF todo, drives
    <3> QED BY DEF Idle
  <2> HIDE DEF n, todo, drives
  <2> QED BY <2>1, <2>2, <2>3 DEF DiskInv
<1>2. ASSUME NEW p \in Paths, FeedOpens(r, p) PROVE DiskInv(r)'
  <2> DEFINE n == [Idle EXCEPT !.feed = TRUE, !.own = session, !.path = p]
             t == trees[KeyOf(session)]
  <2>1. \/ reader'[r] = Idle
        \/ reader'[r] = [n EXCEPT !.pc = "window"]
        \/ reader'[r] = [n EXCEPT !.pc = "account", !.tree = t, !.id = t.ids[p]]
    BY <1>2, <1>a DEF FeedOpens, LookUp, Idle
  <2>2. n \in Reader /\ n.todo = {} /\ n.now = {} /\ n.got = {}
    BY <1>0 DEF Reader, Idle, ServingTypeOK
  <2>3. reader'[r].todo = {} /\ reader'[r].now = {} /\ reader'[r].got = {}
        /\ reader'[r].pc # "open"
    <3>1. CASE reader'[r] = Idle
      BY <3>1 DEF Idle
    <3> HIDE DEF n
    <3>2. CASE reader'[r] # Idle
      BY <2>1, <2>2, <3>2 DEF Reader
    <3> QED BY <3>1, <3>2
  <2> QED BY <2>3, NothingToDo
<1>3. CASE BuildWindow(r)
  <2>1. s.pc = "window" /\ \E n : reader'[r] = [s EXCEPT !.pc = "rows", !.anchor = n]
    BY <1>3, <1>a DEF BuildWindow
  <2> QED BY <1>0, <2>1, SameDisk DEF Reader
<1>4. CASE BuildRows(r)
  <2>1. s.pc = "rows" /\ \E t : reader'[r] = [s EXCEPT !.pc = "store", !.anchor = 0, !.tree = t]
    BY <1>4, <1>a DEF BuildRows
  <2> QED BY <1>0, <2>1, SameDisk DEF Reader
<1>5. CASE StoreTree(r)
  <2>1. \/ reader'[r] = Idle
        \/ /\ s.pc = "store"
           /\ \E t, i : reader'[r] = [s EXCEPT !.pc = "account", !.tree = t, !.id = i]
    BY ZenonT(30), <1>5, <1>a DEF StoreTree, LookUp
  <2> QED BY <1>0, <2>1, SameDisk, IdleDisk DEF Reader
<1>6. CASE FeedAccount(r)
  <2>1. \/ reader'[r] = Idle
        \/ s.pc = "account" /\ \E n : reader'[r] = [s EXCEPT !.pc = "limit", !.days = n]
    BY <1>6, <1>a DEF FeedAccount
  <2> QED BY <1>0, <2>1, SameDisk, IdleDisk DEF Reader
<1>7. CASE FeedLimit(r)
  <2>1. s.pc = "limit" /\ \E n : reader'[r] = [s EXCEPT !.pc = "row", !.anchor = n]
    BY <1>7, <1>a DEF FeedLimit
  <2> QED BY <1>0, <2>1, SameDisk DEF Reader
<1>8. CASE FeedRow(r)
  <2> DEFINE t == TakenRow(s.id)
             n == [s EXCEPT !.pc = "online", !.todo = {t}, !.drives = {t.place}]
  <2>1. reader'[r] = Idle \/ reader'[r] = n
    BY <1>8, <1>a DEF FeedRow
  <2>2. n.todo = {t} /\ n.drives = {t.place} /\ n.pc = "online" /\ n.now = s.now
        /\ n.got = s.got /\ n.asked = s.asked /\ n.swapped = s.swapped
    <3> HIDE DEF t
    <3> QED BY <1>0 DEF Reader
  <2>3. s.now = {}
    BY <1>8 DEF FeedRow, DiskInv
  <2>4. CASE reader'[r] = n
    <3> HIDE DEF n, t
    <3> QED BY <2>2, <2>3, <2>4 DEF DiskInv
  <2> QED BY <2>1, <2>4, IdleDisk
<1>9. CASE AskOnline(r)
  <2>1. PICK d \in s.drives :
          \/ Step(r, Idle)
          \/ /\ mount[d.root] # NoDisk
             /\ Step(r, [s EXCEPT !.pc = "serial", !.now = {d}, !.asked = @ \cup {d.root}])
    BY <1>9 DEF AskOnline
  <2> DEFINE n == [s EXCEPT !.pc = "serial", !.now = {d}, !.asked = @ \cup {d.root}]
  <2>2. CASE Step(r, n) /\ mount[d.root] # NoDisk
    <3>1. n.todo = s.todo /\ n.drives = s.drives /\ n.now = {d} /\ n.got = s.got
          /\ n.asked = s.asked \cup {d.root} /\ n.swapped = s.swapped /\ n.pc = "serial"
      BY <1>0 DEF Reader
    <3>2. reader'[r] = n
      BY <1>a, <2>2
    <3> HIDE DEF n
    <3> QED BY <1>0, <2>2, <3>1, <3>2 DEF DiskInv, Found
  <2> QED BY <1>a, <2>1, <2>2, IdleDisk
<1>10. CASE AskSerial(r)
  <2>1. PICK d \in s.now :
          \/ Step(r, Idle)
          \/ /\ SerialFits(d)
             /\ Step(r, [s EXCEPT !.pc = IF s.drives \ {d} = {} THEN "open" ELSE "online",
                                  !.drives = s.drives \ {d}, !.now = {}])
    BY <1>10 DEF AskSerial
  <2> DEFINE n == [s EXCEPT !.pc = IF s.drives \ {d} = {} THEN "open" ELSE "online",
                            !.drives = s.drives \ {d}, !.now = {}]
  <2>2. CASE Step(r, n) /\ SerialFits(d)
    <3>1. n.todo = s.todo /\ n.drives = s.drives \ {d} /\ n.now = {} /\ n.got = s.got
          /\ n.asked = s.asked /\ n.swapped = s.swapped
          /\ n.pc = IF s.drives \ {d} = {} THEN "open" ELSE "online"
      BY <1>0 DEF Reader
    <3>2. reader'[r] = n
      BY <1>a, <2>2
    <3>3. Found(r, d)
      BY <2>2 DEF DiskInv, Found, SerialFits
    <3> HIDE DEF n
    <3> QED BY <1>0, <3>1, <3>2, <3>3 DEF DiskInv, Found
  <2> QED BY <1>a, <2>1, <2>2, IdleDisk
<1>11. CASE OpenFile(r)
  <2>1. s.pc = "open" /\ s.drives = {} /\ s.now = {}
    BY <1>11 DEF OpenFile, DiskInv
  <2>2. PICK t \in s.todo :
          LET rest == [s EXCEPT !.pc = AfterFiles(s, s.todo \ {t}), !.todo = s.todo \ {t}]
          IN \/ /\ Holds(t)
                /\ Step(r, [rest EXCEPT !.got = @ \cup {With(t, mount[t.place.root])}])
             \/ ~Holds(t) /\ ~s.feed /\ Step(r, rest)
             \/ ~Holds(t) /\ Step(r, Idle)
    BY <1>11 DEF OpenFile
  <2> DEFINE g == With(t, mount[t.place.root])
             rest == [s EXCEPT !.pc = AfterFiles(s, s.todo \ {t}), !.todo = s.todo \ {t}]
             more == [rest EXCEPT !.got = @ \cup {g}]
  <2>3. /\ rest.todo = s.todo \ {t} /\ rest.drives = {} /\ rest.now = {}
        /\ rest.got = s.got /\ rest.asked = s.asked /\ rest.swapped = s.swapped
        /\ rest \in Reader
    BY <1>0, <2>1 DEF Reader, AfterFiles
  <2>4. /\ more.todo = s.todo \ {t} /\ more.drives = {} /\ more.now = {}
        /\ more.got = s.got \cup {g} /\ more.asked = s.asked
        /\ more.swapped = s.swapped
    <3> HIDE DEF rest, g
    <3> QED BY <2>3 DEF Reader
  <2>5. Found(r, t.place)
    BY <2>1 DEF DiskInv
  <2>6. g.place = t.place /\ g.disk = mount[t.place.root]
    BY DEF With
  <2>7. \/ g.disk = g.place.serial \/ g.place.serial = NoDisk
        \/ g.place.root \in s.swapped
    BY <2>5, <2>6 DEF Found
  <2>8. \/ reader'[r] = more \/ reader'[r] = rest \/ reader'[r] = Idle
    BY <1>a, <2>2
  <2>9. CASE reader'[r] = more
    <3> HIDE DEF more, g
    <3> QED BY <1>0, <2>1, <2>4, <2>7, <2>9 DEF DiskInv, Found
  <2>10. CASE reader'[r] = rest
    <3> HIDE DEF rest
    <3> QED BY <1>0, <2>1, <2>3, <2>10 DEF DiskInv, Found
  <2> QED BY <2>8, <2>9, <2>10, IdleDisk
<1>12. CASE FeedAudit(r)
  <2>1. reader'[r] = Idle \/ reader'[r] = [s EXCEPT !.pc = "done"]
    BY <1>12, <1>a DEF FeedAudit
  <2> QED BY <1>0, <1>12, <2>1, SameDisk, IdleDisk DEF FeedAudit, Reader
<1>13. CASE Close(r)
  BY <1>13, <1>a, IdleDisk DEF Close
<1> QED BY <1>1, <1>2, <1>3, <1>4, <1>5, <1>6, <1>7, <1>8, <1>9, <1>10, <1>11,
           <1>12, <1>13 DEF Read

LEMMA OnlyTheReaderMoves ==
  ASSUME ServingTypeOK, NEW r \in Readers, Read(r)
  PROVE  UNCHANGED <<mount, table>> /\ \A u \in Readers \ {r} : reader'[u] = reader[u]
BY DEF ServingTypeOK, Read, Step, WebSelect, FeedOpens, LookUp,
     BuildWindow, BuildRows, StoreTree, FeedAccount, FeedLimit, FeedRow,
     AskOnline, AskSerial, OpenFile, FeedAudit, Close, world

LEMMA SwapDisk ==
  ASSUME ServingTypeOK, NEW r \in Readers, DiskInv(r),
         NEW root \in Roots, NEW d \in DiskOrNone, Swap(root, d)
  PROVE  DiskInv(r)'
<1>1. /\ reader'[r].todo = reader[r].todo /\ reader'[r].drives = reader[r].drives
      /\ reader'[r].now = reader[r].now /\ reader'[r].got = reader[r].got
      /\ reader'[r].asked = reader[r].asked /\ reader'[r].pc = reader[r].pc
      /\ reader[r].swapped \subseteq reader'[r].swapped
      /\ root \in reader[r].asked => root \in reader'[r].swapped
  BY DEF Swap, ServingTypeOK, Reader
<1>2. \A o : o # root => mount'[o] = mount[o]
  BY DEF Swap, ServingTypeOK
<1> QED BY <1>1, <1>2 DEF DiskInv, Found

LEMMA ForgetsDisk ==
  ASSUME ServingTypeOK, NEW r \in Readers, DiskInv(r), NEW i \in RowIds,
         IndexForgets(i)
  PROVE  DiskInv(r)'
<1>1. /\ reader'[r].todo = reader[r].todo /\ reader'[r].drives = reader[r].drives
      /\ reader'[r].now = reader[r].now /\ reader'[r].got = reader[r].got
      /\ reader'[r].asked = reader[r].asked /\ reader'[r].pc = reader[r].pc
      /\ reader'[r].swapped = reader[r].swapped /\ mount' = mount
  BY DEF IndexForgets, ServingTypeOK, Reader
<1> QED BY <1>1, SameDisk

(* What is served as a customer's comes from its disk, for any number of         *)
(* requests, sessions and disks, unless the root was given another disk after    *)
(* the reader had begun to ask for it (indexer.py:35-64, recordings.py:183-366,   *)
(* sftp.py:269-297).                                                          *)
THEOREM RightDiskHolds == ServingSpec => []RightDisk
<1> DEFINE Inv == \A r \in Readers : DiskInv(r)
<1>1. ServingInit => Inv
  BY DEF ServingInit, DiskInv, Idle
<1>2. ServingTypeOK /\ Inv /\ [ServingNext]_servingVars => Inv'
  <2> SUFFICES ASSUME ServingTypeOK, Inv, [ServingNext]_servingVars, NEW r \in Readers
               PROVE  DiskInv(r)'
    OBVIOUS
  <2>1. ASSUME NEW u \in Readers, Read(u) PROVE DiskInv(r)'
    <3>1. CASE u = r
      BY <2>1, <3>1, ReadDisk
    <3>2. CASE u # r
      BY <2>1, <3>2, OnlyTheReaderMoves, SameDisk
    <3> QED BY <3>1, <3>2
  <2>2. ASSUME mount' = mount, reader' = reader PROVE DiskInv(r)'
    BY <2>2, SameDisk
  <2>3. CASE \/ UNCHANGED servingVars
             \/ \E k \in TreeKeys : TreeExpires(k)
             \/ \E k \in Customers, p \in Paths : IndexLearns(k, p)
             \/ \E d \in Disks, p \in Paths : ChangeFiles(d, p)
             \/ \E k \in Customers, root \in Roots : PlaceCustomer(k, root)
             \/ \E a \in Forms : ChangeAccount(a)
             \/ Login
    BY <2>2, <2>3 DEF servingVars, world, TreeExpires, IndexLearns, ChangeFiles,
       PlaceCustomer, ChangeAccount, Login
  <2> QED BY <2>1, <2>3, SwapDisk, ForgetsDisk DEF ServingNext
<1>3. Inv => RightDisk
  BY DEF DiskInv, RightDisk
<1> QED BY <1>1, <1>2, <1>3, ServingTypeCorrect, PTL DEF ServingSpec

-----------------------------------------------------------------------------
(* What was asked for                                                        *)

(* Each id in a tree is lost, or still of the customer's row of that path.     *)
Names(tree, k) ==
  \A p \in Paths :
    tree.ids[p] # 0 =>
      \/ tree.ids[p] \in tree.lost
      \/ /\ tree.ids[p] \in Rows
         /\ table[tree.ids[p]].cust = k /\ table[tree.ids[p]].path = p

TreesInv == \A k \in TreeKeys : trees[k].fresh => Names(trees[k], k[1])

Building == {"window", "rows"}
Opening == {"online", "serial", "open", "audit", "done"}

(* What an SFTP operation has taken or opened is as it was asked.              *)
Fits(r, t) ==
  /\ t.cust = reader[r].own.cust
  /\ InWindow(t.path, reader[r].days, reader[r].anchor)
  /\ t.path = reader[r].path \/ reader[r].id \in reader[r].tree.lost

AskedInv(r) ==
  LET s == reader[r] IN
  /\ s.pc \in OfTree => Names(s.tree, s.own.cust)
  /\ s.pc = "store" => s.tree.fresh
  /\ s.pc \in {"account", "limit", "row"} =>
       s.id = s.tree.ids[s.path] /\ s.id # 0
  /\ s.pc \in {"limit", "row"} => s.days <= s.own.days
  /\ s.pc \in Building \cup OfTree => s.got = {}
  /\ s.feed /\ s.pc \in Opening =>
       /\ s.days <= s.own.days
       /\ \A t \in s.todo : Fits(r, t)
       /\ \A g \in s.got : Fits(r, g)

LEMMA IdleAsked ==
  ASSUME NEW r \in Readers, reader'[r] = Idle PROVE AskedInv(r)'
BY DEF AskedInv, Idle, OfTree, Opening, Building

(* Nothing that matters to a reader has changed.                              *)
LEMMA SameAsked ==
  ASSUME NEW r \in Readers, AskedInv(r), table' = table, reader'[r] = reader[r]
  PROVE  AskedInv(r)'
BY DEF AskedInv, Names, Fits, Rows

LEMMA LookUpAsked ==
  ASSUME ServingTypeOK, NEW r \in Readers, table' = table,
         NEW s \in Reader, NEW t \in Tree, s.got = {}, Names(t, s.own.cust),
         LookUp(r, s, t)
  PROVE  AskedInv(r)'
<1> DEFINE n == [s EXCEPT !.pc = "account", !.tree = t, !.id = t.ids[s.path]]
<1>1. reader'[r] = Idle \/ (t.ids[s.path] # 0 /\ reader'[r] = n)
  BY DEF LookUp, Step, ServingTypeOK
<1>2. /\ n.pc = "account" /\ n.tree = t /\ n.id = t.ids[s.path] /\ n.path = s.path
      /\ n.own = s.own /\ n.got = {}
  BY DEF Reader
<1>3. ASSUME t.ids[s.path] # 0, reader'[r] = n PROVE AskedInv(r)'
  <2> HIDE DEF n
  <2> QED BY <1>2, <1>3 DEF AskedInv, Names, Rows, Opening
<1> QED BY <1>1, <1>3, IdleAsked

LEMMA ReadAsked ==
  ASSUME ServingTypeOK, TreesInv, NEW r \in Readers, AskedInv(r), Read(r)
  PROVE  AskedInv(r)' /\ TreesInv'
<1> DEFINE s == reader[r]
<1> USE DEF world
<1>0. s \in Reader /\ Idle \in Reader /\ table' = table
  BY IdleType, OnlyTheReaderMoves DEF ServingTypeOK
<1>a. \A n : Step(r, n) => reader'[r] = n
  BY DEF Step, ServingTypeOK
<1>b. ASSUME trees' = trees PROVE TreesInv'
  BY <1>0, <1>b DEF TreesInv, Names, Rows
<1>1. ASSUME NEW S \in SUBSET Rows, WebSelect(r, S) PROVE AskedInv(r)'
  <2> DEFINE todo == {TakenRow(i) : i \in S}
             drives == {TakenRow(i).place : i \in S}
             n == [Idle EXCEPT !.pc = "online", !.todo = todo, !.drives = drives]
  <2>1. reader'[r] = n
    BY <1>1, <1>a DEF WebSelect
  <2>2. n.pc = "online" /\ n.feed = FALSE
    <3> HIDE DEF todo, drives
    <3> QED BY DEF Idle
  <2> HIDE DEF n, todo, drives
  <2> QED BY <2>1, <2>2 DEF AskedInv, OfTree, Building
<1>2. ASSUME NEW p \in Paths, FeedOpens(r, p) PROVE AskedInv(r)'
  <2> DEFINE n == [Idle EXCEPT !.feed = TRUE, !.own = session, !.path = p]
             w == [n EXCEPT !.pc = "window"]
             t == trees[KeyOf(session)]
  <2>1. n \in Reader /\ n.got = {} /\ n.own = session
    BY <1>0 DEF Reader, Idle, ServingTypeOK
  <2>2. KeyOf(session) \in TreeKeys /\ KeyOf(session)[1] = session.cust
    BY DEF ServingTypeOK, KeyOf, TreeKeys, Account
  <2>3. t \in Tree /\ (t.fresh => Names(t, session.cust))
    BY <2>2 DEF TreesInv, ServingTypeOK
  <2>4. \/ t.fresh /\ LookUp(r, n, t)
        \/ Step(r, w)
    BY <1>2 DEF FeedOpens
  <2>5. w.pc = "window" /\ w.got = {}
    <3> HIDE DEF n
    <3> QED BY <2>1 DEF Reader
  <2>6. CASE Step(r, w)
    <3>1. reader'[r] = w
      BY <1>a, <2>6
    <3> HIDE DEF w
    <3> QED BY <2>5, <3>1 DEF AskedInv, OfTree, Opening
  <2>7. CASE t.fresh /\ LookUp(r, n, t)
    <3> HIDE DEF n, t
    <3> QED BY <1>0, <2>1, <2>3, <2>7, LookUpAsked
  <2> QED BY <2>4, <2>6, <2>7
<1>3. ASSUME BuildWindow(r) PROVE AskedInv(r)'
  <2>1. s.pc = "window" /\ \E n : reader'[r] = [s EXCEPT !.pc = "rows", !.anchor = n]
    BY <1>3, <1>a DEF BuildWindow
  <2>2. reader'[r].pc = "rows" /\ reader'[r].got = {}
    BY <1>0, <2>1 DEF Reader, AskedInv, Building
  <2> QED BY <2>2 DEF AskedInv, OfTree, Opening
<1>4. ASSUME BuildRows(r) PROVE AskedInv(r)'
  <2> DEFINE k == s.own.cust
             listed == Listed(k, s.own.days, s.anchor)
             ids == [p \in Paths |->
                           IF \E i \in listed : table[i].path = p
                           THEN CHOOSE i \in listed : table[i].path = p ELSE 0]
             tree == [ids |-> ids, lost |-> {}, fresh |-> TRUE]
             n == [s EXCEPT !.pc = "store", !.anchor = 0, !.tree = tree]
  <2>1. \A i \in listed : i \in Rows /\ table[i].cust = k
    BY DEF Listed, RowsOf
  <2>2. \A p \in Paths : ids[p] # 0 => ids[p] \in listed /\ table[ids[p]].path = p
    OBVIOUS
  <2>3. Names(tree, k)
    <3> HIDE DEF ids, listed, k
    <3> QED BY <2>1, <2>2 DEF Names
  <2>4. s.pc = "rows" /\ reader'[r] = n
    BY <1>4, <1>a DEF BuildRows
  <2>5. n.pc = "store" /\ n.tree = tree /\ n.own = s.own /\ n.got = {} /\ tree.fresh
    <3>1. s.got = {}
      BY <2>4 DEF AskedInv, Building
    <3>2. tree.fresh
      BY DEF tree
    <3> HIDE DEF tree
    <3> QED BY <1>0, <3>1, <3>2 DEF Reader
  <2> HIDE DEF n, tree
  <2> QED BY <1>0, <2>3, <2>4, <2>5 DEF AskedInv, Names, Rows, Opening
<1>5. CASE StoreTree(r)
  <2>1. s.pc = "store" /\ LookUp(r, s, s.tree) /\ table' = table
        /\ trees' = [trees EXCEPT ![KeyOf(s.own)] = s.tree]
    BY <1>5 DEF StoreTree
  <2>2. s.tree \in Tree /\ s.got = {} /\ Names(s.tree, s.own.cust) /\ s.tree.fresh
    BY <1>0, <2>1 DEF Reader, AskedInv, OfTree
  <2>3. AskedInv(r)'
    BY <1>0, <2>1, <2>2, LookUpAsked
  <2>4. KeyOf(s.own) \in TreeKeys /\ KeyOf(s.own)[1] = s.own.cust
    BY <1>0 DEF KeyOf, TreeKeys, Account, Reader
  <2>5. TreesInv'
    <3> SUFFICES ASSUME NEW k \in TreeKeys, trees'[k].fresh PROVE Names(trees[k], k[1])'
      BY DEF TreesInv
    <3>1. CASE k = KeyOf(s.own)
      <4>1. trees'[k] = s.tree
        BY <2>1, <3>1 DEF ServingTypeOK
      <4> QED BY <2>1, <2>2, <2>4, <3>1, <4>1 DEF Names, Rows
    <3>2. CASE k # KeyOf(s.own)
      <4>1. trees'[k] = trees[k]
        BY <2>1, <3>2 DEF ServingTypeOK
      <4> QED BY <2>1, <4>1 DEF TreesInv, Names, Rows
    <3> QED BY <3>1, <3>2
  <2> QED BY <2>3, <2>5
<1>6. ASSUME FeedAccount(r) PROVE AskedInv(r)'
  <2> DEFINE days == Least(acct.days, s.own.days)
             n == [s EXCEPT !.pc = "limit", !.days = days]
  <2>1. days <= s.own.days
    BY <1>0, ServingAssumption DEF Least, ServingTypeOK, Account, Reader
  <2>2. s.pc = "account" /\ (reader'[r] = Idle \/ reader'[r] = n)
    BY <1>6, <1>a DEF FeedAccount
  <2>3. n.pc = "limit" /\ n.days = days /\ n.own = s.own /\ n.tree = s.tree
        /\ n.id = s.id /\ n.path = s.path /\ n.got = s.got
    <3> HIDE DEF days
    <3> QED BY <1>0 DEF Reader
  <2>4. CASE reader'[r] = n
    <3> HIDE DEF n, days
    <3> QED BY <1>0, <2>1, <2>2, <2>3, <2>4 DEF AskedInv, OfTree, Building, Opening, Names, Rows
  <2> QED BY <2>2, <2>4, IdleAsked
<1>7. ASSUME FeedLimit(r) PROVE AskedInv(r)'
  <2>1. PICK m : s.pc = "limit" /\ reader'[r] = [s EXCEPT !.pc = "row", !.anchor = m]
    BY <1>7, <1>a DEF FeedLimit
  <2> DEFINE n == [s EXCEPT !.pc = "row", !.anchor = m]
  <2>2. n.pc = "row" /\ n.days = s.days /\ n.own = s.own /\ n.tree = s.tree
        /\ n.id = s.id /\ n.path = s.path /\ n.got = s.got /\ reader'[r] = n
    BY <1>0, <2>1 DEF Reader
  <2>3. /\ Names(s.tree, s.own.cust) /\ s.got = {} /\ s.days <= s.own.days
        /\ s.id = s.tree.ids[s.path] /\ s.id # 0
    BY <1>0, <2>1 DEF AskedInv, OfTree
  <2> HIDE DEF n
  <2>4. Names(reader[r].tree, reader[r].own.cust)'
    BY <1>0, <2>2, <2>3 DEF Names, Rows
  <2> QED BY <2>2, <2>3, <2>4 DEF AskedInv, Building, Opening
<1>8. ASSUME FeedRow(r) PROVE AskedInv(r)'
  <2> DEFINE t == TakenRow(s.id)
             n == [s EXCEPT !.pc = "online", !.todo = {t}, !.drives = {t.place}]
  <2>1. s.pc = "row" /\
        \/ reader'[r] = Idle
        \/ s.id \in Listed(s.own.cust, s.days, s.anchor) /\ reader'[r] = n
    BY <1>8, <1>a DEF FeedRow
  <2>2. CASE s.id \in Listed(s.own.cust, s.days, s.anchor) /\ reader'[r] = n
    <3>1. s.id \in Rows /\ t.cust = s.own.cust /\ t.path = table[s.id].path
          /\ InWindow(t.path, s.days, s.anchor)
      BY <2>2 DEF Listed, RowsOf, TakenRow
    <3>2. t.path = s.path \/ s.id \in s.tree.lost
      <4>1. Names(s.tree, s.own.cust) /\ s.id = s.tree.ids[s.path] /\ s.id # 0
        BY <2>1 DEF AskedInv, OfTree
      <4>2. s.path \in Paths
        BY <1>0 DEF Reader
      <4> QED BY <3>1, <4>1, <4>2 DEF Names
    <3>3. n.todo = {t} /\ n.pc = "online" /\ n.got = s.got /\ n.own = s.own
          /\ n.days = s.days /\ n.anchor = s.anchor /\ n.path = s.path
          /\ n.id = s.id /\ n.tree = s.tree
      <4> HIDE DEF t
      <4> QED BY <1>0 DEF Reader
    <3>4. s.got = {} /\ s.days <= s.own.days
      BY <2>1 DEF AskedInv, OfTree
    <3>5. \A x \in reader'[r].todo : Fits(r, x)'
      <4> HIDE DEF t, n
      <4> QED BY <2>2, <3>1, <3>2, <3>3 DEF Fits, InWindow
    <3>6. reader'[r].days <= reader'[r].own.days /\ reader'[r].got = {}
          /\ reader'[r].pc = "online"
      <4> HIDE DEF t, n
      <4> QED BY <2>2, <3>3, <3>4
    <3> QED BY <3>5, <3>6 DEF AskedInv, OfTree, Building
  <2> QED BY <2>1, <2>2, IdleAsked
<1>9. ASSUME AskOnline(r) PROVE AskedInv(r)'
  <2>1. PICK d \in s.drives :
          reader'[r] \in {Idle, [s EXCEPT !.pc = "serial", !.now = {d}, !.asked = @ \cup {d.root}]}
    BY <1>9, <1>a DEF AskOnline
  <2> DEFINE n == [s EXCEPT !.pc = "serial", !.now = {d}, !.asked = @ \cup {d.root}]
  <2>2. s.pc = "online"
    BY <1>9 DEF AskOnline
  <2>3. n.todo = s.todo /\ n.pc = "serial" /\ n.got = s.got /\ n.own = s.own
        /\ n.days = s.days /\ n.anchor = s.anchor /\ n.path = s.path
        /\ n.id = s.id /\ n.tree = s.tree /\ n.feed = s.feed
    BY <1>0 DEF Reader
  <2>4. CASE reader'[r] = n
    <3> HIDE DEF n
    <3> QED BY <2>2, <2>3, <2>4 DEF AskedInv, OfTree, Building, Opening, Fits, InWindow
  <2> QED BY <2>1, <2>4, IdleAsked
<1>10. ASSUME AskSerial(r) PROVE AskedInv(r)'
  <2>1. PICK d \in s.now :
          reader'[r] \in {Idle, [s EXCEPT !.pc = IF s.drives \ {d} = {} THEN "open" ELSE "online",
                                  !.drives = s.drives \ {d}, !.now = {}]}
    BY <1>10, <1>a DEF AskSerial
  <2> DEFINE n == [s EXCEPT !.pc = IF s.drives \ {d} = {} THEN "open" ELSE "online",
                            !.drives = s.drives \ {d}, !.now = {}]
  <2>2. s.pc = "serial"
    BY <1>10 DEF AskSerial
  <2>3. n.todo = s.todo /\ n.pc \in {"open", "online"} /\ n.got = s.got /\ n.own = s.own
        /\ n.days = s.days /\ n.anchor = s.anchor /\ n.path = s.path
        /\ n.id = s.id /\ n.tree = s.tree /\ n.feed = s.feed
    BY <1>0 DEF Reader
  <2>4. CASE reader'[r] = n
    <3> HIDE DEF n
    <3> QED BY <2>2, <2>3, <2>4 DEF AskedInv, OfTree, Building, Opening, Fits, InWindow
  <2> QED BY <2>1, <2>4, IdleAsked
<1>11. ASSUME OpenFile(r) PROVE AskedInv(r)'
  <2>1. PICK t \in s.todo :
          LET rest == [s EXCEPT !.pc = AfterFiles(s, s.todo \ {t}), !.todo = s.todo \ {t}]
          IN \/ /\ Holds(t)
                /\ Step(r, [rest EXCEPT !.got = @ \cup {With(t, mount[t.place.root])}])
             \/ ~Holds(t) /\ ~s.feed /\ Step(r, rest)
             \/ ~Holds(t) /\ Step(r, Idle)
    BY <1>11 DEF OpenFile
  <2> DEFINE g == With(t, mount[t.place.root])
             rest == [s EXCEPT !.pc = AfterFiles(s, s.todo \ {t}), !.todo = s.todo \ {t}]
             more == [rest EXCEPT !.got = @ \cup {g}]
  <2>2. s.pc = "open"
    BY <1>11 DEF OpenFile
  <2>3. /\ rest.todo = s.todo \ {t} /\ rest.got = s.got /\ rest.own = s.own
        /\ rest.days = s.days /\ rest.anchor = s.anchor /\ rest.path = s.path
        /\ rest.id = s.id /\ rest.tree = s.tree /\ rest.feed = s.feed
        /\ rest.pc \in {"open", "audit", "done"} /\ rest \in Reader
    BY <1>0 DEF Reader, AfterFiles
  <2>4. /\ more.todo = s.todo \ {t} /\ more.got = s.got \cup {g} /\ more.own = s.own
        /\ more.days = s.days /\ more.anchor = s.anchor /\ more.path = s.path
        /\ more.id = s.id /\ more.tree = s.tree /\ more.feed = s.feed
        /\ more.pc \in {"open", "audit", "done"}
    <3> HIDE DEF rest, g
    <3> QED BY <2>3 DEF Reader
  <2>5. g.cust = t.cust /\ g.path = t.path
    BY DEF With
  <2>6. reader'[r] = more \/ reader'[r] = rest \/ reader'[r] = Idle
    BY <1>a, <2>1
  <2>7. s.feed => Fits(r, g) /\ s.days <= s.own.days
                  /\ (\A x \in s.todo : Fits(r, x)) /\ (\A x \in s.got : Fits(r, x))
    <3> HIDE DEF g
    <3> QED BY <2>1, <2>2, <2>5 DEF AskedInv, Opening, Fits
  <2>8. CASE reader'[r] = more
    <3> HIDE DEF more, g
    <3> QED BY <2>4, <2>7, <2>8 DEF AskedInv, OfTree, Building, Fits, InWindow
  <2>9. CASE reader'[r] = rest
    <3> HIDE DEF rest, g
    <3> QED BY <2>3, <2>7, <2>9 DEF AskedInv, OfTree, Building, Fits, InWindow
  <2> QED BY <2>6, <2>8, <2>9, IdleAsked
<1>12. ASSUME FeedAudit(r) PROVE AskedInv(r)'
  <2> DEFINE n == [s EXCEPT !.pc = "done"]
  <2>1. s.pc = "audit" /\ (reader'[r] = Idle \/ reader'[r] = n)
    BY <1>12, <1>a DEF FeedAudit
  <2>2. n.todo = s.todo /\ n.pc = "done" /\ n.got = s.got /\ n.own = s.own
        /\ n.days = s.days /\ n.anchor = s.anchor /\ n.path = s.path
        /\ n.id = s.id /\ n.tree = s.tree /\ n.feed = s.feed
    BY <1>0 DEF Reader
  <2>3. CASE reader'[r] = n
    <3> HIDE DEF n
    <3> QED BY <2>1, <2>2, <2>3 DEF AskedInv, OfTree, Building, Opening, Fits, InWindow
  <2> QED BY <2>1, <2>3, IdleAsked
<1>13. ASSUME Close(r) PROVE AskedInv(r)'
  BY <1>13, <1>a, IdleAsked DEF Close
<1>14. trees' = trees \/ StoreTree(r)
  BY DEF Read, WebSelect, FeedOpens, BuildWindow, BuildRows, FeedAccount,
     FeedLimit, FeedRow, AskOnline, AskSerial, OpenFile, FeedAudit, Close
<1> QED BY <1>b, <1>1, <1>2, <1>3, <1>4, <1>5, <1>6, <1>7, <1>8, <1>9, <1>10,
           <1>11, <1>12, <1>13, <1>14 DEF Read

(* A row that is forgotten is lost to every tree in use.                       *)
LEMMA ForgetsNames ==
  ASSUME ServingTypeOK, NEW i \in RowIds, IndexForgets(i),
         NEW t \in Tree, NEW n \in Tree, NEW k, Names(t, k),
         n.ids = t.ids, n.lost = t.lost \cup {i}
  PROVE  \A p \in Paths : n.ids[p] # 0 =>
           \/ n.ids[p] \in n.lost
           \/ /\ n.ids[p] \in Rows'
              /\ table'[n.ids[p]].cust = k /\ table'[n.ids[p]].path = p
BY DEF Names, Rows, IndexForgets, ServingTypeOK

LEMMA ForgetsAsked ==
  ASSUME ServingTypeOK, TreesInv, NEW i \in RowIds, IndexForgets(i)
  PROVE  TreesInv' /\ \A r \in Readers : AskedInv(r) => AskedInv(r)'
<1>1. TreesInv'
  <2> SUFFICES ASSUME NEW k \in TreeKeys, trees'[k].fresh PROVE Names(trees[k], k[1])'
    BY DEF TreesInv
  <2> DEFINE n == [trees[k] EXCEPT !.lost = @ \cup {i}]
  <2>1. trees[k] \in Tree
    BY DEF ServingTypeOK
  <2>2. n \in Tree /\ n.ids = trees[k].ids /\ n.lost = trees[k].lost \cup {i}
        /\ n.fresh = trees[k].fresh
    BY <2>1 DEF Tree
  <2>3. trees[k].fresh /\ trees'[k] = n
    BY <2>2 DEF IndexForgets
  <2> HIDE DEF n
  <2>4. Names(trees[k], k[1])
    BY <2>3 DEF TreesInv
  <2> QED BY <2>1, <2>2, <2>3, <2>4, ForgetsNames DEF Names
<1>2. ASSUME NEW r \in Readers, AskedInv(r) PROVE AskedInv(r)'
  <2> DEFINE s == reader[r]
             tree == [s.tree EXCEPT !.lost = @ \cup {i}]
             n == [s EXCEPT !.tree.lost = @ \cup {i}]
  <2>1. s \in Reader /\ s.tree \in Tree
    BY DEF ServingTypeOK, Reader
  <2>2. tree \in Tree /\ tree.ids = s.tree.ids /\ tree.lost = s.tree.lost \cup {i}
        /\ tree.fresh = s.tree.fresh
    BY <2>1 DEF Tree
  <2>3. CASE s.pc \in OfTree
    <3>1. reader'[r] = n
      BY <2>3 DEF IndexForgets
    <3>2. n.tree = tree /\ n.pc = s.pc /\ n.own = s.own /\ n.id = s.id
          /\ n.path = s.path /\ n.days = s.days /\ n.got = s.got
      BY <2>1 DEF Reader
    <3>3. Names(s.tree, s.own.cust)
      BY <1>2, <2>3 DEF AskedInv
    <3>4. \A p \in Paths : tree.ids[p] # 0 =>
           \/ tree.ids[p] \in tree.lost
           \/ /\ tree.ids[p] \in Rows'
              /\ table'[tree.ids[p]].cust = s.own.cust /\ table'[tree.ids[p]].path = p
      <4> HIDE DEF tree
      <4> QED BY <2>1, <2>2, <3>3, ForgetsNames
    <3> HIDE DEF n, tree
    <3>5. Names(reader[r].tree, reader[r].own.cust)'
      BY <3>1, <3>2, <3>4 DEF Names
    <3> QED BY <1>2, <2>2, <2>3, <3>1, <3>2, <3>5 DEF AskedInv, OfTree, Opening
  <2>4. CASE s.pc \notin OfTree
    <3>1. reader'[r] = s
      BY <2>4 DEF IndexForgets
    <3> QED BY <1>2, <2>4, <3>1 DEF AskedInv, OfTree, Fits, InWindow
  <2> QED BY <2>3, <2>4
<1> QED BY <1>1, <1>2

(* A row that is learnt takes an id that no row has.                            *)
LEMMA LearnsAsked ==
  ASSUME ServingTypeOK, TreesInv, NEW k \in Customers, NEW p \in Paths,
         IndexLearns(k, p)
  PROVE  TreesInv' /\ \A r \in Readers : AskedInv(r) => AskedInv(r)'
<1>1. PICK i \in RowIds :
        (\A j \in Rows : j < i) /\ table' = [table EXCEPT ![i] = [cust |-> k, path |-> p]]
  BY DEF IndexLearns
<1>2. i \notin Rows
  BY <1>1 DEF RowIds
<1>3. \A j \in Rows : j \in Rows' /\ table'[j] = table[j]
  BY <1>1, <1>2 DEF Rows, ServingTypeOK
<1>4. trees' = trees /\ reader' = reader
  BY DEF IndexLearns
<1>5. ASSUME NEW t \in TreeKeys, trees'[t].fresh PROVE Names(trees[t], t[1])'
  <2>1. Names(trees[t], t[1])
    BY <1>4, <1>5 DEF TreesInv
  <2> QED BY <1>3, <1>4, <2>1 DEF Names
<1>6. TreesInv'
  BY <1>5 DEF TreesInv
<1>7. ASSUME NEW r \in Readers, AskedInv(r) PROVE AskedInv(r)'
  <2>1. ASSUME reader[r].pc \in OfTree PROVE Names(reader[r].tree, reader[r].own.cust)'
    <3>1. Names(reader[r].tree, reader[r].own.cust)
      BY <1>7, <2>1 DEF AskedInv
    <3> QED BY <1>3, <1>4, <3>1 DEF Names
  <2> QED BY <1>4, <1>7, <2>1 DEF AskedInv, Fits, InWindow
<1> QED BY <1>6, <1>7

LEMMA NextAsked ==
  ASSUME ServingTypeOK, TreesInv, \A r \in Readers : AskedInv(r),
         [ServingNext]_servingVars
  PROVE  TreesInv' /\ \A r \in Readers : AskedInv(r)'
<1>1. ASSUME NEW u \in Readers, Read(u)
      PROVE  TreesInv' /\ \A r \in Readers : AskedInv(r)'
  <2>1. AskedInv(u)' /\ TreesInv'
    BY <1>1, ReadAsked
  <2>2. ASSUME NEW r \in Readers, r # u PROVE AskedInv(r)'
    BY <1>1, <2>2, OnlyTheReaderMoves, SameAsked
  <2> QED BY <2>1, <2>2
<1>2. ASSUME table' = table, reader' = reader,
             \/ trees' = trees
             \/ \E k \in TreeKeys : trees' = [trees EXCEPT ![k] = NoTree]
      PROVE  TreesInv' /\ \A r \in Readers : AskedInv(r)'
  <2>1. \A r \in Readers : AskedInv(r)'
    BY <1>2, SameAsked
  <2>2. \A k \in TreeKeys : trees'[k].fresh => trees'[k] = trees[k]
    BY <1>2 DEF NoTree, ServingTypeOK
  <2>3. TreesInv'
    BY <1>2, <2>2 DEF TreesInv, Names, Rows
  <2> QED BY <2>1, <2>3
<1>3. CASE \/ UNCHANGED servingVars
           \/ \E k \in TreeKeys : TreeExpires(k)
           \/ \E d \in Disks, p \in Paths : ChangeFiles(d, p)
           \/ \E k \in Customers, root \in Roots : PlaceCustomer(k, root)
           \/ \E a \in Forms : ChangeAccount(a)
           \/ Login
  <2>1. /\ table' = table /\ reader' = reader
        /\ \/ trees' = trees
           \/ \E k \in TreeKeys : trees' = [trees EXCEPT ![k] = NoTree]
    BY <1>3 DEF servingVars, world, TreeExpires, ChangeFiles, PlaceCustomer,
       ChangeAccount, Login
  <2> QED BY <1>2, <2>1
<1>4. ASSUME NEW root \in Roots, NEW d \in DiskOrNone, Swap(root, d)
      PROVE  TreesInv' /\ \A r \in Readers : AskedInv(r)'
  <2>1. table' = table /\ trees' = trees
    BY <1>4 DEF Swap
  <2>2. TreesInv'
    BY <2>1 DEF TreesInv, Names, Rows
  <2>3. ASSUME NEW r \in Readers PROVE AskedInv(r)'
    <3> DEFINE s == reader[r]
               n == [s EXCEPT !.swapped = @ \cup {root}]
    <3>1. s \in Reader /\ (reader'[r] = s \/ reader'[r] = n)
      BY <1>4 DEF Swap, ServingTypeOK
    <3>2. n.todo = s.todo /\ n.pc = s.pc /\ n.got = s.got /\ n.own = s.own
          /\ n.days = s.days /\ n.anchor = s.anchor /\ n.path = s.path
          /\ n.id = s.id /\ n.tree = s.tree /\ n.feed = s.feed
      BY <3>1 DEF Reader
    <3>3. CASE reader'[r] = n
      <4> HIDE DEF n
      <4> QED BY <2>1, <3>2, <3>3 DEF AskedInv, Fits, InWindow, Names, Rows
    <3> QED BY <2>1, <3>1, <3>3, SameAsked
  <2> QED BY <2>2, <2>3
<1> QED BY <1>1, <1>3, <1>4, ForgetsAsked, LearnsAsked DEF ServingNext

(* A file the feed hands out is of the session's customer, within the window of   *)
(* both the account and the session's copy of it, and under the path that was   *)
(* asked for, unless that path's row left the index after the cached tree was    *)
(* read; for any number of operations, trees and rows (sftp.py:255-295).        *)
THEOREM OpensWhatWasAskedHolds == ServingSpec => []OpensWhatWasAsked
<1> DEFINE Inv == TreesInv /\ \A r \in Readers : AskedInv(r)
<1>1. ServingInit => Inv
  BY DEF ServingInit, TreesInv, NoTree, AskedInv, Idle, OfTree, Opening, Building
<1>2. ServingTypeOK /\ Inv /\ [ServingNext]_servingVars => Inv'
  BY NextAsked
<1>3. Inv => OpensWhatWasAsked
  BY DEF AskedInv, OpensWhatWasAsked, Opening, Fits
<1> QED BY <1>1, <1>2, <1>3, ServingTypeCorrect, PTL DEF ServingSpec

-----------------------------------------------------------------------------
(* The audit log                                                             *)

AuditedInv(r) ==
  reader[r].feed /\ reader[r].pc = "done" =>
    \A g \in reader[r].got : [cust |-> g.cust, path |-> g.path] \in audit

LEMMA AuditIsKept ==
  ASSUME ServingTypeOK, [ServingNext]_servingVars
  PROVE  audit \subseteq audit'
BY DEF ServingNext, servingVars, world, Read, WebSelect, FeedOpens, BuildWindow,
       BuildRows, StoreTree, FeedAccount, FeedLimit, FeedRow, AskOnline, AskSerial,
       OpenFile, FeedAudit, Close, TreeExpires, IndexLearns, IndexForgets, Swap,
       ChangeFiles, PlaceCustomer, ChangeAccount, Login

(* Only the audit itself ends an SFTP operation with a file.                    *)
LEMMA EndsAudited ==
  ASSUME ServingTypeOK, NEW r \in Readers, Read(r), reader'[r].feed,
         reader'[r].pc = "done"
  PROVE  AuditedInv(r)'
<1> DEFINE s == reader[r]
<1>0. s \in Reader /\ Idle \in Reader
  BY IdleType DEF ServingTypeOK
<1>a. \A n : Step(r, n) => reader'[r] = n
  BY DEF Step, ServingTypeOK
<1>1. CASE FeedAudit(r)
  <2> DEFINE n == [s EXCEPT !.pc = "done"]
  <2>1. reader'[r] = n
        /\ audit' = audit \cup {[cust |-> g.cust, path |-> g.path] : g \in s.got}
    BY <1>1, <1>a DEF FeedAudit, Idle
  <2>2. n.got = s.got
    BY <1>0 DEF Reader
  <2> HIDE DEF n
  <2> QED BY <2>1, <2>2 DEF AuditedInv
<1>2. CASE OpenFile(r)
  <2>1. PICK t \in s.todo :
          LET rest == [s EXCEPT !.pc = AfterFiles(s, s.todo \ {t}), !.todo = s.todo \ {t}]
          IN \/ /\ Holds(t)
                /\ Step(r, [rest EXCEPT !.got = @ \cup {With(t, mount[t.place.root])}])
             \/ ~Holds(t) /\ ~s.feed /\ Step(r, rest)
             \/ ~Holds(t) /\ Step(r, Idle)
    BY <1>2 DEF OpenFile
  <2> DEFINE g == With(t, mount[t.place.root])
             rest == [s EXCEPT !.pc = AfterFiles(s, s.todo \ {t}), !.todo = s.todo \ {t}]
             more == [rest EXCEPT !.got = @ \cup {g}]
  <2>2. rest.feed = s.feed /\ rest.pc = AfterFiles(s, s.todo \ {t}) /\ rest \in Reader
    BY <1>0 DEF Reader, AfterFiles
  <2>3. more.feed = s.feed /\ more.pc = AfterFiles(s, s.todo \ {t})
    <3> HIDE DEF rest, g
    <3> QED BY <2>2 DEF Reader
  <2>4. reader'[r] = more \/ reader'[r] = rest \/ reader'[r] = Idle
    BY <1>a, <2>1
  <2> HIDE DEF more, rest
  <2> QED BY <2>2, <2>3, <2>4 DEF AfterFiles, Idle
<1>3. ASSUME reader'[r].pc # "done" PROVE AuditedInv(r)'
  BY <1>3 DEF AuditedInv
<1>4. ASSUME NEW S \in SUBSET Rows, WebSelect(r, S) PROVE AuditedInv(r)'
  <2>1. reader'[r].pc = "online"
    BY <1>0, <1>4, <1>a DEF WebSelect, Reader
  <2> QED BY <1>3, <2>1
<1>5. ASSUME NEW p \in Paths, FeedOpens(r, p) PROVE AuditedInv(r)'
  <2> DEFINE b == [Idle EXCEPT !.feed = TRUE, !.own = session, !.path = p]
             t == trees[KeyOf(session)]
  <2>1. b \in Reader
    BY <1>0 DEF Reader, ServingTypeOK
  <2>2. LookUp(r, b, t) \/ Step(r, [b EXCEPT !.pc = "window"])
    BY <1>5 DEF FeedOpens
  <2> DEFINE w == [b EXCEPT !.pc = "window"]
             m == [b EXCEPT !.pc = "account", !.tree = t, !.id = t.ids[b.path]]
  <2>3. Step(r, Idle) \/ Step(r, m) \/ Step(r, w)
    BY <2>2 DEF LookUp
  <2>4. w.pc = "window" /\ m.pc = "account" /\ Idle.pc = "idle"
    <3> HIDE DEF b, t
    <3> QED BY <2>1 DEF Reader, Idle
  <2>5. reader'[r] = Idle \/ reader'[r] = m \/ reader'[r] = w
    <3> HIDE DEF w, m
    <3> QED BY <1>a, <2>3
  <2>6. reader'[r].pc \in {"idle", "window", "account"}
    <3> HIDE DEF w, m
    <3> QED BY <2>4, <2>5
  <2> QED BY <1>3, <2>6
<1>6. CASE BuildWindow(r) \/ BuildRows(r) \/ AskOnline(r) \/ AskSerial(r)
  <2>1. BuildWindow(r) => reader'[r].pc = "rows"
    BY <1>0, <1>a DEF BuildWindow, Reader
  <2>2. BuildRows(r) => reader'[r].pc = "store"
    BY <1>0, <1>a DEF BuildRows, Reader
  <2>3. AskOnline(r) => reader'[r].pc \in {"idle", "serial"}
    BY <1>0, <1>a DEF AskOnline, Reader, Idle
  <2>4. AskSerial(r) => reader'[r].pc \in {"idle", "open", "online"}
    BY ZenonT(30), <1>0, <1>a DEF AskSerial, Reader, Idle
  <2> QED BY <1>3, <1>6, <2>1, <2>2, <2>3, <2>4
<1>7. CASE FeedAccount(r) \/ FeedLimit(r) \/ FeedRow(r)
  <2>1. FeedAccount(r) => reader'[r].pc \in {"idle", "limit"}
    BY <1>0, <1>a DEF FeedAccount, Reader, Idle
  <2>2. FeedLimit(r) => reader'[r].pc = "row"
    BY <1>0, <1>a DEF FeedLimit, Reader
  <2>3. FeedRow(r) => reader'[r].pc \in {"idle", "online"}
    BY <1>0, <1>a DEF FeedRow, Reader, Idle
  <2> QED BY <1>3, <1>7, <2>1, <2>2, <2>3
<1>8. CASE StoreTree(r) \/ Close(r)
  <2>1. StoreTree(r) => reader'[r].pc \in {"idle", "account"}
    BY <1>0, <1>a DEF StoreTree, LookUp, Reader, Idle
  <2>2. Close(r) => reader'[r].pc = "idle"
    BY <1>a DEF Close, Idle
  <2> QED BY <1>3, <1>8, <2>1, <2>2
<1> QED BY <1>1, <1>2, <1>4, <1>5, <1>6, <1>7, <1>8 DEF Read

(* No SFTP session holds a file that the audit log does not name by its         *)
(* customer and its real path (sftp.py:291-297).                               *)
THEOREM HandlesAreAuditedHolds == ServingSpec => []HandlesAreAudited
<1>1. ServingInit => HandlesAreAudited
  BY DEF ServingInit, HandlesAreAudited, Idle
<1>2. ServingTypeOK /\ HandlesAreAudited /\ [ServingNext]_servingVars => HandlesAreAudited'
  <2> SUFFICES ASSUME ServingTypeOK, HandlesAreAudited, [ServingNext]_servingVars,
                      NEW r \in Readers
               PROVE  AuditedInv(r)'
    BY DEF HandlesAreAudited, AuditedInv
  <2>0. AuditedInv(r) /\ audit \subseteq audit'
    BY AuditIsKept DEF HandlesAreAudited, AuditedInv
  <2>1. CASE reader'[r].feed = reader[r].feed /\ reader'[r].pc = reader[r].pc
             /\ reader'[r].got = reader[r].got
    BY <2>0, <2>1 DEF AuditedInv
  <2>2. ASSUME NEW u \in Readers, Read(u) PROVE AuditedInv(r)'
    <3>1. CASE u = r
      BY <2>2, <3>1, EndsAudited DEF AuditedInv
    <3>2. CASE u # r
      BY <2>1, <2>2, <3>2, OnlyTheReaderMoves
    <3> QED BY <3>1, <3>2
  <2>3. ASSUME reader' = reader PROVE AuditedInv(r)'
    BY <2>1, <2>3
  <2>4. ASSUME NEW root \in Roots, NEW d \in DiskOrNone, Swap(root, d)
        PROVE  AuditedInv(r)'
    <3>1. reader[r] \in Reader
          /\ reader'[r] \in {reader[r], [reader[r] EXCEPT !.swapped = @ \cup {root}]}
      BY <2>4 DEF Swap, ServingTypeOK
    <3> QED BY <2>1, <3>1 DEF Reader
  <2>5. ASSUME NEW i \in RowIds, IndexForgets(i) PROVE AuditedInv(r)'
    <3>1. reader[r] \in Reader
          /\ reader'[r] \in {reader[r], [reader[r] EXCEPT !.tree.lost = @ \cup {i}]}
      BY <2>5 DEF IndexForgets, ServingTypeOK
    <3> QED BY <2>1, <3>1 DEF Reader
  <2>6. CASE \/ UNCHANGED servingVars
             \/ \E k \in TreeKeys : TreeExpires(k)
             \/ \E k \in Customers, p \in Paths : IndexLearns(k, p)
             \/ \E d \in Disks, p \in Paths : ChangeFiles(d, p)
             \/ \E k \in Customers, root \in Roots : PlaceCustomer(k, root)
             \/ \E a \in Forms : ChangeAccount(a)
             \/ Login
    BY <2>3, <2>6 DEF servingVars, TreeExpires, IndexLearns, ChangeFiles,
       PlaceCustomer, ChangeAccount, Login
  <2> QED BY <2>2, <2>4, <2>5, <2>6 DEF ServingNext
<1> QED BY <1>1, <1>2, ServingTypeCorrect, PTL DEF ServingSpec
=============================================================================
