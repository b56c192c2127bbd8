-------------------------- MODULE PbxSourcesProofs --------------------------
(* Proofs about PbxSources: its types, what the page shows and trusts, and    *)
(* that no night is pulled twice.                                             *)
EXTENDS PbxSources, TLAPS

-----------------------------------------------------------------------------
(* Types                                                                     *)

(* Where there is a row, it has the fields of one.                            *)
LEMMA LiveRow ==
  ASSUME TypeOK, NEW i \in Ids, src[i].live
  PROVE  src[i] \in Row
  BY DEF TypeOK, NoRow

(* The job that stands for none is one.                                       *)
LEMMA SomeJobIsJob == SomeJob \in Job
<1>1. PICK h \in Hosts : TRUE
  BY PbxSourcesAssumption
<1>2. 1 \in Ids
  BY PbxSourcesAssumption DEF Ids
<1>3. [id |-> 1, host |-> h] \in Job
  BY <1>2 DEF Job
<1> QED
  BY <1>3 DEF SomeJob

(* The tick at rest is of its type.                                           *)
LEMMA IdleType == Idle \in Tick
  BY SomeJobIsJob, PbxSourcesAssumption DEF Idle, Tick, HostOrNone

(* A new row is of its type.                                                  *)
LEMMA NewRowType ==
  ASSUME NEW h \in Hosts
  PROVE  NewRow(h) \in Row
  BY DEF NewRow, Row, HostOrNone

(* What the page writes is of its type.                                       *)
LEMMA PageType == TypeOK /\ PageStep => TypeOK'
<1> SUFFICES ASSUME TypeOK, PageStep PROVE TypeOK'
  OBVIOUS
<1> USE DEF settings, world, history
<1>1. ASSUME NEW i \in Ids, NEW h \in Hosts, CreateSource(i, h) PROVE TypeOK'
  <2>1. src' \in [Ids -> {NoRow} \cup Row]
    BY <1>1, NewRowType DEF CreateSource, TypeOK
  <2> QED
    BY <1>1, <2>1 DEF CreateSource, TypeOK, HostOrNone
<1>2. ASSUME NEW i \in Ids, NEW h \in Hosts, UpdateSource(i, h) PROVE TypeOK'
  <2> DEFINE moved == h # src[i].host
             row == [src[i] EXCEPT !.host = h, !.test = TRUE,
                       !.key = IF moved THEN NoHost ELSE src[i].key,
                       !.seen = IF moved THEN NoHost ELSE src[i].seen]
  <2>1. src[i] \in Row
    BY <1>2, LiveRow DEF UpdateSource
  <2>2. row \in Row
    BY <2>1 DEF Row, HostOrNone
  <2>3. src' = [src EXCEPT ![i] = row]
    BY <1>2 DEF UpdateSource
  <2> HIDE DEF row
  <2>4. src' \in [Ids -> {NoRow} \cup Row]
    BY <2>2, <2>3 DEF TypeOK
  <2> QED
    BY <1>2, <2>4 DEF UpdateSource, TypeOK
<1>3. ASSUME NEW i \in Ids, DeleteSource(i) PROVE TypeOK'
  BY <1>3 DEF DeleteSource, TypeOK
<1>4. ASSUME NEW i \in Ids, RequestTest(i) PROVE TypeOK'
  <2> DEFINE row == [src[i] EXCEPT !.test = TRUE]
  <2>1. row \in Row
    BY <1>4, LiveRow DEF RequestTest, Row
  <2>2. src' = [src EXCEPT ![i] = row]
    BY <1>4 DEF RequestTest
  <2> HIDE DEF row
  <2>3. src' \in [Ids -> {NoRow} \cup Row]
    BY <2>1, <2>2 DEF TypeOK
  <2> QED
    BY <1>4, <2>3 DEF RequestTest, TypeOK
<1>5. ASSUME NEW i \in Ids, Trust(i) PROVE TypeOK'
  <2> DEFINE row == [src[i] EXCEPT !.key = src[i].seen]
  <2>1. src[i] \in Row
    BY <1>5, LiveRow DEF Trust
  <2>2. row \in Row /\ src[i].host \in HostOrNone
    BY <2>1 DEF Row, HostOrNone
  <2>3. src' = [src EXCEPT ![i] = row]
    BY <1>5 DEF Trust
  <2> HIDE DEF row
  <2>4. src' \in [Ids -> {NoRow} \cup Row]
    BY <2>2, <2>3 DEF TypeOK
  <2>5. vouched' \in [Ids -> HostOrNone]
    BY <1>5, <2>2 DEF Trust, TypeOK
  <2> QED
    BY <1>5, <2>4, <2>5 DEF Trust, TypeOK
<1>6. ASSUME NEW w \in Wishes, RunNow(w) PROVE TypeOK'
  BY <1>6 DEF RunNow, TypeOK
<1> QED
  BY <1>1, <1>2, <1>3, <1>4, <1>5, <1>6 DEF PageStep

(* What StartTick finds: the rows are as they were, or the one that           *)
(* config.json lists is the first.                                            *)
LEMMA SeededRows ==
  ASSUME TypeOK
  PROVE  /\ Seeded(src) \in [Ids -> {NoRow} \cup Row]
         /\ \/ Seeded(src) = src
            \/ /\ Configured \in Hosts /\ 1 \in Ids
               /\ \A i \in Ids : ~ src[i].live
               /\ Seeded(src) = [src EXCEPT ![1] =
                    [NewRow(Configured) EXCEPT !.key = Configured, !.test = FALSE]]
<1>1. 1 \in Ids
  BY PbxSourcesAssumption DEF Ids
<1>2. CASE seeded \/ Configured = NoHost \/ \E i \in Ids : src[i].live
  BY <1>2 DEF Seeded, TypeOK
<1>3. CASE ~ (seeded \/ Configured = NoHost \/ \E i \in Ids : src[i].live)
  <2> DEFINE row == [NewRow(Configured) EXCEPT !.key = Configured, !.test = FALSE]
  <2>1. Configured \in Hosts
    BY <1>3, PbxSourcesAssumption
  <2>2. row \in Row
    BY <2>1 DEF NewRow, Row, HostOrNone
  <2>3. Seeded(src) = [src EXCEPT ![1] = row]
    BY <1>3 DEF Seeded
  <2> HIDE DEF row
  <2>5. Seeded(src) \in [Ids -> {NoRow} \cup Row]
    BY <1>1, <2>2, <2>3 DEF TypeOK
  <2> QED
    BY <1>1, <1>3, <2>1, <2>3, <2>5 DEF row
<1> QED
  BY <1>2, <1>3

(* The tests to be made are jobs.                                             *)
LEMMA PendingType ==
  ASSUME NEW rows \in [Ids -> {NoRow} \cup Row]
  PROVE  Pending(rows) \in SUBSET Job
<1>1. ASSUME NEW k \in Ids, rows[k].live PROVE rows[k].host \in Hosts
  <2>1. rows[k] \in Row
    BY <1>1 DEF NoRow
  <2> QED
    BY <2>1 DEF Row
<1> QED
  BY <1>1 DEF Pending, Job

(* What the tick does keeps the types.                                        *)
LEMMA TickType == TypeOK /\ TickStep => TypeOK'
<1> SUFFICES ASSUME TypeOK, TickStep PROVE TypeOK'
  OBVIOUS
<1> USE DEF settings, world, history
<1>1. ASSUME StartTick PROVE TypeOK'
  <2> DEFINE rows == Seeded(src)
             jobs == Pending(rows)
             now == IF open THEN night ELSE 0
             next == [Idle EXCEPT !.pc = IF jobs = {} THEN "wish" ELSE "test",
                                  !.jobs = jobs, !.night = now]
  <2>1. rows \in [Ids -> {NoRow} \cup Row]
    BY SeededRows
  <2>2. jobs \in SUBSET Job
    BY <2>1, PendingType
  <2>3. now \in 0..MaxNight
    BY PbxSourcesAssumption DEF TypeOK
  <2> HIDE DEF rows, jobs, now
  <2>4. next \in Tick
    BY <2>2, <2>3, IdleType DEF Tick
  <2>5. src' = rows /\ tick' = next
    BY <1>1 DEF StartTick, rows, jobs, now
  <2>6. vouched' \in [Ids -> HostOrNone] /\ crossed' \in SUBSET Ids
    BY <1>1, PbxSourcesAssumption DEF StartTick, TypeOK, HostOrNone
  <2>7. seeded' \in BOOLEAN
    BY <1>1 DEF StartTick
  <2> HIDE DEF next
  <2> QED
    BY <1>1, <2>1, <2>4, <2>5, <2>6, <2>7 DEF StartTick, TypeOK
<1>2. ASSUME NEW j \in tick.jobs, TestSource(j) PROVE TypeOK'
  <2>1. j \in Job /\ j.host \in HostOrNone /\ NoHost \in HostOrNone
    BY DEF TypeOK, Tick, Job, HostOrNone
  <2>2. PICK key \in HostOrNone :
          tick' = [tick EXCEPT !.pc = "record", !.job = j, !.seen = key]
    BY <1>2, <2>1 DEF TestSource
  <2>3. tick' \in Tick
    BY <2>1, <2>2 DEF TypeOK, Tick
  <2> QED
    BY <1>2, <2>3 DEF TestSource, TypeOK
<1>3. ASSUME RecordTest PROVE TypeOK'
  <2> DEFINE i == tick.job.id
             row == [src[i] EXCEPT !.test = FALSE, !.seen = tick.seen,
                                   !.shown = tick.job.host]
  <2>1. i \in Ids /\ tick.job.host \in HostOrNone /\ tick.seen \in HostOrNone
    BY DEF TypeOK, Tick, Job, HostOrNone
  <2>2. src' \in [Ids -> {NoRow} \cup Row] /\ crossed' \in SUBSET Ids
    <3>1. CASE src[i].live
      <4>1. src[i] \in Row
        BY <2>1, <3>1, LiveRow
      <4>2. row \in Row
        BY <2>1, <4>1 DEF Row
      <4>3. src' = [src EXCEPT ![i] = row]
        BY <1>3, <3>1 DEF RecordTest
      <4>4. crossed' \in SUBSET Ids
        BY <1>3, <2>1, <3>1 DEF RecordTest, TypeOK
      <4> HIDE DEF row
      <4> QED
        BY <2>1, <4>2, <4>3, <4>4 DEF TypeOK
    <3>2. CASE ~ src[i].live
      BY <1>3, <3>2 DEF RecordTest, TypeOK
    <3> QED
      BY <3>1, <3>2
  <2>3. tick' \in Tick
    BY <1>3, SomeJobIsJob DEF RecordTest, NextTest, TypeOK, Tick, HostOrNone
  <2> QED
    BY <1>3, <2>2, <2>3 DEF RecordTest, TypeOK
<1>4. ASSUME ReadWish PROVE TypeOK'
  <2>1. tick' \in Tick
    BY <1>4 DEF ReadWish, TypeOK, Tick
  <2> QED
    BY <1>4, <2>1 DEF ReadWish, TypeOK
<1>5. ASSUME ConsumeWish PROVE TypeOK'
  <2>1. tick' \in Tick
    BY <1>5 DEF ConsumeWish, TypeOK, Tick
  <2> QED
    BY <1>5, <2>1 DEF ConsumeWish, TypeOK
<1>6. ASSUME MarkNight PROVE TypeOK'
  <2>1. tick' \in Tick /\ tick.night \in 0..MaxNight
    BY <1>6 DEF MarkNight, TypeOK, Tick
  <2> QED
    BY <1>6, <2>1 DEF MarkNight, TypeOK
<1>7. ASSUME NoNight PROVE TypeOK'
  <2>1. tick' \in Tick
    BY <1>7, IdleType DEF NoNight, TypeOK, Tick
  <2> QED
    BY <1>7, <2>1 DEF NoNight, TypeOK
<1>8. ASSUME StartPull PROVE TypeOK'
  <2>1. tick' \in Tick
    BY <1>8, IdleType DEF StartPull, TypeOK, Tick
  <2>2. tick.night \in 0..MaxNight /\ tick.nightly \in BOOLEAN
    BY DEF TypeOK, Tick
  <2> QED
    BY <1>8, <2>1, <2>2 DEF StartPull, TypeOK
<1>9. ASSUME EndPull PROVE TypeOK'
  BY <1>9, IdleType DEF EndPull, TypeOK
<1> QED
  BY <1>1, <1>2, <1>3, <1>4, <1>5, <1>6, <1>7, <1>8, <1>9 DEF TickStep

(* What the rest of the world does keeps the types.                           *)
LEMMA WorldType ==
  TypeOK /\ (Die \/ OtherPull \/ OtherEnds \/ NightFalls \/ NightEnds) => TypeOK'
<1> SUFFICES ASSUME TypeOK, Die \/ OtherPull \/ OtherEnds \/ NightFalls \/ NightEnds
             PROVE  TypeOK'
  OBVIOUS
<1> USE PbxSourcesAssumption DEF settings, history
<1>1. CASE Die
  BY <1>1, IdleType DEF Die, TypeOK
<1>2. CASE OtherPull \/ OtherEnds
  BY <1>2 DEF OtherPull, OtherEnds, TypeOK
<1>3. CASE NightFalls
  <2>1. night' \in 0..MaxNight /\ open' \in BOOLEAN
    BY <1>3 DEF NightFalls, TypeOK
  <2> QED
    BY <1>3, <2>1 DEF NightFalls, TypeOK
<1>4. CASE NightEnds
  BY <1>4 DEF NightEnds, TypeOK
<1> QED
  BY <1>1, <1>2, <1>3, <1>4

LEMMA TypeKept == TypeOK /\ [Next]_vars => TypeOK'
<1>1. TypeOK /\ UNCHANGED vars => TypeOK'
  BY DEF vars, settings, world, history, TypeOK
<1> QED
  BY <1>1, PageType, TickType, WorldType DEF Next

LEMMA TypeInit == Init => TypeOK
<1> SUFFICES ASSUME Init PROVE TypeOK
  OBVIOUS
<1>1. src \in [Ids -> {NoRow} \cup Row] /\ vouched \in [Ids -> HostOrNone]
  BY DEF Init, HostOrNone
<1>2. 0 \in 0..MaxNight /\ 0 \in 0..MaxDeaths
  BY PbxSourcesAssumption
<1> QED
  BY <1>1, <1>2, IdleType DEF Init, TypeOK

-----------------------------------------------------------------------------
(* Results and trust                                                         *)

(* What the two conjuncts say of one row with its history.                    *)
RowIsFine(row, across, trustee) ==
  row.live =>
    /\ ~ across => /\ {row.key, row.seen} \subseteq {NoHost, row.host}
                   /\ ~ row.test => row.shown \in {NoHost, row.host}
    /\ row.key # NoHost => trustee = row.host

RowsInv == ResultsAreOfTheAddress /\ TrustIsForTheAddress

LEMMA RowByRow ==
  RowsInv <=> \A i \in Ids : RowIsFine(src[i], i \in crossed, vouched[i])
<1>1. ASSUME RowsInv, NEW i \in Ids PROVE RowIsFine(src[i], i \in crossed, vouched[i])
  BY <1>1, Zenon DEF RowsInv, ResultsAreOfTheAddress, TrustIsForTheAddress, RowIsFine
<1>2. ASSUME \A i \in Ids : RowIsFine(src[i], i \in crossed, vouched[i]) PROVE RowsInv
  BY <1>2, Zenon DEF RowsInv, ResultsAreOfTheAddress, TrustIsForTheAddress, RowIsFine
<1> QED
  BY <1>1, <1>2

LEMMA RowByRowNext ==
  RowsInv' <=> \A i \in Ids : RowIsFine(src'[i], i \in crossed', vouched'[i])
<1>1. ASSUME RowsInv', NEW i \in Ids PROVE RowIsFine(src'[i], i \in crossed', vouched'[i])
  BY <1>1, Zenon DEF RowsInv, ResultsAreOfTheAddress, TrustIsForTheAddress, RowIsFine
<1>2. ASSUME \A i \in Ids : RowIsFine(src'[i], i \in crossed', vouched'[i]) PROVE RowsInv'
  BY <1>2, Zenon DEF RowsInv, ResultsAreOfTheAddress, TrustIsForTheAddress, RowIsFine
<1> QED
  BY <1>1, <1>2

(* A step that changes one row, and leaves that one fine, keeps the rest.     *)
LEMMA OneRow ==
  ASSUME TypeOK, RowsInv, NEW i \in Ids, NEW row, src' = [src EXCEPT ![i] = row],
         \A k \in Ids \ {i} : k \in crossed <=> k \in crossed',
         \A k \in Ids \ {i} : vouched'[k] = vouched[k],
         RowIsFine(row, i \in crossed', vouched'[i])
  PROVE  RowsInv'
<1>1. src'[i] = row /\ \A k \in Ids \ {i} : src'[k] = src[k]
  BY DEF TypeOK
<1>2. ASSUME NEW k \in Ids PROVE RowIsFine(src'[k], k \in crossed', vouched'[k])
  <2>1. CASE k = i
    BY <1>1, <2>1
  <2>2. CASE k # i
    <3>1. RowIsFine(src[k], k \in crossed, vouched[k])
      BY RowByRow
    <3>2. src'[k] = src[k] /\ vouched'[k] = vouched[k] /\ (k \in crossed <=> k \in crossed')
      BY <1>1, <2>2
    <3> QED
      BY <3>1, <3>2 DEF RowIsFine
  <2> QED
    BY <2>1, <2>2
<1> QED
  BY <1>2, RowByRowNext

(* The page keeps rows fine: a new address forgets what was seen and trusted. *)
LEMMA PageRows == TypeOK /\ RowsInv /\ PageStep => RowsInv'
<1> SUFFICES ASSUME TypeOK, RowsInv, PageStep PROVE RowsInv'
  OBVIOUS
<1> USE DEF settings, world, history
<1>1. ASSUME NEW i \in Ids, NEW h \in Hosts, CreateSource(i, h) PROVE RowsInv'
  <2>1. RowIsFine(NewRow(h), i \in crossed', vouched'[i])
    BY DEF RowIsFine, NewRow
  <2> QED
    BY <1>1, <2>1, OneRow DEF CreateSource, TypeOK
<1>2. ASSUME NEW i \in Ids, NEW h \in Hosts, UpdateSource(i, h) PROVE RowsInv'
  <2> DEFINE moved == h # src[i].host
             row == [src[i] EXCEPT !.host = h, !.test = TRUE,
                       !.key = IF moved THEN NoHost ELSE src[i].key,
                       !.seen = IF moved THEN NoHost ELSE src[i].seen]
  <2>1. src[i] \in Row /\ RowIsFine(src[i], i \in crossed, vouched[i])
    BY <1>2, LiveRow, RowByRow DEF UpdateSource
  <2>2. /\ src' = [src EXCEPT ![i] = row] /\ vouched' = vouched
        /\ crossed' = IF moved THEN crossed \ {i} ELSE crossed
    BY <1>2 DEF UpdateSource
  <2>3. /\ row.host = h /\ row.test = TRUE /\ row.live
        /\ row.key = (IF moved THEN NoHost ELSE src[i].key)
        /\ row.seen = (IF moved THEN NoHost ELSE src[i].seen)
    BY <2>1 DEF Row
  <2> HIDE DEF row
  <2>4. RowIsFine(row, i \in crossed', vouched'[i])
    BY <2>1, <2>2, <2>3 DEF RowIsFine, Row
  <2> QED
    BY <2>2, <2>4, OneRow
<1>3. ASSUME NEW i \in Ids, DeleteSource(i) PROVE RowsInv'
  <2>1. RowIsFine(NoRow, i \in crossed', vouched'[i])
    BY DEF RowIsFine, NoRow
  <2> QED
    BY <1>3, <2>1, OneRow DEF DeleteSource
<1>4. ASSUME NEW i \in Ids, RequestTest(i) PROVE RowsInv'
  <2> DEFINE row == [src[i] EXCEPT !.test = TRUE]
  <2>1. src[i] \in Row /\ RowIsFine(src[i], i \in crossed, vouched[i])
    BY <1>4, LiveRow, RowByRow DEF RequestTest
  <2>2. src' = [src EXCEPT ![i] = row] /\ vouched' = vouched /\ crossed' = crossed
    BY <1>4 DEF RequestTest
  <2>3. row.host = src[i].host /\ row.test = TRUE /\ row.key = src[i].key
        /\ row.seen = src[i].seen /\ src[i].live
    BY <2>1 DEF Row
  <2> HIDE DEF row
  <2>4. RowIsFine(row, i \in crossed', vouched'[i])
    BY <2>1, <2>2, <2>3 DEF RowIsFine
  <2> QED
    BY <2>2, <2>4, OneRow
<1>5. ASSUME NEW i \in Ids, Trust(i) PROVE RowsInv'
  <2> DEFINE row == [src[i] EXCEPT !.key = src[i].seen]
  <2>1. src[i] \in Row /\ RowIsFine(src[i], i \in crossed, vouched[i])
    BY <1>5, LiveRow, RowByRow DEF Trust
  <2>2. /\ src' = [src EXCEPT ![i] = row] /\ crossed' = crossed
        /\ vouched' = [vouched EXCEPT ![i] = src[i].host]
    BY <1>5 DEF Trust
  <2>3. /\ row.host = src[i].host /\ row.test = src[i].test /\ row.key = src[i].seen
        /\ row.seen = src[i].seen /\ row.shown = src[i].shown /\ src[i].live
    BY <2>1 DEF Row
  <2>4. vouched'[i] = src[i].host /\ \A k \in Ids \ {i} : vouched'[k] = vouched[k]
    BY <2>2 DEF TypeOK
  <2> HIDE DEF row
  <2>5. RowIsFine(row, i \in crossed', vouched'[i])
    BY <2>1, <2>2, <2>3, <2>4 DEF RowIsFine
  <2> QED
    BY <2>2, <2>4, <2>5, OneRow
<1>6. ASSUME NEW w \in Wishes, RunNow(w) PROVE RowsInv'
  BY <1>6 DEF RunNow, RowsInv, ResultsAreOfTheAddress, TrustIsForTheAddress
<1> QED
  BY <1>1, <1>2, <1>3, <1>4, <1>5, <1>6 DEF PageStep

(* So does the tick: a result is of the address, or the row is marked.        *)
LEMMA TickRows == TypeOK /\ RowsInv /\ FindingIsOfTheJob /\ TickStep => RowsInv'
<1> SUFFICES ASSUME TypeOK, RowsInv, FindingIsOfTheJob, TickStep PROVE RowsInv'
  OBVIOUS
<1>1. CASE StartTick
  <2>1. CASE Seeded(src) = src
    <3>1. src' = src /\ crossed' = crossed /\ vouched' = vouched
      BY <1>1, <2>1 DEF StartTick
    <3> QED
      BY <3>1 DEF RowsInv, ResultsAreOfTheAddress, TrustIsForTheAddress
  <2>2. CASE Seeded(src) # src
    <3> DEFINE row == [NewRow(Configured) EXCEPT !.key = Configured, !.test = FALSE]
    <3>1. 1 \in Ids /\ src' = [src EXCEPT ![1] = row]
      BY <1>1, <2>2, SeededRows DEF StartTick
    <3>2. crossed' = crossed \ {1} /\ vouched' = [vouched EXCEPT ![1] = Configured]
      BY <1>1, <2>2 DEF StartTick
    <3>3. vouched'[1] = Configured /\ \A k \in Ids \ {1} : vouched'[k] = vouched[k]
      BY <3>1, <3>2 DEF TypeOK
    <3>4. RowIsFine(row, 1 \in crossed', vouched'[1])
      BY <3>3 DEF RowIsFine, NewRow
    <3> HIDE DEF row
    <3> QED
      BY <3>1, <3>2, <3>3, <3>4, OneRow
  <2> QED
    BY <2>1, <2>2
<1>2. CASE RecordTest
  <2> DEFINE i == tick.job.id
             row == [src[i] EXCEPT !.test = FALSE, !.seen = tick.seen,
                                   !.shown = tick.job.host]
  <2>1. i \in Ids /\ vouched' = vouched
    BY <1>2 DEF RecordTest, TypeOK, Tick, Job
  <2>2. CASE src[i].live
    <3>1. src[i] \in Row /\ RowIsFine(src[i], i \in crossed, vouched[i])
      BY <2>1, <2>2, LiveRow, RowByRow
    <3>2. /\ src' = [src EXCEPT ![i] = row]
          /\ crossed' = IF src[i].host = tick.job.host THEN crossed
                        ELSE crossed \cup {i}
      BY <1>2, <2>2 DEF RecordTest
    <3>3. /\ row.host = src[i].host /\ row.key = src[i].key
          /\ row.seen = tick.seen /\ row.shown = tick.job.host
      BY <3>1 DEF Row
    <3> HIDE DEF row
    <3>4. tick.seen \in {NoHost, tick.job.host}
      BY <1>2 DEF RecordTest, FindingIsOfTheJob
    <3>5. RowIsFine(row, i \in crossed', vouched'[i])
      BY <2>1, <2>2, <3>1, <3>2, <3>3, <3>4 DEF RowIsFine
    <3> HIDE DEF i
    <3> QED
      BY <2>1, <3>2, <3>5, OneRow
  <2>3. CASE ~ src[i].live
    BY <1>2, <2>3 DEF RecordTest, RowsInv, ResultsAreOfTheAddress, TrustIsForTheAddress
  <2> QED
    BY <2>2, <2>3
<1>3. CASE ~ StartTick /\ ~ RecordTest
  <2>1. src' = src /\ crossed' = crossed /\ vouched' = vouched
    BY <1>3 DEF TickStep, TestSource, ReadWish, ConsumeWish, MarkNight, NoNight, StartPull,
                EndPull, history
  <2> QED
    BY <2>1 DEF RowsInv, ResultsAreOfTheAddress, TrustIsForTheAddress
<1> QED
  BY <1>1, <1>2, <1>3

-----------------------------------------------------------------------------
(* Nights                                                                    *)

(* A step that leaves marks, pulls and the tick's night alone, and does not    *)
(* begin to pull, keeps the nights.                                          *)
LEMMA SameNights ==
  ASSUME NightsAreMarked, TypeOK,
         lastNight' = lastNight, begun' = begun, night' \in {night, night + 1},
         tick'.night = tick.night, tick'.nightly = tick.nightly,
         tick.nightly => tick'.pc = tick.pc
  PROVE  NightsAreMarked'
<1>1. lastNight \in Nat /\ night \in Nat /\ tick.night \in Nat
  BY PbxSourcesAssumption DEF TypeOK, Tick
<1> QED
  BY <1>1 DEF NightsAreMarked

(* At rest the tick knows no night.                                           *)
LEMMA RestingNights ==
  ASSUME NightsAreMarked, TypeOK,
         lastNight' = lastNight, begun' = begun, night' = night, tick' = Idle
  PROVE  NightsAreMarked'
<1>1. night \in Nat
  BY PbxSourcesAssumption DEF TypeOK
<1> QED
  BY <1>1 DEF NightsAreMarked, Idle

(* Every step keeps the nights: the mark comes before the pull.               *)
LEMMA NightsKept ==
  ASSUME TypeOK, NightsAreMarked, [Next]_vars
  PROVE  NightsAreMarked'
<1> USE DEF settings, world, history
<1>0. /\ lastNight \in Nat /\ night \in Nat /\ tick.night \in Nat
      /\ tick \in Tick /\ \A n \in begun : n \in Nat
  BY PbxSourcesAssumption DEF TypeOK, Tick
<1>1. CASE PageStep
  BY <1>1, SameNights DEF PageStep, CreateSource, UpdateSource, DeleteSource, RequestTest,
                          Trust, RunNow
<1>2. CASE StartTick
  <2>1. /\ tick'.night = (IF open THEN night ELSE 0) /\ tick'.nightly = FALSE
        /\ lastNight' = lastNight /\ night' = night /\ begun' = begun
    BY <1>2 DEF StartTick, Idle
  <2> QED
    BY <1>0, <2>1 DEF NightsAreMarked
<1>3. CASE \E j \in tick.jobs : TestSource(j)
  <2>1. ~ tick.nightly
    BY <1>3 DEF TestSource, NightsAreMarked
  <2> QED
    BY <1>0, <1>3, <2>1, SameNights DEF TestSource, Tick
<1>4. CASE RecordTest \/ ReadWish
  <2>1. ~ tick.nightly
    BY <1>4 DEF RecordTest, ReadWish, NightsAreMarked
  <2> QED
    BY <1>0, <1>4, <2>1, SameNights DEF RecordTest, NextTest, ReadWish, Tick
<1>5. CASE ConsumeWish
  <2>1. ~ tick.nightly
    BY <1>5 DEF ConsumeWish, NightsAreMarked
  <2> QED
    BY <1>0, <1>5, <2>1, SameNights DEF ConsumeWish, Tick
<1>6. CASE MarkNight
  <2>1. /\ tick.night # 0 /\ tick.night # lastNight /\ lastNight' = tick.night
        /\ tick'.night = tick.night /\ night' = night /\ begun' = begun
        /\ tick'.pc = "pull"
    BY <1>0, <1>6 DEF MarkNight, Tick
  <2> QED
    BY <1>0, <2>1 DEF NightsAreMarked
<1>7. CASE NoNight
  <2>1. CASE tick' = Idle
    BY <1>7, <2>1, RestingNights DEF NoNight
  <2>2. CASE tick.night = 0 /\ tick' = [tick EXCEPT !.pc = "pull"]
    BY <1>0, <1>7, <2>2 DEF NoNight, NightsAreMarked, Tick
  <2> QED
    BY <1>7, <2>1, <2>2 DEF NoNight
<1>8. CASE StartPull
  <2>1. CASE lock = "free"
    <3>1. /\ tick'.pc = "pulling" /\ tick'.night = tick.night /\ tick'.nightly = tick.nightly
          /\ lastNight' = lastNight /\ night' = night
          /\ begun' = IF tick.nightly THEN begun \cup {tick.night} ELSE begun
      BY <1>0, <1>8, <2>1 DEF StartPull, Tick
    <3> QED
      BY <1>0, <3>1 DEF NightsAreMarked
  <2>2. CASE lock # "free"
    BY <1>8, <2>2, RestingNights DEF StartPull
  <2> QED
    BY <2>1, <2>2
<1>9. CASE EndPull \/ Die
  BY <1>9, RestingNights DEF EndPull, Die
<1>10. CASE OtherPull \/ OtherEnds \/ NightFalls \/ NightEnds
  BY <1>0, <1>10, SameNights DEF OtherPull, OtherEnds, NightFalls, NightEnds
<1>11. CASE UNCHANGED vars
  BY <1>11, SameNights DEF vars
<1> QED
  BY <1>1, <1>2, <1>3, <1>4, <1>5, <1>6, <1>7, <1>8, <1>9, <1>10, <1>11 DEF Next, TickStep

-----------------------------------------------------------------------------
(* Theorems                                                                  *)

(* What the first test of a tick finds, it finds for the job it records.      *)
LEMMA FindingKept ==
  ASSUME TypeOK, FindingIsOfTheJob, [Next]_vars
  PROVE  FindingIsOfTheJob'
<1> USE DEF settings, world, history, FindingIsOfTheJob
<1>0. tick \in Tick
  BY DEF TypeOK
<1>1. CASE \E j \in tick.jobs : TestSource(j)
  BY <1>0, <1>1 DEF TestSource, Tick
<1>2. CASE tick' = tick
  BY <1>2
<1>3. CASE tick'.pc # "record"
  BY <1>3
<1>4. CASE TickStep /\ ~ \E j \in tick.jobs : TestSource(j)
  <2>1. Idle.pc = "idle"
    BY DEF Idle
  <2>2. ASSUME StartTick PROVE tick'.pc # "record"
    BY <2>2 DEF StartTick, Idle
  <2>3. ASSUME EndPull \/ StartPull PROVE tick'.pc # "record"
    BY <1>0, <2>1, <2>3 DEF EndPull, StartPull, Tick
  <2>4. ASSUME RecordTest PROVE tick'.pc # "record"
    BY <1>0, <2>4 DEF RecordTest, NextTest, Tick
  <2>5. ASSUME ReadWish \/ ConsumeWish PROVE tick'.pc # "record"
    BY <1>0, <2>5 DEF ReadWish, ConsumeWish, Tick
  <2>6. ASSUME MarkNight \/ NoNight PROVE tick'.pc # "record"
    BY <1>0, <2>1, <2>6 DEF MarkNight, NoNight, Tick
  <2> QED
    BY <1>3, <1>4, <2>2, <2>3, <2>4, <2>5, <2>6 DEF TickStep
<1>5. CASE Die
  BY <1>5 DEF Die, Idle
<1>6. CASE PageStep
  BY <1>2, <1>6 DEF PageStep, CreateSource, UpdateSource, DeleteSource, RequestTest, Trust,
                    RunNow
<1>7. CASE OtherPull \/ OtherEnds \/ NightFalls \/ NightEnds
  BY <1>2, <1>7 DEF OtherPull, OtherEnds, NightFalls, NightEnds
<1>8. CASE UNCHANGED vars
  BY <1>2, <1>8 DEF vars
<1> QED
  BY <1>1, <1>4, <1>5, <1>6, <1>7, <1>8 DEF Next

LEMMA RowsKept == TypeOK /\ RowsInv /\ FindingIsOfTheJob /\ [Next]_vars => RowsInv'
<1> SUFFICES ASSUME TypeOK, RowsInv, FindingIsOfTheJob, [Next]_vars PROVE RowsInv'
  OBVIOUS
<1>1. CASE PageStep
  BY <1>1, PageRows
<1>2. CASE TickStep
  BY <1>2, TickRows
<1>3. CASE Die \/ OtherPull \/ OtherEnds \/ NightFalls \/ NightEnds \/ UNCHANGED vars
  <2>1. src' = src /\ crossed' = crossed /\ vouched' = vouched
    BY <1>3 DEF Die, OtherPull, OtherEnds, NightFalls, NightEnds, vars, history
  <2> QED
    BY <2>1 DEF RowsInv, ResultsAreOfTheAddress, TrustIsForTheAddress
<1> QED
  BY <1>1, <1>2, <1>3 DEF Next

(* Whatever tests are overtaken, whichever ids are given again and wherever a  *)
(* tick is killed: what the page shows and trusts is of the present address,  *)
(* but for rows into which an overtaken test was written, and nights are      *)
(* marked before their pull (pbxpull.py:460-503, admin.py:1006-1053).         *)
THEOREM SourcesInvHolds == Spec => []SourcesInv
<1>1. Init => SourcesInv
  <2> SUFFICES ASSUME Init PROVE SourcesInv
    OBVIOUS
  <2>1. FindingIsOfTheJob /\ NightsAreMarked
    BY DEF Init, Idle, FindingIsOfTheJob, NightsAreMarked
  <2>2. ResultsAreOfTheAddress /\ TrustIsForTheAddress
    BY DEF Init, NoRow, ResultsAreOfTheAddress, TrustIsForTheAddress
  <2> QED
    BY <2>1, <2>2, TypeInit DEF SourcesInv
<1>2. SourcesInv /\ [Next]_vars => SourcesInv'
  BY TypeKept, RowsKept, FindingKept, NightsKept DEF SourcesInv, RowsInv
<1> QED
  BY <1>1, <1>2, PTL DEF Spec

(* No window sees its nightly pull begin twice, although the tick may be      *)
(* killed between its mark and its pull (pbxpull.py:490-502).                 *)
THEOREM OncePerNightHolds == Spec => OncePerNight
<1>1. SourcesInv /\ [Next]_vars
        => (lock' = "tick" /\ lock # "tick" /\ tick.nightly => tick.night \notin begun)
  <2> SUFFICES ASSUME SourcesInv, [Next]_vars, lock' = "tick", lock # "tick", tick.nightly
               PROVE  tick.night \notin begun
    OBVIOUS
  <2>1. tick.pc = "pull"
    BY DEF Next, PageStep, CreateSource, UpdateSource, DeleteSource, RequestTest, Trust, RunNow,
           TickStep, StartTick, TestSource, RecordTest, ReadWish, ConsumeWish, MarkNight,
           NoNight, StartPull, EndPull, Die, OtherPull, OtherEnds, NightFalls, NightEnds,
           vars, world
  <2> QED
    BY <2>1 DEF SourcesInv, NightsAreMarked
<1> QED
  BY <1>1, SourcesInvHolds, PTL DEF Spec, OncePerNight
=============================================================================
