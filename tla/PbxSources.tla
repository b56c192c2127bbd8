----------------------------- MODULE PbxSources -----------------------------
(***************************************************************************)
(* The PBX page (televault/admin.py) and the tick of the scheduled task      *)
(* (televault/pbxpull.py): the list of PBXs, connection tests, trust in host *)
(* keys, "run now" and the nightly pull.                                     *)
(*                                                                           *)
(* A request of the page is one write transaction.  The tick reads the list, *)
(* tests over the network for minutes, and writes each result by row id; it  *)
(* may be killed anywhere.  A machine is known by its address, which also    *)
(* names its host key.                                                       *)
(***************************************************************************)
EXTENDS Naturals

CONSTANTS
  Hosts,
  NoHost,
  Configured,   \* the PBX that config.json lists with its pinned key, or NoHost
  Wishes,       \* what "run now" may ask for: all PBXs, or one by name
  NoWish,
  MaxId,        \* bound: the last row id of pbx_sources
  MaxNight,     \* bound: nights
  MaxDeaths     \* bound: times the tick is killed

ASSUME PbxSourcesAssumption ==
  /\ Hosts # {} /\ NoHost \notin Hosts /\ NoWish \notin Wishes
  /\ Configured \in Hosts \cup {NoHost}
  /\ MaxId \in Nat \ {0} /\ MaxNight \in Nat /\ MaxDeaths \in Nat

VARIABLES
  src,        \* table `pbx_sources`
  seeded,     \* settings: pbx_seeded
  wanted,     \* settings: pbx_run_requested
  lastNight,  \* settings: pbx_last_night
  tick,       \* the running instance of the task
  lock,       \* pbxpull.lock
  night,      \* the last night that has begun
  open,       \* whether that night's window is still open
  deaths,
  crossed,    \* history: rows that hold the result of a test of another address
  vouched,    \* history: the address a superadmin last trusted a row's key for
  begun       \* history: nights whose pull has begun

settings == <<seeded, wanted, lastNight>>
world == <<lock, night, open>>
history == <<crossed, vouched, begun>>
vars == <<src, settings, tick, world, deaths, history>>

-----------------------------------------------------------------------------
(* Types                                                                     *)

Ids == 1..MaxId
HostOrNone == Hosts \cup {NoHost}

(* shown is the address whose test result the page shows; NoHost stands for   *)
(* an empty key.                                                             *)
NoRow == [live |-> FALSE]
Row == [live: {TRUE}, host: Hosts, key: HostOrNone, seen: HostOrNone,
        test: BOOLEAN, shown: HostOrNone]

NewRow(h) == [live |-> TRUE, host |-> h, key |-> NoHost, seen |-> NoHost,
              test |-> TRUE, shown |-> NoHost]

Job == [id: Ids, host: Hosts]

(* jobs are the tests still to be made or recorded; seen is what the first    *)
(* has found; night the window that is open by the tick's clock, 0 if none.   *)
Tick == [pc: {"idle", "test", "record", "wish", "consume", "schedule", "pull",
              "pulling"},
         jobs: SUBSET Job, job: Job, seen: HostOrNone,
         wish: Wishes \cup {NoWish}, night: 0..MaxNight, nightly: BOOLEAN]

SomeJob == CHOOSE j \in Job : TRUE
Idle == [pc |-> "idle", jobs |-> {}, job |-> SomeJob, seen |-> NoHost,
         wish |-> NoWish, night |-> 0, nightly |-> FALSE]

TypeOK ==
  /\ src \in [Ids -> {NoRow} \cup Row]
  /\ seeded \in BOOLEAN /\ wanted \in Wishes \cup {NoWish}
  /\ lastNight \in 0..MaxNight /\ night \in 0..MaxNight /\ open \in BOOLEAN
  /\ tick \in Tick
  /\ lock \in {"free", "tick", "other"}
  /\ deaths \in 0..MaxDeaths
  /\ crossed \in SUBSET Ids /\ vouched \in [Ids -> HostOrNone]
  /\ begun \in SUBSET (0..MaxNight)

-----------------------------------------------------------------------------
(* The page                                                                  *)

(* INTEGER PRIMARY KEY without AUTOINCREMENT: one more than the largest id. *)
NextId(i) ==
  /\ \A j \in Ids : src[j].live => j < i
  /\ i # 1 => src[i - 1].live

CreateSource(i, h) ==
  /\ NextId(i)
  /\ src' = [src EXCEPT ![i] = NewRow(h)]
  /\ crossed' = crossed \ {i} /\ vouched' = [vouched EXCEPT ![i] = NoHost]
  /\ UNCHANGED <<settings, tick, world, deaths, begun>>

(* Another address is another machine: its key must be trusted again. *)
UpdateKeepsTrust(i, h) ==   \* planted fault: the key stays trusted
  /\ src[i].live
  /\ src' = [src EXCEPT ![i].host = h, ![i].test = TRUE]
  /\ crossed' = IF h = src[i].host THEN crossed ELSE crossed \ {i}
  /\ UNCHANGED <<settings, tick, world, deaths, vouched, begun>>
UpdateSource(i, h) ==
  LET moved == h # src[i].host IN
  /\ src[i].live
  /\ src' = [src EXCEPT ![i] =
               [@ EXCEPT !.host = h, !.test = TRUE,
                         !.key = IF moved THEN NoHost ELSE src[i].key,
                         !.seen = IF moved THEN NoHost ELSE src[i].seen]]
  /\ crossed' = IF moved THEN crossed \ {i} ELSE crossed
  /\ UNCHANGED <<settings, tick, world, deaths, vouched, begun>>

(* DELETE, and the cascade of a customer's removal. *)
DeleteSource(i) ==
  /\ src[i].live
  /\ src' = [src EXCEPT ![i] = NoRow]
  /\ UNCHANGED <<settings, tick, world, deaths, history>>

RequestTest(i) ==
  /\ src[i].live
  /\ src' = [src EXCEPT ![i].test = TRUE]
  /\ UNCHANGED <<settings, tick, world, deaths, history>>

(* "Trust the host key the last connection test saw." *)
Trust(i) ==
  /\ src[i].live /\ src[i].seen # NoHost
  /\ src' = [src EXCEPT ![i].key = src[i].seen]
  /\ vouched' = [vouched EXCEPT ![i] = src[i].host]
  /\ UNCHANGED <<settings, tick, world, deaths, crossed, begun>>

RunNow(w) ==
  /\ wanted' = w
  /\ UNCHANGED <<src, seeded, lastNight, tick, world, deaths, history>>

-----------------------------------------------------------------------------
(* The tick                                                                  *)

(* seed_from_config: the first tick of an empty list. *)
Seeded(rows) ==
  IF seeded \/ Configured = NoHost \/ \E i \in Ids : rows[i].live THEN rows
  ELSE [rows EXCEPT ![1] = [NewRow(Configured) EXCEPT !.key = Configured,
                                                      !.test = FALSE]]

Pending(rows) ==
  {[id |-> i, host |-> rows[i].host] :
     i \in {k \in Ids : rows[k].live /\ rows[k].test}}

(* The first transaction, and the tick's clock. *)
StartTick ==
  LET rows == Seeded(src)
      jobs == Pending(rows)
  IN
  /\ tick.pc = "idle"
  /\ src' = rows /\ seeded' = TRUE
  /\ tick' = [Idle EXCEPT !.pc = IF jobs = {} THEN "wish" ELSE "test",
                          !.jobs = jobs, !.night = IF open THEN night ELSE 0]
  /\ IF rows = src THEN UNCHANGED <<crossed, vouched>>
     ELSE /\ crossed' = crossed \ {1}
          /\ vouched' = [vouched EXCEPT ![1] = Configured]
  /\ UNCHANGED <<wanted, lastNight, world, deaths, begun>>

(* test_source: the machine shows its host key, or cannot be reached. *)
TestSource(j) ==
  /\ tick.pc = "test" /\ j \in tick.jobs
  /\ \E key \in {j.host, NoHost} :
       tick' = [tick EXCEPT !.pc = "record", !.job = j, !.seen = key]
  /\ UNCHANGED <<src, settings, world, deaths, history>>

NextTest ==
  LET rest == tick.jobs \ {tick.job} IN
  tick' = [tick EXCEPT !.pc = IF rest = {} THEN "wish" ELSE "test",
                       !.jobs = rest, !.job = SomeJob, !.seen = NoHost]

(* Its UPDATE, by id: whatever row has that id by now. *)
RecordTheReached ==         \* planted fault: a test that failed is not recorded
  LET i == tick.job.id IN
  /\ tick.pc = "record"
  /\ IF src[i].live /\ tick.seen # NoHost
     THEN /\ src' = [src EXCEPT ![i] = [@ EXCEPT !.test = FALSE, !.seen = tick.seen,
                                                 !.shown = tick.job.host]]
          /\ crossed' = IF src[i].host = tick.job.host THEN crossed
                        ELSE crossed \cup {i}
     ELSE UNCHANGED <<src, crossed>>
  /\ NextTest
  /\ UNCHANGED <<settings, world, deaths, vouched, begun>>
RecordTest ==
  LET i == tick.job.id IN
  /\ tick.pc = "record"
  /\ IF src[i].live
     THEN /\ src' = [src EXCEPT ![i] = [@ EXCEPT !.test = FALSE, !.seen = tick.seen,
                                                 !.shown = tick.job.host]]
          /\ crossed' = IF src[i].host = tick.job.host THEN crossed
                        ELSE crossed \cup {i}
     ELSE UNCHANGED <<src, crossed>>
  /\ NextTest
  /\ UNCHANGED <<settings, world, deaths, vouched, begun>>

(* The wish is read ... *)
ReadWish ==
  /\ tick.pc = "wish"
  /\ tick' = [tick EXCEPT !.wish = wanted,
                          !.pc = IF wanted = NoWish THEN "schedule" ELSE "consume"]
  /\ UNCHANGED <<src, settings, world, deaths, history>>

(* ... and taken away before the pull, with any other made in between. *)
ConsumeWish ==
  /\ tick.pc = "consume"
  /\ wanted' = NoWish
  /\ tick' = [tick EXCEPT !.pc = "pull"]
  /\ UNCHANGED <<src, seeded, lastNight, world, deaths, history>>

(* The night is marked before its pull. *)
NeverMarkNight ==           \* planted fault: the mark is forgotten
  /\ tick.pc = "schedule" /\ tick.night \notin {0, lastNight}
  /\ tick' = [tick EXCEPT !.pc = "pull", !.nightly = TRUE]
  /\ UNCHANGED <<src, settings, world, deaths, history>>
MarkNight ==
  /\ tick.pc = "schedule" /\ tick.night \notin {0, lastNight}
  /\ lastNight' = tick.night
  /\ tick' = [tick EXCEPT !.pc = "pull", !.nightly = TRUE]
  /\ UNCHANGED <<src, seeded, wanted, world, deaths, history>>

(* By day a pull of recent days may be due; at night it has been done. *)
NoNight ==
  /\ tick.pc = "schedule" /\ tick.night \in {0, lastNight}
  /\ \/ tick' = Idle
     \/ tick.night = 0 /\ tick' = [tick EXCEPT !.pc = "pull"]
  /\ UNCHANGED <<src, settings, world, deaths, history>>

(* run: "another pull is still running", or it begins. *)
StartPull ==
  /\ tick.pc = "pull"
  /\ IF lock = "free"
     THEN /\ lock' = "tick" /\ tick' = [tick EXCEPT !.pc = "pulling"]
          /\ begun' = IF tick.nightly THEN begun \cup {tick.night} ELSE begun
     ELSE tick' = Idle /\ UNCHANGED <<lock, begun>>
  /\ UNCHANGED <<src, settings, night, open, deaths, crossed, vouched>>

EndPull ==
  /\ tick.pc = "pulling"
  /\ lock' = "free" /\ tick' = Idle
  /\ UNCHANGED <<src, settings, night, open, deaths, history>>

(* The tick is killed; a lock it had stays. *)
Die ==
  /\ tick.pc # "idle" /\ deaths < MaxDeaths
  /\ deaths' = deaths + 1 /\ tick' = Idle
  /\ lock' = IF lock = "tick" THEN "other" ELSE lock
  /\ UNCHANGED <<src, settings, night, open, history>>

-----------------------------------------------------------------------------
(* Pulls by hand, locks that a dead pull left, and the night                 *)

OtherPull ==
  /\ lock = "free" /\ lock' = "other"
  /\ UNCHANGED <<src, settings, tick, night, open, deaths, history>>

OtherEnds ==
  /\ lock = "other" /\ lock' = "free"
  /\ UNCHANGED <<src, settings, tick, night, open, deaths, history>>

NightFalls ==
  /\ ~ open /\ night < MaxNight
  /\ night' = night + 1 /\ open' = TRUE
  /\ UNCHANGED <<src, settings, tick, lock, deaths, history>>

NightEnds ==
  /\ open /\ open' = FALSE
  /\ UNCHANGED <<src, settings, tick, lock, night, deaths, history>>

Init ==
  /\ src = [i \in Ids |-> NoRow]
  /\ seeded = FALSE /\ wanted = NoWish /\ lastNight = 0
  /\ tick = Idle /\ lock = "free" /\ night = 0 /\ open = FALSE /\ deaths = 0
  /\ crossed = {} /\ vouched = [i \in Ids |-> NoHost] /\ begun = {}

PageStep ==
  \/ \E i \in Ids, h \in Hosts : CreateSource(i, h) \/ UpdateSource(i, h)
  \/ \E i \in Ids : DeleteSource(i) \/ RequestTest(i) \/ Trust(i)
  \/ \E w \in Wishes : RunNow(w)

TickStep ==
  \/ StartTick \/ RecordTest \/ ReadWish \/ ConsumeWish
  \/ MarkNight \/ NoNight \/ StartPull \/ EndPull
  \/ \E j \in tick.jobs : TestSource(j)

Next ==
  \/ PageStep \/ TickStep \/ Die
  \/ OtherPull \/ OtherEnds \/ NightFalls \/ NightEnds

(* The task starts the tick every five minutes, and it goes on. *)
Spec == Init /\ [][Next]_vars /\ WF_vars(TickStep)

-----------------------------------------------------------------------------
(* Properties                                                                *)

(* What the page shows and trusts is of the row's present address, unless the *)
(* result of a test begun before the address changed was written into the     *)
(* row (pbxpull.py:472-477, admin.py:1011-1016).                              *)
ResultsAreOfTheAddress ==
  \A i \in Ids \ crossed : src[i].live =>
    /\ {src[i].key, src[i].seen} \subseteq {NoHost, src[i].host}
    /\ ~ src[i].test => src[i].shown \in {NoHost, src[i].host}

(* A test finds the machine it asks or none.                                 *)
FindingIsOfTheJob ==
  tick.pc = "record" => tick.seen \in {NoHost, tick.job.host}

(* A key is trusted only for the address the row had when a superadmin        *)
(* trusted it, or that config.json pinned it for (admin.py:1011-1014).        *)
TrustIsForTheAddress ==
  \A i \in Ids : src[i].live /\ src[i].key # NoHost => vouched[i] = src[i].host

(* The tick knows no later night than has begun, no night is marked that the  *)
(* tick has yet to know, and what has begun has been marked.                  *)
NightsAreMarked ==
  /\ lastNight <= night /\ tick.night <= night
  /\ tick.night # 0 => lastNight <= tick.night
  /\ \A n \in begun : n <= lastNight
  /\ tick.nightly => tick.night = lastNight /\ tick.pc \in {"pull", "pulling"}
  /\ tick.nightly /\ tick.pc = "pull" => tick.night # 0 /\ tick.night \notin begun

SourcesInv ==
  /\ TypeOK /\ FindingIsOfTheJob
  /\ ResultsAreOfTheAddress /\ TrustIsForTheAddress /\ NightsAreMarked

(* The nightly pull begins once per window at most, although a tick may be    *)
(* killed before, in or after it (pbxpull.py:490-502).                        *)
OncePerNight ==
  [][lock' = "tick" /\ lock # "tick" /\ tick.nightly => tick.night \notin begun]_vars

(* A test or a pull that was asked for is taken up, whatever was killed       *)
(* meanwhile (pbxpull.py:461-488).                                            *)
RequestsAreTaken ==
  /\ \A i \in Ids : (src[i].live /\ src[i].test) ~> ~ (src[i].live /\ src[i].test)
  /\ \A w \in Wishes : (wanted = w) ~> (wanted # w)
=============================================================================
