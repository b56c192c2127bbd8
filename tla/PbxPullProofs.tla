--------------------------- MODULE PbxPullProofs ---------------------------
(***************************************************************************)
(* Proofs about PbxPull for every number of processes, files and days.       *)
(***************************************************************************)
EXTENDS PbxPull, TLAPS

Labels == {"none", "want", "get", "stat", "move", "put"}

-----------------------------------------------------------------------------
(* What the changes of a process's local state do, field by field.           *)

LEMMA OffIsRun ==
  /\ NoSizes \in [Files -> Sizes] /\ 1 \in Days /\ Off \in Run
  /\ Off.pc = "off" /\ \A f \in Files : Off.stage[f] = "none"
BY PbxPullAssumption DEF NoSizes, Sizes, Days, Off, Run

LEMMA RestingIsRun ==
  ASSUME NEW d \in Days,
         NEW l \in {"off", "steal", "create", "open", "local", "remote", "copy", "release"}
  PROVE  /\ Resting(l, d) \in Run /\ Resting(l, d).pc = l
         /\ Resting(l, d).stage = Off.stage
BY OffIsRun DEF Resting, Run, Off

LEMMA SetActs ==
  ASSUME TypeOK, NEW r \in Runners, NEW x \in Run, run' = [run EXCEPT ![r] = x]
  PROVE  /\ run' \in [Runners -> Run] /\ run'[r] = x
         /\ \A q \in Runners \ {r} : run'[q] = run[q]
BY DEF TypeOK

LEMMA GotoActs ==
  ASSUME TypeOK, NEW r \in Runners,
         NEW l \in {"off", "steal", "create", "open", "local", "remote", "copy", "release"},
         Goto(r, l)
  PROVE  /\ run' \in [Runners -> Run]
         /\ run'[r].pc = l /\ run'[r].stage = run[r].stage
         /\ \A q \in Runners \ {r} : run'[q] = run[q]
<1>1. run[r] \in Run
  BY DEF TypeOK
<1>2. [run[r] EXCEPT !.pc = l] \in Run
  BY <1>1 DEF Run
<1>3. run' = [run EXCEPT ![r] = [run[r] EXCEPT !.pc = l]]
  BY DEF Goto
<1>4. run'[r] = [run[r] EXCEPT !.pc = l]
  BY <1>2, <1>3, SetActs
<1> QED BY <1>1, <1>2, <1>3, <1>4, SetActs DEF Run

LEMMA StageActs ==
  ASSUME TypeOK, NEW r \in Runners, NEW f \in Files, NEW l \in Labels,
         Stage(r, f, l)
  PROVE  /\ run' \in [Runners -> Run]
         /\ \A q \in Runners \ {r} : run'[q] = run[q]
         /\ run'[r].pc = run[r].pc /\ run'[r].size = run[r].size
         /\ run'[r].stage[f] = l
         /\ \A g \in Files \ {f} : run'[r].stage[g] = run[r].stage[g]
<1> DEFINE x == [run[r] EXCEPT !.stage = [run[r].stage EXCEPT ![f] = l]]
<1>1. run[r] \in Run
  BY DEF TypeOK
<1>2. /\ x \in Run /\ x.pc = run[r].pc /\ x.size = run[r].size
      /\ x.stage = [run[r].stage EXCEPT ![f] = l]
  BY <1>1 DEF Run, Labels
<1>3. run' = [run EXCEPT ![r] = x]
  BY DEF Stage
<1>4. run'[r] = x
  BY <1>2, <1>3, SetActs
<1> HIDE DEF x
<1> QED BY ZenonT(30), <1>1, <1>2, <1>3, <1>4, SetActs DEF Run

LEMMA OnwardActs ==
  ASSUME TypeOK, NEW r \in Runners, Onward(r)
  PROVE  /\ run' \in [Runners -> Run]
         /\ run'[r].pc \in {"local", "release"} /\ run'[r].stage = Off.stage
         /\ \A q \in Runners \ {r} : run'[q] = run[q]
<1>1. CASE run[r].day + 1 \in Days
  BY <1>1, RestingIsRun, SetActs DEF Onward
<1>2. CASE run[r].day + 1 \notin Days
  BY <1>2, RestingIsRun, OffIsRun, SetActs DEF Onward
<1> QED BY <1>1, <1>2

-----------------------------------------------------------------------------
(* Listing and receiving.                                                    *)

LEMMA ListLocalActs ==
  ASSUME TypeOK, NEW r \in Runners, ListLocal(r)
  PROVE  /\ run' \in [Runners -> Run]
         /\ \A q \in Runners \ {r} : run'[q] = run[q]
         /\ run'[r].pc = "remote" /\ run'[r].day = run[r].day
         /\ run'[r].stage = run[r].stage
         /\ \A f \in Files : DayOf[f] = run[r].day => run'[r].have[f] = local[f]
<1> DEFINE h == [f \in Files |-> IF DayOf[f] = run[r].day THEN local[f] ELSE 0]
           x == [run[r] EXCEPT !.pc = "remote", !.have = h]
<1>1. run[r] \in Run
  BY DEF TypeOK
<1>2. h \in [Files -> Sizes]
  BY PbxPullAssumption DEF TypeOK, Sizes
<1>3. /\ x \in Run /\ x.pc = "remote" /\ x.day = run[r].day
      /\ x.stage = run[r].stage /\ x.have = h
  <2> HIDE DEF h
  <2> QED BY <1>1, <1>2 DEF Run
<1>4. run' = [run EXCEPT ![r] = x]
  BY DEF ListLocal
<1>5. \A f \in Files : DayOf[f] = run[r].day => h[f] = local[f]
  OBVIOUS
<1> HIDE DEF x, h
<1> QED BY <1>3, <1>4, <1>5, SetActs

(* What a pull wants of a day's folder. *)
Wanted(r) == {f \in still : DayOf[f] = run[r].day /\ run[r].have[f] < remote[f]}

LEMMA ListRemoteActs ==
  ASSUME TypeOK, NEW r \in Runners, ListRemote(r)
  PROVE  /\ run' \in [Runners -> Run]
         /\ \A q \in Runners \ {r} : run'[q] = run[q]
         /\ \/ /\ run'[r].pc \in {"local", "release"}
               /\ run'[r].stage = Off.stage
            \/ /\ run'[r].pc = "copy"
               /\ \A f \in Files : run'[r].stage[f] \in {"want", "none"}
               /\ \A f \in Files : run'[r].stage[f] = "want" =>
                    f \in Wanted(r) /\ run'[r].size[f] = remote[f]
<1> DEFINE s == [f \in Files |-> IF f \in Wanted(r) THEN remote[f] ELSE 0]
           g == [f \in Files |-> IF f \in Wanted(r) THEN "want" ELSE "none"]
           x == [run[r] EXCEPT !.pc = "copy", !.size = s, !.stage = g]
<1>1. CASE Wanted(r) = {}
  BY <1>1, OnwardActs DEF ListRemote, Wanted
<1>2. CASE Wanted(r) # {}
  <2>1. run[r] \in Run
    BY DEF TypeOK
  <2>2. /\ s \in [Files -> Sizes]
        /\ g \in [Files -> Labels]
    BY PbxPullAssumption DEF TypeOK, Sizes, Labels
  <2>3. x \in Run /\ x.pc = "copy" /\ x.size = s /\ x.stage = g
    <3> HIDE DEF s, g
    <3> QED BY <2>1, <2>2 DEF Run, Labels
  <2>4. run' = [run EXCEPT ![r] = x]
    BY <1>2 DEF ListRemote, Wanted
  <2>5. \A f \in Files :
          /\ g[f] \in {"want", "none"}
          /\ g[f] = "want" => f \in Wanted(r) /\ s[f] = remote[f]
    OBVIOUS
  <2>6. /\ run' \in [Runners -> Run] /\ run'[r] = x
        /\ \A q \in Runners \ {r} : run'[q] = run[q]
    <3> HIDE DEF x
    <3> QED BY <2>3, <2>4, SetActs
  <2> HIDE DEF x, s, g
  <2>7. /\ run'[r].pc = "copy" /\ run'[r].stage = g /\ run'[r].size = s
    BY <2>3, <2>6
  <2>8. /\ \A f \in Files : run'[r].stage[f] \in {"want", "none"}
        /\ \A f \in Files : run'[r].stage[f] = "want" =>
             f \in Wanted(r) /\ run'[r].size[f] = remote[f]
    BY <2>5, <2>7
  <2> QED BY <2>6, <2>7, <2>8
<1> QED BY <1>1, <1>2

LEMMA OpenPartActs ==
  ASSUME TypeOK, NEW r \in Runners, NEW f \in Files, OpenPart(r, f)
  PROVE  /\ run' \in [Runners -> Run]
         /\ \A q \in Runners \ {r} : run'[q] = run[q]
         /\ run'[r].pc = run[r].pc /\ run'[r].size = run[r].size
         /\ run'[r].stage[f] = "get"
         /\ \A g \in Files \ {f} : run'[r].stage[g] = run[r].stage[g]
<1> DEFINE sg == [run[r].stage EXCEPT ![f] = "get"]
           a == [run[r].at EXCEPT ![f] = 1]
           x == [run[r] EXCEPT !.stage = sg, !.at = a]
<1>1. run[r] \in Run
  BY DEF TypeOK
<1>2. /\ sg \in [Files -> Labels] /\ a \in [Files -> Sizes]
      /\ sg[f] = "get" /\ \A g \in Files \ {f} : sg[g] = run[r].stage[g]
  BY <1>1, PbxPullAssumption DEF Run, Labels, Sizes
<1>3. /\ x \in Run /\ x.pc = run[r].pc /\ x.size = run[r].size /\ x.stage = sg
  <2> HIDE DEF sg, a
  <2> QED BY <1>1, <1>2 DEF Run, Labels
<1>4. run' = [run EXCEPT ![r] = x]
  BY DEF OpenPart
<1> HIDE DEF x, sg, a
<1> QED BY <1>2, <1>3, <1>4, SetActs

LEMMA ReceiveActs ==
  ASSUME TypeOK, NEW r \in Runners, NEW f \in Files, Receive(r, f)
  PROVE  /\ run' \in [Runners -> Run]
         /\ \A q \in Runners \ {r} : run'[q] = run[q]
         /\ run'[r].pc = run[r].pc /\ run'[r].size = run[r].size
         /\ run'[r].stage = run[r].stage
         /\ run[r].at[f] + 1 \in Sizes
<1> DEFINE a == [run[r].at EXCEPT ![f] = run[r].at[f] + 1]
           x == [run[r] EXCEPT !.at = a]
<1>1. run[r] \in Run
  BY DEF TypeOK
<1>2. run[r].at[f] + 1 \in Sizes /\ a \in [Files -> Sizes]
  BY <1>1, PbxPullAssumption DEF Run, Sizes, Receive, TypeOK
<1>3. /\ x \in Run /\ x.pc = run[r].pc /\ x.size = run[r].size
      /\ x.stage = run[r].stage
  <2> HIDE DEF a
  <2> QED BY <1>1, <1>2 DEF Run
<1>4. run' = [run EXCEPT ![r] = x]
  BY DEF Receive
<1> HIDE DEF x, a
<1> QED BY <1>2, <1>3, <1>4, SetActs

-----------------------------------------------------------------------------
(* Type correctness                                                          *)

LEMMA RunStepType ==
  ASSUME TypeOK, NEW r \in Runners, RunStep(r) PROVE TypeOK'
<1> USE DEF disk
<1>1. CASE Steal(r)
  BY <1>1, GotoActs, OffIsRun, SetActs DEF Steal, TypeOK, Lock
<1>2. CASE Create(r)
  <2>1. run' \in [Runners -> Run]
    BY <1>2, GotoActs, OffIsRun, SetActs DEF Create
  <2>2. [held |-> TRUE, by |-> r, age |-> 0] \in Lock
    BY PbxPullAssumption DEF Lock
  <2>3. lock' \in Lock
    BY <1>2, <2>2 DEF Create, TypeOK
  <2> QED BY <1>2, <2>1, <2>3 DEF Create, TypeOK
<1>3. CASE Release(r)
  BY <1>3, OffIsRun, SetActs DEF Release, TypeOK, Lock
<1>4. CASE Connect(r)
  BY <1>4, GotoActs DEF Connect, TypeOK
<1>5. CASE ListLocal(r)
  BY <1>5, ListLocalActs DEF ListLocal, TypeOK
<1>6. CASE ListRemote(r)
  BY <1>6, ListRemoteActs DEF ListRemote, TypeOK
<1>7. CASE DayDone(r)
  BY <1>7, OnwardActs DEF DayDone, TypeOK
<1>8. ASSUME NEW f \in Files, CopyStep(r, f) PROVE TypeOK'
  <2>1. CASE OpenPart(r, f)
    <3>1. part' \in [Files -> Sizes] /\ mixed' \in SUBSET Files
      BY <2>1, PbxPullAssumption DEF OpenPart, TypeOK, Sizes
    <3> QED BY <2>1, <3>1, OpenPartActs DEF OpenPart, TypeOK
  <2>2. CASE Receive(r, f)
    BY <2>2, ReceiveActs DEF Receive, TypeOK
  <2>3. CASE ClosePart(r, f)
    BY <2>3, StageActs DEF ClosePart, TypeOK, Labels
  <2>4. CASE CheckSize(r, f)
    BY SMTT(30), <2>4, StageActs, PbxPullAssumption DEF CheckSize, GiveUp, TypeOK, Labels, Sizes
  <2>5. CASE MoveAside(r, f)
    <3>1. run' \in [Runners -> Run]
      BY <2>5, StageActs DEF MoveAside, Labels
    <3>2. local' \in [Files -> Sizes] /\ kept' \in [Files -> SUBSET Sizes]
      BY <2>5, PbxPullAssumption DEF MoveAside, TypeOK, Sizes
    <3> QED BY <2>5, <3>1, <3>2 DEF MoveAside, TypeOK
  <2>6. CASE PutInPlace(r, f)
    <3>1. run' \in [Runners -> Run]
      BY <2>6, StageActs DEF PutInPlace, GiveUp, Labels
    <3>2. local' \in [Files -> Sizes] /\ part' \in [Files -> Sizes]
      BY <2>6, PbxPullAssumption DEF PutInPlace, GiveUp, TypeOK, Sizes
    <3>3. garbled' \in SUBSET Files
      BY <2>6 DEF PutInPlace, GiveUp, TypeOK
    <3> QED BY <2>6, <3>1, <3>2, <3>3 DEF PutInPlace, GiveUp, TypeOK
  <2> QED BY <1>8, <2>1, <2>2, <2>3, <2>4, <2>5, <2>6 DEF CopyStep
<1> QED BY <1>1, <1>2, <1>3, <1>4, <1>5, <1>6, <1>7, <1>8 DEF RunStep

LEMMA OthersType ==
  ASSUME TypeOK,
         \/ \E r \in Runners, d \in Days : Start(r, d)
         \/ \E r \in Runners : Fault(r)
         \/ \E f \in Files : Grow(f) \/ Settle(f)
         \/ Tick \/ UNCHANGED vars
  PROVE  TypeOK'
<1> USE DEF disk
<1>1. ASSUME NEW r \in Runners, NEW d \in Days, Start(r, d) PROVE TypeOK'
  <2>1. run' \in [Runners -> Run]
    BY <1>1, RestingIsRun, SetActs DEF Start
  <2> QED BY <1>1, <2>1, PbxPullAssumption DEF Start, Event, TypeOK
<1>2. ASSUME NEW r \in Runners, Fault(r) PROVE TypeOK'
  <2>1. CASE Die(r)
    BY <2>1, OffIsRun, SetActs, PbxPullAssumption DEF Die, Event, TypeOK
  <2>2. CASE Stop(r)
    BY <2>2, OffIsRun, RestingIsRun, SetActs, PbxPullAssumption DEF Stop, Event, TypeOK
  <2>3. ASSUME NEW f \in Files, CopyFails(r, f) PROVE TypeOK'
    <3>1. run' \in [Runners -> Run]
      BY <2>3, StageActs DEF CopyFails, GiveUp, Labels
    <3>2. part' \in [Files -> Sizes]
      BY <2>3, PbxPullAssumption DEF CopyFails, GiveUp, TypeOK, Sizes
    <3> QED BY <2>3, <3>1, <3>2, PbxPullAssumption
         DEF CopyFails, GiveUp, Event, TypeOK
  <2> QED BY <1>2, <2>1, <2>2, <2>3 DEF Fault
<1>3. ASSUME NEW f \in Files, Grow(f) \/ Settle(f) PROVE TypeOK'
  BY <1>3, PbxPullAssumption DEF Grow, Settle, TypeOK, Sizes
<1>4. CASE Tick
  <2>1. lock' \in Lock
    <3>1. lock \in [held: {TRUE}, by: Runners, age: 0..StaleSteps]
      <4>1. lock # NoLock
        <5>1. NoLock.held = FALSE
          BY DEF NoLock
        <5> QED BY <1>4, <5>1 DEF Tick
      <4> QED BY <4>1 DEF TypeOK, Lock
    <3>2. lock.age + 1 \in 0..StaleSteps
      BY <1>4, <3>1, PbxPullAssumption DEF Tick
    <3>3. [lock EXCEPT !.age = lock.age + 1] \in Lock
      BY <3>1, <3>2 DEF Lock
    <3> QED BY <1>4, <3>3 DEF Tick
  <2> QED BY <1>4, <2>1 DEF Tick, TypeOK
<1>5. CASE UNCHANGED vars
  BY <1>5 DEF vars, TypeOK
<1> QED BY <1>1, <1>2, <1>3, <1>4, <1>5

LEMMA TypeKept == TypeOK /\ [Next]_vars => TypeOK'
BY RunStepType, OthersType DEF Next

(* Every reachable state of any number of processes, files and days is of its *)
(* type.                                                                     *)
THEOREM TypeCorrect == Spec => []TypeOK
<1>1. Init => TypeOK
  <2> SUFFICES ASSUME Init PROVE TypeOK
    OBVIOUS
  <2>1. run \in [Runners -> Run] /\ part \in [Files -> Sizes]
    BY OffIsRun DEF Init
  <2>2. lock \in Lock /\ events \in 0..MaxEvents
    BY PbxPullAssumption DEF Init, Lock
  <2> QED BY <2>1, <2>2 DEF Init, TypeOK
<1> QED BY <1>1, TypeKept, PTL DEF Spec

-----------------------------------------------------------------------------
(* One pull at a time                                                        *)

(* Two pulls inside are the same one. *)
LEMMA Alone ==
  ASSUME LockIsHeld, ~ theft, NEW r \in Runners, NEW q \in Runners,
         Inside(r), Inside(q)
  PROVE  r = q
BY DEF LockIsHeld

(* What another pull does while it is outside, or without leaving or entering *)
(* it, does not touch whose lock it is.                                      *)
LEMMA SameInsides ==
  ASSUME LockIsHeld, UNCHANGED <<lock, theft>>,
         \A q \in Runners : Inside(q)' => Inside(q)
  PROVE  LockIsHeld'
BY DEF LockIsHeld

LEMMA LockKept ==
  ASSUME TypeOK, LockIsHeld, [Next]_vars PROVE LockIsHeld'
<1> USE DEF Inside
<1>1. ASSUME NEW r \in Runners, NEW d \in Days, Start(r, d) PROVE LockIsHeld'
  <2>1. run'[r].pc \in {"steal", "create"} /\ \A q \in Runners \ {r} : run'[q] = run[q]
    BY <1>1, RestingIsRun, SetActs DEF Start
  <2>2. UNCHANGED <<lock, theft>>
    BY <1>1 DEF Start
  <2> QED BY <2>1, <2>2, SameInsides
<1>2. ASSUME NEW r \in Runners, Steal(r) PROVE LockIsHeld'
  <2>1. CASE lock.held
    <3> SUFFICES ASSUME ~ theft' PROVE \A q \in Runners : ~ Inside(q)'
      BY DEF LockIsHeld
    <3>1. ~ theft /\ ~ Inside(lock.by)
      BY <1>2, <2>1 DEF Steal
    <3>2. run'[r].pc = "create" /\ \A q \in Runners \ {r} : run'[q] = run[q]
      BY <1>2, <2>1, GotoActs DEF Steal
    <3> QED BY <3>1, <3>2 DEF LockIsHeld
  <2>2. CASE ~ lock.held
    <3>1. run'[r] = Off /\ \A q \in Runners \ {r} : run'[q] = run[q]
      BY <1>2, <2>2, OffIsRun, SetActs DEF Steal
    <3>2. UNCHANGED <<lock, theft>>
      BY <1>2, <2>2 DEF Steal
    <3> QED BY <3>1, <3>2, OffIsRun, SameInsides
  <2> QED BY <2>1, <2>2
<1>3. ASSUME NEW r \in Runners, Create(r) PROVE LockIsHeld'
  <2>1. CASE lock.held
    <3>1. run'[r] = Off /\ \A q \in Runners \ {r} : run'[q] = run[q]
      BY <1>3, <2>1, OffIsRun, SetActs DEF Create
    <3>2. UNCHANGED <<lock, theft>>
      BY <1>3, <2>1 DEF Create
    <3> QED BY <3>1, <3>2, OffIsRun, SameInsides
  <2>2. CASE ~ lock.held
    <3>1. \A q \in Runners \ {r} : run'[q] = run[q]
      BY <1>3, <2>2, GotoActs DEF Create
    <3>2. lock'.held /\ lock'.by = r /\ theft' = theft
      BY <1>3, <2>2 DEF Create
    <3> QED BY <2>2, <3>1, <3>2 DEF LockIsHeld
  <2> QED BY <2>1, <2>2
<1>4. ASSUME NEW r \in Runners, Release(r) PROVE LockIsHeld'
  <2>1. run'[r] = Off /\ \A q \in Runners \ {r} : run'[q] = run[q]
    BY <1>4, OffIsRun, SetActs DEF Release
  <2>2. theft' = theft /\ Inside(r)
    BY <1>4 DEF Release
  <2> QED BY <2>1, <2>2, OffIsRun, Alone DEF LockIsHeld
<1>5. ASSUME NEW r \in Runners, UNCHANGED <<lock, theft>>, Inside(r),
             \A q \in Runners \ {r} : run'[q] = run[q]
      PROVE  LockIsHeld'
  BY <1>5, SameInsides
<1>6. ASSUME NEW r \in Runners,
             Connect(r) \/ ListLocal(r) \/ ListRemote(r) \/ DayDone(r) \/ Stop(r)
      PROVE  LockIsHeld'
  <2>1. UNCHANGED <<lock, theft>> /\ Inside(r)
    BY <1>6 DEF Connect, ListLocal, ListRemote, DayDone, Stop
  <2>2. \A q \in Runners \ {r} : run'[q] = run[q]
    BY <1>6, GotoActs, ListLocalActs, ListRemoteActs, OnwardActs, RestingIsRun,
       OffIsRun, SetActs DEF Connect, DayDone, Stop
  <2> QED BY <1>5, <2>1, <2>2
<1>7. ASSUME NEW r \in Runners, NEW f \in Files,
             CopyStep(r, f) \/ CopyFails(r, f)
      PROVE  LockIsHeld'
  <2>1. UNCHANGED <<lock, theft>>
    BY <1>7 DEF CopyStep, OpenPart, Receive, ClosePart, CheckSize, MoveAside,
               PutInPlace, CopyFails
  <2>2. run'[r].pc = run[r].pc /\ \A q \in Runners \ {r} : run'[q] = run[q]
    BY <1>7, OpenPartActs, ReceiveActs, StageActs
       DEF CopyStep, ClosePart, CheckSize, MoveAside, PutInPlace, CopyFails,
           GiveUp, Labels
  <2> QED BY <2>1, <2>2, SameInsides
<1>8. ASSUME NEW r \in Runners, Die(r) PROVE LockIsHeld'
  <2>1. run'[r] = Off /\ \A q \in Runners \ {r} : run'[q] = run[q]
    BY <1>8, OffIsRun, SetActs DEF Die
  <2>2. UNCHANGED <<lock, theft>>
    BY <1>8 DEF Die
  <2> QED BY <2>1, <2>2, OffIsRun, SameInsides
<1>9. CASE Tick
  <2>1. lock'.held = lock.held /\ lock'.by = lock.by /\ UNCHANGED <<run, theft>>
    <3>1. lock # NoLock
      <4>1. NoLock.held = FALSE
        BY DEF NoLock
      <4> QED BY <1>9, <4>1 DEF Tick
    <3>2. lock \in [held: {TRUE}, by: Runners, age: 0..StaleSteps]
      BY <3>1 DEF TypeOK, Lock
    <3>3. lock' = [lock EXCEPT !.age = lock.age + 1]
      BY <1>9 DEF Tick
    <3> QED BY <1>9, <3>2, <3>3 DEF Tick
  <2> QED BY <2>1 DEF LockIsHeld
<1>10. CASE UNCHANGED vars \/ \E f \in Files : Grow(f) \/ Settle(f)
  <2>1. UNCHANGED <<lock, theft, run>>
    BY <1>10 DEF vars, Grow, Settle
  <2> QED BY <2>1, SameInsides
<1> QED BY <1>1, <1>2, <1>3, <1>4, <1>6, <1>7, <1>8, <1>9, <1>10
     DEF Next, RunStep, Fault

-----------------------------------------------------------------------------
(* What a pull knows                                                         *)

(* Who copies nothing, and has not just listed the archive, knows nothing. *)
LEMMA IgnorantNext ==
  ASSUME NEW q \in Runners, run'[q].pc # "remote",
         \A f \in Files : run'[q].stage[f] = "none"
  PROVE  Knows(q)'
BY DEF Knows, Active

(* While a pull is inside, whoever else there is is outside and copies        *)
(* nothing, before and after its step.                                       *)
LEMMA Bystanders ==
  ASSUME LockIsHeld, CopyInv, ~ theft, NEW r \in Runners, Inside(r),
         NEW q \in Runners \ {r}, run'[q] = run[q]
  PROVE  /\ \A f \in Files : run[q].stage[f] = "none"
         /\ Knows(q)'
<1>1. ~ Inside(q)
  BY Alone
<1>2. run[q].pc \notin {"remote", "copy"}
  BY <1>1 DEF Inside
<1>3. Knows(q)
  BY DEF CopyInv
<1>4. \A f \in Files : run[q].stage[f] = "none"
  BY <1>2, <1>3 DEF Knows, Active
<1> QED BY <1>2, <1>4, IgnorantNext

(* Nobody's knowledge is touched by a step that leaves the archive alone. *)
LEMMA Untouched ==
  ASSUME TypeOK, TypeOK', CopyInv, ~ theft, NEW q \in Runners, run'[q] = run[q],
         UNCHANGED <<local, part, mixed>>,
         \A f \in Files : remote[f] <= remote'[f]
  PROVE  Knows(q)'
<1> SUFFICES ASSUME NEW f \in Files
             PROVE  run[q].size[f] <= remote[f] => run[q].size[f] <= remote'[f]
  BY DEF Knows, Active, CopyInv
<1>1. run[q].size[f] \in Nat /\ remote[f] \in Nat /\ remote'[f] \in Nat
  BY PbxPullAssumption DEF TypeOK, Run, Sizes
<1> QED BY <1>1

(* A process that copies nothing comes, goes or waits. *)
LEMMA ComingAndGoing ==
  ASSUME TypeOK, TypeOK', CopyInv, ~ theft, NEW r \in Runners,
         UNCHANGED <<remote, disk>>,
         run'[r].pc # "remote", \A f \in Files : run'[r].stage[f] = "none",
         \A q \in Runners \ {r} : run'[q] = run[q]
  PROVE  CopyInv'
<1> USE DEF disk
<1>1. \A f \in Files : remote[f] <= remote'[f]
  BY PbxPullAssumption DEF TypeOK, Sizes
<1>2. \A q \in Runners \ {r} : Knows(q)'
  BY <1>1, Untouched
<1>3. Knows(r)'
  BY IgnorantNext
<1> QED BY <1>2, <1>3 DEF CopyInv

LEMMA NotCopying ==
  ASSUME CopyInv, ~ theft, NEW r \in Runners, run[r].pc # "copy"
  PROVE  \A f \in Files : run[r].stage[f] = "none"
BY DEF CopyInv, Knows, Active

(* Steps of a pull that copies nothing leave it so. *)
LEMMA QuietRests ==
  ASSUME TypeOK, CopyInv, ~ theft, NEW r \in Runners,
         \/ \E d \in Days : Start(r, d)
         \/ Steal(r) \/ Create(r) \/ Release(r) \/ Connect(r) \/ DayDone(r)
         \/ Stop(r) \/ Die(r)
  PROVE  /\ UNCHANGED <<remote, local, kept, part, mixed, garbled>>
         /\ run'[r].pc # "remote"
         /\ \A f \in Files : run'[r].stage[f] = "none"
         /\ \A q \in Runners \ {r} : run'[q] = run[q]
<1>0. \A f \in Files : Off.stage[f] = "none"
  BY OffIsRun
<1>1. UNCHANGED <<remote, disk>>
  BY DEF Start, Steal, Create, Release, Connect, DayDone, Stop, Die
<1> DEFINE Rests == /\ run'[r].pc # "remote"
                    /\ \A f \in Files : run'[r].stage[f] = "none"
                    /\ \A q \in Runners \ {r} : run'[q] = run[q]
<1>2. Rests
  <2>1. ASSUME NEW d \in Days, Start(r, d) PROVE Rests
    <3>1. PICK x \in Run : /\ run' = [run EXCEPT ![r] = x]
                           /\ x.pc # "remote" /\ x.stage = Off.stage
      BY <2>1, RestingIsRun DEF Start
    <3> QED BY <1>0, <3>1, SetActs
  <2>2. CASE Steal(r)
    BY <2>2, <1>0, OffIsRun, SetActs, GotoActs, NotCopying DEF Steal
  <2>3. CASE Create(r)
    BY <2>3, <1>0, OffIsRun, SetActs, GotoActs, NotCopying DEF Create
  <2>4. CASE Release(r)
    BY <2>4, OffIsRun, SetActs DEF Release
  <2>5. CASE Connect(r)
    BY <2>5, GotoActs, NotCopying DEF Connect
  <2>6. CASE DayDone(r)
    BY <2>6, <1>0, OnwardActs DEF DayDone
  <2>7. CASE Stop(r)
    <3>1. PICK x \in Run : /\ run' = [run EXCEPT ![r] = x]
                           /\ x.pc # "remote" /\ x.stage = Off.stage
      BY <2>7, OffIsRun, RestingIsRun DEF Stop
    <3> QED BY <1>0, <3>1, SetActs
  <2>8. CASE Die(r)
    BY <2>8, OffIsRun, SetActs DEF Die
  <2> QED BY <2>1, <2>2, <2>3, <2>4, <2>5, <2>6, <2>7, <2>8
<1> QED BY <1>1, <1>2 DEF disk

LEMMA QuietStepKeeps ==
  ASSUME TypeOK, TypeOK', CopyInv, ~ theft, NEW r \in Runners,
         \/ \E d \in Days : Start(r, d)
         \/ Steal(r) \/ Create(r) \/ Release(r) \/ Connect(r) \/ DayDone(r)
         \/ Stop(r) \/ Die(r)
  PROVE  CopyInv'
BY QuietRests, ComingAndGoing DEF disk

LEMMA ListLocalKeeps ==
  ASSUME TypeOK, TypeOK', CopyInv, ~ theft, NEW r \in Runners, ListLocal(r)
  PROVE  CopyInv'
<1>1. UNCHANGED <<remote, local, part, mixed, garbled>> /\ run[r].pc # "copy"
  BY DEF ListLocal, disk
<1>2. \A f \in Files : remote[f] <= remote'[f]
  BY <1>1, PbxPullAssumption DEF TypeOK, Sizes
<1>3. \A q \in Runners \ {r} : Knows(q)'
  BY <1>1, <1>2, ListLocalActs, Untouched
<1>4. Knows(r)'
  <2>1. \A f \in Files : run'[r].stage[f] = "none"
    BY <1>1, ListLocalActs, NotCopying
  <2>2. \A f \in Files : DayOf[f] = run'[r].day => run'[r].have[f] = local'[f]
    BY <1>1, ListLocalActs
  <2> QED BY <2>1, <2>2 DEF Knows, Active
<1> QED BY <1>1, <1>3, <1>4 DEF CopyInv

LEMMA ListRemoteKeeps ==
  ASSUME TypeOK, TypeOK', CopyInv, ~ theft, NEW r \in Runners, ListRemote(r)
  PROVE  CopyInv'
<1>1. UNCHANGED <<remote, disk>> /\ run[r].pc = "remote"
  BY DEF ListRemote
<1>2. CASE run'[r].pc \in {"local", "release"} /\ run'[r].stage = Off.stage
  BY <1>1, <1>2, OffIsRun, ListRemoteActs, ComingAndGoing
<1>3. CASE /\ run'[r].pc = "copy"
           /\ \A f \in Files : run'[r].stage[f] \in {"want", "none"}
           /\ \A f \in Files : run'[r].stage[f] = "want" =>
                f \in Wanted(r) /\ run'[r].size[f] = remote[f]
  <2>1. \A f \in Files : remote[f] <= remote'[f] /\ remote[f] <= remote[f]
    BY <1>1, PbxPullAssumption DEF TypeOK, Sizes
  <2>2. \A q \in Runners \ {r} : Knows(q)'
    BY <1>1, <2>1, ListRemoteActs, Untouched DEF disk
  <2>3. ASSUME NEW f \in Files, f \in Wanted(r)
        PROVE  local[f] < remote[f]
    BY <1>1, <2>3 DEF Wanted, CopyInv, Knows
  <2>4. Knows(r)'
    BY <1>1, <1>3, <2>1, <2>3 DEF Knows, Active, disk
  <2> QED BY <1>1, <2>2, <2>4 DEF CopyInv, disk
<1> QED BY <1>2, <1>3, ListRemoteActs

-----------------------------------------------------------------------------
(* Copying                                                                   *)

(* What a pull knows of one file. *)
KnowsOf(r, f) ==
  /\ Active(r, f) => run[r].pc = "copy"
  /\ run[r].pc = "remote" /\ DayOf[f] = run[r].day => run[r].have[f] = local[f]
  /\ Active(r, f) => run[r].size[f] <= remote[f] /\ local[f] < run[r].size[f]
  /\ run[r].stage[f] \in {"get", "stat", "move", "put"} => f \notin mixed
  /\ run[r].stage[f] \in {"move", "put"} => part[f] = run[r].size[f]
  /\ run[r].stage[f] = "put" => local[f] = 0

LEMMA FileByFile ==
  ASSUME NEW r \in Runners
  PROVE  Knows(r) <=> \A f \in Files : KnowsOf(r, f)
BY DEF Knows, KnowsOf

(* A step of the copy of f keeps what is known of the other files. *)
LEMMA CopyFrame ==
  ASSUME TypeOK, LockIsHeld, CopyInv, ~ theft,
         NEW r \in Runners, NEW f \in Files, run[r].stage[f] # "none",
         run'[r].pc = run[r].pc, run'[r].size = run[r].size,
         \A g \in Files \ {f} : run'[r].stage[g] = run[r].stage[g],
         \A q \in Runners \ {r} : run'[q] = run[q],
         remote' = remote, garbled' = {},
         \A g \in Files \ {f} :
           local'[g] = local[g] /\ part'[g] = part[g] /\ (g \in mixed' => g \in mixed),
         KnowsOf(r, f)'
  PROVE  CopyInv'
<1>1. run[r].pc = "copy" /\ Inside(r)
  BY DEF CopyInv, Knows, Active, Inside
<1>2. \A q \in Runners \ {r} : Knows(q)'
  BY <1>1, Bystanders
<1>3. \A g \in Files \ {f} : KnowsOf(r, g)
  BY FileByFile DEF CopyInv
<1>4. \A g \in Files \ {f} : KnowsOf(r, g)'
  BY <1>1, <1>3 DEF KnowsOf, Active
<1>5. Knows(r)'
  BY <1>4 DEF KnowsOf, Knows, Active
<1> QED BY <1>2, <1>5 DEF CopyInv

(* Nobody else has the .part open. *)
LEMMA NobodyElse ==
  ASSUME LockIsHeld, CopyInv, ~ theft, NEW r \in Runners, NEW f \in Files,
         run[r].stage[f] # "none"
  PROVE  OpenedBy(r, f) = {} /\ KnowsOf(r, f) /\ run[r].pc = "copy"
<1>1. KnowsOf(r, f)
  BY FileByFile DEF CopyInv
<1>2. run[r].pc = "copy"
  BY <1>1 DEF KnowsOf, Active
<1>3. ASSUME NEW q \in Runners \ {r} PROVE run[q].stage[f] # "get"
  <2>1. ~ Inside(q)
    BY <1>2, Alone DEF Inside
  <2> QED BY <2>1 DEF CopyInv, Knows, Active, Inside
<1> QED BY <1>1, <1>2, <1>3 DEF OpenedBy

LEMMA CopyStepKeeps ==
  ASSUME TypeOK, TypeOK', LockIsHeld, CopyInv, ~ theft,
         NEW r \in Runners, NEW f \in Files, CopyStep(r, f) \/ CopyFails(r, f)
  PROVE  CopyInv'
<1>0. garbled = {}
  BY DEF CopyInv
<1>1. run[r].stage[f] # "none"
  BY DEF CopyStep, OpenPart, Receive, ClosePart, CheckSize, MoveAside, PutInPlace,
         CopyFails
<1>2. OpenedBy(r, f) = {} /\ KnowsOf(r, f) /\ run[r].pc = "copy"
  BY <1>1, NobodyElse
<1> USE DEF disk
<1>3. CASE OpenPart(r, f)
  <2>1. KnowsOf(r, f)'
    BY <1>2, <1>3, OpenPartActs DEF OpenPart, KnowsOf, Active
  <2> QED BY <1>0, <1>1, <1>2, <1>3, <2>1, OpenPartActs, CopyFrame DEF OpenPart, TypeOK
<1>4. CASE Receive(r, f)
  <2>1. KnowsOf(r, f)'
    BY <1>2, <1>4, ReceiveActs DEF Receive, KnowsOf, Active
  <2> QED BY <1>0, <1>1, <1>4, <2>1, ReceiveActs, CopyFrame DEF Receive, TypeOK
<1>5. CASE ClosePart(r, f)
  <2>0. Stage(r, f, "stat") /\ run[r].stage[f] = "get"
    BY <1>5 DEF ClosePart
  <2>1. KnowsOf(r, f)'
    BY <1>2, <1>5, <2>0, StageActs DEF ClosePart, KnowsOf, Active, Labels
  <2> QED BY <1>0, <1>1, <1>5, <2>0, <2>1, StageActs, CopyFrame DEF ClosePart, Labels
<1>6. ASSUME GiveUp(r, f), UNCHANGED remote PROVE CopyInv'
  <2>1. KnowsOf(r, f)'
    BY <1>2, <1>6, StageActs DEF GiveUp, KnowsOf, Active, Labels
  <2> QED BY <1>0, <1>1, <1>6, <2>1, StageActs, CopyFrame DEF GiveUp, Labels, TypeOK
<1>7. CASE CheckSize(r, f)
  <2>1. CASE part[f] = run[r].size[f]
    <3>0. Stage(r, f, "move") /\ run[r].stage[f] = "stat" /\ UNCHANGED <<remote, disk>>
      BY <1>7, <2>1 DEF CheckSize
    <3>1. KnowsOf(r, f)'
      BY <1>2, <2>1, <3>0, StageActs DEF KnowsOf, Active, Labels
    <3> QED BY <1>0, <1>1, <3>0, <3>1, StageActs, CopyFrame DEF Labels
  <2>2. CASE part[f] # run[r].size[f]
    BY <1>6, <1>7, <2>2 DEF CheckSize
  <2> QED BY <2>1, <2>2
<1>8. CASE MoveAside(r, f)
  <2>0. Stage(r, f, "put") /\ run[r].stage[f] = "move"
        /\ UNCHANGED <<remote, part, mixed, garbled>>
    BY <1>8 DEF MoveAside
  <2>1. local'[f] = 0 /\ \A g \in Files \ {f} : local'[g] = local[g]
    BY <1>8 DEF MoveAside, TypeOK
  <2>2. run[r].size[f] \in Nat /\ 0 < run[r].size[f]
    BY <1>1, <1>2, PbxPullAssumption DEF KnowsOf, Active, TypeOK, Run, Sizes
  <2>3. KnowsOf(r, f)'
    BY <1>2, <2>0, <2>1, <2>2, StageActs DEF KnowsOf, Active, Labels
  <2> QED BY <1>0, <1>1, <2>0, <2>1, <2>3, StageActs, CopyFrame DEF Labels
<1>9. CASE PutInPlace(r, f)
  <2>1. CASE part[f] # 0
    <3>0. /\ Stage(r, f, "none") /\ run[r].stage[f] = "put"
          /\ UNCHANGED <<remote, mixed>>
      BY <1>2, <1>9, <2>1 DEF PutInPlace
    <3>1. f \notin mixed /\ garbled' = {}
      BY <1>0, <1>2, <1>9, <2>1, <3>0 DEF PutInPlace, KnowsOf
    <3>2. \A g \in Files \ {f} : local'[g] = local[g] /\ part'[g] = part[g]
      BY <1>2, <1>9, <2>1 DEF PutInPlace, TypeOK
    <3>3. KnowsOf(r, f)'
      BY <1>2, <3>0, StageActs DEF KnowsOf, Active, Labels
    <3> QED BY <1>1, <3>0, <3>1, <3>2, <3>3, StageActs, CopyFrame DEF Labels
  <2>2. CASE part[f] = 0
    BY <1>6, <1>9, <2>2 DEF PutInPlace
  <2> QED BY <2>1, <2>2
<1>10. CASE CopyFails(r, f)
  BY <1>6, <1>10 DEF CopyFails
<1> QED BY <1>3, <1>4, <1>5, <1>7, <1>8, <1>9, <1>10 DEF CopyStep

(* A theft is never forgotten, and only two steps touch the archive. *)
LEMMA Unstolen ==
  ASSUME TypeOK, [Next]_vars, ~ theft' PROVE ~ theft
<1>1. ASSUME NEW r \in Runners, Steal(r) PROVE ~ theft
  <2>1. CASE lock.held
    <3>1. theft' = (theft \/ Inside(lock.by))
      BY <1>1, <2>1 DEF Steal
    <3> QED BY <3>1
  <2>2. CASE ~ lock.held
    BY <1>1, <2>2 DEF Steal
  <2> QED BY <2>1, <2>2
<1>2. ASSUME NEW r \in Runners, RunStep(r) PROVE ~ theft
  BY <1>1, <1>2 DEF RunStep, CopyStep, Create, Release, Connect, ListLocal,
    ListRemote, DayDone, OpenPart, Receive, ClosePart, CheckSize, MoveAside,
    PutInPlace
<1>3. ASSUME NEW r \in Runners, Fault(r) PROVE ~ theft
  BY <1>3 DEF Fault, Stop, Die, CopyFails
<1>4. ASSUME \/ \E r \in Runners, d \in Days : Start(r, d)
             \/ \E f \in Files : Grow(f) \/ Settle(f)
             \/ Tick \/ UNCHANGED vars
      PROVE  ~ theft
  BY <1>4 DEF Start, Grow, Settle, Tick, vars
<1> QED BY <1>2, <1>3, <1>4 DEF Next

LEMMA ArchiveChanges ==
  ASSUME [Next]_vars, local' # local
  PROVE  \E r \in Runners, f \in Files : MoveAside(r, f) \/ PutInPlace(r, f)
<1> USE DEF disk
<1>1. ASSUME NEW r \in Runners, RunStep(r)
      PROVE  \E f \in Files : MoveAside(r, f) \/ PutInPlace(r, f)
  BY <1>1 DEF RunStep, CopyStep, Steal, Create, Release, Connect, ListLocal,
    ListRemote, DayDone, OpenPart, Receive, ClosePart, CheckSize, GiveUp
<1>2. ASSUME NEW r \in Runners, Fault(r) PROVE FALSE
  BY <1>2 DEF Fault, Stop, Die, CopyFails, GiveUp
<1>3. ASSUME \/ \E r \in Runners, d \in Days : Start(r, d)
             \/ \E f \in Files : Grow(f) \/ Settle(f)
             \/ Tick \/ UNCHANGED vars
      PROVE  FALSE
  BY <1>3 DEF Start, Grow, Settle, Tick, vars
<1> QED BY <1>1, <1>2, <1>3 DEF Next

LEMMA CopyKept ==
  ASSUME PullInv, TypeOK', [Next]_vars PROVE CopyInv'
<1> USE DEF PullInv
<1>1. CASE theft'
  BY <1>1 DEF CopyInv
<1>2. CASE ~ theft'
  <2>1. ~ theft
    BY <1>2, Unstolen
  <2>2. CASE UNCHANGED vars \/ Tick \/ \E f \in Files : Grow(f) \/ Settle(f)
    <3>1. UNCHANGED <<disk, run>>
      BY <2>2 DEF vars, Tick, Grow, Settle
    <3>2. \A f \in Files : remote[f] <= remote'[f]
      BY <2>2, PbxPullAssumption DEF vars, Tick, Grow, Settle, TypeOK, Sizes
    <3>3. \A q \in Runners : Knows(q)'
      BY <2>1, <3>1, <3>2, Untouched DEF disk
    <3> QED BY <2>1, <3>1, <3>3 DEF CopyInv, disk
  <2> QED BY <2>1, <2>2, QuietStepKeeps, ListLocalKeeps, ListRemoteKeeps, CopyStepKeeps
       DEF Next, RunStep, Fault
<1> QED BY <1>1, <1>2

LEMMA PullInvKept == PullInv /\ [Next]_vars => PullInv'
BY TypeKept, LockKept, CopyKept DEF PullInv

(* Two pulls are never inside together, and what a pull has listed and         *)
(* received stays true, unless a lock was removed from under a pull that went *)
(* on.                                                                       *)
THEOREM PullInvHolds == Spec => []PullInv
<1>1. Init => PullInv
  <2> SUFFICES ASSUME Init PROVE PullInv
    OBVIOUS
  <2>1. TypeOK
    <3>1. run \in [Runners -> Run] /\ part \in [Files -> Sizes]
      BY OffIsRun DEF Init
    <3>2. lock \in Lock /\ events \in 0..MaxEvents
      BY PbxPullAssumption DEF Init, Lock
    <3> QED BY <3>1, <3>2 DEF Init, TypeOK
  <2>2. \A r \in Runners : run[r].pc = "off" /\ \A f \in Files : run[r].stage[f] = "none"
    BY OffIsRun DEF Init
  <2> QED BY <2>1, <2>2 DEF Init, PullInv, LockIsHeld, CopyInv, Inside, Knows, Active
<1> QED BY <1>1, PullInvKept, PTL DEF Spec

(* A copy in the archive gives way only to a longer one and is kept, and what *)
(* takes its place is whole.                                                 *)
THEOREM OnlyTheShortGivesWayHolds == Spec => OnlyTheShortGivesWay
<1> DEFINE Right(f) ==
      local'[f] # local[f] /\ ~ theft =>
        \E r \in Runners :
          /\ local[f] < run[r].size[f]
          /\ local[f] # 0 => local[f] \in kept'[f]
          /\ local'[f] \in {0, run[r].size[f]} /\ local'[f] <= remote[f]
<1>1. ASSUME PullInv, [Next]_vars, NEW f \in Files PROVE Right(f)
  <2> SUFFICES ASSUME local'[f] # local[f], ~ theft PROVE Right(f)
    OBVIOUS
  <2> USE <1>1 DEF PullInv, disk
  <2>1. PICK r \in Runners, g \in Files : MoveAside(r, g) \/ PutInPlace(r, g)
    BY ArchiveChanges
  <2>2. g = f
    BY <2>1 DEF MoveAside, PutInPlace, GiveUp, TypeOK
  <2>3. KnowsOf(r, f) /\ Active(r, f)
    BY <2>1, <2>2, NobodyElse DEF MoveAside, PutInPlace, Active
  <2>4. /\ local[f] < run[r].size[f] /\ run[r].size[f] <= remote[f]
        /\ remote[f] \in Nat
    BY <2>3, PbxPullAssumption DEF KnowsOf, TypeOK, Sizes
  <2>5. CASE MoveAside(r, f)
    <3>1. local'[f] = 0 /\ (local[f] # 0 => local[f] \in kept'[f])
      BY <2>5 DEF MoveAside, TypeOK
    <3> QED BY <2>4, <3>1
  <2>6. CASE PutInPlace(r, f)
    <3>1. part[f] = run[r].size[f] /\ local[f] = 0
      BY <2>3, <2>6 DEF PutInPlace, KnowsOf
    <3>2. local'[f] = part[f]
      BY <2>6 DEF PutInPlace, GiveUp, TypeOK
    <3> QED BY <2>4, <3>1, <3>2
  <2> QED BY <2>1, <2>2, <2>5, <2>6
<1>2. PullInv /\ [Next]_vars => [\A f \in Files : Right(f)]_vars
  BY <1>1
<1> QED BY <1>2, PullInvHolds, PTL DEF Spec, OnlyTheShortGivesWay

-----------------------------------------------------------------------------
(* The archive only ever gains copies                                        *)

(* A copy set aside is shorter than what the PBX has, and than what a pull    *)
(* that has listed the PBX since then is bringing.                           *)
ShorterThanComing(f) ==
  \A k \in kept[f] :
    /\ 0 < k /\ k < remote[f]
    /\ \A r \in Runners : Active(r, f) => k < run[r].size[f]

AsideInv == ~ theft => \A f \in Files : ShorterThanComing(f)

ArchiveInv == PullInv /\ AsideInv

(* Nothing is set aside, the PBX's files only grow, and no pull takes up the  *)
(* file or changes its mind about the size.                                  *)
LEMMA AsideFrame ==
  ASSUME TypeOK, TypeOK', NEW f \in Files, ShorterThanComing(f),
         kept'[f] = kept[f], remote[f] <= remote'[f],
         \A r \in Runners : Active(r, f)' =>
           Active(r, f) /\ run'[r].size[f] = run[r].size[f]
  PROVE  ShorterThanComing(f)'
<1>1. remote[f] \in Nat /\ remote'[f] \in Nat /\ kept[f] \in SUBSET Nat
  BY PbxPullAssumption DEF TypeOK, Sizes
<1> QED BY <1>1 DEF ShorterThanComing

(* Steps of a process that end with nothing being copied by it. *)
LEMMA AsideWhenQuiet ==
  ASSUME TypeOK, TypeOK', AsideInv, ~ theft, NEW r \in Runners,
         UNCHANGED <<kept, remote>>,
         \A f \in Files : run'[r].stage[f] = "none",
         \A q \in Runners \ {r} : run'[q] = run[q]
  PROVE  AsideInv'
<1> SUFFICES ASSUME NEW f \in Files PROVE ShorterThanComing(f)'
  BY DEF AsideInv
<1>1. remote[f] <= remote'[f]
  BY PbxPullAssumption DEF TypeOK, Sizes
<1>2. \A q \in Runners : Active(q, f)' => Active(q, f) /\ run'[q].size[f] = run[q].size[f]
  BY DEF Active
<1> QED BY <1>1, <1>2, AsideFrame DEF AsideInv

LEMMA ListRemoteKeepsAside ==
  ASSUME TypeOK, TypeOK', AsideInv, ~ theft, NEW r \in Runners, ListRemote(r)
  PROVE  AsideInv'
<1>1. UNCHANGED <<kept, remote>>
  BY DEF ListRemote, disk
<1>2. CASE run'[r].stage = Off.stage
  BY <1>1, <1>2, OffIsRun, ListRemoteActs, AsideWhenQuiet
<1>3. CASE \A f \in Files : run'[r].stage[f] = "want" => run'[r].size[f] = remote[f]
  <2> SUFFICES ASSUME NEW f \in Files, NEW k \in kept'[f]
               PROVE  /\ 0 < k /\ k < remote'[f]
                      /\ \A q \in Runners : Active(q, f)' => k < run'[q].size[f]
    BY DEF AsideInv, ShorterThanComing
  <2>1. /\ 0 < k /\ k < remote[f]
        /\ \A q \in Runners : Active(q, f) => k < run[q].size[f]
    BY <1>1 DEF AsideInv, ShorterThanComing
  <2>2. \A q \in Runners \ {r} : Active(q, f)' => k < run'[q].size[f]
    BY <2>1, ListRemoteActs DEF Active
  <2>3. Active(r, f)' => k < run'[r].size[f]
    BY <1>3, <2>1, ListRemoteActs, OffIsRun DEF Active
  <2> QED BY <1>1, <2>1, <2>2, <2>3
<1> QED BY <1>2, <1>3, ListRemoteActs

LEMMA CopyStepKeepsAside ==
  ASSUME TypeOK, TypeOK', LockIsHeld, CopyInv, AsideInv, ~ theft,
         NEW r \in Runners, NEW f \in Files, CopyStep(r, f) \/ CopyFails(r, f)
  PROVE  AsideInv'
<1>1. run[r].stage[f] # "none" /\ UNCHANGED remote
  BY DEF CopyStep, OpenPart, Receive, ClosePart, CheckSize, MoveAside, PutInPlace,
         CopyFails, disk
<1>2. KnowsOf(r, f)
  BY <1>1, NobodyElse
<1> DEFINE Goes == /\ run'[r].size = run[r].size
                   /\ \A q \in Runners \ {r} : run'[q] = run[q]
                   /\ \A g \in Files \ {f} : run'[r].stage[g] = run[r].stage[g]
<1>3. Goes
  <2>1. ASSUME NEW l \in Labels, Stage(r, f, l) PROVE Goes
    BY <2>1, StageActs
  <2>2. CASE OpenPart(r, f)
    BY <2>2, OpenPartActs
  <2>3. CASE Receive(r, f)
    BY <2>3, ReceiveActs
  <2>4. CASE \/ ClosePart(r, f) \/ CheckSize(r, f) \/ MoveAside(r, f)
             \/ PutInPlace(r, f) \/ CopyFails(r, f)
    BY <2>1, <2>4 DEF ClosePart, CheckSize, MoveAside, PutInPlace, CopyFails,
      GiveUp, Labels
  <2> QED BY <2>2, <2>3, <2>4 DEF CopyStep
<1>4. \A g \in Files, q \in Runners : Active(q, g)' =>
        Active(q, g) /\ run'[q].size[g] = run[q].size[g]
  BY <1>1, <1>3 DEF Active
<1>5. \A g \in Files : remote[g] <= remote'[g]
  BY <1>1, PbxPullAssumption DEF TypeOK, Sizes
<1>6. CASE UNCHANGED kept
  BY <1>4, <1>5, <1>6, AsideFrame DEF AsideInv
<1>7. CASE kept' = [kept EXCEPT ![f] = @ \cup {local[f]}] /\ local[f] # 0
  <2>1. \A g \in Files \ {f} : kept'[g] = kept[g]
    BY <1>7 DEF TypeOK
  <2>2. kept'[f] = kept[f] \cup {local[f]}
    BY <1>7 DEF TypeOK
  <2>3. /\ 0 < local[f] /\ local[f] < remote'[f]
        /\ local[f] < run[r].size[f]
    BY <1>1, <1>2, <1>7, PbxPullAssumption DEF KnowsOf, Active, TypeOK, Run, Sizes
  <2>4. \A q \in Runners : Active(q, f)' => q = r
    <3>1. \A q \in Runners : Active(q, f) => Inside(q)
      BY DEF CopyInv, Knows, Active, Inside
    <3> QED BY <1>1, <1>4, <3>1, Alone DEF Active
  <2>5. ShorterThanComing(f)'
    <3> SUFFICES ASSUME NEW k \in kept'[f]
                 PROVE  /\ 0 < k /\ k < remote'[f]
                        /\ \A q \in Runners : Active(q, f)' => k < run'[q].size[f]
      BY DEF ShorterThanComing
    <3>1. CASE k \in kept[f]
      BY <1>1, <1>4, <3>1 DEF AsideInv, ShorterThanComing
    <3>2. CASE k = local[f]
      BY <1>3, <2>3, <2>4, <3>2
    <3> QED BY <2>2, <3>1, <3>2
  <2>6. \A g \in Files \ {f} : ShorterThanComing(g)'
    BY <1>4, <1>5, <2>1, AsideFrame DEF AsideInv
  <2> QED BY <2>5, <2>6 DEF AsideInv
<1>8. kept' = kept \/ (kept' = [kept EXCEPT ![f] = @ \cup {local[f]}] /\ local[f] # 0)
  BY DEF CopyStep, OpenPart, Receive, ClosePart, CheckSize, MoveAside, PutInPlace,
         CopyFails, GiveUp, disk
<1> QED BY <1>6, <1>7, <1>8

LEMMA AsideKept ==
  ASSUME PullInv, TypeOK', AsideInv, [Next]_vars PROVE AsideInv'
<1> USE DEF PullInv
<1>1. CASE theft'
  BY <1>1 DEF AsideInv
<1>2. CASE ~ theft'
  <2>1. ~ theft
    BY <1>2, Unstolen
  <2>2. CASE UNCHANGED vars \/ Tick \/ \E f \in Files : Grow(f) \/ Settle(f)
    <3>1. UNCHANGED <<kept, run>>
      BY <2>2 DEF vars, disk, Tick, Grow, Settle
    <3>2. \A f \in Files : remote[f] <= remote'[f]
      BY <2>2, PbxPullAssumption DEF vars, Tick, Grow, Settle, TypeOK, Sizes
    <3>3. \A f \in Files : ShorterThanComing(f)'
      BY <2>1, <3>1, <3>2, AsideFrame DEF AsideInv, Active
    <3> QED BY <3>3 DEF AsideInv
  <2>3. ASSUME NEW r \in Runners,
               \/ \E d \in Days : Start(r, d)
               \/ Steal(r) \/ Create(r) \/ Release(r) \/ Connect(r) \/ DayDone(r)
               \/ Stop(r) \/ Die(r)
        PROVE  AsideInv'
    BY <2>1, <2>3, QuietRests, AsideWhenQuiet
  <2>4. ASSUME NEW r \in Runners, ListLocal(r) PROVE AsideInv'
    <3>1. UNCHANGED <<kept, remote>> /\ run[r].pc # "copy"
      BY <2>4 DEF ListLocal, disk
    <3> QED BY <2>1, <2>4, <3>1, ListLocalActs, NotCopying, AsideWhenQuiet
  <2> QED BY <2>1, <2>2, <2>3, <2>4, ListRemoteKeepsAside, CopyStepKeepsAside
       DEF Next, RunStep, Fault
<1> QED BY <1>1, <1>2

(* The invariant the refinement rests on: with PullInv, what is set aside is  *)
(* shorter than whatever may still take its place.                           *)
THEOREM ArchiveInvHolds == Spec => []ArchiveInv
<1>1. Init => AsideInv
  BY DEF Init, AsideInv, ShorterThanComing
<1>2. PullInv /\ AsideInv /\ [Next]_vars => AsideInv'
  BY AsideKept, PullInvKept DEF PullInv
<1> QED BY <1>1, <1>2, PullInvHolds, PTL DEF Spec, ArchiveInv

-----------------------------------------------------------------------------
(* PbxPull implements Archive                                                *)

Copies == [f \in Files |-> kept[f] \cup ({local[f]} \ {0})]

(* The steps the archive can see. *)
LEMMA SeenByTheArchive ==
  ASSUME [Next]_vars
  PROVE  \/ UNCHANGED <<remote, local, kept, theft>>
         \/ \E f \in Files : Grow(f)
         \/ \E r \in Runners : Steal(r)
         \/ \E r \in Runners, f \in Files : MoveAside(r, f) \/ PutInPlace(r, f)
<1> USE DEF disk
<1>1. ASSUME NEW r \in Runners, RunStep(r)
      PROVE  \/ UNCHANGED <<remote, local, kept, theft>> \/ Steal(r)
             \/ \E f \in Files : MoveAside(r, f) \/ PutInPlace(r, f)
  BY <1>1 DEF RunStep, CopyStep, Create, Release, Connect, ListLocal,
    ListRemote, DayDone, OpenPart, Receive, ClosePart, CheckSize, GiveUp
<1>2. ASSUME NEW r \in Runners, Fault(r)
      PROVE  UNCHANGED <<remote, local, kept, theft>>
  BY <1>2 DEF Fault, Stop, Die, CopyFails, GiveUp
<1>3. ASSUME \/ \E r \in Runners, d \in Days : Start(r, d)
             \/ \E f \in Files : Settle(f)
             \/ Tick \/ UNCHANGED vars
      PROVE  UNCHANGED <<remote, local, kept, theft>>
  BY <1>3 DEF Start, Settle, Tick, vars
<1> QED BY <1>1, <1>2, <1>3 DEF Next

(* A copy set aside is still a copy; there is an empty place only if there    *)
(* was one already or the copy in it is shorter than the PBX's.              *)
LEMMA MoveAsideSetsAside ==
  ASSUME ArchiveInv, ~ theft, NEW r \in Runners, NEW f \in Files, MoveAside(r, f)
  PROVE  \/ UNCHANGED <<remote, local, kept, theft>>
         \/ Arc!SetAside(f)
<1> USE DEF ArchiveInv, PullInv
<1>1. CASE local[f] = 0
  BY <1>1 DEF MoveAside, TypeOK
<1>2. CASE local[f] # 0
  <2>1. KnowsOf(r, f) /\ Active(r, f)
    BY NobodyElse DEF MoveAside, Active
  <2>2. local[f] < remote[f]
    BY <2>1, PbxPullAssumption DEF KnowsOf, TypeOK, Run, Sizes
  <2>3. UNCHANGED <<remote, theft>> /\ local' = [local EXCEPT ![f] = 0]
    BY DEF MoveAside
  <2>4. Copies' = Copies
    <3>1. kept'[f] = kept[f] \cup {local[f]} /\ local'[f] = 0
      BY <1>2 DEF MoveAside, TypeOK
    <3>2. \A g \in Files \ {f} : kept'[g] = kept[g] /\ local'[g] = local[g]
      BY <1>2 DEF MoveAside, TypeOK
    <3>3. kept'[f] \cup ({local'[f]} \ {0}) = kept[f] \cup ({local[f]} \ {0})
      BY <1>2, <3>1
    <3>4. \A g \in Files : kept'[g] \cup ({local'[g]} \ {0})
                           = kept[g] \cup ({local[g]} \ {0})
      BY <3>2, <3>3
    <3> QED BY <3>4 DEF Copies
  <2> QED BY <1>2, <2>2, <2>3, <2>4 DEF Arc!SetAside, Copies
<1> QED BY <1>1, <1>2

LEMMA PutInPlaceDelivers ==
  ASSUME ArchiveInv, ~ theft, NEW r \in Runners, NEW f \in Files, PutInPlace(r, f)
  PROVE  \/ UNCHANGED <<remote, local, kept, theft>>
         \/ \E n \in Arc!Lengths : Arc!Deliver(f, n)
<1> USE DEF ArchiveInv, PullInv
<1>1. OpenedBy(r, f) = {} /\ KnowsOf(r, f) /\ Active(r, f)
  BY NobodyElse DEF PutInPlace, Active
<1>2. CASE part[f] = 0
  BY <1>2 DEF PutInPlace, GiveUp
<1>3. CASE part[f] # 0
  <2>0. PICK n \in Sizes : n = run[r].size[f]
    BY DEF TypeOK, Run
  <2>1. part[f] = n /\ local[f] = 0
    BY <1>1, <2>0 DEF PutInPlace, KnowsOf
  <2>2. 0 < n /\ n <= remote[f]
    BY <1>1, <2>0, <2>1, PbxPullAssumption DEF KnowsOf, TypeOK, Sizes
  <2>3. UNCHANGED <<remote, kept, theft>> /\ local' = [local EXCEPT ![f] = n]
    BY <1>1, <1>3, <2>1 DEF PutInPlace
  <2>4. \A k \in kept[f] : k < n
    BY <1>1, <2>0 DEF AsideInv, ShorterThanComing
  <2>5. Copies[f] = kept[f]
    BY <2>1 DEF Copies
  <2>6. Copies' = [Copies EXCEPT ![f] = @ \cup {n}]
    <3>1. local'[f] = n /\ \A g \in Files \ {f} : local'[g] = local[g]
      BY <2>3 DEF TypeOK
    <3>2. \A g \in Files : kept'[g] \cup ({local'[g]} \ {0})
            = IF g = f THEN kept[f] \cup {n} ELSE kept[g] \cup ({local[g]} \ {0})
      BY <2>2, <2>3, <3>1
    <3>3. Copies' = [g \in Files |->
                       IF g = f THEN kept[f] \cup {n}
                       ELSE kept[g] \cup ({local[g]} \ {0})]
      BY <3>2 DEF Copies
    <3> QED BY <2>5, <3>3 DEF Copies
  <2>7. Arc!Deliver(f, n)
    BY <2>1, <2>2, <2>3, <2>4, <2>5, <2>6 DEF Arc!Deliver, Copies
  <2> QED BY <2>7 DEF Arc!Lengths, Sizes
<1> QED BY <1>2, <1>3

LEMMA StepsOfTheArchive ==
  ASSUME ArchiveInv, [Next]_vars PROVE [Arc!ArcNext]_(Arc!archiveVars)
<1> USE DEF ArchiveInv, PullInv
<1>0. ASSUME UNCHANGED <<remote, local, kept, theft>> PROVE UNCHANGED Arc!archiveVars
  BY <1>0 DEF Arc!archiveVars
<1>1. CASE theft
  <2>1. theft'
    BY <1>1, Unstolen
  <2> QED BY <1>1, <2>1 DEF Arc!ArcNext
<1>2. CASE ~ theft
  <2>1. ASSUME NEW f \in Files, Grow(f) PROVE Arc!ArcNext
    <3>1. Arc!Record(f)
      <4>1. UNCHANGED <<local, kept, theft>>
        BY <2>1 DEF Grow, disk
      <4>2. /\ remote[f] + 1 \in Arc!Lengths /\ remote[f] < remote[f] + 1
            /\ remote' = [remote EXCEPT ![f] = remote[f] + 1]
        BY <2>1, PbxPullAssumption DEF Grow, TypeOK, Sizes, Arc!Lengths
      <4>3. \E n \in Arc!Lengths : remote[f] < n /\ remote' = [remote EXCEPT ![f] = n]
        BY <4>2
      <4> QED BY <4>1, <4>3 DEF Arc!Record
    <3> QED BY <3>1 DEF Arc!ArcNext
  <2>2. ASSUME NEW r \in Runners, Steal(r)
        PROVE  Arc!ArcNext \/ UNCHANGED Arc!archiveVars
    <3>1. UNCHANGED <<remote, local, kept>>
      BY <2>2 DEF Steal, disk
    <3>2. theft' \in BOOLEAN
      BY <2>2, TypeKept DEF TypeOK
    <3>3. CASE theft' = FALSE
      BY <1>0, <1>2, <3>1, <3>3 DEF TypeOK
    <3>4. CASE theft' = TRUE
      BY <3>1, <3>4 DEF Arc!ArcNext, Arc!Breach
    <3> QED BY <3>2, <3>3, <3>4
  <2>3. ASSUME NEW r \in Runners, NEW f \in Files, MoveAside(r, f) \/ PutInPlace(r, f)
        PROVE  Arc!ArcNext \/ UNCHANGED Arc!archiveVars
    BY <1>0, <1>2, <2>3, MoveAsideSetsAside, PutInPlaceDelivers DEF Arc!ArcNext
  <2> QED BY <1>0, <2>1, <2>2, <2>3, SeenByTheArchive
<1> QED BY <1>1, <1>2

(* Every behaviour of the pulls is one the archive promises: until two pulls  *)
(* are at work at once, no copy is ever lost, and a place is taken only by a  *)
(* copy longer than all before it (pbxpull.py:17-24, 185-205).               *)
THEOREM ImplementsArchiveHolds == Spec => ImplementsArchive
<1>1. Init => Arc!ArcInit
  <2> SUFFICES ASSUME Init PROVE Arc!ArcInit
    OBVIOUS
  <2>1. [f \in Files |-> kept[f] \cup ({local[f]} \ {0})]
        = [f \in Files |-> {local[f]} \ {0}]
    BY DEF Init
  <2> QED BY <2>1 DEF Init, Arc!ArcInit, Arc!Lengths, Sizes
<1> QED BY <1>1, StepsOfTheArchive, ArchiveInvHolds, PTL
     DEF Spec, ImplementsArchive, Arc!ArcSpec

=============================================================================
