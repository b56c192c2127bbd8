------------------------------ MODULE PbxPull ------------------------------
(***************************************************************************)
(* Pulling recordings from a PBX onto the archive drive                      *)
(* (televault/pbxpull.py: _lock, run, pull_source, _pull_file).              *)
(*                                                                           *)
(* A pull is a process: the scheduled task's, of which there is one at a     *)
(* time, or one that an operator starts by hand.  Only the lock file keeps   *)
(* two pulls apart, and they may be killed anywhere.  A recording on the PBX *)
(* only grows, so its size stands for its content.                           *)
(***************************************************************************)
EXTENDS Naturals, FiniteSets

CONSTANTS
  Files,
  LastDay,      \* day folders are numbered 1 .. LastDay, oldest first
  DayOf,        \* [Files -> 1..LastDay]
  Runners,      \* processes that may call run
  Task,         \* the scheduled task, one of the Runners
  MaxSize,      \* bound: the largest size; 1 is the empty file, 0 is none
  StaleSteps,   \* LOCK_STALE_SECONDS
  MaxEvents     \* bound: failures, deaths and pulls by hand

ASSUME PbxPullAssumption ==
  /\ LastDay \in Nat \ {0} /\ DayOf \in [Files -> 1..LastDay]
  /\ Task \in Runners
  /\ MaxSize \in Nat \ {0} /\ StaleSteps \in Nat \ {0} /\ MaxEvents \in Nat

VARIABLES
  remote,   \* sizes on the PBX
  still,    \* files that have not changed for pbx_min_age_minutes
  local,    \* sizes in the archive
  kept,     \* sizes of the copies kept as .replaced-<date>
  part,     \* sizes of the .part files
  lock,     \* pbxpull.lock
  run,      \* the local state of each process
  events,   \* failures, deaths and pulls by hand so far
  theft,    \* history: the lock of a pull that goes on has been removed
  mixed,    \* history: .part files that two pulls wrote at the same time
  garbled   \* history: archive files made of such a .part

disk == <<local, kept, part, mixed, garbled>>
vars == <<remote, still, disk, lock, run, events, theft>>

-----------------------------------------------------------------------------
(* Types                                                                     *)

Days == 1..LastDay
Sizes == 0..MaxSize
NoSizes == [f \in Files |-> 0]

NoLock == [held |-> FALSE]
Lock == {NoLock} \cup [held: {TRUE}, by: Runners, age: 0..StaleSteps]

(* have and size are what the day's folders held when they were listed; a     *)
(* file not to be copied, or not any more, is at stage "none".               *)
Run == [pc: {"off", "steal", "create", "open", "local", "remote", "copy",
             "release"},
        day: Days, have: [Files -> Sizes], size: [Files -> Sizes],
        at: [Files -> Sizes],                       \* received so far
        stage: [Files -> {"none", "want", "get", "stat", "move", "put"}]]

Off == [pc |-> "off", day |-> 1, have |-> NoSizes, size |-> NoSizes,
        at |-> NoSizes, stage |-> [f \in Files |-> "none"]]

(* A process that is not copying. *)
Resting(label, d) == [Off EXCEPT !.pc = label, !.day = d]

TypeOK ==
  /\ remote \in [Files -> Sizes] /\ local \in [Files -> Sizes]
  /\ part \in [Files -> Sizes] /\ kept \in [Files -> SUBSET Sizes]
  /\ still \in SUBSET Files /\ mixed \in SUBSET Files /\ garbled \in SUBSET Files
  /\ lock \in Lock
  /\ run \in [Runners -> Run]
  /\ events \in 0..MaxEvents
  /\ theft \in BOOLEAN

-----------------------------------------------------------------------------
(* Helpers                                                                   *)

Inside(r) == run[r].pc \in {"open", "local", "remote", "copy", "release"}

(* Processes other than r that have the .part of f open: on Windows nobody    *)
(* can rename or delete it then.                                             *)
OpenedBy(r, f) == {q \in Runners \ {r} : run[q].stage[f] = "get"}

Event == events < MaxEvents /\ events' = events + 1
Goto(r, label) == run' = [run EXCEPT ![r].pc = label]

(* The folder is done: the next day, or the end of this PBX. *)
Onward(r) ==
  run' = [run EXCEPT ![r] =
            IF run[r].day + 1 \in Days
            THEN Resting("local", run[r].day + 1) ELSE Resting("release", 1)]

Stage(r, f, label) == run' = [run EXCEPT ![r].stage[f] = label]

-----------------------------------------------------------------------------
(* The lock                                                                  *)

(* A pull by the schedule or by hand of everything, or from a recent day on:  *)
(* the lock file is there and older than a day, or not.                      *)
StartNeverSteals(r, d) ==   \* planted fault: a stale lock stays
  /\ run[r].pc = "off"
  /\ run' = [run EXCEPT ![r] = Resting("create", d)]
  /\ IF r = Task THEN UNCHANGED events ELSE Event
  /\ UNCHANGED <<remote, still, disk, lock, theft>>
Start(r, d) ==
  /\ run[r].pc = "off"
  /\ run' = [run EXCEPT ![r] =
               Resting(IF lock.held /\ lock.age = StaleSteps
                       THEN "steal" ELSE "create", d)]
  /\ IF r = Task THEN UNCHANGED events ELSE Event
  /\ UNCHANGED <<remote, still, disk, lock, theft>>

(* p.unlink(): whatever lock is there now; without one the process ends with  *)
(* an exception.                                                             *)
Steal(r) ==
  /\ run[r].pc = "steal"
  /\ IF lock.held
     THEN /\ lock' = NoLock /\ theft' = (theft \/ Inside(lock.by))
          /\ Goto(r, "create")
     ELSE /\ run' = [run EXCEPT ![r] = Off] /\ UNCHANGED <<lock, theft>>
  /\ UNCHANGED <<remote, still, disk, events>>

(* O_CREAT | O_EXCL: "another pull is still running" if the file is there. *)
CreateAnyway(r) ==          \* planted fault: without O_EXCL
  /\ run[r].pc = "create"
  /\ lock' = [held |-> TRUE, by |-> r, age |-> 0] /\ Goto(r, "open")
  /\ UNCHANGED <<remote, still, disk, events, theft>>
Create(r) ==
  /\ run[r].pc = "create"
  /\ IF lock.held
     THEN run' = [run EXCEPT ![r] = Off] /\ UNCHANGED lock
     ELSE lock' = [held |-> TRUE, by |-> r, age |-> 0] /\ Goto(r, "open")
  /\ UNCHANGED <<remote, still, disk, events, theft>>

(* The finally clause: whoever's lock it is. *)
Release(r) ==
  /\ run[r].pc = "release"
  /\ lock' = NoLock /\ run' = [run EXCEPT ![r] = Off]
  /\ UNCHANGED <<remote, still, disk, events, theft>>

-----------------------------------------------------------------------------
(* pull_source                                                               *)

(* The PBX is enabled and trusted, the drive is the right one, and the PBX    *)
(* answers.                                                                  *)
Connect(r) ==
  /\ run[r].pc = "open" /\ Goto(r, "local")
  /\ UNCHANGED <<remote, still, disk, lock, events, theft>>

(* Or the pull stops: one of those is not so, the time limit is reached, the  *)
(* drive is full, there were too many errors, a folder cannot be listed.     *)
Stop(r) ==
  /\ run[r].pc \in {"open", "local", "remote"} /\ Event
  /\ run' = [run EXCEPT ![r] = Resting("release", 1)]
  /\ UNCHANGED <<remote, still, disk, lock, theft>>

(* _local_sizes of the day's folder ... *)
ListLocal(r) ==
  /\ run[r].pc = "local"
  /\ run' = [run EXCEPT ![r] =
               [@ EXCEPT !.pc = "remote",
                         !.have = [f \in Files |-> IF DayOf[f] = run[r].day
                                                   THEN local[f] ELSE 0]]]
  /\ UNCHANGED <<remote, still, disk, lock, events, theft>>

(* ... and the PBX's: absent or smaller in the archive, and not in progress. *)
ListRemoteBlindly(r) ==     \* planted fault: larger local copies too
  LET todo == {f \in still : /\ DayOf[f] = run[r].day /\ remote[f] # 0
                             /\ run[r].have[f] # remote[f]}
  IN /\ run[r].pc = "remote"
     /\ IF todo = {} THEN Onward(r)
        ELSE run' = [run EXCEPT ![r] =
               [@ EXCEPT !.pc = "copy",
                         !.size = [f \in Files |-> IF f \in todo THEN remote[f] ELSE 0],
                         !.stage = [f \in Files |-> IF f \in todo THEN "want" ELSE "none"]]]
     /\ UNCHANGED <<remote, still, disk, lock, events, theft>>
ListRemote(r) ==
  LET todo == {f \in still : DayOf[f] = run[r].day /\ run[r].have[f] < remote[f]}
  IN /\ run[r].pc = "remote"
     /\ IF todo = {} THEN Onward(r)
        ELSE run' = [run EXCEPT ![r] =
               [@ EXCEPT !.pc = "copy",
                         !.size = [f \in Files |-> IF f \in todo THEN remote[f] ELSE 0],
                         !.stage = [f \in Files |-> IF f \in todo THEN "want" ELSE "none"]]]
     /\ UNCHANGED <<remote, still, disk, lock, events, theft>>

(* asyncio.gather has returned. *)
DayDone(r) ==
  /\ run[r].pc = "copy" /\ \A f \in Files : run[r].stage[f] = "none"
  /\ Onward(r)
  /\ UNCHANGED <<remote, still, disk, lock, events, theft>>

-----------------------------------------------------------------------------
(* _pull_file, of several files at the same time                             *)

(* sftp.get opens and truncates the .part ... *)
OpenPart(r, f) ==
  /\ run[r].stage[f] = "want"
  /\ part' = [part EXCEPT ![f] = 1]
  /\ run' = [run EXCEPT ![r].stage[f] = "get", ![r].at[f] = 1]
  /\ mixed' = IF OpenedBy(r, f) = {} THEN mixed \ {f} ELSE mixed \cup {f}
  /\ UNCHANGED <<remote, still, local, kept, lock, events, theft, garbled>>

(* ... writes what it receives where it belongs ... *)
Receive(r, f) ==
  /\ run[r].stage[f] = "get" /\ run[r].at[f] < remote[f]
  /\ run' = [run EXCEPT ![r].at[f] = @ + 1]
  /\ part' = [part EXCEPT ![f] = IF @ > run[r].at[f] THEN @ ELSE run[r].at[f] + 1]
  /\ UNCHANGED <<remote, still, local, kept, lock, events, theft, mixed, garbled>>

(* ... and closes it at the end of the PBX's file. *)
ClosePart(r, f) ==
  /\ run[r].stage[f] = "get" /\ run[r].at[f] = remote[f]
  /\ Stage(r, f, "stat")
  /\ UNCHANGED <<remote, still, disk, lock, events, theft>>

(* An error of this file: the .part is deleted unless it cannot be. *)
GiveUp(r, f) ==
  /\ Stage(r, f, "none")
  /\ part' = IF OpenedBy(r, f) = {} THEN [part EXCEPT ![f] = 0] ELSE part
  /\ UNCHANGED <<local, kept, mixed, garbled>>

CheckSize(r, f) ==
  /\ run[r].stage[f] = "stat"
  /\ IF part[f] = run[r].size[f]
     THEN Stage(r, f, "move") /\ UNCHANGED disk
     ELSE GiveUp(r, f)
  /\ UNCHANGED <<remote, still, lock, events, theft>>

(* A copy that is there is kept under another name. *)
MoveAsideOver(r, f) ==      \* planted fault: in place of what was kept before
  /\ run[r].stage[f] = "move"
  /\ kept' = IF local[f] = 0 THEN kept ELSE [kept EXCEPT ![f] = {local[f]}]
  /\ local' = [local EXCEPT ![f] = 0]
  /\ Stage(r, f, "put")
  /\ UNCHANGED <<remote, still, part, lock, events, theft, mixed, garbled>>
MoveAside(r, f) ==
  /\ run[r].stage[f] = "move"
  /\ kept' = IF local[f] = 0 THEN kept ELSE [kept EXCEPT ![f] = @ \cup {local[f]}]
  /\ local' = [local EXCEPT ![f] = 0]
  /\ Stage(r, f, "put")
  /\ UNCHANGED <<remote, still, part, lock, events, theft, mixed, garbled>>

(* os.replace *)
PutInPlace(r, f) ==
  /\ run[r].stage[f] = "put"
  /\ IF part[f] # 0 /\ OpenedBy(r, f) = {}
     THEN /\ local' = [local EXCEPT ![f] = part[f]]
          /\ part' = [part EXCEPT ![f] = 0]
          /\ garbled' = IF f \in mixed THEN garbled \cup {f} ELSE garbled \ {f}
          /\ Stage(r, f, "none") /\ UNCHANGED <<kept, mixed>>
     ELSE GiveUp(r, f)
  /\ UNCHANGED <<remote, still, lock, events, theft>>

(* The connection is lost, the drive is unplugged or full, a name is taken. *)
CopyFails(r, f) ==
  /\ run[r].stage[f] # "none" /\ Event
  /\ GiveUp(r, f)
  /\ UNCHANGED <<remote, still, lock, theft>>

-----------------------------------------------------------------------------
(* The rest of the world                                                     *)

(* The process is killed: the lock and the .part files stay. *)
Die(r) ==
  /\ run[r].pc # "off" /\ Event
  /\ run' = [run EXCEPT ![r] = Off]
  /\ UNCHANGED <<remote, still, disk, lock, theft>>

(* A call is recorded, perhaps after a long silence. *)
Grow(f) ==
  /\ remote[f] < MaxSize
  /\ remote' = [remote EXCEPT ![f] = @ + 1] /\ still' = still \ {f}
  /\ UNCHANGED <<disk, lock, run, events, theft>>

Settle(f) ==
  /\ f \notin still /\ still' = still \cup {f}
  /\ UNCHANGED <<remote, disk, lock, run, events, theft>>

(* The lock's age.  The task's process is ended before its lock is stale      *)
(* (ExecutionTimeLimit, 23 hours); a pull by hand has no such limit.         *)
Tick ==
  /\ lock.held /\ lock.age < StaleSteps
  /\ lock.by = Task /\ Inside(Task) => lock.age + 1 < StaleSteps
  /\ lock' = [lock EXCEPT !.age = @ + 1]
  /\ UNCHANGED <<remote, still, disk, run, events, theft>>

Init ==
  /\ remote \in [Files -> Sizes] /\ still = Files
  /\ local \in [Files -> Sizes] /\ kept = [f \in Files |-> {}]
  /\ part = NoSizes
  /\ lock = NoLock
  /\ run = [r \in Runners |-> Off]
  /\ events = 0 /\ theft = FALSE /\ mixed = {} /\ garbled = {}

CopyStep(r, f) ==
  \/ OpenPart(r, f) \/ Receive(r, f) \/ ClosePart(r, f) \/ CheckSize(r, f)
  \/ MoveAside(r, f) \/ PutInPlace(r, f)

RunStep(r) ==
  \/ Steal(r) \/ Create(r) \/ Release(r)
  \/ Connect(r) \/ ListLocal(r) \/ ListRemote(r) \/ DayDone(r)
  \/ \E f \in Files : CopyStep(r, f)

Fault(r) == Die(r) \/ Stop(r) \/ \E f \in Files : CopyFails(r, f)

Next ==
  \/ \E r \in Runners, d \in Days : Start(r, d)
  \/ \E r \in Runners : RunStep(r) \/ Fault(r)
  \/ \E f \in Files : Grow(f) \/ Settle(f)
  \/ Tick

Spec == Init /\ [][Next]_vars

(* Every night the task starts a pull of all days, pulls go on (the SSH       *)
(* connection is kept alive), and time passes.                               *)
Fairness ==
  /\ SF_vars(Start(Task, 1))
  /\ \A r \in Runners : WF_vars(RunStep(r))
  /\ \A f \in Files : WF_vars(Settle(f))
  /\ WF_vars(Tick)

FairSpec == Spec /\ Fairness

-----------------------------------------------------------------------------
(* Properties                                                                *)

(* While no lock has been removed from under a pull, a pull that is inside    *)
(* holds the lock: there is one at a time (pbxpull.py:344-354, 382-384).      *)
LockIsHeld ==
  ~ theft => \A r \in Runners : Inside(r) => lock.held /\ lock.by = r

(* What a pull knows of its files while it is alone: the archive is as it was  *)
(* listed, and the .part is what it has received itself.                     *)
Active(r, f) == run[r].stage[f] # "none"

Knows(r) ==
  \A f \in Files :
    /\ Active(r, f) => run[r].pc = "copy"
    /\ run[r].pc = "remote" /\ DayOf[f] = run[r].day => run[r].have[f] = local[f]
    /\ Active(r, f) => run[r].size[f] <= remote[f] /\ local[f] < run[r].size[f]
    /\ run[r].stage[f] \in {"get", "stat", "move", "put"} => f \notin mixed
    /\ run[r].stage[f] \in {"move", "put"} => part[f] = run[r].size[f]
    /\ run[r].stage[f] = "put" => local[f] = 0

CopyInv == ~ theft => garbled = {} /\ \A r \in Runners : Knows(r)

PullInv == TypeOK /\ LockIsHeld /\ CopyInv

(* Nothing in the archive is overwritten: a copy gives way only to a longer   *)
(* one, and is kept; what comes in its place is a whole file as the PBX had   *)
(* it when it was listed (pbxpull.py:17-21, 185-205).                         *)
OnlyTheShortGivesWay ==
  [][\A f \in Files : local'[f] # local[f] /\ ~ theft =>
       \E r \in Runners :
         /\ local[f] < run[r].size[f]
         /\ local[f] # 0 => local[f] \in kept'[f]
         /\ local'[f] \in {0, run[r].size[f]} /\ local'[f] <= remote[f]]_vars

(* The copies in the archive, in their place and set aside, only ever become   *)
(* more: through kills between the two renames, stale .part files and pulls    *)
(* that begin where another ended, a place is taken only by a copy longer than *)
(* all before it, as long as the lock keeps pulls apart (pbxpull.py:17-24,     *)
(* 185-205, 344-354).                                                         *)
Arc == INSTANCE Archive WITH
         Recordings <- Files, Largest <- MaxSize, offered <- remote,
         stored <- local, breached <- theft,
         copies <- [f \in Files |-> kept[f] \cup ({local[f]} \ {0})]

ImplementsArchive == Arc!ArcSpec

(* Every recording arrives, whatever was killed or failed half-way and        *)
(* whichever locks, .part files and short copies were left behind             *)
(* (pbxpull.py:269-318, 347).                                                 *)
EverythingArrives == <>[](\A f \in Files : local[f] >= remote[f])
=============================================================================
