--------------------------- MODULE BackupRunProofs ---------------------------
(***************************************************************************)
(* Proofs about BackupRun, for any runs, claims, Clusters and faults, also *)
(* with several runs that pause the app.                                   *)
(*                                                                         *)
(* The app is given back because only the holder of backup-pause takes it  *)
(* away, has recorded how the owner had it before it does so, and neither  *)
(* gives the Lease back nor ends before it has resumed the app.  A run     *)
(* whose last write failed may resume the app again after it gave the      *)
(* Lease back; that gives the app the state of its owner, too.             *)
(*                                                                         *)
(* What a run took during its pause agrees because the run holds every     *)
(* Lease while it pauses the app, the app is down from the first source or *)
(* base backup to the record of the resume, and after that record nothing  *)
(* is started, nor a snapshot of another moment taken up.  A run in spoilt *)
(* met a defect that lets something in during its pause; nothing of that   *)
(* kind is shown of it, and it does no harm to the other runs.             *)
(***************************************************************************)
EXTENDS BackupRun, TLAPS

Starting == {"plan", "admit", "start", "check", "record", "take"}
Pausing == {"suspend", "scale", "pods"}
Working == {"pause", "items", "resume", "collect", "write"} \cup Pausing
Resuming == {"scaleUp", "unsuspend"}
Returning == {"giveBack", "deleteWorkload", "finish", "dropFinalizer"}
Ending == {"release"} \cup Returning

On == pass.pc # "idle"
InWork(p) == p.pc \in Working \/ (p.pc \in Resuming /\ p.end = "")
OwnApp == app.replicas = 1 /\ app.suspended = app.ownSuspend

-----------------------------------------------------------------------------
(* The inductive invariant of the pause. *)

(* A recorded pause says how the owner had the app. *)
PauseInv(r, s) ==
    /\ s.pausedAt # Never => r \in All /\ s.phase # "" /\ (s.paused \/ s.resumedAt # Never)
    /\ s.resumedAt # Never => s.pausedAt # Never
    /\ s.paused => /\ s.pausedAt # Never /\ app.marked
                   /\ s.replicas = 1 /\ s.suspends # app.ownSuspend
    /\ ~s.paused => ~s.suspends
    /\ s.resumed => s.paused /\ s.resumedAt # Never

(* An app that is not as its owner had it was taken by the holder of       *)
(* backup-pause, which is alive and has the pause in its status.           *)
AppInv ==
    /\ app.ownSuspend => app.suspended
    /\ ~OwnApp => /\ owner[PauseName] \in Runs /\ Alive(owner[PauseName])
                  /\ st[owner[PauseName]].paused /\ ~st[owner[PauseName]].resumed

(* The object of a run that paused has a finalizer until it is over. *)
MetaInv ==
    \A r \in Runs :
        /\ meta[r].state = "deleting" => meta[r].finalizer
        /\ st[r].pausedAt # Never /\ Alive(r) => meta[r].finalizer

(* What the pass has in hand is what is stored, but for the items and the  *)
(* mark of a resume.                                                       *)
Agree ==
    /\ mem.phase = st[cur].phase /\ mem.leases = st[cur].leases
    /\ mem.pausedAt = st[cur].pausedAt /\ mem.resumedAt = st[cur].resumedAt
    /\ mem.paused = st[cur].paused /\ mem.replicas = st[cur].replicas
    /\ mem.suspends = st[cur].suspends
    /\ st[cur].resumed => mem.resumed

(* A holder that has marked the resume has resumed. *)
HolderInv ==
    owner[PauseName] = cur /\ mem.resumed /\ ~At("unsuspend") => OwnApp

InHand ==
    On => /\ cur \in Runs /\ meta[cur].state # "gone" /\ meta[cur].finalizer
          /\ PauseInv(cur, mem) /\ Agree /\ HolderInv

(* What a pass at a stage knows: of its run's object, of the holder of     *)
(* backup-pause and of the replicas of the app.                            *)
Stage(p, state, holder, replicas) ==
    /\ p.pc = "plan" => p.mem.phase = ""
    /\ p.pc \in {"admit", "start"} => p.mem.phase = "Queued"
    /\ p.pc \in {"check", "record", "take"} \/ InWork(p) => p.mem.phase = "Running"
    /\ p.pc \in Starting \cup Working => p.end = ""
    /\ p.pc \in Ending => p.end # ""
    /\ p.end # "Deleted" /\ p.pc # "dropFinalizer" => ~Finished(p.mem.phase)
    /\ p.end # "Deleted" /\ p.pc = "dropFinalizer" => Finished(p.mem.phase)
    /\ p.end = "Deleted" => state = "deleting"
    /\ InWork(p) /\ p.run \in All => holder = p.run
    /\ p.pc = "pause" => p.run \in All /\ p.mem.pausedAt = Never
    /\ p.pc = "resume" => p.mem.pausedAt # Never
    /\ p.pc \in Pausing /\ p.mem.paused => ~p.mem.resumed
    /\ p.pc \in Resuming => p.mem.resumedAt # Never
    /\ p.pc = "scaleUp" /\ p.mem.paused => ~p.mem.resumed
    /\ p.pc = "unsuspend" /\ p.mem.paused => replicas = 1 /\ p.mem.resumed
    /\ p.pc \in Returning /\ p.mem.paused => p.mem.resumed

StageInv ==
    /\ On \/ pass = Idle
    /\ On => Stage(pass, meta[cur].state, owner[PauseName], app.replicas)

PInv == /\ TypeOK /\ (\A r \in Runs : PauseInv(r, st[r])) /\ AppInv /\ MetaInv
        /\ InHand /\ StageInv

-----------------------------------------------------------------------------
(* The inductive invariant of the results. *)

DatabaseLost(s) == \E d \in Clusters : s.items[d] = "Failed"

(* What the items of a status say of the run's snapshots (row), of the     *)
(* sources and of its base backups (backups).  A volume whose snapshot has *)
(* an ID is not started again.  A volume succeeds on a run that paused the *)
(* app only after the resume, with its snapshot moved, or once a database  *)
(* of the run has failed.                                                  *)
PhaseOfItems(r, s) ==
    /\ s.phase = "" => \A t \in Things : s.items[t] = "None"
    /\ s.phase \in {"Queued", "Running", "Succeeded"} => \A t \in Target(r) : s.items[t] # "None"
    /\ s.phase = "Succeeded" => \A t \in Things : s.items[t] \notin {"Pending", "Running", "Failed"}

VolumeItem(r, s, c, row, source, blank) ==
    /\ s.items[c] # "Skipped"
    /\ c \in s.saved => /\ s.items[c] \notin {"None", "Pending"} /\ row[c].saved
                        /\ source[c].tag = r => source[c].last = r
    /\ s.items[c] = "Succeeded" => ~(r \in All /\ s.pausedAt = Never)
    /\ s.items[c] = "Succeeded" /\ c \notin blank =>
         /\ c \in s.saved
         /\ s.paused => /\ s.resumedAt # Never
                        /\ row[c].at = s.resumedAt \/ DatabaseLost(s)

DatabaseItem(s, d, backups, asleep) ==
    /\ s.items[d] = "Succeeded" => backups[d].phase = "completed"
    /\ s.items[d] = "Skipped" => d \in asleep

Items(r, s, row, source, backups, blank, asleep) ==
    /\ PhaseOfItems(r, s)
    /\ \A c \in Claims : VolumeItem(r, s, c, row, source, blank)
    /\ \A d \in Clusters : DatabaseItem(s, d, backups, asleep)

ItemInv(r, s) == Items(r, s, snap[r], src, bak[r], app.blank, app.asleep)

(* A completed sync left a snapshot, and only a recorded snapshot is       *)
(* moved, to the recorded end of the pause.                                *)
Snaps(r, s, row, source, blank) ==
    \A c \in Claims :
        /\ source[c].last = r /\ c \notin blank => row[c].saved
        /\ row[c].at # Never => /\ c \in s.saved /\ s.resumedAt # Never
                                /\ row[c].at = s.resumedAt

StoredInv ==
    \A r \in Runs : ItemInv(r, st[r]) /\ Snaps(r, st[r], snap[r], src, app.blank)

(* The copy in hand is ahead of what is stored only in what it collected;  *)
(* a pass that ends its run as Succeeded has nothing open.                 *)
Results(p, saved) ==
    /\ saved \subseteq p.mem.saved
    /\ p.pc # "write" /\ p.end = "" => p.mem.saved = saved
    /\ p.end = "Succeeded" =>
         /\ p.mem.phase \in {"Running", "Succeeded"}
         /\ \A t \in Things : p.mem.items[t] \notin {"Pending", "Running", "Failed"}
    /\ p.pc \in Working \ {"pause"} /\ p.run \in All => p.mem.pausedAt # Never

ResultsInv == On => ItemInv(cur, mem) /\ Results(pass, st[cur].saved)

RInv == StoredInv /\ ResultsInv

-----------------------------------------------------------------------------
(* Types. *)

LEMMA EmptyType == clock \in Nat => Empty \in Status
BY DEF Empty, Status, Moments, Never, ItemPhases

LEMMA IdleType == clock \in Nat => Idle \in Passes
BY EmptyType DEF Idle, Passes, Stages

(* The types that depend on the clock and on the starts of the app. *)
LEMMA SameTypes ==
    /\ clock' = clock => Moments' = Moments /\ Status' = Status /\ Passes' = Passes
    /\ app' = app => Contents' = Contents
BY DEF Moments, Status, Passes, Contents

LEMMA LaterTypes ==
    ASSUME clock \in Nat, clock' = clock + 1
    PROVE  Moments \subseteq Moments' /\ clock + 1 \in Moments' /\ Status \subseteq Status'
<1>1. Moments \subseteq Moments' /\ clock + 1 \in Moments'
  BY DEF Moments
<1> QED BY <1>1 DEF Status

SamePass(p, q) == p.run = q.run /\ p.end = q.end /\ p.stale = q.stale

LEMMA StepType ==
    ASSUME pass \in Passes, NEW pc \in Stages, NEW m \in Status
    PROVE  /\ Step(pc, m) \in Passes /\ Step(pc, m).pc = pc /\ Step(pc, m).mem = m
           /\ SamePass(Step(pc, m), pass)
BY DEF Passes, Step, SamePass

LEMMA MemType ==
    ASSUME TypeOK
    PROVE  pass \in Passes /\ mem \in Status /\ cur \in Runs \cup {NoRun}
BY DEF TypeOK, Passes, mem, cur

LEMMA GotoType ==
    ASSUME TypeOK, NEW pc \in Stages, Goto(pc)
    PROVE  pass' \in Passes /\ pass'.pc = pc /\ pass'.mem = mem /\ SamePass(pass', pass)
BY MemType, StepType DEF Goto

LEMMA TroubleType ==
    ASSUME TypeOK, faults' = faults \/ Trouble
    PROVE  faults' \in 0 .. MaxFaults
<1> faults \in 0 .. MaxFaults /\ MaxFaults \in Nat
  BY FaultsAssumption DEF TypeOK
<1> QED BY DEF Trouble

LEMMA WorldSame ==
    ASSUME UNCHANGED world
    PROVE  /\ wl' = wl /\ late' = late /\ app' = app /\ src' = src /\ snap' = snap /\ bak' = bak
           /\ spoilt' = spoilt
           /\ AppTypes => AppTypes'
           /\ DataTypes /\ clock' = clock => DataTypes'
<1>1. /\ wl' = wl /\ late' = late /\ app' = app /\ src' = src /\ snap' = snap /\ bak' = bak
      /\ spoilt' = spoilt
  BY DEF world
<1>2. AppTypes => AppTypes'
  BY <1>1 DEF AppTypes
<1>3. DataTypes /\ clock' = clock => DataTypes'
  BY <1>1, SameTypes DEF DataTypes
<1> QED BY <1>1, <1>2, <1>3

(* A step of a pass that changes nothing else, or stores a status. *)
LEMMA PassTypes ==
    ASSUME TypeOK, pass' \in Passes, st' \in [Runs -> Status],
           UNCHANGED <<meta, owner, world, clock>>, faults' \in 0 .. MaxFaults
    PROVE  TypeOK'
<1>1. RunTypes'
  BY WorldSame, SameTypes DEF TypeOK, RunTypes
<1> QED BY <1>1, WorldSame, SameTypes DEF TypeOK

LEMMA WriteType ==
    ASSUME TypeOK, NEW m \in Status, NEW next \in Passes, WriteStatus(m, next)
    PROVE  pass' \in Passes /\ st' \in [Runs -> Status]
BY IdleType DEF WriteStatus, StopPass, TypeOK, RunTypes

LEMMA AbortType ==
    ASSUME TypeOK, Abort(mem)
    PROVE  /\ pass' \in Passes /\ pass'.pc = "release" /\ pass'.end = "Failed"
           /\ pass'.run = pass.run /\ pass'.stale = pass.stale
           /\ pass'.mem = [mem EXCEPT !.items = pass'.mem.items]
           /\ \A t \in Things : pass'.mem.items[t] =
                IF mem.items[t] \in {"Pending", "Running"} THEN "Failed" ELSE mem.items[t]
<1> DEFINE items == [t \in Things |-> IF mem.items[t] \in {"Pending", "Running"} THEN "Failed"
                                      ELSE mem.items[t]]
           m == [mem EXCEPT !.items = items]
<1>1. pass \in Passes /\ mem \in Status /\ mem.items \in [Things -> ItemPhases]
  BY MemType DEF Status
<1>2. items \in [Things -> ItemPhases]
  BY <1>1 DEF ItemPhases
<1>3. pass' = [pass EXCEPT !.pc = "release", !.end = "Failed", !.mem = m]
  BY DEF Abort
<1>4. \A t \in Things : items[t] = IF mem.items[t] \in {"Pending", "Running"} THEN "Failed"
                                   ELSE mem.items[t]
  OBVIOUS
<1> HIDE DEF items
<1>5. m \in Status /\ m.items = items
  BY <1>1, <1>2 DEF Status
<1>6. m = [mem EXCEPT !.items = m.items]
  BY <1>5
<1> HIDE DEF m
<1>7. /\ pass' \in Passes /\ pass'.pc = "release" /\ pass'.end = "Failed" /\ pass'.mem = m
      /\ pass'.run = pass.run /\ pass'.stale = pass.stale
  BY <1>1, <1>3, <1>5 DEF Passes, Stages
<1> QED BY <1>4, <1>5, <1>6, <1>7

(* Setting the phase of one item. *)
LEMMA SetItemType ==
    ASSUME TypeOK, NEW t \in Things, NEW phase \in ItemPhases, SetItem(t, phase)
    PROVE  /\ pass' \in Passes /\ pass'.pc = pass.pc /\ SamePass(pass', pass)
           /\ pass'.mem = [mem EXCEPT !.items = pass'.mem.items]
           /\ pass'.mem.items[t] = phase
           /\ \A u \in Things : u # t => pass'.mem.items[u] = mem.items[u]
<1> DEFINE m == [mem EXCEPT !.items = [mem.items EXCEPT ![t] = phase]]
<1>1. pass \in Passes /\ mem \in Status /\ mem.items \in [Things -> ItemPhases]
  BY MemType DEF Status
<1>2. pass' = [pass EXCEPT !.mem = m]
  BY DEF SetItem, mem
<1>3. m \in Status /\ m.items = [mem.items EXCEPT ![t] = phase]
  BY <1>1 DEF Status
<1>4. m.items[t] = phase /\ \A u \in Things : u # t => m.items[u] = mem.items[u]
  BY <1>1, <1>3
<1>5. m = [mem EXCEPT !.items = m.items]
  BY <1>3
<1> HIDE DEF m
<1>6. pass' \in Passes /\ pass'.pc = pass.pc /\ SamePass(pass', pass) /\ pass'.mem = m
  BY <1>1, <1>2, <1>3 DEF Passes, SamePass
<1> QED BY <1>4, <1>5, <1>6

Objects == [state : {"there", "deleting", "gone"}, finalizer : BOOLEAN]

LEMMA ReconcileType == ASSUME TypeOK, NEW r \in Runs, Reconcile(r) PROVE TypeOK'
<1>1. st[r] \in Status /\ clock \in Nat
  BY DEF TypeOK, RunTypes
<1>2. pass' \in Passes
  BY <1>1, EmptyType DEF Reconcile, Idle, Passes, Stages
<1>3. meta' \in [Runs -> Objects]
  <2>1. meta \in [Runs -> Objects]
    BY DEF TypeOK, RunTypes, Objects
  <2>2. [meta[r] EXCEPT !.finalizer = TRUE] \in Objects
    BY <2>1 DEF Objects
  <2>3. meta' = meta \/ meta' = [meta EXCEPT ![r] = [meta[r] EXCEPT !.finalizer = TRUE]]
    BY DEF Reconcile
  <2> QED BY <2>1, <2>2, <2>3
<1>4. RunTypes'
  BY <1>3, WorldSame, SameTypes DEF TypeOK, RunTypes, Reconcile, Objects
<1> QED BY <1>2, <1>4, WorldSame, SameTypes DEF TypeOK, Reconcile

LEMMA MetaType ==
    ASSUME TypeOK, NEW r \in Runs, Expire(r) \/ Delete(r) \/ (DropFinalizer /\ r = cur)
    PROVE  TypeOK'
<1>1. meta' \in [Runs -> Objects]
  <2>1. meta \in [Runs -> Objects]
    BY DEF TypeOK, RunTypes, Objects
  <2>2. \A s \in {"there", "deleting", "gone"} :
          [meta[r] EXCEPT !.state = s] \in Objects /\ [state |-> s, finalizer |-> FALSE] \in Objects
    BY <2>1 DEF Objects
  <2>3. CASE Expire(r) \/ Delete(r)
    <3>1. meta' = [meta EXCEPT ![r] = [meta[r] EXCEPT !.state =
                     IF meta[r].finalizer THEN "deleting" ELSE "gone"]]
      BY <2>3 DEF Expire, Delete
    <3> QED BY <2>1, <2>2, <3>1
  <2>4. CASE DropFinalizer /\ r = cur
    <3>1. meta[r].state \in {"there", "deleting", "gone"}
      BY <2>1 DEF Objects
    <3>2. meta' = meta \/ meta' = [meta EXCEPT ![r] =
             [state |-> IF meta[r].state = "deleting" THEN "gone" ELSE meta[r].state,
              finalizer |-> FALSE]]
      BY <2>4 DEF DropFinalizer
    <3> QED BY <2>1, <2>2, <3>1, <3>2
  <2> QED BY <2>3, <2>4
<1>2. pass' \in Passes
  BY IdleType DEF Expire, Delete, DropFinalizer, StopPass, TypeOK, Passes
<1>3. faults' \in 0 .. MaxFaults
  BY TroubleType DEF Expire, Delete, DropFinalizer
<1>4. UNCHANGED <<st, owner, world, clock>>
  BY DEF Expire, Delete, DropFinalizer
<1>5. RunTypes'
  BY <1>1, <1>4, WorldSame, SameTypes DEF TypeOK, RunTypes, Objects
<1> QED BY <1>2, <1>3, <1>4, <1>5, WorldSame, SameTypes DEF TypeOK

LEMMA PlanType == ASSUME TypeOK, Plan PROVE TypeOK'
<1> DEFINE items == [t \in Things |-> IF t \in Target(cur) THEN "Pending" ELSE "None"]
           m == [mem EXCEPT !.phase = "Queued", !.items = items]
<1>1. pass \in Passes /\ mem \in Status /\ clock \in Nat
  BY MemType DEF TypeOK
<1>2. items \in [Things -> ItemPhases]
  BY DEF ItemPhases
<1>3. m \in Status
  <2> HIDE DEF items
  <2> QED BY <1>1, <1>2 DEF Status
<1>4. CASE WriteStatus(m, Idle)
  <2> HIDE DEF m
  <2> QED BY <1>1, <1>3, <1>4, WriteType, IdleType, PassTypes DEF Plan, TypeOK
<1>5. CASE pass' = [pass EXCEPT !.pc = "release", !.end = "Failed"] /\ UNCHANGED st
  <2>1. pass' \in Passes
    BY <1>1, <1>5 DEF Passes, Stages
  <2> QED BY <1>5, <2>1, PassTypes DEF Plan, TypeOK, RunTypes
<1> QED BY <1>4, <1>5 DEF Plan

LEMMA WorkloadType ==
    ASSUME TypeOK, EnsureWorkload \/ DeleteWorkload \/ \E r \in Runs : Kueue(r)
    PROVE  TypeOK'
<1>1. wl' \in [Runs -> {"none", "pending", "admitted", "evicted"}]
  BY DEF EnsureWorkload, DeleteWorkload, Kueue, TypeOK, RunTypes
<1>2. pass' \in Passes
  <2>1. pass \in Passes /\ mem \in Status /\ [mem EXCEPT !.workload = TRUE] \in Status
    BY MemType DEF Status
  <2>2. {"start", "finish"} \subseteq Stages
    BY DEF Stages
  <2> QED BY <2>1, <2>2, StepType DEF EnsureWorkload, DeleteWorkload, Kueue, Goto, GotoWith
<1>3. faults' \in 0 .. MaxFaults
  BY TroubleType DEF EnsureWorkload, DeleteWorkload, Kueue
<1>4. UNCHANGED <<st, meta, owner, late, app, src, snap, bak, spoilt, clock>>
  BY DEF EnsureWorkload, DeleteWorkload, Kueue
<1>5. RunTypes'
  BY <1>1, <1>4, SameTypes DEF TypeOK, RunTypes
<1>6. AppTypes' /\ DataTypes'
  BY <1>4, SameTypes DEF TypeOK, AppTypes, DataTypes
<1> QED BY <1>2, <1>3, <1>4, <1>5, <1>6, SameTypes DEF TypeOK

LEMMA AdmitType == ASSUME TypeOK, Admit PROVE TypeOK'
<1>1. pass \in Passes /\ mem \in Status /\ clock \in Nat /\ [mem EXCEPT !.phase = "Running"] \in Status
  BY MemType DEF TypeOK, Status
<1>2. pass' \in Passes /\ st' \in [Runs -> Status]
  BY <1>1, WriteType, IdleType, AbortType DEF Admit, TypeOK, RunTypes
<1> QED BY <1>2, PassTypes DEF Admit, TypeOK

(* The steps that only move the pass on. *)
LEMMA MoveType ==
    ASSUME TypeOK, EndIfEvicted \/ PodsGone \/ ItemsStarted \/ ApplyFails \/ Fault
                     \/ \E t \in Things : StartFails(t)
    PROVE  TypeOK'
<1>1. {"record", "items", "resume", "collect"} \subseteq Stages /\ "Failed" \in ItemPhases
  BY DEF Stages, ItemPhases
<1>2. clock \in Nat
  BY DEF TypeOK
<1>3. pass' \in Passes
  BY <1>1, <1>2, IdleType, AbortType, GotoType, SetItemType
  DEF EndIfEvicted, PodsGone, ItemsStarted, ApplyFails, Fault, StartFails, StopPass
<1>4. UNCHANGED <<st, meta, owner, world, clock>>
  BY DEF EndIfEvicted, PodsGone, ItemsStarted, ApplyFails, Fault, StartFails, cluster
<1>5. faults' \in 0 .. MaxFaults
  BY TroubleType DEF EndIfEvicted, PodsGone, ItemsStarted, ApplyFails, Fault, StartFails
<1> QED BY <1>3, <1>4, <1>5, PassTypes DEF TypeOK, RunTypes

LEMMA RecordLeasesType == ASSUME TypeOK, RecordLeases PROVE TypeOK'
<1> DEFINE m == [mem EXCEPT !.leases = TRUE]
<1>1. pass \in Passes /\ m \in Status /\ "take" \in Stages
  BY MemType DEF Status, Stages
<1>2. pass' \in Passes /\ st' \in [Runs -> Status]
  <2>1. CASE mem.leases
    BY <1>1, <2>1, GotoType DEF RecordLeases, TypeOK, RunTypes
  <2>2. CASE ~mem.leases
    <3>1. WriteStatus(m, Step("take", m))
      BY <2>2 DEF RecordLeases
    <3> HIDE DEF m
    <3> QED BY <1>1, <3>1, StepType, WriteType
  <2> QED BY <2>1, <2>2
<1> QED BY <1>2, PassTypes DEF RecordLeases, TypeOK

LEMMA OwnerType == ASSUME TypeOK, TakeLeases \/ ReleaseAll PROVE TypeOK'
<1>1. cur \in Runs \cup {NoRun} /\ {"pause", "suspend", "items", "deleteWorkload"} \subseteq Stages
  BY MemType DEF Stages
<1>2. owner' \in [Names -> Runs \cup {NoRun}]
  BY <1>1 DEF TakeLeases, ReleaseAll, TypeOK, RunTypes
<1>3. Worker \in Stages /\ clock \in Nat
  BY <1>1 DEF Worker, TypeOK
<1>4. pass' \in Passes
  BY <1>1, <1>3, GotoType, IdleType DEF TakeLeases, ReleaseAll, StopPass
<1>5. UNCHANGED <<st, meta, world, clock, faults>>
  BY DEF TakeLeases, ReleaseAll
<1>6. RunTypes'
  BY <1>2, <1>5, WorldSame, SameTypes DEF TypeOK, RunTypes
<1> QED BY <1>4, <1>5, <1>6, WorldSame, SameTypes DEF TypeOK

(* A step that records a moment. *)
LEMMA ClockType ==
    ASSUME TypeOK, clock' = clock + 1, pass' \in Passes', st' \in [Runs -> Status'],
           UNCHANGED <<meta, owner, wl, late, app, src, snap, bak>>, spoilt' \subseteq Runs,
           faults' \in 0 .. MaxFaults
    PROVE  TypeOK'
<1>1. clock \in Nat /\ Moments \subseteq Moments'
  BY LaterTypes DEF TypeOK
<1>2. RunTypes'
  BY DEF TypeOK, RunTypes
<1>3. DataTypes'
  BY <1>1, SameTypes DEF TypeOK, DataTypes
<1>4. AppTypes'
  BY DEF TypeOK, AppTypes
<1> QED BY <1>1, <1>2, <1>3, <1>4 DEF TypeOK

LEMMA ClockWriteType ==
    ASSUME TypeOK, clock' = clock + 1, NEW m \in Status', NEW next \in Passes',
           WriteStatus(m, next)
    PROVE  pass' \in Passes' /\ st' \in [Runs -> Status']
<1>1. clock \in Nat /\ clock' \in Nat /\ Status \subseteq Status'
  BY LaterTypes DEF TypeOK
<1>2. Idle \in Passes'
  <2>1. Empty \in Status
    BY <1>1, EmptyType
  <2> QED BY <1>1, <2>1 DEF Idle, Passes, Stages
<1>3. st \in [Runs -> Status']
  BY <1>1 DEF TypeOK, RunTypes
<1> QED BY <1>2, <1>3 DEF WriteStatus, StopPass

(* A step of a pass that goes on with a status of the next moment. *)
LEMMA LaterStep ==
    ASSUME TypeOK, clock' = clock + 1, NEW m \in Status', NEW pc \in Stages
    PROVE  /\ Step(pc, m) \in Passes' /\ Step(pc, m).pc = pc /\ Step(pc, m).mem = m
           /\ SamePass(Step(pc, m), pass)
BY MemType DEF Passes, Step, SamePass

LEMMA RecordResumeType ==
    ASSUME TypeOK, RecordResume
    PROVE  pass' \in Passes' /\ st' \in [Runs -> Status']
<1> DEFINE m == [mem EXCEPT !.resumedAt = clock + 1]
<1>1. mem \in Status /\ clock \in Nat /\ "scaleUp" \in Stages /\ clock' = clock + 1
  BY MemType DEF TypeOK, Stages, RecordResume
<1>2. m \in Status'
  BY <1>1, LaterTypes DEF Status
<1>3. WriteStatus(m, Step("scaleUp", m))
  BY DEF RecordResume
<1> HIDE DEF m
<1> QED BY <1>1, <1>2, <1>3, LaterStep, ClockWriteType

LEMMA ResumeType == ASSUME TypeOK, Resume \/ Release PROVE TypeOK'
<1>1. {"collect", "scaleUp", "giveBack"} \subseteq Stages
  BY DEF Stages
<1>2. UNCHANGED <<meta, owner, world, faults>>
  BY DEF Resume, Release
<1>3. CASE RecordResume
  BY <1>2, <1>3, RecordResumeType, ClockType, WorldSame DEF RecordResume, TypeOK, RunTypes
<1>4. CASE (\E pc \in {"collect", "scaleUp", "giveBack"} : Goto(pc)) /\ UNCHANGED <<st, clock>>
  BY <1>1, <1>2, <1>4, GotoType, PassTypes DEF TypeOK, RunTypes
<1> QED BY <1>3, <1>4 DEF Resume, Release

(* What a pause leaves alone, and when it spoils its run. *)
LEMMA PauseGives ==
    ASSUME Pause
    PROVE  /\ On /\ At("pause") /\ UNCHANGED <<meta, owner, wl, late, app, src, snap, bak>>
           /\ spoilt \subseteq spoilt' /\ spoilt' \subseteq spoilt \cup {cur}
           /\ faults' = faults \/ Trouble
           /\ (\E c \in Claims : Busy(c) /\ src[c].tag # cur) => cur \in spoilt' \/ st' = st
BY DEF Pause, At, On

LEMMA PauseType == ASSUME TypeOK, cur \in Runs, Pause PROVE TypeOK'
<1> DEFINE m == [mem EXCEPT !.pausedAt = clock + 1,
                            !.resumedAt = IF app.marked THEN Never ELSE clock + 1,
                            !.paused = app.marked,
                            !.replicas = IF app.marked THEN app.replicas ELSE 0,
                            !.suspends = app.marked /\ ~app.suspended]
<1>1. mem \in Status /\ clock \in Nat /\ "suspend" \in Stages
  BY MemType DEF TypeOK, Stages
<1>2. CASE StopPass /\ UNCHANGED <<st, clock, faults, spoilt>>
  <2>1. UNCHANGED world
    BY <1>2, PauseGives DEF world
  <2> QED BY <1>1, <1>2, <2>1, IdleType, PassTypes, PauseGives DEF StopPass, TypeOK, RunTypes
<1>3. CASE WriteStatus(m, [pass EXCEPT !.pc = "suspend", !.mem = m, !.pausing = TRUE])
           /\ clock' = clock + 1
  <2>1. app.marked \in BOOLEAN /\ app.replicas \in 0 .. 1 /\ app.suspended \in BOOLEAN
    BY DEF TypeOK, AppTypes
  <2>2. m \in Status'
    <3>1. clock + 1 \in Moments' /\ Never \in Moments' /\ Status \subseteq Status'
      BY <1>1, <1>3, LaterTypes DEF Moments, Never
    <3>2. (IF app.marked THEN Never ELSE clock + 1) \in Moments'
      BY <3>1
    <3>3. (IF app.marked THEN app.replicas ELSE 0) \in 0 .. 1
      BY <2>1
    <3>4. (app.marked /\ ~app.suspended) \in BOOLEAN
      OBVIOUS
    <3> QED BY <1>1, <2>1, <3>1, <3>2, <3>3, <3>4 DEF Status
  <2> HIDE DEF m
  <2>3. [pass EXCEPT !.pc = "suspend", !.mem = m, !.pausing = TRUE] \in Passes'
    BY <1>1, <2>2, MemType DEF Passes
  <2>4. pass' \in Passes' /\ st' \in [Runs -> Status']
    BY <1>3, <2>2, <2>3, ClockWriteType
  <2>5. spoilt' \subseteq Runs /\ faults' \in 0 .. MaxFaults
    BY PauseGives, TroubleType DEF TypeOK, RunTypes
  <2> QED BY <1>3, <2>4, <2>5, ClockType, PauseGives
<1> QED BY <1>2, <1>3 DEF Pause

(* What a step leaves of the app that its owner decides. *)
SameOwner ==
    /\ app'.marked = app.marked /\ app'.ownSuspend = app.ownSuspend
    /\ app'.asleep = app.asleep /\ app'.blank = app.blank /\ app'.starts = app.starts
    /\ app'.pods = app.pods

LEMMA SuspendType ==
    ASSUME TypeOK, NEW on \in BOOLEAN, SetSuspend(on)
    PROVE  AppTypes' /\ SameOwner /\ app'.suspended = on /\ app'.replicas = app.replicas
BY DEF SetSuspend, TypeOK, AppTypes, SameOwner

LEMMA ScaleType ==
    ASSUME TypeOK, NEW n \in 0 .. 1, Scale(n)
    PROVE  AppTypes' /\ SameOwner /\ app'.replicas = n /\ app'.suspended = app.suspended
BY DEF Scale, TypeOK, AppTypes, SameOwner

LEMMA SameAppType ==
    ASSUME TypeOK, UNCHANGED app
    PROVE  AppTypes' /\ SameOwner
BY DEF TypeOK, AppTypes, SameOwner

LEMMA AppStepType ==
    ASSUME TypeOK, ApplySuspend \/ ApplyScale \/ ScaleUp \/ Unsuspend
    PROVE  TypeOK' /\ SameOwner
<1>1. mem \in Status /\ mem.replicas \in 0 .. 1 /\ mem.paused \in BOOLEAN /\ clock \in Nat
  BY MemType DEF Status, TypeOK
<1>2. [mem EXCEPT !.resumed = mem.paused] \in Status
  BY <1>1 DEF Status
<1>3. AppTypes' /\ SameOwner
  <2>1. \/ UNCHANGED app \/ SetSuspend(TRUE) \/ SetSuspend(FALSE)
        \/ Scale(0) \/ Scale(mem.replicas)
    BY <1>1 DEF ApplySuspend, ApplyScale, ScaleUp, Unsuspend
  <2>2. CASE UNCHANGED app
    BY <2>2, SameAppType
  <2>3. CASE SetSuspend(TRUE) \/ SetSuspend(FALSE)
    BY <2>3, SuspendType
  <2>4. CASE Scale(0) \/ Scale(mem.replicas)
    <3>1. 0 \in 0 .. 1
      OBVIOUS
    <3> QED BY <1>1, <2>4, <3>1, ScaleType
  <2> QED BY <2>1, <2>2, <2>3, <2>4
<1>4. {"scale", "pods", "unsuspend", "collect", "giveBack"} \subseteq Stages
  BY DEF Stages
<1>5. pass' \in Passes
  <2>1. CASE StopPass
    BY <1>1, <2>1, IdleType DEF StopPass
  <2>2. CASE \E pc \in Stages : Goto(pc)
    BY <2>2, GotoType
  <2>3. CASE GotoWith("unsuspend", [mem EXCEPT !.resumed = mem.paused])
    BY <1>2, <1>4, <2>3, StepType, MemType DEF GotoWith
  <2> QED BY <1>4, <2>1, <2>2, <2>3 DEF ApplySuspend, ApplyScale, ScaleUp, Unsuspend
<1>6. UNCHANGED <<st, meta, owner, wl, late, src, snap, bak, clock, faults>>
  BY DEF ApplySuspend, ApplyScale, ScaleUp, Unsuspend
<1>7. spoilt' \subseteq Runs
  BY RunsAssumption DEF ApplySuspend, ApplyScale, ScaleUp, Unsuspend, Spoils, TypeOK, RunTypes
<1>8. RunTypes' /\ DataTypes'
  BY <1>3, <1>6, <1>7, SameTypes DEF TypeOK, RunTypes, DataTypes, Contents, SameOwner
<1> QED BY <1>3, <1>5, <1>6, <1>8, SameTypes DEF TypeOK

LEMMA StartVolumeType == ASSUME TypeOK, NEW c \in Claims, StartVolume(c) PROVE TypeOK'
<1>1. {"Running", "Failed"} \subseteq ItemPhases /\ c \in Things
  BY DEF ItemPhases, Things
<1>2. pass' \in Passes
  BY <1>1, SetItemType DEF StartVolume
<1>3. src' = src \/ src' = [src EXCEPT ![c] = [src[c] EXCEPT !.tag = cur]]
  BY DEF StartVolume
<1>4. UNCHANGED <<st, meta, owner, wl, late, app, snap, bak, spoilt, clock, faults>>
  BY DEF StartVolume
<1>5. DataTypes'
  <2>1. Moments' = Moments /\ Contents' = Contents /\ cur \in Runs \cup {NoRun}
    BY <1>4, SameTypes, MemType
  <2>2. DataTypes
    BY DEF TypeOK
  <2>3. CASE src' = src
    BY <1>4, <2>1, <2>2, <2>3 DEF DataTypes
  <2>4. CASE src' = [src EXCEPT ![c] = [src[c] EXCEPT !.tag = cur]]
    BY <1>4, <2>1, <2>2, <2>4, ZenonT(60) DEF DataTypes
  <2> QED BY <1>3, <2>3, <2>4
<1>6. RunTypes' /\ AppTypes'
  BY <1>4, SameTypes DEF TypeOK, RunTypes, AppTypes
<1> QED BY <1>2, <1>4, <1>5, <1>6, SameTypes DEF TypeOK

BackupsOfRun ==
    [Clusters -> [phase : {"none", "running", "completed", "failed"}, data : Contents]]
SnapsOfRun ==
    [Claims -> [data : Contents, at : Moments, bases : SUBSET Clusters, saved : BOOLEAN]]

LEMMA StartDatabaseType ==
    ASSUME TypeOK, cur \in Runs, NEW d \in Clusters, StartDatabase(d)
    PROVE  TypeOK'
<1>1. {"Running", "Skipped"} \subseteq ItemPhases /\ d \in Things
  BY DEF ItemPhases, Things
<1>2. pass' \in Passes
  BY <1>1, SetItemType DEF StartDatabase
<1>3. UNCHANGED <<st, meta, owner, wl, late, app, src, snap, spoilt, clock, faults>>
  BY DEF StartDatabase
<1>4. bak \in [Runs -> BackupsOfRun] /\ bak' \in [Runs -> BackupsOfRun]
  <2> DEFINE b == [bak[cur] EXCEPT ![d] = [bak[cur][d] EXCEPT
                     !.phase = IF bak[cur][d].phase = "none" THEN "running"
                               ELSE bak[cur][d].phase]]
  <2>1. bak \in [Runs -> BackupsOfRun]
    BY DEF TypeOK, DataTypes, BackupsOfRun
  <2>2. b \in BackupsOfRun
    BY <2>1 DEF BackupsOfRun
  <2>3. bak' = bak \/ bak' = [bak EXCEPT ![cur] = b]
    BY DEF StartDatabase
  <2> HIDE DEF b
  <2> QED BY <2>1, <2>2, <2>3
<1>5. DataTypes'
  BY <1>3, <1>4, SameTypes DEF TypeOK, DataTypes, BackupsOfRun
<1>6. RunTypes' /\ AppTypes'
  BY <1>3, SameTypes DEF TypeOK, RunTypes, AppTypes
<1> QED BY <1>2, <1>3, <1>5, <1>6, SameTypes DEF TypeOK

LEMMA EndWorkType == ASSUME TypeOK, EndWork PROVE TypeOK'
<1>1. pass \in Passes /\ mem \in Status /\ clock \in Nat
  BY MemType DEF TypeOK
<1>2. pass' \in Passes /\ st' \in [Runs -> Status]
  <2>1. CASE WriteStatus(mem, Idle)
    BY <1>1, <2>1, WriteType, IdleType
  <2>2. CASE UNCHANGED st /\ \E end \in {"Failed", "Succeeded"} :
               pass' = [pass EXCEPT !.pc = "release", !.end = end]
    BY <1>1, <2>2 DEF Passes, Stages, TypeOK, RunTypes
  <2> QED BY <2>1, <2>2 DEF EndWork
<1> QED BY <1>2, PassTypes DEF EndWork, TypeOK

LEMMA FinishType == ASSUME TypeOK, Finish PROVE TypeOK'
<1> DEFINE m == [mem EXCEPT !.phase = pass.end, !.workload = FALSE]
<1>1. pass \in Passes /\ mem \in Status /\ "dropFinalizer" \in Stages /\ st \in [Runs -> Status]
  BY MemType DEF Stages, TypeOK, RunTypes
<1>2. CASE pass.end = "Deleted"
  <2>1. (Goto("dropFinalizer") /\ UNCHANGED st) \/ WriteStatus(mem, Step("dropFinalizer", mem))
    BY <1>2 DEF Finish
  <2>2. pass' \in Passes /\ st' \in [Runs -> Status]
    BY <1>1, <2>1, GotoType, StepType, WriteType
  <2> QED BY <2>2, PassTypes DEF Finish, TypeOK
<1>3. CASE pass.end # "Deleted"
  <2>1. m \in Status
    BY <1>1, <1>3 DEF Status, Passes
  <2>2. WriteStatus(m, Step("dropFinalizer", m))
    BY <1>3 DEF Finish
  <2> HIDE DEF m
  <2>3. pass' \in Passes /\ st' \in [Runs -> Status]
    BY <1>1, <2>1, <2>2, StepType, WriteType
  <2> QED BY <2>3, PassTypes DEF Finish, TypeOK
<1> QED BY <1>2, <1>3

(* What collectItem does to the status and to the snapshots. *)
Collected(m) ==
    /\ \A t \in Things : m.items[t] \in {mem.items[t], "Succeeded", "Failed"}
    /\ \A t \in Things : m.items[t] # mem.items[t] => mem.items[t] = "Running"
    /\ \A c \in Claims :
         /\ c \in m.saved \ mem.saved =>
              src[c].last = cur /\ mem.items[c] = "Running" /\ c \notin app.blank
         /\ m.items[c] = "Succeeded" /\ mem.items[c] # "Succeeded" /\ c \notin app.blank =>
              /\ src[c].last = cur
              /\ c \in m.saved \/ snap[cur][c].at # Never
              /\ mem.paused /\ cur \in All => mem.resumedAt # Never
              /\ mem.paused /\ cur \in All /\ ~DatabaseFailed =>
                   (c \in mem.saved /\ snap'[cur][c].at # Never) \/ snap[cur][c].at # Never
         /\ snap'[cur][c].saved = snap[cur][c].saved
         /\ snap'[cur][c].at # snap[cur][c].at =>
              /\ snap[cur][c].at = Never /\ c \in mem.saved
              /\ snap'[cur][c].at = mem.resumedAt
    /\ \A d \in Clusters : m.items[d] = "Succeeded" /\ mem.items[d] # "Succeeded" =>
         bak[cur][d].phase = "completed"

(* The fields that have to do with the pause. *)
SamePause(m, n) ==
    /\ m.phase = n.phase /\ m.leases = n.leases /\ m.pausedAt = n.pausedAt
    /\ m.resumedAt = n.resumedAt /\ m.paused = n.paused /\ m.replicas = n.replicas
    /\ m.suspends = n.suspends /\ m.resumed = n.resumed

LEMMA CollectGives ==
    ASSUME TypeOK, cur \in Runs, Collect
    PROVE  /\ pass' \in Passes /\ pass'.pc = "write" /\ SamePass(pass', pass)
           /\ SamePause(pass'.mem, mem) /\ mem.saved \subseteq pass'.mem.saved
           /\ snap' \in [Runs -> SnapsOfRun]
           /\ \A r \in Runs : r # cur => snap'[r] = snap[r]
           /\ Collected(pass'.mem)
<1>1. PICK read \in SUBSET Running :
      LET found == Synced \cap read
          move == Retimed /\ ~DatabaseFailed
          moved == found \cap mem.saved
          none == {c \in found \ mem.saved : c \in app.blank \/ snap[cur][c].at # Never}
          done == IF move THEN none \cup moved ELSE found
          broken == {c \in Claims \cap read : src[c].last # cur /\ src[c].failed}
          complete == {d \in Clusters \cap read : bak[cur][d].phase = "completed"}
          failed == {d \in Clusters \cap read : bak[cur][d].phase = "failed"}
      IN /\ GotoWith("write",
              [mem EXCEPT !.items = [t \in Things |->
                             CASE t \in done \cup complete -> "Succeeded"
                               [] t \in broken \cup failed -> "Failed"
                               [] OTHER -> mem.items[t]],
                          !.saved = @ \cup (found \ none),
                          !.based = @ \cup IF Retimed /\ mem.resumedAt = Never THEN complete ELSE {}])
         /\ snap' = [snap EXCEPT ![cur] = [c \in Claims |-> IF c \in moved THEN Retime(c) ELSE @[c]]]
  BY DEF Collect
<1> DEFINE found == Synced \cap read
           moved == found \cap mem.saved
           none == {c \in found \ mem.saved : c \in app.blank \/ snap[cur][c].at # Never}
           done == IF Retimed /\ ~DatabaseFailed THEN none \cup moved ELSE found
           broken == {c \in Claims \cap read : src[c].last # cur /\ src[c].failed}
           complete == {d \in Clusters \cap read : bak[cur][d].phase = "completed"}
           failed == {d \in Clusters \cap read : bak[cur][d].phase = "failed"}
           items == [t \in Things |-> CASE t \in done \cup complete -> "Succeeded"
                                        [] t \in broken \cup failed -> "Failed"
                                        [] OTHER -> mem.items[t]]
           saved == mem.saved \cup (found \ none)
           based == mem.based \cup IF Retimed /\ mem.resumedAt = Never THEN complete ELSE {}
           m == [mem EXCEPT !.items = items, !.saved = saved, !.based = based]
           row == [c \in Claims |-> IF c \in moved THEN Retime(c) ELSE snap[cur][c]]
<1>2. pass' = Step("write", m) /\ snap' = [snap EXCEPT ![cur] = row]
  BY <1>1 DEF GotoWith
<1>3. mem \in Status /\ pass \in Passes /\ snap \in [Runs -> SnapsOfRun] /\ "write" \in Stages
  BY MemType DEF TypeOK, DataTypes, SnapsOfRun, Stages
<1>4. /\ found \subseteq Claims /\ \A c \in found : src[c].last = cur /\ mem.items[c] = "Running"
      /\ complete \subseteq Clusters /\ failed \subseteq Clusters /\ broken \subseteq Claims
      /\ \A t \in read : mem.items[t] = "Running"
  BY DEF Synced, Running
<1>5. done \subseteq found /\ (done \cup complete) \cap (broken \cup failed) = {}
  BY <1>4, ThingsAssumption
<1>6. /\ found \subseteq read /\ complete \subseteq read /\ broken \subseteq read
      /\ failed \subseteq read /\ found \cap mem.saved = moved /\ none \subseteq found \ mem.saved
      /\ \A c \in found \ mem.saved : c \in none <=> c \in app.blank \/ snap[cur][c].at # Never
      /\ \A d \in complete : bak[cur][d].phase = "completed"
  OBVIOUS
<1>7. Retimed /\ ~DatabaseFailed => done = none \cup moved
  OBVIOUS
<1> HIDE DEF found, moved, none, done, broken, complete, failed
<1>8. \A t \in Things :
        /\ t \in done \cup complete => items[t] = "Succeeded"
        /\ t \in broken \cup failed => items[t] = "Failed"
        /\ t \notin done \cup complete \cup broken \cup failed => items[t] = mem.items[t]
  BY <1>5
<1>9. items \in [Things -> ItemPhases] /\ saved \in SUBSET Claims /\ based \in SUBSET Clusters
  <2>1. mem.items \in [Things -> ItemPhases]
    BY <1>3 DEF Status
  <2>2. \A t \in Things : items[t] \in ItemPhases
    BY <1>8, <2>1 DEF ItemPhases
  <2>3. saved \in SUBSET Claims /\ based \in SUBSET Clusters
    BY <1>3, <1>4 DEF Status
  <2> QED BY <2>2, <2>3
<1>10. /\ mem.saved \subseteq saved
       /\ \A c \in Claims : c \in saved \ mem.saved <=> c \in found \ (mem.saved \cup none)
  BY <1>6
<1> HIDE DEF items, saved, based
<1>11. m \in Status /\ m.items = items /\ m.saved = saved /\ SamePause(m, mem)
  BY <1>3, <1>9 DEF Status, SamePause
<1> HIDE DEF m
<1>12. pass' \in Passes /\ pass'.pc = "write" /\ SamePass(pass', pass) /\ pass'.mem = m
  BY <1>2, <1>3, <1>11, StepType
<1>13. \A c \in moved : /\ Retime(c).data = snap[cur][c].data
                        /\ Retime(c).saved = snap[cur][c].saved
                        /\ Retime(c).at = IF snap[cur][c].at = Never THEN mem.resumedAt
                                          ELSE snap[cur][c].at
                        /\ Retime(c) \in [data : Contents, at : Moments, bases : SUBSET Clusters,
                                          saved : BOOLEAN]
  <2> SUFFICES ASSUME NEW c \in moved
               PROVE  /\ Retime(c).data = snap[cur][c].data
                      /\ Retime(c).saved = snap[cur][c].saved
                      /\ Retime(c).at = IF snap[cur][c].at = Never THEN mem.resumedAt
                                        ELSE snap[cur][c].at
                      /\ Retime(c) \in [data : Contents, at : Moments, bases : SUBSET Clusters,
                                        saved : BOOLEAN]
    OBVIOUS
  <2>1. snap[cur][c] \in [data : Contents, at : Moments, bases : SUBSET Clusters, saved : BOOLEAN]
    BY <1>3, <1>4, <1>6 DEF SnapsOfRun
  <2>2. mem.resumedAt \in Moments /\ BaseBackupTags \in SUBSET Clusters
    BY <1>3 DEF Status, BaseBackupTags
  <2> QED BY <2>1, <2>2 DEF Retime
<1>14. row \in SnapsOfRun /\ \A c \in Claims : row[c] = IF c \in moved THEN Retime(c) ELSE snap[cur][c]
  BY <1>3, <1>13 DEF SnapsOfRun
<1> HIDE DEF row
<1>15. /\ snap' \in [Runs -> SnapsOfRun] /\ snap'[cur] = row
       /\ \A r \in Runs : r # cur => snap'[r] = snap[r]
  BY <1>2, <1>3, <1>14
<1>16. Collected(m)
  <2>1. ASSUME NEW t \in Things
        PROVE  /\ m.items[t] \in {mem.items[t], "Succeeded", "Failed"}
               /\ m.items[t] # mem.items[t] => mem.items[t] = "Running"
    BY <1>4, <1>5, <1>6, <1>8, <1>11, <2>1
  <2>2. ASSUME NEW c \in Claims
        PROVE  c \in m.saved \ mem.saved =>
                 src[c].last = cur /\ mem.items[c] = "Running" /\ c \notin app.blank
    BY <1>4, <1>6, <1>10, <1>11, <2>2
  <2>3. ASSUME NEW c \in Claims, m.items[c] = "Succeeded", mem.items[c] # "Succeeded",
               c \notin app.blank
        PROVE  /\ src[c].last = cur
               /\ c \in m.saved \/ snap[cur][c].at # Never
               /\ mem.paused /\ cur \in All => mem.resumedAt # Never
               /\ mem.paused /\ cur \in All /\ ~DatabaseFailed =>
                   (c \in mem.saved /\ snap'[cur][c].at # Never) \/ snap[cur][c].at # Never
    <3>1. c \in done /\ c \in found /\ c \in Synced
      BY <1>4, <1>5, <1>8, <1>11, <2>3, ThingsAssumption DEF Things, found
    <3>2. src[c].last = cur /\ (c \in m.saved \/ snap[cur][c].at # Never)
      BY <1>4, <1>6, <1>10, <1>11, <2>3, <3>1
    <3>3. ASSUME mem.paused, cur \in All, ~DatabaseFailed, snap[cur][c].at = Never
          PROVE  c \in mem.saved /\ snap'[cur][c].at # Never
      <4>1. Retimed /\ mem.resumedAt # Never
        BY <3>1, <3>3 DEF Retimed, Synced
      <4>2. c \in moved
        BY <1>6, <1>7, <2>3, <3>1, <3>3, <4>1
      <4> QED BY <1>6, <1>13, <1>14, <1>15, <3>3, <4>1, <4>2
    <3>4. mem.paused /\ cur \in All => mem.resumedAt # Never
      BY <3>1 DEF Retimed, Synced
    <3> QED BY <3>2, <3>3, <3>4
  <2>4. ASSUME NEW c \in Claims
        PROVE  /\ snap'[cur][c].saved = snap[cur][c].saved
               /\ snap'[cur][c].at # snap[cur][c].at =>
                    /\ snap[cur][c].at = Never /\ c \in mem.saved
                    /\ snap'[cur][c].at = mem.resumedAt
    BY <1>6, <1>13, <1>14, <1>15, <2>4
  <2>5. ASSUME NEW d \in Clusters, m.items[d] = "Succeeded", mem.items[d] # "Succeeded"
        PROVE  bak[cur][d].phase = "completed"
    BY <1>4, <1>5, <1>6, <1>8, <1>11, <2>5, ThingsAssumption DEF Things
  <2> QED BY <2>1, <2>2, <2>3, <2>4, <2>5 DEF Collected
<1> QED BY <1>10, <1>11, <1>12, <1>15, <1>16

LEMMA CollectType == ASSUME TypeOK, cur \in Runs, Collect PROVE TypeOK'
<1>1. UNCHANGED <<st, meta, owner, wl, late, app, src, bak, spoilt, clock, faults>>
  BY DEF Collect
<1>2. pass' \in Passes /\ snap' \in [Runs -> SnapsOfRun]
  BY CollectGives
<1>3. DataTypes'
  BY <1>1, <1>2, SameTypes DEF TypeOK, DataTypes, SnapsOfRun
<1>4. RunTypes' /\ AppTypes'
  BY <1>1, SameTypes DEF TypeOK, RunTypes, AppTypes
<1> QED BY <1>1, <1>2, <1>3, <1>4, SameTypes DEF TypeOK

Source ==
    [tag : Runs \cup {NoRun}, last : Runs \cup {NoRun}, failed : BOOLEAN,
     clone : [run : Runs \cup {NoRun}, made : Moments, data : Contents]]

LEMMA ContentType == TypeOK => Content \in Contents /\ Torn \in Contents
BY DEF TypeOK, AppTypes, Content, Contents

LEMMA MoverType ==
    ASSUME TypeOK, NEW c \in Claims,
           CleanClone(c) \/ CutClone(c) \/ MoverSucceeds(c) \/ MoverFails(c)
    PROVE  TypeOK'
<1>1. /\ src \in [Claims -> Source] /\ snap \in [Runs -> SnapsOfRun] /\ clock \in Nat
      /\ clock \in Moments /\ Never \in Moments
  BY DEF TypeOK, DataTypes, Source, SnapsOfRun, Moments, Never
<1>2. src[c] \in Source /\ src[c].tag \in Runs \cup {NoRun} /\ src[c].clone.data \in Contents
  BY <1>1 DEF Source
<1>3. PICK s \in Source : src' = [src EXCEPT ![c] = s]
  <2>1. CASE CleanClone(c)
    <3>1. NoClone \in [run : Runs \cup {NoRun}, made : Moments, data : Contents]
      BY <1>1, ContentType DEF NoClone
    <3>2. [src[c] EXCEPT !.clone = NoClone] \in Source
      BY <1>2, <3>1 DEF Source
    <3> QED BY <2>1, <3>2 DEF CleanClone, Sync
  <2>2. CASE CutClone(c)
    <3>1. [run |-> src[c].tag, made |-> clock, data |-> Content]
            \in [run : Runs \cup {NoRun}, made : Moments, data : Contents]
      BY <1>1, <1>2, ContentType
    <3>2. [src[c] EXCEPT !.clone = [run |-> src[c].tag, made |-> clock, data |-> Content]] \in Source
      BY <1>2, <3>1 DEF Source
    <3> QED BY <2>2, <3>2 DEF CutClone, Sync
  <2>3. CASE MoverSucceeds(c)
    <3>1. [src[c] EXCEPT !.last = src[c].tag, !.failed = FALSE] \in Source
      BY <1>2 DEF Source
    <3> QED BY <2>3, <3>1 DEF MoverSucceeds, Sync
  <2>4. CASE MoverFails(c)
    <3>1. [src[c] EXCEPT !.failed = TRUE] \in Source
      BY <1>2 DEF Source
    <3>2. src' = [src EXCEPT ![c] = [src[c] EXCEPT !.failed = TRUE]]
      BY <2>4 DEF MoverFails
    <3> QED BY <3>1, <3>2
  <2> QED BY <2>1, <2>2, <2>3, <2>4
<1>4. snap' \in [Runs -> SnapsOfRun]
  <2>1. CASE MoverSucceeds(c)
    <3> DEFINE r == src[c].tag
               saved == [NoSnap EXCEPT !.saved = TRUE, !.data = src[c].clone.data]
               new == IF c \in app.blank THEN snap[r][c] ELSE saved
    <3>1. r \in Runs
      BY <1>2, <2>1 DEF MoverSucceeds, Busy
    <3>2. saved \in [data : Contents, at : Moments, bases : SUBSET Clusters, saved : BOOLEAN]
      BY <1>1, <1>2 DEF NoSnap
    <3>3. snap[r] \in SnapsOfRun
      BY <1>1, <3>1
    <3>4. snap' = [snap EXCEPT ![r] = [snap[r] EXCEPT ![c] = new]]
      BY <2>1 DEF MoverSucceeds
    <3>5. new \in [data : Contents, at : Moments, bases : SUBSET Clusters, saved : BOOLEAN]
      BY <3>2, <3>3 DEF SnapsOfRun
    <3> HIDE DEF new
    <3>6. [snap[r] EXCEPT ![c] = new] \in SnapsOfRun
      BY <3>3, <3>5 DEF SnapsOfRun
    <3> QED BY <1>1, <3>4, <3>6
  <2>2. CASE snap' = snap
    BY <1>1, <2>2
  <2> QED BY <2>1, <2>2 DEF CleanClone, CutClone, MoverFails
<1>5. UNCHANGED <<st, meta, pass, owner, wl, late, app, bak, spoilt, clock>>
  BY DEF CleanClone, CutClone, MoverSucceeds, MoverFails, Sync
<1>6. faults' \in 0 .. MaxFaults
  BY TroubleType DEF CleanClone, CutClone, MoverSucceeds, MoverFails, Sync
<1>7. src' \in [Claims -> Source]
  BY <1>1, <1>3
<1>8. DataTypes'
  BY <1>4, <1>5, <1>7, SameTypes DEF TypeOK, DataTypes, Source, SnapsOfRun
<1>9. RunTypes' /\ AppTypes' /\ pass' \in Passes'
  BY <1>5, SameTypes DEF TypeOK, RunTypes, AppTypes
<1> QED BY <1>1, <1>5, <1>6, <1>8, <1>9 DEF TypeOK

LEMMA BackupEndsType ==
    ASSUME TypeOK, NEW r \in Runs, NEW d \in Clusters, BackupEnds(r, d)
    PROVE  TypeOK'
<1>1. UNCHANGED <<st, meta, pass, owner, wl, late, app, src, snap, spoilt, clock>>
  BY DEF BackupEnds
<1>2. bak \in [Runs -> BackupsOfRun]
  BY DEF TypeOK, DataTypes, BackupsOfRun
<1>3. PICK b \in [phase : {"none", "running", "completed", "failed"}, data : Contents] :
        bak' = [bak EXCEPT ![r] = [bak[r] EXCEPT ![d] = b]]
  <2>1. [phase |-> "completed", data |-> Content]
           \in [phase : {"none", "running", "completed", "failed"}, data : Contents]
    BY ContentType
  <2>2. [bak[r][d] EXCEPT !.phase = "failed"]
           \in [phase : {"none", "running", "completed", "failed"}, data : Contents]
    BY <1>2 DEF BackupsOfRun
  <2> QED BY <2>1, <2>2 DEF BackupEnds
<1>4. [bak[r] EXCEPT ![d] = b] \in BackupsOfRun
  BY <1>2 DEF BackupsOfRun
<1>5. bak' \in [Runs -> BackupsOfRun]
  BY <1>2, <1>3, <1>4
<1>6. DataTypes'
  BY <1>1, <1>5, SameTypes DEF TypeOK, DataTypes, BackupsOfRun
<1>7. RunTypes' /\ AppTypes' /\ pass' \in Passes'
  BY <1>1, SameTypes DEF TypeOK, RunTypes, AppTypes
<1>8. faults' \in 0 .. MaxFaults
  BY TroubleType DEF BackupEnds
<1> QED BY <1>1, <1>6, <1>7, <1>8 DEF TypeOK

LEMMA SurroundingsType ==
    ASSUME TypeOK, AppSteps \/ \E r \in Runs : Deadline(r)
    PROVE  TypeOK' /\ Contents \subseteq Contents'
<1>1. UNCHANGED <<st, meta, pass, owner, wl, src, snap, bak, spoilt, clock, faults>>
  BY DEF AppSteps, Deadline
<1>2. AppTypes' /\ app.starts \in Nat /\ app'.starts \in {app.starts, app.starts + 1}
  <2>1. app.starts \in Nat /\ AppTypes
    BY DEF TypeOK, AppTypes
  <2>2. CASE app' = [app EXCEPT !.pods = FALSE] \/ app' = app
    BY <2>1, <2>2 DEF AppTypes
  <2>3. CASE app' = [app EXCEPT !.pods = TRUE, !.starts = app.starts + 1]
    <3>1. PICK n \in Nat : n = app.starts + 1
      BY <2>1
    <3>2. app' = [app EXCEPT !.pods = TRUE, !.starts = n]
      BY <2>3, <3>1
    <3>3. AppTypes' /\ app'.starts = n
      BY <2>1, <3>2 DEF AppTypes
    <3> QED BY <2>1, <3>1, <3>3
  <2>4. CASE app' = [app EXCEPT !.replicas = 1]
    BY <2>1, <2>4 DEF AppTypes
  <2> QED BY <2>2, <2>3, <2>4 DEF AppSteps, Deadline
<1>3. Contents \subseteq Contents'
  BY <1>2 DEF Contents
<1>4. late' \subseteq Runs
  BY DEF AppSteps, Deadline, TypeOK, RunTypes
<1>5. RunTypes' /\ pass' \in Passes'
  BY <1>1, <1>4, SameTypes DEF TypeOK, RunTypes
<1>6. DataTypes'
  BY <1>1, <1>3, SameTypes DEF TypeOK, DataTypes
<1> QED BY <1>1, <1>2, <1>3, <1>5, <1>6 DEF TypeOK

LEMMA InitType == Init => TypeOK
<1> SUFFICES ASSUME Init PROVE TypeOK
  OBVIOUS
<1>1. clock \in Nat /\ clock = 1 /\ Never \in Moments /\ Torn \in Contents
  BY DEF Init, Moments, Never, Contents
<1>2. faults \in 0 .. MaxFaults
  BY FaultsAssumption DEF Init
<1>3. AppTypes
  BY AppsAssumption DEF Init, AppTypes
<1>4. RunTypes
  <2>1. Empty \in Status
    BY <1>1, EmptyType
  <2> QED BY <2>1 DEF Init, RunTypes
<1>5. DataTypes
  <2>1. /\ NoSnap \in [data : Contents, at : Moments, bases : SUBSET Clusters, saved : BOOLEAN]
        /\ NoClone \in [run : Runs \cup {NoRun}, made : Moments, data : Contents]
    BY <1>1 DEF NoSnap, NoClone
  <2> QED BY <1>1, <2>1 DEF Init, DataTypes
<1> QED BY <1>1, <1>2, <1>3, <1>4, <1>5, IdleType DEF TypeOK, Init

LEMMA NextType ==
    ASSUME TypeOK, On => cur \in Runs, [Next]_vars
    PROVE  TypeOK'
<1>1. CASE \E r \in Runs : Reconcile(r) \/ Expire(r)
  BY <1>1, ReconcileType, MetaType
<1>2. CASE Works
  <2>1. cur \in Runs \/ ~On
    OBVIOUS
  <2>2. On
    BY <1>2 DEF Works, On, At, Plan, EnsureWorkload, Admit, EndIfEvicted, RecordLeases,
      TakeLeases, Pause, ApplySuspend, ApplyScale, PodsGone, StartVolume, StartDatabase,
      ItemsStarted, Resume, ScaleUp, Unsuspend, Collect, EndWork, Release, ReleaseAll,
      DeleteWorkload, Finish, DropFinalizer
  <2> QED BY <1>2, <2>1, <2>2, PlanType, WorkloadType, AdmitType, MoveType, RecordLeasesType,
            OwnerType, PauseType, AppStepType, StartVolumeType, StartDatabaseType, ResumeType,
            CollectType, EndWorkType, FinishType, MetaType
          DEF Works
<1>3. CASE Fails
  BY <1>3, MoveType DEF Fails
<1>4. CASE Surroundings
  BY <1>4, MoverType, WorkloadType, SurroundingsType, MetaType, BackupEndsType DEF Surroundings
<1>5. CASE UNCHANGED vars
  <2>1. UNCHANGED <<meta, owner, world, clock, faults, st, pass>>
    BY <1>5 DEF vars, world
  <2> QED BY <2>1, PassTypes, SameTypes DEF TypeOK, RunTypes
<1> QED BY <1>1, <1>2, <1>3, <1>4, <1>5 DEF Next

-----------------------------------------------------------------------------
(* The pause is kept in order: each step preserves PInv. *)

PauseOK == (\A r \in Runs : PauseInv(r, st[r])) /\ AppInv /\ MetaInv

PState == <<st, meta, owner, app>>

LEMMA InHandGives ==
    ASSUME PInv, On
    PROVE  /\ pass \in Passes /\ mem \in Status /\ cur \in Runs /\ meta[cur].state # "gone"
           /\ meta[cur].finalizer /\ PauseInv(cur, mem) /\ Agree /\ HolderInv /\ StageInv
           /\ PauseOK /\ TypeOK
BY MemType DEF PInv, InHand, PauseOK

LEMMA SamePauseOK ==
    ASSUME PauseOK, UNCHANGED PState
    PROVE  PauseOK'
BY DEF PauseOK, PauseInv, AppInv, MetaInv, PState, OwnApp, Alive

(* A pass that ends leaves the rest as it is. *)
LEMMA StopKeeps ==
    ASSUME PauseOK', StopPass
    PROVE  PauseOK' /\ InHand' /\ StageInv'
BY DEF StopPass, InHand, StageInv, On, Idle

(* A pass that goes on with the same pause in hand. *)
LEMMA MoveKeeps ==
    ASSUME PInv, On, ~At("unsuspend"), UNCHANGED PState,
           pass'.run = pass.run, SamePause(pass'.mem, mem)
    PROVE  PauseOK' /\ InHand'
<1>1. PICK m, n : m = pass'.mem /\ n = mem
  OBVIOUS
<1>2. cur' = cur /\ mem' = m
  BY <1>1 DEF cur, mem
<1>3. PauseOK'
  BY InHandGives, SamePauseOK
<1>4. PauseInv(cur, mem)' /\ Agree' /\ HolderInv'
  BY <1>1, <1>2, InHandGives DEF PauseInv, Agree, HolderInv, SamePause, PState, OwnApp, At
<1> QED BY <1>2, <1>3, <1>4, InHandGives DEF InHand, PState

(* The steps that change nothing the pause depends on. *)
LEMMA ElsewhereKeeps ==
    ASSUME PInv, UNCHANGED <<st, meta, pass, owner, app>>
    PROVE  PauseOK' /\ InHand' /\ StageInv'
<1>1. PauseOK'
  BY SamePauseOK DEF PInv, PauseOK, PState
<1>2. mem' = mem /\ cur' = cur /\ (On' <=> On) /\ OwnApp' = OwnApp
  BY DEF mem, cur, On, OwnApp
<1>3. InHand'
  BY <1>2 DEF PInv, InHand, PauseInv, Agree, HolderInv, At
<1>4. StageInv'
  BY <1>2 DEF PInv, StageInv
<1> QED BY <1>1, <1>3, <1>4

(* The moves of a pass that touch nothing of the pause. *)
Onward(p, q) ==
    \/ /\ q.end = p.end
       /\ \/ p.pc = "check" /\ q.pc = "record"
          \/ p.pc = "record" /\ q.pc = "take"
          \/ p.pc = "pods" /\ q.pc = "items"
          \/ p.pc = "items" /\ q.pc \in {"items", "collect"}
          \/ p.pc = "items" /\ q.pc = "resume" /\ p.mem.pausedAt # Never
          \/ p.pc = "admit" /\ q.pc = "start"
          \/ p.pc = "deleteWorkload" /\ q.pc = "finish"
          \/ p.pc = "collect" /\ q.pc = "write"
          \/ p.pc = "resume" /\ q.pc = "collect"
          \/ /\ p.pc \in {"resume", "release"} /\ q.pc = "scaleUp"
             /\ p.mem.resumedAt # Never /\ ~p.mem.resumed
          \/ p.pc = "release" /\ q.pc = "giveBack" /\ (p.mem.paused => p.mem.resumed)
          \/ p.pc = "giveBack" /\ q.pc = "deleteWorkload"
          \/ p.pc = "finish" /\ q.pc = "dropFinalizer" /\ p.end = "Deleted"
    \/ /\ p.pc \in Starting \cup Working
       /\ q.pc = "release" /\ q.end \in {"Failed", "Succeeded"}

LEMMA OnwardStage ==
    ASSUME NEW p, NEW q, NEW s, NEW h, NEW n, Stage(p, s, h, n), Onward(p, q),
           q.run = p.run, SamePause(q.mem, p.mem)
    PROVE  Stage(q, s, h, n) /\ p.pc # "unsuspend" /\ p.pc # "idle" /\ q.pc # "idle"
<1> PICK a, b, c, d, m, k : a = p.pc /\ b = q.pc /\ c = p.end /\ d = q.end /\ m = p.mem /\ k = q.mem
  OBVIOUS
<1>1. CASE d = c
  BY <1>1 DEF Stage, Onward, SamePause, InWork, Starting, Working, Pausing, Resuming, Returning,
              Ending
<1>2. CASE d # c
  BY <1>2 DEF Stage, Onward, SamePause, InWork, Starting, Working, Pausing, Resuming, Returning,
              Ending
<1> QED BY <1>1, <1>2

LEMMA OnwardKeeps ==
    ASSUME PInv, UNCHANGED PState, Onward(pass, pass'), On,
           pass'.run = pass.run, SamePause(pass'.mem, mem)
    PROVE  PauseOK' /\ InHand' /\ StageInv'
<1>1. Stage(pass, meta[cur].state, owner[PauseName], app.replicas)
  BY DEF PInv, StageInv
<1>2. Stage(pass', meta[cur].state, owner[PauseName], app.replicas) /\ ~At("unsuspend") /\ On'
  BY <1>1, OnwardStage DEF mem, At, On
<1>3. StageInv'
  BY <1>2 DEF StageInv, PState, cur
<1> QED BY <1>2, <1>3, MoveKeeps

(* The same pause with other items or another mark of the Workload. *)
LEMMA AbortPause ==
    ASSUME TypeOK, Abort(mem)
    PROVE  /\ pass'.run = pass.run /\ SamePause(pass'.mem, mem)
           /\ pass'.pc = "release" /\ pass'.end = "Failed"
<1>1. mem \in Status /\ pass'.mem = [mem EXCEPT !.items = pass'.mem.items]
  BY MemType, AbortType
<1>2. \A i : SamePause([mem EXCEPT !.items = i], mem)
  BY <1>1 DEF SamePause, Status
<1> QED BY <1>1, <1>2, AbortType

LEMMA SetItemPause ==
    ASSUME TypeOK, NEW t \in Things, NEW phase \in ItemPhases, SetItem(t, phase)
    PROVE  pass'.run = pass.run /\ pass'.pc = pass.pc /\ pass'.end = pass.end
           /\ SamePause(pass'.mem, mem)
<1>1. mem \in Status /\ pass'.mem = [mem EXCEPT !.items = pass'.mem.items]
  BY MemType, SetItemType
<1>2. \A i : SamePause([mem EXCEPT !.items = i], mem)
  BY <1>1 DEF SamePause, Status
<1> QED BY <1>1, <1>2, SetItemType DEF SamePass

LEMMA GotoPause ==
    ASSUME TypeOK, NEW pc \in Stages, Goto(pc)
    PROVE  pass'.run = pass.run /\ pass'.pc = pc /\ pass'.end = pass.end
           /\ SamePause(pass'.mem, mem)
BY GotoType DEF SamePass, SamePause

LEMMA AbortKeeps ==
    ASSUME PInv, UNCHANGED PState, Abort(mem), On, pass.pc \in Starting \cup Working
    PROVE  PauseOK' /\ InHand' /\ StageInv'
BY AbortPause, OnwardKeeps DEF PInv, Onward

LEMMA ItemsKeep ==
    ASSUME PInv,
           \/ PodsGone \/ ItemsStarted \/ EndIfEvicted \/ ApplyFails
           \/ \E t \in Things : StartFails(t)
           \/ \E c \in Claims : StartVolume(c)
           \/ \E d \in Clusters : StartDatabase(d)
    PROVE  PauseOK' /\ InHand' /\ StageInv'
<1>1. TypeOK /\ PauseOK
  BY DEF PInv, PauseOK
<1>2. UNCHANGED PState
  BY DEF PState, PodsGone, ItemsStarted, EndIfEvicted, ApplyFails, StartFails, StartVolume,
         StartDatabase, cluster, world
<1>3. /\ {"items", "resume", "collect", "record"} \subseteq Stages
      /\ Claims \subseteq Things /\ Clusters \subseteq Things
      /\ {"Failed", "Running", "Skipped"} \subseteq ItemPhases
  BY DEF Stages, Things, ItemPhases
<1>4. CASE PodsGone
  <2>1. CASE StopPass
    BY <1>1, <1>2, <2>1, SamePauseOK, StopKeeps
  <2>2. CASE Goto("items")
    BY <1>1, <1>2, <1>3, <1>4, <2>2, GotoPause, OnwardKeeps DEF PodsGone, At, On, Onward
  <2> QED BY <1>4, <2>1, <2>2 DEF PodsGone
<1>5. CASE ItemsStarted
  BY <1>1, <1>2, <1>3, <1>5, GotoPause, OnwardKeeps DEF ItemsStarted, At, On, Onward, mem
<1>6. CASE EndIfEvicted
  <2>1. CASE Abort(mem)
    BY <1>2, <1>6, <2>1, AbortKeeps DEF EndIfEvicted, At, On, Starting
  <2>2. CASE Goto("record")
    BY <1>1, <1>2, <1>3, <1>6, <2>2, GotoPause, OnwardKeeps DEF EndIfEvicted, At, On, Onward
  <2> QED BY <1>6, <2>1, <2>2 DEF EndIfEvicted
<1>7. CASE ApplyFails
  BY <1>2, <1>7, AbortKeeps DEF ApplyFails, On, Working, Pausing
<1>8. CASE At("items") /\ \E t \in Things, phase \in ItemPhases : SetItem(t, phase)
  BY <1>1, <1>2, <1>8, SetItemPause, OnwardKeeps DEF At, On, Onward
<1> QED BY <1>3, <1>4, <1>5, <1>6, <1>7, <1>8 DEF StartFails, StartVolume, StartDatabase

LEMMA WorkloadKeeps ==
    ASSUME PInv, EnsureWorkload \/ DeleteWorkload
    PROVE  PauseOK' /\ InHand' /\ StageInv'
<1>1. TypeOK /\ UNCHANGED PState /\ {"start", "finish"} \subseteq Stages
  BY DEF PInv, PState, EnsureWorkload, DeleteWorkload, Stages
<1>2. CASE EnsureWorkload
  <2> DEFINE m == [mem EXCEPT !.workload = TRUE]
  <2>1. m \in Status /\ SamePause(m, mem)
    BY <1>1, MemType DEF Status, SamePause
  <2>2. pass' = Step("start", m)
    BY <1>2 DEF EnsureWorkload, GotoWith
  <2> HIDE DEF m
  <2>3. pass'.pc = "start" /\ pass'.mem = m /\ pass'.run = pass.run /\ pass'.end = pass.end
    BY <1>1, <2>1, <2>2, StepType, MemType DEF SamePass
  <2> QED BY <1>1, <1>2, <2>1, <2>3, OnwardKeeps DEF EnsureWorkload, At, On, Onward
<1>3. CASE DeleteWorkload
  BY <1>1, <1>3, GotoPause, OnwardKeeps DEF DeleteWorkload, At, On, Onward
<1> QED BY <1>2, <1>3

LEMMA CollectKeeps ==
    ASSUME PInv, Collect
    PROVE  PauseOK' /\ InHand' /\ StageInv'
<1>1. TypeOK /\ On /\ UNCHANGED PState /\ At("collect")
  BY DEF PInv, PState, Collect, On, At
<1>2. cur \in Runs
  BY <1>1, InHandGives
<1> QED BY <1>1, <1>2, CollectGives, OnwardKeeps DEF At, Onward, SamePass

(* A status that a pass stores: the pause it had in hand, or more of it.   *)
(* It ends the run only once the app is resumed.                           *)
Storable(m) ==
    /\ PauseInv(cur, m)
    /\ m.paused = mem.paused /\ m.resumed = mem.resumed
    /\ m.paused /\ Finished(m.phase) => m.resumed \/ Finished(mem.phase)

LEMMA StoreKeeps ==
    ASSUME PInv, On, ~At("unsuspend"), NEW m, Storable(m), st' = [st EXCEPT ![cur] = m],
           UNCHANGED <<meta, owner, app>>
    PROVE  PauseOK'
<1>1. /\ st \in [Runs -> Status] /\ cur \in Runs /\ meta[cur].state # "gone"
      /\ meta[cur].finalizer /\ HolderInv /\ PauseOK /\ mem.paused = st[cur].paused
      /\ mem.phase = st[cur].phase
      /\ st[cur].paused \in BOOLEAN /\ st[cur].resumed \in BOOLEAN
  BY InHandGives DEF TypeOK, RunTypes, Agree, Status
<1>2. st'[cur] = m /\ \A r \in Runs : r # cur => st'[r] = st[r]
  BY <1>1 DEF Storable
<1>3. \A r \in Runs : PauseInv(r, st[r])'
  BY <1>1, <1>2 DEF Storable, PauseInv, PauseOK
<1>4. MetaInv'
  BY <1>1, <1>2 DEF MetaInv, PauseOK, Alive
<1>5. AppInv'
  <2>1. SUFFICES ASSUME ~OwnApp
                 PROVE  /\ owner[PauseName] \in Runs /\ Alive(owner[PauseName])'
                        /\ st'[owner[PauseName]].paused /\ ~st'[owner[PauseName]].resumed
    BY <1>1 DEF AppInv, PauseOK, OwnApp
  <2>2. PICK o \in Runs : o = owner[PauseName] /\ Alive(o) /\ st[o].paused /\ ~st[o].resumed
    BY <1>1, <2>1 DEF PauseOK, AppInv
  <2>3. CASE o # cur
    BY <1>2, <2>2, <2>3 DEF Alive
  <2>4. CASE o = cur
    <3>1. ~mem.resumed
      BY <1>1, <2>1, <2>2, <2>4 DEF HolderInv
    <3>2. m.paused /\ ~m.resumed /\ ~Finished(m.phase)
      BY <1>1, <2>2, <2>4, <3>1 DEF Storable, Alive
    <3> QED BY <1>1, <1>2, <2>2, <2>4, <3>2 DEF Alive
  <2> QED BY <2>3, <2>4
<1> QED BY <1>3, <1>4, <1>5 DEF PauseOK

(* A write that ends the pass, or goes on with what it stored. *)
LEMMA WriteStopKeeps ==
    ASSUME PInv, On, ~At("unsuspend"), NEW m, Storable(m), WriteStatus(m, Idle),
           UNCHANGED <<meta, owner, app>>
    PROVE  PauseOK' /\ InHand' /\ StageInv'
<1>1. StopPass
  BY DEF WriteStatus, StopPass
<1>2. PauseOK'
  BY StoreKeeps, InHandGives, SamePauseOK DEF WriteStatus, PState
<1> QED BY <1>1, <1>2, StopKeeps

LEMMA WriteGoKeeps ==
    ASSUME PInv, On, ~At("unsuspend"), NEW m, Storable(m), NEW next,
           WriteStatus(m, next), UNCHANGED <<meta, owner, app>>,
           next.run = cur, next.mem = m, next.pc # "idle",
           Stage(next, meta[cur].state, owner[PauseName], app.replicas)
    PROVE  PauseOK' /\ InHand' /\ StageInv'
<1>1. CASE pass.stale
  <2>1. StopPass /\ UNCHANGED PState
    BY <1>1 DEF WriteStatus, PState
  <2> QED BY <2>1, InHandGives, SamePauseOK, StopKeeps
<1>2. CASE ~pass.stale
  <2>1. st' = [st EXCEPT ![cur] = m] /\ pass' = next
    BY <1>2 DEF WriteStatus
  <2>2. /\ st \in [Runs -> Status] /\ cur \in Runs /\ meta[cur].state # "gone"
        /\ meta[cur].finalizer /\ HolderInv
    BY InHandGives DEF TypeOK, RunTypes
  <2>3. mem' = m /\ cur' = cur /\ On' /\ st'[cur] = m
    BY <2>1, <2>2 DEF mem, cur, On, Storable
  <2>4. PauseOK'
    BY <2>1, StoreKeeps
  <2>5. Agree' /\ HolderInv' /\ PauseInv(cur, mem)'
    BY <2>2, <2>3 DEF Agree, HolderInv, OwnApp, Storable, PauseInv
  <2>6. InHand'
    BY <2>2, <2>3, <2>5 DEF InHand
  <2>7. StageInv'
    BY <2>1, <2>3 DEF StageInv
  <2> QED BY <2>4, <2>6, <2>7
<1> QED BY <1>1, <1>2

LEMMA SameStorable ==
    ASSUME PInv, On, NEW m \in Status, SamePause(m, mem), Finished(m.phase) => pass.pc = "finish"
    PROVE  Storable(m)
<1>1. mem \in Status /\ PauseInv(cur, mem)
  BY InHandGives
<1>2. pass.pc = "finish" /\ mem.paused => mem.resumed
  BY InHandGives DEF StageInv, Stage, Returning, mem
<1> QED BY <1>1, <1>2 DEF Storable, SamePause, PauseInv

LEMMA PlanKeeps == ASSUME PInv, Plan PROVE PauseOK' /\ InHand' /\ StageInv'
<1>1. On /\ ~At("unsuspend") /\ UNCHANGED <<meta, owner, app>>
  BY DEF Plan, At, On, world
<1>2. mem \in Status /\ PauseInv(cur, mem) /\ mem.phase = ""
  BY <1>1, InHandGives DEF StageInv, Stage, Plan, At, mem
<1>3. CASE \E i : WriteStatus([mem EXCEPT !.phase = "Queued", !.items = i], Idle)
           /\ [mem EXCEPT !.phase = "Queued", !.items = i] \in Status
  <2>1. PICK i : LET m == [mem EXCEPT !.phase = "Queued", !.items = i] IN
                 WriteStatus(m, Idle) /\ m \in Status
    BY <1>3
  <2> DEFINE m == [mem EXCEPT !.phase = "Queued", !.items = i]
  <2>2. Storable(m)
    BY <1>2, <2>1 DEF Storable, PauseInv, Finished, Status
  <2> QED BY <1>1, <2>1, <2>2, WriteStopKeeps
<1>4. CASE pass' = [pass EXCEPT !.pc = "release", !.end = "Failed"] /\ UNCHANGED st
  <2>1. /\ pass'.run = pass.run /\ pass'.pc = "release" /\ pass'.end = "Failed"
        /\ pass'.mem = mem
    BY <1>1, <1>4, InHandGives DEF Passes, mem
  <2> QED BY <1>1, <1>4, <2>1, OnwardKeeps DEF Onward, Starting, Plan, At, SamePause, PState
<1>5. [t \in Things |-> IF t \in Target(cur) THEN "Pending" ELSE "None"] \in [Things -> ItemPhases]
  BY DEF ItemPhases
<1>6. \A i \in [Things -> ItemPhases] : [mem EXCEPT !.phase = "Queued", !.items = i] \in Status
  BY <1>2 DEF Status
<1> QED BY <1>3, <1>4, <1>5, <1>6 DEF Plan

LEMMA AdmitKeeps == ASSUME PInv, Admit PROVE PauseOK' /\ InHand' /\ StageInv'
<1>1. On /\ ~At("unsuspend") /\ UNCHANGED <<meta, owner, app>>
  BY DEF Admit, At, On, world
<1>2. mem \in Status /\ PauseInv(cur, mem) /\ mem.phase = "Queued"
  BY <1>1, InHandGives DEF StageInv, Stage, Admit, At, mem
<1>3. CASE WriteStatus(mem, Idle)
  BY <1>1, <1>2, <1>3, SameStorable, WriteStopKeeps DEF SamePause, Finished
<1>4. CASE WriteStatus([mem EXCEPT !.phase = "Running"], Idle)
  <2>1. Storable([mem EXCEPT !.phase = "Running"])
    BY <1>2 DEF Storable, PauseInv, Finished, Status
  <2> QED BY <1>1, <1>4, <2>1, WriteStopKeeps
<1>5. CASE Abort(mem) /\ UNCHANGED st
  BY <1>1, <1>5, AbortKeeps DEF Admit, At, Starting, PState
<1> QED BY <1>3, <1>4, <1>5 DEF Admit

LEMMA RecordLeasesKeeps == ASSUME PInv, RecordLeases PROVE PauseOK' /\ InHand' /\ StageInv'
<1> DEFINE m == [mem EXCEPT !.leases = TRUE]
<1>1. On /\ At("record") /\ ~At("unsuspend") /\ UNCHANGED <<meta, owner, app>>
  BY DEF RecordLeases, At, On, world
<1>2. mem \in Status /\ PauseInv(cur, mem) /\ mem.phase = "Running" /\ "take" \in Stages
  BY <1>1, InHandGives DEF StageInv, Stage, At, mem, Stages
<1>3. CASE Goto("take") /\ UNCHANGED st
  BY <1>1, <1>2, <1>3, GotoPause, OnwardKeeps DEF PInv, PState, At, Onward
<1>4. CASE WriteStatus(m, Step("take", m))
  <2>1. Storable(m) /\ m.phase = mem.phase /\ m \in Status
    BY <1>2 DEF Storable, PauseInv, Finished, Status
  <2> HIDE DEF m
  <2>2. Step("take", m).pc = "take" /\ Step("take", m).mem = m /\ SamePass(Step("take", m), pass)
    BY <1>1, <1>2, <2>1, StepType, InHandGives
  <2>3. Stage(pass, meta[cur].state, owner[PauseName], app.replicas)
    BY <1>1, InHandGives DEF StageInv
  <2>4. Stage(Step("take", m), meta[cur].state, owner[PauseName], app.replicas)
    <3> PICK p : p = Step("take", m)
      OBVIOUS
    <3> QED BY <1>1, <1>2, <2>1, <2>2, <2>3
            DEF Stage, SamePass, At, mem, InWork, Starting, Working, Pausing, Resuming,
                Returning, Ending, Finished
  <2> QED BY <1>1, <1>4, <2>1, <2>2, <2>4, WriteGoKeeps DEF SamePass, cur
<1> QED BY <1>3, <1>4 DEF RecordLeases

LEMMA EndWorkKeeps == ASSUME PInv, EndWork PROVE PauseOK' /\ InHand' /\ StageInv'
<1>1. On /\ At("write") /\ ~At("unsuspend") /\ UNCHANGED <<meta, owner, app>>
  BY DEF EndWork, At, On, world
<1>2. mem \in Status /\ mem.phase = "Running" /\ pass \in Passes
  BY <1>1, InHandGives DEF StageInv, Stage, At, mem, InWork, Working
<1>3. CASE WriteStatus(mem, Idle)
  BY <1>1, <1>2, <1>3, SameStorable, WriteStopKeeps DEF SamePause, Finished
<1>4. CASE UNCHANGED st /\ \E end \in {"Failed", "Succeeded"} :
             pass' = [pass EXCEPT !.pc = "release", !.end = end]
  <2>1. /\ pass'.run = pass.run /\ pass'.pc = "release" /\ pass'.end \in {"Failed", "Succeeded"}
        /\ pass'.mem = mem
    BY <1>2, <1>4 DEF Passes, mem
  <2> QED BY <1>1, <1>4, <2>1, OnwardKeeps DEF Onward, Working, At, SamePause, PState
<1> QED BY <1>3, <1>4 DEF EndWork

LEMMA FinishKeeps == ASSUME PInv, Finish PROVE PauseOK' /\ InHand' /\ StageInv'
<1> DEFINE m == [mem EXCEPT !.phase = pass.end, !.workload = FALSE]
<1>1. On /\ At("finish") /\ ~At("unsuspend") /\ UNCHANGED <<meta, owner, app>>
  BY DEF Finish, At, On, world
<1>2. /\ mem \in Status /\ pass \in Passes /\ PauseInv(cur, mem) /\ "dropFinalizer" \in Stages
      /\ Stage(pass, meta[cur].state, owner[PauseName], app.replicas)
      /\ pass.end \in {"Succeeded", "Failed", "Deleted"} /\ (mem.paused => mem.resumed)
  <2>1. Stage(pass, meta[cur].state, owner[PauseName], app.replicas)
    BY <1>1, InHandGives DEF StageInv
  <2>2. pass.end # "" /\ (mem.paused => mem.resumed)
    BY <1>1, <2>1 DEF Stage, Ending, Returning, At, mem
  <2> QED BY <1>1, <2>1, <2>2, InHandGives DEF Stages, Passes
<1>3. ASSUME NEW k \in Status, Storable(k), WriteStatus(k, Step("dropFinalizer", k)),
             SamePause([k EXCEPT !.phase = mem.phase], mem),
             pass.end # "Deleted" => Finished(k.phase)
      PROVE  PauseOK' /\ InHand' /\ StageInv'
  <2>1. /\ Step("dropFinalizer", k).pc = "dropFinalizer" /\ Step("dropFinalizer", k).mem = k
        /\ SamePass(Step("dropFinalizer", k), pass)
    BY <1>2, <1>3, StepType
  <2>2. k.paused = mem.paused /\ k.resumed = mem.resumed /\ k.resumedAt = mem.resumedAt
    BY <1>3 DEF SamePause, Status
  <2>3. Stage(Step("dropFinalizer", k), meta[cur].state, owner[PauseName], app.replicas)
    <3> PICK p : p = Step("dropFinalizer", k)
      OBVIOUS
    <3> QED BY <1>1, <1>2, <1>3, <2>1, <2>2
            DEF Stage, SamePass, At, mem, InWork, Starting, Working, Pausing, Resuming,
                Returning, Ending
  <2> QED BY <1>1, <1>3, <2>1, <2>3, WriteGoKeeps DEF SamePass, cur
<1>4. CASE pass.end = "Deleted" /\ Goto("dropFinalizer") /\ UNCHANGED st
  BY <1>1, <1>2, <1>4, GotoPause, OnwardKeeps DEF PInv, PState, At, Onward
<1>5. CASE pass.end = "Deleted" /\ WriteStatus(mem, Step("dropFinalizer", mem))
  <2>1. Storable(mem) /\ SamePause([mem EXCEPT !.phase = mem.phase], mem)
    BY <1>1, <1>2, SameStorable DEF SamePause, At, Status
  <2> QED BY <1>2, <1>3, <1>5, <2>1
<1>6. CASE pass.end # "Deleted" /\ WriteStatus(m, Step("dropFinalizer", m))
  <2>1. m \in Status /\ m.phase = pass.end /\ SamePause([m EXCEPT !.phase = mem.phase], mem)
    BY <1>2, <1>6 DEF Status, SamePause
  <2>2. Storable(m)
    BY <1>2, <1>6, <2>1 DEF Storable, PauseInv, Status
  <2>3. Finished(m.phase)
    BY <1>2, <1>6, <2>1 DEF Finished
  <2> HIDE DEF m
  <2> QED BY <1>3, <1>6, <2>1, <2>2, <2>3
<1> QED BY <1>4, <1>5, <1>6 DEF Finish

LEMMA RecordResumeKeeps ==
    ASSUME PInv, RecordResume, pass.pc \in {"resume", "release"}, mem.resumedAt = Never,
           mem.pausedAt # Never, UNCHANGED <<meta, owner, app>>
    PROVE  PauseOK' /\ InHand' /\ StageInv'
<1> DEFINE m == [mem EXCEPT !.resumedAt = clock + 1]
<1>1. On /\ ~At("unsuspend")
  BY DEF At, On
<1>2. /\ mem \in Status /\ pass \in Passes /\ PauseInv(cur, mem) /\ "scaleUp" \in Stages
      /\ Stage(pass, meta[cur].state, owner[PauseName], app.replicas) /\ clock \in Nat
  BY <1>1, InHandGives DEF StageInv, Stages, TypeOK
<1>3. clock + 1 # Never
  BY <1>2 DEF Never
<1>4. ~mem.resumed
  BY <1>2 DEF PauseInv
<1>5. /\ PauseInv(cur, m) /\ m.paused = mem.paused /\ m.resumed = mem.resumed
      /\ m.phase = mem.phase /\ m.resumedAt # Never
  BY <1>2, <1>3, <1>4 DEF PauseInv, Status
<1>6. WriteStatus(m, Step("scaleUp", m))
  BY DEF RecordResume
<1> HIDE DEF m
<1>7. /\ Step("scaleUp", m).pc = "scaleUp" /\ Step("scaleUp", m).mem = m
      /\ SamePass(Step("scaleUp", m), pass)
  BY <1>2 DEF Step, Passes, SamePass
<1>8. Stage(Step("scaleUp", m), meta[cur].state, owner[PauseName], app.replicas)
  <2> PICK p : p = Step("scaleUp", m)
    OBVIOUS
  <2> QED BY <1>2, <1>4, <1>5, <1>7
          DEF Stage, SamePass, mem, InWork, Starting, Working, Pausing, Resuming,
              Returning, Ending
<1>9. Storable(m)
  BY <1>5 DEF Storable
<1> QED BY <1>1, <1>6, <1>7, <1>8, <1>9, WriteGoKeeps DEF SamePass, cur

LEMMA ResumeKeeps == ASSUME PInv, Resume \/ Release PROVE PauseOK' /\ InHand' /\ StageInv'
<1>1. On /\ UNCHANGED <<meta, owner, app>> /\ pass.pc \in {"resume", "release"}
  BY DEF Resume, Release, At, On, world
<1>2. /\ TypeOK /\ PauseInv(cur, mem) /\ mem \in Status
      /\ Stage(pass, meta[cur].state, owner[PauseName], app.replicas)
  BY <1>1, InHandGives DEF StageInv
<1>3. {"collect", "scaleUp", "giveBack"} \subseteq Stages
  BY DEF Stages
<1>4. CASE RecordResume /\ mem.resumedAt = Never /\ (mem.pausedAt # Never \/ At("resume"))
  <2>1. At("resume") => mem.pausedAt # Never
    BY <1>2 DEF Stage, At, mem
  <2> QED BY <1>1, <1>4, <2>1, RecordResumeKeeps
<1>5. CASE At("resume") /\ Goto("collect") /\ UNCHANGED st
  BY <1>1, <1>2, <1>3, <1>5, GotoPause, OnwardKeeps DEF PState, At, Onward
<1>6. CASE Goto("scaleUp") /\ mem.resumedAt # Never /\ ~Resumed(mem) /\ UNCHANGED st
  BY <1>1, <1>2, <1>3, <1>6, GotoPause, OnwardKeeps DEF PState, Onward, Resumed, mem
<1>7. CASE At("release") /\ Goto("giveBack") /\ (mem.pausedAt = Never \/ Resumed(mem)) /\ UNCHANGED st
  <2>1. mem.paused => mem.resumed
    BY <1>2, <1>7 DEF Resumed, PauseInv
  <2> QED BY <1>1, <1>2, <1>3, <1>7, <2>1, GotoPause, OnwardKeeps DEF PState, At, Onward, mem
<1> QED BY <1>4, <1>5, <1>6, <1>7 DEF Resume, Release

LEMMA PauseKeeps == ASSUME PInv, Pause PROVE PauseOK' /\ InHand' /\ StageInv'
<1> DEFINE m == [mem EXCEPT !.pausedAt = clock + 1,
                            !.resumedAt = IF app.marked THEN Never ELSE clock + 1,
                            !.paused = app.marked,
                            !.replicas = IF app.marked THEN app.replicas ELSE 0,
                            !.suspends = app.marked /\ ~app.suspended]
           next == [pass EXCEPT !.pc = "suspend", !.mem = m, !.pausing = TRUE]
<1>1. On /\ At("pause") /\ UNCHANGED <<meta, owner, app>>
  BY PauseGives
<1>2. /\ mem \in Status /\ pass \in Passes /\ PauseInv(cur, mem) /\ cur \in Runs /\ PauseOK
      /\ Stage(pass, meta[cur].state, owner[PauseName], app.replicas) /\ clock \in Nat /\ AppTypes
      /\ meta[cur].state # "gone" /\ meta[cur].finalizer /\ Agree /\ st \in [Runs -> Status]
  BY <1>1, InHandGives DEF StageInv, TypeOK, RunTypes
<1>3. /\ cur \in All /\ mem.pausedAt = Never /\ mem.phase = "Running" /\ pass.end = ""
      /\ owner[PauseName] = cur
  BY <1>1, <1>2 DEF Stage, At, mem, cur, InWork, Working
<1>4. ~mem.paused /\ ~mem.resumed /\ ~st[cur].paused
  BY <1>2, <1>3 DEF PauseInv, Agree, Status
<1>5. OwnApp
  BY <1>2, <1>3, <1>4 DEF PauseOK, AppInv
<1>6. CASE StopPass /\ UNCHANGED st
  BY <1>1, <1>2, <1>6, SamePauseOK, StopKeeps DEF PState
<1>7. CASE WriteStatus(m, next)
  <2>1. CASE pass.stale
    <3>1. StopPass /\ UNCHANGED PState
      BY <1>1, <1>7, <2>1 DEF WriteStatus, PState
    <3> QED BY <1>2, <3>1, SamePauseOK, StopKeeps
  <2>2. CASE ~pass.stale
    <3>1. st' = [st EXCEPT ![cur] = m] /\ pass' = next
      BY <1>7, <2>2 DEF WriteStatus
    <3>2. PICK a, b, c, d, e :
            /\ a = clock + 1 /\ b = IF app.marked THEN Never ELSE clock + 1
            /\ c = app.marked /\ d = IF app.marked THEN app.replicas ELSE 0
            /\ e = (app.marked /\ ~app.suspended)
            /\ m = [mem EXCEPT !.pausedAt = a, !.resumedAt = b, !.paused = c, !.replicas = d,
                               !.suspends = e]
      OBVIOUS
    <3> HIDE DEF m
    <3>3. /\ m.phase = "Running" /\ m.pausedAt = a /\ m.resumedAt = b /\ m.paused = c
           /\ m.replicas = d /\ m.suspends = e /\ ~m.resumed
      BY <1>2, <1>3, <1>4, <3>2 DEF Status
    <3>4. a # Never /\ (b # Never <=> ~app.marked)
      BY <1>2, <3>2 DEF Never, AppTypes
    <3>5. d = 1 \/ ~app.marked
      BY <1>5, <3>2 DEF OwnApp
    <3>6. /\ c \in BOOLEAN /\ e \in BOOLEAN /\ (c <=> app.marked)
          /\ (e <=> app.marked /\ ~app.ownSuspend)
           /\ app.ownSuspend \in BOOLEAN
      BY <1>2, <1>5, <3>2 DEF AppTypes, OwnApp
    <3>7. /\ next.pc = "suspend" /\ next.mem = m /\ next.run = cur /\ next.end = ""
      BY <1>2, <1>3 DEF Passes, cur
    <3> HIDE DEF next
    <3>8. PauseInv(cur, m)
      BY <1>3, <3>3, <3>4, <3>5, <3>6 DEF PauseInv
    <3>9. st'[cur] = m /\ \A r \in Runs : r # cur => st'[r] = st[r]
      BY <1>2, <3>1
    <3>10. PauseOK'
      <4>1. \A r \in Runs : PauseInv(r, st[r])'
        <5>1. \A r \in Runs : PauseInv(r, st'[r])
          BY <1>2, <3>8, <3>9 DEF PauseOK
        <5> QED BY <1>1, <5>1 DEF PauseInv
      <4>2. MetaInv'
        BY <1>1, <1>2, <3>9 DEF MetaInv, PauseOK, Alive
      <4>3. AppInv'
        BY <1>1, <1>2, <1>5 DEF PauseOK, AppInv, OwnApp
      <4> QED BY <4>1, <4>2, <4>3 DEF PauseOK
    <3>11. mem' = m /\ cur' = cur /\ On'
      BY <3>1, <3>7 DEF mem, cur, On
    <3>12. PauseInv(cur, mem)' /\ Agree' /\ HolderInv'
      BY <1>1, <3>3, <3>8, <3>9, <3>11 DEF PauseInv, Agree, HolderInv
    <3>13. Stage(next, meta[cur].state, owner[PauseName], app.replicas)
      BY <1>3, <3>3, <3>7 DEF Stage, InWork, Starting, Working, Pausing, Resuming, Returning,
                              Ending, Finished
    <3> QED BY <1>1, <1>2, <3>1, <3>10, <3>11, <3>12, <3>13 DEF InHand, StageInv
  <2> QED BY <2>1, <2>2
<1> QED BY <1>6, <1>7 DEF Pause

LEMMA TakeLeasesKeeps == ASSUME PInv, TakeLeases PROVE PauseOK' /\ InHand' /\ StageInv'
<1>1. On /\ At("take") /\ UNCHANGED <<st, meta, app>>
  BY DEF TakeLeases, At, On, world
<1>2. /\ mem \in Status /\ pass \in Passes /\ PauseInv(cur, mem) /\ cur \in Runs /\ PauseOK /\ TypeOK
      /\ Stage(pass, meta[cur].state, owner[PauseName], app.replicas) /\ HolderInv /\ Agree
      /\ meta[cur].state # "gone" /\ meta[cur].finalizer /\ owner \in [Names -> Runs \cup {NoRun}]
  BY <1>1, InHandGives DEF StageInv, TypeOK, RunTypes
<1>3. PICK got \in SUBSET {n \in LeaseNames(cur) : Free(cur, n)} :
        /\ owner' = [n \in Names |-> IF n \in got THEN cur ELSE owner[n]]
        /\ IF got = LeaseNames(cur) THEN Goto(Worker) ELSE StopPass
  BY DEF TakeLeases
<1>4. PauseName \in Names
  BY DEF Names
<1>5. ~OwnApp => owner'[PauseName] = owner[PauseName]
  <2> SUFFICES ASSUME ~OwnApp, PauseName \in got PROVE owner[PauseName] = cur
    BY <1>3, <1>4
  <2>1. owner[PauseName] \in Runs /\ Alive(owner[PauseName])
    BY <1>2 DEF PauseOK, AppInv
  <2>2. Free(cur, PauseName)
    OBVIOUS
  <2> QED BY <2>1, <2>2, RunsAssumption DEF Free
<1>6. PauseOK'
  <2>1. (\A r \in Runs : PauseInv(r, st[r])') /\ MetaInv'
    BY <1>1, <1>2 DEF PauseOK, PauseInv, MetaInv, Alive
  <2>2. AppInv'
    BY <1>1, <1>2, <1>5 DEF PauseOK, AppInv, OwnApp, Alive
  <2> QED BY <2>1, <2>2 DEF PauseOK
<1>7. CASE StopPass
  BY <1>6, <1>7, StopKeeps
<1>8. CASE Goto(Worker) /\ got = LeaseNames(cur)
  <2>1. Worker \in {"pause", "suspend", "items"} /\ Worker \in Stages
    BY DEF Worker, Stages
  <2>2. /\ pass'.pc = Worker /\ pass'.mem = mem /\ SamePass(pass', pass)
    BY <1>2, <1>8, <2>1, GotoType
  <2>3. mem' = mem /\ cur' = cur /\ On'
    BY <2>1, <2>2 DEF mem, cur, On, SamePass
  <2>4. cur \in All => owner'[PauseName] = cur
    BY <1>3, <1>4, <1>8 DEF LeaseNames
  <2>5. mem.phase = "Running" /\ pass.end = ""
    BY <1>1, <1>2 DEF Stage, At, mem, Starting
  <2>6. /\ Worker = "pause" => cur \in All /\ mem.pausedAt = Never
        /\ Worker = "suspend" => ~mem.resumed
    BY <1>2 DEF Worker, PauseInv
  <2>7. Stage(pass', meta[cur].state, owner'[PauseName], app.replicas)
    <3> PICK p, w : p = pass' /\ w = Worker
      OBVIOUS
    <3> QED BY <2>1, <2>2, <2>4, <2>5, <2>6
            DEF Stage, SamePass, cur, InWork, Starting, Working, Pausing, Resuming, Returning,
                Ending, Finished
  <2>8. PauseInv(cur, mem)' /\ Agree' /\ HolderInv'
    BY <1>1, <1>2, <1>5, <2>3 DEF PauseInv, Agree, HolderInv, OwnApp, At
  <2> QED BY <1>1, <1>2, <1>6, <2>3, <2>7, <2>8 DEF InHand, StageInv
<1> QED BY <1>3, <1>7, <1>8

LEMMA ReleaseAllKeeps == ASSUME PInv, ReleaseAll PROVE PauseOK' /\ InHand' /\ StageInv'
<1>1. On /\ At("giveBack") /\ UNCHANGED <<st, meta, app>> /\ Goto("deleteWorkload")
  BY DEF ReleaseAll, At, On, world
<1>2. /\ mem \in Status /\ pass \in Passes /\ PauseInv(cur, mem) /\ cur \in Runs /\ PauseOK /\ TypeOK
      /\ Stage(pass, meta[cur].state, owner[PauseName], app.replicas) /\ HolderInv /\ Agree
      /\ meta[cur].state # "gone" /\ meta[cur].finalizer
      /\ PauseName \in Names /\ "deleteWorkload" \in Stages
  BY <1>1, InHandGives DEF StageInv, Names, Stages
<1>3. owner'[PauseName] \in {owner[PauseName], NoRun}
  BY <1>2 DEF ReleaseAll
<1>4. ~OwnApp => owner'[PauseName] = owner[PauseName]
  <2> SUFFICES ASSUME ~OwnApp PROVE owner[PauseName] # cur
    BY <1>2 DEF ReleaseAll
  <2>1. owner[PauseName] = cur => mem.paused
    BY <1>2 DEF PauseOK, AppInv, Agree
  <2>2. mem.paused => mem.resumed
    BY <1>1, <1>2 DEF Stage, At, mem, Returning
  <2> QED BY <1>1, <2>1, <2>2, <1>2 DEF HolderInv, At
<1>5. PauseOK'
  <2>1. (\A r \in Runs : PauseInv(r, st[r])') /\ MetaInv'
    BY <1>1, <1>2 DEF PauseOK, PauseInv, MetaInv, Alive
  <2>2. AppInv'
    BY <1>1, <1>2, <1>4 DEF PauseOK, AppInv, OwnApp, Alive
  <2> QED BY <2>1, <2>2 DEF PauseOK
<1>6. pass'.pc = "deleteWorkload" /\ pass'.mem = mem /\ SamePass(pass', pass)
  BY <1>1, <1>2, GotoType
<1>7. mem' = mem /\ cur' = cur /\ On'
  BY <1>6 DEF mem, cur, On, SamePass
<1>8. Stage(pass', meta[cur].state, owner'[PauseName], app.replicas)
  <2> PICK p : p = pass'
    OBVIOUS
  <2> QED BY <1>1, <1>2, <1>6
          DEF Stage, SamePass, mem, At, InWork, Starting, Working, Pausing, Resuming, Returning, Ending
<1>9. PauseInv(cur, mem)' /\ Agree' /\ HolderInv'
  BY <1>1, <1>2, <1>3, <1>7, RunsAssumption DEF PauseInv, Agree, HolderInv, OwnApp, At
<1> QED BY <1>1, <1>2, <1>5, <1>7, <1>8, <1>9 DEF InHand, StageInv

(* The app as a step of a pass or of the surroundings leaves it. *)
OwnerKept == app'.marked = app.marked /\ app'.ownSuspend = app.ownSuspend

LEMMA AppKeeps ==
    ASSUME PInv, UNCHANGED <<st, meta, owner>>, OwnerKept, app.ownSuspend => app'.suspended,
           ~OwnApp' => \/ ~OwnApp
                       \/ /\ owner[PauseName] = cur /\ On /\ mem.phase = "Running"
                          /\ mem.paused /\ ~mem.resumed
    PROVE  PauseOK'
<1>1. PauseOK /\ st \in [Runs -> Status]
  BY DEF PInv, PauseOK, TypeOK, RunTypes
<1>2. (\A r \in Runs : PauseInv(r, st[r])') /\ MetaInv'
  BY <1>1 DEF PauseOK, PauseInv, MetaInv, Alive, OwnerKept
<1>3. CASE ~OwnApp' /\ OwnApp
  <2>1. /\ cur \in Runs /\ meta[cur].state # "gone" /\ Agree /\ owner[PauseName] = cur
        /\ mem.phase = "Running" /\ mem.paused /\ ~mem.resumed
    BY <1>3, InHandGives
  <2>2. Alive(cur) /\ st[cur].paused /\ ~st[cur].resumed
    BY <2>1 DEF Agree, Alive, Finished
  <2>3. AppInv'
    BY <2>1, <2>2 DEF AppInv, Alive, OwnerKept
  <2> QED BY <1>2, <2>3 DEF PauseOK
<1>4. CASE OwnApp' \/ ~OwnApp
  <2>1. AppInv'
    BY <1>1, <1>4 DEF PauseOK, AppInv, Alive, OwnerKept
  <2> QED BY <1>2, <2>1 DEF PauseOK
<1> QED BY <1>3, <1>4

LEMMA ApplyKeeps == ASSUME PInv, ApplySuspend \/ ApplyScale PROVE PauseOK' /\ InHand' /\ StageInv'
<1>1. On /\ pass.pc \in {"suspend", "scale"} /\ UNCHANGED <<st, meta, owner>> /\ ~At("unsuspend")
  BY DEF ApplySuspend, ApplyScale, At, On
<1>2. /\ mem \in Status /\ PauseInv(cur, mem) /\ cur \in Runs /\ PauseOK /\ TypeOK
      /\ Stage(pass, meta[cur].state, owner[PauseName], app.replicas) /\ HolderInv /\ Agree
      /\ meta[cur].state # "gone" /\ meta[cur].finalizer /\ {"scale", "pods"} \subseteq Stages
  BY <1>1, InHandGives DEF StageInv, Stages
<1>3. SameOwner /\ AppTypes
  BY <1>2, AppStepType DEF TypeOK
<1>4. /\ mem.phase = "Running" /\ pass.end = "" /\ (mem.paused => ~mem.resumed)
      /\ mem.paused => owner[PauseName] = cur
  BY <1>1, <1>2 DEF Stage, mem, cur, InWork, Working, Pausing, PauseInv, Never
<1>5. /\ ~mem.paused => app' = app
      /\ app.suspended => app'.suspended
  <2>1. CASE ApplySuspend
    BY <1>2, <2>1, SuspendType DEF ApplySuspend, PauseInv
  <2>2. CASE ApplyScale
    BY <1>2, <2>2, ScaleType DEF ApplyScale
  <2> QED BY <2>1, <2>2
<1>6. PauseOK'
  <2>1. app.ownSuspend => app'.suspended
    BY <1>2, <1>5 DEF PauseOK, AppInv
  <2>2. ~OwnApp' /\ OwnApp => mem.paused
    BY <1>5 DEF OwnApp
  <2> QED BY <1>1, <1>3, <1>4, <2>1, <2>2, AppKeeps DEF SameOwner, OwnerKept
<1>7. StopPass \/ Goto("scale") \/ Goto("pods")
  BY DEF ApplySuspend, ApplyScale
<1>8. CASE StopPass
  BY <1>6, <1>8, StopKeeps
<1>9. CASE Goto("scale") \/ Goto("pods")
  <2>1. pass'.pc \in {"scale", "pods"} /\ pass'.mem = mem /\ SamePass(pass', pass)
    BY <1>2, <1>9, GotoType
  <2>2. mem' = mem /\ cur' = cur /\ On'
    BY <2>1 DEF mem, cur, On, SamePass
  <2>3. Stage(pass', meta[cur].state, owner[PauseName], app'.replicas)
    <3> PICK p : p = pass'
      OBVIOUS
    <3> QED BY <1>1, <1>2, <1>4, <2>1
            DEF Stage, SamePass, mem, InWork, Starting, Working, Pausing, Resuming, Returning, Ending
  <2>4. PauseInv(cur, mem)' /\ Agree'
    BY <1>1, <1>2, <1>3, <2>2 DEF PauseInv, Agree, SameOwner
  <2>5. HolderInv'
    <3>1. mem.resumed => app' = app
      BY <1>2, <1>4, <1>5 DEF PauseInv
    <3> QED BY <1>1, <1>2, <2>2, <3>1 DEF HolderInv, OwnApp
  <2> QED BY <1>1, <1>2, <1>6, <2>2, <2>3, <2>4, <2>5 DEF InHand, StageInv
<1> QED BY <1>7, <1>8, <1>9

LEMMA ScaleUpKeeps == ASSUME PInv, ScaleUp PROVE PauseOK' /\ InHand' /\ StageInv'
<1> DEFINE m == [mem EXCEPT !.resumed = mem.paused]
<1>1. On /\ At("scaleUp") /\ UNCHANGED <<st, meta, owner>> /\ pass' = Step("unsuspend", m)
  BY DEF ScaleUp, At, On, GotoWith
<1>2. /\ mem \in Status /\ PauseInv(cur, mem) /\ cur \in Runs /\ PauseOK /\ TypeOK
      /\ Stage(pass, meta[cur].state, owner[PauseName], app.replicas) /\ Agree
      /\ meta[cur].state # "gone" /\ meta[cur].finalizer /\ "unsuspend" \in Stages
      /\ pass \in Passes /\ st[cur] \in Status
  BY <1>1, InHandGives DEF StageInv, Stages, TypeOK, RunTypes
<1>3. SameOwner /\ AppTypes
  BY <1>2, AppStepType DEF TypeOK
<1>4. mem.resumedAt # Never /\ (mem.paused => ~mem.resumed)
  BY <1>1, <1>2 DEF Stage, At, mem, Resuming
<1>5. /\ app'.suspended = app.suspended /\ app'.replicas \in {1, app.replicas}
      /\ mem.paused => app'.replicas = 1
  <2>1. mem.replicas \in 0 .. 1 /\ (mem.paused => mem.replicas = 1)
    BY <1>2 DEF PauseInv, Status
  <2> QED BY <1>2, <1>4, <2>1, ScaleType DEF ScaleUp
<1>6. PauseOK'
  <2>1. app.ownSuspend => app'.suspended
    BY <1>2, <1>5 DEF PauseOK, AppInv
  <2>2. ~OwnApp' => ~OwnApp
    BY <1>3, <1>5 DEF OwnApp, SameOwner
  <2> QED BY <1>1, <1>3, <2>1, <2>2, AppKeeps DEF SameOwner, OwnerKept
<1>7. /\ m \in Status /\ m.resumed = mem.paused /\ SamePause([m EXCEPT !.resumed = mem.resumed], mem)
      /\ m.phase = mem.phase /\ m.leases = mem.leases /\ m.pausedAt = mem.pausedAt
      /\ m.resumedAt = mem.resumedAt /\ m.paused = mem.paused /\ m.replicas = mem.replicas
      /\ m.suspends = mem.suspends
  BY <1>2 DEF Status, SamePause
<1> HIDE DEF m
<1>8. pass'.pc = "unsuspend" /\ pass'.mem = m /\ SamePass(pass', pass)
  BY <1>1, <1>2, <1>7, StepType
<1>9. mem' = m /\ cur' = cur /\ On'
  BY <1>8 DEF mem, cur, On, SamePass
<1>10. Stage(pass', meta[cur].state, owner[PauseName], app'.replicas)
  <2> PICK p : p = pass'
    OBVIOUS
  <2> QED BY <1>1, <1>2, <1>5, <1>7, <1>8, ZenonT(60)
          DEF Stage, SamePass, mem, At, InWork, Starting, Working, Pausing, Resuming, Returning, Ending
<1>11. PauseInv(cur, mem)'
  BY <1>2, <1>3, <1>4, <1>7, <1>9 DEF PauseInv, SameOwner
<1>12. Agree'
  <2>1. st[cur].resumed => m.resumed
    BY <1>2, <1>7 DEF PauseOK, PauseInv, Agree
  <2> QED BY <1>1, <1>2, <1>7, <1>9, <2>1 DEF Agree
<1>13. HolderInv'
  BY <1>8 DEF HolderInv, At
<1> QED BY <1>1, <1>2, <1>6, <1>9, <1>10, <1>11, <1>12, <1>13 DEF InHand, StageInv

LEMMA UnsuspendKeeps == ASSUME PInv, Unsuspend PROVE PauseOK' /\ InHand' /\ StageInv'
<1>1. /\ On /\ At("unsuspend") /\ UNCHANGED <<st, meta, owner>>
      /\ Goto(IF pass.end = "" THEN "collect" ELSE "giveBack")
  BY DEF Unsuspend, At, On
<1>2. /\ mem \in Status /\ PauseInv(cur, mem) /\ cur \in Runs /\ PauseOK /\ TypeOK
      /\ Stage(pass, meta[cur].state, owner[PauseName], app.replicas) /\ Agree
      /\ meta[cur].state # "gone" /\ meta[cur].finalizer /\ {"collect", "giveBack"} \subseteq Stages
  BY <1>1, InHandGives DEF StageInv, Stages
<1>3. SameOwner /\ AppTypes /\ app.suspended \in BOOLEAN /\ app.ownSuspend \in BOOLEAN
  BY <1>2, AppStepType DEF TypeOK, AppTypes
<1>4. mem.paused => app.replicas = 1 /\ mem.resumed
  BY <1>1, <1>2 DEF Stage, At, mem
<1>5. /\ app'.replicas = app.replicas
      /\ mem.suspends => ~app'.suspended
      /\ ~mem.suspends => app' = app
  BY <1>2, SuspendType DEF Unsuspend
<1>6. mem.suspends => mem.paused /\ ~app.ownSuspend
  BY <1>2, <1>3 DEF PauseInv
<1>7. app'.suspended \in BOOLEAN
  BY <1>2, AppStepType DEF TypeOK, AppTypes
<1>8. mem.suspends => OwnApp'
  BY <1>3, <1>4, <1>5, <1>6, <1>7 DEF OwnApp, SameOwner
<1>9. PauseOK'
  <2>1. app.ownSuspend => app'.suspended
    BY <1>2, <1>5, <1>6 DEF PauseOK, AppInv
  <2>2. ~OwnApp' => ~OwnApp
    BY <1>5, <1>8 DEF OwnApp
  <2> QED BY <1>1, <1>3, <2>1, <2>2, AppKeeps DEF SameOwner, OwnerKept
<1>10. /\ pass'.pc = (IF pass.end = "" THEN "collect" ELSE "giveBack") /\ pass'.mem = mem
       /\ SamePass(pass', pass)
  BY <1>1, <1>2, GotoType
<1>11. mem' = mem /\ cur' = cur /\ On'
  BY <1>10 DEF mem, cur, On, SamePass
<1>12. Stage(pass', meta[cur].state, owner[PauseName], app'.replicas)
  <2> PICK p : p = pass'
    OBVIOUS
  <2> QED BY <1>1, <1>2, <1>4, <1>10
          DEF Stage, SamePass, mem, At, InWork, Starting, Working, Pausing, Resuming, Returning, Ending
<1>13. PauseInv(cur, mem)' /\ Agree'
  BY <1>1, <1>2, <1>3, <1>11 DEF PauseInv, Agree, SameOwner
<1>14. mem.resumed => OwnApp'
  <2> SUFFICES ASSUME mem.resumed, ~mem.suspends PROVE OwnApp'
    BY <1>8
  <2>1. mem.paused /\ app.replicas = 1
    BY <1>2, <1>4 DEF PauseInv
  <2>2. mem.suspends \in BOOLEAN /\ mem.suspends # app.ownSuspend
    BY <1>2, <2>1 DEF PauseInv, Status
  <2>3. app.ownSuspend
    BY <1>3, <2>2
  <2>4. app.suspended
    BY <1>2, <2>3 DEF PauseOK, AppInv
  <2> QED BY <1>3, <1>5, <2>1, <2>3, <2>4 DEF OwnApp
<1>15. HolderInv'
  BY <1>11, <1>14 DEF HolderInv
<1> QED BY <1>1, <1>2, <1>9, <1>11, <1>12, <1>13, <1>15 DEF InHand, StageInv

LEMMA AppStepsKeep == ASSUME PInv, AppSteps PROVE PauseOK' /\ InHand' /\ StageInv'
<1>1. UNCHANGED <<st, meta, owner, pass>> /\ AppTypes
  BY DEF AppSteps, PInv, TypeOK
<1>2. /\ OwnerKept /\ app'.suspended = app.suspended /\ app'.replicas \in {1, app.replicas}
  BY <1>1 DEF AppSteps, AppTypes, OwnerKept
<1>3. OwnApp => OwnApp'
  BY <1>2 DEF OwnApp, OwnerKept
<1>4. PauseOK'
  <2>1. app.ownSuspend => app'.suspended
    BY <1>2 DEF PInv, AppInv
  <2>2. ~OwnApp' => ~OwnApp
    BY <1>3
  <2> QED BY <1>1, <1>2, <2>1, <2>2, AppKeeps
<1>5. mem' = mem /\ cur' = cur /\ (On' <=> On)
  BY <1>1 DEF mem, cur, On
<1>6. ASSUME On PROVE PauseInv(cur, mem)' /\ Agree' /\ HolderInv'
  BY <1>1, <1>2, <1>3, <1>5, <1>6, InHandGives DEF PauseInv, Agree, HolderInv, At, OwnerKept
<1>7. InHand'
  BY <1>1, <1>5, <1>6, InHandGives DEF InHand
<1>8. StageInv'
  <2>1. ASSUME NEW s, NEW h, NEW n, NEW k \in {1, n}, Stage(pass, s, h, n)
        PROVE  Stage(pass, s, h, k)
    BY <2>1 DEF Stage
  <2> QED BY <1>1, <1>2, <1>5, <2>1 DEF PInv, StageInv
<1> QED BY <1>4, <1>7, <1>8

LEMMA ReconcileKeeps ==
    ASSUME PInv, NEW r \in Runs, Reconcile(r)
    PROVE  PauseOK' /\ InHand' /\ StageInv'
<1>1. UNCHANGED <<st, owner, app>> /\ meta[r].state # "gone" /\ pass = Idle
  BY DEF Reconcile, world
<1>2. PauseOK /\ meta \in [Runs -> Objects] /\ st[r] \in Status
  BY DEF PInv, PauseOK, TypeOK, RunTypes, Objects
<1>3. /\ \A q \in Runs : meta'[q].state = meta[q].state /\ (meta[q].finalizer => meta'[q].finalizer)
      /\ meta'[r].finalizer /\ pass'.run = r /\ pass'.mem = st[r] /\ pass'.pc # "idle"
  <2>1. pass'.run = r /\ pass'.mem = st[r] /\ pass'.pc # "idle"
    BY <1>1 DEF Reconcile, Idle
  <2>2. CASE meta' = meta /\ meta[r].finalizer
    BY <2>1, <2>2
  <2>3. CASE meta' = [meta EXCEPT ![r] = [meta[r] EXCEPT !.finalizer = TRUE]]
    <3>1. [meta[r] EXCEPT !.finalizer = TRUE].state = meta[r].state
      BY <1>2 DEF Objects
    <3>2. [meta[r] EXCEPT !.finalizer = TRUE].finalizer
      BY <1>2 DEF Objects
    <3> QED BY <1>2, <2>1, <2>3, <3>1, <3>2
  <2> QED BY <2>2, <2>3 DEF Reconcile
<1>4. PauseOK'
  BY <1>1, <1>2, <1>3 DEF PauseOK, PauseInv, AppInv, MetaInv, OwnApp, Alive
<1>5. mem' = st[r] /\ cur' = r /\ On'
  BY <1>3 DEF mem, cur, On
<1>6. PauseInv(cur, mem)' /\ Agree'
  BY <1>1, <1>2, <1>5 DEF PauseOK, PauseInv, Agree
<1>7. HolderInv'
  BY <1>1, <1>2, <1>5 DEF PauseOK, AppInv, HolderInv, OwnApp
<1>8. Stage(pass', meta[r].state, owner[PauseName], app.replicas)
  <2>1. CASE meta[r].state = "deleting"
    <3>1. pass'.pc = "release" /\ pass'.end = "Deleted"
      BY <1>1, <2>1 DEF Reconcile, Idle
    <3> QED BY <2>1, <3>1 DEF Stage, InWork, Starting, Working, Pausing, Resuming, Returning, Ending
  <2>2. CASE meta[r].state = "there" /\ ~Finished(st[r].phase)
    <3>1. /\ pass'.end = "" /\ st[r].phase \in {"", "Queued", "Running"}
          /\ st[r].phase = "" => pass'.pc = "plan"
          /\ st[r].phase = "Queued" => pass'.pc = "admit"
          /\ st[r].phase = "Running" => pass'.pc = "check"
      BY <1>1, <1>2, <2>2 DEF Reconcile, Idle, Status, Finished
    <3> QED BY <1>3, <2>2, <3>1
            DEF Stage, InWork, Starting, Working, Pausing, Resuming, Returning, Ending
  <2> QED BY <2>1, <2>2 DEF Reconcile
<1> QED BY <1>1, <1>3, <1>4, <1>5, <1>6, <1>7, <1>8 DEF InHand, StageInv

LEMMA ExpireKeeps ==
    ASSUME PInv, NEW r \in Runs, Expire(r)
    PROVE  PauseOK' /\ InHand' /\ StageInv'
<1>1. UNCHANGED <<st, owner, app, pass>> /\ pass = Idle /\ Finished(st[r].phase)
  BY DEF Expire, world
<1>2. PauseOK /\ meta \in [Runs -> Objects]
  BY DEF PInv, PauseOK, TypeOK, RunTypes, Objects
<1>3. \A q \in Runs : q # r => meta'[q] = meta[q]
  BY <1>2 DEF Expire
<1>4. meta'[r].state = "deleting" => meta'[r].finalizer
  BY <1>2 DEF Expire, Objects
<1>5. PauseOK'
  BY <1>1, <1>2, <1>3, <1>4 DEF PauseOK, PauseInv, AppInv, MetaInv, OwnApp, Alive
<1> QED BY <1>1, <1>5, StopKeeps DEF StopPass

LEMMA DeleteKeeps ==
    ASSUME PInv, NEW r \in Runs, Delete(r)
    PROVE  PauseOK' /\ InHand' /\ StageInv'
<1>1. UNCHANGED <<st, owner, app>> /\ meta[r].state = "there"
  BY DEF Delete, world
<1>2. PauseOK /\ meta \in [Runs -> Objects] /\ pass \in Passes
  BY DEF PInv, PauseOK, TypeOK, RunTypes, Objects
<1>3. /\ \A q \in Runs : q # r => meta'[q] = meta[q]
      /\ meta'[r].finalizer = meta[r].finalizer
      /\ meta'[r].state = IF meta[r].finalizer THEN "deleting" ELSE "gone"
  BY <1>2 DEF Delete, Objects
<1>4. PauseOK'
  BY <1>1, <1>2, <1>3 DEF PauseOK, PauseInv, AppInv, MetaInv, OwnApp, Alive
<1>5. /\ pass'.pc = pass.pc /\ pass'.mem = pass.mem /\ pass'.run = pass.run /\ pass'.end = pass.end
      /\ pass = Idle => pass' = Idle
  <2>1. PICK b : b = (pass.stale \/ cur = r) /\ pass' = [pass EXCEPT !.stale = b]
    BY DEF Delete
  <2>2. /\ pass'.pc = pass.pc /\ pass'.mem = pass.mem /\ pass'.run = pass.run
        /\ pass'.end = pass.end
    BY <1>2, <2>1 DEF Passes
  <2>3. ASSUME pass = Idle PROVE pass' = Idle
    <3>1. pass.stale = FALSE /\ cur = NoRun
      BY <2>3 DEF Idle, cur
    <3>2. b = pass.stale
      BY <2>1, <3>1, RunsAssumption
    <3> QED BY <1>2, <2>1, <2>3, <3>2 DEF Passes
  <2> QED BY <2>2, <2>3
<1>6. mem' = mem /\ cur' = cur /\ (On' <=> On)
  BY <1>5 DEF mem, cur, On
<1>7. ASSUME On
      PROVE  /\ cur \in Runs /\ meta'[cur].state # "gone" /\ meta'[cur].finalizer
             /\ PauseInv(cur, mem)' /\ Agree' /\ HolderInv'
             /\ Stage(pass', meta'[cur].state, owner[PauseName], app.replicas)
  <2>1. /\ cur \in Runs /\ meta[cur].state # "gone" /\ meta[cur].finalizer
        /\ PauseInv(cur, mem) /\ Agree /\ HolderInv
        /\ Stage(pass, meta[cur].state, owner[PauseName], app.replicas)
    BY <1>7, InHandGives DEF StageInv
  <2>2. /\ meta'[cur].state # "gone" /\ meta'[cur].finalizer
        /\ meta[cur].state = "deleting" => meta'[cur].state = "deleting"
    BY <1>1, <1>3, <2>1
  <2>3. PauseInv(cur, mem)' /\ Agree' /\ HolderInv'
    BY <1>1, <1>5, <1>6, <2>1 DEF PauseInv, Agree, HolderInv, OwnApp, At
  <2>4. Stage(pass', meta'[cur].state, owner[PauseName], app.replicas)
    <3>1. ASSUME NEW p, NEW q, NEW s, NEW k, NEW h, NEW n, Stage(p, s, h, n),
                 s = "deleting" => k = "deleting",
                 q.pc = p.pc, q.mem = p.mem, q.run = p.run, q.end = p.end
          PROVE  Stage(q, k, h, n)
      BY <3>1, ZenonT(60) DEF Stage, InWork
    <3> QED BY <1>5, <2>1, <2>2, <3>1
  <2> QED BY <2>1, <2>2, <2>3, <2>4
<1> QED BY <1>1, <1>4, <1>5, <1>6, <1>7 DEF InHand, StageInv, PInv

LEMMA DropFinalizerKeeps == ASSUME PInv, DropFinalizer PROVE PauseOK' /\ InHand' /\ StageInv'
<1>1. On /\ At("dropFinalizer") /\ UNCHANGED <<st, owner, app>> /\ StopPass
  BY DEF DropFinalizer, At, On, world
<1>2. /\ cur \in Runs /\ PauseOK /\ HolderInv /\ Agree /\ meta \in [Runs -> Objects]
      /\ Stage(pass, meta[cur].state, owner[PauseName], app.replicas)
  BY <1>1, InHandGives DEF StageInv, TypeOK, RunTypes, Objects
<1>3. CASE UNCHANGED meta
  BY <1>1, <1>2, <1>3, SamePauseOK, StopKeeps DEF PState
<1>4. CASE meta' = [meta EXCEPT ![cur] =
              [state |-> IF meta[cur].state = "deleting" THEN "gone" ELSE meta[cur].state,
               finalizer |-> FALSE]]
  <2>1. /\ \A q \in Runs : q # cur => meta'[q] = meta[q]
        /\ meta'[cur].state # "deleting"
        /\ meta[cur].state = "deleting" => meta'[cur].state = "gone"
    BY <1>2, <1>4 DEF Objects
  <2>2. meta'[cur].state = "gone" \/ Finished(st[cur].phase)
    <3>1. pass.end = "Deleted" \/ Finished(mem.phase)
      BY <1>1, <1>2 DEF Stage, At, mem
    <3>2. pass.end = "Deleted" => meta[cur].state = "deleting"
      BY <1>2 DEF Stage
    <3> QED BY <1>2, <2>1, <3>1, <3>2 DEF Agree
  <2>3. ~OwnApp => owner[PauseName] # cur
    <3>1. ~OwnApp /\ owner[PauseName] = cur => mem.paused
      BY <1>2 DEF PauseOK, AppInv, Agree
    <3>2. mem.paused => mem.resumed
      BY <1>1, <1>2 DEF Stage, At, mem, Returning
    <3> QED BY <1>1, <1>2, <3>1, <3>2 DEF HolderInv, At
  <2>4. PauseOK'
    BY <1>1, <1>2, <2>1, <2>2, <2>3 DEF PauseOK, PauseInv, AppInv, MetaInv, OwnApp, Alive
  <2> QED BY <1>1, <2>4, StopKeeps
<1> QED BY <1>3, <1>4 DEF DropFinalizer

LEMMA PInvInit == Init => PInv
<1> SUFFICES ASSUME Init PROVE PInv
  OBVIOUS
<1>1. TypeOK /\ pass = Idle /\ ~On /\ OwnApp
  <2>1. pass = Idle /\ ~On
    BY DEF Init, On, Idle
  <2>2. OwnApp
    BY DEF Init, OwnApp
  <2> QED BY <2>1, <2>2, InitType
<1>2. \A r \in Runs : PauseInv(r, st[r])
  BY DEF Init, PauseInv, Empty
<1>3. AppInv
  BY <1>1 DEF Init, AppInv
<1>4. MetaInv
  BY DEF Init, MetaInv, Empty
<1> QED BY <1>1, <1>2, <1>3, <1>4 DEF PInv, InHand, StageInv

LEMMA PInvNext == PInv /\ [Next]_vars => PInv'
<1> SUFFICES ASSUME PInv, [Next]_vars PROVE PInv'
  OBVIOUS
<1>1. TypeOK'
  BY NextType DEF PInv, InHand
<1>2. PauseOK' /\ InHand' /\ StageInv'
  <2>1. CASE \E r \in Runs : Reconcile(r) \/ Expire(r)
    BY <2>1, ReconcileKeeps, ExpireKeeps
  <2>2. CASE Works
    BY <2>2, PlanKeeps, WorkloadKeeps, AdmitKeeps, ItemsKeep, RecordLeasesKeeps, TakeLeasesKeeps,
       PauseKeeps, ApplyKeeps, ResumeKeeps, ScaleUpKeeps, UnsuspendKeeps, CollectKeeps,
       EndWorkKeeps, ReleaseAllKeeps, FinishKeeps, DropFinalizerKeeps
    DEF Works
  <2>3. CASE Fails
    <3>1. CASE Fault
      BY <3>1, SamePauseOK, StopKeeps DEF Fault, cluster, world, PState, PInv, PauseOK
    <3> QED BY <2>3, <3>1, ItemsKeep DEF Fails
  <2>4. CASE Surroundings
    <3>1. CASE \E r \in Runs : Delete(r)
      BY <3>1, DeleteKeeps
    <3>2. CASE AppSteps
      BY <3>2, AppStepsKeep
    <3>3. CASE UNCHANGED <<st, meta, pass, owner, app>>
      BY <3>3, ElsewhereKeeps
    <3> QED BY <2>4, <3>1, <3>2, <3>3
            DEF Surroundings, CleanClone, CutClone, MoverSucceeds, MoverFails, Sync, Kueue,
                Deadline, BackupEnds
  <2>5. CASE UNCHANGED vars
    BY <2>5, ElsewhereKeeps DEF vars
  <2> QED BY <2>1, <2>2, <2>3, <2>4, <2>5 DEF Next
<1> QED BY <1>1, <1>2 DEF PInv, PauseOK

(* The statuses, the pass under way and the systems around them are always *)
(* what their types say: no moment that a status, a clone or a snapshot    *)
(* records is later than the clock, and no snapshot or base backup holds a *)
(* start of the app that has not happened.                                 *)
THEOREM TypeCorrect == Spec => []TypeOK
<1>1. PInv => TypeOK
  BY DEF PInv
<1> QED BY <1>1, PInvInit, PInvNext, PTL DEF Spec

(* The app is given back: whatever call fails, and wherever a run is       *)
(* deleted, evicted or overdue, the workload and the Kustomization are as  *)
(* the owner had them once no unfinished run has a recorded pause; for any *)
(* number of runs, also of several that pause the app.                     *)
THEOREM AppIsGivenBack == Spec => []AppGivenBack
<1>1. PInv => AppGivenBack
  <2> SUFFICES ASSUME PInv, \A r \in Runs : st[r].pausedAt # Never => ~Alive(r)
               PROVE  OwnApp
    BY DEF AppGivenBack, OwnApp
  <2> SUFFICES ASSUME ~OwnApp PROVE FALSE
    OBVIOUS
  <2>1. PICK r \in Runs : Alive(r) /\ st[r].paused
    BY DEF PInv, AppInv
  <2>2. st[r].pausedAt # Never
    BY <2>1 DEF PInv, PauseInv
  <2> QED BY <2>1, <2>2
<1> QED BY <1>1, PInvInit, PInvNext, PTL DEF Spec

-----------------------------------------------------------------------------
(* The results are kept in order: each step preserves RInv. *)

(* A step that leaves the snapshots, sources and backups as they are. *)
DataKept ==
    /\ snap' = snap /\ src' = src /\ bak' = bak
    /\ app'.blank = app.blank /\ app'.asleep = app.asleep

LEMMA TargetThings == \A r \in Runs : Target(r) \subseteq Things
BY NamedAssumption DEF Target

LEMMA ResultsGive ==
    ASSUME PInv, RInv, On
    PROVE  /\ cur \in Runs /\ mem \in Status /\ pass \in Passes /\ st[cur] \in Status
           /\ ItemInv(cur, mem) /\ Results(pass, st[cur].saved) /\ StoredInv /\ TypeOK
           /\ Stage(pass, meta[cur].state, owner[PauseName], app.replicas)
           /\ Agree /\ PauseInv(cur, mem)
BY InHandGives DEF RInv, ResultsInv, StageInv, TypeOK, RunTypes

(* A pass that ends, or one that did not stand still. *)
LEMMA StopResults ==
    ASSUME StoredInv', StopPass
    PROVE  RInv'
BY DEF RInv, ResultsInv, StopPass, On, Idle

LEMMA SameStored ==
    ASSUME StoredInv, st' = st, DataKept
    PROVE  StoredInv'
BY DEF StoredInv, ItemInv, DataKept

(* The fields that the items depend on. *)
SameResults(m, n) ==
    /\ m.items = n.items /\ m.saved = n.saved /\ m.pausedAt = n.pausedAt
    /\ m.resumedAt = n.resumedAt /\ m.paused = n.paused

LEMMA SameItems ==
    ASSUME NEW r, NEW row, NEW source, NEW backups, NEW blank, NEW asleep, NEW n, NEW m,
           Items(r, n, row, source, backups, blank, asleep), SameResults(m, n), m.phase = n.phase
    PROVE  Items(r, m, row, source, backups, blank, asleep)
<1>1. DatabaseLost(m) <=> DatabaseLost(n)
  BY DEF SameResults, DatabaseLost
<1> QED BY <1>1 DEF Items, SameResults, PhaseOfItems, VolumeItem, DatabaseItem

(* A pass that goes on with the same results in hand. *)
LEMMA GoOnResults ==
    ASSUME PInv, RInv, On, st' = st, DataKept, pass'.run = pass.run,
           SameResults(pass'.mem, mem), pass'.mem.phase = mem.phase,
           Results(pass', st[cur].saved)
    PROVE  RInv'
<1>1. mem' = pass'.mem /\ cur' = cur
  BY DEF mem, cur
<1>2. StoredInv'
  BY ResultsGive, SameStored
<1>3. ItemInv(cur, mem)'
  BY <1>1, ResultsGive, SameItems DEF ItemInv, DataKept
<1> QED BY <1>1, <1>2, <1>3 DEF RInv, ResultsInv

LEMMA OnwardResults ==
    ASSUME PInv, RInv, On, st' = st, DataKept, pass'.run = pass.run,
           SameResults(pass'.mem, mem), pass'.mem.phase = mem.phase, pass'.end = pass.end,
           ~At("write") \/ pass.end # "",
           pass'.pc \in Working \ {"pause"} =>
               pass.pc \in Working \ {"pause"} \/ mem.pausedAt # Never \/ cur \notin All
    PROVE  RInv'
<1>1. Results(pass', st[cur].saved)
  <2> PICK p : p = pass'
    OBVIOUS
  <2> QED BY ResultsGive DEF Results, SameResults, mem, cur, At
<1> QED BY <1>1, GoOnResults

(* A status that a pass stores, to stop or to go on with it. *)
LEMMA StoreResults ==
    ASSUME PInv, RInv, On, NEW m, st' = [st EXCEPT ![cur] = m], DataKept,
           ItemInv(cur, m), Snaps(cur, m, snap[cur], src, app.blank)
    PROVE  StoredInv' /\ st'[cur] = m
<1>1. StoredInv /\ cur \in Runs /\ st \in [Runs -> Status]
  BY ResultsGive DEF TypeOK, RunTypes
<1>2. st'[cur] = m /\ \A r \in Runs : r # cur => st'[r] = st[r]
  BY <1>1
<1> QED BY <1>1, <1>2 DEF StoredInv, ItemInv, DataKept

LEMMA WriteStopResults ==
    ASSUME PInv, RInv, On, NEW m, WriteStatus(m, Idle), DataKept,
           ItemInv(cur, m), Snaps(cur, m, snap[cur], src, app.blank)
    PROVE  RInv'
<1>1. StopPass
  BY DEF WriteStatus, StopPass
<1>2. StoredInv'
  BY StoreResults, SameStored, ResultsGive DEF WriteStatus
<1> QED BY <1>1, <1>2, StopResults

LEMMA WriteGoResults ==
    ASSUME PInv, RInv, On, NEW m, NEW next, WriteStatus(m, next), DataKept,
           ItemInv(cur, m), Snaps(cur, m, snap[cur], src, app.blank),
           next.run = cur, next.mem = m, Results(next, m.saved)
    PROVE  RInv'
<1>1. CASE pass.stale
  BY <1>1, SameStored, ResultsGive, StopResults DEF WriteStatus
<1>2. CASE ~pass.stale
  <2>1. st' = [st EXCEPT ![cur] = m] /\ pass' = next
    BY <1>2 DEF WriteStatus
  <2>2. StoredInv' /\ st'[cur] = m
    BY <2>1, StoreResults
  <2>3. mem' = m /\ cur' = cur
    BY <2>1 DEF mem, cur
  <2>4. ItemInv(cur, mem)'
    BY <2>3 DEF ItemInv, DataKept
  <2> QED BY <2>1, <2>2, <2>3, <2>4 DEF RInv, ResultsInv
<1> QED BY <1>1, <1>2

(* Storing what is in hand, with no other end of the pause. *)
LEMMA HandSnaps ==
    ASSUME PInv, RInv, On, NEW m, mem.saved \subseteq m.saved,
           m.resumedAt = mem.resumedAt \/ mem.resumedAt = Never
    PROVE  Snaps(cur, m, snap[cur], src, app.blank)
<1>1. Snaps(cur, st[cur], snap[cur], src, app.blank) /\ st[cur].saved \subseteq mem.saved
      /\ st[cur].resumedAt = mem.resumedAt
  BY ResultsGive DEF StoredInv, Results, mem, Agree
<1> QED BY <1>1 DEF Snaps

(* The moves of a pass that neither write nor touch an item. *)
LEMMA GotoResults ==
    ASSUME PInv, RInv, On, NEW pc \in Stages, Goto(pc), st' = st, DataKept, ~At("write"),
           pc \in Working \ {"pause"} =>
               pass.pc \in Working \ {"pause"} \/ mem.pausedAt # Never \/ cur \notin All
    PROVE  RInv'
<1>1. pass'.pc = pc /\ pass'.mem = mem /\ pass'.run = pass.run /\ pass'.end = pass.end
  BY GotoType DEF PInv, SamePass
<1> QED BY <1>1, OnwardResults DEF SameResults

LEMMA StillResults ==
    ASSUME RInv, st' = st, DataKept, pass' = pass
    PROVE  RInv'
<1>1. StoredInv'
  BY SameStored DEF RInv
<1>2. ResultsInv'
  BY DEF RInv, ResultsInv, ItemInv, DataKept, On, cur, mem
<1> QED BY <1>1, <1>2 DEF RInv

LEMMA AbortResults ==
    ASSUME PInv, RInv, On, Abort(mem), st' = st, DataKept, ~Finished(mem.phase)
    PROVE  RInv'
<1>1. /\ pass'.pc = "release" /\ pass'.end = "Failed" /\ pass'.run = pass.run
      /\ mem \in Status /\ pass'.mem = [mem EXCEPT !.items = pass'.mem.items]
      /\ \A t \in Things : pass'.mem.items[t] =
           IF mem.items[t] \in {"Pending", "Running"} THEN "Failed" ELSE mem.items[t]
  BY AbortType, ResultsGive
<1> PICK i, m : i = pass'.mem.items /\ m = pass'.mem
  OBVIOUS
<1>2. /\ m.phase = mem.phase /\ m.saved = mem.saved /\ m.pausedAt = mem.pausedAt
      /\ m.resumedAt = mem.resumedAt /\ m.paused = mem.paused /\ m.items = i
  BY <1>1 DEF Status
<1>3. \A t \in Things :
        /\ mem.items[t] \in {"Pending", "Running"} => m.items[t] = "Failed"
        /\ mem.items[t] \notin {"Pending", "Running"} => m.items[t] = mem.items[t]
  BY <1>1
<1>4. DatabaseLost(mem) => DatabaseLost(m)
  BY <1>3 DEF DatabaseLost, Things
<1>5. ItemInv(cur, m)
  <2>1. ItemInv(cur, mem) /\ cur \in Runs
    BY ResultsGive
  <2>2. PhaseOfItems(cur, m)
    BY <1>2, <1>3, <2>1, TargetThings DEF ItemInv, Items, PhaseOfItems, Finished
  <2>3. \A c \in Claims : VolumeItem(cur, m, c, snap[cur], src, app.blank)
    BY <1>2, <1>3, <1>4, <2>1 DEF ItemInv, Items, VolumeItem, Things
  <2>4. \A d \in Clusters : DatabaseItem(m, d, bak[cur], app.asleep)
    BY <1>2, <1>3, <2>1 DEF ItemInv, Items, DatabaseItem, Things
  <2> QED BY <2>2, <2>3, <2>4 DEF ItemInv, Items
<1>6. Results(pass', st[cur].saved)
  <2>1. st[cur].saved \subseteq mem.saved
    BY ResultsGive DEF Results, mem
  <2> QED BY <1>1, <1>2, <2>1 DEF Results, Working, Pausing
<1>7. mem' = m /\ cur' = cur
  BY <1>1 DEF mem, cur
<1>8. StoredInv'
  BY ResultsGive, SameStored
<1>9. ItemInv(cur, mem)'
  BY <1>5, <1>7 DEF ItemInv, DataKept
<1> QED BY <1>6, <1>7, <1>8, <1>9 DEF RInv, ResultsInv

(* The steps that leave the results alone. *)
LEMMA IdleResults ==
    ASSUME PInv, RInv,
           \/ Fault \/ PodsGone \/ ItemsStarted \/ EndIfEvicted \/ ApplyFails \/ TakeLeases
           \/ EnsureWorkload \/ DeleteWorkload \/ ReleaseAll \/ DropFinalizer
    PROVE  RInv'
<1>1. (On /\ ~At("write") /\ st' = st /\ DataKept) \/ Fault
  BY DEF PodsGone, ItemsStarted, EndIfEvicted, ApplyFails, TakeLeases, EnsureWorkload,
         DeleteWorkload, ReleaseAll, DropFinalizer, At, On, DataKept, cluster, world
<1>2. StoredInv'
  <2>1. st' = st /\ DataKept
    BY <1>1 DEF Fault, DataKept, cluster, world
  <2> QED BY <2>1, SameStored DEF RInv
<1>3. CASE StopPass
  BY <1>2, <1>3, StopResults
<1>4. {"items", "resume", "collect", "record", "finish", "deleteWorkload", "pause", "suspend"}
         \subseteq Stages
  BY DEF Stages
<1>5. ASSUME ~StopPass
      PROVE  On /\ ~At("write") /\ st' = st /\ DataKept
  BY <1>1, <1>5 DEF Fault
<1>6. CASE ~StopPass /\ (EndIfEvicted \/ ApplyFails) /\ Abort(mem)
  <2>1. pass.pc \in {"check", "suspend", "scale"}
    BY <1>6 DEF EndIfEvicted, ApplyFails, At
  <2>2. mem.phase = "Running"
    BY <1>5, <1>6, <2>1, ResultsGive DEF Stage, mem, InWork, Working, Pausing
  <2> QED BY <1>5, <1>6, <2>2, AbortResults DEF Finished
<1>7. CASE /\ ~StopPass /\ pass.pc \in {"items", "pods"}
           /\ \E pc \in {"items", "resume", "collect"} : Goto(pc)
  BY <1>4, <1>5, <1>7, GotoResults DEF Working, Pausing
<1>8. CASE ~StopPass /\ \E pc \in {"record", "finish", "deleteWorkload"} : Goto(pc)
  BY <1>4, <1>5, <1>8, GotoResults DEF Working, Pausing
<1>9. CASE ~StopPass /\ TakeLeases
  <2>1. Goto(Worker)
    BY <1>9 DEF TakeLeases
  <2>2. Worker \in {"pause", "suspend", "items"}
    BY DEF Worker
  <2>3. Worker # "pause" => mem.pausedAt # Never \/ cur \notin All
    BY DEF Worker
  <2> QED BY <1>4, <1>5, <1>9, <2>1, <2>2, <2>3, GotoResults
<1>10. CASE ~StopPass /\ EnsureWorkload
  <2> DEFINE m == [mem EXCEPT !.workload = TRUE]
  <2>1. m \in Status /\ SameResults(m, mem) /\ m.phase = mem.phase /\ "start" \in Stages
    BY <1>5, <1>10, ResultsGive DEF Status, SameResults, Stages
  <2>2. pass' = Step("start", m)
    BY <1>10 DEF EnsureWorkload, GotoWith
  <2> HIDE DEF m
  <2>3. pass'.pc = "start" /\ pass'.mem = m /\ pass'.run = pass.run /\ pass'.end = pass.end
    BY <2>1, <2>2, StepType, <1>5, <1>10, ResultsGive DEF SamePass
  <2> QED BY <1>5, <1>10, <2>1, <2>3, OnwardResults DEF Working, Pausing
<1> QED BY <1>3, <1>6, <1>7, <1>8, <1>9, <1>10
        DEF PodsGone, ItemsStarted, EndIfEvicted, ApplyFails, Fault, DeleteWorkload, ReleaseAll,
            DropFinalizer, At

LEMMA AppResults ==
    ASSUME PInv, RInv, ApplySuspend \/ ApplyScale \/ ScaleUp \/ Unsuspend
    PROVE  RInv'
<1>1. On /\ ~At("write") /\ UNCHANGED <<st, src, snap, bak>>
  BY DEF ApplySuspend, ApplyScale, ScaleUp, Unsuspend, At, On
<1>2. DataKept
  BY <1>1, AppStepType DEF DataKept, SameOwner, PInv
<1>3. CASE StopPass
  BY <1>1, <1>2, <1>3, SameStored, StopResults DEF RInv
<1>4. {"scale", "pods", "unsuspend", "collect", "giveBack"} \subseteq Stages
  BY DEF Stages
<1>5. CASE ~StopPass /\ (ApplySuspend \/ ApplyScale)
  <2>1. (Goto("scale") \/ Goto("pods")) /\ pass.pc \in {"suspend", "scale"}
    BY <1>5 DEF ApplySuspend, ApplyScale, At
  <2> QED BY <1>1, <1>2, <1>4, <2>1, GotoResults DEF Working, Pausing
<1>6. CASE ScaleUp
  <2> DEFINE m == [mem EXCEPT !.resumed = mem.paused]
  <2>1. m \in Status /\ SameResults(m, mem) /\ m.phase = mem.phase
    BY <1>1, ResultsGive DEF Status, SameResults
  <2>2. pass' = Step("unsuspend", m)
    BY <1>6 DEF ScaleUp, GotoWith
  <2> HIDE DEF m
  <2>3. pass'.pc = "unsuspend" /\ pass'.mem = m /\ pass'.run = pass.run /\ pass'.end = pass.end
    BY <1>1, <1>4, <2>1, <2>2, StepType, ResultsGive DEF SamePass
  <2> QED BY <1>1, <1>2, <2>1, <2>3, OnwardResults DEF Working, Pausing
<1>7. CASE Unsuspend
  <2>1. Goto("collect") \/ Goto("giveBack")
    BY <1>7 DEF Unsuspend
  <2>2. mem.pausedAt # Never
    BY <1>1, <1>7, ResultsGive DEF Unsuspend, At, Stage, Resuming, PauseInv, mem
  <2> QED BY <1>1, <1>2, <1>4, <2>1, <2>2, GotoResults
<1> QED BY <1>3, <1>5, <1>6, <1>7

(* The same results under another phase. *)
LEMMA OtherPhase ==
    ASSUME PInv, RInv, On, NEW m, SameResults(m, mem), PhaseOfItems(cur, m)
    PROVE  ItemInv(cur, m) /\ Snaps(cur, m, snap[cur], src, app.blank)
<1>1. ItemInv(cur, mem)
  BY ResultsGive
<1>2. DatabaseLost(m) <=> DatabaseLost(mem)
  BY DEF SameResults, DatabaseLost
<1>3. ItemInv(cur, m)
  BY <1>1, <1>2 DEF ItemInv, Items, SameResults, VolumeItem, DatabaseItem
<1> QED BY <1>3, HandSnaps DEF SameResults

LEMMA PlanResults == ASSUME PInv, RInv, Plan PROVE RInv'
<1>1. On /\ At("plan") /\ ~At("write") /\ DataKept
  BY DEF Plan, At, On, DataKept, world
<1>2. /\ mem \in Status /\ cur \in Runs /\ ItemInv(cur, mem) /\ mem.phase = ""
      /\ Results(pass, st[cur].saved) /\ pass \in Passes
  BY <1>1, ResultsGive DEF Stage, At, mem
<1>3. \A t \in Things : mem.items[t] = "None"
  BY <1>2 DEF ItemInv, Items, PhaseOfItems
<1>4. CASE pass' = [pass EXCEPT !.pc = "release", !.end = "Failed"] /\ UNCHANGED st
  <2>1. /\ pass'.run = pass.run /\ pass'.mem = mem /\ pass'.pc = "release" /\ pass'.end = "Failed"
    BY <1>2, <1>4 DEF Passes, mem
  <2>2. Results(pass', st[cur].saved)
    BY <1>2, <2>1 DEF Results, Working, Pausing, mem
  <2> QED BY <1>1, <1>4, <2>1, <2>2, GoOnResults DEF SameResults
<1>5. ASSUME NEW i, NEW m, m = [mem EXCEPT !.phase = "Queued", !.items = i], WriteStatus(m, Idle),
             i = [t \in Things |-> IF t \in Target(cur) THEN "Pending" ELSE "None"]
      PROVE  RInv'
  <2>1. /\ m.items = i /\ m.phase = "Queued" /\ m.saved = mem.saved /\ m.resumedAt = mem.resumedAt
    BY <1>2, <1>5 DEF Status
  <2>2. /\ \A t \in Target(cur) : m.items[t] = "Pending"
        /\ \A t \in Things : m.items[t] \in {"Pending", "None"}
    <3>1. \A t \in Things : m.items[t] = IF t \in Target(cur) THEN "Pending" ELSE "None"
      BY <1>5, <2>1
    <3>2. Target(cur) \subseteq Things
      BY <1>2, TargetThings
    <3> QED BY <3>1, <3>2
  <2>3. \A c \in Claims : c \notin m.saved
    BY <1>2, <1>3, <2>1 DEF ItemInv, Items, VolumeItem, Things
  <2>4. ItemInv(cur, m)
    <3>1. PhaseOfItems(cur, m)
      BY <2>1, <2>2 DEF PhaseOfItems
    <3>2. \A c \in Claims : VolumeItem(cur, m, c, snap[cur], src, app.blank)
      BY <2>2, <2>3 DEF VolumeItem, Things
    <3>3. \A d \in Clusters : DatabaseItem(m, d, bak[cur], app.asleep)
      BY <2>2 DEF DatabaseItem, Things
    <3> QED BY <3>1, <3>2, <3>3 DEF ItemInv, Items
  <2> QED BY <1>1, <1>5, <2>1, <2>4, HandSnaps, WriteStopResults
<1> QED BY <1>4, <1>5 DEF Plan

LEMMA AdmitResults == ASSUME PInv, RInv, Admit PROVE RInv'
<1>1. On /\ At("start") /\ DataKept
  BY DEF Admit, At, On, DataKept, world
<1>2. mem \in Status /\ ItemInv(cur, mem) /\ mem.phase = "Queued"
  BY <1>1, ResultsGive DEF Stage, At, mem
<1>3. CASE WriteStatus(mem, Idle)
  BY <1>1, <1>2, <1>3, OtherPhase, WriteStopResults DEF SameResults, ItemInv, Items
<1>4. CASE WriteStatus([mem EXCEPT !.phase = "Running"], Idle)
  <2> DEFINE m == [mem EXCEPT !.phase = "Running"]
  <2>1. SameResults(m, mem) /\ m.phase = "Running" /\ m.items = mem.items
    BY <1>2 DEF SameResults, Status
  <2> HIDE DEF m
  <2>2. PhaseOfItems(cur, m)
    BY <1>2, <2>1 DEF ItemInv, Items, PhaseOfItems
  <2> QED BY <1>1, <1>4, <2>1, <2>2, OtherPhase, WriteStopResults DEF m
<1>5. CASE Abort(mem) /\ UNCHANGED st
  BY <1>1, <1>2, <1>5, AbortResults DEF Finished
<1> QED BY <1>3, <1>4, <1>5 DEF Admit

LEMMA RecordLeasesResults == ASSUME PInv, RInv, RecordLeases PROVE RInv'
<1> DEFINE m == [mem EXCEPT !.leases = TRUE]
<1>1. On /\ At("record") /\ ~At("write") /\ DataKept /\ "take" \in Stages
  BY DEF RecordLeases, At, On, DataKept, world, Stages
<1>2. mem \in Status /\ ItemInv(cur, mem) /\ pass \in Passes /\ pass.end = ""
  BY <1>1, ResultsGive DEF Stage, At, Starting
<1>3. CASE Goto("take") /\ UNCHANGED st
  BY <1>1, <1>3, GotoResults DEF Working, Pausing
<1>4. CASE WriteStatus(m, Step("take", m))
  <2>1. m \in Status /\ SameResults(m, mem) /\ m.phase = mem.phase
    BY <1>2 DEF SameResults, Status
  <2> HIDE DEF m
  <2>2. ItemInv(cur, m) /\ Snaps(cur, m, snap[cur], src, app.blank)
    BY <1>1, <1>2, <2>1, OtherPhase DEF ItemInv, Items, PhaseOfItems, SameResults
  <2>3. Step("take", m).pc = "take" /\ Step("take", m).mem = m /\ SamePass(Step("take", m), pass)
    BY <1>1, <1>2, <2>1, StepType
  <2>4. Results(Step("take", m), m.saved)
    <3> PICK p : p = Step("take", m)
      OBVIOUS
    <3> QED BY <1>2, <2>3 DEF Results, SamePass, Working, Pausing
  <2> QED BY <1>1, <1>4, <2>2, <2>3, <2>4, WriteGoResults DEF SamePass, cur
<1> QED BY <1>3, <1>4 DEF RecordLeases

LEMMA EndWorkResults == ASSUME PInv, RInv, EndWork PROVE RInv'
<1>1. On /\ At("write") /\ DataKept
  BY DEF EndWork, At, On, DataKept, world
<1>2. /\ mem \in Status /\ ItemInv(cur, mem) /\ mem.phase = "Running" /\ pass \in Passes
      /\ Results(pass, st[cur].saved)
  BY <1>1, ResultsGive DEF Stage, At, mem, InWork, Working
<1>3. CASE WriteStatus(mem, Idle)
  BY <1>1, <1>2, <1>3, OtherPhase, WriteStopResults DEF SameResults, ItemInv, Items
<1>4. CASE /\ Done /\ UNCHANGED st
           /\ pass' = [pass EXCEPT !.pc = "release",
                                   !.end = IF \E t \in Things : mem.items[t] = "Failed"
                                           THEN "Failed" ELSE "Succeeded"]
  <2>1. PICK end : /\ pass' = [pass EXCEPT !.pc = "release", !.end = end]
                   /\ end \in {"Failed", "Succeeded"}
                   /\ end = "Succeeded" => \A t \in Things : mem.items[t] # "Failed"
    BY <1>4
  <2>2. /\ pass'.run = pass.run /\ pass'.pc = "release" /\ pass'.end = end /\ pass'.mem = mem
    BY <1>2, <2>1 DEF Passes, mem
  <2>3. Results(pass', st[cur].saved)
    <3>1. st[cur].saved \subseteq mem.saved
      BY <1>2 DEF Results, mem
    <3> QED BY <1>2, <1>4, <2>1, <2>2, <3>1 DEF Results, Done, Working, Pausing
  <2> QED BY <1>1, <1>4, <2>2, <2>3, GoOnResults DEF SameResults
<1> QED BY <1>3, <1>4 DEF EndWork

LEMMA FinishResults == ASSUME PInv, RInv, Finish PROVE RInv'
<1> DEFINE k == [mem EXCEPT !.phase = pass.end, !.workload = FALSE]
<1>1. On /\ At("finish") /\ ~At("write") /\ DataKept /\ "dropFinalizer" \in Stages
  BY DEF Finish, At, On, DataKept, world, Stages
<1>2. /\ mem \in Status /\ ItemInv(cur, mem) /\ pass \in Passes /\ cur \in Runs
      /\ Results(pass, st[cur].saved) /\ pass.end \in {"Succeeded", "Failed", "Deleted"}
  <2>1. pass.end # ""
    BY <1>1, ResultsGive DEF Stage, At, Ending, Returning
  <2> QED BY <1>1, <2>1, ResultsGive DEF Passes
<1>3. CASE Goto("dropFinalizer") /\ UNCHANGED st
  BY <1>1, <1>3, GotoResults DEF Working, Pausing
<1>4. ASSUME NEW m \in Status, SameResults(m, mem), PhaseOfItems(cur, m),
             pass.end = "Succeeded" => m.phase = "Succeeded",
             WriteStatus(m, Step("dropFinalizer", m))
      PROVE  RInv'
  <2>1. ItemInv(cur, m) /\ Snaps(cur, m, snap[cur], src, app.blank)
    BY <1>1, <1>4, OtherPhase
  <2>2. /\ Step("dropFinalizer", m).pc = "dropFinalizer" /\ Step("dropFinalizer", m).mem = m
        /\ SamePass(Step("dropFinalizer", m), pass)
    BY <1>1, <1>2, <1>4, StepType
  <2>3. Results(Step("dropFinalizer", m), m.saved)
    <3> PICK p : p = Step("dropFinalizer", m)
      OBVIOUS
    <3> QED BY <1>2, <1>4, <2>2 DEF Results, SamePass, Working, Pausing, SameResults, mem
  <2> QED BY <1>1, <1>4, <2>1, <2>2, <2>3, WriteGoResults DEF SamePass, cur
<1>5. CASE pass.end = "Deleted" /\ WriteStatus(mem, Step("dropFinalizer", mem))
  BY <1>2, <1>4, <1>5 DEF SameResults, ItemInv, Items
<1>6. CASE pass.end # "Deleted" /\ WriteStatus(k, Step("dropFinalizer", k))
  <2>1. k \in Status /\ SameResults(k, mem) /\ k.phase = pass.end
    BY <1>2, <1>6 DEF SameResults, Status
  <2> HIDE DEF k
  <2>2. PhaseOfItems(cur, k)
    <3>1. CASE pass.end = "Failed"
      BY <2>1, <3>1 DEF PhaseOfItems
    <3>2. CASE pass.end = "Succeeded"
      <4>1. /\ mem.phase \in {"Running", "Succeeded"}
            /\ \A t \in Things : mem.items[t] \notin {"Pending", "Running", "Failed"}
        BY <1>2, <3>2 DEF Results, mem
      <4>2. \A t \in Target(cur) : mem.items[t] # "None"
        BY <1>2, <4>1 DEF ItemInv, Items, PhaseOfItems
      <4> QED BY <2>1, <3>2, <4>1, <4>2 DEF PhaseOfItems, SameResults
    <3> QED BY <1>2, <1>6, <3>1, <3>2
  <2> QED BY <1>4, <1>6, <2>1, <2>2
<1> QED BY <1>3, <1>5, <1>6 DEF Finish

(* A run whose resume is not recorded has neither moved a snapshot nor     *)
(* succeeded with a volume.                                                *)
LEMMA RecordResumeResults ==
    ASSUME PInv, RInv, RecordResume, pass.pc \in {"resume", "release"}, mem.resumedAt = Never,
           mem.pausedAt # Never, DataKept
    PROVE  RInv'
<1> DEFINE m == [mem EXCEPT !.resumedAt = clock + 1]
<1>1. On /\ "scaleUp" \in Stages
  BY DEF On, Stages
<1>2. mem \in Status /\ ItemInv(cur, mem) /\ pass \in Passes /\ Results(pass, st[cur].saved)
      /\ PauseInv(cur, mem) /\ clock \in Nat
  BY <1>1, ResultsGive DEF TypeOK
<1>3. clock + 1 # Never
  BY <1>2 DEF Never
<1>4. /\ m.phase = mem.phase /\ m.items = mem.items /\ m.saved = mem.saved
      /\ m.pausedAt = mem.pausedAt /\ m.paused = mem.paused /\ m.resumedAt # Never
  BY <1>2, <1>3 DEF Status
<1>5. mem.paused
  BY <1>2 DEF PauseInv
<1>6. WriteStatus(m, Step("scaleUp", m))
  BY DEF RecordResume
<1> HIDE DEF m
<1>7. ItemInv(cur, m)
  <2>1. \A c \in Claims : c \notin app.blank => mem.items[c] # "Succeeded"
    BY <1>2, <1>5 DEF ItemInv, Items, VolumeItem
  <2>2. \A c \in Claims : VolumeItem(cur, m, c, snap[cur], src, app.blank)
    BY <1>2, <1>4, <2>1 DEF ItemInv, Items, VolumeItem
  <2> QED BY <1>2, <1>4, <2>2 DEF ItemInv, Items, PhaseOfItems, DatabaseItem
<1>8. /\ Step("scaleUp", m).pc = "scaleUp" /\ Step("scaleUp", m).mem = m
      /\ SamePass(Step("scaleUp", m), pass)
  BY <1>2 DEF Step, Passes, SamePass
<1>9. Results(Step("scaleUp", m), m.saved)
  <2> PICK p : p = Step("scaleUp", m)
    OBVIOUS
  <2> QED BY <1>2, <1>4, <1>8 DEF Results, SamePass, Working, Pausing, mem
<1>10. Snaps(cur, m, snap[cur], src, app.blank)
  BY <1>1, <1>4, HandSnaps
<1> QED BY <1>1, <1>6, <1>7, <1>8, <1>9, <1>10, WriteGoResults DEF SamePass, cur

LEMMA ResumeResults == ASSUME PInv, RInv, Resume \/ Release PROVE RInv'
<1>1. On /\ ~At("write") /\ DataKept /\ pass.pc \in {"resume", "release"}
  BY DEF Resume, Release, At, On, DataKept, world
<1>2. {"collect", "scaleUp", "giveBack"} \subseteq Stages
  BY DEF Stages
<1>3. CASE RecordResume /\ mem.resumedAt = Never /\ (mem.pausedAt # Never \/ At("resume"))
  <2>1. At("resume") => mem.pausedAt # Never
    BY <1>1, ResultsGive DEF Stage, At, mem
  <2> QED BY <1>1, <1>3, <2>1, RecordResumeResults
<1>4. CASE At("resume") /\ (Goto("collect") \/ Goto("scaleUp")) /\ UNCHANGED st
  BY <1>1, <1>2, <1>4, GotoResults DEF At, Working, Pausing
<1>5. CASE At("release") /\ (Goto("giveBack") \/ Goto("scaleUp")) /\ UNCHANGED st
  BY <1>1, <1>2, <1>5, GotoResults DEF At, Working, Pausing
<1> QED BY <1>3, <1>4, <1>5 DEF Resume, Release

LEMMA PauseResults == ASSUME PInv, RInv, Pause PROVE RInv'
<1> DEFINE k == [mem EXCEPT !.pausedAt = clock + 1,
                            !.resumedAt = IF app.marked THEN Never ELSE clock + 1,
                            !.paused = app.marked,
                            !.replicas = IF app.marked THEN app.replicas ELSE 0,
                            !.suspends = app.marked /\ ~app.suspended]
<1>1. On /\ At("pause") /\ DataKept
  BY PauseGives DEF DataKept
<1>2. /\ mem \in Status /\ ItemInv(cur, mem) /\ pass \in Passes /\ Results(pass, st[cur].saved)
      /\ PauseInv(cur, mem) /\ clock \in Nat /\ cur \in All /\ mem.pausedAt = Never
      /\ mem.phase = "Running" /\ pass.end = ""
  BY <1>1, ResultsGive DEF TypeOK, Stage, At, mem, cur, InWork, Working
<1>3. CASE StopPass /\ UNCHANGED st
  BY <1>1, <1>3, ResultsGive, SameStored, StopResults
<1>4. clock + 1 # Never
  <2>1. clock \in Nat
    BY <1>2
  <2> QED BY <2>1 DEF Never
<1>5. CASE WriteStatus(k, [pass EXCEPT !.pc = "suspend", !.mem = k, !.pausing = TRUE])
  <2>1. PICK a, b, c, d, e : k = [mem EXCEPT !.pausedAt = a, !.resumedAt = b, !.paused = c,
                                             !.replicas = d, !.suspends = e] /\ a # Never
    BY <1>4
  <2> HIDE DEF k
  <2>2. /\ k.phase = mem.phase /\ k.items = mem.items /\ k.saved = mem.saved /\ k.pausedAt = a
    BY <1>2, <2>1 DEF Status
  <2>3. k.pausedAt # Never /\ mem.resumedAt = Never
    BY <1>2, <2>1, <2>2 DEF PauseInv
  <2>4. \A x \in Claims : mem.items[x] # "Succeeded"
    BY <1>2 DEF ItemInv, Items, VolumeItem
  <2>5. ItemInv(cur, k)
    <3>1. \A x \in Claims : VolumeItem(cur, k, x, snap[cur], src, app.blank)
      BY <1>2, <2>2, <2>4 DEF ItemInv, Items, VolumeItem
    <3> QED BY <1>2, <2>2, <3>1 DEF ItemInv, Items, PhaseOfItems, DatabaseItem
  <2>6. Snaps(cur, k, snap[cur], src, app.blank)
    BY <1>1, <2>2, <2>3, HandSnaps
  <2> DEFINE next == [pass EXCEPT !.pc = "suspend", !.mem = k, !.pausing = TRUE]
  <2>7. next.pc = "suspend" /\ next.mem = k /\ next.run = cur /\ next.end = ""
    BY <1>2 DEF Passes, cur
  <2> HIDE DEF next
  <2>8. Results(next, k.saved)
    BY <2>3, <2>7 DEF Results
  <2> QED BY <1>1, <1>5, <2>5, <2>6, <2>7, <2>8, WriteGoResults DEF next
<1> QED BY <1>3, <1>5 DEF Pause

LEMMA ObjectResults ==
    ASSUME PInv, RInv, NEW r \in Runs, Reconcile(r) \/ Expire(r) \/ Delete(r)
    PROVE  RInv'
<1>1. st' = st /\ DataKept /\ StoredInv
  BY DEF Reconcile, Expire, Delete, DataKept, world, RInv
<1>2. StoredInv'
  BY <1>1, SameStored
<1>3. CASE Reconcile(r)
  <2>1. /\ pass'.run = r /\ pass'.mem = st[r] /\ pass'.pc \in {"release", "plan", "admit", "check"}
        /\ pass'.end \in {"", "Deleted"}
    BY <1>3 DEF Reconcile, Idle
  <2>2. mem' = st[r] /\ cur' = r
    BY <2>1 DEF mem, cur
  <2>3. ItemInv(cur, mem)'
    BY <1>1, <2>2 DEF StoredInv, ItemInv, DataKept
  <2>4. Results(pass', st[r].saved)
    BY <2>1 DEF Results, Working, Pausing
  <2> QED BY <1>1, <1>2, <2>2, <2>3, <2>4 DEF RInv, ResultsInv
<1>4. CASE Expire(r)
  BY <1>1, <1>4, StillResults DEF Expire
<1>5. CASE Delete(r)
  <2>1. PICK b : pass' = [pass EXCEPT !.stale = b]
    BY <1>5 DEF Delete
  <2>2. /\ pass'.pc = pass.pc /\ pass'.mem = mem /\ pass'.run = pass.run /\ pass'.end = pass.end
    BY <2>1 DEF PInv, TypeOK, Passes, mem
  <2>3. CASE On
    <3>1. Results(pass', st[cur].saved)
      <4> PICK p : p = pass'
        OBVIOUS
      <4> QED BY <2>2, <2>3, ResultsGive DEF Results, mem
    <3> QED BY <1>1, <2>2, <2>3, <3>1, GoOnResults DEF SameResults
  <2>4. CASE ~On
    BY <1>2, <2>2, <2>4 DEF RInv, ResultsInv, On
  <2> QED BY <2>3, <2>4
<1> QED BY <1>3, <1>4, <1>5

(* What the start of an item may do to the sources and the backups. *)
Started(t) ==
    /\ \A c \in Claims : /\ src'[c].last = src[c].last
                         /\ src'[c].tag = src[c].tag \/ (c = t /\ src'[c].tag = cur)
    /\ \A r \in Runs, d \in Clusters :
         bak[r][d].phase = "completed" => bak'[r][d].phase = "completed"

LEMMA StartResults ==
    ASSUME PInv, RInv, At("items"), NEW t \in Pending, NEW phase \in {"Failed", "Running", "Skipped"},
           SetItem(t, phase), phase = "Skipped" => t \in Clusters \cap app.asleep,
           st' = st, snap' = snap, app' = app, Started(t)
    PROVE  RInv'
<1>1. On /\ phase \in ItemPhases /\ t \in Things /\ mem.items[t] = "Pending"
  BY DEF At, On, ItemPhases, Pending
<1>2. /\ mem \in Status /\ ItemInv(cur, mem) /\ pass \in Passes /\ Results(pass, st[cur].saved)
      /\ StoredInv /\ cur \in Runs /\ mem.phase = "Running" /\ pass.end = ""
  BY <1>1, ResultsGive DEF Stage, At, mem, InWork, Working
<1>3. t \notin Claims \/ (t \notin mem.saved /\ t \notin st[cur].saved)
  BY <1>1, <1>2 DEF ItemInv, Items, VolumeItem, Results, mem
<1>4. StoredInv'
  <2> SUFFICES ASSUME NEW r \in Runs
               PROVE  ItemInv(r, st[r])' /\ Snaps(r, st[r], snap[r], src, app.blank)'
    BY DEF StoredInv
  <2>1. ItemInv(r, st[r]) /\ Snaps(r, st[r], snap[r], src, app.blank)
    BY <1>2 DEF StoredInv
  <2>2. \A c \in Claims : VolumeItem(r, st[r], c, snap[r], src', app.blank)
    BY <1>3, <2>1 DEF ItemInv, Items, VolumeItem, Started
  <2>3. \A d \in Clusters : DatabaseItem(st[r], d, bak'[r], app.asleep)
    BY <2>1 DEF ItemInv, Items, DatabaseItem, Started
  <2>4. Snaps(r, st[r], snap[r], src', app.blank)
    BY <2>1 DEF Snaps, Started
  <2> QED BY <2>1, <2>2, <2>3, <2>4 DEF ItemInv, Items
<1>5. /\ pass'.pc = "items" /\ pass'.run = pass.run /\ pass'.end = pass.end
      /\ pass'.mem = [mem EXCEPT !.items = pass'.mem.items]
      /\ pass'.mem.items[t] = phase
      /\ \A u \in Things : u # t => pass'.mem.items[u] = mem.items[u]
  BY <1>1, SetItemType DEF PInv, SamePass, At
<1> PICK i, m : i = pass'.mem.items /\ m = pass'.mem
  OBVIOUS
<1>6. /\ m.phase = mem.phase /\ m.saved = mem.saved /\ m.pausedAt = mem.pausedAt
      /\ m.resumedAt = mem.resumedAt /\ m.paused = mem.paused
  <2>1. m = [mem EXCEPT !.items = i]
    BY <1>5
  <2> QED BY <1>2, <2>1 DEF Status
<1>7. m.items[t] = phase /\ \A u \in Things : u # t => m.items[u] = mem.items[u]
  BY <1>5
<1>8. DatabaseLost(mem) => DatabaseLost(m)
  BY <1>1, <1>7 DEF DatabaseLost, Things
<1>9. Items(cur, m, snap[cur], src', bak'[cur], app.blank, app.asleep)
  <2>1. PhaseOfItems(cur, m)
    BY <1>1, <1>2, <1>6, <1>7, TargetThings DEF ItemInv, Items, PhaseOfItems
  <2>2. ASSUME NEW c \in Claims PROVE VolumeItem(cur, m, c, snap[cur], src', app.blank)
    <3>1. VolumeItem(cur, mem, c, snap[cur], src, app.blank) /\ c \in Things
      BY <1>2 DEF ItemInv, Items, Things
    <3>2. CASE c = t
      BY <1>3, <1>6, <1>7, <3>2, ThingsAssumption DEF VolumeItem
    <3>3. CASE c # t
      BY <1>6, <1>7, <1>8, <3>1, <3>3 DEF VolumeItem, Started
    <3> QED BY <3>2, <3>3
  <2>3. ASSUME NEW d \in Clusters PROVE DatabaseItem(m, d, bak'[cur], app.asleep)
    BY <1>2, <1>7, <2>3 DEF ItemInv, Items, DatabaseItem, Things, Started
  <2> QED BY <2>1, <2>2, <2>3 DEF Items
<1>10. mem' = m /\ cur' = cur
  BY <1>5 DEF mem, cur
<1>11. Results(pass', st[cur].saved)
  <2> PICK p : p = pass'
    OBVIOUS
  <2>1. pass.pc = "items" /\ pass.end = ""
    BY <1>2 DEF At
  <2> QED BY <1>2, <1>5, <1>6, <2>1 DEF Results, mem, Working, Pausing
<1> QED BY <1>4, <1>9, <1>10, <1>11 DEF RInv, ResultsInv, ItemInv

LEMMA StartsResults ==
    ASSUME PInv, RInv,
           \/ \E t \in Things : StartFails(t)
           \/ \E c \in Claims : StartVolume(c)
           \/ \E d \in Clusters : StartDatabase(d)
    PROVE  RInv'
<1>1. /\ TypeOK /\ src \in [Claims -> Source] /\ bak \in [Runs -> BackupsOfRun]
  BY DEF PInv, TypeOK, DataTypes, Source, BackupsOfRun
<1>2. ASSUME NEW t \in Things, StartFails(t) PROVE RInv'
  <2>1. st' = st /\ snap' = snap /\ app' = app /\ src' = src /\ bak' = bak
    BY <1>2 DEF StartFails, cluster, world
  <2>2. Started(t)
    BY <2>1 DEF Started
  <2> QED BY <1>2, <2>1, <2>2, StartResults DEF StartFails
<1>3. ASSUME NEW c \in Claims, StartVolume(c) PROVE RInv'
  <2>1. st' = st /\ snap' = snap /\ app' = app /\ bak' = bak
    BY <1>3 DEF StartVolume
  <2>2. src' = src \/ src' = [src EXCEPT ![c] = [src[c] EXCEPT !.tag = cur]]
    BY <1>3 DEF StartVolume
  <2>3. Started(c)
    <3>1. [src[c] EXCEPT !.tag = cur].tag = cur /\ [src[c] EXCEPT !.tag = cur].last = src[c].last
      BY <1>1 DEF Source
    <3> QED BY <1>1, <2>1, <2>2, <3>1 DEF Started
  <2> QED BY <1>3, <2>1, <2>3, StartResults DEF StartVolume
<1>4. ASSUME NEW d \in Clusters, StartDatabase(d) PROVE RInv'
  <2>1. st' = st /\ snap' = snap /\ app' = app /\ src' = src
    BY <1>4 DEF StartDatabase
  <2>2. cur \in Runs
    BY <1>4, InHandGives DEF StartDatabase, At, On
  <2>3. Started(d)
    <3> DEFINE b == [bak[cur][d] EXCEPT !.phase = IF bak[cur][d].phase = "none" THEN "running"
                                                  ELSE bak[cur][d].phase]
    <3>1. bak' = bak \/ bak' = [bak EXCEPT ![cur] = [bak[cur] EXCEPT ![d] = b]]
      BY <1>4 DEF StartDatabase
    <3>2. bak[cur][d].phase # "none" => b.phase = bak[cur][d].phase
      BY <1>1, <2>2 DEF BackupsOfRun
    <3> HIDE DEF b
    <3>3. \A r \in Runs, x \in Clusters :
            bak'[r][x] = bak[r][x] \/ (r = cur /\ x = d /\ bak'[r][x] = b)
      BY <1>1, <2>2, <3>1 DEF BackupsOfRun
    <3> QED BY <1>1, <2>1, <2>2, <3>2, <3>3 DEF Started
  <2> QED BY <1>4, <2>1, <2>3, StartResults DEF StartDatabase
<1> QED BY <1>2, <1>3, <1>4

LEMMA CollectResults == ASSUME PInv, RInv, Collect PROVE RInv'
<1>1. On /\ At("collect") /\ UNCHANGED <<st, src, bak, app>>
  BY DEF Collect, At, On
<1>2. /\ mem \in Status /\ ItemInv(cur, mem) /\ pass \in Passes /\ Results(pass, st[cur].saved)
      /\ StoredInv /\ cur \in Runs /\ TypeOK /\ Agree /\ PauseInv(cur, mem)
      /\ mem.phase = "Running" /\ pass.end = ""
  BY <1>1, ResultsGive DEF Stage, At, mem, InWork, Working
<1>3. mem.saved = st[cur].saved /\ (cur \in All => mem.pausedAt # Never)
  BY <1>1, <1>2 DEF Results, mem, cur, At, Working
<1>4. /\ mem.resumedAt = st[cur].resumedAt /\ mem.paused = st[cur].paused
      /\ mem.paused => cur \in All
  BY <1>2 DEF Agree, PauseInv
<1>5. /\ pass'.pc = "write" /\ SamePass(pass', pass) /\ SamePause(pass'.mem, mem)
      /\ mem.saved \subseteq pass'.mem.saved /\ Collected(pass'.mem)
      /\ \A r \in Runs : r # cur => snap'[r] = snap[r]
  BY <1>1, <1>2, CollectGives
<1> PICK m, row : m = pass'.mem /\ row = snap'[cur]
  OBVIOUS
<1>6. Snaps(cur, st[cur], snap[cur], src, app.blank)
  BY <1>2 DEF StoredInv
<1>7. \A c \in Claims :
        /\ row[c].saved = snap[cur][c].saved
        /\ row[c].at # snap[cur][c].at =>
             snap[cur][c].at = Never /\ c \in mem.saved /\ row[c].at = mem.resumedAt
  BY <1>5 DEF Collected
<1>8. StoredInv'
  <2>1. ASSUME NEW r \in Runs, r # cur
        PROVE  ItemInv(r, st[r])' /\ Snaps(r, st[r], snap[r], src, app.blank)'
    BY <1>1, <1>2, <1>5, <2>1 DEF StoredInv, ItemInv
  <2>2. Snaps(cur, st[cur], row, src, app.blank)
    BY <1>3, <1>4, <1>6, <1>7 DEF Snaps
  <2>3. Items(cur, st[cur], row, src, bak[cur], app.blank, app.asleep)
    <3>1. ItemInv(cur, st[cur])
      BY <1>2 DEF StoredInv
    <3>2. \A c \in Claims : VolumeItem(cur, st[cur], c, row, src, app.blank)
      BY <1>4, <1>7, <3>1 DEF ItemInv, Items, VolumeItem
    <3> QED BY <3>1, <3>2 DEF ItemInv, Items
  <2> QED BY <1>1, <2>1, <2>2, <2>3 DEF StoredInv, ItemInv
<1>9. DatabaseLost(mem) => DatabaseLost(m)
  BY <1>5 DEF DatabaseLost, Collected, Things
<1>10. Items(cur, m, row, src, bak[cur], app.blank, app.asleep)
  <2>1. /\ m.phase = "Running" /\ m.pausedAt = mem.pausedAt /\ m.resumedAt = mem.resumedAt
        /\ m.paused = mem.paused
    BY <1>2, <1>5 DEF SamePause
  <2>2. /\ \A t \in Things : m.items[t] \in {mem.items[t], "Succeeded", "Failed"}
        /\ \A t \in Things : m.items[t] # mem.items[t] => mem.items[t] = "Running"
    BY <1>5 DEF Collected
  <2>3. PhaseOfItems(cur, m)
    BY <1>2, <2>1, <2>2, TargetThings DEF ItemInv, Items, PhaseOfItems
  <2>4. ASSUME NEW c \in Claims PROVE VolumeItem(cur, m, c, row, src, app.blank)
    <3>1. VolumeItem(cur, mem, c, snap[cur], src, app.blank) /\ c \in Things
      BY <1>2 DEF ItemInv, Items, Things
    <3>2. m.items[c] # "Skipped"
      BY <2>2, <3>1 DEF VolumeItem
    <3>3. ASSUME c \in m.saved
          PROVE  /\ m.items[c] \notin {"None", "Pending"} /\ row[c].saved
                 /\ src[c].tag = cur => src[c].last = cur
      <4>1. CASE c \in mem.saved
        BY <1>7, <2>2, <3>1, <4>1 DEF VolumeItem
      <4>2. CASE c \notin mem.saved
        <5>1. src[c].last = cur /\ mem.items[c] = "Running" /\ c \notin app.blank
          BY <1>5, <3>3, <4>2 DEF Collected
        <5> QED BY <1>6, <1>7, <2>2, <3>1, <5>1 DEF Snaps
      <4> QED BY <4>1, <4>2
    <3>4. ASSUME m.items[c] = "Succeeded", c \notin app.blank
          PROVE  /\ c \in m.saved
                 /\ m.paused => /\ m.resumedAt # Never
                                /\ row[c].at = m.resumedAt \/ DatabaseLost(m)
      <4>1. CASE mem.items[c] = "Succeeded"
        BY <1>5, <1>7, <1>9, <2>1, <3>1, <3>4, <4>1 DEF VolumeItem
      <4>2. CASE mem.items[c] # "Succeeded"
        <5>1. /\ c \in m.saved \/ snap[cur][c].at # Never
              /\ mem.paused => mem.resumedAt # Never
              /\ mem.paused /\ ~DatabaseFailed => row[c].at # Never \/ snap[cur][c].at # Never
          BY <1>4, <1>5, <3>4, <4>2 DEF Collected
        <5>2. snap[cur][c].at # Never => c \in mem.saved /\ snap[cur][c].at = mem.resumedAt
          BY <1>3, <1>4, <1>6 DEF Snaps
        <5>3. DatabaseFailed => DatabaseLost(m)
          BY <1>9 DEF DatabaseFailed, DatabaseLost
        <5> QED BY <1>5, <1>7, <2>1, <5>1, <5>2, <5>3
      <4> QED BY <4>1, <4>2
    <3> QED BY <1>3, <2>1, <3>2, <3>3, <3>4 DEF VolumeItem
  <2>5. ASSUME NEW d \in Clusters PROVE DatabaseItem(m, d, bak[cur], app.asleep)
    <3>1. DatabaseItem(mem, d, bak[cur], app.asleep) /\ d \in Things
      BY <1>2 DEF ItemInv, Items, Things
    <3>2. m.items[d] = "Succeeded" /\ mem.items[d] # "Succeeded" => bak[cur][d].phase = "completed"
      BY <1>5 DEF Collected
    <3> QED BY <2>2, <3>1, <3>2 DEF DatabaseItem
  <2> QED BY <2>3, <2>4, <2>5 DEF Items
<1>11. mem' = m /\ cur' = cur
  BY <1>5 DEF mem, cur, SamePass
<1>12. Results(pass', st[cur].saved)
  <2> PICK p : p = pass'
    OBVIOUS
  <2> QED BY <1>2, <1>3, <1>5 DEF Results, SamePass, SamePause, cur
<1> QED BY <1>1, <1>8, <1>10, <1>11, <1>12 DEF RInv, ResultsInv, ItemInv

(* A sync that completes is of a volume that its run has not recorded. *)
LEMMA MoverResults == ASSUME PInv, RInv, NEW c \in Claims, MoverSucceeds(c) PROVE RInv'
<1> DEFINE q == src[c].tag
<1>1. UNCHANGED <<st, pass, bak, app>> /\ src[c].last # q /\ q # NoRun
  BY DEF MoverSucceeds, Sync, Busy
<1>2. /\ src \in [Claims -> Source] /\ snap \in [Runs -> SnapsOfRun] /\ StoredInv
      /\ ResultsInv /\ q \in Runs
  BY <1>1 DEF PInv, RInv, TypeOK, DataTypes, Source, SnapsOfRun
<1>3. /\ \A b \in Claims : b # c => src'[b] = src[b]
      /\ src'[c].tag = q /\ src'[c].last = q
  <2>1. src' = [src EXCEPT ![c] = [src[c] EXCEPT !.last = q, !.failed = FALSE]]
    BY DEF MoverSucceeds, Sync
  <2>2. /\ [src[c] EXCEPT !.last = q, !.failed = FALSE].tag = q
        /\ [src[c] EXCEPT !.last = q, !.failed = FALSE].last = q
    BY <1>2 DEF Source
  <2> QED BY <1>2, <2>1, <2>2
<1>4. /\ \A r \in Runs, b \in Claims : r # q \/ b # c => snap'[r][b] = snap[r][b]
      /\ c \in app.blank => snap'[q][c] = snap[q][c]
      /\ c \notin app.blank => snap'[q][c].saved /\ snap'[q][c].at = Never
  <2> DEFINE new == IF c \in app.blank THEN snap[q][c]
                    ELSE [NoSnap EXCEPT !.saved = TRUE, !.data = src[c].clone.data]
  <2>1. snap' = [snap EXCEPT ![q] = [snap[q] EXCEPT ![c] = new]]
    BY DEF MoverSucceeds
  <2>2. /\ c \in app.blank => new = snap[q][c]
        /\ c \notin app.blank => new.saved /\ new.at = Never
    BY DEF NoSnap
  <2> HIDE DEF new
  <2>3. \A r \in Runs, b \in Claims :
          snap'[r][b] = IF r = q /\ b = c THEN new ELSE snap[r][b]
    BY <1>2, <2>1 DEF SnapsOfRun
  <2> QED BY <1>2, <2>2, <2>3
<1> HIDE DEF q
<1>5. ASSUME NEW r \in Runs, NEW s, ItemInv(r, s)
      PROVE  /\ Items(r, s, snap'[r], src', bak[r], app.blank, app.asleep)
             /\ r = q => c \notin s.saved
  <2>1. r = q => c \notin s.saved /\ (s.items[c] = "Succeeded" => c \in app.blank)
    BY <1>1, <1>5 DEF ItemInv, Items, VolumeItem, q
  <2>2. \A b \in Claims : VolumeItem(r, s, b, snap'[r], src', app.blank)
    <3> SUFFICES ASSUME NEW b \in Claims PROVE VolumeItem(r, s, b, snap'[r], src', app.blank)
      OBVIOUS
    <3>1. VolumeItem(r, s, b, snap[r], src, app.blank)
      BY <1>5 DEF ItemInv, Items
    <3>2. CASE b # c
      BY <1>3, <1>4, <3>1, <3>2 DEF VolumeItem
    <3>3. CASE b = c /\ r # q
      BY <1>3, <1>4, <3>1, <3>3 DEF VolumeItem
    <3>4. CASE b = c /\ r = q
      BY <2>1, <3>1, <3>4 DEF VolumeItem
    <3> QED BY <3>2, <3>3, <3>4
  <2> QED BY <1>5, <2>1, <2>2 DEF ItemInv, Items
<1>6. StoredInv'
  <2> SUFFICES ASSUME NEW r \in Runs
               PROVE  /\ Items(r, st[r], snap'[r], src', bak[r], app.blank, app.asleep)
                      /\ Snaps(r, st[r], snap'[r], src', app.blank)
    BY <1>1 DEF StoredInv, ItemInv
  <2>1. ItemInv(r, st[r]) /\ Snaps(r, st[r], snap[r], src, app.blank)
    BY <1>2 DEF StoredInv
  <2>2. r = q => c \notin st[r].saved
    BY <1>5, <2>1
  <2>3. Snaps(r, st[r], snap'[r], src', app.blank)
    BY <1>3, <1>4, <2>1, <2>2 DEF Snaps
  <2> QED BY <1>5, <2>1, <2>3
<1>7. ResultsInv'
  <2>1. mem' = mem /\ cur' = cur /\ (On' <=> On)
    BY <1>1 DEF mem, cur, On
  <2>2. ASSUME On PROVE Items(cur, mem, snap'[cur], src', bak[cur], app.blank, app.asleep)
    BY <1>5, <2>2, ResultsGive
  <2> QED BY <1>1, <1>2, <2>1, <2>2 DEF ResultsInv, ItemInv
<1> QED BY <1>6, <1>7 DEF RInv

(* The other steps of the surroundings. *)
LEMMA AroundResults ==
    ASSUME PInv, RInv, UNCHANGED <<st, pass, snap>>,
           app'.blank = app.blank, app'.asleep = app.asleep,
           \A c \in Claims : src'[c].tag = src[c].tag /\ src'[c].last = src[c].last,
           \A r \in Runs, d \in Clusters :
               bak[r][d].phase = "completed" => bak'[r][d].phase = "completed"
    PROVE  RInv'
<1>1. ASSUME NEW r \in Runs, NEW s, ItemInv(r, s)
      PROVE  Items(r, s, snap[r], src', bak'[r], app.blank, app.asleep)
  <2>1. \A c \in Claims : VolumeItem(r, s, c, snap[r], src', app.blank)
    BY <1>1 DEF ItemInv, Items, VolumeItem
  <2>2. \A d \in Clusters : DatabaseItem(s, d, bak'[r], app.asleep)
    BY <1>1 DEF ItemInv, Items, DatabaseItem
  <2> QED BY <1>1, <2>1, <2>2 DEF ItemInv, Items
<1>2. StoredInv'
  <2>1. \A r \in Runs : Snaps(r, st[r], snap[r], src, app.blank)
                          => Snaps(r, st[r], snap[r], src', app.blank)
    BY DEF Snaps
  <2> QED BY <1>1, <2>1 DEF RInv, StoredInv, ItemInv
<1>3. ResultsInv'
  <2>1. mem' = mem /\ cur' = cur /\ (On' <=> On)
    BY DEF mem, cur, On
  <2>2. ASSUME On PROVE Items(cur, mem, snap[cur], src', bak'[cur], app.blank, app.asleep)
    BY <1>1, <2>2, ResultsGive
  <2> QED BY <2>1, <2>2 DEF RInv, ResultsInv, ItemInv
<1> QED BY <1>2, <1>3 DEF RInv

LEMMA SurroundingsResults == ASSUME PInv, RInv, Surroundings PROVE RInv'
<1>1. /\ src \in [Claims -> Source] /\ bak \in [Runs -> BackupsOfRun] /\ AppTypes
  BY DEF PInv, TypeOK, DataTypes, Source, BackupsOfRun
<1>2. CASE \E c \in Claims : MoverSucceeds(c)
  BY <1>2, MoverResults
<1>3. CASE \E r \in Runs : Delete(r)
  BY <1>3, ObjectResults
<1>4. ASSUME NEW c \in Claims, CleanClone(c) \/ CutClone(c) \/ MoverFails(c) PROVE RInv'
  <2>1. UNCHANGED <<st, pass, snap, app, bak>>
    BY <1>4 DEF CleanClone, CutClone, MoverFails, Sync
  <2>2. PICK s : /\ src' = [src EXCEPT ![c] = s]
                 /\ s.tag = src[c].tag /\ s.last = src[c].last
    <3>1. \A k : /\ [src[c] EXCEPT !.clone = k].tag = src[c].tag
                 /\ [src[c] EXCEPT !.clone = k].last = src[c].last
      BY <1>1 DEF Source
    <3>2. CASE CleanClone(c)
      BY <3>1, <3>2 DEF CleanClone, Sync
    <3>3. CASE CutClone(c)
      BY <3>1, <3>3 DEF CutClone, Sync
    <3>4. CASE MoverFails(c)
      <4>1. src' = [src EXCEPT ![c] = [src[c] EXCEPT !.failed = TRUE]]
        BY <3>4 DEF MoverFails
      <4>2. /\ [src[c] EXCEPT !.failed = TRUE].tag = src[c].tag
            /\ [src[c] EXCEPT !.failed = TRUE].last = src[c].last
        BY <1>1 DEF Source
      <4> QED BY <4>1, <4>2
    <3> QED BY <1>4, <3>2, <3>3, <3>4
  <2>3. \A b \in Claims : src'[b].tag = src[b].tag /\ src'[b].last = src[b].last
    BY <1>1, <2>2
  <2> QED BY <2>1, <2>3, AroundResults
<1>5. ASSUME NEW r \in Runs, NEW d \in Clusters, BackupEnds(r, d) PROVE RInv'
  <2>1. UNCHANGED <<st, pass, snap, app, src>> /\ bak[r][d].phase = "running"
    BY <1>5 DEF BackupEnds
  <2>2. PICK b : bak' = [bak EXCEPT ![r] = [bak[r] EXCEPT ![d] = b]]
    BY <1>5 DEF BackupEnds
  <2>3. \A x \in Runs, y \in Clusters : bak'[x][y] = bak[x][y] \/ (x = r /\ y = d)
    BY <1>1, <2>2 DEF BackupsOfRun
  <2>4. \A x \in Runs, y \in Clusters :
          bak[x][y].phase = "completed" => bak'[x][y].phase = "completed"
    BY <2>1, <2>3
  <2> QED BY <2>1, <2>4, AroundResults
<1>6. CASE AppSteps \/ \E r \in Runs : Kueue(r) \/ Deadline(r)
  <2>1. UNCHANGED <<st, pass, snap, src, bak>>
    BY <1>6 DEF AppSteps, Kueue, Deadline
  <2>2. app'.blank = app.blank /\ app'.asleep = app.asleep
    <3>1. CASE app' = app
      BY <3>1
    <3>2. CASE AppSteps
      BY <1>1, <3>2 DEF AppSteps, AppTypes
    <3> QED BY <1>6, <3>1, <3>2 DEF Kueue, Deadline
  <2> QED BY <2>1, <2>2, AroundResults
<1> QED BY <1>2, <1>3, <1>4, <1>5, <1>6 DEF Surroundings

LEMMA RInvInit == Init => RInv
<1> SUFFICES ASSUME Init PROVE RInv
  OBVIOUS
<1>1. ~On
  BY DEF Init, On, Idle
<1>2. ASSUME NEW r \in Runs
      PROVE  ItemInv(r, st[r]) /\ Snaps(r, st[r], snap[r], src, app.blank)
  <2>1. st[r] = Empty /\ \A c \in Claims : snap[r][c] = NoSnap /\ src[c].last = NoRun
    BY DEF Init
  <2>2. /\ Empty.phase = "" /\ Empty.saved = {} /\ \A t \in Things : Empty.items[t] = "None"
        /\ NoSnap.at = Never
    BY DEF Empty, NoSnap
  <2>3. PhaseOfItems(r, st[r])
    BY <2>1, <2>2 DEF PhaseOfItems
  <2>4. \A c \in Claims : VolumeItem(r, st[r], c, snap[r], src, app.blank)
    BY <2>1, <2>2 DEF VolumeItem, Things
  <2>5. \A d \in Clusters : DatabaseItem(st[r], d, bak[r], app.asleep)
    BY <2>1, <2>2 DEF DatabaseItem, Things
  <2>6. Snaps(r, st[r], snap[r], src, app.blank)
    BY <2>1, <2>2, RunsAssumption DEF Snaps
  <2> QED BY <2>3, <2>4, <2>5, <2>6 DEF ItemInv, Items
<1> QED BY <1>1, <1>2 DEF RInv, StoredInv, ResultsInv

LEMMA RInvNext == PInv /\ RInv /\ [Next]_vars => RInv'
<1> SUFFICES ASSUME PInv, RInv, [Next]_vars PROVE RInv'
  OBVIOUS
<1>1. CASE \E r \in Runs : Reconcile(r) \/ Expire(r)
  BY <1>1, ObjectResults
<1>2. CASE Works
  BY <1>2, PlanResults, AdmitResults, RecordLeasesResults, IdleResults, PauseResults, AppResults,
     StartsResults, ResumeResults, CollectResults, EndWorkResults, FinishResults
  DEF Works
<1>3. CASE Fails
  BY <1>3, IdleResults, StartsResults DEF Fails
<1>4. CASE Surroundings
  BY <1>4, SurroundingsResults
<1>5. CASE UNCHANGED vars
  BY <1>5, StillResults DEF vars, DataKept
<1> QED BY <1>1, <1>2, <1>3, <1>4, <1>5 DEF Next

(* A run reports Succeeded only with results that can be restored: every   *)
(* volume with files has a recorded snapshot of the run, moved to the      *)
(* recorded end of the pause when the run paused the app, and every        *)
(* Cluster that was awake a completed base backup; for any claims,         *)
(* Clusters and runs, and whatever runs compete or fail.                   *)
THEOREM SucceededRunsRestore == Spec => []SucceededIsRestorable
<1>1. PInv /\ RInv => SucceededIsRestorable
  <2> SUFFICES ASSUME PInv, RInv, NEW r \in Runs, st[r].phase = "Succeeded"
               PROVE  /\ \A c \in Claims \cap Target(r) : c \in app.blank \/
                           /\ c \in st[r].saved /\ snap[r][c].saved
                           /\ st[r].paused => snap[r][c].at = st[r].resumedAt
                      /\ \A d \in Clusters \cap Target(r) :
                           d \in app.asleep \/ bak[r][d].phase = "completed"
    BY DEF SucceededIsRestorable
  <2>1. ItemInv(r, st[r]) /\ st[r] \in Status
    BY DEF PInv, RInv, StoredInv, TypeOK, RunTypes
  <2>2. \A t \in Things : st[r].items[t] \notin {"Pending", "Running", "Failed"}
    BY <2>1 DEF ItemInv, Items, PhaseOfItems
  <2>3. \A t \in Target(r) : t \in Things /\ st[r].items[t] \in {"Succeeded", "Skipped"}
    <3>1. \A t \in Target(r) : st[r].items[t] # "None"
      BY <2>1 DEF ItemInv, Items, PhaseOfItems
    <3>2. \A t \in Things : st[r].items[t] \in ItemPhases
      BY <2>1 DEF Status
    <3> QED BY <2>2, <3>1, <3>2, TargetThings DEF ItemPhases
  <2>4. ~DatabaseLost(st[r])
    BY <2>2 DEF DatabaseLost, Things
  <2>5. \A c \in Claims : VolumeItem(r, st[r], c, snap[r], src, app.blank)
    BY <2>1 DEF ItemInv, Items
  <2>6. \A d \in Clusters : DatabaseItem(st[r], d, bak[r], app.asleep)
    BY <2>1 DEF ItemInv, Items
  <2> QED BY <2>3, <2>4, <2>5, <2>6 DEF VolumeItem, DatabaseItem
<1> QED BY <1>1, PInvInit, PInvNext, RInvInit, RInvNext, PTL DEF Spec

-----------------------------------------------------------------------------
(* The inductive invariant of the paused moment.  It speaks of the pauses  *)
(* that no unread source and no late resume of another run has spoilt.     *)

(* A run that is not deleted, or whose pass has not seen that it is. *)
Live(r) == meta[r].state = "there" \/ (On /\ cur = r /\ pass.end # "Deleted")

(* What is stored of a run, and what its pass has in hand. *)
Statuses(r) == {st[r]} \cup IF On /\ cur = r THEN {mem} ELSE {}

Open(s, t) == s.items[t] \in {"Pending", "Running"}

(* What a status says of a run that pauses: a database that succeeded did  *)
(* so during the pause, a recorded snapshot that is still to move has all  *)
(* base backups, and nothing is left to start once the app is resumed.     *)
Covers(r, s, live) ==
    /\ \A t \in Things \ Target(r) : s.items[t] = "None"
    /\ r \in All /\ (s.pausedAt = Never \/ s.paused) =>
         \A d \in Clusters : s.items[d] = "Succeeded" => d \in s.based
    /\ s.based # {} => s.paused
    /\ \A c \in Claims \cap s.saved : s.items[c] = "Running" =>
         s.paused /\ s.resumedAt # Never /\ ~DatabaseLost(s)
    /\ live /\ s.paused /\ s.resumedAt # Never =>
         /\ \A t \in Things : s.items[t] # "Pending"
         /\ \A d \in Clusters : s.items[d] # "Running"

Settled(p) ==
    /\ p.pc = "resume" => \A t \in Things : p.mem.items[t] # "Pending"
    /\ p.pc = "release" /\ p.end # "Deleted" => \A t \in Things : ~Open(p.mem, t)

CInv ==
    /\ \A r \in Runs : \A s \in Statuses(r) : Covers(r, s, Live(r))
    /\ On => Settled(pass)

(* The app is down from the first source or base backup of a run to the    *)
(* record of its resume, and the run holds every Lease while it is paused. *)
Stopped == app.suspended /\ app.replicas = 0 /\ ~app.pods

Window(r) == r \notin spoilt /\ st[r].paused /\ st[r].resumedAt = Never
Past(r) == r \notin spoilt /\ st[r].paused /\ st[r].resumedAt # Never

Used(r) ==
    \/ \E c \in Claims : r \in {src[c].tag, src[c].last, src[c].clone.run}
    \/ \E d \in Clusters : bak[r][d].phase # "none"

HeldInv ==
    /\ On /\ InWork(pass) => \A n \in LeaseNames(cur) : owner[n] = cur
    /\ \A r \in All : Window(r) => Alive(r) /\ \A n \in Names : owner[n] = r

Starts(p) == p.pc = "items" /\ \E t \in Things : p.mem.items[t] = "Pending"

Stopping(p) ==
    p.mem.paused /\ p.mem.resumedAt = Never =>
      /\ p.pc \in {"scale", "pods"} \/ Starts(p) => app.suspended
      /\ p.pc = "pods" \/ Starts(p) => app.replicas = 0
      /\ Starts(p) => ~app.pods

StopInv ==
    /\ On => Stopping(pass)
    /\ \A r \in All : Used(r) => st[r].pausedAt # Never /\ (Window(r) => Stopped)

(* During the pause, what the run has taken holds the app as it is now. *)
BackupHolds(r, d, n) == bak[r][d].phase = "completed" /\ bak[r][d].data = n

DuringPause(r) ==
    /\ \A c \in Claims :
        /\ Busy(c) => src[c].tag = r
        /\ src[c].clone.made >= st[r].pausedAt => src[c].clone.run = r
        /\ src[c].clone.run = r => src[c].clone.data = app.starts
        /\ src[c].last = r /\ snap[r][c].saved => snap[r][c].data = app.starts
    /\ \A d \in Clusters : bak[r][d].phase = "completed" => BackupHolds(r, d, app.starts)

(* After it, what the run may still take up holds one state n of the app. *)
Taken(r, c, n) ==
    /\ src[c].last = r /\ snap[r][c].saved => snap[r][c].data = n
    /\ src[c].tag = r /\ src[c].last # r => src[c].clone.run = r /\ src[c].clone.data = n

Holding(r, s, n) ==
    /\ \A d \in s.based : BackupHolds(r, d, n)
    /\ Live(r) => \A c \in Claims : s.items[c] = "Running" => Taken(r, c, n)

Moved(r, c, n) ==
    /\ snap[r][c].data = n
    /\ \A d \in Clusters : d \in snap[r][c].bases /\ (d \in app.asleep \/ BackupHolds(r, d, n))

AfterPause(r, n) ==
    /\ \A c \in Claims : snap[r][c].at # Never => Moved(r, c, n)
    /\ \A s \in Statuses(r) : Holding(r, s, n)

DInv ==
    /\ \A r \in Runs :
        /\ \A s \in Statuses(r) : \A d \in s.based : bak[r][d].phase = "completed"
        /\ \A c \in Claims : /\ snap[r][c].at # Never => st[r].paused
                             /\ c \in app.blank => ~snap[r][c].saved
    /\ \A r \in All :
        /\ Window(r) => DuringPause(r)
        /\ Past(r) => \E n \in Nat : AfterPause(r, n)

MInv == CInv /\ HeldInv /\ StopInv /\ DInv

-----------------------------------------------------------------------------
(* What a step does to the statuses of the runs. *)

(* A step of a pass that leaves m in hand, or stored, or neither. *)
Goes(m) ==
    /\ On /\ \A r \in Runs : meta'[r].state = "there" => meta[r].state = "there"
    /\ st' = st \/ st' = [st EXCEPT ![cur] = m]
    /\ ~On' \/ (pass'.run = cur /\ pass'.mem = m /\ (pass.end = "Deleted" => pass'.end = "Deleted"))

LEMMA GoesGives ==
    ASSUME PInv, NEW m, Goes(m)
    PROVE  /\ \A r \in Runs : r # cur => Statuses(r)' \subseteq Statuses(r)
           /\ \A r \in Runs : r = cur => Statuses(r)' \subseteq Statuses(r) \cup {m}
           /\ \A r \in Runs : Live(r)' => Live(r)
<1>1. cur \in Runs /\ st \in [Runs -> Status] /\ On
  BY InHandGives DEF Goes, TypeOK, RunTypes
<1>2. /\ \A r \in Runs : r # cur => st'[r] = st[r]
      /\ st'[cur] \in {st[cur], m}
  BY <1>1 DEF Goes
<1>3. On' => cur' = cur /\ mem' = m
  BY DEF Goes, cur, mem
<1>4. \A r \in Runs : r = cur => Statuses(r)' \subseteq Statuses(r) \cup {m}
  BY <1>1, <1>2, <1>3 DEF Statuses
<1>5. \A r \in Runs : r # cur => Statuses(r)' \subseteq Statuses(r)
  BY <1>2, <1>3 DEF Statuses
<1>6. \A r \in Runs : Live(r)' => Live(r)
  BY <1>1, <1>3 DEF Goes, Live, cur
<1> QED BY <1>4, <1>5, <1>6

LEMMA StopGoes ==
    ASSUME PInv, On, StopPass, st' = st,
           \A r \in Runs : meta'[r].state = "there" => meta[r].state = "there"
    PROVE  \A m : Goes(m)
BY DEF StopPass, Idle, On, Goes

LEMMA GotoGoes ==
    ASSUME PInv, On, NEW pc \in Stages, Goto(pc), st' = st, meta' = meta
    PROVE  Goes(mem) /\ pass'.pc = pc /\ pass'.end = pass.end
BY GotoType DEF PInv, SamePass, Goes, cur

LEMMA WriteStopGoes ==
    ASSUME PInv, On, NEW m, WriteStatus(m, Idle), meta' = meta
    PROVE  Goes(m) /\ ~On'
<1>1. pass' = Idle /\ (st' = st \/ st' = [st EXCEPT ![cur] = m])
  BY DEF WriteStatus, StopPass
<1>2. ~On'
  BY <1>1 DEF Idle, On
<1> QED BY <1>1, <1>2 DEF Goes

LEMMA WriteGoes ==
    ASSUME PInv, On, NEW m, NEW next, WriteStatus(m, next), meta' = meta,
           next.run = cur, next.mem = m, next.end = pass.end
    PROVE  Goes(m) /\ (~On' \/ pass' = next)
<1>1. (pass' = Idle \/ pass' = next) /\ (st' = st \/ st' = [st EXCEPT ![cur] = m])
  BY DEF WriteStatus, StopPass
<1>2. ASSUME pass' = Idle PROVE ~On'
  BY <1>2 DEF Idle, On
<1>3. pass' = next => pass'.run = cur /\ pass'.mem = m /\ pass'.end = pass.end
  OBVIOUS
<1> QED BY <1>1, <1>2, <1>3 DEF Goes

LEMMA StepGoes ==
    ASSUME PInv, On, NEW m \in Status, NEW pc \in Stages, WriteStatus(m, Step(pc, m)), meta' = meta
    PROVE  Goes(m) /\ (~On' \/ (pass'.pc = pc /\ pass'.end = pass.end))
<1>1. Step(pc, m).run = cur /\ Step(pc, m).mem = m /\ Step(pc, m).end = pass.end /\ Step(pc, m).pc = pc
  BY InHandGives, StepType DEF SamePass, cur
<1> QED BY <1>1, WriteGoes

(* A calm step keeps what the runs collected; it may give up what is open. *)
Kept(s, q) ==
    /\ s.saved = q.saved /\ s.based = q.based /\ s.pausedAt = q.pausedAt
    /\ s.resumedAt = q.resumedAt /\ s.paused = q.paused /\ s.suspends = q.suspends
    /\ \/ s.items = q.items
       \/ \A t \in Things : s.items[t] = IF Open(q, t) THEN "Failed" ELSE q.items[t]

Calm ==
    \A r \in Runs : /\ \A s \in Statuses(r)' : \E q \in Statuses(r) : Kept(s, q)
                    /\ Live(r)' => Live(r)

LEMMA SameKept == \A s : Kept(s, s)
BY DEF Kept

LEMMA GoesCalm ==
    ASSUME PInv, NEW m, Goes(m), Kept(m, mem)
    PROVE  Calm
<1>1. mem \in Statuses(cur)
  BY DEF Goes, Statuses
<1> SUFFICES ASSUME NEW r \in Runs
             PROVE  /\ \A s \in Statuses(r)' : \E q \in Statuses(r) : Kept(s, q)
                    /\ Live(r)' => Live(r)
  BY DEF Calm
<1>2. r # cur => Statuses(r)' \subseteq Statuses(r)
  BY GoesGives
<1>3. r = cur => Statuses(r)' \subseteq Statuses(r) \cup {m}
  BY GoesGives
<1>4. Live(r)' => Live(r)
  BY GoesGives
<1> QED BY <1>1, <1>2, <1>3, <1>4, SameKept

LEMMA AbortCalm ==
    ASSUME PInv, On, Abort(mem), st' = st, meta' = meta, pass.end = ""
    PROVE  /\ Calm /\ pass'.pc = "release" /\ pass'.mem \in Status /\ On'
           /\ \A t \in Things : ~Open(pass'.mem, t)
<1>1. /\ pass' \in Passes /\ pass'.pc = "release" /\ pass'.run = pass.run
      /\ pass'.mem = [mem EXCEPT !.items = pass'.mem.items]
      /\ \A t \in Things : pass'.mem.items[t] =
           IF mem.items[t] \in {"Pending", "Running"} THEN "Failed" ELSE mem.items[t]
  BY AbortType DEF PInv
<1> PICK m : m = pass'.mem
  OBVIOUS
<1>2. /\ m.saved = mem.saved /\ m.based = mem.based /\ m.pausedAt = mem.pausedAt
      /\ m.resumedAt = mem.resumedAt /\ m.paused = mem.paused /\ m.suspends = mem.suspends
  <2>1. mem \in Status /\ m = [mem EXCEPT !.items = m.items]
    BY <1>1, InHandGives
  <2> QED BY <2>1 DEF Status
<1>3. Kept(m, mem)
  BY <1>1, <1>2 DEF Kept, Open
<1>4. Goes(m)
  BY <1>1 DEF Goes, cur
<1> QED BY <1>1, <1>3, <1>4, GoesCalm DEF Open, Passes, On

(* The steps of the surroundings leave the statuses alone. *)
LEMMA StillCalm ==
    ASSUME PInv, st' = st, \A r \in Runs : meta'[r].state = "there" => meta[r].state = "there",
           pass'.pc = pass.pc, pass'.run = pass.run, pass'.mem = pass.mem, pass'.end = pass.end
    PROVE  Calm
<1>1. (On' <=> On) /\ cur' = cur /\ mem' = mem
  BY DEF On, cur, mem
<1>2. \A r \in Runs : Statuses(r)' = Statuses(r) /\ (Live(r)' => Live(r))
  BY <1>1 DEF Statuses, Live
<1> QED BY <1>2, SameKept DEF Calm

-----------------------------------------------------------------------------
(* What the parts of the invariant depend on. *)

(* No recorded moment of a pause changes. *)
Quiet ==
    \A r \in Runs : /\ st'[r].pausedAt = st[r].pausedAt /\ st'[r].resumedAt = st[r].resumedAt
                    /\ st'[r].paused = st[r].paused

LEMMA CalmQuiet == ASSUME PInv, Calm PROVE Quiet
<1> SUFFICES ASSUME NEW r \in Runs
             PROVE  /\ st'[r].pausedAt = st[r].pausedAt /\ st'[r].resumedAt = st[r].resumedAt
                    /\ st'[r].paused = st[r].paused
  BY DEF Quiet
<1>1. st'[r] \in Statuses(r)'
  BY DEF Statuses
<1>2. PICK q \in Statuses(r) : Kept(st'[r], q)
  BY <1>1 DEF Calm
<1>3. q = st[r] \/ (On /\ cur = r /\ q = mem)
  BY DEF Statuses
<1>4. CASE On /\ cur = r /\ q = mem
  BY <1>2, <1>4, InHandGives DEF Agree, Kept
<1> QED BY <1>2, <1>3, <1>4 DEF Kept

LEMMA KeptCovers ==
    ASSUME NEW s, NEW q, NEW r, NEW live, NEW now, Kept(s, q), Covers(r, q, live), now => live
    PROVE  Covers(r, s, now)
<1>1. CASE s.items = q.items
  BY <1>1 DEF Kept, Covers, DatabaseLost
<1>2. CASE \A t \in Things : s.items[t] = IF Open(q, t) THEN "Failed" ELSE q.items[t]
  <2>1. Claims \subseteq Things /\ Clusters \subseteq Things
    BY DEF Things
  <2>2. \A t \in Things : /\ s.items[t] \in {"None", "Succeeded"} <=> q.items[t] \in {"None", "Succeeded"}
                          /\ q.items[t] \in {"None", "Succeeded"} => s.items[t] = q.items[t]
                          /\ s.items[t] # "Running" /\ s.items[t] # "Pending"
    BY <1>2 DEF Open
  <2> QED BY <2>1, <2>2 DEF Kept, Covers
<1> QED BY <1>1, <1>2 DEF Kept

LEMMA CalmCovers ==
    ASSUME CInv, Calm, On' => Settled(pass')
    PROVE  CInv'
<1>1. ASSUME NEW r \in Runs, NEW s \in Statuses(r)'
      PROVE  Covers(r, s, Live(r)')
  <2>1. PICK q \in Statuses(r) : Kept(s, q)
    BY <1>1 DEF Calm
  <2>2. Covers(r, q, Live(r)) /\ (Live(r)' => Live(r))
    BY DEF CInv, Calm
  <2> QED BY <2>1, <2>2, KeptCovers
<1> QED BY <1>1 DEF CInv

(* A run that has the app paused does not end. *)
Lasting == \A r \in Runs : Window(r) /\ Alive(r) => Alive(r)'

LEMMA SameHeld ==
    ASSUME HeldInv, Quiet, owner' = owner, spoilt \subseteq spoilt', Lasting,
           On' /\ InWork(pass') => On /\ InWork(pass) /\ pass'.run = cur
    PROVE  HeldInv'
<1>1. \A r \in Runs : Window(r)' => Window(r)
  BY DEF Quiet, Window
<1>2. On' /\ InWork(pass)' => \A n \in LeaseNames(cur)' : owner'[n] = cur'
  BY DEF HeldInv, cur, InWork
<1>3. \A r \in All : Window(r)' => Alive(r)' /\ \A n \in Names : owner'[n] = r
  BY <1>1, RunsAssumption DEF HeldInv, Lasting
<1> QED BY <1>2, <1>3 DEF HeldInv

LEMMA SameStop ==
    ASSUME StopInv, Quiet, UNCHANGED <<src, bak>>, spoilt \subseteq spoilt', On' => Stopping(pass)',
           \A r \in All : Window(r)' /\ Stopped => Stopped'
    PROVE  StopInv'
<1>1. \A r \in Runs : (Window(r)' => Window(r)) /\ (Used(r)' => Used(r)) /\ st'[r].pausedAt = st[r].pausedAt
  BY DEF Quiet, Window, Used
<1> QED BY <1>1, RunsAssumption DEF StopInv

LEMMA SameData ==
    ASSUME PInv, DInv, Calm, UNCHANGED <<src, snap, bak>>, spoilt \subseteq spoilt',
           app'.starts = app.starts, app'.asleep = app.asleep, app'.blank = app.blank
    PROVE  DInv'
<1>1. Quiet
  BY CalmQuiet
<1>2. ASSUME NEW r \in Runs
      PROVE  /\ \A s \in Statuses(r)' : \A d \in s.based : bak'[r][d].phase = "completed"
             /\ \A c \in Claims : /\ snap'[r][c].at # Never => st'[r].paused
                                  /\ c \in app'.blank => ~snap'[r][c].saved
  <2>1. ASSUME NEW s \in Statuses(r)' PROVE \A d \in s.based : bak'[r][d].phase = "completed"
    <3>1. PICK q \in Statuses(r) : Kept(s, q)
      BY <2>1 DEF Calm
    <3> QED BY <3>1 DEF Kept, DInv
  <2>2. \A c \in Claims : /\ snap'[r][c].at # Never => st'[r].paused
                          /\ c \in app'.blank => ~snap'[r][c].saved
    <3>1. \A c \in Claims : /\ snap[r][c].at # Never => st[r].paused
                            /\ c \in app.blank => ~snap[r][c].saved
      BY DEF DInv
    <3>2. st'[r].paused = st[r].paused
      BY <1>1 DEF Quiet
    <3> QED BY <3>1, <3>2
  <2> QED BY <2>1, <2>2
<1>3. ASSUME NEW r \in All
      PROVE  /\ Window(r)' => DuringPause(r)'
             /\ Past(r)' => \E n \in Nat : AfterPause(r, n)'
  <2>1. /\ r \in Runs /\ (Window(r)' => Window(r)) /\ (Past(r)' => Past(r))
        /\ st'[r].pausedAt = st[r].pausedAt
    BY <1>1, RunsAssumption DEF Quiet, Window, Past
  <2>2. Window(r)' => DuringPause(r)'
    BY <2>1 DEF DInv, DuringPause, Busy, BackupHolds
  <2>3. ASSUME NEW n \in Nat, AfterPause(r, n)
        PROVE  AfterPause(r, n)'
    <3>1. \A c \in Claims : snap'[r][c].at # Never => Moved(r, c, n)'
      BY <2>3 DEF AfterPause, Moved, BackupHolds
    <3>2. ASSUME NEW s \in Statuses(r)'
          PROVE  Holding(r, s, n)'
      <4>1. PICK q \in Statuses(r) : Kept(s, q)
        BY <2>1 DEF Calm
      <4>2. Holding(r, q, n) /\ (Live(r)' => Live(r)) /\ s.based = q.based
        BY <2>1, <2>3, <4>1 DEF AfterPause, Calm, Kept
      <4>3. \A c \in Claims : s.items[c] = "Running" => q.items[c] = "Running"
        BY <4>1 DEF Kept, Open, Things
      <4>4. \A c \in Claims : Taken(r, c, n)' = Taken(r, c, n)
        BY DEF Taken
      <4> QED BY <4>2, <4>3, <4>4 DEF Holding, BackupHolds
    <3> QED BY <3>1, <3>2 DEF AfterPause
  <2> QED BY <2>1, <2>2, <2>3 DEF DInv
<1> QED BY <1>2, <1>3 DEF DInv

(* A calm step of a pass. *)
LEMMA CalmKeeps ==
    ASSUME PInv, MInv, Calm, Lasting, UNCHANGED <<owner, app, src, snap, bak>>, spoilt \subseteq spoilt',
           On' => Settled(pass') /\ Stopping(pass)',
           On' /\ InWork(pass') => On /\ InWork(pass) /\ pass'.run = cur
    PROVE  MInv'
<1>1. Quiet /\ (Stopped => Stopped')
  BY CalmQuiet DEF Stopped
<1>2. CInv'
  BY CalmCovers DEF MInv
<1>3. HeldInv'
  BY <1>1, SameHeld DEF MInv
<1>4. StopInv'
  BY <1>1, SameStop DEF MInv
<1>5. DInv'
  BY SameData DEF MInv
<1> QED BY <1>2, <1>3, <1>4, <1>5 DEF MInv
-----------------------------------------------------------------------------
(* The calm steps. *)

LEMMA SameLasting == ASSUME st' = st, meta' = meta PROVE Lasting
BY DEF Lasting, Alive, Finished

LEMMA StopCalm ==
    ASSUME PInv, MInv, On, StopPass, st' = st, Lasting,
           \A r \in Runs : meta'[r].state = "there" => meta[r].state = "there",
           UNCHANGED <<owner, app, src, snap, bak>>, spoilt \subseteq spoilt'
    PROVE  MInv'
<1>1. Goes(mem) /\ ~On'
  BY StopGoes DEF StopPass, Idle, On
<1>2. Calm
  BY <1>1, SameKept, GoesCalm
<1> QED BY <1>1, <1>2, CalmKeeps

LEMMA GotoCalm ==
    ASSUME PInv, MInv, On, NEW pc \in Stages, Goto(pc), UNCHANGED <<st, meta, owner, app, src, snap, bak, spoilt>>,
           Settled(pass'), Stopping(pass)', InWork(pass') => InWork(pass)
    PROVE  MInv'
<1>1. Goes(mem) /\ pass'.run = cur
  BY GotoGoes, GotoType DEF PInv, SamePass, cur
<1>2. Calm /\ Lasting
  BY <1>1, SameKept, GoesCalm, SameLasting
<1> QED BY <1>1, <1>2, CalmKeeps

LEMMA AbortKeepsMoment ==
    ASSUME PInv, MInv, On, Abort(mem), pass.end = "", UNCHANGED <<st, meta, owner, app, src, snap, bak, spoilt>>
    PROVE  MInv'
<1>1. Calm /\ pass'.pc = "release" /\ \A t \in Things : ~Open(pass'.mem, t)
  BY AbortCalm
<1>2. Settled(pass') /\ ~InWork(pass')
  BY <1>1 DEF Settled, InWork, Working, Pausing, Resuming
<1>3. Stopping(pass)'
  BY <1>1 DEF Stopping, Starts
<1> QED BY <1>1, <1>2, <1>3, SameLasting, CalmKeeps

(* A write of the status in hand, but for fields the pause has no use for. *)
LEMMA WriteLasting ==
    ASSUME PInv, On, NEW m, NEW next, WriteStatus(m, next), meta' = meta,
           Finished(m.phase) => ~Window(cur)
    PROVE  Lasting
<1>1. st \in [Runs -> Status] /\ cur \in Runs
  BY InHandGives DEF TypeOK, RunTypes
<1>2. \A r \in Runs : st'[r] = st[r] \/ (r = cur /\ st'[r] = m)
  BY <1>1 DEF WriteStatus
<1> QED BY <1>2 DEF Lasting, Alive

LEMMA WriteStopCalm ==
    ASSUME PInv, MInv, On, NEW m, WriteStatus(m, Idle), Kept(m, mem), ~Finished(m.phase),
           UNCHANGED <<meta, owner, app, src, snap, bak, spoilt>>
    PROVE  MInv'
<1>1. Goes(m) /\ ~On' /\ Lasting
  BY WriteStopGoes, WriteLasting
<1>2. Calm
  BY <1>1, GoesCalm
<1> QED BY <1>1, <1>2, CalmKeeps

LEMMA StepCalm ==
    ASSUME PInv, MInv, On, NEW m \in Status, NEW pc \in {"take", "dropFinalizer"},
           WriteStatus(m, Step(pc, m)), Kept(m, mem), Finished(m.phase) => ~Window(cur),
           UNCHANGED <<meta, owner, app, src, snap, bak, spoilt>>
    PROVE  MInv'
<1>1. pc \in Stages
  BY DEF Stages
<1>2. Goes(m) /\ Lasting /\ (~On' \/ pass'.pc = pc)
  BY <1>1, StepGoes, WriteLasting
<1>3. Calm
  BY <1>2, GoesCalm
<1>4. On' => Settled(pass') /\ Stopping(pass)' /\ ~InWork(pass')
  BY <1>2 DEF Settled, Stopping, Starts, InWork, Working, Pausing, Resuming
<1> QED BY <1>2, <1>3, <1>4, CalmKeeps

LEMMA ReconcileCalm ==
    ASSUME PInv, MInv, NEW r \in Runs, Reconcile(r)
    PROVE  MInv'
<1>1. pass = Idle /\ ~On /\ UNCHANGED <<st, owner, app, src, snap, bak, spoilt>> /\ pass'.run = r /\ pass'.mem = st[r]
      /\ (meta[r].state = "there" \/ pass'.end = "Deleted")
      /\ pass'.pc \in {"plan", "admit", "check", "release"} /\ (pass'.pc = "release" => pass'.end = "Deleted")
  BY DEF Reconcile, Idle, On, world
<1>2. \A q \in Runs : meta'[q].state = meta[q].state
  BY DEF Reconcile, PInv, TypeOK, RunTypes
<1>3. Calm
  <2> SUFFICES ASSUME NEW q \in Runs
               PROVE  /\ \A s \in Statuses(q)' : \E k \in Statuses(q) : Kept(s, k)
                      /\ Live(q)' => Live(q)
    BY DEF Calm
  <2>1. Statuses(q)' \subseteq {st[q]} /\ st[q] \in Statuses(q)
    BY <1>1 DEF Statuses, cur, mem
  <2>2. Live(q)' => Live(q)
    BY <1>1, <1>2 DEF Live, cur
  <2> QED BY <2>1, <2>2, SameKept
<1>4. Lasting
  BY <1>1, <1>2 DEF Lasting, Alive
<1>5. Settled(pass') /\ ~InWork(pass')
  BY <1>1 DEF Settled, InWork, Working, Pausing, Resuming
<1>6. Stopping(pass)'
  BY <1>1 DEF Stopping, Starts
<1> QED BY <1>1, <1>3, <1>4, <1>5, <1>6, CalmKeeps

LEMMA StillKeeps ==
    ASSUME PInv, MInv, Lasting, UNCHANGED <<st, owner, app, src, snap, bak, spoilt>>,
           \A r \in Runs : meta'[r].state = "there" => meta[r].state = "there",
           pass'.pc = pass.pc, pass'.run = pass.run, pass'.mem = pass.mem, pass'.end = pass.end
    PROVE  MInv'
<1>1. Calm
  BY StillCalm
<1>2. (On' => On) /\ (Settled(pass) => Settled(pass')) /\ (Stopping(pass) => Stopping(pass)')
      /\ (InWork(pass') => InWork(pass))
  BY DEF On, Settled, Stopping, Starts, InWork
<1>3. On => Settled(pass) /\ Stopping(pass)
  BY DEF MInv, CInv, StopInv
<1> QED BY <1>1, <1>2, <1>3, CalmKeeps DEF cur

LEMMA ElsewhereMoment ==
    ASSUME PInv, MInv, UNCHANGED <<st, meta, pass, owner, app, src, snap, bak, spoilt>>
    PROVE  MInv'
BY SameLasting, StillKeeps

LEMMA WindowGives ==
    ASSUME PInv, NEW r \in Runs, Window(r)
    PROVE  /\ r \in All /\ st[r].pausedAt # Never /\ app.marked
           /\ On /\ r = cur => mem.paused /\ mem.resumedAt = Never /\ ~mem.resumed
<1>1. PauseInv(r, st[r])
  BY DEF PInv
<1>2. On /\ r = cur => mem.paused /\ mem.resumedAt = Never /\ ~mem.resumed
  BY InHandGives DEF Window, Agree, PauseInv
<1> QED BY <1>1, <1>2 DEF Window, PauseInv

(* A pass that gives back has no pause left. *)
LEMMA NoWindow ==
    ASSUME PInv, On, pass.pc \in Returning \cup Resuming
    PROVE  ~Window(cur)
<1>1. Stage(pass, meta[cur].state, owner[PauseName], app.replicas) /\ cur \in Runs
  BY InHandGives DEF StageInv
<1>2. (mem.paused => mem.resumed) \/ mem.resumedAt # Never
  BY <1>1 DEF Stage, mem
<1> QED BY <1>1, <1>2, WindowGives

LEMMA ObjectCalm ==
    ASSUME PInv, MInv, NEW r \in Runs, Expire(r) \/ Delete(r)
    PROVE  MInv'
<1>1. /\ meta \in [Runs -> Objects] /\ pass \in Passes
      /\ meta' = [meta EXCEPT ![r].state = IF meta[r].finalizer THEN "deleting" ELSE "gone"]
      /\ UNCHANGED <<st, owner, app, src, snap, bak, spoilt>>
  BY DEF Expire, Delete, PInv, TypeOK, RunTypes, Objects, world
<1>2. pass'.pc = pass.pc /\ pass'.run = pass.run /\ pass'.mem = pass.mem /\ pass'.end = pass.end
  BY <1>1 DEF Expire, Delete, Passes
<1>3. \A q \in Runs : /\ q # r => meta'[q] = meta[q]
                      /\ q = r => meta'[q].state = IF meta[r].finalizer THEN "deleting" ELSE "gone"
  BY <1>1 DEF Objects
<1>4. Lasting
  <2> SUFFICES ASSUME NEW q \in Runs, Window(q), Alive(q)
               PROVE  Alive(q)'
    BY DEF Lasting
  <2>1. CASE q = r
    <3>1. meta[r].finalizer
      BY <2>1, WindowGives DEF PInv, MetaInv
    <3> QED BY <1>1, <1>3, <2>1, <3>1 DEF Alive
  <2> QED BY <1>1, <1>3, <2>1 DEF Alive
<1>5. \A q \in Runs : meta'[q].state = "there" => meta[q].state = "there"
  BY <1>3
<1> QED BY <1>1, <1>2, <1>4, <1>5, StillKeeps

LEMMA AroundCalm ==
    ASSUME PInv, MInv, \E r \in Runs : Kueue(r) \/ Deadline(r)
    PROVE  MInv'
BY ElsewhereMoment DEF Kueue, Deadline

LEMMA FaultCalm == ASSUME PInv, MInv, Fault PROVE MInv'
<1>1. On /\ StopPass /\ UNCHANGED <<st, meta, owner, app, src, snap, bak, spoilt>>
  BY DEF Fault, cluster, world, PInv, StageInv
<1> QED BY <1>1, StopCalm, SameLasting

LEMMA WorkloadCalm == ASSUME PInv, MInv, EnsureWorkload \/ DeleteWorkload PROVE MInv'
<1>1. On /\ UNCHANGED <<st, meta, owner, app, src, snap, bak, spoilt>> /\ {"start", "finish"} \subseteq Stages
      /\ mem \in Status /\ pass \in Passes
  <2>1. On
    BY DEF EnsureWorkload, DeleteWorkload, At, On
  <2> QED BY <2>1, InHandGives DEF EnsureWorkload, DeleteWorkload, Stages
<1>2. CASE EnsureWorkload
  <2> DEFINE m == [mem EXCEPT !.workload = TRUE]
  <2>1. m \in Status /\ Kept(m, mem)
    BY <1>1 DEF Kept, Status
  <2>2. pass' = Step("start", m)
    BY <1>2 DEF EnsureWorkload, GotoWith
  <2> HIDE DEF m
  <2>3. pass'.pc = "start" /\ pass'.run = cur /\ pass'.mem = m /\ pass'.end = pass.end
    BY <1>1, <2>1, <2>2, StepType DEF SamePass, cur
  <2>4. Goes(m)
    BY <1>1, <2>3 DEF Goes
  <2>5. Settled(pass') /\ ~InWork(pass')
    BY <2>3 DEF Settled, InWork, Working, Pausing, Resuming
  <2>6. Stopping(pass)'
    BY <2>3 DEF Stopping, Starts
  <2> QED BY <1>1, <2>1, <2>4, <2>5, <2>6, GoesCalm, SameLasting, CalmKeeps
<1>3. CASE DeleteWorkload
  <2>1. Goto("finish")
    BY <1>3 DEF DeleteWorkload
  <2>2. pass'.pc = "finish"
    BY <1>1, <2>1, GotoType DEF PInv
  <2>3. Settled(pass') /\ ~InWork(pass')
    BY <2>2 DEF Settled, InWork, Working, Pausing, Resuming
  <2>4. Stopping(pass)'
    BY <2>2 DEF Stopping, Starts
  <2> QED BY <1>1, <2>1, <2>3, <2>4, GotoCalm
<1> QED BY <1>2, <1>3

LEMMA AdmitCalm == ASSUME PInv, MInv, Admit PROVE MInv'
<1>1. On /\ UNCHANGED <<meta, owner, app, src, snap, bak, spoilt>>
  BY DEF Admit, At, On, world
<1>2. mem \in Status /\ mem.phase = "Queued" /\ pass.end = ""
  BY <1>1, InHandGives DEF StageInv, Stage, Admit, At, mem, Starting
<1>3. CASE WriteStatus(mem, Idle)
  BY <1>1, <1>2, <1>3, SameKept, WriteStopCalm DEF Finished
<1>4. CASE WriteStatus([mem EXCEPT !.phase = "Running"], Idle)
  <2>1. Kept([mem EXCEPT !.phase = "Running"], mem) /\ ~Finished([mem EXCEPT !.phase = "Running"].phase)
    BY <1>2 DEF Kept, Status, Finished
  <2> QED BY <1>1, <1>4, <2>1, WriteStopCalm
<1>5. CASE Abort(mem) /\ UNCHANGED st
  BY <1>1, <1>2, <1>5, AbortKeepsMoment
<1> QED BY <1>3, <1>4, <1>5 DEF Admit

LEMMA RecordLeasesCalm == ASSUME PInv, MInv, RecordLeases PROVE MInv'
<1> DEFINE m == [mem EXCEPT !.leases = TRUE]
<1>1. On /\ UNCHANGED <<meta, owner, app, src, snap, bak, spoilt>> /\ "take" \in Stages
  BY DEF RecordLeases, At, On, world, Stages
<1>2. mem \in Status /\ mem.phase = "Running"
  BY <1>1, InHandGives DEF StageInv, Stage, RecordLeases, At, mem
<1>3. CASE Goto("take") /\ UNCHANGED st
  <2>1. pass'.pc = "take"
    BY <1>1, <1>3, GotoType DEF PInv
  <2>2. Settled(pass') /\ ~InWork(pass')
    BY <2>1 DEF Settled, InWork, Working, Pausing, Resuming
  <2>3. Stopping(pass)'
    BY <2>1 DEF Stopping, Starts
  <2> QED BY <1>1, <1>3, <2>2, <2>3, GotoCalm
<1>4. CASE WriteStatus(m, Step("take", m))
  <2>1. m \in Status /\ Kept(m, mem) /\ ~Finished(m.phase)
    BY <1>2 DEF Kept, Status, Finished
  <2> HIDE DEF m
  <2> QED BY <1>1, <1>4, <2>1, StepCalm
<1> QED BY <1>3, <1>4 DEF RecordLeases

LEMMA EndCalm ==
    ASSUME PInv, MInv, On, pass.end = "", NEW end \in {"Failed", "Succeeded"},
           pass' = [pass EXCEPT !.pc = "release", !.end = end], \A t \in Things : ~Open(mem, t),
           UNCHANGED <<st, meta, owner, app, src, snap, bak, spoilt>>
    PROVE  MInv'
<1>1. pass'.pc = "release" /\ pass'.run = cur /\ pass'.mem = mem /\ pass'.end = end
  BY InHandGives DEF Passes, cur, mem
<1>2. Goes(mem) /\ Settled(pass') /\ ~InWork(pass')
  BY <1>1 DEF Goes, Settled, InWork, Working, Pausing, Resuming
<1>3. Stopping(pass)'
  BY <1>1 DEF Stopping, Starts
<1> QED BY <1>2, <1>3, SameKept, GoesCalm, SameLasting, CalmKeeps

LEMMA EndWorkCalm == ASSUME PInv, MInv, EndWork PROVE MInv'
<1>1. On /\ UNCHANGED <<meta, owner, app, src, snap, bak, spoilt>>
  BY DEF EndWork, At, On, world
<1>2. mem \in Status /\ mem.phase = "Running" /\ pass.end = ""
  BY <1>1, InHandGives DEF StageInv, Stage, EndWork, At, mem, InWork, Working
<1>3. CASE WriteStatus(mem, Idle)
  BY <1>1, <1>2, <1>3, SameKept, WriteStopCalm DEF Finished
<1>4. CASE UNCHANGED st /\ Done /\ \E end \in {"Failed", "Succeeded"} :
             pass' = [pass EXCEPT !.pc = "release", !.end = end]
  BY <1>1, <1>2, <1>4, EndCalm DEF Done, Open
<1> QED BY <1>3, <1>4 DEF EndWork

LEMMA PlanFailsCalm ==
    ASSUME PInv, RInv, MInv, At("plan"), pass' = [pass EXCEPT !.pc = "release", !.end = "Failed"],
           UNCHANGED <<st, meta, owner, app, src, snap, bak, spoilt>>
    PROVE  MInv'
<1>1. On
  BY DEF At, On
<1>2. mem.phase = "" /\ pass.end = "" /\ ItemInv(cur, mem)
  BY <1>1, ResultsGive DEF Stage, Starting, At, mem
<1>3. \A t \in Things : ~Open(mem, t)
  BY <1>2 DEF ItemInv, Items, PhaseOfItems, Open
<1> QED BY <1>1, <1>2, <1>3, EndCalm

LEMMA ApplyFailsCalm == ASSUME PInv, MInv, ApplyFails PROVE MInv'
<1>1. On /\ UNCHANGED <<st, meta, owner, app, src, snap, bak, spoilt>> /\ Abort(mem)
  BY DEF ApplyFails, On, cluster, world
<1>2. pass.end = ""
  BY <1>1, InHandGives DEF StageInv, Stage, ApplyFails, Working, Pausing
<1> QED BY <1>1, <1>2, AbortKeepsMoment

LEMMA EndIfEvictedCalm == ASSUME PInv, MInv, EndIfEvicted PROVE MInv'
<1>1. On /\ UNCHANGED <<st, meta, owner, app, src, snap, bak, spoilt>> /\ "record" \in Stages
  BY DEF EndIfEvicted, At, On, cluster, world, Stages
<1>2. pass.end = ""
  BY <1>1, InHandGives DEF StageInv, Stage, EndIfEvicted, At, Starting
<1>3. CASE Abort(mem)
  BY <1>1, <1>2, <1>3, AbortKeepsMoment
<1>4. CASE Goto("record")
  <2>1. pass'.pc = "record"
    BY <1>1, <1>4, GotoType DEF PInv
  <2>2. Settled(pass') /\ ~InWork(pass')
    BY <2>1 DEF Settled, InWork, Working, Pausing, Resuming
  <2>3. Stopping(pass)'
    BY <2>1 DEF Stopping, Starts
  <2> QED BY <1>1, <1>4, <2>2, <2>3, GotoCalm
<1> QED BY <1>3, <1>4 DEF EndIfEvicted

LEMMA PodsGoneCalm == ASSUME PInv, MInv, PodsGone PROVE MInv'
<1>1. On /\ UNCHANGED <<st, meta, owner, app, src, snap, bak, spoilt>> /\ "items" \in Stages /\ At("pods")
  BY DEF PodsGone, At, On, cluster, world, Stages
<1>2. CASE StopPass
  BY <1>1, <1>2, StopCalm, SameLasting
<1>3. CASE Goto("items") /\ ~(mem.paused /\ app.pods)
  <2>1. pass'.pc = "items" /\ pass'.mem = mem /\ Stopping(pass)
    BY <1>1, <1>3, GotoType DEF PInv, MInv, StopInv
  <2>2. Settled(pass') /\ InWork(pass)
    BY <1>1, <2>1 DEF Settled, InWork, Working, Pausing, At
  <2>3. Stopping(pass)'
    BY <1>1, <1>3, <2>1 DEF Stopping, Starts, At, mem
  <2> QED BY <1>1, <1>3, <2>2, <2>3, GotoCalm
<1> QED BY <1>2, <1>3 DEF PodsGone

LEMMA ItemsStartedCalm == ASSUME PInv, MInv, ItemsStarted PROVE MInv'
<1>1. On /\ UNCHANGED <<st, meta, owner, app, src, snap, bak, spoilt>> /\ {"resume", "collect"} \subseteq Stages
      /\ At("items") /\ \A t \in Things : mem.items[t] # "Pending"
  BY DEF ItemsStarted, At, On, cluster, world, Stages, Pending
<1>2. PICK pc \in {"resume", "collect"} : Goto(pc)
  BY DEF ItemsStarted
<1>3. pass'.pc = pc /\ pass'.mem = mem
  BY <1>1, <1>2, GotoType DEF PInv
<1>4. Settled(pass') /\ InWork(pass)
  BY <1>1, <1>3 DEF Settled, InWork, Working, At
<1>5. Stopping(pass)'
  BY <1>3 DEF Stopping, Starts
<1> QED BY <1>1, <1>2, <1>4, <1>5, GotoCalm

LEMMA ResumeCalm ==
    ASSUME PInv, MInv, Resume \/ Release, ~RecordResume
    PROVE  MInv'
<1>1. On /\ UNCHANGED <<st, meta, owner, app, src, snap, bak, spoilt>>
      /\ {"scaleUp", "collect", "giveBack"} \subseteq Stages
  BY DEF Resume, Release, At, On, world, Stages
<1>2. PICK pc \in {"scaleUp", "collect", "giveBack"} : Goto(pc) /\ (pc = "collect" => At("resume"))
  BY DEF Resume, Release
<1>3. pass'.pc = pc /\ pass'.mem = mem /\ pass'.end = pass.end
  BY <1>1, <1>2, GotoType DEF PInv, SamePass
<1>4. InWork(pass') => InWork(pass)
  <2>1. At("resume") \/ (At("release") /\ pass.end # "")
    BY <1>1, InHandGives DEF Resume, Release, StageInv, Stage, Ending, At
  <2> QED BY <1>2, <1>3, <2>1 DEF InWork, Working, Pausing, Resuming, At
<1>5. Settled(pass')
  BY <1>3 DEF Settled
<1>6. Stopping(pass)'
  BY <1>3 DEF Stopping, Starts
<1> QED BY <1>1, <1>2, <1>4, <1>5, <1>6, GotoCalm

LEMMA FinishCalm == ASSUME PInv, MInv, Finish PROVE MInv'
<1> DEFINE m == [mem EXCEPT !.phase = pass.end, !.workload = FALSE]
<1>1. On /\ At("finish") /\ UNCHANGED <<meta, owner, app, src, snap, bak, spoilt>> /\ "dropFinalizer" \in Stages
  BY DEF Finish, At, On, world, Stages
<1>2. mem \in Status /\ pass \in Passes /\ ~Window(cur) /\ pass.end # ""
  <2>1. ~Window(cur)
    BY <1>1, NoWindow DEF Returning, At
  <2> QED BY <1>1, <2>1, InHandGives DEF StageInv, Stage, Ending, Returning, At
<1>3. CASE Goto("dropFinalizer") /\ UNCHANGED st
  <2>1. pass'.pc = "dropFinalizer"
    BY <1>1, <1>3, GotoType DEF PInv
  <2>2. Settled(pass') /\ ~InWork(pass')
    BY <2>1 DEF Settled, InWork, Working, Pausing, Resuming
  <2>3. Stopping(pass)'
    BY <2>1 DEF Stopping, Starts
  <2> QED BY <1>1, <1>3, <2>2, <2>3, GotoCalm
<1>4. CASE WriteStatus(mem, Step("dropFinalizer", mem))
  BY <1>1, <1>2, <1>4, SameKept, StepCalm
<1>5. CASE pass.end # "Deleted" /\ WriteStatus(m, Step("dropFinalizer", m))
  <2>1. m \in Status /\ Kept(m, mem)
    BY <1>2, <1>5 DEF Kept, Status, Passes
  <2> HIDE DEF m
  <2> QED BY <1>1, <1>2, <1>5, <2>1, StepCalm
<1> QED BY <1>3, <1>4, <1>5 DEF Finish

LEMMA DropFinalizerCalm == ASSUME PInv, MInv, DropFinalizer PROVE MInv'
<1>1. On /\ At("dropFinalizer") /\ UNCHANGED <<st, owner, app, src, snap, bak, spoilt>> /\ StopPass
  BY DEF DropFinalizer, At, On, world
<1>2. ~Window(cur) /\ cur \in Runs /\ meta \in [Runs -> Objects]
  BY <1>1, NoWindow, InHandGives DEF Returning, At, TypeOK, RunTypes, Objects
<1>3. \A r \in Runs : /\ r # cur => meta'[r] = meta[r]
                      /\ meta'[r].state = "there" => meta[r].state = "there"
  BY <1>2 DEF DropFinalizer, Objects
<1>4. Lasting
  BY <1>1, <1>2, <1>3 DEF Lasting, Alive
<1> QED BY <1>1, <1>3, <1>4, StopCalm

LEMMA PauseWaits == ASSUME PInv, MInv, At("pause"), StopPass,
                           UNCHANGED <<st, meta, owner, app, src, snap, bak>>, spoilt \subseteq spoilt'
                    PROVE  MInv'
BY StopCalm, SameLasting DEF At, On
-----------------------------------------------------------------------------
(* The Leases and the app. *)

LEMMA StopOff == ASSUME StopPass PROVE ~On'
BY DEF StopPass, Idle, On

LEMMA TakeLeasesMoment == ASSUME PInv, MInv, TakeLeases PROVE MInv'
<1>1. On /\ UNCHANGED <<st, meta, app, src, snap, bak, spoilt>> /\ {"pause", "suspend", "items"} \subseteq Stages
  BY DEF TakeLeases, At, On, world, Stages
<1>2. /\ StopPass \/ (Goto(Worker) /\ \A n \in LeaseNames(cur) : owner'[n] = cur)
      /\ \A n \in Names : owner'[n] = owner[n] \/ (Free(cur, n) /\ owner'[n] = cur)
  <2>1. LeaseNames(cur) \subseteq Names
    BY <1>1, InHandGives, TargetThings DEF LeaseNames, Names
  <2> QED BY <2>1 DEF TakeLeases
<1>3. cur \in Runs /\ mem \in Status /\ PauseInv(cur, mem)
  BY <1>1, InHandGives
<1>4. Worker \in {"pause", "suspend", "items"}
  BY DEF Worker
<1>5. On' => Goto(Worker) /\ pass'.pc = Worker /\ pass'.mem = mem /\ pass'.run = cur
  <2> QED BY <1>1, <1>2, <1>4, StopOff, GotoType DEF PInv, SamePass, cur
<1>6. Goes(mem)
  BY <1>1, <1>2, <1>4, StopGoes, GotoGoes
<1>7. Calm /\ Quiet
  BY <1>6, SameKept, GoesCalm, CalmQuiet
<1>8. CInv'
  <2>1. On' => Settled(pass')
    BY <1>4, <1>5 DEF Settled
  <2> QED BY <1>7, <2>1, CalmCovers DEF MInv
<1>9. HeldInv'
  <2>1. On' /\ InWork(pass)' => \A n \in LeaseNames(cur)' : owner'[n] = cur'
    <3>1. On' => \A n \in LeaseNames(cur) : owner'[n] = cur
      BY <1>2, StopOff
    <3> QED BY <1>5, <3>1 DEF cur
  <2>2. ASSUME NEW r \in All, Window(r)'
        PROVE  Alive(r)' /\ \A n \in Names : owner'[n] = r
    <3>1. r \in Runs /\ Window(r) /\ r # NoRun
      BY <1>1, <1>7, <2>2, RunsAssumption DEF Quiet, Window
    <3>2. Alive(r) /\ \A n \in Names : owner[n] = r
      BY <3>1 DEF MInv, HeldInv
    <3>3. Alive(r)'
      BY <1>1, <3>2 DEF Alive
    <3>4. \A n \in Names : Free(cur, n) => r = cur
      BY <3>1, <3>2 DEF Free
    <3> QED BY <1>2, <3>2, <3>3, <3>4
  <2> QED BY <2>1, <2>2 DEF HeldInv
<1>10. StopInv'
  <2>1. mem.paused /\ mem.resumedAt = Never /\ (\E t \in Things : mem.items[t] = "Pending") =>
          Worker # "items"
    BY <1>3 DEF Worker, PauseInv
  <2>2. On' => Stopping(pass)'
    BY <1>4, <1>5, <2>1 DEF Stopping, Starts
  <2>3. Stopped' = Stopped
    BY <1>1 DEF Stopped
  <2> QED BY <1>1, <1>7, <2>2, <2>3, SameStop DEF MInv
<1>11. DInv'
  BY <1>1, <1>7, SameData DEF MInv
<1> QED BY <1>8, <1>9, <1>10, <1>11 DEF MInv

LEMMA ReleaseAllMoment == ASSUME PInv, MInv, ReleaseAll PROVE MInv'
<1>1. On /\ UNCHANGED <<st, meta, app, src, snap, bak, spoilt>> /\ At("giveBack") /\ Goto("deleteWorkload")
      /\ "deleteWorkload" \in Stages
  BY DEF ReleaseAll, At, On, world, Stages
<1>2. Goes(mem) /\ pass'.pc = "deleteWorkload"
  BY <1>1, GotoGoes
<1>3. Calm /\ Quiet
  BY <1>2, SameKept, GoesCalm, CalmQuiet
<1>4. Settled(pass') /\ ~InWork(pass)'
  BY <1>2 DEF Settled, InWork, Working, Pausing, Resuming
<1>5. HeldInv'
  <2>1. ASSUME NEW r \in All, Window(r)'
        PROVE  Alive(r)' /\ \A n \in Names : owner'[n] = r
    <3>1. r \in Runs /\ Window(r)
      BY <1>1, <1>3, <2>1, RunsAssumption DEF Quiet, Window
    <3>2. Alive(r) /\ (\A n \in Names : owner[n] = r) /\ r # cur
      BY <1>1, <3>1, NoWindow DEF MInv, HeldInv, Returning, At
    <3> QED BY <1>1, <3>2 DEF Alive, ReleaseAll
  <2> QED BY <1>4, <2>1 DEF HeldInv
<1>6. StopInv'
  <2>1. Stopping(pass)' /\ Stopped' = Stopped
    BY <1>1, <1>2 DEF Stopping, Starts, Stopped
  <2> QED BY <1>1, <1>3, <2>1, SameStop DEF MInv
<1>7. CInv'
  BY <1>3, <1>4, CalmCovers DEF MInv
<1>8. DInv'
  BY <1>1, <1>3, SameData DEF MInv
<1> QED BY <1>5, <1>6, <1>7, <1>8 DEF MInv

(* A step of a pass that changes the app. *)
LEMMA AppMoment ==
    ASSUME PInv, MInv, NEW m, Goes(m), Kept(m, mem), UNCHANGED <<st, meta, owner, src, snap, bak>>,
           SameOwner, spoilt \subseteq spoilt', \A r \in All : Window(r)' /\ Stopped => Stopped',
           On' => Settled(pass') /\ Stopping(pass)', InWork(pass') => InWork(pass)
    PROVE  MInv'
<1>1. Calm /\ Quiet /\ Lasting /\ On /\ (On' => pass'.run = cur)
  BY GoesCalm, CalmQuiet, SameLasting DEF Goes
<1>2. CInv'
  BY <1>1, CalmCovers DEF MInv
<1>3. HeldInv'
  BY <1>1, SameHeld DEF MInv
<1>4. StopInv'
  BY <1>1, SameStop DEF MInv
<1>5. DInv'
  BY <1>1, SameData DEF MInv, SameOwner
<1> QED BY <1>2, <1>3, <1>4, <1>5 DEF MInv

LEMMA ApplyMoment == ASSUME PInv, MInv, ApplySuspend \/ ApplyScale PROVE MInv'
<1>1. On /\ UNCHANGED <<st, meta, owner, src, snap, bak, spoilt>> /\ {"scale", "pods"} \subseteq Stages /\ TypeOK
  BY DEF ApplySuspend, ApplyScale, At, On, Stages, PInv
<1>2. PauseInv(cur, mem) /\ Stopping(pass) /\ (app.ownSuspend => app.suspended)
  BY <1>1, InHandGives DEF MInv, StopInv, PauseOK, AppInv
<1>3. CASE ApplySuspend
  <2>1. /\ SameOwner /\ app'.replicas = app.replicas /\ (app.suspended => app'.suspended)
        /\ mem.paused => app'.suspended
    <3>1. CASE mem.suspends
      BY <1>1, <1>3, <3>1, SuspendType DEF ApplySuspend
    <3>2. CASE ~mem.suspends
      <4>1. mem.paused => app.ownSuspend
        <5>1. mem.suspends \in BOOLEAN /\ app.ownSuspend \in BOOLEAN
          BY <1>1, InHandGives DEF Status, TypeOK, AppTypes
        <5> QED BY <1>2, <3>2, <5>1 DEF PauseInv
      <4>2. SameOwner /\ app' = app
        BY <1>1, <1>3, <3>2, SameAppType DEF ApplySuspend
      <4> QED BY <1>2, <4>1, <4>2
    <3> QED BY <3>1, <3>2
  <2>2. Goes(mem) /\ pass'.pc = "scale" /\ pass'.mem = mem
    BY <1>1, <1>3, GotoGoes, GotoType DEF ApplySuspend
  <2>3. Settled(pass') /\ InWork(pass)
    BY <1>3, <2>2 DEF Settled, InWork, Working, Pausing, ApplySuspend, At
  <2>4. Stopping(pass)'
    BY <1>2, <2>1, <2>2 DEF Stopping, Starts, PauseInv
  <2>5. Stopped => Stopped'
    BY <2>1 DEF Stopped, SameOwner
  <2> QED BY <1>1, <2>1, <2>2, <2>3, <2>4, <2>5, SameKept, AppMoment
<1>4. CASE ApplyScale
  <2>1. SameOwner /\ app'.suspended = app.suspended /\ app'.replicas = IF mem.paused THEN 0 ELSE app.replicas
    <3>1. CASE mem.paused
      BY <1>1, <1>4, <3>1, ScaleType DEF ApplyScale
    <3>2. CASE ~mem.paused
      BY <1>1, <1>4, <3>2, SameAppType DEF ApplyScale
    <3> QED BY <3>1, <3>2
  <2>2. Goes(mem) /\ (On' => pass'.pc = "pods" /\ pass'.mem = mem)
    <3>1. CASE StopPass
      BY <1>1, <3>1, StopGoes DEF StopPass, Idle, On
    <3>2. CASE Goto("pods")
      BY <1>1, <3>2, GotoGoes, GotoType
    <3> QED BY <1>4, <3>1, <3>2 DEF ApplyScale
  <2>3. InWork(pass) /\ (On' => Settled(pass'))
    BY <1>4, <2>2 DEF Settled, InWork, Working, Pausing, ApplyScale, At
  <2>4. On' => Stopping(pass)'
    BY <1>2, <1>4, <2>1, <2>2 DEF Stopping, Starts, ApplyScale, At, mem
  <2>5. Stopped => Stopped'
    BY <2>1 DEF Stopped, SameOwner
  <2> QED BY <1>1, <2>1, <2>2, <2>3, <2>4, <2>5, SameKept, AppMoment
<1> QED BY <1>3, <1>4

(* The app is given back under no other pause, or that one is spoilt. *)
LEMMA GiveAppMoment == ASSUME PInv, MInv, ScaleUp \/ Unsuspend PROVE MInv'
<1>1. On /\ UNCHANGED <<st, meta, owner, src, snap, bak>> /\ TypeOK /\ pass.pc \in Resuming
      /\ {"unsuspend", "collect", "giveBack"} \subseteq Stages
  BY DEF ScaleUp, Unsuspend, At, On, Stages, PInv, Resuming
<1>2. PauseInv(cur, mem) /\ mem \in Status /\ cur \in Runs /\ ~Window(cur) /\ pass \in Passes
      /\ Stage(pass, meta[cur].state, owner[PauseName], app.replicas)
  BY <1>1, InHandGives, NoWindow DEF StageInv
<1>3. /\ spoilt \subseteq spoilt'
      /\ app' = app \/ \A r \in All : ~Window(r)'
  <2>1. CASE Spoils
    BY <1>1, <1>2, <2>1 DEF Spoils, Window
  <2>2. CASE UNCHANGED <<app, spoilt>>
    BY <2>2
  <2> QED BY <2>1, <2>2 DEF ScaleUp, Unsuspend
<1>4. CASE ScaleUp
  <2> DEFINE m == [mem EXCEPT !.resumed = mem.paused]
  <2>1. m \in Status /\ Kept(m, mem)
    BY <1>2 DEF Kept, Status
  <2>2. pass' = Step("unsuspend", m)
    BY <1>4 DEF ScaleUp, GotoWith
  <2> HIDE DEF m
  <2>3. pass'.pc = "unsuspend" /\ pass'.run = cur /\ pass'.mem = m /\ pass'.end = pass.end
    BY <1>1, <1>2, <2>1, <2>2, StepType DEF SamePass, cur
  <2>4. Goes(m)
    BY <1>1, <2>3 DEF Goes
  <2>5. Settled(pass') /\ (InWork(pass') => InWork(pass))
    BY <1>1, <2>3 DEF Settled, InWork, Working, Pausing, Resuming
  <2>6. Stopping(pass)'
    BY <2>3 DEF Stopping, Starts
  <2>7. SameOwner
    BY <1>1, <1>2, <1>4, ScaleType, SameAppType DEF ScaleUp, Status
  <2>8. \A r \in All : Window(r)' /\ Stopped => Stopped'
    BY <1>3 DEF Stopped
  <2> QED BY <1>1, <1>3, <2>1, <2>4, <2>5, <2>6, <2>7, <2>8, AppMoment
<1>5. CASE Unsuspend
  <2>1. PICK pc \in {"collect", "giveBack"} : Goto(pc) /\ (pc = "collect" => pass.end = "")
    BY <1>5 DEF Unsuspend
  <2>2. Goes(mem) /\ pass'.pc = pc
    BY <1>1, <2>1, GotoGoes
  <2>3. Settled(pass') /\ (InWork(pass') => InWork(pass))
    BY <1>1, <2>1, <2>2 DEF Settled, InWork, Working, Pausing, Resuming
  <2>4. Stopping(pass)'
    BY <2>2 DEF Stopping, Starts
  <2>5. SameOwner
    BY <1>1, <1>5, SuspendType, SameAppType DEF Unsuspend
  <2>6. \A r \in All : Window(r)' /\ Stopped => Stopped'
    BY <1>3 DEF Stopped
  <2> QED BY <1>1, <1>3, <2>2, <2>3, <2>4, <2>5, <2>6, SameKept, AppMoment
<1> QED BY <1>4, <1>5
-----------------------------------------------------------------------------
(* The surroundings. *)

LEMMA SurroundMoment ==
    ASSUME PInv, MInv, UNCHANGED <<st, meta, pass, owner, spoilt>>, StopInv', DInv'
    PROVE  MInv'
<1>1. Calm /\ Quiet /\ Lasting
  BY StillCalm, CalmQuiet, SameLasting
<1>2. (On' <=> On) /\ cur' = cur
  BY DEF On, cur
<1>3. CInv'
  BY <1>1, <1>2, CalmCovers DEF MInv, CInv
<1>4. HeldInv'
  <2>1. On' /\ InWork(pass') => On /\ InWork(pass) /\ pass'.run = cur
    BY <1>2 DEF cur
  <2> QED BY <1>1, <2>1, SameHeld DEF MInv
<1> QED BY <1>3, <1>4 DEF MInv

LEMMA SameStatuses ==
    ASSUME UNCHANGED <<st, meta, pass, spoilt>>
    PROVE  /\ \A r \in Runs : /\ Statuses(r)' = Statuses(r) /\ Live(r)' = Live(r)
                               /\ Window(r)' = Window(r) /\ Past(r)' = Past(r)
           /\ On' = On
BY DEF Statuses, Live, Window, Past, On, cur, mem

LEMMA AppStepsMoment == ASSUME PInv, MInv, AppSteps PROVE MInv'
<1>1. UNCHANGED <<st, meta, pass, owner, src, snap, bak, spoilt>> /\ app \in [replicas : 0 .. 1, pods : BOOLEAN,
        starts : Nat, suspended : BOOLEAN, marked : BOOLEAN, ownSuspend : BOOLEAN,
        asleep : SUBSET Clusters, blank : SUBSET Claims]
  BY DEF AppSteps, PInv, TypeOK, AppTypes
<1>2. /\ app'.asleep = app.asleep /\ app'.blank = app.blank /\ ~Stopped /\ app'.suspended = app.suspended
      /\ app.suspended /\ app.replicas = 0 => app'.replicas = 0 /\ (~app.pods => ~app'.pods)
  <2>1. CASE app.replicas = 0 /\ app.pods /\ app' = [app EXCEPT !.pods = FALSE]
    BY <1>1, <2>1 DEF Stopped
  <2>2. CASE app.replicas = 1 /\ app' = [app EXCEPT !.pods = TRUE, !.starts = @ + 1]
    BY <1>1, <2>2 DEF Stopped
  <2>3. CASE ~app.suspended /\ app' = [app EXCEPT !.replicas = 1]
    BY <1>1, <2>3 DEF Stopped
  <2> QED BY <2>1, <2>2, <2>3 DEF AppSteps
<1>3. \A r \in Runs : /\ Statuses(r)' = Statuses(r) /\ Live(r)' = Live(r) /\ Window(r)' = Window(r)
                      /\ Past(r)' = Past(r) /\ Used(r)' = Used(r)
  BY <1>1, SameStatuses DEF Used
<1>4. StopInv'
  <2>1. On' => Stopping(pass)'
    <3>1. On' => Stopping(pass)
      BY <1>1 DEF MInv, StopInv, On
    <3>2. Starts(pass)' = Starts(pass)
      BY <1>1 DEF Starts
    <3> QED BY <1>1, <1>2, <3>1, <3>2 DEF Stopping
  <2>2. \A r \in All : Used(r)' => st'[r].pausedAt # Never /\ ~Window(r)'
    BY <1>1, <1>2, <1>3, RunsAssumption DEF MInv, StopInv
  <2> QED BY <2>1, <2>2 DEF StopInv
<1>5. DInv'
  <2>1. \A r \in Runs :
        /\ \A s \in Statuses(r)' : \A d \in s.based : bak'[r][d].phase = "completed"
        /\ \A c \in Claims : /\ snap'[r][c].at # Never => st'[r].paused
                             /\ c \in app'.blank => ~snap'[r][c].saved
    BY <1>1, <1>2, <1>3 DEF MInv, DInv
  <2>2. ASSUME NEW r \in All, Window(r)'
        PROVE  DuringPause(r)'
    <3>1. r \in Runs /\ Window(r)
      BY <1>3, <2>2, RunsAssumption
    <3>2. DuringPause(r) /\ ~Used(r)
      BY <1>2, <3>1 DEF MInv, DInv, StopInv
    <3> QED BY <1>1, <3>1, <3>2 DEF DuringPause, Used, Busy
  <2>3. ASSUME NEW r \in All, Past(r)'
        PROVE  \E n \in Nat : AfterPause(r, n)'
    <3>1. r \in Runs
      BY RunsAssumption
    <3>2. PICK n \in Nat : AfterPause(r, n)
      BY <1>1, <1>3, <2>3, <3>1 DEF MInv, DInv
    <3>3. AfterPause(r, n)'
      BY <1>1, <1>2, <1>3, <3>1, <3>2 DEF AfterPause, Moved, Holding, Taken, BackupHolds
    <3> QED BY <3>3
  <2> QED BY <2>1, <2>2, <2>3 DEF DInv
<1> QED BY <1>1, <1>4, <1>5, SurroundMoment

(* A step of VolSync on the source of c. *)
LEMMA SyncMoment ==
    ASSUME PInv, MInv, NEW c \in Claims, UNCHANGED <<st, meta, pass, owner, app, bak, spoilt>>,
           \A b \in Claims : b # c => src'[b] = src[b],
           src'[c].tag = src[c].tag,
           {src'[c].last, src'[c].clone.run} \subseteq
               {src[c].tag, src[c].last, src[c].clone.run, NoRun},
           \A r \in Runs : \A b \in Claims :
               /\ b # c \/ b \in app.blank => snap'[r][b] = snap[r][b]
               /\ snap'[r][b].at # Never => snap'[r][b] = snap[r][b],
           \A r \in All : Window(r) =>
               /\ Busy(c)' => src[c].tag = r
               /\ src'[c].clone.made >= st[r].pausedAt => src'[c].clone.run = r
               /\ src'[c].clone.run = r => src'[c].clone.data = app.starts
               /\ src'[c].last = r /\ snap'[r][c].saved => snap'[r][c].data = app.starts,
           \A r \in All : \A n \in Nat : Taken(r, c, n) => Taken(r, c, n)'
    PROVE  MInv'
<1>1. \A r \in Runs : /\ Statuses(r)' = Statuses(r) /\ Live(r)' = Live(r)
                      /\ Window(r)' = Window(r) /\ Past(r)' = Past(r)
  BY SameStatuses
<1>2. StopInv'
  <2>1. On' => Stopping(pass)'
    <3>1. On' => Stopping(pass)
      BY DEF MInv, StopInv, On
    <3> QED BY <3>1 DEF Stopping, Starts
  <2>2. \A r \in Runs : Used(r)' => Used(r)
    BY RunsAssumption DEF Used
  <2>3. Stopped' = Stopped
    BY DEF Stopped
  <2> QED BY <1>1, <2>1, <2>2, <2>3, RunsAssumption DEF MInv, StopInv
<1>3. DInv'
  <2>1. ASSUME NEW r \in Runs
        PROVE  /\ \A s \in Statuses(r)' : \A d \in s.based : bak'[r][d].phase = "completed"
               /\ \A b \in Claims : /\ snap'[r][b].at # Never => st'[r].paused
                                    /\ b \in app'.blank => ~snap'[r][b].saved
    <3>1. \A b \in Claims : /\ snap[r][b].at # Never => st[r].paused
                            /\ b \in app.blank => ~snap[r][b].saved
      BY DEF MInv, DInv
    <3>2. \A b \in Claims : snap'[r][b].at # Never => st'[r].paused
      BY <3>1
    <3>3. \A b \in Claims : b \in app'.blank => ~snap'[r][b].saved
      BY <3>1
    <3>4. \A s \in Statuses(r) : \A d \in s.based : bak[r][d].phase = "completed"
      BY DEF MInv, DInv
    <3> QED BY <1>1, <3>2, <3>3, <3>4
  <2>2. ASSUME NEW r \in All, Window(r)'
        PROVE  DuringPause(r)'
    <3>1. r \in Runs /\ Window(r) /\ DuringPause(r)
      BY <1>1, <2>2, RunsAssumption DEF MInv, DInv
    <3>2. ASSUME NEW b \in Claims
          PROVE  /\ Busy(b)' => src'[b].tag = r
                 /\ src'[b].clone.made >= st'[r].pausedAt => src'[b].clone.run = r
                 /\ src'[b].clone.run = r => src'[b].clone.data = app'.starts
                 /\ src'[b].last = r /\ snap'[r][b].saved => snap'[r][b].data = app'.starts
      <4>1. CASE b = c
        BY <3>1, <4>1
      <4>2. CASE b # c
        BY <3>1, <4>2 DEF DuringPause, Busy
      <4> QED BY <4>1, <4>2
    <3> QED BY <3>1, <3>2 DEF DuringPause, BackupHolds
  <2>3. ASSUME NEW r \in All, Past(r)'
        PROVE  \E n \in Nat : AfterPause(r, n)'
    <3>1. r \in Runs
      BY RunsAssumption
    <3>2. PICK n \in Nat : AfterPause(r, n)
      BY <1>1, <2>3, <3>1 DEF MInv, DInv
    <3>3. \A b \in Claims : Taken(r, b, n) => Taken(r, b, n)'
      <4> SUFFICES ASSUME NEW b \in Claims, b # c, Taken(r, b, n) PROVE Taken(r, b, n)'
        OBVIOUS
      <4>1. src'[b] = src[b] /\ snap'[r][b] = snap[r][b]
        BY <3>1
      <4> QED BY <4>1 DEF Taken
    <3>4. \A b \in Claims : snap'[r][b].at # Never => Moved(r, b, n)'
      BY <3>1, <3>2 DEF AfterPause, Moved, BackupHolds
    <3>5. \A s \in Statuses(r)' : Holding(r, s, n)'
      BY <1>1, <3>1, <3>2, <3>3 DEF AfterPause, Holding, BackupHolds
    <3>6. AfterPause(r, n)'
      BY <3>4, <3>5 DEF AfterPause
    <3> QED BY <3>6
  <2> QED BY <2>1, <2>2, <2>3 DEF DInv
<1> QED BY <1>2, <1>3, SurroundMoment

(* What the pause of a run says of a source. *)
LEMMA PauseOfSource ==
    ASSUME PInv, MInv, NEW c \in Claims, NEW r \in All, Window(r)
    PROVE  /\ r \in Runs /\ r # NoRun /\ st[r].pausedAt \in Nat \ {0}
           /\ Busy(c) => src[c].tag = r
           /\ src[c].clone.made >= st[r].pausedAt => src[c].clone.run = r
           /\ src[c].clone.run = r => src[c].clone.data = app.starts
           /\ src[c].last = r /\ snap[r][c].saved => snap[r][c].data = app.starts
           /\ src[c].tag = r => Content = app.starts
<1>1. r \in Runs /\ r # NoRun
  BY RunsAssumption
<1>2. st[r].pausedAt \in Nat \ {0}
  <2>1. st[r] \in Status /\ clock \in Nat /\ st[r].pausedAt # Never
    BY <1>1, WindowGives DEF PInv, TypeOK, RunTypes
  <2>2. st[r].pausedAt \in Moments
    BY <2>1 DEF Status
  <2> QED BY <2>1, <2>2 DEF Moments, Never
<1>3. DuringPause(r)
  BY DEF MInv, DInv
<1>4. src[c].tag = r => Content = app.starts
  BY <1>1 DEF MInv, StopInv, Used, Stopped, Content
<1> QED BY <1>1, <1>2, <1>3, <1>4 DEF DuringPause

LEMMA CleanCloneMoment == ASSUME PInv, MInv, NEW c \in Claims, CleanClone(c) PROVE MInv'
<1>1. src \in [Claims -> Source] /\ src[c] \in Source
  BY DEF PInv, TypeOK, DataTypes, Source
<1>2. /\ UNCHANGED <<st, meta, pass, owner, app, bak, snap, spoilt>>
      /\ src' = [src EXCEPT ![c] = [src[c] EXCEPT !.clone = NoClone]]
  BY DEF CleanClone, Sync
<1>3. /\ \A b \in Claims : b # c => src'[b] = src[b]
      /\ src'[c].tag = src[c].tag /\ src'[c].last = src[c].last /\ src'[c].clone = NoClone
  BY <1>1, <1>2 DEF Source
<1>4. NoClone.run = NoRun /\ NoClone.made = 0
  BY DEF NoClone, Never
<1>5. ASSUME NEW r \in All, Window(r)
      PROVE  /\ Busy(c)' => src[c].tag = r
             /\ src'[c].clone.made >= st[r].pausedAt => src'[c].clone.run = r
             /\ src'[c].clone.run = r => src'[c].clone.data = app.starts
             /\ src'[c].last = r /\ snap'[r][c].saved => snap'[r][c].data = app.starts
  BY <1>2, <1>3, <1>4, <1>5, PauseOfSource DEF Busy
<1>6. ASSUME NEW r \in All, NEW n \in Nat, Taken(r, c, n)
      PROVE  Taken(r, c, n)'
  BY <1>2, <1>3, <1>6 DEF Taken, CleanClone
<1> QED BY <1>2, <1>3, <1>4, <1>5, <1>6, SyncMoment

LEMMA CutCloneMoment == ASSUME PInv, MInv, NEW c \in Claims, CutClone(c) PROVE MInv'
<1> DEFINE new == [run |-> src[c].tag, made |-> clock, data |-> Content]
<1>1. src \in [Claims -> Source] /\ src[c] \in Source
  BY DEF PInv, TypeOK, DataTypes, Source
<1>2. /\ UNCHANGED <<st, meta, pass, owner, app, bak, snap, spoilt>> /\ Busy(c) /\ src[c].clone = NoClone
      /\ src' = [src EXCEPT ![c] = [src[c] EXCEPT !.clone = new]]
  BY DEF CutClone, Sync
<1>3. new.run = src[c].tag /\ new.data = Content
  OBVIOUS
<1> HIDE DEF new
<1>4. /\ \A b \in Claims : b # c => src'[b] = src[b]
      /\ src'[c].tag = src[c].tag /\ src'[c].last = src[c].last /\ src'[c].clone = new
  BY <1>1, <1>2 DEF Source
<1>5. ASSUME NEW r \in All, Window(r)
      PROVE  /\ Busy(c)' => src[c].tag = r
             /\ src'[c].clone.made >= st[r].pausedAt => src'[c].clone.run = r
             /\ src'[c].clone.run = r => src'[c].clone.data = app.starts
             /\ src'[c].last = r /\ snap'[r][c].saved => snap'[r][c].data = app.starts
  BY <1>2, <1>3, <1>4, <1>5, PauseOfSource
<1>6. ASSUME NEW r \in All, NEW n \in Nat, Taken(r, c, n)
      PROVE  Taken(r, c, n)'
  <2>1. src[c].clone.run # r
    BY <1>2, RunsAssumption DEF NoClone
  <2> QED BY <1>2, <1>4, <1>6, <2>1 DEF Taken
<1> QED BY <1>2, <1>3, <1>4, <1>5, <1>6, SyncMoment

LEMMA MoverMoment == ASSUME PInv, MInv, NEW c \in Claims, MoverSucceeds(c) PROVE MInv'
<1> DEFINE new == [NoSnap EXCEPT !.saved = TRUE, !.data = src[c].clone.data]
<1>1. src \in [Claims -> Source] /\ src[c] \in Source /\ snap \in [Runs -> SnapsOfRun]
  BY DEF PInv, TypeOK, DataTypes, Source, SnapsOfRun
<1>2. /\ UNCHANGED <<st, meta, pass, owner, app, bak, spoilt>> /\ Busy(c) /\ src[c].clone.run = src[c].tag
      /\ src' = [src EXCEPT ![c] = [src[c] EXCEPT !.last = src[c].tag, !.failed = FALSE]]
      /\ snap' = [snap EXCEPT ![src[c].tag][c] = IF c \in app.blank THEN @ ELSE new]
  BY DEF MoverSucceeds, Sync
<1>3. new.at = Never /\ new.data = src[c].clone.data
  BY DEF NoSnap
<1> HIDE DEF new
<1>4. /\ \A b \in Claims : b # c => src'[b] = src[b]
      /\ src'[c].tag = src[c].tag /\ src'[c].last = src[c].tag /\ src'[c].clone = src[c].clone
  BY <1>1, <1>2 DEF Source
<1>5. \A r \in Runs, b \in Claims :
        snap'[r][b] = IF b = c /\ b \notin app.blank /\ r = src[c].tag THEN new ELSE snap[r][b]
  BY <1>1, <1>2 DEF SnapsOfRun
<1>6. \A r \in Runs : c \in app.blank => ~snap[r][c].saved
  BY DEF MInv, DInv
<1>7. ASSUME NEW r \in All, Window(r)
      PROVE  /\ Busy(c)' => src[c].tag = r
             /\ src'[c].clone.made >= st[r].pausedAt => src'[c].clone.run = r
             /\ src'[c].clone.run = r => src'[c].clone.data = app.starts
             /\ src'[c].last = r /\ snap'[r][c].saved => snap'[r][c].data = app.starts
  <2>1. /\ r \in Runs /\ src[c].tag = r /\ src[c].clone.data = app.starts
        /\ src[c].clone.made >= st[r].pausedAt => src[c].clone.run = r
    BY <1>2, <1>7, PauseOfSource
  <2>2. snap'[r][c].saved => snap'[r][c].data = app.starts
    BY <1>3, <1>5, <1>6, <2>1
  <2> QED BY <1>4, <2>1, <2>2
<1>8. ASSUME NEW r \in All, NEW n \in Nat, Taken(r, c, n)
      PROVE  Taken(r, c, n)'
  <2>1. r \in Runs
    BY RunsAssumption
  <2>2. CASE src[c].tag = r
    <3>1. src[c].clone.data = n
      BY <1>2, <1>8, <2>2 DEF Taken, Busy
    <3>2. snap'[r][c].saved => snap'[r][c].data = n
      BY <1>3, <1>5, <1>6, <2>1, <2>2, <3>1
    <3> QED BY <1>4, <2>2, <3>2 DEF Taken
  <2>3. CASE src[c].tag # r
    BY <1>4, <2>3 DEF Taken
  <2> QED BY <2>2, <2>3
<1>9. \A r \in Runs : \A b \in Claims :
        /\ b # c \/ b \in app.blank => snap'[r][b] = snap[r][b]
        /\ snap'[r][b].at # Never => snap'[r][b] = snap[r][b]
  BY <1>3, <1>5
<1> QED BY <1>2, <1>4, <1>7, <1>8, <1>9, SyncMoment

LEMMA MoverFailsMoment == ASSUME PInv, MInv, NEW c \in Claims, MoverFails(c) PROVE MInv'
<1>1. src \in [Claims -> Source] /\ src[c] \in Source
  BY DEF PInv, TypeOK, DataTypes, Source
<1>2. UNCHANGED <<st, meta, pass, owner, app, bak, snap, spoilt>> /\ src' = [src EXCEPT ![c].failed = TRUE]
  BY DEF MoverFails
<1>3. /\ \A b \in Claims : b # c => src'[b] = src[b]
      /\ src'[c].tag = src[c].tag /\ src'[c].last = src[c].last /\ src'[c].clone = src[c].clone
  BY <1>1, <1>2 DEF Source
<1>4. ASSUME NEW r \in All, Window(r)
      PROVE  /\ Busy(c)' => src[c].tag = r
             /\ src'[c].clone.made >= st[r].pausedAt => src'[c].clone.run = r
             /\ src'[c].clone.run = r => src'[c].clone.data = app.starts
             /\ src'[c].last = r /\ snap'[r][c].saved => snap'[r][c].data = app.starts
  BY <1>2, <1>3, <1>4, PauseOfSource DEF Busy
<1>5. \A r \in All : \A n \in Nat : Taken(r, c, n) => Taken(r, c, n)'
  BY <1>2, <1>3 DEF Taken
<1> QED BY <1>2, <1>3, <1>4, <1>5, SyncMoment

LEMMA BackupEndsMoment ==
    ASSUME PInv, MInv, NEW q \in Runs, NEW e \in Clusters, BackupEnds(q, e)
    PROVE  MInv'
<1>1. /\ UNCHANGED <<st, meta, pass, owner, app, src, snap, spoilt>>
      /\ bak \in [Runs -> BackupsOfRun] /\ bak[q][e].phase = "running"
  BY DEF BackupEnds, PInv, TypeOK, DataTypes, BackupsOfRun
<1>2. /\ \A r \in Runs, d \in Clusters : r # q \/ d # e => bak'[r][d] = bak[r][d]
      /\ bak'[q][e].phase = "completed" => bak'[q][e].data = Content
  BY <1>1 DEF BackupEnds, BackupsOfRun
<1>3. \A r \in Runs, d \in Clusters : bak[r][d].phase = "completed" => bak'[r][d] = bak[r][d]
  BY <1>1, <1>2
<1>4. \A r \in Runs : /\ Statuses(r)' = Statuses(r) /\ Live(r)' = Live(r)
                      /\ Window(r)' = Window(r) /\ Past(r)' = Past(r)
  BY <1>1, SameStatuses
<1>5. StopInv'
  <2>1. On' => Stopping(pass)'
    <3>1. On' => Stopping(pass)
      BY <1>1 DEF MInv, StopInv, On
    <3> QED BY <1>1, <3>1 DEF Stopping, Starts
  <2>2. \A r \in Runs : Used(r)' => Used(r)
    BY <1>1, <1>2 DEF Used
  <2>3. Stopped' = Stopped
    BY <1>1 DEF Stopped
  <2> QED BY <1>1, <1>4, <2>1, <2>2, <2>3, RunsAssumption DEF MInv, StopInv
<1>6. \A r \in Runs : \A s \in Statuses(r) : s.based \subseteq Clusters
  <2>1. \A r \in Runs : \A s \in Statuses(r) : s \in Status
    BY MemType DEF Statuses, PInv, TypeOK, RunTypes
  <2> QED BY <2>1 DEF Status
<1>7. DInv'
  <2>1. ASSUME NEW r \in Runs
        PROVE  /\ \A s \in Statuses(r)' : \A d \in s.based : bak'[r][d].phase = "completed"
               /\ \A b \in Claims : /\ snap'[r][b].at # Never => st'[r].paused
                                    /\ b \in app'.blank => ~snap'[r][b].saved
    <3>1. \A s \in Statuses(r) : \A d \in s.based : bak[r][d].phase = "completed"
      BY DEF MInv, DInv
    <3>2. \A s \in Statuses(r) : \A d \in s.based : bak'[r][d].phase = "completed"
      BY <1>3, <1>6, <3>1
    <3>3. \A b \in Claims : /\ snap[r][b].at # Never => st[r].paused
                            /\ b \in app.blank => ~snap[r][b].saved
      BY DEF MInv, DInv
    <3> QED BY <1>1, <1>4, <3>2, <3>3
  <2>2. ASSUME NEW r \in All, Window(r)'
        PROVE  DuringPause(r)'
    <3>1. r \in Runs /\ Window(r) /\ DuringPause(r)
      BY <1>4, <2>2, RunsAssumption DEF MInv, DInv
    <3>2. r = q => Content = app.starts
      BY <1>1, <3>1 DEF MInv, StopInv, Used, Stopped, Content
    <3>3. \A d \in Clusters : bak'[r][d].phase = "completed" => BackupHolds(r, d, app.starts)'
      BY <1>1, <1>2, <3>1, <3>2 DEF DuringPause, BackupHolds
    <3> QED BY <1>1, <3>1, <3>3 DEF DuringPause, Busy, BackupHolds
  <2>3. ASSUME NEW r \in All, Past(r)'
        PROVE  \E n \in Nat : AfterPause(r, n)'
    <3>1. r \in Runs
      BY RunsAssumption
    <3>2. PICK n \in Nat : AfterPause(r, n)
      BY <1>1, <1>4, <2>3, <3>1 DEF MInv, DInv
    <3>3. \A d \in Clusters : BackupHolds(r, d, n) => BackupHolds(r, d, n)'
      BY <1>3, <3>1 DEF BackupHolds
    <3>4. \A c \in Claims : snap'[r][c].at # Never => Moved(r, c, n)'
      BY <1>1, <3>2, <3>3 DEF AfterPause, Moved
    <3>5. \A s \in Statuses(r)' : Holding(r, s, n)'
      BY <1>1, <1>4, <1>6, <3>1, <3>2, <3>3 DEF AfterPause, Holding, Taken
    <3>6. AfterPause(r, n)'
      BY <3>4, <3>5 DEF AfterPause
    <3> QED BY <3>6
  <2> QED BY <2>1, <2>2, <2>3 DEF DInv
<1> QED BY <1>1, <1>5, <1>7, SurroundMoment
-----------------------------------------------------------------------------
(* The steps of a pass that change its items. *)

LEMMA GoesCovers ==
    ASSUME PInv, CInv, NEW m, Goes(m), Covers(cur, m, Live(cur)), On' => Settled(pass')
    PROVE  CInv'
<1>1. ASSUME NEW r \in Runs, NEW s \in Statuses(r)'
      PROVE  Covers(r, s, Live(r)')
  <2>1. /\ r # cur => s \in Statuses(r)
        /\ r = cur => s \in Statuses(r) \/ s = m
        /\ Live(r)' => Live(r)
    BY <1>1, GoesGives
  <2>2. Covers(r, s, Live(r))
    BY <2>1 DEF CInv
  <2> QED BY <2>1, <2>2, SameKept, KeptCovers
<1> QED BY <1>1 DEF CInv

LEMMA GoesQuiet ==
    ASSUME PInv, NEW m, Goes(m), m.pausedAt = mem.pausedAt, m.resumedAt = mem.resumedAt,
           m.paused = mem.paused
    PROVE  Quiet
<1>1. cur \in Runs /\ st \in [Runs -> Status] /\ Agree
  BY InHandGives DEF Goes, TypeOK, RunTypes
<1>2. \A r \in Runs : st'[r] = st[r] \/ (r = cur /\ st'[r] = m)
  BY <1>1 DEF Goes
<1> QED BY <1>1, <1>2 DEF Quiet, Agree

(* What the data of a run may become while its pass goes on. *)
LEMMA GoesData ==
    ASSUME PInv, DInv, NEW m, Goes(m), Quiet, app' = app, spoilt' = spoilt,
           \A r \in Runs : \A d \in Clusters : bak[r][d].phase = "completed" => bak'[r][d] = bak[r][d],
           m.based \subseteq Clusters, \A d \in m.based : bak'[cur][d].phase = "completed",
           \A r \in Runs : \A c \in Claims :
               /\ snap'[r][c].at # Never => st[r].paused
               /\ c \in app.blank => ~snap'[r][c].saved,
           \A r \in All : Window(r) => DuringPause(r)',
           \A r \in All : \A n \in Nat : Past(r) /\ AfterPause(r, n) =>
               /\ \A c \in Claims : /\ snap'[r][c].at # Never => Moved(r, c, n)'
                                    /\ Taken(r, c, n) => Taken(r, c, n)'
               /\ r = cur => Holding(r, m, n)'
    PROVE  DInv'
<1>1. \A r \in Runs : /\ r # cur => Statuses(r)' \subseteq Statuses(r)
                      /\ r = cur => Statuses(r)' \subseteq Statuses(r) \cup {m}
                      /\ Live(r)' => Live(r)
                      /\ Window(r)' = Window(r) /\ Past(r)' = Past(r) /\ st'[r].paused = st[r].paused
  BY GoesGives DEF Quiet, Window, Past
<1>2. \A r \in Runs : \A s \in Statuses(r) : s.based \subseteq Clusters
  <2>1. \A r \in Runs : \A s \in Statuses(r) : s \in Status
    BY MemType DEF Statuses, PInv, TypeOK, RunTypes
  <2> QED BY <2>1 DEF Status
<1>3. ASSUME NEW r \in Runs
      PROVE  /\ \A s \in Statuses(r)' : \A d \in s.based : bak'[r][d].phase = "completed"
             /\ \A b \in Claims : /\ snap'[r][b].at # Never => st'[r].paused
                                  /\ b \in app'.blank => ~snap'[r][b].saved
  <2>1. \A s \in Statuses(r) : \A d \in s.based : bak[r][d].phase = "completed"
    BY DEF DInv
  <2>2. \A s \in Statuses(r) : \A d \in s.based : bak'[r][d].phase = "completed"
    BY <1>2, <2>1
  <2>3. \A s \in Statuses(r)' : \A d \in s.based : bak'[r][d].phase = "completed"
    BY <1>1, <2>2
  <2>4. \A b \in Claims : snap'[r][b].at # Never => st'[r].paused
    BY <1>1
  <2>5. \A b \in Claims : b \in app'.blank => ~snap'[r][b].saved
    OBVIOUS
  <2> QED BY <2>3, <2>4, <2>5
<1>4. ASSUME NEW r \in All, Window(r)'
      PROVE  DuringPause(r)'
  BY <1>1, <1>4, RunsAssumption
<1>5. ASSUME NEW r \in All, Past(r)'
      PROVE  \E n \in Nat : AfterPause(r, n)'
  <2>1. r \in Runs /\ Past(r)
    BY <1>1, <1>5, RunsAssumption
  <2>2. PICK n \in Nat : AfterPause(r, n)
    BY <2>1 DEF DInv
  <2>3. /\ \A c \in Claims : /\ snap'[r][c].at # Never => Moved(r, c, n)'
                             /\ Taken(r, c, n) => Taken(r, c, n)'
        /\ r = cur => Holding(r, m, n)'
    BY <2>1, <2>2
  <2>4. ASSUME NEW s \in Statuses(r)
        PROVE  Holding(r, s, n)'
    <3>1. Holding(r, s, n) /\ s.based \subseteq Clusters
      BY <1>2, <2>1, <2>2 DEF AfterPause
    <3>2. \A d \in s.based : BackupHolds(r, d, n)'
      BY <2>1, <3>1 DEF Holding, BackupHolds
    <3>3. Live(r)' => \A c \in Claims : s.items[c] = "Running" => Taken(r, c, n)'
      BY <1>1, <2>1, <2>3, <3>1 DEF Holding
    <3> QED BY <3>2, <3>3 DEF Holding
  <2>5. \A s \in Statuses(r)' : Holding(r, s, n)'
    BY <1>1, <2>1, <2>3, <2>4
  <2>6. AfterPause(r, n)'
    BY <2>3, <2>5 DEF AfterPause
  <2> QED BY <2>6
<1> QED BY <1>3, <1>4, <1>5 DEF DInv

(* Nothing is pending once the app is resumed. *)
LEMMA PendingGives ==
    ASSUME PInv, RInv, MInv, At("items"), NEW t \in Pending
    PROVE  /\ On /\ t \in Target(cur) /\ t \in Things /\ mem.items[t] = "Pending" /\ InWork(pass)
           /\ ~(mem.paused /\ mem.resumedAt # Never) /\ Live(cur) /\ Covers(cur, mem, Live(cur))
           /\ cur \in All => mem.pausedAt # Never /\ (mem.paused => Stopped)
<1>1. On /\ t \in Things /\ mem.items[t] = "Pending"
  BY DEF At, On, Pending
<1>2. Stage(pass, meta[cur].state, owner[PauseName], app.replicas) /\ cur \in Runs
      /\ Results(pass, st[cur].saved) /\ PauseInv(cur, mem)
  BY <1>1, ResultsGive
<1>3. InWork(pass) /\ pass.end = ""
  BY <1>2 DEF Stage, InWork, Working, At
<1>4. Live(cur) /\ Covers(cur, mem, Live(cur))
  BY <1>1, <1>2, <1>3 DEF Live, MInv, CInv, Statuses
<1>5. ~(mem.paused /\ mem.resumedAt # Never) /\ t \in Target(cur)
  BY <1>1, <1>4 DEF Covers
<1>6. cur \in All => mem.pausedAt # Never
  BY <1>2 DEF Results, Working, At, cur, mem
<1>7. mem.paused => Stopped
  <2>1. Starts(pass) /\ Stopping(pass)
    BY <1>1 DEF MInv, StopInv, Starts, At, mem
  <2> QED BY <1>5, <2>1 DEF Stopping, Stopped, mem
<1> QED BY <1>1, <1>3, <1>4, <1>5, <1>6, <1>7

(* The start of an item. *)
LEMMA StartMoment ==
    ASSUME PInv, RInv, MInv, At("items"), NEW t \in Pending,
           NEW phase \in {"Failed", "Running", "Skipped"}, SetItem(t, phase),
           UNCHANGED <<st, meta, owner, app, snap, spoilt>>,
           \A r \in Runs : Used(r)' => Used(r) \/ r = cur,
           \A r \in Runs : \A d \in Clusters : bak[r][d].phase = "completed" => bak'[r][d] = bak[r][d],
           \A r \in All : Window(r) => DuringPause(r)',
           \A r \in Runs : \A c \in Claims : \A n \in Nat :
               r # cur /\ Taken(r, c, n) => Taken(r, c, n)'
    PROVE  MInv'
<1>1. /\ On /\ t \in Target(cur) /\ t \in Things /\ mem.items[t] = "Pending" /\ InWork(pass)
      /\ ~(mem.paused /\ mem.resumedAt # Never) /\ Live(cur) /\ Covers(cur, mem, Live(cur))
      /\ cur \in All => mem.pausedAt # Never /\ (mem.paused => Stopped)
  BY PendingGives
<1>2. cur \in Runs /\ mem \in Status /\ Agree /\ ItemInv(cur, mem) /\ TypeOK /\ phase \in ItemPhases
  BY <1>1, ResultsGive DEF ItemPhases
<1> PICK m : m = pass'.mem
  OBVIOUS
<1>3. /\ pass'.pc = pass.pc /\ pass'.run = pass.run /\ pass'.end = pass.end
      /\ m = [mem EXCEPT !.items = m.items] /\ m.items[t] = phase
      /\ \A u \in Things : u # t => m.items[u] = mem.items[u]
  BY <1>1, <1>2, SetItemType DEF SamePass
<1>4. /\ m.saved = mem.saved /\ m.based = mem.based /\ m.pausedAt = mem.pausedAt
      /\ m.resumedAt = mem.resumedAt /\ m.paused = mem.paused
  BY <1>2, <1>3 DEF Status
<1>5. Goes(m) /\ Quiet /\ Lasting
  <2>1. Goes(m)
    BY <1>1, <1>3 DEF Goes, cur
  <2> QED BY <1>4, <2>1, GoesQuiet, SameLasting
<1>6. CInv'
  <2>1. Settled(pass')
    BY <1>3 DEF Settled, At
  <2>2. Claims \subseteq Things /\ Clusters \subseteq Things
    BY DEF Things
  <2>3. \A u \in Things \ Target(cur) : m.items[u] = "None"
    BY <1>1, <1>3 DEF Covers
  <2>4. \A d \in Clusters : m.items[d] = "Succeeded" => mem.items[d] = "Succeeded"
    BY <1>3, <2>2
  <2>5. \A c \in Claims \cap m.saved : m.items[c] # "Running"
    <3> SUFFICES ASSUME NEW c \in Claims, c \in mem.saved
                 PROVE  m.items[c] # "Running"
      BY <1>4
    <3>1. mem.items[c] # "Pending"
      BY <1>2 DEF ItemInv, Items, VolumeItem
    <3>2. mem.items[c] # "Running"
      BY <1>1 DEF Covers
    <3> QED BY <1>1, <1>3, <2>2, <3>1, <3>2
  <2>6. Covers(cur, m, Live(cur))
    BY <1>1, <1>4, <2>3, <2>4, <2>5 DEF Covers
  <2> QED BY <1>5, <2>1, <2>6, GoesCovers DEF MInv
<1>7. HeldInv'
  BY <1>1, <1>3, <1>5, SameHeld DEF MInv, cur
<1>8. StopInv'
  <2>1. Stopping(pass)'
    <3>1. Stopping(pass) /\ Starts(pass)
      BY <1>1 DEF MInv, StopInv, Starts, At, mem
    <3> QED BY <1>3, <1>4, <3>1 DEF Stopping, At, mem
  <2>2. ASSUME NEW r \in All, Used(r)'
        PROVE  st'[r].pausedAt # Never /\ (Window(r)' => Stopped')
    <3>1. r \in Runs /\ Window(r)' = Window(r) /\ Stopped' = Stopped
      BY RunsAssumption DEF Window, Stopped
    <3>2. CASE r = cur
      BY <1>1, <1>2, <3>1, <3>2 DEF Agree, Window
    <3>3. CASE r # cur
      BY <2>2, <3>1, <3>3 DEF MInv, StopInv
    <3> QED BY <3>2, <3>3
  <2> QED BY <2>1, <2>2 DEF StopInv
<1>9. DInv'
  <2>1. \A d \in m.based : bak'[cur][d].phase = "completed"
    <3>1. \A d \in mem.based : bak[cur][d].phase = "completed"
      BY <1>1, <1>2 DEF MInv, DInv, Statuses
    <3> QED BY <1>2, <1>4, <3>1 DEF Status
  <2>2. m.based \subseteq Clusters
    BY <1>2, <1>4 DEF Status
  <2>3. \A r \in Runs : \A c \in Claims :
          /\ snap'[r][c].at # Never => st[r].paused
          /\ c \in app.blank => ~snap'[r][c].saved
    BY DEF MInv, DInv
  <2>4. ASSUME NEW r \in All, NEW n \in Nat, Past(r), AfterPause(r, n)
        PROVE  /\ \A c \in Claims : /\ snap'[r][c].at # Never => Moved(r, c, n)'
                                    /\ Taken(r, c, n) => Taken(r, c, n)'
               /\ r = cur => Holding(r, m, n)'
    <3>1. r \in Runs /\ r # cur
      BY <1>1, <1>2, <2>4, RunsAssumption DEF Agree, Past
    <3>2. \A c \in Claims : snap'[r][c].at # Never => Moved(r, c, n)'
      BY <2>4, <3>1 DEF AfterPause, Moved, BackupHolds
    <3> QED BY <3>1, <3>2
  <2> QED BY <1>5, <2>1, <2>2, <2>3, <2>4, GoesData DEF MInv
<1> QED BY <1>6, <1>7, <1>8, <1>9 DEF MInv

(* The Leases keep another run from starting a volume during a pause. *)
LEMMA StartVolumeMoment == ASSUME PInv, RInv, MInv, NEW c \in Claims, StartVolume(c) PROVE MInv'
<1>1. At("items") /\ c \in Pending /\ UNCHANGED <<st, meta, owner, app, snap, bak, spoilt>>
  BY DEF StartVolume
<1>2. /\ On /\ c \in Target(cur) /\ c \in Things /\ InWork(pass) /\ cur \in Runs /\ src \in [Claims -> Source]
  BY <1>1, PendingGives, ResultsGive DEF TypeOK, DataTypes, Source
<1>3. PICK phase \in {"Failed", "Running"} :
        SetItem(c, phase) /\ (src' = src \/ src' = [src EXCEPT ![c].tag = cur])
  BY DEF StartVolume
<1>4. \A b \in Claims : /\ src'[b].last = src[b].last /\ src'[b].clone = src[b].clone
                        /\ src'[b].tag = src[b].tag \/ (b = c /\ src'[b].tag = cur)
  BY <1>2, <1>3 DEF Source
<1>5. \A r \in Runs : Used(r)' => Used(r) \/ r = cur
  BY <1>1, <1>4 DEF Used
<1>6. ASSUME NEW r \in All, Window(r)
      PROVE  DuringPause(r)'
  <2>1. r = cur
    <3>1. c \in Names /\ c \in LeaseNames(cur)
      BY <1>2 DEF Names, LeaseNames
    <3> QED BY <1>2, <1>6, <3>1 DEF MInv, HeldInv
  <2>2. DuringPause(r)
    BY <1>6 DEF MInv, DInv
  <2>3. \A b \in Claims : Busy(b)' => src'[b].tag = r
    BY <1>4, <2>1, <2>2 DEF DuringPause, Busy
  <2> QED BY <1>1, <1>4, <2>2, <2>3 DEF DuringPause, BackupHolds
<1>7. \A r \in Runs : \A b \in Claims : \A n \in Nat :
        r # cur /\ Taken(r, b, n) => Taken(r, b, n)'
  BY <1>1, <1>4 DEF Taken
<1> QED BY <1>1, <1>3, <1>5, <1>6, <1>7, StartMoment

LEMMA StartDatabaseMoment == ASSUME PInv, RInv, MInv, NEW e \in Clusters, StartDatabase(e) PROVE MInv'
<1>1. At("items") /\ e \in Pending /\ UNCHANGED <<st, meta, owner, app, src, snap, spoilt>>
  BY DEF StartDatabase
<1>2. cur \in Runs /\ bak \in [Runs -> BackupsOfRun]
  BY <1>1, PendingGives, ResultsGive DEF TypeOK, DataTypes, BackupsOfRun
<1>3. PICK phase \in {"Skipped", "Running"} :
        /\ SetItem(e, phase)
        /\ bak' = bak \/ bak' = [bak EXCEPT ![cur][e].phase = IF @ = "none" THEN "running" ELSE @]
  BY DEF StartDatabase
<1>4. \A r \in Runs : \A d \in Clusters :
        \/ bak'[r][d] = bak[r][d]
        \/ r = cur /\ bak[r][d].phase = "none" /\ bak'[r][d].phase = "running"
  BY <1>2, <1>3 DEF BackupsOfRun
<1>5. \A r \in Runs : Used(r)' => Used(r) \/ r = cur
  BY <1>1, <1>4 DEF Used
<1>6. ASSUME NEW r \in All, Window(r)
      PROVE  DuringPause(r)'
  <2>1. DuringPause(r) /\ r \in Runs
    BY <1>6, RunsAssumption DEF MInv, DInv
  <2>2. \A d \in Clusters : bak'[r][d].phase = "completed" => BackupHolds(r, d, app.starts)'
    BY <1>1, <1>4, <2>1 DEF DuringPause, BackupHolds
  <2> QED BY <1>1, <2>1, <2>2 DEF DuringPause, Busy, BackupHolds
<1>7. \A r \in Runs : \A b \in Claims : \A n \in Nat :
        r # cur /\ Taken(r, b, n) => Taken(r, b, n)'
  BY <1>1 DEF Taken
<1>8. \A r \in Runs : \A d \in Clusters : bak[r][d].phase = "completed" => bak'[r][d] = bak[r][d]
  BY <1>4
<1> QED BY <1>1, <1>3, <1>5, <1>6, <1>7, <1>8, StartMoment

LEMMA StartFailsMoment == ASSUME PInv, RInv, MInv, NEW t \in Things, StartFails(t) PROVE MInv'
<1>1. /\ At("items") /\ t \in Pending /\ SetItem(t, "Failed")
      /\ UNCHANGED <<st, meta, owner, app, src, snap, bak, spoilt>>
  BY DEF StartFails, cluster, world
<1>2. \A r \in Runs : Used(r)' => Used(r)
  BY <1>1 DEF Used
<1>3. \A r \in All : Window(r) => DuringPause(r)'
  BY <1>1 DEF MInv, DInv, DuringPause, Busy, BackupHolds
<1>4. \A r \in Runs : \A b \in Claims : \A n \in Nat : Taken(r, b, n) => Taken(r, b, n)'
  BY <1>1 DEF Taken
<1> QED BY <1>1, <1>2, <1>3, <1>4, StartMoment

LEMMA PlanMoment == ASSUME PInv, RInv, MInv, Plan PROVE MInv'
<1> DEFINE k == [mem EXCEPT !.phase = "Queued",
                            !.items = [t \in Things |-> IF t \in Target(cur) THEN "Pending" ELSE "None"]]
<1>1. At("plan") /\ On /\ UNCHANGED <<meta, owner, app, src, snap, bak, spoilt>>
  BY DEF Plan, At, On, world
<1>2. /\ mem \in Status /\ cur \in Runs /\ mem.phase = "" /\ Agree /\ PauseInv(cur, mem)
      /\ Covers(cur, mem, Live(cur))
  BY <1>1, ResultsGive DEF Stage, At, mem, MInv, CInv, Statuses
<1>3. ASSUME NEW m, m = k, WriteStatus(m, Idle)
      PROVE  MInv'
  <2>1. /\ m.saved = mem.saved /\ m.based = mem.based /\ m.pausedAt = mem.pausedAt
        /\ m.resumedAt = mem.resumedAt /\ m.paused = mem.paused /\ m.phase = "Queued"
        /\ \A t \in Things : m.items[t] = IF t \in Target(cur) THEN "Pending" ELSE "None"
    BY <1>2, <1>3 DEF Status
  <2> HIDE DEF k
  <2>2. Goes(m) /\ ~On' /\ Lasting
    BY <1>1, <1>3, <2>1, WriteStopGoes, WriteLasting DEF Finished
  <2>3. Quiet
    BY <2>1, <2>2, GoesQuiet
  <2>4. mem.pausedAt = Never /\ ~mem.paused /\ ~st[cur].paused
    BY <1>2 DEF PauseInv, Agree
  <2>5. Covers(cur, m, Live(cur))
    <3>1. Claims \subseteq Things /\ Clusters \subseteq Things
      BY DEF Things
    <3> QED BY <1>2, <2>1, <2>4, <3>1 DEF Covers
  <2>6. CInv'
    BY <2>2, <2>5, GoesCovers DEF MInv
  <2>7. HeldInv'
    BY <1>1, <2>2, <2>3, SameHeld DEF MInv
  <2>8. StopInv'
    BY <1>1, <2>2, <2>3, SameStop DEF MInv, Stopped
  <2>9. DInv'
    <3>1. m.based \subseteq Clusters /\ \A d \in m.based : bak'[cur][d].phase = "completed"
      <4>1. \A d \in mem.based : bak[cur][d].phase = "completed"
        BY <1>1, <1>2 DEF MInv, DInv, Statuses
      <4>2. mem.based \subseteq Clusters
        BY <1>2 DEF Status
      <4> QED BY <1>1, <2>1, <4>1, <4>2
    <3>2. \A r \in Runs : \A c \in Claims :
            /\ snap'[r][c].at # Never => st[r].paused
            /\ c \in app.blank => ~snap'[r][c].saved
      BY <1>1 DEF MInv, DInv
    <3>3. \A r \in All : Window(r) => DuringPause(r)'
      <4> SUFFICES ASSUME NEW r \in All, Window(r) PROVE DuringPause(r)'
        OBVIOUS
      <4>1. DuringPause(r) /\ st'[r].pausedAt = st[r].pausedAt
        BY <2>3, RunsAssumption DEF MInv, DInv, Quiet
      <4> QED BY <1>1, <4>1 DEF DuringPause, Busy, BackupHolds
    <3>4. ASSUME NEW r \in All, NEW n \in Nat, Past(r), AfterPause(r, n)
          PROVE  /\ \A c \in Claims : /\ snap'[r][c].at # Never => Moved(r, c, n)'
                                      /\ Taken(r, c, n) => Taken(r, c, n)'
                 /\ r = cur => Holding(r, m, n)'
      BY <1>1, <2>4, <3>4 DEF Past, AfterPause, Moved, Taken, BackupHolds
    <3>5. app' = app /\ spoilt' = spoilt /\ \A r \in Runs : \A d \in Clusters :
            bak[r][d].phase = "completed" => bak'[r][d] = bak[r][d]
      BY <1>1
    <3> QED BY <2>2, <2>3, <3>1, <3>2, <3>3, <3>4, <3>5, GoesData DEF MInv
  <2> QED BY <2>6, <2>7, <2>8, <2>9 DEF MInv
<1>4. CASE pass' = [pass EXCEPT !.pc = "release", !.end = "Failed"] /\ UNCHANGED st
  BY <1>1, <1>4, PlanFailsCalm
<1> QED BY <1>3, <1>4 DEF Plan
-----------------------------------------------------------------------------
(* The record of the resume and of the pause. *)

(* A step that stores m leaves the other runs' moments as they are. *)
LEMMA OthersData ==
    ASSUME PInv, MInv, NEW m, Goes(m), st' = [st EXCEPT ![cur] = m], UNCHANGED <<app, src, snap, bak>>,
           \A r \in Runs : r # cur => (r \in spoilt' <=> r \in spoilt),
           m.based = mem.based, m.paused \/ \A c \in Claims : snap[cur][c].at = Never,
           \A r \in All : r = cur => /\ Window(r)' => DuringPause(r)'
                                     /\ Past(r)' => \E n \in Nat : AfterPause(r, n)'
    PROVE  DInv'
<1>1. On /\ cur \in Runs /\ st \in [Runs -> Status] /\ mem \in Status
  BY InHandGives DEF Goes, TypeOK, RunTypes
<1>2. \A r \in Runs : st'[r] = IF r = cur THEN m ELSE st[r]
  BY <1>1
<1>3. \A r \in Runs : /\ r # cur => Statuses(r)' \subseteq Statuses(r)
                      /\ r = cur => Statuses(r)' \subseteq Statuses(r) \cup {m}
                      /\ Live(r)' => Live(r)
  BY GoesGives
<1>4. ASSUME NEW r \in Runs
      PROVE  /\ \A s \in Statuses(r)' : \A d \in s.based : bak'[r][d].phase = "completed"
             /\ \A b \in Claims : /\ snap'[r][b].at # Never => st'[r].paused
                                  /\ b \in app'.blank => ~snap'[r][b].saved
  <2>1. \A s \in Statuses(r) : \A d \in s.based : bak[r][d].phase = "completed"
    BY DEF MInv, DInv
  <2>2. r = cur => mem \in Statuses(r)
    BY <1>1 DEF Statuses
  <2>3. \A s \in Statuses(r)' : \A d \in s.based : bak'[r][d].phase = "completed"
    BY <1>3, <2>1, <2>2
  <2>4. \A b \in Claims : /\ snap[r][b].at # Never => st[r].paused
                          /\ b \in app.blank => ~snap[r][b].saved
    BY DEF MInv, DInv
  <2>5. \A b \in Claims : snap'[r][b].at # Never => st'[r].paused
    BY <1>2, <2>4
  <2> QED BY <2>3, <2>4, <2>5
<1>5. ASSUME NEW r \in All
      PROVE  /\ Window(r)' => DuringPause(r)'
             /\ Past(r)' => \E n \in Nat : AfterPause(r, n)'
  <2>1. r \in Runs
    BY RunsAssumption
  <2>2. CASE r = cur
    BY <1>2, <2>1, <2>2
  <2>3. CASE r # cur
    <3>1. /\ st'[r] = st[r] /\ Window(r)' = Window(r) /\ Past(r)' = Past(r)
          /\ Statuses(r)' \subseteq Statuses(r) /\ (Live(r)' => Live(r))
      BY <1>2, <1>3, <2>1, <2>3 DEF Window, Past
    <3>2. ASSUME Window(r)' PROVE DuringPause(r)'
      <4>1. DuringPause(r)
        BY <3>1, <3>2 DEF MInv, DInv
      <4> QED BY <3>1, <4>1 DEF DuringPause, Busy, BackupHolds
    <3>3. ASSUME NEW n \in Nat, AfterPause(r, n)
          PROVE  AfterPause(r, n)'
      BY <3>1, <3>3 DEF AfterPause, Moved, Holding, Taken, BackupHolds
    <3> QED BY <3>1, <3>2, <3>3 DEF MInv, DInv
  <2> QED BY <2>2, <2>3
<1> QED BY <1>4, <1>5 DEF DInv

(* At the resume, every volume of the run has its clone or its snapshot,   *)
(* and no base backup runs: they hold the app as it is now.                *)
LEMMA RecordResumeMoment ==
    ASSUME PInv, RInv, MInv, RecordResume, UNCHANGED <<meta, owner, app, src, snap, bak, spoilt>>,
           pass.pc \in {"resume", "release"}, mem.resumedAt = Never, mem.pausedAt # Never,
           At("resume") => ClonesCut /\ ~DatabasesRunning
    PROVE  MInv'
<1>1. On
  BY DEF On
<1>2. PICK m : m = [mem EXCEPT !.resumedAt = clock + 1] /\ WriteStatus(m, Step("scaleUp", m))
  BY DEF RecordResume
<1>3. /\ cur \in Runs /\ mem \in Status /\ pass \in Passes /\ Agree /\ PauseInv(cur, mem) /\ TypeOK
      /\ Stage(pass, meta[cur].state, owner[PauseName], app.replicas) /\ StoredInv
  BY <1>1, ResultsGive
<1>4. /\ m.saved = mem.saved /\ m.based = mem.based /\ m.pausedAt = mem.pausedAt
      /\ m.paused = mem.paused /\ m.items = mem.items /\ m.phase = mem.phase
      /\ m.resumedAt # Never
  <2>1. clock + 1 # Never
    BY <1>3 DEF TypeOK, Never
  <2>2. m.resumedAt = clock + 1
    BY <1>2, <1>3 DEF Status
  <2> QED BY <1>2, <1>3, <2>1, <2>2 DEF Status
<1>5. cur \in All /\ mem.paused /\ st[cur].resumedAt = Never /\ (cur \notin spoilt => Window(cur))
  BY <1>3 DEF PauseInv, Agree, Window
<1>6. CASE StopPass /\ UNCHANGED st
  BY <1>1, <1>6, StopCalm, SameLasting
<1>7. CASE st' = [st EXCEPT ![cur] = m] /\ pass' = Step("scaleUp", m)
  <2>1. pass'.pc = "scaleUp" /\ pass'.mem = m /\ pass'.run = cur /\ pass'.end = pass.end /\ On'
    BY <1>3, <1>7 DEF Step, Passes, cur, On
  <2>2. Goes(m)
    BY <1>1, <1>7, <2>1 DEF Goes
  <2>3. \A r \in Runs : st'[r] = IF r = cur THEN m ELSE st[r]
    BY <1>3, <1>7 DEF TypeOK, RunTypes
  <2>4. \A r \in Runs : (Window(r)' => Window(r) /\ r # cur) /\ (r # cur => Alive(r)' = Alive(r))
    BY <1>4, <2>3 DEF Window, Alive
  <2>5. /\ Settled(pass) /\ (Live(cur) => pass.end # "Deleted")
        /\ At("resume") \/ (At("release") /\ pass.end # "")
    BY <1>1, <1>3 DEF MInv, CInv, Stage, Live, At, Ending
  <2>6. Covers(cur, mem, Live(cur))
    BY <1>1, <1>3 DEF MInv, CInv, Statuses
  <2>7. Live(cur) => /\ \A t \in Things : mem.items[t] # "Pending"
                     /\ \A d \in Clusters : mem.items[d] # "Running"
                     /\ At("release") => \A t \in Things : mem.items[t] # "Running"
    <3>1. Clusters \subseteq Things
      BY DEF Things
    <3> QED BY <2>5, <3>1 DEF Settled, Open, At, DatabasesRunning, Running, mem
  <2>8. CInv'
    <3>1. Covers(cur, m, Live(cur))
      BY <1>4, <1>5, <2>6, <2>7 DEF Covers
    <3>2. Settled(pass')
      BY <2>1 DEF Settled
    <3> QED BY <2>2, <3>1, <3>2, GoesCovers DEF MInv
  <2>9. HeldInv'
    <3>1. InWork(pass)' => InWork(pass) /\ cur' = cur
      BY <2>1, <2>5 DEF InWork, Working, Pausing, Resuming, At, cur
    <3>2. InWork(pass)' => \A n \in LeaseNames(cur)' : owner'[n] = cur'
      BY <1>1, <3>1 DEF MInv, HeldInv
    <3>3. \A r \in All : Window(r)' => Alive(r)' /\ \A n \in Names : owner'[n] = r
      BY <2>4, RunsAssumption DEF MInv, HeldInv
    <3> QED BY <3>2, <3>3 DEF HeldInv
  <2>10. StopInv'
    <3>1. Stopping(pass)' /\ Stopped' = Stopped
      BY <2>1 DEF Stopping, Starts, Stopped
    <3>2. \A r \in Runs : Used(r)' = Used(r)
      BY DEF Used
    <3>3. \A r \in Runs : st[r].pausedAt # Never => st'[r].pausedAt # Never
      BY <1>4, <2>3
    <3> QED BY <2>4, <3>1, <3>2, <3>3, RunsAssumption DEF MInv, StopInv
  <2>11. DInv'
    <3>1. ASSUME NEW r \in All, r = cur, Past(r)'
          PROVE  \E n \in Nat : AfterPause(r, n)'
      <4>1. app.starts \in Nat /\ DuringPause(r) /\ r \in Runs
        BY <1>3, <1>5, <3>1 DEF MInv, DInv, Past, TypeOK, AppTypes
      <4>2. \A c \in Claims : snap'[r][c].at = Never
        BY <1>5, <3>1, <4>1, <1>3 DEF StoredInv, Snaps
      <4>3. \A d \in m.based : BackupHolds(r, d, app.starts)
        <5>1. \A d \in mem.based : d \in Clusters /\ bak[r][d].phase = "completed"
          BY <1>1, <1>3, <3>1 DEF MInv, DInv, Statuses, Status
        <5> QED BY <1>4, <4>1, <5>1 DEF DuringPause
      <4>4. ASSUME Live(r), NEW c \in Claims, m.items[c] = "Running"
            PROVE  Taken(r, c, app.starts)
        <5>1. At("resume") /\ c \in Running
          BY <1>4, <2>5, <2>7, <3>1, <4>4 DEF Running, Things
        <5>2. src[c].last = r \/ src[c].clone.made >= st[r].pausedAt
          BY <1>3, <3>1, <5>1 DEF ClonesCut, Agree
        <5> QED BY <4>1, <5>2 DEF Taken, DuringPause
      <4>5. Holding(r, m, app.starts)'
        <5>1. Live(r)' => Live(r)
          BY <2>2, <4>1, GoesGives
        <5>2. \A c \in Claims : Taken(r, c, app.starts) => Taken(r, c, app.starts)'
          BY DEF Taken
        <5>3. Live(r)' => \A c \in Claims : m.items[c] = "Running" => Taken(r, c, app.starts)'
          BY <4>4, <5>1, <5>2
        <5> QED BY <4>3, <5>3 DEF Holding, BackupHolds
      <4>6. Statuses(r)' = {m}
        BY <2>1, <2>3, <3>1, <4>1 DEF Statuses, cur, mem
      <4>7. AfterPause(r, app.starts)'
        BY <4>2, <4>5, <4>6 DEF AfterPause
      <4>8. PICK n \in Nat : n = app.starts /\ n = app'.starts
        BY <4>1
      <4>9. AfterPause(r, n)'
        BY <4>7, <4>8
      <4> QED BY <4>9
    <3>2. \A r \in All : r = cur => ~Window(r)'
      BY <2>4, RunsAssumption
    <3> QED BY <1>4, <1>5, <1>7, <2>2, <3>1, <3>2, OthersData
  <2> QED BY <2>8, <2>9, <2>10, <2>11 DEF MInv
<1> QED BY <1>2, <1>6, <1>7 DEF WriteStatus

LEMMA ResumeMoment == ASSUME PInv, RInv, MInv, Resume \/ Release PROVE MInv'
<1>1. CASE ~RecordResume
  BY <1>1, ResumeCalm
<1>2. CASE RecordResume
  <2>1. UNCHANGED <<meta, owner, app, src, snap, bak, spoilt>> /\ pass.pc \in {"resume", "release"}
    BY DEF Resume, Release, At, world
  <2>2. mem.resumedAt = Never /\ mem.pausedAt # Never /\ (At("resume") => ClonesCut /\ ~DatabasesRunning)
    <3>1. clock' # clock
      BY <1>2 DEF RecordResume, PInv, TypeOK
    <3>2. CASE Resume
      <4>1. mem.pausedAt # Never
        <5>1. On
          BY <3>2 DEF Resume, At, On
        <5> QED BY <3>2, <5>1, ResultsGive DEF Stage, Resume, At, mem
      <4> QED BY <3>1, <3>2, <4>1 DEF Resume
    <3>3. CASE Release
      BY <3>1, <3>3 DEF Release, At
    <3> QED BY <3>2, <3>3
  <2> QED BY <1>2, <2>1, <2>2, RecordResumeMoment
<1> QED BY <1>1, <1>2

LEMMA PauseMoment == ASSUME PInv, RInv, MInv, Pause PROVE MInv'
<1>1. /\ On /\ At("pause") /\ UNCHANGED <<meta, owner, app, src, snap, bak>>
      /\ spoilt \subseteq spoilt' /\ spoilt' \subseteq spoilt \cup {cur}
  BY PauseGives
<1>2. CASE StopPass /\ UNCHANGED st
  BY <1>1, <1>2, PauseWaits
<1>3. /\ cur \in Runs /\ cur \in All /\ mem \in Status /\ pass \in Passes /\ Agree /\ PauseInv(cur, mem)
      /\ TypeOK /\ StoredInv /\ mem.pausedAt = Never /\ InWork(pass) /\ mem.phase = "Running"
      /\ meta[cur].state # "gone"
  <2>1. Stage(pass, meta[cur].state, owner[PauseName], app.replicas) /\ InWork(pass)
    BY <1>1, ResultsGive DEF InWork, Working, At
  <2>2. cur \in All /\ mem.pausedAt = Never /\ mem.phase = "Running"
    BY <1>1, <2>1 DEF Stage, At, cur, mem
  <2> QED BY <1>1, <2>1, <2>2, ResultsGive, InHandGives
<1>4. mem.resumedAt = Never /\ ~mem.paused /\ st[cur].resumedAt = Never /\ st[cur].pausedAt = Never
      /\ ~Used(cur)
  BY <1>3 DEF PauseInv, Agree, MInv, StopInv
<1>5. CASE \E m : /\ m = [mem EXCEPT !.pausedAt = clock + 1,
                                     !.resumedAt = IF app.marked THEN Never ELSE clock + 1,
                                     !.paused = app.marked,
                                     !.replicas = IF app.marked THEN app.replicas ELSE 0,
                                     !.suspends = app.marked /\ ~app.suspended]
                  /\ st' = [st EXCEPT ![cur] = m]
                  /\ pass' = [pass EXCEPT !.pc = "suspend", !.mem = m, !.pausing = TRUE]
  <2>1. PICK m : /\ m = [mem EXCEPT !.pausedAt = clock + 1,
                                    !.resumedAt = IF app.marked THEN Never ELSE clock + 1,
                                    !.paused = app.marked,
                                    !.replicas = IF app.marked THEN app.replicas ELSE 0,
                                    !.suspends = app.marked /\ ~app.suspended]
                 /\ st' = [st EXCEPT ![cur] = m]
                 /\ pass' = [pass EXCEPT !.pc = "suspend", !.mem = m, !.pausing = TRUE]
    BY <1>5
  <2>2. /\ m.saved = mem.saved /\ m.based = mem.based /\ m.items = mem.items /\ m.phase = mem.phase
        /\ m.pausedAt = clock + 1 /\ m.paused = app.marked /\ (m.paused => m.resumedAt = Never)
    BY <1>3, <2>1 DEF Status
  <2>3. clock \in Nat /\ m.pausedAt # Never
    BY <1>3, <2>2 DEF TypeOK, Never
  <2>4. pass'.pc = "suspend" /\ pass'.mem = m /\ pass'.run = cur /\ pass'.end = pass.end /\ On'
    BY <1>3, <2>1 DEF Passes, cur, On
  <2>5. Goes(m)
    BY <1>1, <2>1, <2>4 DEF Goes
  <2>6. \A r \in Runs : st'[r] = IF r = cur THEN m ELSE st[r]
    BY <1>3, <2>1 DEF TypeOK, RunTypes
  <2>7. \A r \in Runs : r # cur => Window(r)' = Window(r) /\ Alive(r)' = Alive(r)
    BY <1>1, <2>6 DEF Window, Alive
  <2>8. CInv'
    <3>1. Covers(cur, mem, Live(cur))
      BY <1>1, <1>3 DEF MInv, CInv, Statuses
    <3>2. m.based = {} /\ \A c \in Claims \cap m.saved : m.items[c] # "Running"
      BY <1>4, <2>2, <3>1 DEF Covers
    <3>3. Covers(cur, m, Live(cur))
      <4>1. \A t \in Things \ Target(cur) : m.items[t] = "None"
        BY <2>2, <3>1 DEF Covers
      <4>2. \A d \in Clusters : m.items[d] = "Succeeded" => d \in m.based
        BY <1>3, <2>2, <3>1 DEF Covers
      <4> QED BY <2>2, <3>2, <4>1, <4>2 DEF Covers
    <3>4. Settled(pass')
      BY <2>4 DEF Settled
    <3> QED BY <2>5, <3>3, <3>4, GoesCovers DEF MInv
  <2>9. HeldInv'
    <3>1. \A n \in LeaseNames(cur) : owner[n] = cur
      BY <1>1, <1>3 DEF MInv, HeldInv
    <3>2. InWork(pass)' => \A n \in LeaseNames(cur)' : owner'[n] = cur'
      BY <1>1, <2>4, <3>1 DEF cur
    <3>3. ASSUME NEW r \in All, Window(r)'
          PROVE  Alive(r)' /\ \A n \in Names : owner'[n] = r
      <4>1. CASE r = cur
        <5>1. Names = LeaseNames(cur)
          BY <1>3 DEF Names, LeaseNames, Target
        <5>2. Alive(r)'
          BY <1>1, <1>3, <2>2, <2>6, <4>1 DEF Alive, Finished
        <5> QED BY <1>1, <3>1, <4>1, <5>1, <5>2
      <4>2. CASE r # cur
        BY <1>1, <2>7, <3>3, <4>2, RunsAssumption DEF MInv, HeldInv
      <4> QED BY <4>1, <4>2
    <3> QED BY <3>2, <3>3 DEF HeldInv
  <2>10. StopInv'
    <3>1. Stopping(pass)' /\ Stopped' = Stopped
      BY <1>1, <2>4 DEF Stopping, Starts, Stopped
    <3>2. \A r \in Runs : Used(r)' = Used(r)
      BY <1>1 DEF Used
    <3>3. ASSUME NEW r \in All, Used(r)'
          PROVE  st'[r].pausedAt # Never /\ (Window(r)' => Stopped')
      BY <1>4, <2>6, <2>7, <3>1, <3>2, <3>3, RunsAssumption DEF MInv, StopInv
    <3> QED BY <3>1, <3>3 DEF StopInv
  <2>11. DInv'
    <3>1. \A c \in Claims : snap[cur][c].at = Never
      BY <1>3, <1>4 DEF StoredInv, Snaps
    <3>2. ASSUME NEW r \in All, r = cur
          PROVE  /\ Window(r)' => DuringPause(r)'
                 /\ ~Past(r)'
      <4> SUFFICES ASSUME Window(r)' PROVE DuringPause(r)'
        BY <1>3, <2>2, <2>6, <3>2 DEF Past
      <4>1. r \in Runs /\ ~Used(r) /\ r \notin spoilt'
        BY <1>3, <1>4, <3>2 DEF Window
      <4>2. ASSUME NEW c \in Claims
            PROVE  /\ Busy(c)' => src'[c].tag = r
                   /\ src'[c].clone.made >= st'[r].pausedAt => src'[c].clone.run = r
        <5>1. src[c].clone.made \in Nat /\ src[c].clone.made <= clock
          <6>1. src[c] \in Source
            BY <1>3 DEF TypeOK, DataTypes, Source
          <6>2. src[c].clone.made \in Moments
            BY <6>1 DEF Source
          <6> QED BY <2>3, <6>2 DEF Moments
        <5>2. st'[r].pausedAt = clock + 1
          BY <2>2, <2>6, <3>2, <4>1
        <5>3. Busy(c) => src[c].tag = r
          <6>1. st' # st
            BY <1>3, <1>4, <2>3, <2>6
          <6> QED BY <3>2, <4>1, <6>1, PauseGives
        <5> QED BY <1>1, <2>3, <5>1, <5>2, <5>3 DEF Busy
      <4>3. \A c \in Claims : src'[c].clone.run # r /\ src'[c].last # r
        BY <1>1, <4>1 DEF Used
      <4>4. \A d \in Clusters : bak'[r][d].phase # "completed"
        BY <1>1, <4>1 DEF Used
      <4> QED BY <4>2, <4>3, <4>4 DEF DuringPause
    <3>3. st' = [st EXCEPT ![cur] = m] /\ m.based = mem.based /\ UNCHANGED <<app, src, snap, bak>>
      BY <1>1, <2>1, <2>2
    <3> QED BY <1>1, <2>5, <3>1, <3>2, <3>3, OthersData
  <2> QED BY <2>8, <2>9, <2>10, <2>11 DEF MInv
<1> QED BY <1>2, <1>5 DEF Pause, WriteStatus
-----------------------------------------------------------------------------
(* The collection. *)

(* What collectItem marks and moves. *)
Marked(m) ==
    /\ mem.based \subseteq m.based /\ m.based \subseteq Clusters
    /\ \A d \in Clusters :
         /\ d \in m.based \ mem.based =>
              Retimed /\ mem.resumedAt = Never /\ bak[cur][d].phase = "completed"
         /\ m.items[d] = "Succeeded" /\ mem.items[d] # "Succeeded" /\ Retimed /\ mem.resumedAt = Never =>
              d \in m.based
    /\ \A c \in Claims :
         /\ c \in m.saved \ mem.saved /\ m.items[c] = "Running" =>
              Retimed /\ ~DatabaseFailed /\ mem.resumedAt # Never
         /\ \/ snap'[cur][c] = snap[cur][c]
            \/ /\ c \in mem.saved /\ mem.items[c] = "Running" /\ src[c].last = cur
               /\ snap'[cur][c] = Retime(c)

LEMMA CollectMarks == ASSUME TypeOK, cur \in Runs, Collect PROVE Marked(pass'.mem)
<1>1. PICK read \in SUBSET Running :
      LET found == Synced \cap read
          move == Retimed /\ ~DatabaseFailed
          moved == found \cap mem.saved
          none == {c \in found \ mem.saved : c \in app.blank \/ snap[cur][c].at # Never}
          done == IF move THEN none \cup moved ELSE found
          broken == {c \in Claims \cap read : src[c].last # cur /\ src[c].failed}
          complete == {d \in Clusters \cap read : bak[cur][d].phase = "completed"}
          failed == {d \in Clusters \cap read : bak[cur][d].phase = "failed"}
      IN /\ GotoWith("write",
              [mem EXCEPT !.items = [t \in Things |->
                             CASE t \in done \cup complete -> "Succeeded"
                               [] t \in broken \cup failed -> "Failed"
                               [] OTHER -> mem.items[t]],
                          !.saved = @ \cup (found \ none),
                          !.based = @ \cup IF Retimed /\ mem.resumedAt = Never THEN complete ELSE {}])
         /\ snap' = [snap EXCEPT ![cur] = [c \in Claims |-> IF c \in moved THEN Retime(c) ELSE @[c]]]
  BY DEF Collect
<1> DEFINE found == Synced \cap read
           moved == found \cap mem.saved
           none == {c \in found \ mem.saved : c \in app.blank \/ snap[cur][c].at # Never}
           done == IF Retimed /\ ~DatabaseFailed THEN none \cup moved ELSE found
           broken == {c \in Claims \cap read : src[c].last # cur /\ src[c].failed}
           complete == {d \in Clusters \cap read : bak[cur][d].phase = "completed"}
           failed == {d \in Clusters \cap read : bak[cur][d].phase = "failed"}
           items == [t \in Things |-> CASE t \in done \cup complete -> "Succeeded"
                                        [] t \in broken \cup failed -> "Failed"
                                        [] OTHER -> mem.items[t]]
           saved == mem.saved \cup (found \ none)
           based == mem.based \cup IF Retimed /\ mem.resumedAt = Never THEN complete ELSE {}
           m == [mem EXCEPT !.items = items, !.saved = saved, !.based = based]
           row == [c \in Claims |-> IF c \in moved THEN Retime(c) ELSE snap[cur][c]]
<1>2. pass' = Step("write", m) /\ snap' = [snap EXCEPT ![cur] = row]
  BY <1>1 DEF GotoWith
<1>3. mem \in Status /\ pass \in Passes /\ snap \in [Runs -> SnapsOfRun]
  BY MemType DEF TypeOK, DataTypes, SnapsOfRun
<1>4. /\ found \subseteq Claims /\ found \subseteq Synced /\ moved \subseteq found \cap mem.saved
      /\ \A c \in found : src[c].last = cur /\ mem.items[c] = "Running"
      /\ complete \subseteq Clusters /\ failed \subseteq Clusters /\ broken \subseteq Claims
      /\ \A d \in complete : bak[cur][d].phase = "completed"
      /\ done \subseteq found /\ ((Retimed /\ ~DatabaseFailed) \/ done = found)
  BY DEF Synced, Running
<1>5. row = [c \in Claims |-> IF c \in moved THEN Retime(c) ELSE snap[cur][c]] /\ snap'[cur] = row
  BY <1>2, <1>3
<1>6. (done \cup complete) \cap (broken \cup failed) = {}
  <2>1. done \cap broken = {} /\ complete \cap failed = {}
    BY <1>4
  <2> QED BY <1>4, <2>1, ThingsAssumption
<1> HIDE DEF found, moved, none, done, broken, complete, failed
<1>7. \A t \in Things :
        /\ t \in done \cup complete => items[t] = "Succeeded"
        /\ t \in broken \cup failed => items[t] = "Failed"
        /\ t \notin done \cup complete \cup broken \cup failed => items[t] = mem.items[t]
  BY <1>6
<1>8. /\ \A c \in Claims : c \in saved \ mem.saved => c \in found
      /\ mem.based \subseteq based
      /\ \A d \in based \ mem.based : d \in complete /\ Retimed /\ mem.resumedAt = Never
      /\ Retimed /\ mem.resumedAt = Never => complete \subseteq based
  OBVIOUS
<1> HIDE DEF items, saved, based
<1>9. m.items = items /\ m.saved = saved /\ m.based = based /\ pass'.mem = m
  BY <1>2, <1>3 DEF Status, Step, Passes
<1> HIDE DEF m, row
<1>10. based \subseteq Clusters
  BY <1>3, <1>4, <1>8 DEF Status
<1>11. ASSUME NEW d \in Clusters
       PROVE  /\ d \in based \ mem.based =>
                   Retimed /\ mem.resumedAt = Never /\ bak[cur][d].phase = "completed"
              /\ items[d] = "Succeeded" /\ mem.items[d] # "Succeeded" /\ Retimed /\ mem.resumedAt = Never =>
                   d \in based
  <2>1. d \in Things /\ d \notin done
    BY <1>4, ThingsAssumption DEF Things
  <2> QED BY <1>4, <1>7, <1>8, <2>1
<1>12. ASSUME NEW c \in Claims, c \in saved \ mem.saved, items[c] = "Running"
       PROVE  Retimed /\ ~DatabaseFailed /\ mem.resumedAt # Never
  <2>1. c \in found /\ c \in Things
    BY <1>8, <1>12 DEF Things
  <2>2. c \notin done
    BY <1>7, <1>12, <2>1
  <2> QED BY <1>4, <2>1, <2>2 DEF Synced
<1>13. ASSUME NEW c \in Claims
       PROVE  \/ snap'[cur][c] = snap[cur][c]
              \/ /\ c \in mem.saved /\ mem.items[c] = "Running" /\ src[c].last = cur
                 /\ snap'[cur][c] = Retime(c)
  BY <1>4, <1>5
<1> QED BY <1>8, <1>9, <1>10, <1>11, <1>12, <1>13 DEF Marked

(* A moved snapshot holds what the base backups hold. *)
LEMMA CollectMoment == ASSUME PInv, RInv, MInv, Collect PROVE MInv'
<1>1. On /\ At("collect") /\ UNCHANGED <<st, meta, owner, app, src, bak, spoilt>>
  BY DEF Collect, At, On
<1>2. /\ cur \in Runs /\ mem \in Status /\ Agree /\ PauseInv(cur, mem) /\ ItemInv(cur, mem) /\ TypeOK
      /\ InWork(pass) /\ pass.end = "" /\ mem.phase = "Running"
      /\ cur \in All => mem.pausedAt # Never
  <2>1. /\ Stage(pass, meta[cur].state, owner[PauseName], app.replicas) /\ InWork(pass)
        /\ Results(pass, st[cur].saved)
    BY <1>1, ResultsGive DEF InWork, Working, At
  <2>2. pass.end = "" /\ mem.phase = "Running" /\ (cur \in All => mem.pausedAt # Never)
    BY <1>1, <2>1 DEF Stage, Working, Results, At, mem, cur
  <2> QED BY <1>1, <2>1, <2>2, ResultsGive
<1>3. Live(cur) /\ Covers(cur, mem, TRUE)
  <2>1. Live(cur) /\ Covers(cur, mem, Live(cur))
    BY <1>1, <1>2 DEF Live, MInv, CInv, Statuses
  <2> QED BY <2>1 DEF Covers
<1> PICK m : m = pass'.mem
  OBVIOUS
<1>4. /\ pass'.pc = "write" /\ pass'.run = cur /\ pass'.end = pass.end
      /\ m.pausedAt = mem.pausedAt /\ m.resumedAt = mem.resumedAt /\ m.paused = mem.paused
      /\ \A r \in Runs : r # cur => snap'[r] = snap[r]
      /\ mem.saved \subseteq m.saved
  BY <1>2, CollectGives DEF SamePass, SamePause, cur
<1>5. Collected(m) /\ Marked(m)
  BY <1>2, CollectGives, CollectMarks
<1>6. Goes(m) /\ Quiet /\ Lasting
  <2>1. Goes(m)
    BY <1>1, <1>4 DEF Goes
  <2> QED BY <1>1, <1>4, <2>1, GoesQuiet, SameLasting
<1>7. /\ \A t \in Things : m.items[t] # mem.items[t] =>
           mem.items[t] = "Running" /\ m.items[t] \in {"Succeeded", "Failed"}
      /\ Claims \subseteq Things /\ Clusters \subseteq Things
  BY <1>5 DEF Collected, Things
<1>8. mem.paused /\ mem.resumedAt # Never =>
        \A d \in Clusters : m.items[d] = mem.items[d] /\ m.items[d] # "Running"
  BY <1>3, <1>7 DEF Covers
<1>9. CInv'
  <2>1. \A t \in Things \ Target(cur) : m.items[t] = "None"
    BY <1>3, <1>7 DEF Covers
  <2>2. cur \in All /\ (m.pausedAt = Never \/ m.paused) =>
          \A d \in Clusters : m.items[d] = "Succeeded" => d \in m.based
    <3> SUFFICES ASSUME cur \in All, m.paused, NEW d \in Clusters, m.items[d] = "Succeeded"
                 PROVE  d \in m.based
      BY <1>2, <1>4
    <3>1. CASE mem.items[d] = "Succeeded"
      BY <1>3, <1>4, <1>5, <3>1 DEF Covers, Marked
    <3>2. CASE mem.items[d] # "Succeeded"
      BY <1>4, <1>5, <1>8, <3>2 DEF Marked, Retimed
    <3> QED BY <3>1, <3>2
  <2>3. m.based # {} => m.paused
    BY <1>3, <1>4, <1>5 DEF Covers, Marked, Retimed
  <2>4. ASSUME NEW c \in Claims \cap m.saved, m.items[c] = "Running"
        PROVE  m.paused /\ m.resumedAt # Never /\ ~DatabaseLost(m)
    <3>1. mem.items[c] = "Running"
      BY <1>7, <2>4
    <3>2. mem.paused /\ mem.resumedAt # Never /\ ~DatabaseLost(mem)
      <4>1. CASE c \in mem.saved
        BY <1>3, <3>1, <4>1 DEF Covers
      <4>2. CASE c \notin mem.saved
        BY <1>5, <2>4, <4>2 DEF Marked, Retimed, DatabaseFailed, DatabaseLost
      <4> QED BY <4>1, <4>2
    <3> QED BY <1>4, <1>8, <3>2 DEF DatabaseLost
  <2>5. m.paused /\ m.resumedAt # Never =>
          /\ \A t \in Things : m.items[t] # "Pending"
          /\ \A d \in Clusters : m.items[d] # "Running"
    BY <1>3, <1>4, <1>7, <1>8 DEF Covers
  <2>6. Covers(cur, m, Live(cur))
    BY <2>1, <2>2, <2>3, <2>4, <2>5 DEF Covers
  <2>7. Settled(pass')
    BY <1>4 DEF Settled
  <2> QED BY <1>6, <2>6, <2>7, GoesCovers DEF MInv
<1>10. HeldInv'
  BY <1>1, <1>2, <1>4, <1>6, SameHeld DEF MInv
<1>11. StopInv'
  <2>1. Stopping(pass)' /\ Stopped' = Stopped
    BY <1>1, <1>4 DEF Stopping, Starts, Stopped
  <2> QED BY <1>1, <1>6, <2>1, SameStop DEF MInv
<1>12. DInv'
  <2>1. \A c \in Claims : \/ snap'[cur][c] = snap[cur][c]
                          \/ /\ c \in mem.saved /\ mem.items[c] = "Running" /\ src[c].last = cur
                             /\ snap'[cur][c] = Retime(c)
                             /\ mem.paused /\ mem.resumedAt # Never /\ ~DatabaseLost(mem)
    BY <1>3, <1>5 DEF Marked, Covers
  <2>2. ASSUME NEW c \in Claims
        PROVE  /\ snap'[cur][c].saved = snap[cur][c].saved /\ snap'[cur][c].data = snap[cur][c].data
               /\ snap'[cur][c].at # Never => \/ snap[cur][c].at # Never /\ snap'[cur][c].bases = snap[cur][c].bases
                                              \/ /\ snap'[cur][c].bases = BaseBackupTags
                                                 /\ c \in mem.saved /\ mem.items[c] = "Running"
                                                 /\ src[c].last = cur /\ mem.paused
                                                 /\ mem.resumedAt # Never /\ ~DatabaseLost(mem)
    <3>1. snap[cur][c] \in [data : Contents, at : Moments, bases : SUBSET Clusters, saved : BOOLEAN]
      BY <1>2 DEF TypeOK, DataTypes
    <3>2. /\ Retime(c).saved = snap[cur][c].saved /\ Retime(c).data = snap[cur][c].data
          /\ Retime(c).bases = IF snap[cur][c].at = Never THEN BaseBackupTags ELSE snap[cur][c].bases
      BY <3>1 DEF Retime
    <3> QED BY <2>1, <3>2
  <2>3. m.based \subseteq Clusters /\ \A d \in m.based : bak'[cur][d].phase = "completed"
    <3>1. \A d \in mem.based : bak[cur][d].phase = "completed"
      BY <1>1, <1>2 DEF MInv, DInv, Statuses
    <3> QED BY <1>1, <1>5, <3>1 DEF Marked
  <2>4. ASSUME NEW r \in Runs, NEW c \in Claims
        PROVE  /\ snap'[r][c].at # Never => st[r].paused
               /\ c \in app.blank => ~snap'[r][c].saved
    <3>1. /\ snap[r][c].at # Never => st[r].paused
          /\ c \in app.blank => ~snap[r][c].saved
      BY DEF MInv, DInv
    <3>2. CASE r = cur
      <4>1. snap'[r][c].at # Never => st[r].paused
        BY <1>2, <2>2, <3>1, <3>2 DEF Agree
      <4>2. c \in app.blank => ~snap'[r][c].saved
        BY <2>2, <3>1, <3>2
      <4> QED BY <4>1, <4>2
    <3> QED BY <1>4, <3>1, <3>2
  <2>5. ASSUME NEW r \in All, Window(r)
        PROVE  DuringPause(r)'
    <3>1. DuringPause(r) /\ r \in Runs
      BY <2>5, RunsAssumption DEF MInv, DInv
    <3>2. \A c \in Claims : snap'[r][c].saved = snap[r][c].saved /\ snap'[r][c].data = snap[r][c].data
      BY <1>4, <2>2, <3>1
    <3> QED BY <1>1, <3>1, <3>2 DEF DuringPause, Busy, BackupHolds
  <2>6. ASSUME NEW r \in All, NEW n \in Nat, Past(r), AfterPause(r, n)
        PROVE  /\ \A c \in Claims : /\ snap'[r][c].at # Never => Moved(r, c, n)'
                                    /\ Taken(r, c, n) => Taken(r, c, n)'
               /\ r = cur => Holding(r, m, n)'
    <3>1. r \in Runs
      BY RunsAssumption
    <3>2. \A c \in Claims : snap'[r][c].saved = snap[r][c].saved /\ snap'[r][c].data = snap[r][c].data
      BY <1>4, <2>2, <3>1
    <3>3. \A c \in Claims : Taken(r, c, n) => Taken(r, c, n)'
      BY <1>1, <3>2 DEF Taken
    <3>4. ASSUME r = cur
          PROVE  mem.paused /\ mem.resumedAt # Never /\ Holding(r, mem, n)
      BY <1>1, <1>2, <2>6, <3>4 DEF Agree, Past, AfterPause, Statuses
    <3>5. ASSUME NEW c \in Claims, snap'[r][c].at # Never
          PROVE  Moved(r, c, n)'
      <4>1. CASE snap[r][c].at # Never /\ snap'[r][c].bases = snap[r][c].bases
        BY <1>1, <2>6, <3>2, <4>1 DEF AfterPause, Moved, BackupHolds
      <4>2. CASE r = cur /\ /\ snap'[r][c].bases = BaseBackupTags
                            /\ c \in mem.saved /\ mem.items[c] = "Running"
                            /\ src[c].last = cur /\ ~DatabaseLost(mem)
        <5>1. snap[r][c].data = n
          <6>1. Taken(r, c, n)
            BY <1>3, <3>4, <4>2 DEF Holding
          <6>2. snap[r][c].saved
            BY <1>2, <4>2 DEF ItemInv, Items, VolumeItem
          <6> QED BY <4>2, <6>1, <6>2 DEF Taken
        <5>2. ASSUME NEW d \in Clusters
              PROVE  d \in BaseBackupTags /\ (d \in app.asleep \/ BackupHolds(r, d, n))
          <6>1. mem.items[d] \in ItemPhases
            BY <1>2, <1>7 DEF Status
          <6>2. mem.items[d] \notin {"Pending", "Running", "Failed"}
            BY <1>3, <1>7, <3>4, <4>2 DEF Covers, DatabaseLost
          <6>3. mem.items[d] # "None"
            BY <1>2, <1>7, <4>2 DEF ItemInv, Items, PhaseOfItems, Target
          <6>4. CASE mem.items[d] = "Succeeded"
            <7>1. d \in mem.based
              BY <1>3, <3>4, <4>2, <6>4 DEF Covers
            <7> QED BY <3>4, <4>2, <6>4, <7>1 DEF Holding, BaseBackupTags
          <6>5. CASE mem.items[d] = "Skipped"
            BY <1>2, <6>5 DEF ItemInv, Items, DatabaseItem, BaseBackupTags
          <6> QED BY <6>1, <6>2, <6>3, <6>4, <6>5 DEF ItemPhases
        <5> QED BY <1>1, <3>2, <4>2, <5>1, <5>2 DEF Moved, BackupHolds
      <4>3. r # cur => snap'[r][c] = snap[r][c]
        BY <1>4, <3>1
      <4> QED BY <2>2, <3>5, <4>1, <4>2, <4>3
    <3>6. ASSUME r = cur PROVE Holding(r, m, n)'
      <4>1. m.based = mem.based
        BY <1>5, <3>4, <3>6 DEF Marked
      <4>2. \A c \in Claims : m.items[c] = "Running" => mem.items[c] = "Running"
        BY <1>7
      <4>3. \A c \in Claims : m.items[c] = "Running" => Taken(r, c, n)'
        BY <1>3, <3>3, <3>4, <3>6, <4>2 DEF Holding
      <4>4. \A d \in m.based : BackupHolds(r, d, n)'
        BY <1>1, <3>4, <3>6, <4>1 DEF Holding, BackupHolds
      <4> QED BY <4>3, <4>4 DEF Holding
    <3> QED BY <3>3, <3>5, <3>6
  <2>7. app' = app /\ spoilt' = spoilt /\ \A r \in Runs : \A d \in Clusters :
          bak[r][d].phase = "completed" => bak'[r][d] = bak[r][d]
    BY <1>1
  <2> QED BY <1>6, <2>3, <2>4, <2>5, <2>6, <2>7, GoesData DEF MInv
<1> QED BY <1>9, <1>10, <1>11, <1>12 DEF MInv
-----------------------------------------------------------------------------
LEMMA MInvInit == Init => MInv
<1> SUFFICES ASSUME Init PROVE MInv
  OBVIOUS
<1>1. ~On
  BY DEF Init, Idle, On
<1>2. /\ \A r \in Runs : st[r] = Empty /\ Statuses(r) = {Empty}
      /\ Empty.based = {} /\ ~Empty.paused /\ Empty.saved = {}
      /\ \A t \in Things : Empty.items[t] = "None"
  BY <1>1 DEF Init, Statuses, Empty
<1>3. \A r \in Runs : ~Window(r) /\ ~st[r].paused
  BY <1>2 DEF Window
<1>4. \A r \in Runs : ~Used(r)
  BY RunsAssumption DEF Init, Used, NoClone
<1>5. CInv
  <2>1. \A r \in Runs : Covers(r, Empty, Live(r))
    BY <1>2 DEF Covers, Things
  <2> QED BY <1>1, <1>2, <2>1 DEF CInv
<1>6. HeldInv /\ StopInv
  BY <1>1, <1>3, <1>4, RunsAssumption DEF HeldInv, StopInv
<1>7. DInv
  <2>1. \A r \in Runs : \A c \in Claims : snap[r][c].at = Never /\ ~snap[r][c].saved
    BY DEF Init, NoSnap
  <2> QED BY <1>2, <1>3, <2>1, RunsAssumption DEF DInv, Past
<1> QED BY <1>5, <1>6, <1>7 DEF MInv

LEMMA MInvNext == PInv /\ RInv /\ MInv /\ [Next]_vars => MInv'
<1> SUFFICES ASSUME PInv, RInv, MInv, [Next]_vars PROVE MInv'
  OBVIOUS
<1>1. ASSUME NEW r \in Runs, Reconcile(r) \/ Expire(r) PROVE MInv'
  BY <1>1, ReconcileCalm, ObjectCalm
<1>2. CASE Works
  BY <1>2, PlanMoment, WorkloadCalm, AdmitCalm, EndIfEvictedCalm, RecordLeasesCalm, TakeLeasesMoment,
     PauseMoment, ApplyMoment, PodsGoneCalm, StartVolumeMoment, StartDatabaseMoment,
     ItemsStartedCalm, ResumeMoment, GiveAppMoment, CollectMoment, EndWorkCalm, ReleaseAllMoment,
     FinishCalm, DropFinalizerCalm DEF Works
<1>3. CASE Fails
  BY <1>3, FaultCalm, ApplyFailsCalm, StartFailsMoment DEF Fails
<1>4. CASE Surroundings
  BY <1>4, CleanCloneMoment, CutCloneMoment, MoverMoment, MoverFailsMoment, AroundCalm, ObjectCalm,
     BackupEndsMoment, AppStepsMoment DEF Surroundings
<1>5. CASE UNCHANGED vars
  BY <1>5, ElsewhereMoment DEF vars
<1> QED BY <1>1, <1>2, <1>3, <1>4, <1>5 DEF Next

(* Everything that carries the paused tag of one run holds one state of    *)
(* the app: the clones behind its snapshots and the base backups of its    *)
(* Clusters were taken in one stop of the app, and all the snapshots carry *)
(* the recorded end of it; for any claims, Clusters, faults and runs that  *)
(* compete for the app.  The runs that a failed read of a source or a late *)
(* resume of another run spoilt are excepted: see OnePointInTime.          *)
THEOREM PausedSnapshotsAgree == Spec => []OnePointInTime
<1>1. PInv /\ RInv /\ MInv => OnePointInTime
  <2> SUFFICES ASSUME PInv, RInv, MInv, NEW r \in Runs \ spoilt, NEW c \in Claims, snap[r][c].at # Never
               PROVE  /\ snap[r][c].data # Torn
                      /\ snap[r][c].at = st[r].resumedAt
                      /\ \A b \in Claims : snap[r][b].at # Never => snap[r][b].data = snap[r][c].data
                      /\ \A d \in Clusters : /\ d \in snap[r][c].bases
                                             /\ d \in app.asleep \/ bak[r][d].data = snap[r][c].data
    BY DEF OnePointInTime
  <2>1. snap[r][c].at = st[r].resumedAt
    BY DEF RInv, StoredInv, Snaps
  <2>2. Past(r)
    BY <2>1 DEF MInv, DInv, Past
  <2>3. r \in All
    BY <2>2 DEF PInv, PauseInv, Past
  <2>4. PICK n \in Nat : AfterPause(r, n)
    BY <2>2, <2>3 DEF MInv, DInv
  <2> QED BY <2>1, <2>4, RunsAssumption DEF AfterPause, Moved, BackupHolds
<1>2. Spec => [](PInv /\ RInv)
  BY PInvInit, PInvNext, RInvInit, RInvNext, PTL DEF Spec
<1>3. PInv /\ RInv /\ MInv /\ [Next]_vars => MInv'
  BY MInvNext
<1> QED BY <1>1, <1>2, <1>3, MInvInit, PTL DEF Spec
=============================================================================
