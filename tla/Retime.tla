-------------------------------- MODULE Retime --------------------------------
(***************************************************************************)
(* How a BackupRun moves the snapshot of a volume to the moment it resumed *)
(* the app: collectVolume of internal/runs and Retime of internal/restic,  *)
(* one call to the object store per step, next to the restic processes     *)
(* that use the same repository.                                           *)
(*                                                                         *)
(* A snapshot cannot change under its ID, so retime stores a copy and then *)
(* removes the original, under restic's exclusive lock.  Every call may    *)
(* fail, with or without its effect, and the controller may die in every   *)
(* step and come back in the same pod, with the same host name and PID, or *)
(* in another one.  The populator's restore Job was given the ID of a      *)
(* snapshot and holds no Lease.                                            *)
(*                                                                         *)
(* The code knows its own lock file by its ID; here the field left tells   *)
(* the lock of a call under way from those of calls that are over.  A      *)
(* Retime is taken to last less than staleLockAge, since it does not       *)
(* refresh its lock.                                                       *)
(***************************************************************************)
EXTENDS Naturals, FiniteSetsExt

CONSTANTS
    Pods,         \* the pods that the controller may run in
    Restics,      \* other restic processes
    MaxTree,      \* bound on the backups of the repository
    MaxFile,      \* bound on the snapshot files ever written
    MaxCommands,  \* bound on the commands that others start
    MaxFaults,    \* bound on failed calls and deaths
    Tries         \* how often a restore Job tries

ASSUME BoundsAssumption ==
    /\ MaxTree \in Nat \ {0} /\ MaxFile \in Nat \ {0}
    /\ MaxCommands \in Nat /\ MaxFaults \in Nat /\ Tries \in Nat \ {0}
ASSUME ProcsAssumption == Pods # {} /\ Pods \cap Restics = {} /\ "job" \notin Pods \cup Restics

VARIABLES
    files,      \* snapshots/: a set of [id, tree, at, original]; at is 0 in what restic
                \* wrote, else the number of the item that it was moved and tagged for
    last,       \* the ID last given to a snapshot file
    locks,      \* locks/: a set of [by, exclusive, stale, left]
    item,       \* the stored volume item: [phase, id, tree, n]
    ctl,        \* the controller: [pod, pc, file, res]; file: the snapshot it read, res:
                \* the ID that Retime answers, 0 for an error
    other,      \* [Restics -> [pc, kind]]: restic backup or restic forget
    job,        \* the populator's restore Job: [pc, id, tree, tries]
    forgotten,  \* the trees of which restic forget took a snapshot
    commands, faults

world == <<other, job, forgotten, commands>>
vars == <<files, last, locks, item, ctl, world, faults>>

Trees == 1 .. MaxTree
NoFile == [id |-> 0, tree |-> 0, at |-> 0, original |-> 0]
NoJob == [pc |-> "none", id |-> 0, tree |-> 0, tries |-> 0]
Lock(by, exclusive) == [by |-> by, exclusive |-> exclusive, stale |-> FALSE, left |-> FALSE]

(* One backup has been taken. *)
Init ==
    /\ files = {[id |-> 1, tree |-> 1, at |-> 0, original |-> 0]}
    /\ last = 1
    /\ locks = {}
    /\ item = [phase |-> "none", id |-> 0, tree |-> 0, n |-> 0]
    /\ \E p \in Pods : ctl = [pod |-> p, pc |-> "idle", file |-> NoFile, res |-> 0]
    /\ other = [r \in Restics |-> [pc |-> "off", kind |-> "backup"]]
    /\ job = NoJob
    /\ forgotten = {}
    /\ commands = 0 /\ faults = 0

-----------------------------------------------------------------------------
(* The controller.  A pass of collectVolume does one thing: it finds the   *)
(* snapshot, or it calls Retime.                                           *)

Goto(pc, res) == ctl' = [ctl EXCEPT !.pc = pc, !.res = res]
EndPass == ctl' = [ctl EXCEPT !.pc = "idle", !.file = NoFile, !.res = 0]
Fault == faults < MaxFaults /\ faults' = faults + 1

(* SyncedSnapshot: the snapshot of the sync that completed, newer than     *)
(* that of every earlier run of the repository.                            *)
Synced == {f \in files : f.original = 0 /\ f.id > item.id}

Find ==
    /\ ctl.pc = "idle" /\ item.phase # "moving" /\ Synced # {}
    /\ \E f \in Synced :
         /\ \A g \in Synced : g.id <= f.id
         /\ ctl' = [ctl EXCEPT !.pc = "found", !.file = f]
    /\ UNCHANGED <<files, last, locks, item, world, faults>>

(* The pass stores SnapshotID before a later pass moves the snapshot. *)
Track ==
    /\ ctl.pc = "found"
    /\ item' = [phase |-> "moving", id |-> ctl.file.id, tree |-> ctl.file.tree, n |-> item.n + 1]
    /\ EndPass
    /\ UNCHANGED <<files, last, locks, world, faults>>

(* Retime begins. *)
Begin ==
    /\ ctl.pc = "idle" /\ item.phase = "moving"
    /\ Goto("check", 0)
    /\ UNCHANGED <<files, last, locks, item, world, faults>>

-----------------------------------------------------------------------------
(* lockExclusive. *)

(* The locks that checkLocks looks at: all but the one this call wrote. *)
Mine(l) == l.by = ctl.pod
Looked == {l \in locks : ~(Mine(l) /\ ~l.left)}

(* Slips in Leftovers and Blocking, for NoLockLeft and EveryMoveEnds: an   *)
(* own lock is skipped like a stale one, and a stale lock blocks.          *)
LeftoversSkipped == {l \in Looked : Mine(l) /\ l.stale}
BlockingForEver == {l \in Looked : ~Mine(l)}

(* The locks that checkLocks removes, and those that make a LockedError. *)
Leftovers == {l \in Looked : Mine(l)}
Blocking == {l \in Looked : ~Mine(l) /\ ~l.stale}

(* checkLocks reads the locks in the order of their names; it stops at one *)
(* that blocks, or at a call that fails.                                   *)
Passes == Blocking = {} /\ locks' = locks \ Leftovers /\ UNCHANGED faults
Blocked == Blocking # {} /\ (\E done \in SUBSET Leftovers : locks' = locks \ done) /\ UNCHANGED faults
CheckFails == Fault /\ \E done \in SUBSET Leftovers : locks' = locks \ done

FirstCheck ==
    /\ ctl.pc = "check"
    /\ \/ Passes /\ Goto("lock", 0)
       \/ (Blocked \/ CheckFails) /\ EndPass
    /\ UNCHANGED <<files, last, item, world>>

(* The lock is written.  A call that fails may have written it, and        *)
(* nothing removes it then but the next checkLocks.                        *)
WriteLock ==
    /\ ctl.pc = "lock"
    /\ \/ /\ locks' = locks \cup {Lock(ctl.pod, TRUE)}
          /\ Goto("recheck", 0) /\ UNCHANGED faults
       \/ /\ Fault /\ EndPass
          /\ \/ UNCHANGED locks
             \/ locks' = locks \cup {[Lock(ctl.pod, TRUE) EXCEPT !.left = TRUE]}
    /\ UNCHANGED <<files, last, item, world>>

(* A slip that LockIsExclusive catches: nobody looks a second time. *)
SecondCheckNot ==
    /\ ctl.pc = "recheck"
    /\ Goto("list", 0)
    /\ UNCHANGED <<files, last, locks, item, world, faults>>

(* After lockCheckDelay. *)
SecondCheck ==
    /\ ctl.pc = "recheck"
    /\ \/ Passes /\ Goto("list", 0)
       \/ (Blocked \/ CheckFails) /\ Goto("unlock", 0)
    /\ UNCHANGED <<files, last, item, world>>

-----------------------------------------------------------------------------
(* retime, under the lock. *)

Origin(f) == IF f.original = 0 THEN f.id ELSE f.original

(* A slip that MovedOnce catches: a copy is looked for only once the       *)
(* original is gone.                                                       *)
WrittenNot(f) == {}

(* The copy of f that an earlier call wrote. *)
Written(f) == {g \in files : g.id # f.id /\ g.original = Origin(f) /\ g.at = item.n}

(* The snapshot is there or not, and so is a copy. *)
List ==
    /\ ctl.pc = "list"
    /\ \/ \E f \in files :
            /\ f.id = item.id
            /\ \/ \E g \in Written(f) : ctl' = [ctl EXCEPT !.pc = "remove", !.file = f, !.res = g.id]
               \/ Written(f) = {} /\ ctl' = [ctl EXCEPT !.pc = "save", !.file = f]
            /\ UNCHANGED faults
       \/ /\ \A f \in files : f.id # item.id
          /\ \/ \E g \in files : g.original = item.id /\ g.at # 0 /\ Goto("unlock", g.id)
             \/ (\A g \in files : g.original # item.id \/ g.at = 0) /\ Goto("unlock", 0)
          /\ UNCHANGED faults
       \/ Fault /\ Goto("unlock", 0)
    /\ UNCHANGED <<files, last, locks, item, world>>

Copy == [id |-> last + 1, tree |-> ctl.file.tree, at |-> item.n, original |-> Origin(ctl.file)]
PutCopy == last < MaxFile /\ files' = files \cup {Copy} /\ last' = last + 1

(* A slip that Moves catches: the original goes although the copy was not  *)
(* stored.                                                                 *)
SaveUnchecked ==
    /\ ctl.pc = "save"
    /\ \/ PutCopy /\ Goto("remove", Copy.id) /\ UNCHANGED faults
       \/ Fault /\ Goto("remove", last + 1) /\ UNCHANGED <<files, last>>
    /\ UNCHANGED <<locks, item, world>>

Save ==
    /\ ctl.pc = "save"
    /\ \/ PutCopy /\ Goto("remove", Copy.id) /\ UNCHANGED faults
       \/ Fault /\ Goto("unlock", 0) /\ (PutCopy \/ UNCHANGED <<files, last>>)
    /\ UNCHANGED <<locks, item, world>>

Remove ==
    /\ ctl.pc = "remove"
    /\ \/ files' = files \ {ctl.file} /\ Goto("unlock", ctl.res) /\ UNCHANGED faults
       \/ Fault /\ Goto("unlock", 0) /\ files' \in {files, files \ {ctl.file}}
    /\ UNCHANGED <<last, locks, item, world>>

(* The lock is removed, also once the context of the call has ended.  An   *)
(* error here is the answer of Retime, whatever was done.                  *)
Unlock ==
    /\ ctl.pc = "unlock"
    /\ \E own \in {{l \in locks : Mine(l) /\ ~l.left}} :
         \/ /\ locks' = locks \ own /\ UNCHANGED faults
            /\ IF ctl.res = 0 THEN EndPass ELSE Goto("record", ctl.res)
         \/ /\ Fault /\ EndPass
            /\ \/ locks' = locks \ own
               \/ locks' = (locks \ own) \cup {[l EXCEPT !.left = TRUE] : l \in own}
    /\ UNCHANGED <<files, last, item, world>>

(* A slip that TypeOK catches: the result is stored as the run's phase. *)
RecordPhase ==
    /\ ctl.pc = "record"
    /\ item' = [item EXCEPT !.phase = "Succeeded", !.id = ctl.res] /\ UNCHANGED faults
    /\ EndPass
    /\ UNCHANGED <<files, last, locks, world>>

(* The pass stores the moved snapshot. *)
Record ==
    /\ ctl.pc = "record"
    /\ \/ item' = [item EXCEPT !.phase = "done", !.id = ctl.res] /\ UNCHANGED faults
       \/ Fault /\ UNCHANGED item
    /\ EndPass
    /\ UNCHANGED <<files, last, locks, world>>

(* The run times out or is deleted, and gives the repository's Lease back. *)
Abandon ==
    /\ ctl.pc = "idle" /\ item.phase = "moving"
    /\ item' = [item EXCEPT !.phase = "ended"]
    /\ UNCHANGED <<files, last, locks, ctl, world, faults>>

(* The process dies.  Its lock stays. *)
Crash ==
    /\ ctl.pc # "idle" /\ Fault
    /\ locks' = {IF Mine(l) THEN [l EXCEPT !.left = TRUE] ELSE l : l \in locks}
    /\ \E p \in Pods : ctl' = [pod |-> p, pc |-> "idle", file |-> NoFile, res |-> 0]
    /\ UNCHANGED <<files, last, item, world>>

-----------------------------------------------------------------------------
(* restic itself.  It skips no stale lock; the mover's restic unlock       *)
(* removes them.                                                           *)

Age(l) ==
    /\ l.left /\ ~l.stale
    /\ locks' = (locks \ {l}) \cup {[l EXCEPT !.stale = TRUE]}
    /\ UNCHANGED <<files, last, item, ctl, world, faults>>

Bars(l, exclusive) == exclusive \/ l.exclusive
Free(who, exclusive, ls) == \A l \in ls : (l.by = who /\ ~l.left) \/ ~Bars(l, exclusive)
Release(who) == locks' = {l \in locks : l.by # who \/ l.left}

(* The first check and the writing of the lock. *)
Start(r, kind) ==
    /\ other[r].pc = "off" /\ commands < MaxCommands
    /\ IF kind = "backup" THEN last < MaxFile /\ Max({f.tree : f \in files} \cup forgotten) < MaxTree
                          ELSE Cardinality(files) > 1
    /\ \E ls \in {IF kind = "backup" THEN {l \in locks : ~l.stale} ELSE locks} :
         /\ Free(r, kind = "forget", ls)
         /\ locks' = ls \cup {Lock(r, kind = "forget")}
    /\ other' = [other EXCEPT ![r] = [pc |-> "wait", kind |-> kind]]
    /\ commands' = commands + 1
    /\ UNCHANGED <<files, last, item, ctl, job, forgotten, faults>>

(* The second check; on a conflict restic gives up. *)
Enter(r) ==
    /\ other[r].pc = "wait"
    /\ \/ /\ Free(r, other[r].kind = "forget", locks) /\ UNCHANGED locks
          /\ other' = [other EXCEPT ![r].pc = "in"]
       \/ /\ ~Free(r, other[r].kind = "forget", locks) /\ Release(r)
          /\ other' = [other EXCEPT ![r].pc = "off"]
    /\ UNCHANGED <<files, last, item, ctl, job, forgotten, commands, faults>>

(* backup stores a snapshot; forget takes any but the newest; either may   *)
(* fail.                                                                   *)
Newest(f) == \A g \in files : g.tree < f.tree \/ (g.tree = f.tree /\ g.at <= f.at)

Work(kind) ==
    \/ /\ kind = "backup" /\ last < MaxFile
       /\ \E t \in Trees :
            /\ t = 1 + Max({f.tree : f \in files} \cup forgotten)
            /\ files' = files \cup {[id |-> last + 1, tree |-> t, at |-> 0, original |-> 0]}
       /\ last' = last + 1 /\ UNCHANGED forgotten
    \/ /\ kind = "forget"
       /\ \E f \in files :
            /\ ~Newest(f)
            /\ files' = files \ {f} /\ forgotten' = forgotten \cup {f.tree}
       /\ UNCHANGED last
    \/ UNCHANGED <<files, last, forgotten>>

Leave(r) ==
    /\ other[r].pc = "in"
    /\ Work(other[r].kind)
    /\ Release(r)
    /\ other' = [other EXCEPT ![r].pc = "off"]
    /\ UNCHANGED <<item, ctl, job, commands, faults>>

(* A restic process is killed, before its work or after it. *)
Die(r) ==
    /\ other[r].pc # "off" /\ Fault
    /\ IF other[r].pc = "in" THEN Work(other[r].kind) ELSE UNCHANGED <<files, last, forgotten>>
    /\ locks' = {IF l.by = r THEN [l EXCEPT !.left = TRUE] ELSE l : l \in locks}
    /\ other' = [other EXCEPT ![r].pc = "off"]
    /\ UNCHANGED <<item, ctl, job, commands>>

-----------------------------------------------------------------------------
(* The populator's restore Job. *)

(* choose takes a snapshot from a listing, and start gives its ID to the   *)
(* Job.  An admin has deleted a Job that failed.                           *)
Choose ==
    /\ job.pc \in {"none", "failed"} /\ commands < MaxCommands
    /\ \E f \in files : job' = [pc |-> "waiting", id |-> f.id, tree |-> f.tree, tries |-> 1]
    /\ commands' = commands + 1
    /\ UNCHANGED <<files, last, locks, item, ctl, other, forgotten, faults>>

(* A try fails; the Job makes the next one, or fails. *)
FailTry ==
    job' = IF job.tries < Tries THEN [job EXCEPT !.pc = "waiting", !.tries = @ + 1]
                                ELSE [job EXCEPT !.pc = "failed"]

(* --retry-lock: restic waits for a lock, but not for ever. *)
JobLocks ==
    /\ job.pc = "waiting"
    /\ \/ /\ Free("job", FALSE, locks) /\ locks' = locks \cup {Lock("job", FALSE)}
          /\ job' = [job EXCEPT !.pc = "wait"]
       \/ /\ \E l \in locks : l.exclusive /\ (l.left \/ l.by \in Restics)
          /\ FailTry /\ UNCHANGED locks
    /\ UNCHANGED <<files, last, item, ctl, other, forgotten, commands, faults>>

JobEnters ==
    /\ job.pc = "wait"
    /\ \/ Free("job", FALSE, locks) /\ job' = [job EXCEPT !.pc = "in"] /\ UNCHANGED locks
       \/ ~Free("job", FALSE, locks) /\ job' = [job EXCEPT !.pc = "waiting"] /\ Release("job")
    /\ UNCHANGED <<files, last, item, ctl, other, forgotten, commands, faults>>

(* restic restore finds the snapshot by its ID, or not. *)
JobEnds ==
    /\ job.pc = "in"
    /\ IF \E f \in files : f.id = job.id THEN job' = [job EXCEPT !.pc = "done"] ELSE FailTry
    /\ Release("job")
    /\ UNCHANGED <<files, last, item, ctl, other, forgotten, commands, faults>>

-----------------------------------------------------------------------------
Controller ==
    \/ Find \/ Track \/ Begin \/ FirstCheck \/ WriteLock \/ SecondCheck
    \/ List \/ Save \/ Remove \/ Unlock \/ Record

Next ==
    \/ Controller \/ Abandon \/ Crash
    \/ \E l \in locks : Age(l)
    \/ \E r \in Restics : Start(r, "backup") \/ Start(r, "forget") \/ Enter(r) \/ Leave(r) \/ Die(r)
    \/ Choose \/ JobLocks \/ JobEnters \/ JobEnds

Spec == Init /\ [][Next]_vars

(* The controller works, time passes, and restic ends what it began; no    *)
(* user is needed.  A Job and the controller may both back off, but not    *)
(* each time: Retime is called again on a later pass, seconds apart, and   *)
(* restic looks 200 ms after it wrote its lock.                            *)
FairSpec ==
    /\ Spec /\ WF_vars(Controller) /\ WF_vars(\E l \in locks : Age(l))
    /\ \A r \in Restics : WF_vars(Enter(r) \/ Leave(r))
    /\ WF_vars(JobLocks \/ JobEnters \/ JobEnds)
    /\ SF_vars(JobEnters /\ job'.pc = "in")

-----------------------------------------------------------------------------
(* Properties. *)

File == [id : 1 .. MaxFile, tree : Trees, at : 0 .. MaxFile, original : 0 .. MaxFile]

TypeOK ==
    /\ files \subseteq File /\ last \in 1 .. MaxFile
    /\ locks \subseteq [by : Pods \cup Restics \cup {"job"}, exclusive : BOOLEAN,
                        stale : BOOLEAN, left : BOOLEAN]
    /\ item \in [phase : {"none", "moving", "done", "ended"}, id : 0 .. MaxFile,
                 tree : 0 .. MaxTree, n : Nat]
    /\ ctl \in [pod : Pods, file : File \cup {NoFile}, res : 0 .. MaxFile,
                pc : {"idle", "found", "check", "lock", "recheck", "list", "save", "remove",
                      "unlock", "record"}]
    /\ other \in [Restics -> [pc : {"off", "wait", "in"}, kind : {"backup", "forget"}]]
    /\ job \in [pc : {"none", "waiting", "wait", "in", "done", "failed"}, id : 0 .. MaxFile,
                tree : 0 .. MaxTree, tries : 0 .. Tries]
    /\ forgotten \subseteq Trees
    /\ commands \in 0 .. MaxCommands /\ faults \in 0 .. MaxFaults

(* "Retime holds restic's exclusive lock while it writes, so it never runs *)
(* at the same time as a mover" (retime.go:100-101): from the moment it    *)
(* reads the snapshots until it has removed the original, no other restic  *)
(* is at work, although both sides only look, write and look again.        *)
LockIsExclusive ==
    ctl.pc \in {"list", "save", "remove"} =>
        /\ \A r \in Restics : other[r].pc # "in"
        /\ job.pc # "in"

(* A snapshot is never moved twice: whatever calls failed and wherever     *)
(* processes died, the repository holds one copy of an original at most    *)
(* (retime.go:142-143: writing it again would add a second snapshot).      *)
MovedOnce == \A f, g \in files : f.original # 0 /\ f.original = g.original => f = g

(* A Retime that succeeds leaves no lock of its process behind, also none  *)
(* of an earlier call that could not remove it: it would stop every prune  *)
(* (retime.go:277-278).                                                    *)
NoLockLeft == ctl.pc = "record" => \A l \in locks : ~Mine(l)

(* What a listing of the repository offers of a tree. *)
Shown(t) ==
    IF \E f \in files : f.tree = t /\ f.at # 0 THEN "moved"
    ELSE IF \E f \in files : f.tree = t THEN "plain" ELSE "none"

Promise == INSTANCE SnapshotMove WITH
    shown <- [t \in Trees |-> Shown(t)],
    item <- [phase |-> item.phase, tree |-> item.tree],
    answered <- ctl.pc \in {"unlock", "record"} /\ ctl.res # 0

(* Saving, removing and answering, with all their failures, implement a    *)
(* move in one step: no snapshot is ever missing, none goes back, and the  *)
(* run reports only what was moved (backuprun.go:671-672).                 *)
Moves == Promise!Spec

(* A move that a run has begun is carried out, whoever holds the lock and  *)
(* whichever lock a dead process left, unless retention took the snapshot  *)
(* or the run is given up.                                                 *)
EveryMoveEnds == item.phase = "moving" ~> item.phase # "moving" \/ item.tree \in forgotten

=============================================================================
