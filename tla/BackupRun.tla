------------------------------ MODULE BackupRun ------------------------------
(***************************************************************************)
(* The life of the BackupRuns of one namespace: Reconcile and everything   *)
(* it calls in internal/runs/backuprun.go and internal/runs/pause.go.      *)
(*                                                                         *)
(* One worker reconciles BackupRuns, so one pass runs at a time.  A pass   *)
(* works on the copy of the run it read (pass.mem); the API calls that     *)
(* change the cluster are steps of their own, with VolSync, CloudNativePG, *)
(* Kueue, Flux, the app's pods and the users acting in between.  A pass    *)
(* can end before every such call: an API error, a crash or a new leader   *)
(* loses its copy, and the next pass starts from what is stored.           *)
(*                                                                         *)
(* The claims' data is reduced to what tells snapshots apart: the number   *)
(* of the app's last start when no pod runs, Torn while one does.          *)
(***************************************************************************)
EXTENDS Naturals, FiniteSets

CONSTANTS
    Runs,       \* the BackupRuns of the namespace
    All,        \* the ones with spec.all
    Claims,     \* the claims marked backup.wlz.li/enabled
    Clusters,   \* the CloudNativePG Clusters marked so
    Named,      \* [Runs \ All -> claim or Cluster]: spec.source or spec.database
    Apps,       \* what the namespace may look like: whether its workload is marked and its
                \* Kustomization suspended, and what of it is hibernated or holds no files
    NoRun,
    Torn,       \* what a clone holds that was cut under a running app
    MaxFaults   \* bound on failed calls, crashes, evictions and deletions

Things == Claims \cup Clusters

(* Lease names: a claim stands for its claim and its repository Lease. *)
PauseName == "backup-pause"
Names == {PauseName} \cup Things

ASSUME RunsAssumption == All \subseteq Runs /\ NoRun \notin Runs /\ Torn \notin Nat
ASSUME ThingsAssumption == Claims \cap Clusters = {} /\ PauseName \notin Things
ASSUME NamedAssumption == Named \in [Runs \ All -> Things]
ASSUME AppsAssumption ==
    Apps \subseteq [marked : BOOLEAN, suspended : BOOLEAN, asleep : SUBSET Clusters, blank : SUBSET Claims]
ASSUME FaultsAssumption == MaxFaults \in Nat

Target(r) == IF r \in All THEN Things ELSE {Named[r]}

VARIABLES
    st,       \* [Runs -> Status]: the stored status of each run
    meta,     \* [Runs -> [state, finalizer]]: the stored object around it
    pass,     \* the pass under way
    owner,    \* [Names -> run]: the Leases
    wl,       \* [Runs -> state of the run's Kueue Workload]
    late,     \* the started runs whose deadline has passed, or whose timeout setting
              \* no longer parses: work ends both the same way
    app,      \* the marked workload and its Kustomization
    src,      \* [Claims -> ReplicationSource]
    snap,     \* [Runs -> [Claims -> snapshot]]: what the run's trigger saved
    bak,      \* [Runs -> [Clusters -> CloudNativePG Backup]]
    clock,    \* the last moment anything recorded
    faults,   \* failed calls, crashes, evictions and deletions so far
    spoilt    \* history: the runs whose pause did not keep out what it should; see Pause, Spoils

vars == <<st, meta, pass, owner, wl, late, app, src, snap, bak, clock, faults, spoilt>>
world == <<wl, late, app, src, snap, bak, spoilt>>
cluster == <<st, meta, owner, world, clock>>

Never == 0

(* status.items, status.paused and the rest.  The fields say:              *)
(*   items     phase of each item, "None" for what the run does not cover  *)
(*   saved     volume items with a recorded SnapshotID                     *)
(*   based     database items with BaseBackupWhilePaused                   *)
(*   paused    status.paused lists the workload, with these replicas       *)
(*   resumed   that entry is marked Resumed                                *)
(*   suspends  status.suspendedKustomizations lists its Kustomization      *)
Empty ==
    [phase |-> "", items |-> [t \in Things |-> "None"], saved |-> {}, based |-> {},
     workload |-> FALSE, leases |-> FALSE, pausedAt |-> Never, resumedAt |-> Never,
     paused |-> FALSE, replicas |-> 0, resumed |-> FALSE, suspends |-> FALSE]

Idle == [run |-> NoRun, pc |-> "idle", mem |-> Empty, end |-> "", stale |-> FALSE,
         pausing |-> FALSE]

NoSnap == [data |-> Torn, at |-> Never, bases |-> {}, saved |-> FALSE]

NoClone == [run |-> NoRun, made |-> Never, data |-> Torn]

Finished(phase) == phase \in {"Succeeded", "Failed"}

(* A pass reads the run again; RunAlive asks the same of a Lease's holder. *)
Alive(r) == meta[r].state # "gone" /\ ~Finished(st[r].phase)

(* What a clone or a base backup holds when it is taken now. *)
Content == IF app.pods THEN Torn ELSE app.starts

Init ==
    /\ st = [r \in Runs |-> Empty]
    /\ meta = [r \in Runs |-> [state |-> "there", finalizer |-> FALSE]]
    /\ pass = Idle
    /\ owner = [n \in Names |-> NoRun]
    /\ wl = [r \in Runs |-> "none"]
    /\ late = {}
    /\ \E a \in Apps :
         app = [replicas |-> 1, pods |-> TRUE, starts |-> 0, suspended |-> a.suspended,
                marked |-> a.marked, ownSuspend |-> a.suspended, asleep |-> a.asleep, blank |-> a.blank]
    /\ src = [c \in Claims |-> [tag |-> NoRun, last |-> NoRun, failed |-> FALSE, clone |-> NoClone]]
    /\ snap = [r \in Runs |-> [c \in Claims |-> NoSnap]]
    /\ bak = [r \in Runs |-> [d \in Clusters |-> [phase |-> "none", data |-> Torn]]]
    /\ clock = 1
    /\ faults = 0
    /\ spoilt = {}

-----------------------------------------------------------------------------
(* A pass. *)

mem == pass.mem
cur == pass.run

At(pc) == pass.pc = pc

Step(pc, m) == [pass EXCEPT !.pc = pc, !.mem = m]
Goto(pc) == pass' = Step(pc, mem)
GotoWith(pc, m) == pass' = Step(pc, m)
StopPass == pass' = Idle

(* writeStatus carries the resourceVersion the pass read.  On a run that   *)
(* somebody deleted meanwhile it is a Conflict, and the pass ends.         *)
WriteStatus(m, next) ==
    IF pass.stale THEN StopPass /\ UNCHANGED st
    ELSE st' = [st EXCEPT ![cur] = m] /\ pass' = next

(* One more failed call, crash, eviction or deletion. *)
Trouble == faults < MaxFaults /\ faults' = faults + 1

(* The call before which the pass stands fails, or the controller dies. *)
Fault ==
    /\ pass # Idle
    /\ Trouble
    /\ StopPass
    /\ UNCHANGED cluster

(* Reconcile reads the run, adds the finalizer, and picks the stage.  The  *)
(* pass of a deleted run finalizes it.                                     *)
Reconcile(r) ==
    /\ pass = Idle
    /\ meta[r].state # "gone"
    /\ \/ /\ meta[r].state = "deleting" /\ meta[r].finalizer
          /\ pass' = [Idle EXCEPT !.run = r, !.pc = "release", !.mem = st[r], !.end = "Deleted"]
          /\ UNCHANGED meta
       \/ /\ meta[r].state = "there" /\ ~Finished(st[r].phase)
          /\ meta' = [meta EXCEPT ![r].finalizer = TRUE]
          /\ pass' = [Idle EXCEPT !.run = r, !.mem = st[r],
                                  !.pc = CASE st[r].phase = "" -> "plan"
                                           [] st[r].phase = "Queued" -> "admit"
                                           [] OTHER -> "check"]
    /\ UNCHANGED <<st, owner, world, clock, faults>>

(* expire deletes a finished run whose time to live has passed; a          *)
(* finalizer that dropFinalizer failed to remove keeps it as deleting.     *)
Expire(r) ==
    /\ pass = Idle
    /\ meta[r].state = "there" /\ Finished(st[r].phase)
    /\ meta' = [meta EXCEPT ![r].state = IF meta[r].finalizer THEN "deleting" ELSE "gone"]
    /\ UNCHANGED <<st, pass, owner, world, clock, faults>>

(* The run ends early: abort fails what is left, then finish releases. *)
Abort(m) ==
    pass' = [pass EXCEPT !.pc = "release", !.end = "Failed",
                         !.mem = [m EXCEPT !.items = [t \in Things |->
                                     IF m.items[t] \in {"Pending", "Running"} THEN "Failed"
                                     ELSE m.items[t]]]]

(* plan records the items, or ends a run that names nothing to back up. *)
Plan ==
    /\ At("plan")
    /\ \/ /\ WriteStatus([mem EXCEPT !.phase = "Queued",
                                     !.items = [t \in Things |-> IF t \in Target(cur) THEN "Pending" ELSE "None"]],
                         Idle)
       \/ /\ pass' = [pass EXCEPT !.pc = "release", !.end = "Failed"]
          /\ UNCHANGED st
    /\ UNCHANGED <<meta, owner, world, clock, faults>>

(* admit submits the Workload. *)
EnsureWorkload ==
    /\ At("admit")
    /\ wl' = [wl EXCEPT ![cur] = IF @ = "none" THEN "pending" ELSE @]
    /\ GotoWith("start", [mem EXCEPT !.workload = TRUE])
    /\ UNCHANGED <<st, meta, owner, late, app, src, snap, bak, spoilt, clock, faults>>

(* admit names the Workload in the status and starts an admitted run, or   *)
(* ends it on a timeout setting that does not parse.                       *)
Admit ==
    /\ At("start")
    /\ \/ wl[cur] # "admitted" /\ WriteStatus(mem, Idle)
       \/ wl[cur] = "admitted" /\ WriteStatus([mem EXCEPT !.phase = "Running"], Idle)
       \/ wl[cur] = "admitted" /\ Abort(mem) /\ UNCHANGED st
    /\ UNCHANGED <<meta, owner, world, clock, faults>>

(* A slip that StartedRunsEnd catches: the deadline is not looked at. *)
EndIfEvictedOnly ==
    /\ At("check")
    /\ IF mem.workload /\ wl[cur] = "evicted" THEN Abort(mem) ELSE Goto("record")
    /\ UNCHANGED <<cluster, faults>>

(* work looks at the Workload and the deadline first. *)
EndIfEvicted ==
    /\ At("check")
    /\ IF (mem.workload /\ wl[cur] = "evicted") \/ cur \in late THEN Abort(mem) ELSE Goto("record")
    /\ UNCHANGED <<cluster, faults>>

(* holding records the Lease names before it takes the first one. *)
RecordLeases ==
    /\ At("record")
    /\ IF mem.leases
       THEN Goto("take") /\ UNCHANGED st
       ELSE LET m == [mem EXCEPT !.leases = TRUE] IN WriteStatus(m, Step("take", m))
    /\ UNCHANGED <<meta, owner, world, clock, faults>>

LeaseNames(r) == Target(r) \cup IF r \in All THEN {PauseName} ELSE {}

(* A Lease that Take gives the run; LeaseLock is its abstract statement. *)
Free(r, n) == owner[n] \in {NoRun, r} \/ ~Alive(owner[n])

(* The step after holding. *)
Worker ==
    IF cur \in All /\ mem.pausedAt = Never THEN "pause"
    ELSE IF cur \in All /\ mem.resumedAt = Never /\ \E t \in Things : mem.items[t] = "Pending"
    THEN "suspend" ELSE "items"

(* holding takes the Leases, the pause first; a pass that misses one keeps *)
(* what it got and ends Busy.                                              *)
TakeLeases ==
    /\ At("take")
    /\ LET names == LeaseNames(cur)
           free == {n \in names : Free(cur, n)}
       IN \E got \in SUBSET free :
            /\ IF free = names THEN got = names ELSE PauseName \in names /\ got # {} => PauseName \in got
            /\ owner' = [n \in Names |-> IF n \in got THEN cur ELSE owner[n]]
            /\ IF got = names THEN Goto(Worker) ELSE StopPass
    /\ UNCHANGED <<st, meta, world, clock, faults>>

-----------------------------------------------------------------------------
(* The pause. *)

Busy(c) == src[c].tag # NoRun /\ src[c].tag # src[c].last

(* pause waits for a source that still completes another trigger, then     *)
(* records what it is about to change.  A source that it cannot read counts *)
(* as idle; reading an idle one in vain changes nothing.                   *)
Pause ==
    /\ At("pause")
    /\ LET busy == {c \in Claims : Busy(c) /\ src[c].tag # cur}
           m == [mem EXCEPT !.pausedAt = clock + 1,
                            !.resumedAt = IF app.marked THEN Never ELSE clock + 1,
                            !.paused = app.marked,
                            !.replicas = IF app.marked THEN app.replicas ELSE 0,
                            !.suspends = app.marked /\ ~app.suspended]
       IN \/ /\ busy # {}
             /\ StopPass
             /\ UNCHANGED <<st, clock, faults, spoilt>>
          \/ /\ IF busy = {} THEN UNCHANGED faults ELSE Trouble
             /\ WriteStatus(m, [pass EXCEPT !.pc = "suspend", !.mem = m, !.pausing = TRUE])
             /\ clock' = clock + 1
             /\ spoilt' = IF busy = {} THEN spoilt ELSE spoilt \cup {cur}
    /\ UNCHANGED <<meta, owner, wl, late, app, src, snap, bak>>

SetSuspend(on) == app' = [app EXCEPT !.suspended = on]
Scale(replicas) == app' = [app EXCEPT !.replicas = replicas]

(* applyPause suspends the Kustomization, then scales the workload. *)
ApplySuspend ==
    /\ At("suspend")
    /\ IF mem.suspends THEN SetSuspend(TRUE) ELSE UNCHANGED app
    /\ Goto("scale")
    /\ UNCHANGED <<st, meta, owner, wl, late, src, snap, bak, spoilt, clock, faults>>

ApplyScale ==
    /\ At("scale")
    /\ IF mem.paused THEN Scale(0) ELSE UNCHANGED app
    /\ IF pass.pausing THEN StopPass ELSE Goto("pods")
    /\ UNCHANGED <<st, meta, owner, wl, late, src, snap, bak, spoilt, clock, faults>>

(* A patch of applyPause that fails ends the run. *)
ApplyFails ==
    /\ pass.pc \in {"suspend", "scale"}
    /\ Trouble
    /\ Abort(mem)
    /\ UNCHANGED cluster

(* pausedPodsGone *)
PodsGone ==
    /\ At("pods")
    /\ IF mem.paused /\ app.pods THEN StopPass ELSE Goto("items")
    /\ UNCHANGED <<cluster, faults>>

-----------------------------------------------------------------------------
(* The items. *)

Pending == {t \in Things : mem.items[t] = "Pending"}
Running == {t \in Things : mem.items[t] = "Running"}

SetItem(t, phase) == pass' = [pass EXCEPT !.mem.items[t] = phase]

(* startItem on a volume: ensureSource writes the run's trigger unless the *)
(* source still works on another one.                                      *)
StartVolume(c) ==
    /\ At("items") /\ c \in Pending
    /\ IF Busy(c) /\ src[c].tag # cur
       THEN SetItem(c, "Failed") /\ UNCHANGED src
       ELSE SetItem(c, "Running") /\ src' = [src EXCEPT ![c].tag = cur]
    /\ UNCHANGED <<st, meta, owner, wl, late, app, snap, bak, spoilt, clock, faults>>

(* startItem on a database: ensureBackup, unless the Cluster hibernates. *)
StartDatabase(d) ==
    /\ At("items") /\ d \in Pending
    /\ IF d \in app.asleep
       THEN SetItem(d, "Skipped") /\ UNCHANGED bak
       ELSE /\ SetItem(d, "Running")
            /\ bak' = [bak EXCEPT ![cur][d].phase = IF @ = "none" THEN "running" ELSE @]
    /\ UNCHANGED <<st, meta, owner, wl, late, app, src, snap, spoilt, clock, faults>>

(* A read or a write of startItem that fails, fails the item. *)
StartFails(t) ==
    /\ At("items") /\ t \in Pending
    /\ Trouble
    /\ SetItem(t, "Failed")
    /\ UNCHANGED cluster

(* The status write, the patches and the collection that follow. *)
ItemsStarted ==
    /\ At("items") /\ Pending = {}
    /\ Goto(IF cur \in All /\ mem.pausedAt # Never THEN "resume" ELSE "collect")
    /\ UNCHANGED <<cluster, faults>>

-----------------------------------------------------------------------------
(* The resume. *)

Resumed(m) == m.resumedAt # Never /\ (m.paused => m.resumed)

(* A slip that OnePointInTime catches: any clone counts as this run's. *)
ClonesCutEver ==
    \A c \in Claims \cap Running : src[c].last = cur \/ src[c].clone # NoClone

(* VolSync no longer reads the app's volumes for this run. *)
ClonesCut ==
    \A c \in Claims \cap Running :
        \/ src[c].last = cur
        \/ src[c].clone # NoClone /\ src[c].clone.made >= mem.pausedAt

DatabasesRunning == Clusters \cap Running # {}

(* status.resumedAt is stored before anything is scaled. *)
RecordResume ==
    /\ clock' = clock + 1
    /\ LET m == [mem EXCEPT !.resumedAt = clock + 1] IN WriteStatus(m, Step("scaleUp", m))

Resume ==
    /\ At("resume")
    /\ \/ /\ mem.resumedAt = Never /\ (~ClonesCut \/ DatabasesRunning)
          /\ Goto("collect") /\ UNCHANGED <<st, clock>>
       \/ /\ mem.resumedAt = Never /\ ClonesCut /\ ~DatabasesRunning
          /\ RecordResume
       \/ /\ mem.resumedAt # Never
          /\ Goto(IF Resumed(mem) THEN "collect" ELSE "scaleUp") /\ UNCHANGED <<st, clock>>
    /\ UNCHANGED <<meta, owner, world, faults>>

(* A run that gives the app back spoils the pause that another one holds. *)
Spoils == spoilt' = spoilt \cup {r \in All \ {cur} : st[r].paused /\ st[r].resumedAt = Never}

(* resumeWorkloads scales what is not marked Resumed, then resumes the     *)
(* Kustomization.  The marks are in the copy; a later write stores them.   *)
ScaleUp ==
    /\ At("scaleUp")
    /\ IF mem.paused /\ ~mem.resumed THEN Scale(mem.replicas) /\ Spoils ELSE UNCHANGED <<app, spoilt>>
    /\ GotoWith("unsuspend", [mem EXCEPT !.resumed = mem.paused])
    /\ UNCHANGED <<st, meta, owner, wl, late, src, snap, bak, clock, faults>>

Unsuspend ==
    /\ At("unsuspend")
    /\ IF mem.suspends THEN SetSuspend(FALSE) /\ Spoils ELSE UNCHANGED <<app, spoilt>>
    /\ Goto(IF pass.end = "" THEN "collect" ELSE "giveBack")
    /\ UNCHANGED <<st, meta, owner, wl, late, src, snap, bak, clock, faults>>

-----------------------------------------------------------------------------
(* The results. *)

Retimed == cur \in All /\ mem.paused
DatabaseFailed == \E d \in Clusters : mem.items[d] = "Failed"

(* The base backups that a paused snapshot is tagged with; a Cluster that  *)
(* was hibernated has a tag that says so.                                  *)
BaseBackupTags ==
    {d \in Clusters : mem.items[d] = "Succeeded" /\ d \in mem.based} \cup
    {d \in Clusters : mem.items[d] = "Skipped"}

(* A slip that SucceededIsRestorable catches: the resume is not awaited. *)
SyncedEarly == {c \in Claims \cap Running : src[c].last = cur}

(* The volume items whose sync has completed and whose snapshot may be     *)
(* taken up now: on a run that paused the app, only after the resume.      *)
Synced == {c \in Claims \cap Running : src[c].last = cur /\ (Retimed => mem.resumedAt # Never)}

(* A slip that TypeOK catches: the snapshot moves to the time of the call. *)
RetimeNow(c) == [snap[cur][c] EXCEPT !.at = clock + 1, !.bases = BaseBackupTags]

(* Retime moves the snapshot and tags it; one that was moved stays as it is. *)
Retime(c) ==
    [snap[cur][c] EXCEPT !.at = IF @ = Never THEN mem.resumedAt ELSE @,
                         !.bases = IF snap[cur][c].at = Never THEN BaseBackupTags ELSE @]

(* collectItem over the items whose reads succeed in this pass.  An item   *)
(* whose snapshot has to move records its ID first and is moved by a later *)
(* pass.  CloudNativePG sets status.backupId of every Backup it completes, *)
(* so the check of an empty one never holds a base backup back.            *)
Collect ==
    /\ At("collect")
    /\ \E read \in SUBSET Running :
         LET found == Synced \cap read
             move == Retimed /\ ~DatabaseFailed
             moved == found \cap mem.saved
             \* No snapshot in the sync's window: an empty volume, or a moved one.
             none == {c \in found \ mem.saved : c \in app.blank \/ snap[cur][c].at # Never}
             done == IF move THEN none \cup moved ELSE found
             broken == {c \in Claims \cap read : src[c].last # cur /\ src[c].failed}
             complete == {d \in Clusters \cap read : bak[cur][d].phase = "completed"}
             failed == {d \in Clusters \cap read : bak[cur][d].phase = "failed"}
         IN /\ GotoWith("write",
                 [mem EXCEPT !.items = [t \in Things |->
                                CASE t \in done \cup complete -> "Succeeded"
                                  [] t \in broken \cup failed -> "Failed"
                                  [] OTHER -> mem.items[t]],
                             !.saved = @ \cup (found \ none),
                             !.based = @ \cup IF Retimed /\ mem.resumedAt = Never THEN complete ELSE {}])
            /\ snap' = [snap EXCEPT ![cur] = [c \in Claims |-> IF c \in moved THEN Retime(c) ELSE @[c]]]
    /\ UNCHANGED <<st, meta, owner, wl, late, app, src, bak, spoilt, clock, faults>>

Done == \A t \in Things : mem.items[t] \notin {"Pending", "Running"}

(* The end of work: finish once everything is done and the app runs again. *)
EndWork ==
    /\ At("write")
    /\ IF Done /\ (cur \in All => Resumed(mem))
       THEN /\ pass' = [pass EXCEPT !.pc = "release",
                                    !.end = IF \E t \in Things : mem.items[t] = "Failed"
                                            THEN "Failed" ELSE "Succeeded"]
            /\ UNCHANGED st
       ELSE WriteStatus(mem, Idle)
    /\ UNCHANGED <<meta, owner, world, clock, faults>>

-----------------------------------------------------------------------------
(* finish and finalize. *)

(* A slip that AppGivenBack and AppComesBack catch: a recorded resume      *)
(* counts as a resume that happened.                                       *)
ReleaseRecorded ==
    /\ At("release")
    /\ \/ /\ mem.pausedAt = Never \/ mem.resumedAt # Never
          /\ Goto("giveBack") /\ UNCHANGED <<st, clock>>
       \/ /\ mem.pausedAt # Never /\ mem.resumedAt = Never
          /\ RecordResume
    /\ UNCHANGED <<meta, owner, world, faults>>

(* release resumes an app that is still paused, after it recorded that. *)
Release ==
    /\ At("release")
    /\ \/ /\ mem.pausedAt = Never \/ Resumed(mem)
          /\ Goto("giveBack") /\ UNCHANGED <<st, clock>>
       \/ /\ mem.pausedAt # Never /\ mem.resumedAt = Never
          /\ RecordResume
       \/ /\ mem.pausedAt # Never /\ mem.resumedAt # Never /\ ~Resumed(mem)
          /\ Goto("scaleUp") /\ UNCHANGED <<st, clock>>
    /\ UNCHANGED <<meta, owner, world, faults>>

ReleaseAll ==
    /\ At("giveBack")
    /\ owner' = [n \in Names |-> IF mem.leases /\ owner[n] = cur THEN NoRun ELSE owner[n]]
    /\ Goto("deleteWorkload")
    /\ UNCHANGED <<st, meta, world, clock, faults>>

DeleteWorkload ==
    /\ At("deleteWorkload")
    /\ wl' = [wl EXCEPT ![cur] = "none"]
    /\ Goto("finish")
    /\ UNCHANGED <<st, meta, owner, late, app, src, snap, bak, spoilt, clock, faults>>

(* finish writes the phase; finalize writes the marks of a paused run. *)
Finish ==
    /\ At("finish")
    /\ CASE pass.end = "Deleted" /\ mem.pausedAt = Never -> Goto("dropFinalizer") /\ UNCHANGED st
         [] pass.end = "Deleted" /\ mem.pausedAt # Never -> WriteStatus(mem, Step("dropFinalizer", mem))
         [] OTHER -> LET m == [mem EXCEPT !.phase = pass.end, !.workload = FALSE]
                     IN WriteStatus(m, Step("dropFinalizer", m))
    /\ UNCHANGED <<meta, owner, world, clock, faults>>

DropFinalizer ==
    /\ At("dropFinalizer")
    /\ \/ pass.stale /\ UNCHANGED meta
       \/ ~pass.stale /\ meta' = [meta EXCEPT ![cur] =
              [state |-> IF @.state = "deleting" THEN "gone" ELSE @.state, finalizer |-> FALSE]]
    /\ StopPass
    /\ UNCHANGED <<st, owner, world, clock, faults>>

-----------------------------------------------------------------------------
(* The surroundings. *)

Sync(c, s) ==
    /\ src' = [src EXCEPT ![c] = s]
    /\ UNCHANGED <<st, meta, pass, owner, wl, late, app, bak, spoilt, clock, faults>>

(* VolSync removes the clone of a sync that ended, then cuts a new one. *)
CleanClone(c) ==
    /\ src[c].clone # NoClone /\ src[c].clone.run = src[c].last
    /\ Sync(c, [src[c] EXCEPT !.clone = NoClone])
    /\ UNCHANGED snap

CutClone(c) ==
    /\ Busy(c) /\ src[c].clone = NoClone
    /\ Sync(c, [src[c] EXCEPT !.clone = [run |-> src[c].tag, made |-> clock, data |-> Content]])
    /\ UNCHANGED snap

(* The mover reads the clone.  A volume without files yields no snapshot. *)
MoverSucceeds(c) ==
    /\ Busy(c) /\ src[c].clone # NoClone /\ src[c].clone.run = src[c].tag
    /\ Sync(c, [src[c] EXCEPT !.last = src[c].tag, !.failed = FALSE])
    /\ snap' = [snap EXCEPT ![src[c].tag][c] =
                  IF c \in app.blank THEN @ ELSE [NoSnap EXCEPT !.saved = TRUE, !.data = src[c].clone.data]]

MoverFails(c) ==
    /\ Busy(c) /\ src[c].clone # NoClone /\ src[c].clone.run = src[c].tag
    /\ ~src[c].failed
    /\ src' = [src EXCEPT ![c].failed = TRUE]
    /\ Trouble
    /\ UNCHANGED <<st, meta, pass, owner, wl, late, app, snap, bak, spoilt, clock>>

(* CloudNativePG.  A base backup holds the database as of its end. *)
BackupEnds(r, d) ==
    /\ bak[r][d].phase = "running"
    /\ \/ bak' = [bak EXCEPT ![r][d] = [phase |-> "completed", data |-> Content]] /\ UNCHANGED faults
       \/ /\ Trouble
          /\ bak' = [bak EXCEPT ![r][d].phase = "failed"]
    /\ UNCHANGED <<st, meta, pass, owner, wl, late, app, src, snap, spoilt, clock>>

(* Kueue.  An evicted Workload goes back to the queue. *)
Kueue(r) ==
    /\ \/ /\ wl[r] \in {"pending", "evicted"} /\ wl' = [wl EXCEPT ![r] = "admitted"]
          /\ UNCHANGED faults
       \/ wl[r] = "admitted" /\ wl' = [wl EXCEPT ![r] = "evicted"] /\ Trouble
    /\ UNCHANGED <<st, meta, pass, owner, late, app, src, snap, bak, spoilt, clock>>

(* The workload's controller, and Flux while it is not suspended. *)
AppSteps ==
    /\ \/ app.replicas = 0 /\ app.pods /\ app' = [app EXCEPT !.pods = FALSE]
       \/ app.replicas = 1 /\ ~app.pods /\ app' = [app EXCEPT !.pods = TRUE, !.starts = @ + 1]
       \/ ~app.suspended /\ app.replicas = 0 /\ app' = [app EXCEPT !.replicas = 1]
    /\ UNCHANGED <<st, meta, pass, owner, wl, late, src, snap, bak, spoilt, clock, faults>>

(* A started run passes its deadline, or its namespace's timeout annotation *)
(* is changed to a value that does not parse.                              *)
Deadline(r) ==
    /\ st[r].phase = "Running" /\ r \notin late
    /\ late' = late \cup {r}
    /\ UNCHANGED <<st, meta, pass, owner, wl, app, src, snap, bak, spoilt, clock, faults>>

(* A user deletes the run: the pass under way holds an old copy from here. *)
Delete(r) ==
    /\ meta[r].state = "there"
    /\ meta' = [meta EXCEPT ![r].state = IF meta[r].finalizer THEN "deleting" ELSE "gone"]
    /\ pass' = [pass EXCEPT !.stale = @ \/ cur = r]
    /\ Trouble
    /\ UNCHANGED <<st, owner, world, clock>>

-----------------------------------------------------------------------------
Works ==
    \/ Plan \/ EnsureWorkload \/ Admit \/ EndIfEvicted \/ RecordLeases \/ TakeLeases
    \/ Pause \/ ApplySuspend \/ ApplyScale \/ PodsGone
    \/ \E c \in Claims : StartVolume(c)
    \/ \E d \in Clusters : StartDatabase(d)
    \/ ItemsStarted \/ Resume \/ ScaleUp \/ Unsuspend \/ Collect \/ EndWork
    \/ Release \/ ReleaseAll \/ DeleteWorkload \/ Finish \/ DropFinalizer

Fails == Fault \/ ApplyFails \/ \E t \in Things : StartFails(t)

Surroundings ==
    \/ \E c \in Claims : CleanClone(c) \/ CutClone(c) \/ MoverSucceeds(c) \/ MoverFails(c)
    \/ \E r \in Runs : Kueue(r) \/ Deadline(r) \/ Delete(r) \/ \E d \in Clusters : BackupEnds(r, d)
    \/ AppSteps

Next ==
    \/ \E r \in Runs : Reconcile(r) \/ Expire(r)
    \/ Works \/ Fails \/ Surroundings

Spec == Init /\ [][Next]_vars

-----------------------------------------------------------------------------
(* Properties. *)

Moments == 0 .. clock
ItemPhases == {"None", "Pending", "Running", "Succeeded", "Failed", "Skipped"}
Contents == {Torn} \cup 0 .. app.starts

Status ==
    [phase : {"", "Queued", "Running", "Succeeded", "Failed"}, items : [Things -> ItemPhases],
     saved : SUBSET Claims, based : SUBSET Clusters, workload : BOOLEAN, leases : BOOLEAN,
     pausedAt : Moments, resumedAt : Moments, paused : BOOLEAN, replicas : 0 .. 1,
     resumed : BOOLEAN, suspends : BOOLEAN]

Stages == {"idle", "plan", "admit", "start", "check", "record", "take", "pause", "suspend",
           "scale", "pods", "items", "resume", "scaleUp", "unsuspend", "collect", "write",
           "release", "giveBack", "deleteWorkload", "finish", "dropFinalizer"}

Passes ==
    [run : Runs \cup {NoRun}, pc : Stages, mem : Status, stale : BOOLEAN,
     end : {"", "Succeeded", "Failed", "Deleted"}, pausing : BOOLEAN]

RunTypes ==
    /\ st \in [Runs -> Status]
    /\ meta \in [Runs -> [state : {"there", "deleting", "gone"}, finalizer : BOOLEAN]]
    /\ owner \in [Names -> Runs \cup {NoRun}]
    /\ wl \in [Runs -> {"none", "pending", "admitted", "evicted"}]
    /\ late \subseteq Runs
    /\ spoilt \subseteq Runs

AppTypes ==
    app \in [replicas : 0 .. 1, pods : BOOLEAN, starts : Nat, suspended : BOOLEAN,
             marked : BOOLEAN, ownSuspend : BOOLEAN, asleep : SUBSET Clusters,
             blank : SUBSET Claims]

DataTypes ==
    /\ src \in [Claims -> [tag : Runs \cup {NoRun}, last : Runs \cup {NoRun}, failed : BOOLEAN,
                          clone : [run : Runs \cup {NoRun}, made : Moments, data : Contents]]]
    /\ snap \in [Runs -> [Claims -> [data : Contents, at : Moments, bases : SUBSET Clusters,
                                    saved : BOOLEAN]]]
    /\ bak \in [Runs -> [Clusters -> [phase : {"none", "running", "completed", "failed"},
                                      data : Contents]]]

TypeOK ==
    /\ RunTypes /\ pass \in Passes /\ AppTypes /\ DataTypes
    /\ clock \in Nat /\ faults \in 0 .. MaxFaults

(* "A failed or timed-out run resumes the app it paused" (README.md:52):   *)
(* once no unfinished run has a recorded pause, the workload has the       *)
(* replicas and the Kustomization the suspend flag that the owner gave     *)
(* them, whatever call failed and wherever a run was deleted, evicted or   *)
(* overdue.                                                                *)
AppGivenBack ==
    (\A r \in Runs : st[r].pausedAt # Never => ~Alive(r)) =>
        app.replicas = 1 /\ app.suspended = app.ownSuspend

(* Everything that carries the paused tag of one run holds one state of    *)
(* the app: the snapshots were cloned with no pod of the app running, in   *)
(* the same stop, the base backup of every Cluster of the run was taken in *)
(* that stop too, and all of them carry status.resumedAt (the promise of   *)
(* collectVolume's comment, which synced restores rely on).  Two defects   *)
(* of the code break it, and spoilt names the runs that met one: a failed  *)
(* read let the run pause beside a sync of another trigger                 *)
(* (backuprun.go:461), or another run, which gave its Leases back before   *)
(* its resume was stored, resumed the app under it (PauseIsExclusive).     *)
OnePointInTime ==
    \A r \in Runs \ spoilt, c \in Claims :
        LET s == snap[r][c] IN
        s.at # Never =>
            /\ s.data # Torn
            /\ s.at = st[r].resumedAt
            /\ \A b \in Claims : snap[r][b].at # Never => snap[r][b].data = s.data
            /\ \A d \in Clusters :
                 d \in s.bases /\ (d \in app.asleep \/ bak[r][d].data = s.data)

(* A run reports Succeeded only when each of its volumes can be restored   *)
(* from what it recorded: a volume with files has a recorded snapshot of   *)
(* this run, moved to the paused moment when the run paused the app, and   *)
(* each Cluster that was awake has a completed base backup.                *)
SucceededIsRestorable ==
    \A r \in Runs : st[r].phase = "Succeeded" =>
        /\ \A c \in Claims \cap Target(r) : c \in app.blank \/
             /\ c \in st[r].saved /\ snap[r][c].saved
             /\ st[r].paused => snap[r][c].at = st[r].resumedAt
        /\ \A d \in Clusters \cap Target(r) :
             d \in app.asleep \/ bak[r][d].phase = "completed"

(* README.md:49, "Two runs never act on the same claim, repository,        *)
(* Cluster or paused app at once; they take turns through [...] Leases":   *)
(* a pass that scales or suspends the app does not do so while another     *)
(* live run holds backup-pause.                                            *)
PauseIsExclusive ==
    pass.pc \in {"suspend", "scale", "scaleUp", "unsuspend"} =>
        owner[PauseName] \in {cur, NoRun} \/ ~Alive(owner[PauseName])

-----------------------------------------------------------------------------
(* Fairness.  controller-runtime delivers an unfinished run again and      *)
(* again, since every pass asks for a requeue or returns an error, and a   *)
(* pass that has begun goes on.  Time passes, so a started run reaches its *)
(* deadline.  Nothing is assumed of VolSync, CloudNativePG, Kueue, Flux or *)
(* the app's pods.                                                         *)
Fairness ==
    /\ WF_vars(Works)
    /\ \A r \in Runs : SF_vars(Reconcile(r)) /\ WF_vars(Deadline(r))

FairSpec == Spec /\ Fairness

(* A started run always ends, however the systems around it behave. *)
StartedRunsEnd == \A r \in Runs : st[r].phase = "Running" ~> ~Alive(r)

(* An app that a run scaled to zero runs again, under its owner's          *)
(* Kustomization.                                                          *)
AppComesBack ==
    app.replicas = 0 ~> app.replicas = 1 /\ app.suspended = app.ownSuspend
=============================================================================
