------------------------------ MODULE RestoreRun ------------------------------
(***************************************************************************)
(* The life of one RestoreRun: Reconcile and everything it calls in        *)
(* internal/runs/restorerun.go and internal/runs/restore_items.go, with    *)
(* the webhook of internal/bootstrap/webhook.go that admits the Clusters   *)
(* the run deleted when their owner creates them again.                    *)
(*                                                                         *)
(* As in BackupRun, a pass works on the copy of the run it read and every  *)
(* API call that changes the cluster is a step of its own; a pass can end  *)
(* before any of them.  Other runs are seen through the Leases only (one   *)
(* token here; Leases has them one by one), and the choice of snapshots    *)
(* and base backups is reduced to whether an item has one in reach.        *)
(***************************************************************************)
EXTENDS Naturals, FiniteSets

CONSTANTS
    Claims,      \* the marked claims, which the app mounts
    Clusters,    \* the marked CloudNativePG Clusters
    Copy,        \* the claim that spec.into names
    None,        \* no item, no request
    MaxFaults,   \* bound on failed calls, crashes, evictions and deletions
    MaxUID       \* bound on the Clusters created under one name

Volumes == Claims \cup {Copy}
Things == Volumes \cup Clusters

ASSUME ThingsAssumption ==
    /\ Claims \cap Clusters = {} /\ Copy \notin Claims \cup Clusters
    /\ None \notin Things
ASSUME BoundsAssumption == MaxFaults \in Nat /\ MaxUID \in Nat \ {0}

VARIABLES
    spec,     \* [pauses, into, asOf]: what the user asked for; never changes
    st,       \* the stored status
    meta,     \* [state, finalizer]: the stored object around it
    pass,     \* the pass under way
    lock,     \* who holds the run's Leases: "run", "other" or "free"
    wl,       \* the run's Kueue Workload
    late,     \* the deadline has passed
    app,      \* the listed workload and its Kustomization
    copy,     \* who made the claim Copy: "none", "run" or "other"
    job,      \* [Volumes -> restore Job]
    pod,      \* the volumes that a restore pod mounts and writes
    data,     \* [Volumes -> what the claim holds]
    dbs,      \* [Clusters -> Cluster]
    left,     \* the Clusters with an instance pod or claim left
    kept,     \* the Clusters whose selected base backup the store still holds
    request,  \* [Clusters -> create that the webhook let through, not stored yet]
    faults    \* failed calls, crashes, evictions and deletions so far

jobs == <<copy, job, pod, data>>
postgres == <<dbs, left, kept, request>>
world == <<lock, wl, late, app, jobs, postgres>>
vars == <<spec, st, meta, pass, world, faults>>

(* The status.  Beside BackupRun's fields: recorded, the volumes with a    *)
(* Job name; created, CreatedClaim of the copy; uid, the ClusterUID of     *)
(* each Cluster item; stop, the items with StopAtBaseBackup.               *)
Empty ==
    [phase |-> "", items |-> [t \in Things |-> "None"], recorded |-> {}, created |-> FALSE,
     uid |-> [d \in Clusters |-> 0], stop |-> {}, selected |-> FALSE, workload |-> FALSE,
     leases |-> FALSE, paused |-> FALSE, replicas |-> 0, suspends |-> FALSE,
     resumedAt |-> FALSE, resumed |-> FALSE]

Idle == [pc |-> "idle", mem |-> Empty, end |-> "", stale |-> FALSE, pausing |-> FALSE,
         todo |-> {}, item |-> None, shutting |-> FALSE]

Finished(phase) == phase \in {"Succeeded", "Failed"}
Alive == meta.state # "gone" /\ ~Finished(st.phase)

Init ==
    /\ \E pauses, asOf \in BOOLEAN : \E into \in {b \in BOOLEAN : b => ~asOf} :
         spec = [pauses |-> pauses, into |-> into, asOf |-> asOf]
    /\ st = Empty
    /\ meta = [state |-> "there", finalizer |-> FALSE]
    /\ pass = Idle
    /\ lock \in {"free", "other"}
    /\ wl = "none"
    /\ late = FALSE
    /\ \E suspended \in {FALSE, spec.pauses} :
         app = [replicas |-> 1, pods |-> TRUE, own |-> 1, suspended |-> suspended,
                ownSuspend |-> suspended]
    /\ copy \in {"none"} \cup IF spec.into THEN {"other"} ELSE {}
    /\ job = [v \in Volumes |-> "none"]
    /\ pod = {}
    /\ data = [v \in Volumes |-> "old"]
    /\ dbs = [d \in Clusters |-> [state |-> "there", uid |-> 1, ours |-> FALSE,
                                  target |-> "own", healthy |-> TRUE]]
    /\ left = Clusters
    /\ kept = Clusters
    /\ request = [d \in Clusters |-> None]
    /\ faults = 0

-----------------------------------------------------------------------------
(* A pass. *)

mem == pass.mem

At(pc) == pass.pc = pc

Step(pc, m) == [pass EXCEPT !.pc = pc, !.mem = m]
Goto(pc) == pass' = Step(pc, mem)
StopPass == pass' = Idle

(* writeStatus on a run that changed since the pass read it is a Conflict. *)
WriteStatus(m, next) ==
    IF pass.stale THEN StopPass /\ UNCHANGED st ELSE st' = m /\ pass' = next

Trouble == faults < MaxFaults /\ faults' = faults + 1

(* The call before which the pass stands fails, or the controller dies. *)
Fault ==
    /\ pass # Idle
    /\ Trouble
    /\ StopPass
    /\ UNCHANGED <<spec, st, meta, world>>

(* Reconcile reads the run, adds the finalizer, and picks the stage; a     *)
(* deleted run is finalized.                                               *)
Reconcile ==
    /\ pass = Idle
    /\ \/ /\ meta.state = "deleting" /\ meta.finalizer
          /\ pass' = [Idle EXCEPT !.pc = "release", !.mem = st, !.end = "Deleted"]
          /\ UNCHANGED meta
       \/ /\ meta.state = "there" /\ ~Finished(st.phase)
          /\ meta' = [meta EXCEPT !.finalizer = TRUE]
          /\ pass' = [Idle EXCEPT !.mem = st,
                                  !.pc = CASE st.phase = "" -> "plan"
                                           [] st.phase = "Queued" -> "admit"
                                           [] OTHER -> "check"]
    /\ UNCHANGED <<spec, st, world, faults>>

(* expire; a finalizer that could not be removed keeps the run. *)
Expire ==
    /\ pass = Idle
    /\ meta.state = "there" /\ Finished(st.phase)
    /\ meta' = [meta EXCEPT !.state = IF meta.finalizer THEN "deleting" ELSE "gone"]
    /\ UNCHANGED <<spec, st, pass, world, faults>>

Unended == {"Pending", "Running", "Deleted", "Recovering"}

(* A slip that TypeOK catches: the reason takes the place of the phase. *)
AbortWithReason(m) ==
    pass' = [pass EXCEPT !.pc = "release", !.end = "TimedOut", !.mem = m]

(* abort fails what has not ended, and finish releases. *)
Abort(m) ==
    pass' = [pass EXCEPT !.pc = "release", !.end = "Failed",
                         !.mem = [m EXCEPT !.items = [t \in Things |->
                                     IF m.items[t] \in Unended THEN "Failed" ELSE m.items[t]]]]

(* plan lists the items, the Clusters that archive nowhere as Skipped, or  *)
(* ends a run whose spec cannot work.                                      *)
Plan ==
    /\ At("plan")
    /\ \/ \E skipped \in SUBSET Clusters :
            LET items == IF spec.into THEN {Copy} ELSE Claims \cup Clusters IN
            WriteStatus([mem EXCEPT !.phase = "Queued",
                                    !.items = [t \in Things |->
                                        IF t \notin items THEN "None"
                                        ELSE IF t \in skipped THEN "Skipped" ELSE "Pending"]],
                        Idle)
       \/ pass' = [pass EXCEPT !.pc = "release", !.end = "Failed"] /\ UNCHANGED st
    /\ UNCHANGED <<spec, meta, world, faults>>

EnsureWorkload ==
    /\ At("admit")
    /\ wl' = IF wl = "none" THEN "pending" ELSE wl
    /\ pass' = Step("start", [mem EXCEPT !.workload = TRUE])
    /\ UNCHANGED <<spec, st, meta, lock, late, app, jobs, postgres, faults>>

(* admit names the Workload in the status and starts an admitted run. *)
Admit ==
    /\ At("start")
    /\ WriteStatus(IF wl = "admitted" THEN [mem EXCEPT !.phase = "Running"] ELSE mem, Idle)
    /\ UNCHANGED <<spec, meta, world, faults>>

(* A slip that RunEnds catches: the deadline is not looked at. *)
EndIfEvictedOnly ==
    /\ At("check")
    /\ IF mem.workload /\ wl = "evicted" THEN Abort(mem) ELSE Goto("record")
    /\ UNCHANGED <<spec, st, meta, world, faults>>

(* work looks at the Workload and the deadline first. *)
EndIfEvicted ==
    /\ At("check")
    /\ IF (mem.workload /\ wl = "evicted") \/ late THEN Abort(mem) ELSE Goto("record")
    /\ UNCHANGED <<spec, st, meta, world, faults>>

(* holding records the Lease names, then takes them or ends Busy. *)
RecordLeases ==
    /\ At("record")
    /\ IF mem.leases
       THEN Goto("take") /\ UNCHANGED st
       ELSE LET m == [mem EXCEPT !.leases = TRUE] IN WriteStatus(m, Step("take", m))
    /\ UNCHANGED <<spec, meta, world, faults>>

Pending == {t \in Things : mem.items[t] = "Pending"}

(* A slip that NothingChangedWithoutBackup catches: the pause comes first. *)
WorkerPausesFirst ==
    IF spec.pauses /\ ~mem.paused THEN "pause"
    ELSE IF ~mem.selected THEN "select"
    ELSE IF mem.paused /\ Pending # {} THEN "suspend" ELSE "volumes"

(* What work does once it holds the Leases. *)
Worker ==
    IF ~mem.selected THEN "select"
    ELSE IF spec.pauses /\ ~mem.paused THEN "pause"
    ELSE IF mem.paused /\ Pending # {} THEN "suspend" ELSE "volumes"

TakeLeases ==
    /\ At("take")
    /\ \/ lock = "other" /\ StopPass /\ UNCHANGED lock
       \/ /\ lock # "other"
          /\ lock' = "run"
          /\ pass' = [pass EXCEPT !.pc = Worker, !.todo = Volumes]
    /\ UNCHANGED <<spec, st, meta, wl, late, app, jobs, postgres, faults>>

(* selectBackups records what each item restores, or fails the items that  *)
(* have no backup in reach, skips the others and ends the run.             *)
Select ==
    /\ At("select")
    /\ \E unreachable \in SUBSET Pending :
         \/ /\ unreachable = {}
            /\ WriteStatus([mem EXCEPT !.selected = TRUE,
                                       !.stop = IF spec.asOf THEN Pending \cap Clusters ELSE {}],
                           Idle)
         \/ /\ unreachable # {}
            /\ pass' = [pass EXCEPT !.pc = "release", !.end = "Failed",
                                    !.mem.items = [t \in Things |->
                                        IF t \in unreachable THEN "Failed"
                                        ELSE IF t \in Pending THEN "Skipped" ELSE mem.items[t]]]
            /\ UNCHANGED st
    /\ UNCHANGED <<spec, meta, world, faults>>

-----------------------------------------------------------------------------
(* The pause. *)

(* pause records what it is about to change, or ends a run that lists a    *)
(* workload which is gone by now.                                          *)
Pause ==
    /\ At("pause")
    /\ \/ LET m == [mem EXCEPT !.paused = TRUE, !.replicas = app.replicas,
                               !.suspends = ~app.suspended]
          IN WriteStatus(m, [Step("suspend", m) EXCEPT !.pausing = TRUE]) /\ UNCHANGED faults
       \/ Trouble /\ Abort(mem) /\ UNCHANGED st
    /\ UNCHANGED <<spec, meta, world>>

SetSuspend(on) == app' = [app EXCEPT !.suspended = on]
Scale(replicas) == app' = [app EXCEPT !.replicas = replicas]

(* applyPause suspends the Kustomization, then scales the workload. *)
ApplySuspend ==
    /\ At("suspend")
    /\ IF mem.suspends THEN SetSuspend(TRUE) ELSE UNCHANGED app
    /\ Goto("scale")
    /\ UNCHANGED <<spec, st, meta, lock, wl, late, jobs, postgres, faults>>

ApplyScale ==
    /\ At("scale")
    /\ Scale(0)
    /\ IF pass.pausing THEN StopPass ELSE Goto("pods")
    /\ UNCHANGED <<spec, st, meta, lock, wl, late, jobs, postgres, faults>>

(* A patch of applyPause that fails ends the run. *)
ApplyFails ==
    /\ pass.pc \in {"suspend", "scale"}
    /\ Trouble
    /\ Abort(mem)
    /\ UNCHANGED <<spec, st, meta, world>>

(* pausedPodsGone *)
PodsGone ==
    /\ At("pods")
    /\ IF app.pods THEN StopPass ELSE Goto("volumes")
    /\ UNCHANGED <<spec, st, meta, world, faults>>

-----------------------------------------------------------------------------
(* The volumes: restoreVolume on each of them, once in a pass.  The code   *)
(* goes through status.items in order; here in any.                        *)

Visited(t) == [pass EXCEPT !.todo = @ \ {t}, !.item = None]
SetItem(t, phase) == pass' = [Visited(t) EXCEPT !.mem.items[t] = phase]
Leave(t) == pass' = Visited(t)

(* The step that goes on with volume v. *)
GoOn(v, pc, m) == [Step(pc, m) EXCEPT !.item = v]

(* claimHolder *)
Mounted(v) == v \in pod \/ (v \in Claims /\ app.pods)

(* A Pending volume of an in-place restore. *)
StartInPlace(v) ==
    /\ At("volumes") /\ v \in pass.todo \cap Pending \cap Claims
    /\ IF Mounted(v) THEN Leave(v) ELSE pass' = GoOn(v, "recordJob", mem)
    /\ UNCHANGED <<spec, st, meta, world, faults>>

(* intoClaim: the claim of an into restore has to be the run's own.        *)
(* CreatedClaim is recorded before the claim exists.                       *)
StartInto ==
    /\ At("volumes") /\ Copy \in pass.todo \cap Pending
    /\ \/ copy # "none" /\ ~mem.created /\ SetItem(Copy, "Failed") /\ UNCHANGED st
       \/ copy # "none" /\ mem.created /\ pass' = GoOn(Copy, "recordJob", mem) /\ UNCHANGED st
       \/ /\ copy = "none"
          /\ LET m == [mem EXCEPT !.created = TRUE] IN WriteStatus(m, GoOn(Copy, "createClaim", m))
       \/ copy = "none" /\ SetItem(Copy, "Failed") /\ UNCHANGED st      \* no size is known
    /\ UNCHANGED <<spec, meta, world, faults>>

CreateClaim ==
    /\ At("createClaim")
    /\ copy' = IF copy = "none" THEN "run" ELSE copy
    /\ Goto("recordJob")
    /\ UNCHANGED <<spec, st, meta, lock, wl, late, app, job, pod, data, postgres, faults>>

(* A slip that LeaseCoversRestic catches: the name is not written first. *)
RecordJobLater ==
    /\ At("recordJob")
    /\ pass' = Step("createJob", [mem EXCEPT !.recorded = @ \cup {pass.item}])
    /\ UNCHANGED <<spec, st, meta, world, faults>>

(* The Job's name is stored before the Job exists. *)
RecordJob ==
    /\ At("recordJob")
    /\ IF pass.item \in mem.recorded
       THEN Goto("createJob") /\ UNCHANGED st
       ELSE LET m == [mem EXCEPT !.recorded = @ \cup {pass.item}]
            IN WriteStatus(m, Step("createJob", m))
    /\ UNCHANGED <<spec, meta, world, faults>>

(* A repository that sourceRepository cannot read fails the item. *)
RepositoryGone ==
    /\ At("recordJob")
    /\ Trouble
    /\ pass' = [Visited(pass.item) EXCEPT !.pc = "volumes", !.mem.items[pass.item] = "Failed"]
    /\ UNCHANGED <<spec, st, meta, world>>

(* AlreadyExists counts as created. *)
CreateJob ==
    /\ At("createJob")
    /\ job' = [job EXCEPT ![pass.item] = IF @ = "none" THEN "running" ELSE @]
    /\ pass' = [Visited(pass.item) EXCEPT !.pc = "volumes", !.mem.items[pass.item] = "Running"]
    /\ UNCHANGED <<spec, st, meta, lock, wl, late, app, copy, pod, data, postgres, faults>>

(* A Running volume follows its Job; every other one is left as it is. *)
FollowJob(v) ==
    /\ At("volumes") /\ v \in pass.todo \ Pending
    /\ IF mem.items[v] # "Running" \/ job[v] = "running" THEN Leave(v)
       ELSE SetItem(v, IF job[v] = "complete" THEN "Succeeded" ELSE "Failed")
    /\ UNCHANGED <<spec, st, meta, world, faults>>

VolumesDone == \A v \in Volumes : mem.items[v] \notin {"Pending", "Running"}
VolumesFailed == \E v \in Volumes : mem.items[v] = "Failed"

VolumesVisited ==
    /\ At("volumes") /\ pass.todo = {}
    /\ pass' = [pass EXCEPT !.pc = IF VolumesDone THEN "databases" ELSE "resume",
                            !.todo = IF VolumesDone THEN Clusters ELSE {}]
    /\ UNCHANGED <<spec, st, meta, world, faults>>

-----------------------------------------------------------------------------
(* The databases: restoreDatabase on each of them, once in a pass. *)

Shutdown(d) == pass' = [Visited(d) EXCEPT !.shutting = TRUE]

(* A Pending database is left alone when a volume failed; else the pass    *)
(* reads the Cluster's UID.                                                *)
StartDatabase(d) ==
    /\ At("databases") /\ d \in pass.todo \cap Pending
    /\ \/ VolumesFailed /\ SetItem(d, "Skipped")
       \/ ~VolumesFailed /\ dbs[d].state = "gone" /\ SetItem(d, "Failed")
       \/ /\ ~VolumesFailed /\ dbs[d].state # "gone"
          /\ pass' = GoOn(d, "recordUID", [mem EXCEPT !.uid[d] = dbs[d].uid, !.items[d] = "Deleted"])
    /\ UNCHANGED <<spec, st, meta, world, faults>>

(* A slip that DeletesWhatItRecorded catches: no write before the delete. *)
RecordUIDLater ==
    /\ At("recordUID")
    /\ Goto("deleteCluster")
    /\ UNCHANGED <<spec, st, meta, world, faults>>

(* The UID and the phase Deleted are stored before the delete. *)
RecordUID ==
    /\ At("recordUID")
    /\ WriteStatus(mem, Step("deleteCluster", mem))
    /\ UNCHANGED <<spec, meta, world, faults>>

(* deleteClusterWithUID: a Cluster with another UID is left alone. *)
DeleteCluster ==
    /\ At("deleteCluster")
    /\ LET d == pass.item IN
       /\ dbs' = IF dbs[d].state = "there" /\ dbs[d].uid = mem.uid[d]
                 THEN [dbs EXCEPT ![d].state = "deleting"] ELSE dbs
       /\ pass' = [Visited(d) EXCEPT !.pc = "databases", !.shutting = TRUE]
    /\ UNCHANGED <<spec, st, meta, lock, wl, late, app, jobs, left, kept, request, faults>>

(* A Deleted database waits for the shutdown, then for its owner. *)
AwaitCluster(d) ==
    /\ At("databases") /\ d \in pass.todo /\ mem.items[d] = "Deleted"
    /\ LET found == dbs[d].state # "gone"
           old == found /\ dbs[d].uid = mem.uid[d]
       IN \/ old /\ dbs[d].state = "there" /\ pass' = GoOn(d, "deleteCluster", mem)
          \/ old /\ dbs[d].state = "deleting" /\ Shutdown(d)
          \/ found /\ ~old /\ SetItem(d, IF dbs[d].ours THEN "Recovering" ELSE "Failed")
          \/ ~found /\ d \in left /\ Shutdown(d)
          \/ ~found /\ d \notin left /\ Leave(d)
    /\ UNCHANGED <<spec, st, meta, world, faults>>

(* A Recovering database follows its Cluster. *)
FollowCluster(d) ==
    /\ At("databases") /\ d \in pass.todo /\ mem.items[d] \notin {"Pending", "Deleted"}
    /\ IF mem.items[d] # "Recovering" THEN Leave(d)
       ELSE IF dbs[d].state = "gone" THEN SetItem(d, "Failed")
       ELSE IF dbs[d].healthy THEN SetItem(d, "Succeeded") ELSE Leave(d)
    /\ UNCHANGED <<spec, st, meta, world, faults>>

DatabasesVisited ==
    /\ At("databases") /\ pass.todo = {}
    /\ Goto("resume")
    /\ UNCHANGED <<spec, st, meta, world, faults>>

-----------------------------------------------------------------------------
(* The resume and the end. *)

(* A slip that RestoresIntoStoppedApp catches: the Jobs are not awaited. *)
MayResumeEarly == mem.paused /\ Pending = {} /\ ~pass.shutting

(* Every volume is done and every old Cluster is gone. *)
MayResume == mem.paused /\ VolumesDone /\ Pending = {} /\ ~pass.shutting

(* status.resumedAt is stored before anything is scaled. *)
RecordResume ==
    IF mem.resumedAt THEN Goto("scaleUp") /\ UNCHANGED st
    ELSE LET m == [mem EXCEPT !.resumedAt = TRUE] IN WriteStatus(m, Step("scaleUp", m))

Resume ==
    /\ At("resume")
    /\ IF MayResume THEN RecordResume ELSE Goto("write") /\ UNCHANGED st
    /\ UNCHANGED <<spec, meta, world, faults>>

(* resumeWorkloads *)
ScaleUp ==
    /\ At("scaleUp")
    /\ IF ~mem.resumed THEN Scale(mem.replicas) ELSE UNCHANGED app
    /\ pass' = Step("unsuspend", [mem EXCEPT !.resumed = TRUE])
    /\ UNCHANGED <<spec, st, meta, lock, wl, late, jobs, postgres, faults>>

Unsuspend ==
    /\ At("unsuspend")
    /\ IF mem.suspends THEN SetSuspend(FALSE) ELSE UNCHANGED app
    /\ Goto(IF pass.end = "" THEN "write" ELSE "giveBack")
    /\ UNCHANGED <<spec, st, meta, lock, wl, late, jobs, postgres, faults>>

Done == \A t \in Things : mem.items[t] \notin Unended

(* The end of work. *)
EndWork ==
    /\ At("write")
    /\ IF Done /\ (mem.paused => mem.resumed)
       THEN /\ pass' = [pass EXCEPT !.pc = "release",
                                    !.end = IF \E t \in Things : mem.items[t] = "Failed"
                                            THEN "Failed" ELSE "Succeeded"]
            /\ UNCHANGED st
       ELSE WriteStatus(mem, Idle)
    /\ UNCHANGED <<spec, meta, world, faults>>

(* release deletes every recorded Job that has not failed by itself. *)
Deletable == {v \in mem.recorded : job[v] \in {"running", "complete"}}

DeleteJob(v) ==
    /\ At("release") /\ v \in Deletable
    /\ job' = [job EXCEPT ![v] = "none"]
    /\ UNCHANGED <<spec, st, meta, pass, lock, wl, late, app, copy, pod, data, postgres, faults>>

(* A slip that AppGivenBack catches: a recorded resume counts as done. *)
ReleaseRecorded ==
    /\ At("release") /\ Deletable = {}
    /\ IF mem.recorded \cap pod # {} THEN StopPass /\ UNCHANGED st
       ELSE IF mem.paused /\ ~mem.resumedAt THEN RecordResume
       ELSE Goto("giveBack") /\ UNCHANGED st
    /\ UNCHANGED <<spec, meta, world, faults>>

(* Then it waits for their pods, and resumes an app that is still paused. *)
Release ==
    /\ At("release") /\ Deletable = {}
    /\ IF mem.recorded \cap pod # {} THEN StopPass /\ UNCHANGED st
       ELSE IF mem.paused /\ ~mem.resumed THEN RecordResume
       ELSE Goto("giveBack") /\ UNCHANGED st
    /\ UNCHANGED <<spec, meta, world, faults>>

ReleaseAll ==
    /\ At("giveBack")
    /\ lock' = IF mem.leases /\ lock = "run" THEN "free" ELSE lock
    /\ Goto("deleteWorkload")
    /\ UNCHANGED <<spec, st, meta, wl, late, app, jobs, postgres, faults>>

DeleteWorkload ==
    /\ At("deleteWorkload")
    /\ wl' = "none"
    /\ Goto("finish")
    /\ UNCHANGED <<spec, st, meta, lock, late, app, jobs, postgres, faults>>

(* finish writes the phase; finalize writes the marks of a paused run. *)
Finish ==
    /\ At("finish")
    /\ IF pass.end = "Deleted" /\ ~mem.paused THEN Goto("dropFinalizer") /\ UNCHANGED st
       ELSE LET m == IF pass.end = "Deleted" THEN mem
                     ELSE [mem EXCEPT !.phase = pass.end, !.workload = FALSE]
            IN WriteStatus(m, Step("dropFinalizer", m))
    /\ UNCHANGED <<spec, meta, world, faults>>

DropFinalizer ==
    /\ At("dropFinalizer")
    /\ IF pass.stale THEN UNCHANGED meta
       ELSE meta' = [state |-> IF meta.state = "deleting" THEN "gone" ELSE meta.state,
                     finalizer |-> FALSE]
    /\ StopPass
    /\ UNCHANGED <<spec, st, world, faults>>

-----------------------------------------------------------------------------
(* The webhook. *)

(* waitingRun: the run deleted the Cluster and waits for it. *)
Waiting(d) == meta.state = "there" /\ ~Finished(st.phase) /\ st.items[d] = "Deleted"

(* A slip that SucceededIsRestored catches: every recovery replays it all. *)
RecoveryForAll(d) == "archive"

(* recoveryFor: where the recovery for the waiting run stops. *)
RecoveryFor(d) == IF d \in st.stop THEN "base" ELSE "archive"

(* Handle, on the create that the Cluster's owner sends.  It is refused    *)
(* while an old instance is left, when a run waits for a Cluster that      *)
(* declares a recovery of its own, and when the base backup to stop at is  *)
(* gone; a refusal changes nothing.  Without a run the Cluster recovers    *)
(* automatically.                                                          *)
Handle(d) ==
    /\ dbs[d].state = "gone" /\ request[d] = None /\ dbs[d].uid < MaxUID
    /\ d \notin left
    /\ \E declared \in BOOLEAN :
         /\ Waiting(d) => ~declared /\ (d \in kept \/ RecoveryFor(d) # "base")
         /\ request' = [request EXCEPT ![d] =
              [ours |-> Waiting(d), target |-> IF declared THEN "own"
                                               ELSE IF Waiting(d) THEN RecoveryFor(d) ELSE "auto"]]
    /\ UNCHANGED <<spec, st, meta, pass, lock, wl, late, app, jobs, dbs, left, kept, faults>>

(* The API server stores the Cluster as the webhook patched it. *)
StoreCluster(d) ==
    /\ request[d] # None
    /\ dbs' = [dbs EXCEPT ![d] = [state |-> "there", uid |-> @.uid + 1, ours |-> request[d].ours,
                                  target |-> request[d].target, healthy |-> FALSE]]
    /\ left' = left \cup {d}
    /\ request' = [request EXCEPT ![d] = None]
    /\ UNCHANGED <<spec, st, meta, pass, lock, wl, late, app, jobs, kept, faults>>

-----------------------------------------------------------------------------
(* The surroundings. *)

(* The Job controller starts restic, which overwrites the claim, and       *)
(* reports its result.                                                     *)
PodStarts(v) ==
    /\ job[v] = "running" /\ v \notin pod
    /\ pod' = pod \cup {v}
    /\ data' = [data EXCEPT ![v] = "part"]
    /\ UNCHANGED <<spec, st, meta, pass, lock, wl, late, app, copy, job, postgres, faults>>

PodEnds(v) ==
    /\ job[v] = "running" /\ v \in pod
    /\ \E result \in {"complete", "failed"} :
         /\ job' = [job EXCEPT ![v] = result]
         /\ data' = [data EXCEPT ![v] = IF result = "complete" THEN "whole" ELSE @]
    /\ pod' = pod \ {v}
    /\ UNCHANGED <<spec, st, meta, pass, lock, wl, late, app, copy, postgres, faults>>

(* The garbage collector stops the pod of a deleted Job. *)
PodStops(v) ==
    /\ job[v] = "none" /\ v \in pod
    /\ pod' = pod \ {v}
    /\ UNCHANGED <<spec, st, meta, pass, lock, wl, late, app, copy, job, data, postgres, faults>>

(* CloudNativePG and the garbage collector. *)
Postgres(d) ==
    /\ \/ /\ dbs[d].state = "deleting"
          /\ dbs' = [dbs EXCEPT ![d].state = "gone"] /\ UNCHANGED left
       \/ dbs[d].state = "gone" /\ d \in left /\ left' = left \ {d} /\ UNCHANGED dbs
       \/ /\ dbs[d].state = "there" /\ ~dbs[d].healthy
          /\ dbs' = [dbs EXCEPT ![d].healthy = TRUE] /\ UNCHANGED left
    /\ UNCHANGED <<spec, st, meta, pass, lock, wl, late, app, jobs, kept, request, faults>>

(* Retention drops the base backup that the run selected. *)
Prune(d) ==
    /\ d \in kept
    /\ kept' = kept \ {d}
    /\ Trouble
    /\ UNCHANGED <<spec, st, meta, pass, lock, wl, late, app, jobs, dbs, left, request>>

(* Somebody deletes a Cluster under the run. *)
UserDeletesCluster(d) ==
    /\ dbs[d].state = "there"
    /\ dbs' = [dbs EXCEPT ![d].state = "deleting"]
    /\ Trouble
    /\ UNCHANGED <<spec, st, meta, pass, lock, wl, late, app, jobs, left, kept, request>>

(* Kueue.  An evicted Workload goes back to the queue. *)
Kueue ==
    /\ \/ wl \in {"pending", "evicted"} /\ wl' = "admitted" /\ UNCHANGED faults
       \/ wl = "admitted" /\ wl' = "evicted" /\ Trouble
    /\ UNCHANGED <<spec, st, meta, pass, lock, late, app, jobs, postgres>>

(* Other runs take the Leases while they are free, and give them back. *)
OtherRuns ==
    /\ lock' = CASE lock = "free" -> "other" [] lock = "other" -> "free" [] OTHER -> lock
    /\ lock # "run"
    /\ UNCHANGED <<spec, st, meta, pass, wl, late, app, jobs, postgres, faults>>

(* The workload's controller, Flux while it is not suspended, and the      *)
(* owner of an app that the run does not pause.                            *)
AppSteps ==
    /\ \/ app.replicas = 0 /\ app.pods /\ app' = [app EXCEPT !.pods = FALSE]
       \/ app.replicas = 1 /\ ~app.pods /\ app' = [app EXCEPT !.pods = TRUE]
       \/ ~app.suspended /\ app.replicas # app.own /\ app' = [app EXCEPT !.replicas = app.own]
       \/ ~spec.pauses /\ app' = [app EXCEPT !.replicas = 1 - app.own, !.own = 1 - app.own]
    /\ UNCHANGED <<spec, st, meta, pass, lock, wl, late, jobs, postgres, faults>>

(* spec.timeout passes; the CRD sets it when the user does not. *)
Deadline ==
    /\ st.phase = "Running" /\ ~late
    /\ late' = TRUE
    /\ UNCHANGED <<spec, st, meta, pass, lock, wl, app, jobs, postgres, faults>>

(* A user deletes the run: the pass under way holds an old copy from here. *)
Delete ==
    /\ meta.state = "there"
    /\ meta' = [meta EXCEPT !.state = IF meta.finalizer THEN "deleting" ELSE "gone"]
    /\ pass' = [pass EXCEPT !.stale = pass # Idle]
    /\ Trouble
    /\ UNCHANGED <<spec, st, world>>

-----------------------------------------------------------------------------
Works ==
    \/ Plan \/ EnsureWorkload \/ Admit \/ EndIfEvicted \/ RecordLeases \/ TakeLeases
    \/ Select \/ Pause \/ ApplySuspend \/ ApplyScale \/ PodsGone
    \/ \E v \in Volumes : StartInPlace(v) \/ FollowJob(v) \/ DeleteJob(v)
    \/ StartInto \/ CreateClaim \/ RecordJob \/ CreateJob \/ VolumesVisited
    \/ \E d \in Clusters : StartDatabase(d) \/ AwaitCluster(d) \/ FollowCluster(d)
    \/ RecordUID \/ DeleteCluster \/ DatabasesVisited
    \/ Resume \/ ScaleUp \/ Unsuspend \/ EndWork
    \/ Release \/ ReleaseAll \/ DeleteWorkload \/ Finish \/ DropFinalizer

Fails == Fault \/ ApplyFails \/ RepositoryGone

Surroundings ==
    \/ \E v \in Volumes : PodStarts(v) \/ PodEnds(v) \/ PodStops(v)
    \/ \E d \in Clusters : \/ Handle(d) \/ StoreCluster(d) \/ Postgres(d)
                           \/ Prune(d) \/ UserDeletesCluster(d)
    \/ Kueue \/ OtherRuns \/ AppSteps \/ Deadline \/ Delete

Next == Reconcile \/ Expire \/ Works \/ Fails \/ Surroundings

Spec == Init /\ [][Next]_vars

-----------------------------------------------------------------------------
(* Properties. *)

Phases == {"", "Queued", "Running", "Succeeded", "Failed"}
Stages ==
    {"idle", "plan", "admit", "start", "check", "record", "take", "select", "pause", "suspend",
     "scale", "pods", "volumes", "createClaim", "recordJob", "createJob", "databases",
     "recordUID", "deleteCluster", "resume", "scaleUp", "unsuspend", "write", "release",
     "giveBack", "deleteWorkload", "finish", "dropFinalizer"}

Status ==
    [phase : Phases,
     items : [Things -> {"None", "Succeeded", "Failed", "Skipped"} \cup Unended],
     recorded : SUBSET Volumes, created : BOOLEAN, uid : [Clusters -> 0 .. MaxUID],
     stop : SUBSET Clusters, selected : BOOLEAN, workload : BOOLEAN, leases : BOOLEAN,
     paused : BOOLEAN, replicas : 0 .. 1, suspends : BOOLEAN, resumedAt : BOOLEAN,
     resumed : BOOLEAN]

Targets == {"own", "auto", "base", "archive"}

Passes ==
    [pc : Stages, mem : Status, end : {"", "Succeeded", "Failed", "Deleted"}, stale : BOOLEAN,
     pausing : BOOLEAN, todo : SUBSET Things, item : Things \cup {None}, shutting : BOOLEAN]

RunTypes ==
    /\ spec \in [pauses : BOOLEAN, into : BOOLEAN, asOf : BOOLEAN]
    /\ st \in Status
    /\ meta \in [state : {"there", "deleting", "gone"}, finalizer : BOOLEAN]
    /\ pass \in Passes

AppTypes ==
    app \in [replicas : 0 .. 1, pods : BOOLEAN, own : 0 .. 1, suspended : BOOLEAN,
             ownSuspend : BOOLEAN]

JobTypes ==
    /\ copy \in {"none", "run", "other"}
    /\ job \in [Volumes -> {"none", "running", "complete", "failed"}]
    /\ pod \subseteq Volumes
    /\ data \in [Volumes -> {"old", "part", "whole"}]

PostgresTypes ==
    /\ dbs \in [Clusters -> [state : {"there", "deleting", "gone"}, uid : 1 .. MaxUID,
                             ours : BOOLEAN, target : Targets, healthy : BOOLEAN]]
    /\ left \subseteq Clusters /\ kept \subseteq Clusters
    /\ request \in [Clusters -> {None} \cup [ours : BOOLEAN, target : Targets]]

TypeOK ==
    /\ RunTypes /\ AppTypes /\ JobTypes /\ PostgresTypes
    /\ lock \in {"free", "run", "other"}
    /\ wl \in {"none", "pending", "admitted", "evicted"}
    /\ late \in BOOLEAN
    /\ faults \in 0 .. MaxFaults

(* "In every case the run resumes what it paused" (docs/restores.md): once *)
(* no unfinished run has a recorded pause, the app has the replicas and    *)
(* its Kustomization the suspend flag that their owner gave them, whatever *)
(* call failed and wherever the run was deleted, evicted or overdue.       *)
AppGivenBack ==
    spec.pauses /\ (st.paused => ~Alive) => app.replicas = 1 /\ app.suspended = app.ownSuspend

(* A restore Job of an in-place claim is created only when the app that    *)
(* the run paused is scaled down and its pods are gone, and nobody scales  *)
(* the app up next to an unfinished Job or to a pod of one, in no order of *)
(* resume, abort, re-admission, retry and Flux: unless the run has given   *)
(* the volume up.  It does so without a look at the pod when it finds the  *)
(* Job gone, as it does once it is admitted again after the release that   *)
(* deleted the Job, and without a look at the Job when the pass that       *)
(* created it was cut short and the repository can no longer be read.      *)
RestoresIntoStoppedApp ==
    [][spec.pauses => \A c \in Claims :
         /\ job[c] = "none" /\ job'[c] = "running" => app.replicas = 0 /\ ~app.pods
         /\ (job[c] = "running" \/ c \in pod) /\ app.replicas = 0 /\ app'.replicas # 0 =>
              mem.items[c] = "Failed"]_vars

(* "Until the pods of the deleted Jobs have stopped, release returns an    *)
(* error, so the caller tries again and the app never runs while restic    *)
(* still writes its claim" (restorerun.go:588-590).                        *)
AppNeverRunsUnderRestic == spec.pauses => \A c \in Claims \cap pod : ~app.pods

(* restic never writes a claim or reads a repository without the run's     *)
(* Leases: release gives them back only when no restore pod is left, and   *)
(* finds the Jobs of the passes that were cut short.                       *)
LeaseCoversRestic == pod # {} => lock = "run"

(* "At that point the run has paused, deleted and overwritten nothing"     *)
(* (docs/restores.md): until the backups of all items are selected and     *)
(* that is stored, and so for good in a run that ended NoBackupInReach, no *)
(* Job, claim or pause exists, and the Clusters are as their owner made    *)
(* them.                                                                   *)
NothingChangedWithoutBackup ==
    ~st.selected =>
        /\ \A v \in Volumes : job[v] = "none" /\ data[v] = "old"
        /\ copy # "run"
        /\ spec.pauses => app.replicas = 1 /\ app.suspended = app.ownSuspend
        /\ \A d \in Clusters : ~dbs[d].ours

(* The run deletes a Cluster only once its own status says so, with the    *)
(* UID of the very Cluster it deletes, and only after every volume holds   *)
(* its snapshot: the Cluster it selected a backup for is never lost to a   *)
(* volume that failed, and a Cluster created since is never deleted.       *)
DeletesWhatItRecorded ==
    [][\A d \in Clusters :
         dbs[d].state = "there" /\ dbs'[d].state = "deleting" /\ pass' # pass =>
             /\ st.items[d] = "Deleted" /\ st.uid[d] = dbs[d].uid
             /\ \A v \in Volumes : st.items[v] \in {"None", "Succeeded"} /\ data[v] # "part"]_vars

(* A run that reports Succeeded restored everything: each volume holds the *)
(* whole snapshot, and each Cluster is the one that followed the deleted   *)
(* one, and recovered to the target the run selected.  The exception is a  *)
(* Cluster created still later: a Recovering item takes it for the         *)
(* recovery (restore_items.go:328), although docs/restores.md:117 has the  *)
(* item fail when the Cluster is deleted again, and the run succeeds.      *)
SucceededIsRestored ==
    st.phase = "Succeeded" =>
        /\ \A v \in Volumes : st.items[v] # "None" => data[v] = "whole" /\ v \notin pod
        /\ \A d \in Clusters : st.items[d] = "Succeeded" =>
             \/ /\ dbs[d].uid = st.uid[d] + 1 /\ dbs[d].ours
                /\ dbs[d].target = IF spec.asOf THEN "base" ELSE "archive"
             \/ dbs[d].uid > st.uid[d] + 1

-----------------------------------------------------------------------------
(* Fairness.  controller-runtime delivers an unfinished run again and      *)
(* again, and a pass that has begun goes on; the run reaches its deadline; *)
(* the garbage collector stops the pods of a deleted Job.  Nothing is      *)
(* assumed of the Jobs, CloudNativePG, Kueue, Flux and the other runs.     *)
Fairness ==
    /\ WF_vars(Works) /\ SF_vars(Reconcile) /\ WF_vars(Deadline)
    /\ \A v \in Volumes : WF_vars(PodStops(v))

FairSpec == Spec /\ Fairness

(* A started run ends and its app runs again, however long a Job hangs,    *)
(* the owner of a Cluster takes to create it, or another run keeps the     *)
(* Leases.                                                                 *)
RunEnds == st.phase = "Running" ~> ~Alive /\ (spec.pauses => app.replicas = 1)
=============================================================================
