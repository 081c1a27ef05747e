--------------------------- MODULE RestoreRunProofs ---------------------------
(***************************************************************************)
(* Proofs about RestoreRun, for any claims, Clusters and number of faults. *)
(* The inductive invariant has three parts: Stored relates the stored run  *)
(* to the cluster and does not look at a pass; InMemory is about the       *)
(* status in the hands of a pass, wherever the pass stands; Control is     *)
(* about the stage of the pass.                                            *)
(***************************************************************************)
EXTENDS RestoreRun, TLAPS

(* The stages of a pass: before it has the Leases, while it works, while   *)
(* it resumes the app, and while it ends the run.                          *)
Starting == {"plan", "admit", "start", "check", "record", "take"}
Visiting == {"createClaim", "recordJob", "createJob"}
Working ==
    {"select", "pause", "suspend", "scale", "pods", "volumes", "createClaim", "recordJob",
     "createJob", "databases", "recordUID", "deleteCluster", "resume", "write"}
Resuming == {"scaleUp", "unsuspend"}
Returning == {"giveBack", "deleteWorkload", "finish", "dropFinalizer"}
Ending == {"release", "giveBack", "deleteWorkload", "finish", "dropFinalizer"}

On == pass.pc # "idle"
InWork == pass.pc \in Working \/ (pass.pc \in Resuming /\ pass.end = "")
OwnApp == app.replicas = 1 /\ app.suspended = app.ownSuspend
Target == IF spec.asOf THEN "base" ELSE "archive"

-----------------------------------------------------------------------------
(* The inductive invariant. *)

(* Nothing happens before the backups are selected. *)
Ahead(s) ==
    /\ s.phase \in {"", "Queued"} => ~s.selected
    /\ s.phase = "Succeeded" => s.selected
    /\ s.paused => s.selected /\ spec.pauses
    /\ s.resumed => s.paused
    /\ s.recorded # {} => s.selected
    /\ \A t \in Things :
         s.items[t] \in {"Running", "Succeeded", "Deleted", "Recovering"} => s.selected

(* A volume that counts as restored is whole, and no Job writes it again. *)
VolumesInv(s) ==
    \A v \in Volumes :
        /\ s.items[v] \notin {"Deleted", "Recovering"}
        /\ v \in s.recorded => s.items[v] \notin {"None", "Skipped"}
        /\ s.selected => s.items[v] # "Skipped"
        /\ s.items[v] = "Succeeded" => data[v] = "whole" /\ job[v] # "running" /\ v \notin pod
        /\ s.phase = "Succeeded" => s.items[v] \in {"None", "Succeeded"}

(* A Cluster is deleted after the volumes, and what followed the deleted   *)
(* one and counts as its recovery is one that the webhook gave a recovery. *)
DatabasesInv(s) ==
    \A d \in Clusters :
        /\ s.items[d] = "Deleted" => /\ \A v \in Volumes : s.items[v] \in {"None", "Succeeded"}
                                     /\ s.uid[d] <= dbs[d].uid
        /\ s.items[d] \in {"Recovering", "Succeeded"} =>
             s.uid[d] < dbs[d].uid /\ (dbs[d].uid = s.uid[d] + 1 => dbs[d].ours)
        /\ spec.asOf /\ s.selected /\ s.items[d] \in {"Pending", "Deleted"} => d \in s.stop

StatusInv(s) == Ahead(s) /\ VolumesInv(s) /\ DatabasesInv(s)

LeaseInv == \A v \in Volumes : job[v] = "running" \/ v \in pod => lock = "run"

(* What a Job did is recorded, and the claim of a complete Job is whole. *)
JobInv(s) ==
    /\ \A v \in Volumes :
         /\ job[v] # "none" \/ v \in pod \/ data[v] # "old" => v \in s.recorded
         /\ job[v] = "complete" => data[v] = "whole"
         /\ job[v] \in {"complete", "failed"} => v \notin pod
    /\ copy = "run" => s.selected

(* The status records how the owner had the app; a marked resume is done.  *)
AppInv(s) ==
    spec.pauses =>
        /\ app.own = 1
        /\ app.ownSuspend => app.suspended
        /\ app.replicas = 0 => app.suspended
        /\ ~s.paused \/ s.resumed => OwnApp
        /\ s.paused => s.replicas = 1 /\ s.suspends # app.ownSuspend

DbInv(s) ==
    \A d \in Clusters :
        /\ request[d] # None => /\ dbs[d].state = "gone" /\ dbs[d].uid < MaxUID
                                /\ request[d].ours => s.selected /\ request[d].target = Target
        /\ dbs[d].ours => s.selected /\ dbs[d].target = Target

(* What the stored object says of the end of the run. *)
LifeInv(s) ==
    /\ Finished(s.phase) \/ ~meta.finalizer => (s.paused => s.resumed)
    /\ meta.state = "gone" => ~meta.finalizer
    /\ s.resumed /\ meta.state = "there" => \A t \in Things : s.items[t] # "Pending"
    /\ ~Finished(s.phase) => \A v \in Volumes : s.items[v] # "Skipped"
    /\ ~spec.asOf => s.stop = {}

Stored(s) == StatusInv(s) /\ LeaseInv /\ JobInv(s) /\ AppInv(s) /\ DbInv(s) /\ LifeInv(s)

(* What the pass has in hand differs from the store only in the phases of  *)
(* the items, UIDs, the Workload and the marks of a resume: the rest is    *)
(* stored before it is acted on.                                           *)
Agree(m) ==
    /\ m.phase = st.phase /\ m.leases = st.leases /\ m.selected = st.selected
    /\ m.stop = st.stop /\ m.created = st.created /\ m.recorded = st.recorded
    /\ m.paused = st.paused /\ m.replicas = st.replicas /\ m.suspends = st.suspends
    /\ m.resumedAt = st.resumedAt

MemInv(m) ==
    /\ StatusInv(m)
    /\ Agree(m)
    /\ st.resumed => m.resumed
    /\ \A v \in Volumes : st.items[v] = "Succeeded" => m.items[v] = "Succeeded"
    /\ spec.pauses /\ m.resumed => app.replicas = 1

(* How the run is to end. *)
EndInv(m, end) ==
    /\ end = "Deleted" => meta.state # "there"
    /\ end # "Deleted" /\ m.resumed => \A t \in Things : m.items[t] # "Pending"
    /\ end = "" => \A v \in Volumes : m.items[v] # "Skipped"
    /\ end = "Succeeded" =>
         m.selected /\ \A t \in Things : m.items[t] \notin Unended \cup {"Failed"}
    /\ end \in {"Succeeded", "Failed"} /\ m.paused => \A t \in Things : m.items[t] # "Pending"

InMemory == On => meta.finalizer /\ MemInv(mem) /\ EndInv(mem, pass.end)

(* The stage and what the pass goes on with. *)
ShapeInv ==
    /\ On \/ pass = Idle
    /\ pass.pc \in Starting \cup Working => pass.end = ""
    /\ pass.pc \in Ending => pass.end # ""
    /\ pass.pc \in Visiting => pass.item \in Volumes /\ mem.items[pass.item] = "Pending"
    /\ At("createJob") => pass.item \in mem.recorded
    /\ pass.pc \in {"recordUID", "deleteCluster"} =>
         pass.item \in Clusters /\ mem.items[pass.item] = "Deleted"

(* A Cluster is deleted with what the stored status says. *)
DeleteInv ==
    On => \A d \in Clusters :
        mem.items[d] = "Deleted" /\ ~(At("recordUID") /\ pass.item = d) =>
            st.items[d] = "Deleted" /\ st.uid[d] = mem.uid[d]

(* The stage, the phase of the run, and the Leases. *)
StageInv ==
    /\ At("plan") => mem.phase = ""
    /\ pass.pc \in {"admit", "start"} => mem.phase = "Queued"
    /\ pass.pc \in {"check", "record", "take"} \/ InWork => mem.phase = "Running"
    /\ InWork => (mem.selected <=> ~At("select"))
    /\ InWork => lock = "run"
    /\ At("giveBack") \/ (pass.pc \in Resuming /\ pass.end # "") =>
         pod = {} /\ \A v \in Volumes : job[v] # "running"

(* The stage and the pause. *)
PauseInv ==
    /\ pass.pc \in {"suspend", "scale", "pods"} \cup Resuming => mem.paused
    /\ At("pause") => spec.pauses /\ ~mem.paused
    /\ pass.pc \in {"pause", "suspend", "scale", "pods"} => ~mem.resumed
    /\ At("databases") => VolumesDone
    /\ pass.pc \in Resuming /\ pass.end = "" => VolumesDone /\ Pending = {}
    /\ At("unsuspend") => mem.resumed
    /\ spec.pauses /\ On /\ mem.resumed /\ ~At("unsuspend") => OwnApp
    /\ pass.pc \in Returning /\ mem.paused => mem.resumed
    /\ At("dropFinalizer") /\ st.paused => st.resumed

(* Where Jobs are created, the app is down. *)
DownInv ==
    spec.pauses =>
        /\ At("scale") => app.suspended
        /\ At("pods") => app.suspended /\ app.replicas = 0
        /\ pass.pc \in {"volumes"} \cup Visiting /\ Pending # {} =>
             app.suspended /\ app.replicas = 0 /\ ~app.pods

Control == ShapeInv /\ DeleteInv /\ StageInv /\ PauseInv /\ DownInv

IInv == TypeOK /\ Stored(st) /\ InMemory /\ Control

-----------------------------------------------------------------------------
(* Types and frames. *)

LEMMA EmptyType == Empty \in Status
BY BoundsAssumption DEF Empty, Status, Phases, Unended

LEMMA IdleType == Idle \in Passes
BY EmptyType DEF Idle, Passes, Stages

SamePass(p, q) ==
    p.end = q.end /\ p.stale = q.stale /\ p.todo = q.todo /\ p.item = q.item

LEMMA StepType ==
    ASSUME pass \in Passes, NEW pc \in Stages, NEW m \in Status
    PROVE  /\ Step(pc, m) \in Passes /\ Step(pc, m).pc = pc /\ Step(pc, m).mem = m
           /\ SamePass(Step(pc, m), pass)
BY DEF Passes, Step, SamePass

LEMMA MemType ==
    ASSUME TypeOK
    PROVE  pass \in Passes /\ mem \in Status /\ st \in Status
BY DEF TypeOK, RunTypes, Passes, mem

(* What the invariant reads of the cluster stays as it is. *)
Quiet ==
    /\ spec' = spec /\ lock' = lock /\ app' = app /\ copy' = copy /\ job' = job /\ pod' = pod
    /\ data' = data /\ dbs' = dbs /\ request' = request

LEMMA WorldQuiet ==
    ASSUME UNCHANGED <<spec, world>>
    PROVE  Quiet /\ wl' = wl /\ late' = late /\ left' = left /\ kept' = kept
BY DEF Quiet, world, jobs, postgres

LEMMA TypesKept ==
    /\ AppTypes /\ UNCHANGED app => AppTypes'
    /\ JobTypes /\ UNCHANGED jobs => JobTypes'
    /\ PostgresTypes /\ UNCHANGED postgres => PostgresTypes'
    /\ RunTypes /\ UNCHANGED <<spec, st, meta>> /\ pass' \in Passes => RunTypes'
BY DEF AppTypes, JobTypes, PostgresTypes, RunTypes, jobs, postgres

(* The types of a step of a pass. *)
LEMMA PassTypes ==
    ASSUME TypeOK, UNCHANGED <<spec, world>>, pass' \in Passes, st' \in Status,
           meta' \in [state : {"there", "deleting", "gone"}, finalizer : BOOLEAN],
           faults' \in 0 .. MaxFaults
    PROVE  TypeOK'
BY TypesKept DEF TypeOK, RunTypes, world

LEMMA TroubleType ==
    ASSUME TypeOK, faults' = faults \/ Trouble
    PROVE  faults' \in 0 .. MaxFaults
<1> faults \in 0 .. MaxFaults /\ MaxFaults \in Nat
  BY BoundsAssumption DEF TypeOK
<1> QED BY DEF Trouble

(* A status that is right for the cluster as it is may be stored. *)
LEMMA StoredKept ==
    ASSUME NEW m, Stored(m), Quiet, st' = m, meta' = meta
    PROVE  Stored(st)'
<1>1. StatusInv(st)'
  BY DEF Stored, StatusInv, Ahead, VolumesInv, DatabasesInv, Quiet
<1>2. LeaseInv' /\ JobInv(st)'
  BY DEF Stored, LeaseInv, JobInv, Quiet
<1>3. AppInv(st)'
  BY DEF Stored, AppInv, OwnApp, Quiet
<1>4. DbInv(st)'
  BY DEF Stored, DbInv, Target, Quiet
<1>5. LifeInv(st)'
  BY DEF Stored, LifeInv, Quiet
<1> QED BY <1>1, <1>2, <1>3, <1>4, <1>5 DEF Stored

(* A pass that ends here leaves nothing behind but what is stored. *)
LEMMA IdleControl ==
    ASSUME pass' = Idle
    PROVE  InMemory' /\ Control'
<1> pass'.pc = "idle" /\ pass'.end = ""
  BY DEF Idle
<1> QED
  BY DEF InMemory, On, Control, ShapeInv, DeleteInv, StageInv, PauseInv, DownInv, InWork, At,
         Starting, Working, Ending, Visiting, Resuming, Returning

LEMMA StopKeeps ==
    ASSUME IInv, pass' = Idle, UNCHANGED <<spec, st, meta, world>>, faults' = faults \/ Trouble
    PROVE  IInv'
<1>1. TypeOK'
  BY PassTypes, TroubleType, IdleType DEF IInv, TypeOK, RunTypes
<1>2. Stored(st)'
  BY StoredKept, WorldQuiet DEF IInv
<1> QED BY <1>1, <1>2, IdleControl DEF IInv

LEMMA WriteStopKeeps ==
    ASSUME IInv, NEW m \in Status, Stored(m), st' = m, pass' = Idle,
           UNCHANGED <<spec, meta, world, faults>>
    PROVE  IInv'
<1>1. TypeOK'
  BY PassTypes, IdleType DEF IInv, TypeOK, RunTypes
<1>2. Stored(st)'
  BY StoredKept, WorldQuiet DEF IInv
<1> QED BY <1>1, <1>2, IdleControl DEF IInv

(* The fields that a step of a pass on items leaves alone. *)
Alike(m, n) ==
    /\ m.phase = n.phase /\ m.leases = n.leases /\ m.selected = n.selected
    /\ m.stop = n.stop /\ m.created = n.created /\ m.recorded = n.recorded
    /\ m.paused = n.paused /\ m.replicas = n.replicas /\ m.suspends = n.suspends
    /\ m.resumedAt = n.resumedAt /\ m.resumed = n.resumed

LEMMA StatusKept ==
    ASSUME UNCHANGED <<spec, job, pod, data, dbs>>, NEW m, pass'.mem = m, StatusInv(m)
    PROVE  StatusInv(mem)'
BY DEF StatusInv, Ahead, VolumesInv, DatabasesInv, mem

(* The status in hand stays right while the Leases change hands and the   *)
(* claim of a copy comes.                                                  *)
LEMMA InMemoryKept ==
    ASSUME InMemory, On, UNCHANGED <<spec, st, meta, app, job, pod, data, dbs>>,
           pass'.mem = mem, pass'.end = pass.end
    PROVE  InMemory'
<1>1. meta.finalizer /\ MemInv(mem) /\ EndInv(mem, pass.end)
  BY DEF InMemory
<1>2. StatusInv(mem)'
  BY <1>1, StatusKept DEF MemInv
<1>3. MemInv(mem)'
  BY <1>1, <1>2 DEF MemInv, Agree, mem
<1>4. EndInv(mem, pass.end)'
  BY <1>1 DEF EndInv, mem
<1> QED BY <1>1, <1>3, <1>4 DEF InMemory

(* A pass goes on with other items. *)
LEMMA ItemsKeep ==
    ASSUME IInv, On, Quiet, st' = st, meta' = meta, TypeOK', Control',
           NEW m, pass'.mem = m, Alike(m, mem), StatusInv(m), EndInv(m, pass'.end),
           \A v \in Volumes : mem.items[v] = "Succeeded" => m.items[v] = "Succeeded"
    PROVE  IInv'
<1>1. meta.finalizer /\ MemInv(mem)
  BY DEF InMemory, IInv
<1>2. StatusInv(mem)'
  BY StatusKept DEF Quiet
<1>3. MemInv(mem)'
  BY <1>1, <1>2 DEF MemInv, Agree, Alike, Quiet, mem
<1>4. EndInv(mem, pass.end)'
  BY DEF EndInv, mem
<1>5. Stored(st)'
  BY StoredKept DEF IInv
<1> QED BY <1>1, <1>3, <1>4, <1>5 DEF IInv, InMemory

(* A pass goes on with the same status in hand. *)
LEMMA MoveKeeps ==
    ASSUME IInv, On, Quiet, st' = st, meta' = meta, TypeOK', Control',
           pass'.mem = mem, pass'.end = pass.end
    PROVE  IInv'
BY ItemsKeep DEF IInv, InMemory, MemInv, Alike

(* A pass stores a status and goes on with it. *)
LEMMA WriteKeeps ==
    ASSUME IInv, On, Quiet, meta' = meta, TypeOK', Control',
           NEW m, st' = m, pass'.mem = m, Stored(m), EndInv(m, pass'.end),
           spec.pauses /\ m.resumed => app.replicas = 1
    PROVE  IInv'
<1>1. meta.finalizer
  BY DEF InMemory, IInv
<1>2. StatusInv(mem)'
  BY StatusKept DEF Stored, Quiet
<1>3. MemInv(mem)'
  BY <1>2 DEF MemInv, Agree, Quiet, mem
<1>4. EndInv(mem, pass.end)'
  BY DEF EndInv, mem
<1>5. Stored(st)'
  BY StoredKept DEF IInv
<1> QED BY <1>1, <1>3, <1>4, <1>5 DEF IInv, InMemory

USE DEF At, On, mem, InWork, Starting, Working, Visiting, Resuming, Returning, Ending

(* The fields of a status that the invariant reads. *)
SameFacts(m, n) ==
    /\ m.phase = n.phase /\ m.selected = n.selected /\ m.stop = n.stop
    /\ m.recorded = n.recorded /\ m.paused = n.paused /\ m.replicas = n.replicas
    /\ m.suspends = n.suspends /\ m.resumed = n.resumed /\ m.items = n.items /\ m.uid = n.uid

LEMMA SameFactsKept ==
    ASSUME NEW m, NEW n, SameFacts(n, m), NEW end
    PROVE  (Stored(m) => Stored(n)) /\ (EndInv(m, end) => EndInv(n, end))
<1>1. ASSUME Stored(m) PROVE Stored(n)
  <2>1. StatusInv(n)
    BY <1>1 DEF Stored, SameFacts, StatusInv, Ahead, VolumesInv, DatabasesInv
  <2> QED BY <1>1, <2>1 DEF Stored, SameFacts, JobInv, AppInv, DbInv, LifeInv
<1>2. ASSUME EndInv(m, end) PROVE EndInv(n, end)
  BY <1>2 DEF SameFacts, EndInv
<1> QED BY <1>1, <1>2

(* What the run has of Jobs, the app and the Clusters is in hand as well   *)
(* as stored, but not between the two halves of a resume.                  *)
LEMMA InHandAgrees ==
    ASSUME IInv, On, ~At("unsuspend")
    PROVE  JobInv(mem) /\ DbInv(mem) /\ AppInv(mem)
<1>1. MemInv(mem) /\ Stored(st) /\ PauseInv
  BY DEF IInv, InMemory, Control
<1>2. JobInv(mem) /\ DbInv(mem)
  BY <1>1 DEF MemInv, Agree, Stored, JobInv, DbInv
<1>3. AppInv(mem)
  BY <1>1 DEF MemInv, Agree, Stored, AppInv, PauseInv
<1> QED BY <1>2, <1>3

(* What an unfinished run's pass has in hand may be stored. *)
LEMMA InHandIsStorable ==
    ASSUME IInv, On, ~At("unsuspend"), ~Finished(mem.phase),
           \A v \in Volumes : mem.items[v] # "Skipped"
    PROVE  Stored(mem)
<1>1. MemInv(mem) /\ EndInv(mem, pass.end) /\ meta.finalizer /\ Stored(st)
  BY DEF IInv, InMemory
<1>2. JobInv(mem) /\ DbInv(mem) /\ AppInv(mem)
  BY InHandAgrees
<1>3. LifeInv(mem)
  BY <1>1 DEF MemInv, Agree, Stored, LifeInv, EndInv
<1> QED BY <1>1, <1>2, <1>3 DEF MemInv, Stored

(* The object around the status changes. *)
LEMMA LifeKept ==
    ASSUME Stored(st), UNCHANGED <<spec, st, world>>, LifeInv(st)'
    PROVE  Stored(st)'
<1>1. Quiet
  BY WorldQuiet
<1>2. StatusInv(st)'
  BY <1>1 DEF Stored, StatusInv, Ahead, VolumesInv, DatabasesInv, Quiet
<1>3. LeaseInv' /\ JobInv(st)'
  BY <1>1 DEF Stored, LeaseInv, JobInv, Quiet
<1>4. AppInv(st)' /\ DbInv(st)'
  BY <1>1 DEF Stored, AppInv, OwnApp, DbInv, Target, Quiet
<1> QED BY <1>2, <1>3, <1>4 DEF Stored

LEMMA ShapeSame ==
    ASSUME ShapeInv, pass' = pass
    PROVE  ShapeInv'
BY DEF ShapeInv

-----------------------------------------------------------------------------
(* The steps of a pass. *)

LEMMA AbortKeeps ==
    ASSUME IInv, On, pass.end = "", ~At("unsuspend"), Abort(mem),
           UNCHANGED <<spec, st, meta, world>>, faults' = faults \/ Trouble
    PROVE  IInv'
<1> DEFINE m == [mem EXCEPT !.items = [t \in Things |->
                    IF mem.items[t] \in Unended THEN "Failed" ELSE mem.items[t]]]
<1>1. /\ m \in Status /\ Alike(m, mem) /\ m.uid = mem.uid
      /\ \A t \in Things :
           m.items[t] = IF mem.items[t] \in Unended THEN "Failed" ELSE mem.items[t]
  BY MemType DEF IInv, Status, Alike
<1>2. pass' = [pass EXCEPT !.pc = "release", !.end = "Failed", !.mem = m]
  BY DEF Abort
<1> HIDE DEF m
<1>3. /\ pass' \in Passes /\ pass'.pc = "release" /\ pass'.end = "Failed" /\ pass'.mem = m
  BY <1>1, <1>2, MemType DEF IInv, Passes, Stages
<1>4. Quiet /\ TypeOK'
  BY <1>3, WorldQuiet, PassTypes, TroubleType DEF TypeOK, RunTypes, IInv
<1>5. MemInv(mem) /\ EndInv(mem, "") /\ Control
  BY DEF IInv, InMemory
<1>6. Control'
  <2> USE <1>1, <1>3, <1>4, <1>5 DEF Control, Quiet, SamePass, Alike
  <2>1. ShapeInv'
    BY DEF ShapeInv
  <2>2. DeleteInv'
    BY ZenonT(60) DEF DeleteInv, Unended, Things
  <2>3. StageInv'
    BY DEF StageInv
  <2>4. PauseInv'
    BY DEF PauseInv, OwnApp, VolumesDone, Pending
  <2>5. DownInv'
    BY DEF DownInv, Pending
  <2> QED BY <2>1, <2>2, <2>3, <2>4, <2>5
<1>7. Ahead(m)
  BY <1>1, <1>5 DEF MemInv, StatusInv, Ahead, Alike, Unended
<1>8. VolumesInv(m)
  <2>1. /\ VolumesInv(mem) /\ m.phase = mem.phase /\ m.recorded = mem.recorded
        /\ m.selected = mem.selected
    BY <1>1, <1>5 DEF MemInv, StatusInv, Alike
  <2>2. \A v \in Volumes :
          m.items[v] = mem.items[v] \/ (m.items[v] = "Failed" /\ mem.items[v] \in Unended)
    BY <1>1 DEF Things
  <2> QED BY <2>1, <2>2 DEF VolumesInv, Unended
<1>9. DatabasesInv(m)
  BY ZenonT(60), <1>1, <1>5 DEF MemInv, StatusInv, DatabasesInv, Alike, Unended, Things
<1>10. EndInv(m, "Failed")
  BY <1>1, <1>5 DEF EndInv, Alike, Unended, Things
<1>11. \A v \in Volumes : mem.items[v] = "Succeeded" => m.items[v] = "Succeeded"
  BY <1>1 DEF Unended, Things
<1> QED BY <1>1, <1>3, <1>4, <1>6, <1>7, <1>8, <1>9, <1>10, <1>11, ItemsKeep DEF StatusInv

(* A pass that goes on as Goto has it. *)
LEMMA GotoType ==
    ASSUME IInv, NEW pc \in Stages, Goto(pc)
    PROVE  pass' \in Passes /\ pass'.pc = pc /\ pass'.mem = mem /\ SamePass(pass', pass)
BY StepType, MemType DEF Goto, IInv

LEMMA EndIfEvictedKeeps ==
    ASSUME IInv, EndIfEvicted
    PROVE  IInv'
<1>1. UNCHANGED <<spec, st, meta, world, faults>> /\ At("check") /\ Control
  BY DEF EndIfEvicted, IInv
<1>2. CASE Abort(mem)
  BY <1>1, <1>2, AbortKeeps DEF Control, ShapeInv
<1>3. CASE Goto("record")
  <2>1. /\ pass' \in Passes /\ pass'.pc = "record" /\ pass'.mem = mem
        /\ SamePass(pass', pass)
    BY <1>3, GotoType DEF Stages
  <2>2. Quiet /\ TypeOK'
    BY <1>1, <2>1, WorldQuiet, PassTypes DEF TypeOK, RunTypes, IInv
  <2>3. Control'
    <3> USE <1>1, <2>1, <2>2 DEF Control, Quiet, SamePass, Alike
    <3>1. ShapeInv'
      BY DEF ShapeInv
    <3>2. DeleteInv'
      BY DEF DeleteInv
    <3>3. StageInv'
      BY DEF StageInv
    <3>4. PauseInv'
      BY DEF PauseInv, OwnApp, VolumesDone, Pending
    <3>5. DownInv'
      BY DEF DownInv, Pending
    <3> QED BY <3>1, <3>2, <3>3, <3>4, <3>5
  <2> QED BY <1>1, <2>1, <2>2, <2>3, MoveKeeps DEF SamePass
<1> QED BY <1>2, <1>3 DEF EndIfEvicted

LEMMA TakeLeasesKeeps ==
    ASSUME IInv, TakeLeases
    PROVE  IInv'
<1>1. /\ spec' = spec /\ st' = st /\ meta' = meta /\ wl' = wl /\ late' = late /\ app' = app
      /\ copy' = copy /\ job' = job /\ pod' = pod /\ data' = data /\ dbs' = dbs /\ left' = left
      /\ kept' = kept /\ request' = request /\ faults' = faults
      /\ At("take") /\ Control /\ MemInv(mem) /\ EndInv(mem, pass.end)
  BY DEF TakeLeases, IInv, InMemory, jobs, postgres
<1>2. CASE lock' = lock /\ pass' = Idle
  BY <1>1, <1>2, StopKeeps DEF world, jobs, postgres
<1>3. CASE lock' = "run" /\ pass' = [pass EXCEPT !.pc = Worker, !.todo = Volumes]
  <2>1. Worker \in {"select", "pause", "suspend", "volumes"}
    BY DEF Worker
  <2>2. /\ pass' \in Passes /\ pass'.pc = Worker /\ pass'.mem = mem /\ pass'.end = pass.end
    BY <1>3, <2>1, MemType DEF IInv, Stages, Passes, Things
  <2>3. TypeOK'
    BY <1>1, <1>3, <2>2, TypesKept DEF TypeOK, IInv, TakeLeases
  <2>4. Control'
    <3> USE <1>1, <1>3, <2>1, <2>2 DEF Control, Quiet, SamePass, Alike
    <3>1. ShapeInv'
      BY DEF ShapeInv
    <3>2. DeleteInv'
      BY DEF DeleteInv
    <3>3. StageInv'
      BY DEF StageInv, Worker
    <3>4. PauseInv'
      BY DEF PauseInv, OwnApp, VolumesDone, Pending, Worker, ShapeInv, EndInv, MemInv, StatusInv,
         Ahead, Things
    <3>5. DownInv'
      BY DEF DownInv, Pending, Worker, Things
    <3> QED BY <3>1, <3>2, <3>3, <3>4, <3>5
  <2>5. Stored(st)'
    BY <1>1, <1>3 DEF IInv, Stored, StatusInv, Ahead, VolumesInv, DatabasesInv, LeaseInv, JobInv,
       AppInv, OwnApp, DbInv, Target, LifeInv
  <2>6. InMemory'
    BY <1>1, <2>2, InMemoryKept DEF IInv
  <2> QED BY <2>3, <2>4, <2>5, <2>6 DEF IInv
<1> QED BY <1>1, <1>2, <1>3 DEF TakeLeases, StopPass

LEMMA PodsGoneKeeps ==
    ASSUME IInv, PodsGone
    PROVE  IInv'
<1>1. UNCHANGED <<spec, st, meta, world, faults>> /\ At("pods") /\ Control
  BY DEF PodsGone, IInv
<1>2. CASE app.pods
  BY <1>1, <1>2, StopKeeps DEF PodsGone, StopPass
<1>3. CASE ~app.pods
  <2>1. /\ pass' \in Passes /\ pass'.pc = "volumes" /\ pass'.mem = mem
        /\ SamePass(pass', pass)
    BY <1>3, GotoType DEF PodsGone, Stages
  <2>2. Quiet /\ TypeOK'
    BY <1>1, <2>1, WorldQuiet, PassTypes DEF TypeOK, RunTypes, IInv
  <2>3. Control'
    <3> USE <1>1, <1>3, <2>1, <2>2 DEF Control, Quiet, SamePass, Alike
    <3>1. ShapeInv'
      BY DEF ShapeInv
    <3>2. DeleteInv'
      BY DEF DeleteInv
    <3>3. StageInv'
      BY DEF StageInv
    <3>4. PauseInv'
      BY DEF PauseInv, OwnApp, VolumesDone, Pending
    <3>5. DownInv'
      BY DEF DownInv, Pending
    <3> QED BY <3>1, <3>2, <3>3, <3>4, <3>5
  <2> QED BY <1>1, <2>1, <2>2, <2>3, MoveKeeps DEF SamePass
<1> QED BY <1>2, <1>3

LEMMA VolumesVisitedKeeps ==
    ASSUME IInv, VolumesVisited
    PROVE  IInv'
<1>1. UNCHANGED <<spec, st, meta, world, faults>> /\ At("volumes") /\ Control
  BY DEF VolumesVisited, IInv
<1>2. /\ pass' \in Passes /\ pass'.pc \in {"databases", "resume"} /\ pass'.mem = mem
      /\ pass'.end = pass.end /\ (pass'.pc = "databases" => VolumesDone)
  BY MemType DEF VolumesVisited, IInv, Stages, Passes, Things
<1>3. Quiet /\ TypeOK'
  BY <1>1, <1>2, WorldQuiet, PassTypes DEF TypeOK, RunTypes, IInv
<1>4. Control'
  <2> USE <1>1, <1>2, <1>3 DEF Control, Quiet, SamePass, Alike
  <2>1. ShapeInv'
    BY DEF ShapeInv
  <2>2. DeleteInv'
    BY DEF DeleteInv
  <2>3. StageInv'
    BY DEF StageInv
  <2>4. PauseInv'
    BY DEF PauseInv, OwnApp, VolumesDone, Pending
  <2>5. DownInv'
    BY DEF DownInv, Pending
  <2> QED BY <2>1, <2>2, <2>3, <2>4, <2>5
<1> QED BY <1>1, <1>2, <1>3, <1>4, MoveKeeps

LEMMA DatabasesVisitedKeeps ==
    ASSUME IInv, DatabasesVisited
    PROVE  IInv'
<1>1. UNCHANGED <<spec, st, meta, world, faults>> /\ At("databases") /\ Control
  BY DEF DatabasesVisited, IInv
<1>2. /\ pass' \in Passes /\ pass'.pc = "resume" /\ pass'.mem = mem
      /\ SamePass(pass', pass)
  BY GotoType DEF DatabasesVisited, Stages
<1>3. Quiet /\ TypeOK'
  BY <1>1, <1>2, WorldQuiet, PassTypes DEF TypeOK, RunTypes, IInv
<1>4. Control'
  <2> USE <1>1, <1>2, <1>3 DEF Control, Quiet, SamePass, Alike
  <2>1. ShapeInv'
    BY DEF ShapeInv
  <2>2. DeleteInv'
    BY DEF DeleteInv
  <2>3. StageInv'
    BY DEF StageInv
  <2>4. PauseInv'
    BY DEF PauseInv, OwnApp, VolumesDone, Pending
  <2>5. DownInv'
    BY DEF DownInv, Pending
  <2> QED BY <2>1, <2>2, <2>3, <2>4, <2>5
<1> QED BY <1>1, <1>2, <1>3, <1>4, MoveKeeps DEF SamePass

LEMMA RecordLeasesKeeps ==
    ASSUME IInv, RecordLeases
    PROVE  IInv'
<1>1. /\ UNCHANGED <<spec, meta, world, faults>> /\ At("record") /\ Control
      /\ pass.end = "" /\ mem.phase = "Running" /\ EndInv(mem, "") /\ mem \in Status
  BY MemType DEF RecordLeases, IInv, Control, ShapeInv, StageInv, InMemory
<1>2. CASE mem.leases
  <2>1. /\ pass' \in Passes /\ pass'.pc = "take" /\ pass'.mem = mem
        /\ SamePass(pass', pass) /\ st' = st
    BY <1>2, GotoType DEF Stages, RecordLeases
  <2>2. Quiet /\ TypeOK'
    BY <1>1, <2>1, WorldQuiet, PassTypes DEF TypeOK, RunTypes, IInv
  <2>3. Control'
    <3> USE <1>1, <2>1, <2>2 DEF Control, Quiet, SamePass, Alike
    <3>1. ShapeInv'
      BY DEF ShapeInv
    <3>2. DeleteInv'
      BY DEF DeleteInv
    <3>3. StageInv'
      BY DEF StageInv
    <3>4. PauseInv'
      BY DEF PauseInv, OwnApp, VolumesDone, Pending
    <3>5. DownInv'
      BY DEF DownInv, Pending
    <3> QED BY <3>1, <3>2, <3>3, <3>4, <3>5
  <2> QED BY <1>1, <2>1, <2>2, <2>3, MoveKeeps DEF SamePass
<1>3. CASE ~mem.leases /\ pass.stale
  BY <1>1, <1>3, StopKeeps DEF RecordLeases, WriteStatus, StopPass
<1>4. CASE ~mem.leases /\ ~pass.stale
  <2> DEFINE m == [mem EXCEPT !.leases = TRUE]
  <2>1. m \in Status /\ SameFacts(m, mem)
    BY <1>1 DEF Status, SameFacts
  <2>2. st' = m /\ pass' = Step("take", m)
    BY <1>4 DEF RecordLeases, WriteStatus
  <2> HIDE DEF m
  <2>3. /\ pass' \in Passes /\ pass'.pc = "take" /\ pass'.mem = m /\ SamePass(pass', pass)
    BY <2>1, <2>2, StepType, MemType DEF Stages, IInv
  <2>4. Quiet /\ TypeOK'
    BY <1>1, <2>1, <2>2, <2>3, WorldQuiet, PassTypes DEF TypeOK, RunTypes, IInv
  <2>5. Control'
    <3> USE <1>1, <2>1, <2>2, <2>3, <2>4 DEF Control, Quiet, SameFacts, SamePass
    <3>1. ShapeInv'
      BY DEF ShapeInv
    <3>2. DeleteInv'
      BY DEF DeleteInv
    <3>3. StageInv'
      BY DEF StageInv
    <3>4. PauseInv'
      BY DEF PauseInv, OwnApp, VolumesDone, Pending
    <3>5. DownInv'
      BY DEF DownInv, Pending
    <3> QED BY <3>1, <3>2, <3>3, <3>4, <3>5
  <2>6. Stored(mem)
    BY <1>1, InHandIsStorable DEF EndInv, Finished
  <2>7. Stored(m) /\ EndInv(m, pass'.end)
    BY <1>1, <2>1, <2>3, <2>6, SameFactsKept DEF SamePass
  <2>8. spec.pauses /\ m.resumed => app.replicas = 1
    BY <1>1, <2>1 DEF IInv, InMemory, MemInv, SameFacts
  <2> QED BY <1>1, <2>2, <2>3, <2>4, <2>5, <2>7, <2>8, WriteKeeps
<1>5. pass.stale \in BOOLEAN /\ mem.leases \in BOOLEAN
  BY <1>1, MemType DEF IInv, Passes, Status
<1> QED BY <1>2, <1>3, <1>4, <1>5

LEMMA EnsureWorkloadKeeps ==
    ASSUME IInv, EnsureWorkload
    PROVE  IInv'
<1>1. /\ UNCHANGED <<spec, st, meta, lock, late, app, jobs, postgres, faults>> /\ At("admit")
      /\ Control /\ pass.end = "" /\ mem \in Status /\ MemInv(mem) /\ EndInv(mem, "")
  BY MemType DEF EnsureWorkload, IInv, Control, ShapeInv, InMemory
<1> DEFINE m == [mem EXCEPT !.workload = TRUE]
<1>2. m \in Status /\ SameFacts(m, mem) /\ Alike(m, mem)
  BY <1>1 DEF Status, SameFacts, Alike
<1>3. pass' = Step("start", m)
  BY DEF EnsureWorkload
<1> HIDE DEF m
<1>4. /\ pass' \in Passes /\ pass'.pc = "start" /\ pass'.mem = m /\ SamePass(pass', pass)
  BY <1>2, <1>3, StepType, MemType DEF Stages, IInv
<1>5. Quiet
  BY <1>1 DEF Quiet, jobs, postgres
<1>6. TypeOK'
  BY <1>1, <1>4, TypesKept DEF TypeOK, IInv, EnsureWorkload
<1>7. Control'
  <2> USE <1>1, <1>2, <1>4, <1>5 DEF Control, Quiet, SameFacts, SamePass
  <2>1. ShapeInv'
    BY DEF ShapeInv
  <2>2. DeleteInv'
    BY DEF DeleteInv
  <2>3. StageInv'
    BY DEF StageInv
  <2>4. PauseInv'
    BY DEF PauseInv, OwnApp, VolumesDone, Pending
  <2>5. DownInv'
    BY DEF DownInv, Pending
  <2> QED BY <2>1, <2>2, <2>3, <2>4, <2>5
<1>8. StatusInv(m)
  BY ZenonT(60), <1>1, <1>2 DEF MemInv, StatusInv, SameFacts, Ahead, VolumesInv, DatabasesInv
<1>9. EndInv(m, pass'.end)
  BY <1>1, <1>2, <1>4, SameFactsKept DEF SamePass
<1> QED BY <1>1, <1>2, <1>4, <1>5, <1>6, <1>7, <1>8, <1>9, ItemsKeep DEF SameFacts

LEMMA AdmitKeeps ==
    ASSUME IInv, Admit
    PROVE  IInv'
<1>1. /\ UNCHANGED <<spec, meta, world, faults>> /\ At("start") /\ mem \in Status
      /\ mem.phase = "Queued" /\ EndInv(mem, "") /\ pass.end = ""
  BY MemType DEF Admit, IInv, Control, ShapeInv, StageInv, InMemory
<1> DEFINE m == IF wl = "admitted" THEN [mem EXCEPT !.phase = "Running"] ELSE mem
<1>2. CASE pass.stale
  BY <1>1, <1>2, StopKeeps DEF Admit, WriteStatus, StopPass
<1>3. CASE ~pass.stale
  <2>1. st' = m /\ pass' = Idle
    BY <1>3 DEF Admit, WriteStatus
  <2>2. m \in Status /\ m.phase \in {"Queued", "Running"}
    BY <1>1 DEF Status, Phases
  <2>3. Stored(mem)
    BY <1>1, InHandIsStorable DEF EndInv, Finished
  <2>4. Stored(m)
    <3>1. CASE wl # "admitted"
      BY <2>3, <3>1
    <3>2. CASE wl = "admitted"
      <4>1. /\ m.phase = "Running" /\ m.selected = mem.selected /\ m.stop = mem.stop
            /\ m.recorded = mem.recorded /\ m.paused = mem.paused /\ m.replicas = mem.replicas
            /\ m.suspends = mem.suspends /\ m.resumed = mem.resumed /\ m.items = mem.items
            /\ m.uid = mem.uid
        BY <1>1, <3>2 DEF Status
      <4> HIDE DEF m
      <4>2. StatusInv(m)
        BY <1>1, <2>3, <4>1 DEF Stored, StatusInv, Ahead, VolumesInv, DatabasesInv
      <4> QED BY ZenonT(60), <1>1, <2>3, <4>1, <4>2 DEF Stored, JobInv, AppInv, DbInv, LifeInv,
         Finished
    <3> QED BY <3>1, <3>2
  <2> QED BY <1>1, <2>1, <2>2, <2>4, WriteStopKeeps
<1> QED BY <1>2, <1>3

LEMMA PlanKeeps ==
    ASSUME IInv, Plan
    PROVE  IInv'
<1>1. /\ UNCHANGED <<spec, meta, world, faults>> /\ At("plan") /\ Control /\ mem \in Status
      /\ mem.phase = "" /\ MemInv(mem) /\ EndInv(mem, "") /\ pass.end = "" /\ Stored(st)
  BY MemType DEF Plan, IInv, Control, ShapeInv, StageInv, InMemory
<1>2. ~mem.selected /\ ~mem.paused /\ ~mem.resumed /\ mem.recorded = {}
  BY <1>1 DEF MemInv, StatusInv, Ahead
<1>3. CASE pass' = Idle /\ st' = st
  BY <1>1, <1>3, StopKeeps
<1>4. ASSUME NEW skipped \in SUBSET Clusters,
             LET items == IF spec.into THEN {Copy} ELSE Claims \cup Clusters IN
             st' = [mem EXCEPT !.phase = "Queued",
                               !.items = [t \in Things |->
                                   IF t \notin items THEN "None"
                                   ELSE IF t \in skipped THEN "Skipped" ELSE "Pending"]],
             pass' = Idle
      PROVE  IInv'
  <2> PICK m : m = st'
    OBVIOUS
  <2>1. /\ m \in Status /\ m.phase = "Queued" /\ m.selected = mem.selected
        /\ m.stop = mem.stop /\ m.recorded = mem.recorded /\ m.paused = mem.paused
        /\ m.replicas = mem.replicas /\ m.suspends = mem.suspends /\ m.resumed = mem.resumed
        /\ m.uid = mem.uid
        /\ \A t \in Things : m.items[t] \in {"None", "Skipped", "Pending"}
    BY <1>1, <1>4 DEF Status, Phases, Unended
  <2>2. \A v \in Volumes : m.items[v] # "Skipped"
    BY <1>1, <1>4, ThingsAssumption DEF Status, Volumes, Things
  <2>3. StatusInv(m)
    BY <1>1, <1>2, <2>1, <2>2 DEF StatusInv, Ahead, VolumesInv, DatabasesInv, Things
  <2>4. JobInv(m) /\ AppInv(m) /\ DbInv(m)
    BY ZenonT(60), <1>1, <1>2, <2>1 DEF Stored, MemInv, Agree, JobInv, AppInv, DbInv
  <2>5. LifeInv(m)
    BY <1>1, <1>2, <2>1, <2>2 DEF Stored, MemInv, Agree, LifeInv
  <2>6. Stored(m)
    BY <1>1, <2>3, <2>4, <2>5 DEF Stored
  <2> QED BY <1>1, <1>4, <2>1, <2>6, WriteStopKeeps
<1>5. CASE pass' = [pass EXCEPT !.pc = "release", !.end = "Failed"] /\ st' = st
  <2>1. pass' \in Passes /\ pass'.pc = "release" /\ pass'.end = "Failed" /\ pass'.mem = mem
    BY <1>5, MemType DEF IInv, Passes, Stages
  <2>2. Quiet /\ TypeOK'
    BY <1>1, <1>5, <2>1, WorldQuiet, PassTypes DEF TypeOK, RunTypes, IInv
  <2>3. Control'
    <3> USE <1>1, <1>2, <1>5, <2>1, <2>2 DEF Control, Quiet, SamePass, Alike
    <3>1. ShapeInv'
      BY DEF ShapeInv
    <3>2. DeleteInv'
      BY DEF DeleteInv
    <3>3. StageInv'
      BY DEF StageInv
    <3>4. PauseInv'
      BY DEF PauseInv, OwnApp, VolumesDone, Pending
    <3>5. DownInv'
      BY DEF DownInv, Pending
    <3> QED BY <3>1, <3>2, <3>3, <3>4, <3>5
  <2>4. EndInv(mem, "Failed")
    BY <1>1, <1>2 DEF EndInv
  <2> QED BY <1>1, <1>5, <2>1, <2>2, <2>3, <2>4, ItemsKeep DEF MemInv, Alike
<1> QED BY <1>1, <1>3, <1>4, <1>5 DEF Plan, WriteStatus, StopPass

LEMMA SelectKeeps ==
    ASSUME IInv, Select
    PROVE  IInv'
<1>1. /\ UNCHANGED <<spec, meta, world, faults>> /\ At("select") /\ Control /\ mem \in Status
      /\ mem.phase = "Running" /\ MemInv(mem) /\ EndInv(mem, "") /\ pass.end = "" /\ Stored(st)
      /\ ~mem.selected
  BY MemType DEF Select, IInv, Control, ShapeInv, StageInv, InMemory
<1>2. ~mem.paused /\ ~mem.resumed /\ mem.recorded = {}
  BY <1>1 DEF MemInv, StatusInv, Ahead
<1>3. CASE pass' = Idle /\ st' = st
  BY <1>1, <1>3, StopKeeps
<1>4. CASE /\ st' = [mem EXCEPT !.selected = TRUE,
                                !.stop = IF spec.asOf THEN Pending \cap Clusters ELSE {}]
           /\ pass' = Idle
  <2> PICK m : m = st'
    OBVIOUS
  <2>1. /\ m \in Status /\ m.phase = mem.phase /\ m.selected
        /\ m.stop = (IF spec.asOf THEN Pending \cap Clusters ELSE {})
        /\ m.recorded = mem.recorded /\ m.paused = mem.paused
        /\ m.replicas = mem.replicas /\ m.suspends = mem.suspends /\ m.resumed = mem.resumed
        /\ m.uid = mem.uid /\ m.items = mem.items
    BY <1>1, <1>4 DEF Status
  <2>2. StatusInv(m)
    <3>1. Ahead(m)
      BY <1>1, <1>2, <2>1 DEF MemInv, StatusInv, Ahead
    <3>2. VolumesInv(m)
      BY <1>1, <1>2, <2>1 DEF MemInv, EndInv, StatusInv, VolumesInv
    <3>3. \A d \in Clusters : mem.items[d] \notin {"Deleted", "Recovering", "Succeeded"}
      BY <1>1 DEF MemInv, StatusInv, Ahead, Things
    <3>4. DatabasesInv(m)
      BY <1>1, <2>1, <3>3 DEF DatabasesInv, Things, Pending
    <3> QED BY <3>1, <3>2, <3>4 DEF StatusInv
  <2>3. JobInv(m) /\ AppInv(m) /\ DbInv(m)
    BY <1>1, <1>2, <2>1 DEF Stored, MemInv, Agree, JobInv, AppInv, DbInv
  <2>4. LifeInv(m)
    BY <1>1, <1>2, <2>1 DEF Stored, MemInv, Agree, EndInv, LifeInv, Finished
  <2>5. Stored(m)
    BY <1>1, <2>2, <2>3, <2>4 DEF Stored
  <2> QED BY <1>1, <1>4, <2>1, <2>5, WriteStopKeeps
<1>5. ASSUME NEW unreachable \in SUBSET Pending, st' = st,
             pass' = [pass EXCEPT !.pc = "release", !.end = "Failed",
                                    !.mem.items = [t \in Things |->
                                        IF t \in unreachable THEN "Failed"
                                        ELSE IF t \in Pending THEN "Skipped" ELSE mem.items[t]]]
      PROVE  IInv'
  <2> PICK m : m = pass'.mem
    OBVIOUS
  <2>1. /\ m \in Status /\ Alike(m, mem)
        /\ \A t \in Things : m.items[t] \in {"Failed", "Skipped",
           mem.items[t]} /\ m.items[t] # "Pending"
        /\ \A t \in Things : mem.items[t] # "Pending" => m.items[t] = mem.items[t]
    BY <1>1, <1>5, MemType DEF IInv, Passes, Status, Alike, Unended, Pending
  <2>2. pass' \in Passes /\ pass'.pc = "release" /\ pass'.end = "Failed"
    BY <1>1, <1>5, <2>1, MemType DEF IInv, Passes, Stages
  <2>3. Quiet /\ TypeOK'
    BY <1>1, <1>5, <2>2, WorldQuiet, PassTypes DEF TypeOK, RunTypes, IInv
  <2>4. \A t \in Things :
          m.items[t] \notin {"Running", "Succeeded", "Deleted", "Recovering", "Pending"}
    BY <1>1, <2>1 DEF MemInv, StatusInv, Ahead
  <2>5. StatusInv(m)
    BY <1>1, <1>2, <2>1, <2>4 DEF StatusInv, Ahead, VolumesInv, DatabasesInv, Alike, Things
  <2>6. Control'
    <3> USE <1>1, <1>2, <1>5, <2>1, <2>2, <2>3, <2>4 DEF Control, Quiet, Alike
    <3>1. ShapeInv'
      BY DEF ShapeInv
    <3>2. DeleteInv'
      BY DEF DeleteInv, Things
    <3>3. StageInv'
      BY DEF StageInv
    <3>4. PauseInv'
      BY DEF PauseInv, OwnApp, VolumesDone, Pending
    <3>5. DownInv'
      BY DEF DownInv, Pending
    <3> QED BY <3>1, <3>2, <3>3, <3>4, <3>5
  <2>7. EndInv(m, "Failed")
    BY <1>1, <1>2, <2>1, <2>4 DEF EndInv, Alike
  <2>8. \A v \in Volumes : mem.items[v] # "Succeeded"
    BY <1>1 DEF MemInv, StatusInv, Ahead, Things
  <2> QED BY <1>1, <1>5, <2>1, <2>2, <2>3, <2>5, <2>6, <2>7, <2>8, ItemsKeep
<1> QED BY <1>1, <1>3, <1>4, <1>5 DEF Select, WriteStatus, StopPass

LEMMA PauseKeeps ==
    ASSUME IInv, Pause
    PROVE  IInv'
<1>1. /\ UNCHANGED <<spec, meta, world>> /\ At("pause") /\ Control /\ mem \in Status
      /\ mem.phase = "Running" /\ MemInv(mem) /\ EndInv(mem, "") /\ pass.end = "" /\ Stored(st)
      /\ ~mem.paused /\ ~mem.resumed /\ mem.selected /\ spec.pauses
  BY MemType DEF Pause, IInv, Control, ShapeInv, StageInv, PauseInv, InMemory
<1>2. CASE Trouble /\ Abort(mem) /\ UNCHANGED st
  BY <1>1, <1>2, AbortKeeps
<1>3. CASE pass' = Idle /\ st' = st /\ faults' = faults
  BY <1>1, <1>3, StopKeeps
<1>4. ASSUME NEW m, m = [mem EXCEPT !.paused = TRUE, !.replicas = app.replicas,
                                    !.suspends = ~app.suspended],
             st' = m, pass' = [Step("suspend", m) EXCEPT !.pausing = TRUE], faults' = faults
      PROVE  IInv'
  <2>1. app \in [replicas : 0 .. 1, pods : BOOLEAN, own : 0 .. 1, suspended : BOOLEAN,
                 ownSuspend : BOOLEAN]
    BY DEF IInv, TypeOK, AppTypes
  <2>2. app.replicas \in 0 .. 1 /\ (~app.suspended) \in BOOLEAN
    BY <2>1
  <2>3. /\ m \in Status /\ m.phase = mem.phase /\ m.selected = mem.selected
        /\ m.stop = mem.stop /\ m.recorded = mem.recorded /\ m.paused
        /\ m.replicas = app.replicas /\ m.suspends = (~app.suspended)
        /\ m.resumed = mem.resumed /\ m.uid = mem.uid /\ m.items = mem.items
    BY <1>1, <1>4, <2>2 DEF Status
  <2>4. /\ pass' \in Passes /\ pass'.pc = "suspend" /\ pass'.mem = m /\ pass'.end = pass.end
    <3>1. /\ Step("suspend", m) \in Passes /\ Step("suspend", m).pc = "suspend"
          /\ Step("suspend", m).mem = m /\ Step("suspend", m).end = pass.end
      BY <2>3, StepType, MemType DEF IInv, Stages, SamePass
    <3> QED BY <1>4, <3>1 DEF Passes
  <2>5. Quiet /\ TypeOK'
    BY <1>1, <1>4, <2>3, <2>4, WorldQuiet, PassTypes DEF TypeOK, RunTypes, IInv
  <2>6. OwnApp
    BY <1>1 DEF Stored, AppInv, MemInv, Agree
  <2>7. StatusInv(m)
    <3>1. Ahead(m)
      BY <1>1, <2>3 DEF MemInv, StatusInv, Ahead
    <3>2. VolumesInv(m)
      BY ZenonT(60), <1>1, <2>3 DEF MemInv, StatusInv, VolumesInv
    <3>3. DatabasesInv(m)
      BY ZenonT(60), <1>1, <2>3 DEF MemInv, StatusInv, DatabasesInv
    <3> QED BY <3>1, <3>2, <3>3 DEF StatusInv
  <2>8. JobInv(m) /\ DbInv(m)
    BY <1>1, <2>3 DEF Stored, MemInv, Agree, JobInv, DbInv
  <2>9. AppInv(m)
    BY <1>1, <2>1, <2>3, <2>6 DEF Stored, AppInv, OwnApp
  <2>10. LifeInv(m) /\ EndInv(m, pass'.end)
    BY ZenonT(60), <1>1, <2>3, <2>4 DEF IInv, InMemory, Stored, MemInv, Agree, EndInv, LifeInv,
       Finished
  <2>11. Stored(m)
    BY <1>1, <2>7, <2>8, <2>9, <2>10 DEF Stored
  <2>12. Control'
    <3> USE <1>1, <1>4, <2>3, <2>4, <2>5 DEF Control, Quiet, OwnApp
    <3>1. ShapeInv'
      BY DEF ShapeInv
    <3>2. DeleteInv'
      BY DEF DeleteInv
    <3>3. StageInv'
      BY DEF StageInv
    <3>4. PauseInv'
      BY DEF PauseInv, OwnApp, VolumesDone, Pending
    <3>5. DownInv'
      BY DEF DownInv, Pending
    <3> QED BY <3>1, <3>2, <3>3, <3>4, <3>5
  <2> QED BY <1>1, <1>4, <2>3, <2>4, <2>5, <2>10, <2>11, <2>12, WriteKeeps
<1> QED BY <1>1, <1>2, <1>3, <1>4 DEF Pause, WriteStatus, StopPass

(* The steps of the pause and the resume. *)
LEMMA AppKeeps ==
    ASSUME IInv, UNCHANGED <<spec, st, meta, lock, jobs, postgres>>,
           TypeOK', InMemory', Control', AppInv(st)'
    PROVE  IInv'
<1>1. UNCHANGED <<spec, st, meta, lock, copy, job, pod, data, dbs, request>> /\ Stored(st)
  BY DEF IInv, jobs, postgres
<1>2. StatusInv(st)'
  BY <1>1 DEF Stored, StatusInv, Ahead, VolumesInv, DatabasesInv
<1>3. LeaseInv' /\ JobInv(st)'
  BY <1>1 DEF Stored, LeaseInv, JobInv
<1>4. DbInv(st)' /\ LifeInv(st)'
  BY <1>1 DEF Stored, DbInv, Target, LifeInv
<1> QED BY <1>2, <1>3, <1>4 DEF IInv, Stored

(* The status in hand, when the app changes and the resume is marked. *)
LEMMA AppInMemory ==
    ASSUME IInv, On, UNCHANGED <<spec, st, meta, jobs, postgres>>,
           NEW m, pass'.mem = m, pass'.end = pass.end, m.items = mem.items, m.uid = mem.uid,
           Agree(m), m.resumed => m.paused, mem.resumed => m.resumed,
           EndInv(m, pass.end), spec.pauses /\ m.resumed => app'.replicas = 1
    PROVE  InMemory'
<1>1. UNCHANGED <<job, pod, data, dbs>> /\ meta.finalizer /\ MemInv(mem)
  BY DEF IInv, InMemory, jobs, postgres
<1>2. StatusInv(m)
  <2>1. Ahead(m)
    BY <1>1 DEF MemInv, StatusInv, Agree, Ahead
  <2>2. VolumesInv(m) /\ DatabasesInv(m)
    BY <1>1 DEF MemInv, StatusInv, Agree, VolumesInv, DatabasesInv
  <2> QED BY <2>1, <2>2 DEF StatusInv
<1>3. StatusInv(mem)'
  BY <1>1, <1>2, StatusKept
<1>4. MemInv(mem)'
  BY <1>1, <1>3 DEF MemInv, Agree
<1>5. EndInv(mem, pass.end)'
  BY DEF EndInv
<1> QED BY <1>1, <1>4, <1>5 DEF InMemory

LEMMA AppFields ==
    ASSUME TypeOK
    PROVE  /\ app \in [replicas : 0 .. 1, pods : BOOLEAN, own : 0 .. 1, suspended : BOOLEAN,
                       ownSuspend : BOOLEAN]
           /\ app.suspended \in BOOLEAN /\ app.ownSuspend \in BOOLEAN
BY DEF TypeOK, AppTypes

LEMMA ApplySuspendKeeps ==
    ASSUME IInv, ApplySuspend
    PROVE  IInv'
<1>1. /\ UNCHANGED <<spec, st, meta, lock, jobs, postgres>> /\ wl' = wl /\ late' = late
      /\ faults' = faults /\ At("suspend") /\ MemInv(mem) /\ EndInv(mem, pass.end) /\ Control
      /\ AppInv(st) /\ mem.paused /\ ~mem.resumed /\ mem.suspends \in BOOLEAN
  BY MemType DEF ApplySuspend, IInv, InMemory, Stored, Control, PauseInv, Status
<1>2. /\ app'.replicas = app.replicas /\ app'.own = app.own /\ app'.pods = app.pods
      /\ app'.ownSuspend = app.ownSuspend /\ AppTypes'
      /\ app'.suspended = (IF mem.suspends THEN TRUE ELSE app.suspended)
  BY AppFields DEF IInv, ApplySuspend, SetSuspend, AppTypes
<1>3. /\ pass' \in Passes /\ pass'.pc = "scale" /\ pass'.mem = mem /\ SamePass(pass', pass)
  BY GotoType DEF ApplySuspend, Stages
<1>4. TypeOK'
  BY <1>1, <1>2, <1>3, TypesKept DEF IInv, TypeOK
<1>5. AppInv(st)'
  BY <1>1, <1>2 DEF AppInv, MemInv, Agree, OwnApp
<1>6. InMemory'
  BY <1>1, <1>2, <1>3, AppInMemory DEF MemInv, StatusInv, Ahead, SamePass
<1>7. spec'.pauses => app'.suspended
  BY <1>1, <1>2, AppFields DEF IInv, AppInv, MemInv, Agree
<1>8. UNCHANGED <<spec, st, meta, lock, job, pod>>
  BY <1>1 DEF jobs
<1>9. Control'
  <2> USE <1>1, <1>2, <1>3, <1>7, <1>8 DEF Control, Quiet, SamePass
  <2>1. ShapeInv'
    BY DEF ShapeInv
  <2>2. DeleteInv'
    BY DEF DeleteInv
  <2>3. StageInv'
    BY DEF StageInv
  <2>4. PauseInv'
    BY DEF PauseInv, OwnApp, VolumesDone, Pending
  <2>5. DownInv'
    BY DEF DownInv, Pending
  <2> QED BY <2>1, <2>2, <2>3, <2>4, <2>5
<1> QED BY <1>1, <1>4, <1>5, <1>6, <1>9, AppKeeps

LEMMA ApplyScaleKeeps ==
    ASSUME IInv, ApplyScale
    PROVE  IInv'
<1>1. /\ UNCHANGED <<spec, st, meta, lock, jobs, postgres>> /\ wl' = wl /\ late' = late
      /\ faults' = faults /\ At("scale") /\ MemInv(mem) /\ EndInv(mem, pass.end) /\ Control
      /\ AppInv(st) /\ mem.paused /\ ~mem.resumed /\ (spec.pauses => app.suspended)
  BY DEF ApplyScale, IInv, InMemory, Stored, Control, PauseInv, DownInv
<1>2. /\ app'.replicas = 0 /\ app'.own = app.own /\ app'.pods = app.pods
      /\ app'.ownSuspend = app.ownSuspend /\ app'.suspended = app.suspended /\ AppTypes'
  BY AppFields DEF IInv, ApplyScale, Scale, AppTypes
<1>3. AppInv(st)'
  BY <1>1, <1>2 DEF AppInv, MemInv, Agree, OwnApp
<1>4. CASE pass' = Idle
  <2>1. TypeOK'
    BY <1>1, <1>2, <1>4, TypesKept, IdleType DEF IInv, TypeOK
  <2> QED BY <1>1, <1>3, <1>4, <2>1, IdleControl, AppKeeps
<1>5. CASE Goto("pods")
  <2>1. /\ pass' \in Passes /\ pass'.pc = "pods" /\ pass'.mem = mem /\ SamePass(pass', pass)
    BY <1>5, GotoType DEF Stages
  <2>2. TypeOK'
    BY <1>1, <1>2, <2>1, TypesKept DEF IInv, TypeOK
  <2>3. InMemory'
    BY <1>1, <1>2, <2>1, AppInMemory DEF MemInv, StatusInv, Ahead, SamePass
  <2>4. UNCHANGED <<spec, st, meta, lock, job, pod>>
    BY <1>1 DEF jobs
  <2>5. Control'
    <3> USE <1>1, <1>2, <2>1, <2>4 DEF Control, Quiet, SamePass
    <3>1. ShapeInv'
      BY DEF ShapeInv
    <3>2. DeleteInv'
      BY DEF DeleteInv
    <3>3. StageInv'
      BY DEF StageInv
    <3>4. PauseInv'
      BY DEF PauseInv, OwnApp, VolumesDone, Pending
    <3>5. DownInv'
      BY DEF DownInv, Pending
    <3> QED BY <3>1, <3>2, <3>3, <3>4, <3>5
  <2> QED BY <1>1, <1>3, <2>2, <2>3, <2>5, AppKeeps
<1> QED BY <1>4, <1>5 DEF ApplyScale, StopPass

LEMMA ApplyFailsKeeps ==
    ASSUME IInv, ApplyFails
    PROVE  IInv'
BY AbortKeeps DEF ApplyFails, IInv, Control, ShapeInv

LEMMA ScaleUpKeeps ==
    ASSUME IInv, ScaleUp
    PROVE  IInv'
<1>1. /\ UNCHANGED <<spec, st, meta, lock, jobs, postgres>> /\ wl' = wl /\ late' = late
      /\ faults' = faults /\ At("scaleUp") /\ MemInv(mem) /\ EndInv(mem, pass.end) /\ Control
      /\ AppInv(st) /\ mem.paused /\ mem \in Status /\ spec.pauses
  BY MemType DEF ScaleUp, IInv, InMemory, Stored, Control, PauseInv, MemInv, StatusInv, Ahead
<1>2. mem.replicas = 1 /\ (mem.resumed => app.replicas = 1 /\ OwnApp)
  BY <1>1 DEF AppInv, MemInv, Agree, Control, PauseInv
<1>3. /\ app'.own = app.own /\ app'.pods = app.pods /\ app'.suspended = app.suspended
      /\ app'.ownSuspend = app.ownSuspend /\ AppTypes' /\ app'.replicas = 1
  BY <1>2, AppFields DEF IInv, ScaleUp, Scale, AppTypes
<1> DEFINE m == [mem EXCEPT !.resumed = TRUE]
<1>4. m \in Status /\ Agree(m) /\ m.resumed /\ m.items = mem.items /\ m.uid = mem.uid
      /\ m.paused = mem.paused /\ m.selected = mem.selected /\ m.phase = mem.phase
      /\ m.recorded = mem.recorded
  BY <1>1 DEF MemInv, Agree, Status
<1>5. pass' = Step("unsuspend", m)
  BY DEF ScaleUp
<1> HIDE DEF m
<1>6. /\ pass' \in Passes /\ pass'.pc = "unsuspend" /\ pass'.mem = m /\ SamePass(pass', pass)
  BY <1>4, <1>5, StepType, MemType DEF IInv, Stages
<1>7. TypeOK'
  BY <1>1, <1>3, <1>6, TypesKept DEF IInv, TypeOK
<1>8. AppInv(st)'
  <2>1. st.paused /\ (st.resumed => OwnApp)
    BY <1>1, <1>2 DEF MemInv, Agree
  <2>2. app.own = 1 /\ (app.ownSuspend => app.suspended)
        /\ st.replicas = 1 /\ st.suspends # app.ownSuspend
    BY <1>1, <2>1 DEF AppInv
  <2> QED BY <1>1, <1>3, <2>1, <2>2 DEF AppInv, OwnApp
<1>9. EndInv(m, pass.end)
  <2>1. pass.end \in {"", "Succeeded", "Failed", "Deleted"}
    BY MemType DEF IInv, Passes
  <2> QED BY <1>1, <1>4, <2>1 DEF EndInv, Control, PauseInv, Pending
<1>10. InMemory'
  BY <1>1, <1>3, <1>4, <1>6, <1>9, AppInMemory DEF SamePass
<1>11. UNCHANGED <<spec, st, meta, lock, job, pod>>
  BY <1>1 DEF jobs
<1>12. Control'
  <2> USE <1>1, <1>2, <1>3, <1>4, <1>6, <1>11 DEF Control, Quiet, SamePass
  <2>1. ShapeInv'
    BY DEF ShapeInv
  <2>2. DeleteInv'
    BY DEF DeleteInv
  <2>3. StageInv'
    BY DEF StageInv
  <2>4. PauseInv'
    BY DEF PauseInv, OwnApp, VolumesDone, Pending
  <2>5. DownInv'
    BY DEF DownInv, Pending
  <2> QED BY <2>1, <2>2, <2>3, <2>4, <2>5
<1> QED BY <1>1, <1>7, <1>8, <1>10, <1>12, AppKeeps

LEMMA UnsuspendKeeps ==
    ASSUME IInv, Unsuspend
    PROVE  IInv'
<1>1. /\ UNCHANGED <<spec, st, meta, lock, jobs, postgres>> /\ wl' = wl /\ late' = late
      /\ faults' = faults /\ At("unsuspend") /\ MemInv(mem) /\ EndInv(mem, pass.end) /\ Control
      /\ AppInv(st) /\ mem.paused /\ mem.resumed /\ mem \in Status /\ spec.pauses
  BY MemType DEF Unsuspend, IInv, InMemory, Stored, Control, PauseInv, MemInv, StatusInv, Ahead
<1>2. /\ app'.own = app.own /\ app'.pods = app.pods /\ app'.replicas = app.replicas
      /\ app'.ownSuspend = app.ownSuspend /\ AppTypes'
      /\ app'.suspended = (IF mem.suspends THEN FALSE ELSE app.suspended)
  BY AppFields DEF IInv, Unsuspend, SetSuspend, AppTypes
<1>3. OwnApp'
  <2>1. app.replicas = 1 /\ mem.suspends # app.ownSuspend /\ (app.ownSuspend => app.suspended)
    BY <1>1 DEF AppInv, MemInv, Agree
  <2>2. mem.suspends \in BOOLEAN /\ app.suspended \in BOOLEAN /\ app.ownSuspend \in BOOLEAN
    BY <1>1, AppFields DEF IInv, Status
  <2> QED BY <1>2, <2>1, <2>2 DEF OwnApp
<1>4. /\ pass' \in Passes /\ pass'.pc = (IF pass.end = "" THEN "write" ELSE "giveBack")
      /\ pass'.mem = mem /\ SamePass(pass', pass)
  BY GotoType DEF Unsuspend, Stages
<1>5. TypeOK'
  BY <1>1, <1>2, <1>4, TypesKept DEF IInv, TypeOK
<1>6. AppInv(st)'
  <2>1. app.own = 1 /\ (st.paused => st.replicas = 1 /\ st.suspends # app.ownSuspend)
    BY <1>1 DEF AppInv
  <2>2. app'.own = 1 /\ app'.ownSuspend = app.ownSuspend /\ app'.replicas = 1
        /\ app'.suspended = app'.ownSuspend
    BY <1>2, <1>3, <2>1 DEF OwnApp
  <2> QED BY <1>1, <2>1, <2>2 DEF AppInv, OwnApp
<1>7. InMemory'
  BY <1>1, <1>2, <1>4, AppInMemory DEF MemInv, SamePass
<1>8. UNCHANGED <<spec, st, meta, lock, job, pod>>
  BY <1>1 DEF jobs
<1>9. Control'
  <2> USE <1>1, <1>2, <1>3, <1>4, <1>8 DEF Control, Quiet, SamePass
  <2>1. ShapeInv'
    BY DEF ShapeInv
  <2>2. DeleteInv'
    BY ZenonT(60) DEF DeleteInv
  <2>3. StageInv'
    BY DEF StageInv
  <2>4. PauseInv'
    BY DEF PauseInv, OwnApp, VolumesDone, Pending
  <2>5. DownInv'
    BY DEF DownInv, Pending
  <2> QED BY <2>1, <2>2, <2>3, <2>4, <2>5
<1> QED BY <1>1, <1>5, <1>6, <1>7, <1>9, AppKeeps

-----------------------------------------------------------------------------
(* The volumes. *)

(* A pass that goes on with volume or database t. *)
LEMMA GoOnType ==
    ASSUME IInv, NEW t \in Things, NEW pc \in Stages, NEW m \in Status, pass' = GoOn(t, pc, m)
    PROVE  pass' \in Passes /\ pass'.pc = pc /\ pass'.mem = m /\ pass'.item = t
           /\ pass'.end = pass.end
<1>1. /\ Step(pc, m) \in Passes /\ Step(pc, m).pc = pc /\ Step(pc, m).mem = m
      /\ Step(pc, m).end = pass.end
  BY StepType, MemType DEF IInv, SamePass
<1> QED BY <1>1 DEF GoOn, Passes

LEMMA LeaveType ==
    ASSUME IInv, NEW t \in Things
    PROVE  /\ Visited(t) \in Passes /\ Visited(t).pc = pass.pc /\ Visited(t).mem = mem
           /\ Visited(t).end = pass.end
BY MemType DEF IInv, Visited, Passes

(* A pass that is done with a volume or database. *)
LEMMA LeaveKeeps ==
    ASSUME IInv, pass.pc \in {"volumes", "databases"}, NEW t \in Things, Leave(t),
           UNCHANGED <<spec, st, meta, world, faults>>
    PROVE  IInv'
<1>1. pass' \in Passes /\ pass'.pc = pass.pc /\ pass'.mem = mem /\ pass'.end = pass.end
  BY LeaveType DEF Leave
<1>2. Quiet /\ TypeOK' /\ Control
  BY <1>1, WorldQuiet, PassTypes DEF TypeOK, RunTypes, IInv
<1>3. Control'
  <2> USE <1>1, <1>2 DEF Control, Quiet, SamePass, Alike
  <2>1. ShapeInv'
    BY DEF ShapeInv
  <2>2. DeleteInv'
    BY DEF DeleteInv
  <2>3. StageInv'
    BY DEF StageInv
  <2>4. PauseInv'
    BY DEF PauseInv, OwnApp, VolumesDone, Pending
  <2>5. DownInv'
    BY DEF DownInv, Pending
  <2> QED BY <2>1, <2>2, <2>3, <2>4, <2>5
<1> QED BY <1>1, <1>2, <1>3, MoveKeeps

ItemPhases == {"None", "Succeeded", "Failed", "Skipped"} \cup Unended

(* The pass gives item t a phase and goes on. *)
Gives(t, phase, pc) == [Visited(t) EXCEPT !.pc = pc, !.mem.items[t] = phase]

LEMMA SetItemType ==
    ASSUME IInv, NEW t \in Things, NEW phase \in ItemPhases, NEW pc \in Stages,
           pass' = Gives(t, phase, pc)
    PROVE  /\ pass' \in Passes /\ pass'.pc = pc /\ pass'.end = pass.end
           /\ Alike(pass'.mem, mem) /\ pass'.mem.uid = mem.uid
           /\ pass'.mem.items = [mem.items EXCEPT ![t] = phase]
<1>1. /\ Visited(t) \in Passes /\ Visited(t).pc = pass.pc /\ Visited(t).mem = mem
      /\ Visited(t).end = pass.end
  BY LeaveType
<1> DEFINE m == [mem EXCEPT !.items = [mem.items EXCEPT ![t] = phase]]
<1>2. m \in Status /\ Alike(m, mem) /\ m.uid = mem.uid /\ m.items = [mem.items EXCEPT ![t] = phase]
  BY MemType DEF IInv, Status, Alike, ItemPhases
<1>3. pass' = [[Visited(t) EXCEPT !.pc = pc] EXCEPT !.mem = m]
  BY <1>1, <1>2 DEF Gives, Passes, Status
<1> HIDE DEF m
<1> QED BY <1>1, <1>2, <1>3 DEF Passes

LEMMA SetItemGives ==
    ASSUME IInv, NEW t \in Things, NEW phase, SetItem(t, phase)
    PROVE  pass' = Gives(t, phase, pass.pc)
<1>1. Visited(t) \in Passes /\ Visited(t).pc = pass.pc
  BY LeaveType
<1>2. [Visited(t) EXCEPT !.pc = pass.pc] = Visited(t)
  BY <1>1 DEF Passes
<1> QED BY <1>2 DEF SetItem, Gives

(* What that does to the items. *)
LEMMA GivesItems ==
    ASSUME IInv, NEW t \in Things, NEW phase \in ItemPhases, NEW pc \in Stages,
           pass' = Gives(t, phase, pc)
    PROVE  /\ pass' \in Passes /\ pass'.pc = pc /\ pass'.end = pass.end
           /\ Alike(pass'.mem, mem) /\ pass'.mem.uid = mem.uid
           /\ pass'.mem.items[t] = phase
           /\ \A u \in Things : u # t => pass'.mem.items[u] = mem.items[u]
<1>1. mem.items \in [Things -> ItemPhases]
  BY MemType DEF IInv, Status, ItemPhases
<1> QED BY ZenonT(60), <1>1, SetItemType

(* A volume goes on, is restored or fails. *)
VolumeGives(m, n, v) ==
    /\ StatusInv(n) /\ EndInv(n, "") /\ n.phase = "Running" /\ n.selected
    /\ Alike(m, n) /\ m.uid = n.uid /\ n.items[v] \in {"Pending", "Running"}
    /\ m.items[v] \in {"Running", "Succeeded", "Failed"}
    /\ m.items[v] = "Succeeded" => data[v] = "whole" /\ job[v] # "running" /\ v \notin pod
    /\ \A u \in Things : u # v => m.items[u] = n.items[u]

LEMMA VolumeGiven ==
    ASSUME NEW m, NEW n, NEW v \in Volumes, VolumeGives(m, n, v)
    PROVE  /\ StatusInv(m) /\ EndInv(m, "")
           /\ \A u \in Volumes : n.items[u] = "Succeeded" => m.items[u] = "Succeeded"
<1> USE DEF VolumeGives
<1>1. /\ \A u \in Volumes : u # v => m.items[u] = n.items[u]
      /\ \A d \in Clusters : m.items[d] = n.items[d]
      /\ \A t \in Things : m.items[t] = "Pending" => n.items[t] = "Pending"
  BY ThingsAssumption DEF Things, Volumes
<1>2. Ahead(m)
  BY DEF StatusInv, Ahead, Alike
<1>3. VolumesInv(m)
  BY ZenonT(60), <1>1 DEF StatusInv, VolumesInv, Alike
<1>4. DatabasesInv(m)
  BY ZenonT(60), <1>1 DEF StatusInv, DatabasesInv, Alike
<1>5. EndInv(m, "")
  BY <1>1 DEF EndInv, Alike
<1> QED BY <1>1, <1>2, <1>3, <1>4, <1>5 DEF StatusInv

(* A database is left out, is deleted, recovers, is restored or fails. *)
DatabaseGives(m, n, d) ==
    /\ StatusInv(n) /\ EndInv(n, "") /\ n.phase = "Running" /\ n.selected
    /\ Alike(m, n) /\ n.items[d] \in {"Pending", "Deleted", "Recovering"}
    /\ \A u \in Things : u # d => m.items[u] = n.items[u]
    /\ \A u \in Clusters : u # d => m.uid[u] = n.uid[u]
    /\ m.items[d] \in {"Skipped", "Deleted", "Recovering", "Succeeded", "Failed"}
    /\ m.items[d] = "Deleted" =>
         /\ n.items[d] = "Pending" /\ m.uid[d] <= dbs[d].uid
         /\ \A v \in Volumes : n.items[v] \in {"None", "Succeeded"}
    /\ m.items[d] \in {"Recovering", "Succeeded"} =>
         m.uid[d] < dbs[d].uid /\ (dbs[d].uid = m.uid[d] + 1 => dbs[d].ours)

LEMMA DatabaseGiven ==
    ASSUME NEW m, NEW n, NEW d \in Clusters, DatabaseGives(m, n, d)
    PROVE  /\ StatusInv(m) /\ EndInv(m, "")
           /\ \A u \in Volumes : m.items[u] = n.items[u]
<1> USE DEF DatabaseGives
<1>1. /\ \A u \in Volumes : m.items[u] = n.items[u]
      /\ \A u \in Clusters : u # d => m.items[u] = n.items[u]
      /\ \A t \in Things : m.items[t] = "Pending" => n.items[t] = "Pending"
  BY ThingsAssumption DEF Things, Volumes
<1>2. Ahead(m)
  BY DEF StatusInv, Ahead, Alike
<1>3. VolumesInv(m)
  BY ZenonT(60), <1>1 DEF StatusInv, VolumesInv, Alike
<1>4. DatabasesInv(m)
  BY ZenonT(60), <1>1 DEF StatusInv, DatabasesInv, Alike
<1>5. EndInv(m, "")
  BY <1>1 DEF EndInv, Alike
<1> QED BY <1>1, <1>2, <1>3, <1>4, <1>5 DEF StatusInv

(* No Cluster is newly marked Deleted. *)
FewerDeleted(m, n) ==
    \A d \in Clusters : m.items[d] = "Deleted" => n.items[d] = "Deleted" /\ m.uid[d] = n.uid[d]

LEMMA DeleteKept ==
    ASSUME DeleteInv, On, ~At("recordUID"), st' = st, NEW m, NEW n, pass'.mem = m, mem = n,
           FewerDeleted(m, n)
    PROVE  DeleteInv'
BY DEF DeleteInv, FewerDeleted

LEMMA StartInPlaceKeeps ==
    ASSUME IInv, NEW v \in Volumes, StartInPlace(v)
    PROVE  IInv'
<1>1. /\ UNCHANGED <<spec, st, meta, world, faults>> /\ At("volumes") /\ Control
      /\ v \in Things /\ mem.items[v] = "Pending" /\ mem \in Status
  BY MemType DEF StartInPlace, IInv, Things, Pending
<1>2. CASE Leave(v)
  BY <1>1, <1>2, LeaveKeeps
<1>3. CASE pass' = GoOn(v, "recordJob", mem)
  <2>1. /\ pass' \in Passes /\ pass'.pc = "recordJob" /\ pass'.mem = mem /\ pass'.item = v
        /\ pass'.end = pass.end
    BY <1>1, <1>3, GoOnType DEF Stages
  <2>2. Quiet /\ TypeOK'
    BY <1>1, <2>1, WorldQuiet, PassTypes DEF TypeOK, RunTypes, IInv
  <2>3. Control'
    <3> USE <1>1, <2>1, <2>2 DEF Control, Quiet, SamePass, Alike
    <3>1. ShapeInv'
      BY DEF ShapeInv
    <3>2. DeleteInv'
      BY DEF DeleteInv
    <3>3. StageInv'
      BY DEF StageInv
    <3>4. PauseInv'
      BY DEF PauseInv, OwnApp, VolumesDone, Pending
    <3>5. DownInv'
      BY DEF DownInv, Pending
    <3> QED BY <3>1, <3>2, <3>3, <3>4, <3>5
  <2> QED BY <1>1, <2>1, <2>2, <2>3, MoveKeeps
<1> QED BY <1>2, <1>3 DEF StartInPlace

LEMMA VolumeEndKeeps ==
    ASSUME IInv, NEW v \in Volumes, pass.pc \in {"volumes", "recordJob"},
           mem.items[v] \in {"Pending", "Running"},
           NEW phase \in {"Succeeded", "Failed"}, pass' = Gives(v, phase, "volumes"),
           phase = "Succeeded" => data[v] = "whole" /\ job[v] # "running" /\ v \notin pod,
           UNCHANGED <<spec, st, meta, world>>, faults' = faults \/ Trouble
    PROVE  IInv'
<1> PICK m, n : m = pass'.mem /\ n = mem
  OBVIOUS
<1>1. /\ MemInv(n) /\ EndInv(n, "") /\ Control /\ pass.end = "" /\ v \in Things
      /\ n.phase = "Running" /\ n.selected /\ n.items[v] \in {"Pending", "Running"}
  BY DEF IInv, InMemory, Control, ShapeInv, StageInv, Things
<1>2. /\ pass' \in Passes /\ pass'.pc = "volumes" /\ pass'.end = "" /\ pass'.mem = m
      /\ Alike(m, n) /\ m.uid = n.uid
      /\ m.items[v] = phase /\ \A t \in Things : t # v => m.items[t] = n.items[t]
  <2>1. v \in Things /\ phase \in ItemPhases /\ "volumes" \in Stages
    BY <1>1 DEF Stages, ItemPhases
  <2> QED BY <1>1, <2>1, GivesItems
<1>3. /\ StatusInv(m) /\ EndInv(m, "")
      /\ \A u \in Volumes : n.items[u] = "Succeeded" => m.items[u] = "Succeeded"
  <2>1. VolumeGives(m, n, v)
    BY <1>1, <1>2 DEF VolumeGives, MemInv
  <2>2. v \in Volumes
    OBVIOUS
  <2> QED BY ONLY <2>1, <2>2, VolumeGiven
<1>4. /\ \A t \in Things : m.items[t] = "Pending" => n.items[t] = "Pending"
      /\ \A d \in Clusters : m.items[d] = n.items[d]
  BY ZenonT(60), <1>1, <1>2, ThingsAssumption DEF Things, Volumes
<1>5. Quiet /\ TypeOK'
  BY <1>2, WorldQuiet, PassTypes, TroubleType DEF TypeOK, RunTypes, IInv
<1>6. Control'
  <2>1. DeleteInv'
    <3>1. FewerDeleted(m, n)
      BY <1>2, <1>4 DEF FewerDeleted
    <3> QED BY <1>1, <1>2, <3>1, DeleteKept DEF Control
  <2>2. ShapeInv' /\ StageInv' /\ PauseInv'
    BY <1>1, <1>2, <1>5 DEF Control, Quiet, Alike, ShapeInv, StageInv, PauseInv, OwnApp
  <2>3. Pending # {} \/ Pending' = {}
    BY ZenonT(60), <1>2, <1>4 DEF Pending
  <2>4. DownInv'
    BY <1>1, <1>2, <1>5, <2>3 DEF Control, Quiet, DownInv
  <2> QED BY <2>1, <2>2, <2>4 DEF Control
<1> QED BY <1>1, <1>2, <1>3, <1>5, <1>6, ItemsKeep

LEMMA RepositoryGoneKeeps ==
    ASSUME IInv, RepositoryGone
    PROVE  IInv'
<1>1. /\ At("recordJob") /\ Trouble /\ UNCHANGED <<spec, st, meta, world>>
      /\ pass' = Gives(pass.item, "Failed", "volumes")
  BY DEF RepositoryGone, Gives
<1> QED BY <1>1, VolumeEndKeeps DEF IInv, Control, ShapeInv

LEMMA StartIntoKeeps ==
    ASSUME IInv, StartInto
    PROVE  IInv'
<1>1. /\ UNCHANGED <<spec, meta, world, faults>> /\ At("volumes") /\ Control /\ Copy \in Things
      /\ mem.items[Copy] = "Pending" /\ mem \in Status /\ pass.end = "" /\ MemInv(mem)
      /\ EndInv(mem, "") /\ mem.phase = "Running" /\ Copy \in Volumes
  BY MemType
  DEF StartInto, IInv, InMemory, Things, Volumes, Pending, Control, ShapeInv, StageInv
<1>2. CASE SetItem(Copy, "Failed") /\ UNCHANGED st
  BY <1>1, <1>2, VolumeEndKeeps, SetItemGives
<1>3. CASE pass' = GoOn(Copy, "recordJob", mem) /\ UNCHANGED st
  <2>1. /\ pass' \in Passes /\ pass'.pc = "recordJob" /\ pass'.mem = mem /\ pass'.item = Copy
        /\ pass'.end = pass.end
    BY <1>1, <1>3, GoOnType DEF Stages
  <2>2. Quiet /\ TypeOK'
    BY <1>1, <1>3, <2>1, WorldQuiet, PassTypes DEF TypeOK, RunTypes, IInv
  <2>3. Control'
    <3> USE <1>1, <1>3, <2>1, <2>2 DEF Control, Quiet, SamePass, Alike
    <3>1. ShapeInv'
      BY DEF ShapeInv
    <3>2. DeleteInv'
      BY DEF DeleteInv
    <3>3. StageInv'
      BY DEF StageInv
    <3>4. PauseInv'
      BY DEF PauseInv, OwnApp, VolumesDone, Pending
    <3>5. DownInv'
      BY DEF DownInv, Pending
    <3> QED BY <3>1, <3>2, <3>3, <3>4, <3>5
  <2> QED BY <1>1, <1>3, <2>1, <2>2, <2>3, MoveKeeps
<1>4. CASE pass' = Idle /\ st' = st
  BY <1>1, <1>4, StopKeeps
<1>5. ASSUME NEW m, m = [mem EXCEPT !.created = TRUE], st' = m,
             pass' = GoOn(Copy, "createClaim", m)
      PROVE  IInv'
  <2>1. m \in Status /\ SameFacts(m, mem)
    BY <1>1, <1>5 DEF Status, SameFacts
  <2>8. st' = m /\ pass' = GoOn(Copy, "createClaim", m)
    BY <1>5
  <2>2. /\ pass' \in Passes /\ pass'.pc = "createClaim" /\ pass'.mem = m /\ pass'.item = Copy
        /\ pass'.end = pass.end
    BY <1>1, <2>1, <2>8, GoOnType DEF Stages
  <2>3. Quiet /\ TypeOK'
    BY <1>1, <2>1, <2>2, <2>8, WorldQuiet, PassTypes DEF TypeOK, RunTypes, IInv
  <2>4. Control'
    <3> USE <1>1, <2>8, <2>1, <2>2, <2>3 DEF Control, Quiet, SameFacts
    <3>1. ShapeInv'
      BY DEF ShapeInv
    <3>2. DeleteInv'
      BY DEF DeleteInv
    <3>3. StageInv'
      BY DEF StageInv
    <3>4. PauseInv'
      BY DEF PauseInv, OwnApp, VolumesDone, Pending
    <3>5. DownInv'
      BY DEF DownInv, Pending
    <3> QED BY <3>1, <3>2, <3>3, <3>4, <3>5
  <2>5. Stored(mem)
    BY <1>1, InHandIsStorable DEF EndInv, Finished
  <2>6. Stored(m) /\ EndInv(m, pass'.end)
    BY <1>1, <2>1, <2>2, <2>5, SameFactsKept
  <2>7. spec.pauses /\ m.resumed => app.replicas = 1
    BY <1>1, <2>1 DEF MemInv, SameFacts
  <2> QED BY <1>1, <2>8, <2>2, <2>3, <2>4, <2>6, <2>7, WriteKeeps
<1> QED BY <1>2, <1>3, <1>4, <1>5 DEF StartInto, WriteStatus, StopPass

(* What a Job does to a volume leaves the rest of a status as it is. *)
LEMMA StatusWithJobs ==
    ASSUME UNCHANGED <<spec, dbs>>, NEW m, StatusInv(m),
           \A v \in Volumes : m.items[v] = "Succeeded" =>
             data'[v] = "whole" /\ job'[v] # "running" /\ v \notin pod'
    PROVE  (st' = m => StatusInv(st)') /\ (pass'.mem = m => StatusInv(mem)')
<1>1. Ahead(m) /\ VolumesInv(m) /\ DatabasesInv(m)
  BY DEF StatusInv
<1>2. st' = m => Ahead(st)' /\ VolumesInv(st)' /\ DatabasesInv(st)'
  BY <1>1 DEF Ahead, VolumesInv, DatabasesInv
<1>3. pass'.mem = m => Ahead(mem)' /\ VolumesInv(mem)' /\ DatabasesInv(mem)'
  BY <1>1 DEF Ahead, VolumesInv, DatabasesInv
<1> QED BY <1>2, <1>3 DEF StatusInv

LEMMA DeleteSame ==
    ASSUME DeleteInv, On, ~At("recordUID"), st' = st, pass'.mem = mem
    PROVE  DeleteInv'
BY DEF DeleteInv

LEMMA DownSame ==
    ASSUME DownInv, pass.pc \in {"volumes"} \cup Visiting, spec' = spec, app' = app,
           pass'.pc \in {"volumes"} \cup Visiting, pass'.mem.items = mem.items
    PROVE  DownInv'
<1>1. Pending' = Pending
  BY DEF Pending
<1> QED BY <1>1 DEF DownInv

LEMMA CreateClaimKeeps ==
    ASSUME IInv, CreateClaim
    PROVE  IInv'
<1>1. /\ spec' = spec /\ st' = st /\ meta' = meta /\ wl' = wl /\ late' = late /\ app' = app
      /\ lock' = lock /\ job' = job /\ pod' = pod /\ data' = data /\ dbs' = dbs
      /\ request' = request /\ faults' = faults /\ UNCHANGED postgres
      /\ At("createClaim") /\ Control /\ MemInv(mem) /\ Stored(st)
  BY DEF CreateClaim, IInv, InMemory, postgres
<1>2. copy' = IF copy = "none" THEN "run" ELSE copy
  BY DEF CreateClaim
<1>3. /\ pass' \in Passes /\ pass'.pc = "recordJob" /\ pass'.mem = mem /\ SamePass(pass', pass)
  BY GotoType DEF CreateClaim, Stages
<1>4. TypeOK'
  <2>1. JobTypes'
    BY <1>1, <1>2 DEF IInv, TypeOK, JobTypes
  <2> QED BY <1>1, <1>3, <2>1, TypesKept DEF IInv, TypeOK
<1>5. st.selected
  BY <1>1 DEF Control, StageInv, MemInv, Agree
<1>6. Stored(st)'
  <2>1. StatusInv(st)' /\ LeaseInv'
    BY <1>1 DEF Stored, StatusInv, Ahead, VolumesInv, DatabasesInv, LeaseInv
  <2>2. JobInv(st)'
    BY <1>1, <1>5 DEF Stored, JobInv
  <2>3. AppInv(st)' /\ DbInv(st)' /\ LifeInv(st)'
    BY <1>1 DEF Stored, AppInv, OwnApp, DbInv, Target, LifeInv
  <2> QED BY <2>1, <2>2, <2>3 DEF Stored
<1>7. InMemory'
  BY <1>1, <1>3, InMemoryKept DEF IInv, SamePass
<1>8. Control'
  <2> USE <1>1, <1>3 DEF Control, Quiet, SamePass, Alike
  <2>1. ShapeInv'
    BY DEF ShapeInv
  <2>2. DeleteInv'
    BY DEF DeleteInv
  <2>3. StageInv'
    BY DEF StageInv
  <2>4. PauseInv'
    BY DEF PauseInv, OwnApp, VolumesDone, Pending
  <2>5. DownInv'
    BY DEF DownInv, Pending
  <2> QED BY <2>1, <2>2, <2>3, <2>4, <2>5
<1> QED BY <1>4, <1>6, <1>7, <1>8 DEF IInv

LEMMA RecordJobKeeps ==
    ASSUME IInv, RecordJob
    PROVE  IInv'
<1>1. /\ UNCHANGED <<spec, meta, world, faults>> /\ At("recordJob") /\ Control /\ mem \in Status
      /\ pass.end = "" /\ MemInv(mem) /\ EndInv(mem, "") /\ mem.phase = "Running" /\ mem.selected
      /\ pass.item \in Volumes /\ mem.items[pass.item] = "Pending"
  BY MemType DEF RecordJob, IInv, InMemory, Control, ShapeInv, StageInv
<1>2. CASE Goto("createJob") /\ st' = st /\ pass.item \in mem.recorded
  <2>1. /\ pass' \in Passes /\ pass'.pc = "createJob" /\ pass'.mem = mem /\ SamePass(pass', pass)
    BY <1>2, GotoType DEF Stages
  <2>2. Quiet /\ TypeOK'
    BY <1>1, <1>2, <2>1, WorldQuiet, PassTypes DEF TypeOK, RunTypes, IInv
  <2>3. Control'
    <3>1. ShapeInv'
      BY <1>1, <1>2, <2>1, <2>2 DEF Control, Quiet, SamePass, Alike, ShapeInv
    <3>2. DeleteInv'
      BY <1>1, <1>2, <2>1, DeleteSame DEF Control
    <3>3. StageInv'
      BY <1>1, <1>2, <2>1, <2>2 DEF Control, Quiet, SamePass, Alike, StageInv
    <3>4. PauseInv'
      BY <1>1, <1>2, <2>1, <2>2 DEF Control, Quiet, SamePass, Alike, PauseInv, OwnApp,
         VolumesDone, Pending
    <3>5. DownInv'
      BY <1>1, <1>2, <2>1, <2>2 DEF Control, Quiet, SamePass, Alike, DownInv, Pending
    <3> QED BY <3>1, <3>2, <3>3, <3>4, <3>5 DEF Control
  <2> QED BY <1>1, <1>2, <2>1, <2>2, <2>3, MoveKeeps DEF SamePass
<1>3. CASE pass' = Idle /\ st' = st
  BY <1>1, <1>3, StopKeeps
<1>4. ASSUME NEW m, m = [mem EXCEPT !.recorded = @ \cup {pass.item}], st' = m,
             pass' = Step("createJob", m)
      PROVE  IInv'
  <2>1. /\ m \in Status /\ m.phase = mem.phase /\ m.selected = mem.selected
        /\ m.stop = mem.stop /\ m.recorded = mem.recorded \cup {pass.item}
        /\ m.paused = mem.paused /\ m.replicas = mem.replicas /\ m.suspends = mem.suspends
        /\ m.resumed = mem.resumed /\ m.uid = mem.uid /\ m.items = mem.items
    BY <1>1, <1>4 DEF Status
  <2>2. st' = m /\ pass' = Step("createJob", m)
    BY <1>4
  <2>3. /\ pass' \in Passes /\ pass'.pc = "createJob" /\ pass'.mem = m /\ SamePass(pass', pass)
    BY <2>1, <2>2, StepType, MemType DEF Stages, IInv
  <2>4. Quiet /\ TypeOK'
    BY <1>1, <2>1, <2>2, <2>3, WorldQuiet, PassTypes DEF TypeOK, RunTypes, IInv
  <2>5. Stored(mem)
    BY <1>1, InHandIsStorable DEF EndInv, Finished
  <2>6. StatusInv(m)
    <3>1. StatusInv(mem) /\ mem.selected
      BY <1>1 DEF MemInv
    <3>2. Ahead(m)
      BY <2>1, <3>1 DEF StatusInv, Ahead
    <3>3. DatabasesInv(m)
      BY <2>1, <3>1 DEF StatusInv, DatabasesInv
    <3>4. mem.items[pass.item] = "Pending"
      BY <1>1
    <3>5. VolumesInv(m)
      BY <2>1, <3>1, <3>4 DEF StatusInv, VolumesInv
    <3> QED BY <3>2, <3>3, <3>5 DEF StatusInv
  <2>7. JobInv(m) /\ AppInv(m)
    BY <2>1, <2>5 DEF Stored, JobInv, AppInv
  <2>8. DbInv(m) /\ LifeInv(m)
    BY <2>1, <2>5 DEF Stored, DbInv, LifeInv
  <2>9. Stored(m)
    BY <2>5, <2>6, <2>7, <2>8 DEF Stored
  <2>10. EndInv(m, pass'.end)
    BY ZenonT(60), <1>1, <2>1, <2>3 DEF EndInv, SamePass
  <2>11. spec.pauses /\ m.resumed => app.replicas = 1
    BY <1>1, <2>1 DEF MemInv
  <2>12. Control'
    <3>1. ShapeInv'
      BY ZenonT(60), <1>1, <2>1, <2>2, <2>3, <2>4 DEF Control, Quiet, SamePass, ShapeInv
    <3>2. DeleteInv'
      BY <1>1, <2>1, <2>2, <2>3, <2>4 DEF Control, Quiet, SamePass, DeleteInv
    <3>3. StageInv'
      BY <1>1, <2>1, <2>2, <2>3, <2>4 DEF Control, Quiet, SamePass, StageInv
    <3>4. PauseInv'
      BY <1>1, <2>1, <2>2, <2>3, <2>4 DEF Control, Quiet, SamePass, PauseInv, OwnApp, VolumesDone,
         Pending
    <3>5. DownInv'
      BY <1>1, <2>1, <2>3, <2>4, DownSame DEF Control, Quiet
    <3> QED BY <3>1, <3>2, <3>3, <3>4, <3>5 DEF Control
  <2> QED BY <1>1, <2>2, <2>3, <2>4, <2>9, <2>10, <2>11, <2>12, WriteKeeps
<1> QED BY <1>1, <1>2, <1>3, <1>4 DEF RecordJob, WriteStatus, StopPass

LEMMA CreateJobKeeps ==
    ASSUME IInv, CreateJob
    PROVE  IInv'
<1>0. pass.item \in Volumes
  BY DEF CreateJob, IInv, Control, ShapeInv
<1> PICK v \in Volumes : v = pass.item
  BY <1>0
<1> PICK m, n : m = pass'.mem /\ n = mem
  OBVIOUS
<1>1. /\ spec' = spec /\ st' = st /\ meta' = meta /\ wl' = wl /\ late' = late /\ app' = app
      /\ lock' = lock /\ copy' = copy /\ pod' = pod /\ data' = data /\ dbs' = dbs
      /\ request' = request /\ faults' = faults /\ UNCHANGED postgres
      /\ At("createJob") /\ Control /\ Stored(st)
  BY DEF CreateJob, IInv, postgres
<1>2. /\ MemInv(n) /\ EndInv(n, "") /\ pass.end = "" /\ v \in Things
      /\ n.phase = "Running" /\ n.selected /\ n.items[v] = "Pending" /\ v \in n.recorded
      /\ lock = "run" /\ meta.finalizer
  BY <1>1 DEF IInv, InMemory, Control, ShapeInv, StageInv, Things
<1>3. /\ job' \in [Volumes -> {"none", "running", "complete", "failed"}]
      /\ job'[v] = IF job[v] = "none" THEN "running" ELSE job[v]
      /\ \A u \in Volumes : u # v => job'[u] = job[u]
  BY <1>2 DEF CreateJob, IInv, TypeOK, JobTypes
<1>4. /\ pass' \in Passes /\ pass'.pc = "volumes" /\ pass'.end = "" /\ pass'.mem = m
      /\ Alike(m, n) /\ m.uid = n.uid
      /\ m.items[v] = "Running" /\ \A t \in Things : t # v => m.items[t] = n.items[t]
  <2>1. pass' = Gives(v, "Running", "volumes")
    BY DEF CreateJob, Gives
  <2>2. "Running" \in ItemPhases /\ "volumes" \in Stages
    BY DEF Stages, ItemPhases, Unended
  <2> QED BY ZenonT(60), <1>2, <2>1, <2>2, GivesItems
<1>5. TypeOK'
  <2>1. JobTypes'
    BY <1>1, <1>3 DEF IInv, TypeOK, JobTypes
  <2> QED BY <1>1, <1>4, <2>1, TypesKept DEF IInv, TypeOK
<1>6. /\ StatusInv(m) /\ EndInv(m, "")
      /\ \A u \in Volumes : n.items[u] = "Succeeded" => m.items[u] = "Succeeded"
  <2>1. VolumeGives(m, n, v)
    BY <1>2, <1>4 DEF VolumeGives, MemInv
  <2> QED BY <2>1, VolumeGiven
<1>7. /\ \A t \in Things : m.items[t] = "Pending" => n.items[t] = "Pending"
      /\ \A d \in Clusters : m.items[d] = n.items[d]
  BY ZenonT(60), <1>2, <1>4, ThingsAssumption DEF Things, Volumes
<1>8. Control'
  <2>1. DeleteInv'
    <3>1. FewerDeleted(m, n)
      BY <1>4, <1>7 DEF FewerDeleted
    <3> QED BY <1>1, <1>4, <3>1, DeleteKept DEF Control
  <2>2. ShapeInv' /\ StageInv' /\ PauseInv'
    BY <1>1, <1>2, <1>4 DEF Control, Alike, ShapeInv, StageInv, PauseInv, OwnApp
  <2>3. Pending # {} \/ Pending' = {}
    BY <1>4, <1>7 DEF Pending
  <2>4. DownInv'
    BY <1>1, <1>4, <2>3 DEF Control, DownInv
  <2> QED BY <2>1, <2>2, <2>4 DEF Control
<1>9. StatusInv(mem)' /\ MemInv(mem)' /\ EndInv(mem, pass.end)'
  <2>1. \A u \in Volumes : m.items[u] = "Succeeded" =>
          data'[u] = "whole" /\ job'[u] # "running" /\ u \notin pod'
    <3>1. VolumesInv(m)
      BY <1>6 DEF StatusInv
    <3>2. m.items[v] = "Running"
      BY <1>4
    <3> QED BY <1>1, <1>3, <3>1, <3>2 DEF VolumesInv
  <2>2. StatusInv(mem)'
    BY <1>1, <1>4, <1>6, <2>1, StatusWithJobs
  <2>3. Agree(mem)'
    BY ZenonT(60), <1>1, <1>2, <1>4 DEF MemInv, Agree, Alike
  <2>5. \A u \in Volumes : st.items[u] = "Succeeded" => m.items[u] = "Succeeded"
    BY <1>2, <1>6 DEF MemInv
  <2>6. (st.resumed => m.resumed) /\ (spec.pauses /\ m.resumed => app.replicas = 1)
    BY <1>2, <1>4 DEF MemInv, Alike
  <2>7. MemInv(mem)'
    BY <1>1, <1>4, <2>2, <2>3, <2>5, <2>6 DEF MemInv
  <2>4. EndInv(mem, pass.end)'
    BY ZenonT(60), <1>1, <1>4, <1>6 DEF EndInv
  <2> QED BY <2>2, <2>4, <2>7
<1>10. Stored(st)'
  <2>1. StatusInv(st)'
    <3>1. \A u \in Volumes : st.items[u] = "Succeeded" =>
            data'[u] = "whole" /\ job'[u] # "running" /\ u \notin pod'
      <4>1. st.items[v] # "Succeeded" /\ VolumesInv(st)
        BY <1>1, <1>2 DEF MemInv, Stored, StatusInv
      <4> QED BY <1>1, <1>3, <4>1 DEF VolumesInv
    <3> QED BY <1>1, <3>1, StatusWithJobs DEF Stored
  <2>2. LeaseInv'
    BY <1>1, <1>2 DEF LeaseInv
  <2>3. JobInv(st)'
    <3>1. JobInv(st) /\ v \in st.recorded
      BY <1>1, <1>2 DEF Stored, MemInv, Agree
    <3> QED BY <1>1, <1>3, <3>1 DEF JobInv
  <2>4. AppInv(st)' /\ DbInv(st)' /\ LifeInv(st)'
    BY <1>1 DEF Stored, AppInv, OwnApp, DbInv, Target, LifeInv
  <2> QED BY <2>1, <2>2, <2>3, <2>4 DEF Stored
<1> QED BY <1>1, <1>2, <1>5, <1>8, <1>9, <1>10 DEF IInv, InMemory

LEMMA FollowJobKeeps ==
    ASSUME IInv, NEW v \in Volumes, FollowJob(v)
    PROVE  IInv'
<1>1. /\ UNCHANGED <<spec, st, meta, world, faults>> /\ At("volumes") /\ v \in Things
  BY DEF FollowJob, Things
<1>2. CASE Leave(v)
  BY <1>1, <1>2, LeaveKeeps
<1>3. CASE /\ mem.items[v] = "Running" /\ job[v] # "running"
           /\ SetItem(v, IF job[v] = "complete" THEN "Succeeded" ELSE "Failed")
  <2>1. job[v] = "complete" => data[v] = "whole" /\ v \notin pod
    BY DEF IInv, Stored, JobInv
  <2> PICK phase : phase = IF job[v] = "complete" THEN "Succeeded" ELSE "Failed"
    OBVIOUS
  <2>2. pass' = Gives(v, phase, "volumes")
    BY <1>1, <1>3, SetItemGives
  <2> QED BY <1>1, <1>3, <2>1, <2>2, VolumeEndKeeps
<1> QED BY <1>2, <1>3 DEF FollowJob

-----------------------------------------------------------------------------
(* The databases. *)

(* A Cluster keeps its UID, or another follows it. *)
ClustersMove ==
    \A d \in Clusters :
        \/ dbs'[d].uid = dbs[d].uid /\ dbs'[d].ours = dbs[d].ours
        \/ dbs'[d].uid = dbs[d].uid + 1

LEMMA StatusWithClusters ==
    ASSUME TypeOK, UNCHANGED <<spec, job, pod, data>>, ClustersMove, NEW m \in Status, StatusInv(m)
    PROVE  (st' = m => StatusInv(st)') /\ (pass'.mem = m => StatusInv(mem)')
<1>1. Ahead(m) /\ VolumesInv(m) /\ DatabasesInv(m)
  BY DEF StatusInv
<1>2. st' = m => Ahead(st)' /\ VolumesInv(st)'
  BY <1>1 DEF Ahead, VolumesInv
<1>3. pass'.mem = m => Ahead(mem)' /\ VolumesInv(mem)'
  BY <1>1 DEF Ahead, VolumesInv
<1>4. \A d \in Clusters : m.uid[d] \in Nat /\ dbs[d].uid \in Nat
  BY BoundsAssumption DEF TypeOK, PostgresTypes, Status
<1>5. \A d \in Clusters :
        /\ m.items[d] = "Deleted" => m.uid[d] <= dbs'[d].uid
        /\ m.items[d] \in {"Recovering", "Succeeded"} =>
             m.uid[d] < dbs'[d].uid /\ (dbs'[d].uid = m.uid[d] + 1 => dbs'[d].ours)
  BY <1>1, <1>4 DEF DatabasesInv, ClustersMove
<1>6. st' = m => DatabasesInv(st)'
  BY <1>1, <1>5 DEF DatabasesInv
<1>7. pass'.mem = m => DatabasesInv(mem)'
  BY <1>1, <1>5 DEF DatabasesInv
<1> QED BY <1>2, <1>3, <1>6, <1>7 DEF StatusInv

LEMMA ClustersKeep ==
    ASSUME IInv, UNCHANGED <<spec, st, meta, lock, app, jobs>>, TypeOK', Control', ClustersMove,
           DbInv(st)', On' => On /\ pass'.mem = mem /\ pass'.end = pass.end
    PROVE  IInv'
<1>1. /\ spec' = spec /\ st' = st /\ meta' = meta /\ lock' = lock /\ app' = app /\ job' = job
      /\ pod' = pod /\ data' = data /\ copy' = copy /\ Stored(st) /\ TypeOK
  BY DEF IInv, jobs
<1>2. st \in Status /\ mem \in Status
  BY <1>1, MemType
<1>3. Stored(st)'
  <2>1. StatusInv(st)'
    BY <1>1, <1>2, StatusWithClusters DEF Stored
  <2>2. LeaseInv' /\ JobInv(st)' /\ LifeInv(st)'
    BY <1>1 DEF Stored, LeaseInv, JobInv, LifeInv
  <2>3. AppInv(st)'
    BY <1>1 DEF Stored, AppInv, OwnApp
  <2> QED BY <2>1, <2>2, <2>3 DEF Stored
<1>4. ASSUME On' PROVE meta'.finalizer /\ MemInv(mem)' /\ EndInv(mem, pass.end)'
  <2>1. On /\ pass'.mem = mem /\ pass'.end = pass.end
    BY <1>4
  <2>2. meta.finalizer /\ MemInv(mem) /\ EndInv(mem, pass.end)
    BY <2>1 DEF IInv, InMemory
  <2>3. StatusInv(mem)'
    BY <1>1, <1>2, <2>1, <2>2, StatusWithClusters DEF MemInv
  <2>4. MemInv(mem)'
    BY <1>1, <2>1, <2>2, <2>3 DEF MemInv, Agree
  <2>5. EndInv(mem, pass.end)'
    BY <1>1, <2>1, <2>2 DEF EndInv
  <2> QED BY <1>1, <2>2, <2>4, <2>5
<1> QED BY <1>3, <1>4 DEF IInv, InMemory

LEMMA DatabaseEndKeeps ==
    ASSUME IInv, NEW d \in Clusters, At("databases"),
           mem.items[d] \in {"Pending", "Deleted", "Recovering"},
           NEW phase \in {"Skipped", "Failed", "Recovering", "Succeeded"}, SetItem(d, phase),
           phase \in {"Recovering", "Succeeded"} =>
               mem.uid[d] < dbs[d].uid /\ (dbs[d].uid = mem.uid[d] + 1 => dbs[d].ours),
           UNCHANGED <<spec, st, meta, world, faults>>
    PROVE  IInv'
<1> PICK m, n : m = pass'.mem /\ n = mem
  OBVIOUS
<1>1. /\ MemInv(n) /\ EndInv(n, "") /\ Control /\ pass.end = "" /\ d \in Things
      /\ n.phase = "Running" /\ n.selected
  BY DEF IInv, InMemory, Control, ShapeInv, StageInv, Things
<1>2. /\ pass' \in Passes /\ pass'.pc = "databases" /\ pass'.end = "" /\ pass'.mem = m
      /\ Alike(m, n) /\ m.uid = n.uid
      /\ m.items[d] = phase /\ \A t \in Things : t # d => m.items[t] = n.items[t]
  <2>1. phase \in ItemPhases /\ "databases" \in Stages
    BY DEF Stages, ItemPhases, Unended
  <2>2. pass' = Gives(d, phase, "databases")
    BY <1>1, SetItemGives
  <2> QED BY <1>1, <2>1, <2>2, GivesItems
<1>3. /\ StatusInv(m) /\ EndInv(m, "")
      /\ \A u \in Volumes : m.items[u] = n.items[u]
  <2>1. DatabaseGives(m, n, d)
    BY <1>1, <1>2 DEF DatabaseGives, MemInv
  <2> QED BY <2>1, DatabaseGiven
<1>4. FewerDeleted(m, n)
  BY <1>2 DEF FewerDeleted, Things
<1>5. Quiet /\ TypeOK'
  BY <1>2, WorldQuiet, PassTypes, TroubleType DEF TypeOK, RunTypes, IInv
<1>6. Control'
  <2>1. DeleteInv'
    BY <1>1, <1>2, <1>4, DeleteKept DEF Control
  <2>2. VolumesDone'
    BY <1>1, <1>2, <1>3 DEF Control, PauseInv, VolumesDone
  <2>3. ShapeInv' /\ StageInv'
    BY <1>1, <1>2, <1>5 DEF Control, Quiet, Alike, ShapeInv, StageInv
  <2>4. PauseInv'
    BY <1>1, <1>2, <1>5, <2>2 DEF Control, Quiet, Alike, PauseInv, OwnApp
  <2>5. DownInv'
    BY <1>1, <1>2, <1>5 DEF Control, Quiet, DownInv
  <2> QED BY <2>1, <2>3, <2>4, <2>5 DEF Control
<1> QED BY <1>1, <1>2, <1>3, <1>5, <1>6, ItemsKeep

LEMMA StartDatabaseKeeps ==
    ASSUME IInv, NEW d \in Clusters, StartDatabase(d)
    PROVE  IInv'
<1>1. /\ UNCHANGED <<spec, st, meta, world, faults>> /\ At("databases") /\ d \in Things
      /\ mem.items[d] = "Pending"
  BY DEF StartDatabase, Things, Pending
<1>2. CASE SetItem(d, "Skipped") \/ SetItem(d, "Failed")
  BY <1>1, <1>2, DatabaseEndKeeps
<1>3. CASE /\ ~VolumesFailed
           /\ pass' = GoOn(d, "recordUID", [mem EXCEPT !.uid[d] = dbs[d].uid,
              !.items[d] = "Deleted"])
  <2>0. PICK m : m = [mem EXCEPT !.uid[d] = dbs[d].uid, !.items[d] = "Deleted"]
    OBVIOUS
  <2> PICK n : n = mem
    OBVIOUS
  <2>1. /\ MemInv(n) /\ EndInv(n, "") /\ Control /\ pass.end = ""
        /\ n.phase = "Running" /\ n.selected /\ n.items[d] = "Pending" /\ n \in Status
    BY <1>1, MemType DEF IInv, InMemory, Control, ShapeInv, StageInv
  <2>2. dbs[d].uid \in 0 .. MaxUID /\ dbs[d].uid <= dbs[d].uid
    BY BoundsAssumption DEF IInv, TypeOK, PostgresTypes
  <2>3. /\ m \in Status /\ Alike(m, n) /\ m.items[d] = "Deleted" /\ m.uid[d] = dbs[d].uid
        /\ \A t \in Things : t # d => m.items[t] = n.items[t]
        /\ \A u \in Clusters : u # d => m.uid[u] = n.uid[u]
    BY <1>1, <2>0, <2>1, <2>2 DEF Status, Alike, Unended
  <2>4. pass' = GoOn(d, "recordUID", m)
    BY <1>3, <2>0
  <2>5. /\ pass' \in Passes /\ pass'.pc = "recordUID" /\ pass'.mem = m /\ pass'.item = d
        /\ pass'.end = ""
    <3>1. "recordUID" \in Stages
      BY DEF Stages
    <3> QED BY <1>1, <2>1, <2>3, <2>4, <3>1, GoOnType
  <2>6. Quiet /\ TypeOK'
    BY <1>1, <2>5, WorldQuiet, PassTypes DEF TypeOK, RunTypes, IInv
  <2>7. \A v \in Volumes : n.items[v] \in {"None", "Succeeded"}
    <3>1. \A v \in Volumes : n.items[v] \notin {"Pending", "Running", "Failed"}
      BY <1>1, <1>3, <2>1 DEF Control, PauseInv, VolumesDone, VolumesFailed
    <3>2. \A v \in Volumes : n.items[v] \notin {"Deleted", "Recovering", "Skipped"}
      BY <2>1 DEF EndInv, MemInv, StatusInv, VolumesInv
    <3> QED BY <2>1, <3>1, <3>2 DEF Status, Unended, Things
  <2>8. /\ StatusInv(m) /\ EndInv(m, "")
        /\ \A u \in Volumes : m.items[u] = n.items[u]
    <3>1. DatabaseGives(m, n, d)
      BY <2>1, <2>2, <2>3, <2>7 DEF DatabaseGives, MemInv
    <3> QED BY <3>1, DatabaseGiven
  <2>9. Control'
    <3>1. \A u \in Clusters : u # d => m.items[u] = n.items[u]
      BY <2>3 DEF Things
    <3>2. DeleteInv'
      <4>1. DeleteInv /\ ~At("recordUID") /\ st' = st
        BY <1>1, <2>1 DEF Control
      <4>2. \A e \in Clusters :
              m.items[e] = "Deleted" /\ e # d => st.items[e] = "Deleted" /\ st.uid[e] = m.uid[e]
        BY <1>1, <2>3, <3>1, <4>1 DEF DeleteInv
      <4> QED BY <2>5, <4>1, <4>2 DEF DeleteInv
    <3>3. ShapeInv' /\ StageInv'
      BY <1>1, <2>1, <2>3, <2>5, <2>6 DEF Control, Quiet, Alike, ShapeInv, StageInv
    <3>4. PauseInv' /\ DownInv'
      BY <1>1, <2>1, <2>3, <2>5, <2>6 DEF Control, Quiet, Alike, PauseInv, OwnApp, DownInv
    <3> QED BY <3>2, <3>3, <3>4 DEF Control
  <2> QED BY <1>1, <2>3, <2>5, <2>6, <2>8, <2>9, ItemsKeep
<1> QED BY <1>2, <1>3 DEF StartDatabase

LEMMA RecordUIDKeeps ==
    ASSUME IInv, RecordUID
    PROVE  IInv'
<1>1. /\ UNCHANGED <<spec, meta, world, faults>> /\ At("recordUID") /\ Control /\ mem \in Status
      /\ pass.end = "" /\ MemInv(mem) /\ EndInv(mem, "") /\ mem.phase = "Running"
  BY MemType DEF RecordUID, IInv, InMemory, Control, ShapeInv, StageInv
<1>2. CASE pass' = Idle /\ st' = st
  BY <1>1, <1>2, StopKeeps
<1>3. CASE pass' = Step("deleteCluster", mem) /\ st' = mem
  <2>1. /\ pass' \in Passes /\ pass'.pc = "deleteCluster" /\ pass'.mem = mem
        /\ SamePass(pass', pass)
    BY <1>3, GotoType DEF Goto, Stages
  <2>2. Quiet /\ TypeOK'
    BY <1>1, <1>3, <2>1, WorldQuiet, PassTypes DEF TypeOK, RunTypes, IInv
  <2>3. Control'
    <3> USE <1>1, <1>3, <2>1, <2>2 DEF Control, Quiet, SamePass, Alike
    <3>1. ShapeInv'
      BY DEF ShapeInv
    <3>2. DeleteInv'
      BY DEF DeleteInv
    <3>3. StageInv'
      BY DEF StageInv
    <3>4. PauseInv'
      BY DEF PauseInv, OwnApp, VolumesDone, Pending
    <3>5. DownInv'
      BY DEF DownInv, Pending
    <3> QED BY <3>1, <3>2, <3>3, <3>4, <3>5
  <2>4. Stored(mem)
    BY <1>1, InHandIsStorable DEF EndInv, Finished
  <2>5. EndInv(mem, pass'.end) /\ (spec.pauses /\ mem.resumed => app.replicas = 1)
    BY <1>1, <2>1 DEF SamePass, MemInv
  <2> QED BY <1>1, <1>3, <2>1, <2>2, <2>3, <2>4, <2>5, WriteKeeps
<1> QED BY <1>1, <1>2, <1>3 DEF RecordUID, WriteStatus, StopPass

LEMMA DeleteClusterKeeps ==
    ASSUME IInv, DeleteCluster
    PROVE  IInv'
<1>0. pass.item \in Clusters
  BY DEF DeleteCluster, IInv, Control, ShapeInv
<1> PICK d \in Clusters : d = pass.item
  BY <1>0
<1>1. /\ spec' = spec /\ st' = st /\ meta' = meta /\ lock' = lock /\ app' = app /\ wl' = wl
      /\ late' = late /\ UNCHANGED jobs /\ job' = job /\ pod' = pod /\ left' = left
      /\ kept' = kept /\ request' = request /\ faults' = faults
      /\ At("deleteCluster") /\ Control /\ pass.end = "" /\ mem.items[d] = "Deleted"
      /\ d \in Things
  BY DEF DeleteCluster, IInv, Control, ShapeInv, jobs, Things
<1>2. /\ MemInv(mem) /\ DbInv(st) /\ PostgresTypes
  BY <1>1 DEF IInv, InMemory, Stored, TypeOK
<1>3. /\ pass' \in Passes /\ pass'.pc = "databases" /\ pass'.mem = mem /\ pass'.end = ""
  <2>1. /\ Visited(d) \in Passes /\ Visited(d).mem = mem /\ Visited(d).end = pass.end
    BY <1>1, LeaveType
  <2>2. pass' = [Visited(d) EXCEPT !.pc = "databases", !.shutting = TRUE]
    BY DEF DeleteCluster
  <2> QED BY <1>1, <2>1, <2>2 DEF Passes, Stages
<1>4. dbs' = dbs \/ (dbs[d].state = "there" /\ dbs' = [dbs EXCEPT ![d].state = "deleting"])
  BY DEF DeleteCluster
<1>5. /\ dbs' \in [Clusters -> [state : {"there", "deleting", "gone"}, uid : 1 .. MaxUID,
                               ours : BOOLEAN, target : Targets, healthy : BOOLEAN]]
      /\ \A e \in Clusters : /\ dbs'[e].uid = dbs[e].uid /\ dbs'[e].ours = dbs[e].ours
                             /\ dbs'[e].target = dbs[e].target
                             /\ dbs[e].state = "gone" => dbs'[e].state = "gone"
  BY <1>2, <1>4 DEF PostgresTypes
<1>6. TypeOK'
  <2>1. PostgresTypes'
    BY <1>1, <1>2, <1>5 DEF PostgresTypes
  <2> QED BY <1>1, <1>3, <2>1, TypesKept DEF IInv, TypeOK
<1>7. ClustersMove
  BY <1>5 DEF ClustersMove
<1>8. DbInv(st)'
  <2>1. spec' = spec /\ st' = st /\ request' = request /\ DbInv(st)
    BY <1>1, <1>2
  <2> QED BY <1>5, <2>1 DEF DbInv, Target
<1>9. VolumesDone
  BY <1>1, <1>2 DEF VolumesDone, MemInv, StatusInv, DatabasesInv
<1>10. Control'
  <2> USE <1>1, <1>3, <1>9 DEF Control, Quiet, SamePass, Alike
  <2>1. ShapeInv'
    BY DEF ShapeInv
  <2>2. DeleteInv'
    BY DEF DeleteInv
  <2>3. StageInv'
    BY DEF StageInv
  <2>4. PauseInv'
    BY DEF PauseInv, OwnApp, VolumesDone, Pending
  <2>5. DownInv'
    BY DEF DownInv, Pending
  <2> QED BY <2>1, <2>2, <2>3, <2>4, <2>5
<1> QED BY <1>1, <1>3, <1>6, <1>7, <1>8, <1>10, ClustersKeep

LEMMA AwaitClusterKeeps ==
    ASSUME IInv, NEW d \in Clusters, AwaitCluster(d)
    PROVE  IInv'
<1>1. /\ UNCHANGED <<spec, st, meta, world, faults>> /\ At("databases") /\ d \in Things
      /\ mem.items[d] = "Deleted" /\ Control /\ pass.end = "" /\ mem \in Status
  BY MemType DEF AwaitCluster, Things, IInv, Control, ShapeInv
<1>2. CASE Leave(d)
  BY <1>1, <1>2, LeaveKeeps
<1>3. CASE Shutdown(d)
  <2>1. pass' \in Passes /\ pass'.pc = pass.pc /\ pass'.mem = mem /\ pass'.end = pass.end
    <3>1. /\ Visited(d) \in Passes /\ Visited(d).pc = pass.pc /\ Visited(d).mem = mem
          /\ Visited(d).end = pass.end
      BY <1>1, LeaveType
    <3> QED BY <1>3, <3>1 DEF Shutdown, Passes
  <2>2. Quiet /\ TypeOK'
    BY <1>1, <2>1, WorldQuiet, PassTypes DEF TypeOK, RunTypes, IInv
  <2>3. Control'
    <3> USE <1>1, <2>1, <2>2 DEF Control, Quiet, SamePass, Alike
    <3>1. ShapeInv'
      BY DEF ShapeInv
    <3>2. DeleteInv'
      BY DEF DeleteInv
    <3>3. StageInv'
      BY DEF StageInv
    <3>4. PauseInv'
      BY DEF PauseInv, OwnApp, VolumesDone, Pending
    <3>5. DownInv'
      BY DEF DownInv, Pending
    <3> QED BY <3>1, <3>2, <3>3, <3>4, <3>5
  <2> QED BY <1>1, <2>1, <2>2, <2>3, MoveKeeps
<1>4. CASE pass' = GoOn(d, "deleteCluster", mem)
  <2>1. /\ pass' \in Passes /\ pass'.pc = "deleteCluster" /\ pass'.mem = mem /\ pass'.item = d
        /\ pass'.end = pass.end
    <3>1. "deleteCluster" \in Stages
      BY DEF Stages
    <3> QED BY <1>1, <1>4, <3>1, GoOnType
  <2>2. Quiet /\ TypeOK'
    BY <1>1, <2>1, WorldQuiet, PassTypes DEF TypeOK, RunTypes, IInv
  <2>3. Control'
    <3> USE <1>1, <2>1, <2>2 DEF Control, Quiet, SamePass, Alike
    <3>1. ShapeInv'
      BY DEF ShapeInv
    <3>2. DeleteInv'
      BY DEF DeleteInv
    <3>3. StageInv'
      BY DEF StageInv
    <3>4. PauseInv'
      BY DEF PauseInv, OwnApp, VolumesDone, Pending
    <3>5. DownInv'
      BY DEF DownInv, Pending
    <3> QED BY <3>1, <3>2, <3>3, <3>4, <3>5
  <2> QED BY <1>1, <2>1, <2>2, <2>3, MoveKeeps
<1>5. CASE /\ dbs[d].uid # mem.uid[d]
           /\ SetItem(d, IF dbs[d].ours THEN "Recovering" ELSE "Failed")
  <2>1. mem.uid[d] \in Nat /\ dbs[d].uid \in Nat
    <3>1. mem.uid \in [Clusters -> 0 .. MaxUID]
      BY <1>1 DEF Status
    <3>2. dbs[d].uid \in 1 .. MaxUID
      BY DEF IInv, TypeOK, PostgresTypes
    <3> QED BY <3>1, <3>2, BoundsAssumption
  <2>2. mem.uid[d] <= dbs[d].uid
    BY <1>1 DEF IInv, InMemory, MemInv, StatusInv, DatabasesInv
  <2>3. mem.uid[d] < dbs[d].uid
    BY <1>5, <2>1, <2>2
  <2> QED BY <1>1, <1>5, <2>3, DatabaseEndKeeps
<1> QED BY <1>2, <1>3, <1>4, <1>5 DEF AwaitCluster

LEMMA FollowClusterKeeps ==
    ASSUME IInv, NEW d \in Clusters, FollowCluster(d)
    PROVE  IInv'
<1>1. UNCHANGED <<spec, st, meta, world, faults>> /\ At("databases") /\ d \in Things
  BY DEF FollowCluster, Things
<1>2. CASE Leave(d)
  BY <1>1, <1>2, LeaveKeeps
<1>3. CASE mem.items[d] = "Recovering" /\ (SetItem(d, "Failed") \/ SetItem(d, "Succeeded"))
  <2>1. mem.uid[d] < dbs[d].uid /\ (dbs[d].uid = mem.uid[d] + 1 => dbs[d].ours)
    BY <1>1, <1>3 DEF IInv, InMemory, MemInv, StatusInv, DatabasesInv
  <2> QED BY <1>1, <1>3, <2>1, DatabaseEndKeeps
<1> QED BY <1>2, <1>3 DEF FollowCluster

-----------------------------------------------------------------------------
(* The resume and the end. *)

(* Every Job and pod is one of a recorded volume. *)
LEMMA NothingLeftRunning ==
    ASSUME IInv, On, Deletable = {}, mem.recorded \cap pod = {}
    PROVE  pod = {} /\ \A v \in Volumes : job[v] # "running"
<1>1. JobInv(st) /\ mem.recorded = st.recorded /\ pod \subseteq Volumes
  BY DEF IInv, Stored, InMemory, MemInv, Agree, TypeOK, JobTypes
<1>2. \A v \in Volumes : (job[v] # "none" => v \in mem.recorded) /\ v \notin pod
  BY <1>1 DEF JobInv
<1>3. \A v \in mem.recorded : job[v] # "running"
  BY DEF Deletable
<1> QED BY <1>1, <1>2, <1>3

LEMMA RecordResumeKeeps ==
    ASSUME IInv, RecordResume, UNCHANGED <<spec, meta, world, faults>>, mem.paused,
           \/ At("resume") /\ VolumesDone /\ Pending = {}
           \/ /\ At("release") /\ pass.end # "" /\ ~mem.resumed
              /\ pod = {} /\ \A v \in Volumes : job[v] # "running"
    PROVE  IInv'
<1>1. /\ Control /\ mem \in Status /\ MemInv(mem) /\ EndInv(mem, pass.end) /\ Stored(st)
      /\ mem.selected /\ VolumesInv(mem)
  BY MemType DEF IInv, InMemory, MemInv, StatusInv, Ahead
<1>0. /\ pass.end = "" => mem.phase = "Running" /\ lock = "run"
      /\ pass.end # "" => pod = {} /\ \A v \in Volumes : job[v] # "running"
  BY <1>1 DEF Control, ShapeInv, StageInv
<1>2. CASE pass' = Idle /\ st' = st
  BY <1>2, StopKeeps
<1>3. CASE Goto("scaleUp") /\ st' = st
  <2>1. /\ pass' \in Passes /\ pass'.pc = "scaleUp" /\ pass'.mem = mem /\ SamePass(pass', pass)
    BY <1>3, GotoType DEF Stages
  <2>2. Quiet /\ TypeOK'
    BY <1>3, <2>1, WorldQuiet, PassTypes DEF TypeOK, RunTypes, IInv
  <2>3. Control'
    <3>1. ShapeInv'
      BY <1>1, <1>3, <2>1, <2>2 DEF Control, Quiet, SamePass, Alike, ShapeInv
    <3>2. DeleteInv'
      BY <1>1, <1>3, <2>1, <2>2 DEF Control, Quiet, SamePass, Alike, DeleteInv
    <3>3. StageInv'
      BY <1>0, <1>1, <2>1, <2>2 DEF SamePass, Quiet, StageInv
    <3>4. PauseInv'
      BY <1>1, <1>3, <2>1, <2>2 DEF Control, Quiet, SamePass, Alike, PauseInv, OwnApp,
         VolumesDone, Pending
    <3>5. DownInv'
      BY <1>1, <1>3, <2>1, <2>2 DEF Control, Quiet, SamePass, Alike, DownInv, Pending
    <3> QED BY <3>1, <3>2, <3>3, <3>4, <3>5 DEF Control
  <2> QED BY <1>3, <2>1, <2>2, <2>3, MoveKeeps DEF SamePass
<1>4. ASSUME NEW m, m = [mem EXCEPT !.resumedAt = TRUE], st' = m, pass' = Step("scaleUp", m)
      PROVE  IInv'
  <2>1. m \in Status /\ SameFacts(m, mem)
    BY <1>1, <1>4 DEF Status, SameFacts
  <2>2. st' = m /\ pass' = Step("scaleUp", m)
    BY <1>4
  <2>3. /\ pass' \in Passes /\ pass'.pc = "scaleUp" /\ pass'.mem = m /\ SamePass(pass', pass)
    <3>1. "scaleUp" \in Stages /\ pass \in Passes
      BY MemType DEF Stages, IInv
    <3> QED BY ZenonT(60), <2>1, <2>2, <3>1, StepType
  <2>4. Quiet /\ TypeOK'
    BY <2>1, <2>2, <2>3, WorldQuiet, PassTypes DEF TypeOK, RunTypes, IInv
  <2>5. Control'
    <3>1. ShapeInv'
      BY <1>1, <2>1, <2>2, <2>3, <2>4 DEF Control, Quiet, SameFacts, SamePass, ShapeInv
    <3>2. DeleteInv'
      BY <1>1, <2>1, <2>2, <2>3, <2>4 DEF Control, Quiet, SameFacts, SamePass, DeleteInv
    <3>3. StageInv'
      BY <1>0, <1>1, <2>1, <2>3, <2>4 DEF SameFacts, SamePass, Quiet, StageInv
    <3>4. PauseInv'
      BY ZenonT(60), <1>1, <2>1, <2>2, <2>3, <2>4 DEF Control, Quiet, SameFacts, SamePass,
         PauseInv, OwnApp,
         VolumesDone, Pending
    <3>5. DownInv'
      BY <1>1, <2>1, <2>2, <2>3, <2>4 DEF Control, Quiet, SameFacts, SamePass, DownInv, Pending
    <3> QED BY <3>1, <3>2, <3>3, <3>4, <3>5 DEF Control
  <2>6. ~Finished(mem.phase)
    <3>1. CASE At("resume")
      BY <1>1, <3>1 DEF Control, StageInv, Finished
    <3>2. CASE ~mem.resumed
      BY <1>1, <3>2 DEF MemInv, Agree, Stored, LifeInv
    <3> QED BY <3>1, <3>2
  <2>7. Stored(mem)
    BY <1>1, <2>6, InHandIsStorable DEF VolumesInv
  <2>8. Stored(m) /\ EndInv(m, pass'.end)
    BY <1>1, <2>1, <2>3, <2>7, SameFactsKept DEF SamePass
  <2>9. spec.pauses /\ m.resumed => app.replicas = 1
    BY <1>1, <2>1 DEF MemInv, SameFacts
  <2> QED BY <2>2, <2>3, <2>4, <2>5, <2>8, <2>9, WriteKeeps
<1> QED BY <1>2, <1>3, <1>4 DEF RecordResume, WriteStatus, StopPass

LEMMA ResumeKeeps ==
    ASSUME IInv, Resume
    PROVE  IInv'
<1>1. UNCHANGED <<spec, meta, world, faults>> /\ At("resume") /\ Control
  BY DEF Resume, IInv
<1>2. CASE MayResume /\ RecordResume
  BY <1>1, <1>2, RecordResumeKeeps DEF MayResume
<1>3. CASE Goto("write") /\ st' = st
  <2>1. /\ pass' \in Passes /\ pass'.pc = "write" /\ pass'.mem = mem /\ SamePass(pass', pass)
    BY <1>3, GotoType DEF Stages
  <2>2. Quiet /\ TypeOK'
    BY <1>1, <1>3, <2>1, WorldQuiet, PassTypes DEF TypeOK, RunTypes, IInv
  <2>3. Control'
    <3> USE <1>1, <1>3, <2>1, <2>2 DEF Control, Quiet, SamePass, Alike
    <3>1. ShapeInv'
      BY DEF ShapeInv
    <3>2. DeleteInv'
      BY DEF DeleteInv
    <3>3. StageInv'
      BY DEF StageInv
    <3>4. PauseInv'
      BY DEF PauseInv, OwnApp, VolumesDone, Pending
    <3>5. DownInv'
      BY DEF DownInv, Pending
    <3> QED BY <3>1, <3>2, <3>3, <3>4, <3>5
  <2> QED BY <1>1, <1>3, <2>1, <2>2, <2>3, MoveKeeps DEF SamePass
<1> QED BY <1>2, <1>3 DEF Resume

LEMMA EndWorkKeeps ==
    ASSUME IInv, EndWork
    PROVE  IInv'
<1>1. /\ UNCHANGED <<spec, meta, world, faults>> /\ At("write") /\ Control /\ mem \in Status
      /\ MemInv(mem) /\ EndInv(mem, "") /\ mem.phase = "Running" /\ mem.selected
  BY MemType DEF EndWork, IInv, InMemory, Control, ShapeInv, StageInv
<1>2. CASE Done /\ st' = st /\ pass' = [pass EXCEPT !.pc = "release",
                                          !.end = IF \E t \in Things : mem.items[t] = "Failed"
                                                  THEN "Failed" ELSE "Succeeded"]
  <2> PICK end \in {"Succeeded", "Failed"} :
          end = IF \E t \in Things : mem.items[t] = "Failed" THEN "Failed" ELSE "Succeeded"
    OBVIOUS
  <2>1. pass' \in Passes /\ pass'.pc = "release" /\ pass'.end = end /\ pass'.mem = mem
    BY <1>2, MemType DEF IInv, Passes, Stages
  <2>2. Quiet /\ TypeOK' /\ st' = st
    BY <1>1, <1>2, <2>1, WorldQuiet, PassTypes DEF TypeOK, RunTypes, IInv
  <2>3. Control'
    <3> USE <1>1, <2>1, <2>2 DEF Control, Quiet, SamePass, Alike
    <3>1. ShapeInv'
      BY DEF ShapeInv
    <3>2. DeleteInv'
      BY ZenonT(60) DEF DeleteInv
    <3>3. StageInv'
      BY DEF StageInv
    <3>4. PauseInv'
      BY DEF PauseInv, OwnApp, VolumesDone, Pending
    <3>5. DownInv'
      BY DEF DownInv, Pending
    <3> QED BY <3>1, <3>2, <3>3, <3>4, <3>5
  <2>4. EndInv(mem, end)
    BY <1>1, <1>2 DEF EndInv, Done, Unended
  <2> QED BY <1>1, <1>2, <2>1, <2>2, <2>3, <2>4, ItemsKeep DEF MemInv, Alike
<1>3. CASE pass' = Idle /\ st' = st
  BY <1>1, <1>3, StopKeeps
<1>4. CASE pass' = Idle /\ st' = mem
  <2>1. Stored(mem)
    BY <1>1, InHandIsStorable DEF EndInv, Finished
  <2> QED BY <1>1, <1>4, <2>1, WriteStopKeeps
<1> QED BY <1>1, <1>2, <1>3, <1>4 DEF EndWork, WriteStatus, StopPass

LEMMA ReleaseKeeps ==
    ASSUME IInv, Release
    PROVE  IInv'
<1>1. UNCHANGED <<spec, meta, world, faults>> /\ At("release") /\ Control /\ Deletable = {}
  BY DEF Release, IInv
<1>2. CASE pass' = Idle /\ st' = st
  BY <1>1, <1>2, StopKeeps
<1>3. CASE mem.recorded \cap pod = {}
  <2>1. pod = {} /\ (\A v \in Volumes : job[v] # "running") /\ pass.end # ""
    BY <1>1, <1>3, NothingLeftRunning DEF Control, ShapeInv
  <2>2. CASE mem.paused /\ ~mem.resumed /\ RecordResume
    BY <1>1, <2>1, <2>2, RecordResumeKeeps
  <2>3. CASE (mem.paused => mem.resumed) /\ Goto("giveBack") /\ st' = st
    <3>1. /\ pass' \in Passes /\ pass'.pc = "giveBack" /\ pass'.mem = mem
          /\ SamePass(pass', pass)
      BY <2>3, GotoType DEF Stages
    <3>2. Quiet /\ TypeOK'
      BY <1>1, <2>3, <3>1, WorldQuiet, PassTypes DEF TypeOK, RunTypes, IInv
    <3>3. Control'
      <4> USE <1>1, <2>1, <2>3, <3>1, <3>2 DEF Control, Quiet, SamePass, Alike
      <4>1. ShapeInv'
        BY DEF ShapeInv
      <4>2. DeleteInv'
        BY DEF DeleteInv
      <4>3. StageInv'
        BY DEF StageInv
      <4>4. PauseInv'
        BY DEF PauseInv, OwnApp, VolumesDone, Pending
      <4>5. DownInv'
        BY DEF DownInv, Pending
      <4> QED BY <4>1, <4>2, <4>3, <4>4, <4>5
    <3> QED BY <1>1, <2>3, <3>1, <3>2, <3>3, MoveKeeps DEF SamePass
  <2> QED BY <1>3, <2>2, <2>3 DEF Release
<1> QED BY <1>2, <1>3 DEF Release, StopPass

(* A Job that is not under way stays so, and writes nothing. *)
JobsMove == \A v \in Volumes :
    job[v] # "running" =>
        job'[v] # "running" /\ data'[v] = data[v] /\ (v \in pod' => v \in pod)

(* A Job moves under the run. *)
LEMMA JobsKeep ==
    ASSUME IInv, UNCHANGED <<spec, st, meta, pass, lock, app, dbs, request>>, TypeOK', JobsMove,
           LeaseInv', JobInv(st)', StageInv'
    PROVE  IInv'
<1>1. /\ spec' = spec /\ st' = st /\ meta' = meta /\ pass' = pass /\ lock' = lock /\ app' = app
      /\ dbs' = dbs /\ request' = request /\ Stored(st) /\ Control
  BY DEF IInv
<1>2. \A m : StatusInv(m) => \A v \in Volumes :
        m.items[v] = "Succeeded" => data'[v] = "whole" /\ job'[v] # "running" /\ v \notin pod'
  BY DEF StatusInv, VolumesInv, JobsMove
<1>3. Stored(st)'
  <2>1. StatusInv(st)'
    BY <1>1, <1>2, StatusWithJobs DEF Stored
  <2>2. AppInv(st)' /\ DbInv(st)' /\ LifeInv(st)'
    BY <1>1 DEF Stored, AppInv, OwnApp, DbInv, Target, LifeInv
  <2> QED BY <2>1, <2>2 DEF Stored
<1>4. ASSUME On' PROVE meta'.finalizer /\ MemInv(mem)' /\ EndInv(mem, pass.end)'
  <2>1. meta.finalizer /\ MemInv(mem) /\ EndInv(mem, pass.end)
    BY <1>1, <1>4 DEF IInv, InMemory
  <2>2. StatusInv(mem)'
    BY <1>1, <1>2, <2>1, StatusWithJobs DEF MemInv
  <2> QED BY <1>1, <2>1, <2>2 DEF MemInv, Agree, EndInv
<1>5. Control'
  <2>1. ShapeInv'
    BY <1>1, ShapeSame DEF Control
  <2>2. DeleteInv'
    BY <1>1 DEF Control, DeleteInv
  <2>3. PauseInv' /\ DownInv'
    BY <1>1 DEF Control, PauseInv, OwnApp, VolumesDone, Pending, DownInv
  <2> QED BY <2>1, <2>2, <2>3 DEF Control
<1> QED BY <1>3, <1>4, <1>5 DEF IInv, InMemory

LEMMA DeleteJobKeeps ==
    ASSUME IInv, NEW v \in Volumes, DeleteJob(v)
    PROVE  IInv'
<1>1. /\ spec' = spec /\ st' = st /\ meta' = meta /\ pass' = pass /\ lock' = lock /\ wl' = wl
      /\ late' = late /\ app' = app /\ copy' = copy /\ pod' = pod /\ data' = data /\ dbs' = dbs
      /\ request' = request /\ faults' = faults /\ UNCHANGED postgres
      /\ At("release") /\ Control /\ Stored(st) /\ pass \in Passes
  BY MemType DEF DeleteJob, IInv, postgres
<1>2. /\ job' \in [Volumes -> {"none", "running", "complete", "failed"}]
      /\ \A u \in Volumes : job'[u] \in {"none", job[u]}
  BY DEF DeleteJob, IInv, TypeOK, JobTypes
<1>3. TypeOK'
  <2>1. JobTypes'
    BY <1>1, <1>2 DEF IInv, TypeOK, JobTypes
  <2> QED BY <1>1, <2>1, TypesKept DEF IInv, TypeOK
<1>4. JobsMove
  BY <1>1, <1>2 DEF JobsMove
<1>5. LeaseInv' /\ JobInv(st)'
  BY <1>1, <1>2 DEF Stored, LeaseInv, JobInv
<1>6. StageInv'
  BY <1>1 DEF Control, StageInv
<1> QED BY <1>1, <1>3, <1>4, <1>5, <1>6, JobsKeep

LEMMA ReleaseAllKeeps ==
    ASSUME IInv, ReleaseAll
    PROVE  IInv'
<1>1. /\ spec' = spec /\ st' = st /\ meta' = meta /\ wl' = wl /\ late' = late /\ app' = app
      /\ copy' = copy /\ job' = job /\ pod' = pod /\ data' = data /\ dbs' = dbs
      /\ request' = request /\ faults' = faults /\ UNCHANGED <<jobs, postgres>>
      /\ At("giveBack") /\ Control /\ Stored(st)
  BY DEF ReleaseAll, IInv, jobs, postgres
<1>2. lock' \in {"free", "run", "other"}
  BY DEF ReleaseAll, IInv, TypeOK
<1>3. /\ pass' \in Passes /\ pass'.pc = "deleteWorkload" /\ pass'.mem = mem
      /\ SamePass(pass', pass)
  BY GotoType DEF ReleaseAll, Stages
<1>4. TypeOK'
  BY <1>1, <1>2, <1>3, TypesKept DEF IInv, TypeOK
<1>5. pod = {} /\ \A v \in Volumes : job[v] # "running"
  BY <1>1 DEF Control, StageInv
<1>6. Stored(st)'
  <2>1. StatusInv(st)' /\ JobInv(st)'
    BY <1>1 DEF Stored, StatusInv, Ahead, VolumesInv, DatabasesInv, JobInv
  <2>2. LeaseInv'
    BY <1>1, <1>5 DEF LeaseInv
  <2>3. AppInv(st)' /\ DbInv(st)' /\ LifeInv(st)'
    BY <1>1 DEF Stored, AppInv, OwnApp, DbInv, Target, LifeInv
  <2> QED BY <2>1, <2>2, <2>3 DEF Stored
<1>7. InMemory'
  BY <1>1, <1>3, InMemoryKept DEF IInv, SamePass
<1>8. Control'
  <2> USE <1>1, <1>3 DEF Control, Quiet, SamePass, Alike
  <2>1. ShapeInv'
    BY DEF ShapeInv
  <2>2. DeleteInv'
    BY DEF DeleteInv
  <2>3. StageInv'
    BY DEF StageInv
  <2>4. PauseInv'
    BY DEF PauseInv, OwnApp, VolumesDone, Pending
  <2>5. DownInv'
    BY DEF DownInv, Pending
  <2> QED BY <2>1, <2>2, <2>3, <2>4, <2>5
<1> QED BY <1>4, <1>6, <1>7, <1>8 DEF IInv

LEMMA DeleteWorkloadKeeps ==
    ASSUME IInv, DeleteWorkload
    PROVE  IInv'
<1>1. /\ UNCHANGED <<spec, st, meta, lock, late, app, jobs, postgres, faults>>
      /\ wl' = "none" /\ At("deleteWorkload") /\ Control
  BY DEF DeleteWorkload, IInv
<1>2. Quiet
  BY <1>1 DEF Quiet, jobs, postgres
<1>3. /\ pass' \in Passes /\ pass'.pc = "finish" /\ pass'.mem = mem /\ SamePass(pass', pass)
  BY GotoType DEF DeleteWorkload, Stages
<1>4. TypeOK'
  BY <1>1, <1>3, TypesKept DEF IInv, TypeOK
<1>5. Control'
  <2> USE <1>1, <1>2, <1>3 DEF Control, Quiet, SamePass, Alike
  <2>1. ShapeInv'
    BY DEF ShapeInv
  <2>2. DeleteInv'
    BY DEF DeleteInv
  <2>3. StageInv'
    BY DEF StageInv
  <2>4. PauseInv'
    BY DEF PauseInv, OwnApp, VolumesDone, Pending
  <2>5. DownInv'
    BY DEF DownInv, Pending
  <2> QED BY <2>1, <2>2, <2>3, <2>4, <2>5
<1> QED BY <1>1, <1>2, <1>3, <1>4, <1>5, MoveKeeps DEF SamePass

LEMMA FinishKeeps ==
    ASSUME IInv, Finish
    PROVE  IInv'
<1>1. /\ UNCHANGED <<spec, meta, world, faults>> /\ At("finish") /\ Control /\ mem \in Status
      /\ MemInv(mem) /\ EndInv(mem, pass.end) /\ meta.finalizer /\ Stored(st)
      /\ pass.end # "" /\ (mem.paused => mem.resumed)
  BY MemType DEF Finish, IInv, InMemory, Control, ShapeInv, PauseInv
<1>2. CASE pass' = Idle /\ st' = st
  BY <1>1, <1>2, StopKeeps
<1>3. CASE ~mem.paused /\ Goto("dropFinalizer") /\ st' = st
  <2>1. /\ pass' \in Passes /\ pass'.pc = "dropFinalizer" /\ pass'.mem = mem
        /\ SamePass(pass', pass)
    BY <1>3, GotoType DEF Stages
  <2>2. Quiet /\ TypeOK'
    BY <1>1, <1>3, <2>1, WorldQuiet, PassTypes DEF TypeOK, RunTypes, IInv
  <2>3. Control'
    <3> USE <1>1, <1>3, <2>1, <2>2 DEF Control, Quiet, SamePass, Alike
    <3>1. ShapeInv'
      BY DEF ShapeInv
    <3>2. DeleteInv'
      BY DEF DeleteInv
    <3>3. StageInv'
      BY DEF StageInv
    <3>4. PauseInv'
      BY DEF PauseInv, OwnApp, VolumesDone, Pending, MemInv, Agree
    <3>5. DownInv'
      BY DEF DownInv, Pending
    <3> QED BY <3>1, <3>2, <3>3, <3>4, <3>5
  <2> QED BY <1>1, <1>3, <2>1, <2>2, <2>3, MoveKeeps DEF SamePass
<1>4. ASSUME NEW m \in Status, st' = m, pass' = Step("dropFinalizer", m), Stored(m),
             EndInv(m, pass.end), m.resumed = mem.resumed, m.paused = mem.paused,
             m.items = mem.items, m.uid = mem.uid
      PROVE  IInv'
  <2>1. /\ pass' \in Passes /\ pass'.pc = "dropFinalizer" /\ pass'.mem = m
        /\ SamePass(pass', pass)
    BY <1>4, StepType, MemType DEF Stages, IInv
  <2>2. Quiet /\ TypeOK'
    BY <1>1, <1>4, <2>1, WorldQuiet, PassTypes DEF TypeOK, RunTypes, IInv
  <2>3. Control'
    <3> USE <1>1, <1>4, <2>1, <2>2 DEF Control, Quiet, SamePass, Alike
    <3>1. ShapeInv'
      BY DEF ShapeInv
    <3>2. DeleteInv'
      BY DEF DeleteInv
    <3>3. StageInv'
      BY DEF StageInv
    <3>4. PauseInv'
      BY DEF PauseInv, OwnApp, VolumesDone, Pending
    <3>5. DownInv'
      BY DEF DownInv, Pending
    <3> QED BY <3>1, <3>2, <3>3, <3>4, <3>5
  <2>4. EndInv(m, pass'.end) /\ (spec.pauses /\ m.resumed => app.replicas = 1)
    BY <1>1, <1>4, <2>1 DEF MemInv, SamePass
  <2> QED BY <1>1, <1>4, <2>1, <2>2, <2>3, <2>4, WriteKeeps
<1>5. JobInv(mem) /\ DbInv(mem) /\ AppInv(mem)
  BY <1>1, InHandAgrees
<1>6. CASE pass.end = "Deleted" /\ mem.paused /\ st' = mem /\ pass' = Step("dropFinalizer", mem)
  <2>1. mem.selected /\ (\A v \in Volumes : mem.items[v] # "Skipped") /\ meta.state # "there"
    BY <1>1, <1>6 DEF MemInv, StatusInv, Ahead, VolumesInv, EndInv
  <2>2. LifeInv(mem)
    BY <1>1, <2>1 DEF LifeInv, Stored, MemInv, Agree
  <2>3. Stored(mem)
    BY <1>1, <1>5, <2>2 DEF Stored, MemInv
  <2> QED BY <1>1, <1>4, <1>6, <2>3
<1>7. ASSUME NEW m, m = [mem EXCEPT !.phase = pass.end, !.workload = FALSE],
             pass.end # "Deleted", st' = m, pass' = Step("dropFinalizer", m)
      PROVE  IInv'
  <2>1. pass.end \in {"Succeeded", "Failed"}
    BY <1>1, <1>7, MemType DEF IInv, Passes
  <2>2. /\ m \in Status /\ m.phase = pass.end /\ m.selected = mem.selected
        /\ m.stop = mem.stop /\ m.recorded = mem.recorded /\ m.paused = mem.paused
        /\ m.replicas = mem.replicas /\ m.suspends = mem.suspends /\ m.resumed = mem.resumed
        /\ m.uid = mem.uid /\ m.items = mem.items
    BY <1>1, <1>7, <2>1 DEF Status, Phases
  <2>3. StatusInv(mem)
    BY <1>1 DEF MemInv
  <2>4. Ahead(m)
    BY <1>1, <2>1, <2>2, <2>3 DEF StatusInv, Ahead, EndInv
  <2>5. DatabasesInv(m)
    BY <2>2, <2>3 DEF StatusInv, DatabasesInv
  <2>6. VolumesInv(m)
    <3>1. ASSUME pass.end = "Succeeded", NEW v \in Volumes
          PROVE  mem.items[v] \in {"None", "Succeeded"}
      <4>1. mem.items[v] \notin Unended \cup {"Failed"} /\ mem.selected
        BY <1>1, <3>1 DEF EndInv, Things
      <4>2. mem.items[v] # "Skipped"
        BY <2>3, <4>1 DEF StatusInv, VolumesInv
      <4>3. mem.items[v] \in {"None", "Succeeded", "Failed", "Skipped"} \cup Unended
        BY <1>1 DEF Status, Things
      <4> QED BY <4>1, <4>2, <4>3
    <3> QED BY <2>2, <2>3, <3>1 DEF StatusInv, VolumesInv
  <2>7. JobInv(m) /\ DbInv(m) /\ AppInv(m)
    BY <1>5, <2>2 DEF JobInv, DbInv, AppInv
  <2>8. LifeInv(m)
    BY ZenonT(60), <1>1, <2>1, <2>2 DEF LifeInv, Stored, MemInv, Agree, EndInv, Finished
  <2>9. Stored(m)
    BY <1>1, <2>4, <2>5, <2>6, <2>7, <2>8 DEF Stored, StatusInv
  <2>10. EndInv(m, pass.end)
    BY <1>1, <2>2 DEF EndInv
  <2>11. st' = m /\ pass' = Step("dropFinalizer", m)
    BY <1>7
  <2> QED BY <1>4, <2>2, <2>9, <2>10, <2>11
<1> QED BY <1>1, <1>2, <1>3, <1>6, <1>7 DEF Finish, WriteStatus, StopPass

LEMMA DropFinalizerKeeps ==
    ASSUME IInv, DropFinalizer
    PROVE  IInv'
<1>1. /\ UNCHANGED <<spec, st, world, faults>> /\ pass' = Idle /\ At("dropFinalizer")
      /\ Stored(st) /\ (st.paused => st.resumed)
  BY DEF DropFinalizer, StopPass, IInv, Control, PauseInv
<1>2. CASE meta' = meta
  BY <1>1, <1>2, StopKeeps
<1>3. CASE meta' = [state |-> IF meta.state = "deleting" THEN "gone" ELSE meta.state,
                    finalizer |-> FALSE]
  <2>1. /\ ~meta'.finalizer /\ (meta'.state = "there" => meta.state = "there")
        /\ meta' \in [state : {"there", "deleting", "gone"}, finalizer : BOOLEAN]
    BY <1>3 DEF IInv, TypeOK, RunTypes
  <2>2. TypeOK'
    BY <1>1, <2>1, PassTypes, IdleType DEF IInv, TypeOK, RunTypes
  <2>3. LifeInv(st)'
    BY <1>1, <2>1 DEF Stored, LifeInv
  <2>4. Stored(st)'
    BY <1>1, <2>3, LifeKept
  <2> QED BY <1>1, <2>2, <2>4, IdleControl DEF IInv
<1> QED BY <1>2, <1>3 DEF DropFinalizer

-----------------------------------------------------------------------------
(* The start of a pass, and the life of the object. *)

LEMMA ReconcileKeeps ==
    ASSUME IInv, Reconcile
    PROVE  IInv'
<1>1. /\ UNCHANGED <<spec, st, world, faults>> /\ st' = st /\ Stored(st) /\ st \in Status
      /\ TypeOK /\ Quiet /\ pass = Idle
  BY MemType, WorldQuiet DEF Reconcile, IInv
<1>2. AppInv(st) /\ LifeInv(st) /\ StatusInv(st)
  BY <1>1 DEF Stored
<1>3. \A end : pass'.mem = st /\ pass'.end = end /\ meta'.finalizer /\ EndInv(st, end)'
               => InMemory'
  <2>1. pass'.mem = st => StatusInv(mem)'
    BY <1>1, <1>2, StatusKept DEF Quiet
  <2>2. pass'.mem = st => MemInv(mem)'
    BY <1>1, <1>2, <2>1 DEF MemInv, Agree, AppInv, OwnApp, Quiet
  <2>3. \A end : pass'.mem = st /\ pass'.end = end /\ EndInv(st, end)' => EndInv(mem, pass.end)'
    BY <1>1 DEF EndInv
  <2> QED BY <2>2, <2>3 DEF InMemory
<1>4. CASE /\ meta.state = "deleting" /\ meta.finalizer
           /\ pass' = [Idle EXCEPT !.pc = "release", !.mem = st, !.end = "Deleted"]
           /\ meta' = meta
  <2>1. pass' \in Passes /\ pass'.pc = "release" /\ pass'.mem = st /\ pass'.end = "Deleted"
    BY <1>1, <1>4, IdleType DEF Passes, Stages
  <2>2. TypeOK'
    BY <1>1, <1>4, <2>1, PassTypes DEF TypeOK, RunTypes
  <2>3. Stored(st)'
    BY <1>1, <1>4, StoredKept
  <2>4. EndInv(st, "Deleted")'
    BY <1>4 DEF EndInv
  <2>5. InMemory'
    BY <1>3, <1>4, <2>1, <2>4
  <2>6. Control'
    <3> USE <1>1, <1>2, <2>1 DEF Control, Quiet, SamePass, Alike
    <3>1. ShapeInv'
      BY DEF ShapeInv
    <3>2. DeleteInv'
      BY DEF DeleteInv
    <3>3. StageInv'
      BY DEF StageInv
    <3>4. PauseInv'
      BY DEF PauseInv, OwnApp, VolumesDone, Pending, AppInv
    <3>5. DownInv'
      BY DEF DownInv, Pending
    <3> QED BY <3>1, <3>2, <3>3, <3>4, <3>5
  <2> QED BY <2>2, <2>3, <2>5, <2>6 DEF IInv
<1>5. CASE /\ meta.state = "there" /\ ~Finished(st.phase)
           /\ meta' = [meta EXCEPT !.finalizer = TRUE]
           /\ pass' = [Idle EXCEPT !.mem = st,
                                  !.pc = CASE st.phase = "" -> "plan"
                                           [] st.phase = "Queued" -> "admit"
                                           [] OTHER -> "check"]
  <2>1. /\ meta'.finalizer /\ meta'.state = meta.state
        /\ meta' \in [state : {"there", "deleting", "gone"}, finalizer : BOOLEAN]
    BY <1>1, <1>5 DEF TypeOK, RunTypes
  <2>2. /\ pass' \in Passes /\ pass'.mem = st /\ pass'.end = ""
        /\ \/ pass'.pc = "plan" /\ st.phase = ""
           \/ pass'.pc = "admit" /\ st.phase = "Queued"
           \/ pass'.pc = "check" /\ st.phase = "Running"
    <3>1. st.phase \in {"", "Queued", "Running"}
      BY <1>1, <1>5 DEF Status, Phases, Finished
    <3>2. Idle.end = ""
      BY DEF Idle
    <3> QED BY <1>1, <1>5, <3>1, <3>2, IdleType DEF Passes, Stages
  <2>3. TypeOK'
    BY <1>1, <2>1, <2>2, PassTypes DEF TypeOK, RunTypes
  <2>4. LifeInv(st)'
    BY <1>1, <1>2, <1>5, <2>1 DEF LifeInv, Quiet
  <2>5. Stored(st)'
    BY <1>1, <2>4, LifeKept
  <2>6. EndInv(st, "")'
    BY <1>1, <1>2, <1>5 DEF EndInv, LifeInv
  <2>7. InMemory'
    BY <1>3, <2>1, <2>2, <2>6
  <2>8. Control'
    <3> USE <1>1, <1>2, <2>2 DEF Control, Quiet, SamePass, Alike
    <3>1. ShapeInv'
      BY DEF ShapeInv
    <3>2. DeleteInv'
      BY DEF DeleteInv
    <3>3. StageInv'
      BY DEF StageInv
    <3>4. PauseInv'
      BY DEF PauseInv, OwnApp, VolumesDone, Pending, AppInv
    <3>5. DownInv'
      BY DEF DownInv, Pending
    <3> QED BY <3>1, <3>2, <3>3, <3>4, <3>5
  <2> QED BY <2>3, <2>5, <2>7, <2>8 DEF IInv
<1> QED BY <1>4, <1>5 DEF Reconcile

LEMMA FaultKeeps ==
    ASSUME IInv, Fault
    PROVE  IInv'
BY StopKeeps DEF Fault, StopPass

LEMMA ExpireKeeps ==
    ASSUME IInv, Expire
    PROVE  IInv'
<1>1. /\ UNCHANGED <<spec, st, world, faults>> /\ pass = Idle /\ pass' = pass /\ Stored(st)
      /\ TypeOK /\ meta.finalizer \in BOOLEAN
  BY DEF Expire, IInv, TypeOK, RunTypes
<1>2. /\ meta' \in [state : {"there", "deleting", "gone"}, finalizer : BOOLEAN]
      /\ meta'.finalizer = meta.finalizer
      /\ meta'.state = IF meta.finalizer THEN "deleting" ELSE "gone"
  BY <1>1 DEF Expire, TypeOK, RunTypes
<1>3. TypeOK'
  BY <1>1, <1>2, PassTypes, IdleType DEF TypeOK, RunTypes
<1>4. LifeInv(st)'
  BY <1>1, <1>2 DEF Stored, LifeInv
<1>5. Stored(st)'
  BY <1>1, <1>4, LifeKept
<1> QED BY <1>1, <1>3, <1>5, IdleControl DEF IInv

LEMMA DeleteKeeps ==
    ASSUME IInv, Delete
    PROVE  IInv'
<1>1. /\ UNCHANGED <<spec, st, world>> /\ Trouble /\ Stored(st) /\ meta.state = "there"
      /\ TypeOK /\ Control /\ Quiet /\ pass \in Passes /\ st' = st
  BY MemType, WorldQuiet DEF Delete, IInv
<1>2. /\ meta' \in [state : {"there", "deleting", "gone"}, finalizer : BOOLEAN]
      /\ meta'.finalizer = meta.finalizer
      /\ meta'.state = IF meta.finalizer THEN "deleting" ELSE "gone"
  BY <1>1 DEF Delete, TypeOK, RunTypes
<1>3. /\ pass' \in Passes /\ pass'.pc = pass.pc /\ pass'.mem = mem /\ pass'.end = pass.end
      /\ pass'.item = pass.item
  <2>1. (pass # Idle) \in BOOLEAN
    OBVIOUS
  <2> QED BY <1>1, <2>1 DEF Delete, Passes
<1>4. TypeOK'
  BY <1>1, <1>2, <1>3, PassTypes, TroubleType DEF TypeOK, RunTypes
<1>5. LifeInv(st)'
  BY <1>1, <1>2 DEF Stored, LifeInv, Quiet
<1>6. Stored(st)'
  BY <1>1, <1>5, LifeKept
<1>7. InMemory'
  <2>1. CASE ~On
    BY <1>3, <2>1 DEF InMemory
  <2>2. CASE On
    <3>1. meta.finalizer /\ MemInv(mem) /\ EndInv(mem, pass.end)
      BY <2>2 DEF IInv, InMemory
    <3>2. StatusInv(mem)'
      BY <1>1, <1>3, <3>1, StatusKept DEF MemInv, Quiet
    <3>3. MemInv(mem)'
      BY <1>1, <1>3, <3>1, <3>2 DEF MemInv, Agree, Quiet
    <3>4. EndInv(mem, pass.end)'
      BY <1>1, <1>2, <1>3, <3>1 DEF EndInv
    <3> QED BY <1>2, <3>1, <3>3, <3>4 DEF InMemory
  <2> QED BY <2>1, <2>2
<1>8. On' \/ pass' = Idle
  <2>1. CASE On
    BY <1>3, <2>1
  <2>2. CASE pass = Idle
    <3>1. pass' = [Idle EXCEPT !.stale = FALSE]
      BY <2>2 DEF Delete
    <3> QED BY <3>1 DEF Idle
  <2> QED BY <1>1, <2>1, <2>2 DEF Control, ShapeInv
<1>9. Control'
  <2> USE <1>1, <1>3, <1>8 DEF Control, Quiet, SamePass, Alike
  <2>1. ShapeInv'
    BY DEF ShapeInv
  <2>2. DeleteInv'
    BY DEF DeleteInv
  <2>3. StageInv'
    BY DEF StageInv
  <2>4. PauseInv'
    BY DEF PauseInv, OwnApp, VolumesDone, Pending
  <2>5. DownInv'
    BY DEF DownInv, Pending
  <2> QED BY <2>1, <2>2, <2>3, <2>4, <2>5
<1> QED BY <1>4, <1>6, <1>7, <1>9 DEF IInv

-----------------------------------------------------------------------------
(* The surroundings. *)

LEMMA ControlSame ==
    ASSUME Control, UNCHANGED <<spec, st, pass, lock, app, job, pod>>
    PROVE  Control'
<1>1. ShapeInv'
  BY ShapeSame DEF Control
<1>2. DeleteInv'
  BY DEF Control, DeleteInv
<1>3. StageInv'
  BY DEF Control, StageInv
<1>4. PauseInv' /\ DownInv'
  BY DEF Control, PauseInv, OwnApp, VolumesDone, Pending, DownInv
<1> QED BY <1>1, <1>2, <1>3, <1>4 DEF Control

(* What no part of the invariant reads but its type. *)
LEMMA QuietKeeps ==
    ASSUME IInv, Quiet, UNCHANGED <<st, meta, pass>>, TypeOK'
    PROVE  IInv'
<1>1. Control'
  BY ControlSame DEF IInv, Quiet
<1>2. CASE On
  BY <1>1, <1>2, MoveKeeps
<1>3. CASE ~On
  <2>1. pass' = Idle
    BY <1>3 DEF IInv, Control, ShapeInv
  <2>2. Stored(st)'
    BY StoredKept DEF IInv
  <2> QED BY <2>1, <2>2, IdleControl DEF IInv
<1> QED BY <1>2, <1>3

LEMMA KueueKeeps ==
    ASSUME IInv, Kueue
    PROVE  IInv'
<1>1. /\ UNCHANGED <<spec, st, meta, pass, lock, late, app, jobs, postgres>>
      /\ wl' \in {"none", "pending", "admitted", "evicted"} /\ (faults' = faults \/ Trouble)
  BY DEF Kueue
<1>2. Quiet
  BY <1>1 DEF Quiet, jobs, postgres
<1>3. TypeOK'
  BY <1>1, MemType, TypesKept, TroubleType DEF IInv, TypeOK
<1> QED BY <1>1, <1>2, <1>3, QuietKeeps

LEMMA DeadlineKeeps ==
    ASSUME IInv, Deadline
    PROVE  IInv'
<1>1. UNCHANGED <<spec, st, meta, pass, lock, wl, app, jobs, postgres, faults>> /\ late' = TRUE
  BY DEF Deadline
<1>2. Quiet
  BY <1>1 DEF Quiet, jobs, postgres
<1>3. TypeOK'
  BY <1>1, MemType, TypesKept DEF IInv, TypeOK
<1> QED BY <1>1, <1>2, <1>3, QuietKeeps

LEMMA PruneKeeps ==
    ASSUME IInv, NEW d \in Clusters, Prune(d)
    PROVE  IInv'
<1>1. /\ UNCHANGED <<spec, st, meta, pass, lock, wl, late, app, jobs, dbs, left, request>>
      /\ kept' \subseteq kept /\ Trouble
  BY DEF Prune
<1>2. Quiet
  BY <1>1 DEF Quiet, jobs
<1>3. PostgresTypes'
  BY <1>1 DEF IInv, TypeOK, PostgresTypes
<1>4. TypeOK'
  BY <1>1, <1>3, MemType, TypesKept, TroubleType DEF IInv, TypeOK
<1> QED BY <1>1, <1>2, <1>4, QuietKeeps

LEMMA OtherRunsKeeps ==
    ASSUME IInv, OtherRuns
    PROVE  IInv'
<1>1. /\ spec' = spec /\ st' = st /\ meta' = meta /\ pass' = pass /\ wl' = wl /\ late' = late
      /\ app' = app /\ copy' = copy /\ job' = job /\ pod' = pod /\ data' = data /\ dbs' = dbs
      /\ request' = request /\ faults' = faults /\ UNCHANGED <<jobs, postgres>>
      /\ lock # "run" /\ Control /\ Stored(st)
  BY DEF OtherRuns, IInv, jobs, postgres
<1>2. lock' \in {"free", "other"}
  BY DEF OtherRuns, IInv, TypeOK
<1>3. TypeOK'
  BY <1>1, <1>2, MemType, TypesKept DEF IInv, TypeOK
<1>4. Stored(st)'
  <2>1. StatusInv(st)' /\ JobInv(st)'
    BY <1>1 DEF Stored, StatusInv, Ahead, VolumesInv, DatabasesInv, JobInv
  <2>2. LeaseInv'
    BY <1>1 DEF Stored, LeaseInv
  <2>3. AppInv(st)' /\ DbInv(st)' /\ LifeInv(st)'
    BY <1>1 DEF Stored, AppInv, OwnApp, DbInv, Target, LifeInv
  <2> QED BY <2>1, <2>2, <2>3 DEF Stored
<1>5. InMemory'
  <2>1. CASE On
    BY <1>1, <2>1, InMemoryKept DEF IInv
  <2>2. CASE ~On
    BY <1>1, <2>2 DEF InMemory
  <2> QED BY <2>1, <2>2
<1>6. Control'
  <2> USE <1>1 DEF Control, Quiet, SamePass, Alike
  <2>1. ShapeInv'
    BY DEF ShapeInv
  <2>2. DeleteInv'
    BY DEF DeleteInv
  <2>3. StageInv'
    BY DEF StageInv
  <2>4. PauseInv'
    BY DEF PauseInv, OwnApp, VolumesDone, Pending
  <2>5. DownInv'
    BY DEF DownInv, Pending
  <2> QED BY <2>1, <2>2, <2>3, <2>4, <2>5
<1> QED BY <1>3, <1>4, <1>5, <1>6 DEF IInv

LEMMA PodStartsKeeps ==
    ASSUME IInv, NEW v \in Volumes, PodStarts(v)
    PROVE  IInv'
<1>1. /\ UNCHANGED <<spec, st, meta, pass, lock, app, dbs, request>> /\ UNCHANGED postgres
      /\ wl' = wl /\ late' = late /\ copy' = copy /\ job' = job /\ faults' = faults
      /\ job[v] = "running" /\ pod' = pod \cup {v} /\ LeaseInv /\ JobInv(st) /\ Control
      /\ JobTypes /\ pass \in Passes
  BY MemType DEF PodStarts, IInv, Stored, postgres, TypeOK
<1>2. /\ data' \in [Volumes -> {"old", "part", "whole"}]
      /\ \A u \in Volumes : u # v => data'[u] = data[u]
  BY <1>1 DEF PodStarts, JobTypes
<1>3. TypeOK'
  <2>1. JobTypes'
    BY <1>1, <1>2 DEF JobTypes
  <2> QED BY <1>1, <2>1, TypesKept DEF IInv, TypeOK
<1>4. JobsMove
  BY <1>1, <1>2 DEF JobsMove
<1>5. LeaseInv'
  BY <1>1 DEF LeaseInv
<1>6. JobInv(st)'
  BY <1>1, <1>2 DEF JobInv
<1>7. StageInv'
  BY <1>1 DEF Control, StageInv
<1> QED BY <1>1, <1>3, <1>4, <1>5, <1>6, <1>7, JobsKeep

LEMMA PodEndsKeeps ==
    ASSUME IInv, NEW v \in Volumes, PodEnds(v)
    PROVE  IInv'
<1>1. /\ UNCHANGED <<spec, st, meta, pass, lock, app, dbs, request>> /\ UNCHANGED postgres
      /\ wl' = wl /\ late' = late /\ copy' = copy /\ faults' = faults
      /\ job[v] = "running" /\ v \in pod /\ pod' = pod \ {v} /\ LeaseInv /\ JobInv(st) /\ Control
      /\ JobTypes /\ pass \in Passes
  BY MemType DEF PodEnds, IInv, Stored, postgres, TypeOK
<1>2. /\ data' \in [Volumes -> {"old", "part", "whole"}]
      /\ job' \in [Volumes -> {"none", "running", "complete", "failed"}]
      /\ job'[v] \in {"complete", "failed"} /\ (job'[v] = "complete" => data'[v] = "whole")
      /\ \A u \in Volumes : u # v => data'[u] = data[u] /\ job'[u] = job[u]
  BY <1>1 DEF PodEnds, JobTypes
<1>3. TypeOK'
  <2>1. JobTypes'
    BY <1>1, <1>2 DEF JobTypes
  <2> QED BY <1>1, <2>1, TypesKept DEF IInv, TypeOK
<1>4. JobsMove
  BY <1>1, <1>2 DEF JobsMove
<1>5. LeaseInv'
  BY <1>1, <1>2 DEF LeaseInv
<1>6. JobInv(st)'
  BY <1>1, <1>2 DEF JobInv
<1>7. StageInv'
  BY <1>1 DEF Control, StageInv
<1> QED BY <1>1, <1>3, <1>4, <1>5, <1>6, <1>7, JobsKeep

LEMMA PodStopsKeeps ==
    ASSUME IInv, NEW v \in Volumes, PodStops(v)
    PROVE  IInv'
<1>1. /\ UNCHANGED <<spec, st, meta, pass, lock, app, dbs, request>> /\ UNCHANGED postgres
      /\ wl' = wl /\ late' = late /\ copy' = copy /\ job' = job /\ data' = data
      /\ faults' = faults /\ pod' = pod \ {v} /\ LeaseInv /\ JobInv(st) /\ Control
      /\ JobTypes /\ pass \in Passes
  BY MemType DEF PodStops, IInv, Stored, postgres, TypeOK
<1>2. TypeOK'
  <2>1. JobTypes'
    BY <1>1 DEF JobTypes
  <2> QED BY <1>1, <2>1, TypesKept DEF IInv, TypeOK
<1>3. JobsMove /\ LeaseInv' /\ JobInv(st)'
  BY <1>1 DEF JobsMove, LeaseInv, JobInv
<1>4. StageInv'
  BY <1>1 DEF Control, StageInv
<1> QED BY <1>1, <1>2, <1>3, <1>4, JobsKeep

LEMMA AppStepsKeeps ==
    ASSUME IInv, AppSteps
    PROVE  IInv'
<1>1. /\ UNCHANGED <<spec, st, meta, pass, lock, jobs, postgres>> /\ wl' = wl /\ late' = late
      /\ faults' = faults /\ Control /\ AppInv(st) /\ pass \in Passes /\ TypeOK /\ Stored(st)
  BY MemType DEF AppSteps, IInv, Stored
<1>2. AppTypes'
  <2>1. app.own \in 0 .. 1 /\ 1 - app.own \in 0 .. 1
    BY <1>1, AppFields
  <2> QED BY <1>1, <2>1, AppFields DEF AppSteps, AppTypes
<1>3. spec.pauses => /\ app'.replicas = app.replicas /\ app'.own = app.own
                     /\ app'.suspended = app.suspended /\ app'.ownSuspend = app.ownSuspend
                     /\ app.replicas = 0 /\ ~app.pods => ~app'.pods
  BY <1>1, AppFields DEF AppSteps, AppInv
<1>4. TypeOK'
  BY <1>1, <1>2, TypesKept DEF TypeOK
<1>5. AppInv(st)'
  BY <1>1, <1>3 DEF AppInv, OwnApp
<1>6. UNCHANGED <<spec, st, meta, pass, lock, job, pod>>
  BY <1>1 DEF jobs
<1>7. Control'
  <2>1. ShapeInv'
    BY <1>1, ShapeSame DEF Control
  <2>2. DeleteInv'
    BY <1>1, <1>6 DEF Control, DeleteInv
  <2>3. StageInv'
    BY <1>1, <1>6 DEF Control, StageInv
  <2>4. PauseInv'
    BY <1>1, <1>3, <1>6 DEF Control, PauseInv, OwnApp, VolumesDone, Pending
  <2>5. DownInv'
    BY <1>1, <1>3, <1>6 DEF Control, DownInv, Pending
  <2> QED BY <2>1, <2>2, <2>3, <2>4, <2>5 DEF Control
<1>8. CASE On
  <2>1. MemInv(mem) /\ EndInv(mem, pass.end)
    BY <1>8 DEF IInv, InMemory
  <2>2. InMemory'
    BY <1>1, <1>3, <1>8, <2>1, AppInMemory DEF MemInv, StatusInv, Ahead
  <2> QED BY <1>1, <1>4, <1>5, <1>7, <1>8, <2>2, AppKeeps
<1>9. CASE ~On
  <2>1. InMemory'
    BY <1>1, <1>9 DEF InMemory
  <2> QED BY <1>1, <1>4, <1>5, <1>7, <2>1, AppKeeps
<1> QED BY <1>8, <1>9


(* The state of a Cluster changes, and nothing the run goes by. *)
LEMMA ClusterStateKeeps ==
    ASSUME IInv, NEW d \in Clusters,
           \E e : /\ e \in [state : {"there", "deleting", "gone"}, uid : {dbs[d].uid},
                            ours : {dbs[d].ours}, target : {dbs[d].target}, healthy : BOOLEAN]
                  /\ dbs[d].state = "gone" => e.state = "gone"
                  /\ dbs' = [dbs EXCEPT ![d] = e],
           left' \subseteq Clusters, UNCHANGED <<spec, st, meta, pass, lock, wl, late, app, jobs>>,
           kept' = kept, request' = request, faults' = faults \/ Trouble
    PROVE  IInv'
<1>1. /\ spec' = spec /\ st' = st /\ pass' = pass /\ lock' = lock /\ app' = app /\ job' = job
      /\ pod' = pod /\ TypeOK /\ Control /\ DbInv(st) /\ PostgresTypes /\ pass \in Passes
  BY MemType DEF IInv, jobs, Stored, TypeOK
<1>2. /\ dbs' \in [Clusters -> [state : {"there", "deleting", "gone"}, uid : 1 .. MaxUID,
                               ours : BOOLEAN, target : Targets, healthy : BOOLEAN]]
      /\ \A e \in Clusters : /\ dbs'[e].uid = dbs[e].uid /\ dbs'[e].ours = dbs[e].ours
                             /\ dbs'[e].target = dbs[e].target
                             /\ dbs[e].state = "gone" => dbs'[e].state = "gone"
  BY <1>1 DEF PostgresTypes
<1>3. PostgresTypes'
  BY <1>1, <1>2 DEF PostgresTypes
<1>4. TypeOK'
  BY <1>1, <1>3, TypesKept, TroubleType DEF TypeOK
<1>5. ClustersMove
  BY <1>2 DEF ClustersMove
<1>6. DbInv(st)'
  <2>1. spec' = spec /\ st' = st /\ request' = request /\ DbInv(st)
    BY <1>1
  <2> QED BY <1>2, <2>1 DEF DbInv, Target
<1>7. Control'
  BY <1>1, ControlSame
<1> QED BY <1>1, <1>4, <1>5, <1>6, <1>7, ClustersKeep

LEMMA ClusterFields ==
    ASSUME IInv, NEW d \in Clusters
    PROVE  dbs[d] \in [state : {"there", "deleting", "gone"}, uid : 1 .. MaxUID,
                       ours : BOOLEAN, target : Targets, healthy : BOOLEAN]
BY DEF IInv, TypeOK, PostgresTypes

LEMMA PostgresKeeps ==
    ASSUME IInv, NEW d \in Clusters, Postgres(d)
    PROVE  IInv'
<1>1. /\ UNCHANGED <<spec, st, meta, pass, lock, wl, late, app, jobs>> /\ kept' = kept
      /\ request' = request /\ faults' = faults /\ left \subseteq Clusters /\ PostgresTypes
      /\ TypeOK /\ pass \in Passes
  BY MemType DEF Postgres, IInv, TypeOK, PostgresTypes
<1>2. CASE dbs[d].state = "deleting" /\ dbs' = [dbs EXCEPT ![d].state = "gone"] /\ left' = left
  <2> PICK e : e = [dbs[d] EXCEPT !.state = "gone"]
    OBVIOUS
  <2>1. /\ e \in [state : {"there", "deleting", "gone"}, uid : {dbs[d].uid},
                  ours : {dbs[d].ours}, target : {dbs[d].target}, healthy : BOOLEAN]
        /\ dbs[d].state = "gone" => e.state = "gone"
    BY ClusterFields
  <2>2. dbs' = [dbs EXCEPT ![d] = e]
    BY <1>2
  <2> QED BY <1>1, <1>2, <2>1, <2>2, ClusterStateKeeps
<1>3. CASE left' = left \ {d} /\ dbs' = dbs
  <2>1. Quiet
    BY <1>1, <1>3 DEF Quiet, jobs
  <2>2. PostgresTypes'
    BY <1>1, <1>3 DEF PostgresTypes
  <2>3. TypeOK'
    BY <1>1, <2>2, TypesKept DEF TypeOK
  <2> QED BY <1>1, <2>1, <2>3, QuietKeeps
<1>4. CASE dbs[d].state = "there" /\ dbs' = [dbs EXCEPT ![d].healthy = TRUE] /\ left' = left
  <2> PICK e : e = [dbs[d] EXCEPT !.healthy = TRUE]
    OBVIOUS
  <2>1. /\ e \in [state : {"there", "deleting", "gone"}, uid : {dbs[d].uid},
                  ours : {dbs[d].ours}, target : {dbs[d].target}, healthy : BOOLEAN]
        /\ dbs[d].state = "gone" => e.state = "gone"
    BY ClusterFields
  <2>2. dbs' = [dbs EXCEPT ![d] = e]
    BY <1>4
  <2> QED BY <1>1, <1>4, <2>1, <2>2, ClusterStateKeeps
<1> QED BY <1>2, <1>3, <1>4 DEF Postgres

LEMMA UserDeletesClusterKeeps ==
    ASSUME IInv, NEW d \in Clusters, UserDeletesCluster(d)
    PROVE  IInv'
<1>1. /\ UNCHANGED <<spec, st, meta, pass, lock, wl, late, app, jobs>> /\ kept' = kept
      /\ request' = request /\ Trouble /\ left' \subseteq Clusters /\ dbs[d].state = "there"
  BY DEF UserDeletesCluster, IInv, TypeOK, PostgresTypes
<1> PICK e : e = [dbs[d] EXCEPT !.state = "deleting"]
  OBVIOUS
<1>2. /\ e \in [state : {"there", "deleting", "gone"}, uid : {dbs[d].uid},
                ours : {dbs[d].ours}, target : {dbs[d].target}, healthy : BOOLEAN]
      /\ dbs[d].state = "gone" => e.state = "gone"
  BY <1>1, ClusterFields
<1>3. dbs' = [dbs EXCEPT ![d] = e]
  BY DEF UserDeletesCluster
<1> QED BY <1>1, <1>2, <1>3, ClusterStateKeeps

(* The recovery that the webhook writes for a waiting run is its target. *)
LEMMA WaitingTarget ==
    ASSUME IInv, NEW d \in Clusters, Waiting(d)
    PROVE  st.selected /\ RecoveryFor(d) = Target
<1>1. st.items[d] = "Deleted" /\ StatusInv(st) /\ LifeInv(st) /\ st \in Status
  BY MemType DEF Waiting, IInv, Stored
<1>2. st.selected
  BY <1>1 DEF StatusInv, Ahead, Things
<1>3. IF spec.asOf THEN d \in st.stop ELSE st.stop = {}
  BY <1>1, <1>2 DEF StatusInv, DatabasesInv, LifeInv
<1> QED BY <1>2, <1>3 DEF RecoveryFor, Target

LEMMA HandleKeeps ==
    ASSUME IInv, NEW d \in Clusters, Handle(d)
    PROVE  IInv'
<1>1. /\ spec' = spec /\ st' = st /\ UNCHANGED <<meta, pass, lock, app, jobs>> /\ wl' = wl
      /\ late' = late /\ dbs' = dbs /\ left' = left /\ kept' = kept /\ faults' = faults
      /\ dbs[d].state = "gone" /\ dbs[d].uid < MaxUID /\ DbInv(st) /\ Control /\ TypeOK
      /\ PostgresTypes /\ pass \in Passes
  BY MemType DEF Handle, IInv, Stored, TypeOK
<1>2. PICK r \in [ours : BOOLEAN, target : Targets] :
        /\ request' = [request EXCEPT ![d] = r]
        /\ r.ours => Waiting(d) /\ r.target = RecoveryFor(d)
  <2>1. Waiting(d) \in BOOLEAN /\ RecoveryFor(d) \in {"base", "archive"}
    BY DEF Waiting, RecoveryFor
  <2>2. PICK declared \in BOOLEAN :
          /\ Waiting(d) => ~declared
          /\ request' = [request EXCEPT ![d] =
               [ours |-> Waiting(d), target |-> IF declared THEN "own"
                                                ELSE IF Waiting(d) THEN RecoveryFor(d) ELSE "auto"]]
    BY DEF Handle
  <2>3. CASE Waiting(d)
    <3>1. [ours |-> TRUE, target |-> RecoveryFor(d)] \in [ours : BOOLEAN, target : Targets]
      BY <2>1 DEF Targets
    <3>2. request' = [request EXCEPT ![d] = [ours |-> TRUE, target |-> RecoveryFor(d)]]
      BY <2>1, <2>2, <2>3
    <3> QED BY <2>3, <3>1, <3>2
  <2>4. CASE ~Waiting(d)
    <3>1. PICK target \in {"own", "auto"} :
            request' = [request EXCEPT ![d] = [ours |-> FALSE, target |-> target]]
      BY <2>1, <2>2, <2>4
    <3>2. [ours |-> FALSE, target |-> target] \in [ours : BOOLEAN, target : Targets]
      BY DEF Targets
    <3> QED BY <3>1, <3>2
  <2> QED BY <2>3, <2>4
<1>3. r.ours => st.selected /\ r.target = Target
  BY <1>2, WaitingTarget
<1>4. request'[d] = r /\ \A e \in Clusters : e # d => request'[e] = request[e]
  BY <1>1, <1>2 DEF PostgresTypes
<1>5. DbInv(st)'
  <2>1. Target' = Target
    BY <1>1 DEF Target
  <2> QED BY <1>1, <1>3, <1>4, <2>1 DEF DbInv
<1>6. PostgresTypes'
  BY <1>1, <1>2 DEF PostgresTypes
<1>7. TypeOK'
  BY <1>1, <1>6, TypesKept DEF TypeOK
<1>8. ClustersMove
  BY <1>1 DEF ClustersMove
<1>9. Control'
  BY <1>1, ControlSame DEF jobs
<1> QED BY <1>1, <1>5, <1>7, <1>8, <1>9, ClustersKeep

LEMMA StoreClusterKeeps ==
    ASSUME IInv, NEW d \in Clusters, StoreCluster(d)
    PROVE  IInv'
<1>1. /\ spec' = spec /\ st' = st /\ UNCHANGED <<meta, pass, lock, app, jobs>> /\ wl' = wl
      /\ late' = late /\ left' = left \cup {d} /\ kept' = kept /\ faults' = faults
      /\ request[d] # None /\ DbInv(st) /\ Control /\ TypeOK
      /\ PostgresTypes /\ pass \in Passes
  BY MemType DEF StoreCluster, IInv, Stored, TypeOK
<1>2. /\ request[d] \in [ours : BOOLEAN, target : Targets] /\ dbs[d].uid \in 1 .. MaxUID
      /\ dbs[d].uid < MaxUID /\ (request[d].ours => st.selected /\ request[d].target = Target)
  BY <1>1 DEF PostgresTypes, DbInv
<1>3. PICK c : c = [state |-> "there", uid |-> dbs[d].uid + 1, ours |-> request[d].ours,
                    target |-> request[d].target, healthy |-> FALSE]
  OBVIOUS
<1>4. /\ c \in [state : {"there", "deleting", "gone"}, uid : 1 .. MaxUID,
                ours : BOOLEAN, target : Targets, healthy : BOOLEAN]
      /\ c.uid = dbs[d].uid + 1 /\ (c.ours => st.selected /\ c.target = Target)
  BY <1>2, <1>3, BoundsAssumption
<1>5. dbs' = [dbs EXCEPT ![d] = c] /\ request' = [request EXCEPT ![d] = None]
  BY <1>3 DEF StoreCluster
<1>6. /\ dbs'[d] = c /\ request'[d] = None
      /\ \A e \in Clusters : e # d => dbs'[e] = dbs[e] /\ request'[e] = request[e]
  BY <1>1, <1>5 DEF PostgresTypes
<1>7. PostgresTypes'
  BY <1>1, <1>4, <1>5 DEF PostgresTypes
<1>8. TypeOK'
  BY <1>1, <1>7, TypesKept DEF TypeOK
<1>9. ClustersMove
  BY <1>4, <1>6 DEF ClustersMove
<1>10. DbInv(st)'
  <2>1. Target' = Target
    BY <1>1 DEF Target
  <2> QED BY <1>1, <1>4, <1>6, <2>1 DEF DbInv
<1>11. Control'
  BY <1>1, ControlSame DEF jobs
<1> QED BY <1>1, <1>8, <1>9, <1>10, <1>11, ClustersKeep

-----------------------------------------------------------------------------
(* The invariant holds in every state. *)

LEMMA InitInv == Init => IInv
<1> SUFFICES ASSUME Init PROVE IInv
  OBVIOUS
<1>1. /\ st = Empty /\ pass = Idle /\ meta = [state |-> "there", finalizer |-> FALSE]
      /\ lock \in {"free", "other"} /\ wl = "none" /\ late = FALSE
      /\ copy \in {"none", "other"} /\ job = [v \in Volumes |-> "none"] /\ pod = {}
      /\ data = [v \in Volumes |-> "old"] /\ left = Clusters /\ kept = Clusters
      /\ request = [d \in Clusters |-> None] /\ faults = 0
  BY DEF Init
<1>2. spec \in [pauses : BOOLEAN, into : BOOLEAN, asOf : BOOLEAN]
  BY DEF Init
<1>3. /\ AppTypes /\ app.replicas = 1 /\ app.own = 1 /\ app.suspended = app.ownSuspend
  <2>1. PICK suspended \in {FALSE, spec.pauses} :
          app = [replicas |-> 1, pods |-> TRUE, own |-> 1, suspended |-> suspended,
                 ownSuspend |-> suspended]
    BY DEF Init
  <2>2. suspended \in BOOLEAN
    BY <1>2
  <2> QED BY <2>1, <2>2 DEF AppTypes
<1>4. /\ dbs \in [Clusters -> [state : {"there", "deleting", "gone"}, uid : 1 .. MaxUID,
                              ours : BOOLEAN, target : Targets, healthy : BOOLEAN]]
      /\ \A d \in Clusters : ~dbs[d].ours
  BY BoundsAssumption DEF Init, Targets
<1>5. TypeOK
  <2>1. RunTypes
    BY <1>1, <1>2, EmptyType, IdleType DEF RunTypes
  <2>2. JobTypes
    BY <1>1 DEF JobTypes
  <2>3. PostgresTypes
    BY <1>1, <1>4 DEF PostgresTypes
  <2>4. faults \in 0 .. MaxFaults
    BY <1>1, BoundsAssumption
  <2> QED BY <1>1, <1>3, <2>1, <2>2, <2>3, <2>4 DEF TypeOK
<1>6. /\ st.phase = "" /\ ~st.selected /\ ~st.paused /\ ~st.resumed /\ st.recorded = {}
      /\ st.stop = {} /\ \A t \in Things : st.items[t] = "None"
  BY <1>1 DEF Empty
<1>7. Ahead(st) /\ VolumesInv(st) /\ DatabasesInv(st)
  BY <1>6 DEF Ahead, VolumesInv, DatabasesInv, Things
<1>8. LeaseInv /\ JobInv(st)
  BY <1>1 DEF LeaseInv, JobInv
<1>9. AppInv(st) /\ DbInv(st)
  <2>1. AppInv(st)
    <3>1. app.suspended \in BOOLEAN /\ app.ownSuspend \in BOOLEAN
      BY <1>3 DEF AppTypes
    <3>2. app.ownSuspend => app.suspended
      BY <1>3, <3>1
    <3>3. OwnApp
      BY <1>3 DEF OwnApp
    <3>4. app.replicas = 1 /\ app.own = 1
      BY <1>3
    <3>5. ~st.paused
      BY <1>6
    <3> QED BY <3>2, <3>3, <3>4, <3>5 DEF AppInv
  <2>2. DbInv(st)
    BY <1>1, <1>4 DEF DbInv
  <2> QED BY <2>1, <2>2
<1>10. LifeInv(st)
  BY <1>1, <1>6 DEF LifeInv, Finished, Things
<1>11. pass.pc = "idle" /\ pass.end = ""
  BY <1>1 DEF Idle
<1>12. InMemory /\ Control
  BY <1>1, <1>11 DEF InMemory, Control, ShapeInv, DeleteInv, StageInv, PauseInv, DownInv
<1> QED BY <1>5, <1>7, <1>8, <1>9, <1>10, <1>12 DEF IInv, Stored, StatusInv

LEMMA WorksKeep ==
    ASSUME IInv, Works
    PROVE  IInv'
BY PlanKeeps, EnsureWorkloadKeeps, AdmitKeeps, EndIfEvictedKeeps, RecordLeasesKeeps,
   TakeLeasesKeeps, SelectKeeps, PauseKeeps, ApplySuspendKeeps, ApplyScaleKeeps, PodsGoneKeeps,
   StartInPlaceKeeps, FollowJobKeeps, DeleteJobKeeps, StartIntoKeeps, CreateClaimKeeps,
   RecordJobKeeps, CreateJobKeeps, VolumesVisitedKeeps, StartDatabaseKeeps, AwaitClusterKeeps,
   FollowClusterKeeps, RecordUIDKeeps, DeleteClusterKeeps, DatabasesVisitedKeeps, ResumeKeeps,
   ScaleUpKeeps, UnsuspendKeeps, EndWorkKeeps, ReleaseKeeps, ReleaseAllKeeps,
   DeleteWorkloadKeeps, FinishKeeps, DropFinalizerKeeps
DEF Works

LEMMA SurroundingsKeep ==
    ASSUME IInv, Surroundings
    PROVE  IInv'
BY PodStartsKeeps, PodEndsKeeps, PodStopsKeeps, HandleKeeps, StoreClusterKeeps, PostgresKeeps,
   PruneKeeps, UserDeletesClusterKeeps, KueueKeeps, OtherRunsKeeps, AppStepsKeeps, DeadlineKeeps,
   DeleteKeeps
DEF Surroundings

LEMMA NextInv == IInv /\ [Next]_vars => IInv'
<1> SUFFICES ASSUME IInv, [Next]_vars PROVE IInv'
  OBVIOUS
<1>1. CASE UNCHANGED vars
  <2>1. UNCHANGED <<spec, st, meta, pass, world, faults>>
    BY <1>1 DEF vars
  <2>2. Quiet
    BY <2>1, WorldQuiet
  <2>3. TypeOK'
    BY <2>1, MemType, PassTypes DEF IInv, TypeOK, RunTypes
  <2> QED BY <2>1, <2>2, <2>3, QuietKeeps
<1>2. CASE Fails
  BY <1>2, FaultKeeps, ApplyFailsKeeps, RepositoryGoneKeeps DEF Fails
<1> QED BY <1>1, <1>2, WorksKeep, SurroundingsKeep, ReconcileKeeps, ExpireKeeps DEF Next

LEMMA AlwaysInv == Spec => []IInv
BY InitInv, NextInv, PTL DEF Spec

-----------------------------------------------------------------------------
(* The theorems. *)

(* Every variable keeps its type: a pass only ever holds a status that can *)
(* be stored, ends in a phase of the API, and gives items their phases.    *)
THEOREM TypeCorrect == Spec => []TypeOK
<1>1. IInv => TypeOK
  BY DEF IInv
<1> QED BY <1>1, AlwaysInv, PTL

(* restic runs only under the run's Leases, whichever call of a pass fails *)
(* and whoever else waits for them: release gives them back when no        *)
(* restore pod is left.                                                    *)
THEOREM LeasesCoverRestores == Spec => []LeaseCoversRestic
<1>1. IInv => LeaseCoversRestic
  BY DEF IInv, TypeOK, JobTypes, Stored, LeaseInv, LeaseCoversRestic
<1> QED BY <1>1, AlwaysInv, PTL

(* Before the selected backups are stored, and so for good in a run that   *)
(* finds none, there is no Job, claim or pause of the run, and no Cluster  *)
(* recovers for it.                                                        *)
THEOREM NothingIsTouchedFirst == Spec => []NothingChangedWithoutBackup
<1>1. IInv => NothingChangedWithoutBackup
  <2> SUFFICES ASSUME IInv, ~st.selected PROVE NothingChangedWithoutBackup
    BY DEF NothingChangedWithoutBackup
  <2>1. Ahead(st) /\ JobInv(st) /\ AppInv(st) /\ DbInv(st)
    BY DEF IInv, Stored, StatusInv
  <2>2. st.recorded = {} /\ ~st.paused
    BY <2>1 DEF Ahead
  <2>3. (\A v \in Volumes : job[v] = "none" /\ data[v] = "old") /\ copy # "run"
    BY <2>1, <2>2 DEF JobInv
  <2>4. spec.pauses => OwnApp
    BY <2>1, <2>2 DEF AppInv
  <2>5. \A d \in Clusters : ~dbs[d].ours
    BY <2>1 DEF DbInv
  <2> QED BY <2>3, <2>4, <2>5 DEF NothingChangedWithoutBackup, OwnApp
<1> QED BY <1>1, AlwaysInv, PTL

(* A paused app gets its replicas and its Kustomization its suspend flag   *)
(* back before the run is finished or its object is gone, wherever a pass  *)
(* was cut short, a write was refused or the run was deleted.              *)
THEOREM PausedAppIsGivenBack == Spec => []AppGivenBack
<1>1. IInv => AppGivenBack
  <2> SUFFICES ASSUME IInv, spec.pauses, st.paused => ~Alive PROVE OwnApp
    BY DEF AppGivenBack, OwnApp
  <2>1. AppInv(st) /\ LifeInv(st)
    BY DEF IInv, Stored
  <2>2. CASE ~st.paused
    BY <2>1, <2>2 DEF AppInv
  <2>3. CASE st.paused /\ ~Alive
    <3>1. st.resumed
      BY <2>1, <2>3 DEF LifeInv, Alive
    <3> QED BY <2>1, <3>1 DEF AppInv
  <2> QED BY <2>2, <2>3
<1> QED BY <1>1, AlwaysInv, PTL

(* What a Succeeded run reports is true: its volumes hold whole snapshots, *)
(* and the Clusters that followed the deleted ones recovered to the target *)
(* that the run selected.                                                  *)
THEOREM SuccessIsARestore == Spec => []SucceededIsRestored
<1>1. IInv => SucceededIsRestored
  <2> SUFFICES ASSUME IInv, st.phase = "Succeeded" PROVE SucceededIsRestored
    BY DEF SucceededIsRestored
  <2>1. VolumesInv(st) /\ DatabasesInv(st) /\ DbInv(st)
    BY DEF IInv, Stored, StatusInv
  <2>2. \A v \in Volumes : st.items[v] # "None" => data[v] = "whole" /\ v \notin pod
    BY <2>1 DEF VolumesInv
  <2>3. ASSUME NEW d \in Clusters, st.items[d] = "Succeeded"
        PROVE  \/ dbs[d].uid = st.uid[d] + 1 /\ dbs[d].ours /\ dbs[d].target = Target
               \/ dbs[d].uid > st.uid[d] + 1
    <3>1. dbs[d].uid \in Nat /\ st.uid[d] \in Nat
      BY BoundsAssumption DEF IInv, TypeOK, RunTypes, Status, PostgresTypes
    <3>2. st.uid[d] < dbs[d].uid /\ (dbs[d].uid = st.uid[d] + 1 => dbs[d].ours /\ dbs[d].target = Target)
      BY <2>1, <2>3 DEF DatabasesInv, DbInv
    <3> QED BY <3>1, <3>2
  <2> QED BY <2>2, <2>3 DEF SucceededIsRestored, Target
<1> QED BY <1>1, AlwaysInv, PTL

(* Which steps touch the Clusters, the Jobs and the replicas of the app. *)
LEMMA DeletesClusters ==
    ASSUME [Next]_vars, dbs' # dbs, pass' # pass
    PROVE  DeleteCluster
<1>1. [Next]_vars => Next \/ dbs' = dbs
  BY DEF vars, world, postgres
<1>2. Reconcile \/ Expire \/ Fails => dbs' = dbs
  BY DEF Reconcile, Expire, Fails, Fault, ApplyFails, RepositoryGone, world, postgres
<1>3. Surroundings => dbs' = dbs \/ pass' = pass
  BY DEF Surroundings, PodStarts, PodEnds, PodStops, Handle, StoreCluster, Postgres, Prune,
         UserDeletesCluster, Kueue, OtherRuns, AppSteps, Deadline, Delete, world, postgres
<1>4. Works => DeleteCluster \/ dbs' = dbs
  BY DEF Works, Plan, EnsureWorkload, Admit, EndIfEvicted, RecordLeases, TakeLeases, Select,
         Pause, ApplySuspend, ApplyScale, PodsGone, StartInPlace, FollowJob, DeleteJob, StartInto,
         CreateClaim, RecordJob, CreateJob, VolumesVisited, StartDatabase, AwaitCluster,
         FollowCluster, RecordUID, DatabasesVisited, Resume, ScaleUp, Unsuspend, EndWork, Release,
         ReleaseAll, DeleteWorkload, Finish, DropFinalizer, world, postgres
<1> QED BY <1>1, <1>2, <1>3, <1>4 DEF Next

LEMMA StartsJobs ==
    ASSUME IInv, [Next]_vars, NEW v \in Volumes, job[v] = "none", job'[v] = "running"
    PROVE  CreateJob
<1>1. [Next]_vars => Next \/ job' = job
  BY DEF vars, world, jobs
<1>2. Reconcile \/ Expire \/ Fails => job' = job
  BY DEF Reconcile, Expire, Fails, Fault, ApplyFails, RepositoryGone, world, jobs
<1>3. Surroundings => job' = job \/ \E u \in Volumes : PodEnds(u)
  BY DEF Surroundings, PodStarts, PodStops, Handle, StoreCluster, Postgres, Prune,
         UserDeletesCluster, Kueue, OtherRuns, AppSteps, Deadline, Delete, world, jobs
<1>4. Works => \/ CreateJob \/ job' = job \/ \E u \in Volumes : DeleteJob(u)
  BY DEF Works, Plan, EnsureWorkload, Admit, EndIfEvicted, RecordLeases, TakeLeases, Select,
         Pause, ApplySuspend, ApplyScale, PodsGone, StartInPlace, FollowJob, StartInto,
         CreateClaim, RecordJob, VolumesVisited, StartDatabase, AwaitCluster, FollowCluster,
         RecordUID, DeleteCluster, DatabasesVisited, Resume, ScaleUp, Unsuspend, EndWork, Release,
         ReleaseAll, DeleteWorkload, Finish, DropFinalizer, world, jobs
<1>5. job \in [Volumes -> {"none", "running", "complete", "failed"}]
  BY DEF IInv, TypeOK, JobTypes
<1>6. ASSUME NEW u \in Volumes, PodEnds(u) \/ DeleteJob(u) PROVE FALSE
  BY <1>5, <1>6 DEF PodEnds, DeleteJob
<1> QED BY <1>1, <1>2, <1>3, <1>4, <1>6 DEF Next

LEMMA ScalesUp ==
    ASSUME IInv, [Next]_vars, spec.pauses, app.replicas = 0, app'.replicas # 0
    PROVE  ScaleUp
<1>1. [Next]_vars => Next \/ app' = app
  BY DEF vars, world
<1>2. Reconcile \/ Expire \/ Fails => app' = app
  BY DEF Reconcile, Expire, Fails, Fault, ApplyFails, RepositoryGone, world
<1>3. Surroundings => app' = app \/ AppSteps
  BY DEF Surroundings, PodStarts, PodEnds, PodStops, Handle, StoreCluster, Postgres, Prune,
         UserDeletesCluster, Kueue, OtherRuns, Deadline, Delete, world
<1>4. Works => \/ app' = app \/ ScaleUp \/ ApplySuspend \/ ApplyScale \/ Unsuspend
  BY DEF Works, Plan, EnsureWorkload, Admit, EndIfEvicted, RecordLeases, TakeLeases, Select,
         Pause, PodsGone, StartInPlace, FollowJob, DeleteJob, StartInto, CreateClaim, RecordJob,
         CreateJob, VolumesVisited, StartDatabase, AwaitCluster, FollowCluster, RecordUID,
         DeleteCluster, DatabasesVisited, Resume, EndWork, Release, ReleaseAll, DeleteWorkload,
         Finish, DropFinalizer, world
<1>5. /\ app \in [replicas : 0 .. 1, pods : BOOLEAN, own : 0 .. 1, suspended : BOOLEAN,
                  ownSuspend : BOOLEAN]
      /\ app.suspended
  BY AppFields DEF IInv, Stored, AppInv
<1>6. ApplySuspend \/ ApplyScale \/ Unsuspend => app'.replicas = 0
  BY <1>5 DEF ApplySuspend, ApplyScale, Unsuspend, SetSuspend, Scale
<1>7. AppSteps => app'.replicas = 0
  BY <1>5 DEF AppSteps
<1> QED BY <1>1, <1>2, <1>3, <1>4, <1>6, <1>7 DEF Next

(* The run deletes a Cluster only when its stored status says so with the  *)
(* UID of that very Cluster, and when every volume of the run holds its    *)
(* snapshot.                                                               *)
THEOREM ClusterIsDeletedByRecord == Spec => DeletesWhatItRecorded
<1>1. ASSUME IInv, [Next]_vars, NEW d \in Clusters, dbs[d].state = "there",
             dbs'[d].state = "deleting", pass' # pass
      PROVE  /\ st.items[d] = "Deleted" /\ st.uid[d] = dbs[d].uid
             /\ \A v \in Volumes : st.items[v] \in {"None", "Succeeded"} /\ data[v] # "part"
  <2>1. DeleteCluster
    BY <1>1, DeletesClusters
  <2>2. /\ At("deleteCluster") /\ mem.items[pass.item] = "Deleted" /\ Control
    BY <1>1, <2>1 DEF DeleteCluster, IInv, Control, ShapeInv
  <2>3. d = pass.item /\ dbs[d].uid = mem.uid[d]
    BY <1>1, <2>1 DEF DeleteCluster, IInv, TypeOK, PostgresTypes
  <2>4. st.items[d] = "Deleted" /\ st.uid[d] = mem.uid[d]
    BY <2>2, <2>3 DEF Control, DeleteInv
  <2>5. VolumesInv(st) /\ DatabasesInv(st) /\ JobInv(st)
    BY <1>1 DEF IInv, Stored, StatusInv
  <2>6. \A v \in Volumes : st.items[v] \in {"None", "Succeeded"}
    BY <2>4, <2>5 DEF DatabasesInv
  <2>7. \A v \in Volumes : data[v] # "part"
    BY <2>5, <2>6 DEF VolumesInv, JobInv
  <2> QED BY <2>3, <2>4, <2>6, <2>7
<1>2. IInv /\ [Next]_vars =>
        [\A d \in Clusters :
           dbs[d].state = "there" /\ dbs'[d].state = "deleting" /\ pass' # pass =>
             /\ st.items[d] = "Deleted" /\ st.uid[d] = dbs[d].uid
             /\ \A v \in Volumes : st.items[v] \in {"None", "Succeeded"} /\ data[v] # "part"]_vars
  BY <1>1
<1> QED BY <1>2, AlwaysInv, PTL DEF Spec, DeletesWhatItRecorded

(* A Job of a claim that the app mounts is created only once the app is    *)
(* scaled down and its pods are gone, and the app is scaled up next to an  *)
(* unfinished Job, or to a pod that still writes, only when the run has    *)
(* given the volume up.                                                    *)
THEOREM AppIsStoppedForRestore == Spec => RestoresIntoStoppedApp
<1>1. ASSUME IInv, [Next]_vars, spec.pauses, NEW c \in Claims
      PROVE  /\ job[c] = "none" /\ job'[c] = "running" => app.replicas = 0 /\ ~app.pods
             /\ (job[c] = "running" \/ c \in pod) /\ app.replicas = 0 /\ app'.replicas # 0 =>
                  mem.items[c] = "Failed"
  <2>1. c \in Volumes /\ c \in Things /\ Control
    BY <1>1 DEF Volumes, Things, IInv
  <2>2. ASSUME job[c] = "none", job'[c] = "running" PROVE app.replicas = 0 /\ ~app.pods
    <3>1. At("createJob")
      BY <1>1, <2>1, <2>2, StartsJobs DEF CreateJob
    <3>2. Pending # {}
      BY <2>1, <3>1 DEF Control, ShapeInv, Pending, Things
    <3> QED BY <1>1, <2>1, <3>1, <3>2 DEF Control, DownInv
  <2>3. ASSUME job[c] = "running" \/ c \in pod, app.replicas = 0, app'.replicas # 0
        PROVE  mem.items[c] = "Failed"
    <3>1. At("scaleUp")
      BY <1>1, <2>3, ScalesUp DEF ScaleUp
    <3>2. pass.end = "" /\ VolumesDone
      BY <2>1, <2>3, <3>1 DEF Control, StageInv, PauseInv
    <3>3. MemInv(mem) /\ JobInv(st) /\ mem \in Status
      BY <1>1, <3>1, MemType DEF IInv, InMemory, Stored
    <3>4. VolumesInv(mem) /\ c \in mem.recorded
      BY <2>1, <2>3, <3>3 DEF MemInv, StatusInv, Agree, JobInv
    <3>5. mem.items[c] \notin {"None", "Skipped", "Deleted", "Recovering", "Succeeded",
                               "Pending", "Running"}
      BY <2>1, <2>3, <3>2, <3>4 DEF VolumesInv, VolumesDone
    <3>6. mem.items[c] \in {"None", "Succeeded", "Failed", "Skipped"} \cup Unended
      BY <2>1, <3>3 DEF Status
    <3> QED BY <3>5, <3>6 DEF Unended
  <2> QED BY <2>2, <2>3
<1>2. IInv /\ [Next]_vars =>
        [spec.pauses => \A c \in Claims :
           /\ job[c] = "none" /\ job'[c] = "running" => app.replicas = 0 /\ ~app.pods
           /\ (job[c] = "running" \/ c \in pod) /\ app.replicas = 0 /\ app'.replicas # 0 =>
                mem.items[c] = "Failed"]_vars
  BY <1>1
<1> QED BY <1>2, AlwaysInv, PTL DEF Spec, RestoresIntoStoppedApp

=============================================================================
