# A TLA+ model of backup-controller

backup-controller backs up the marked claims and CloudNativePG Clusters of a
Kubernetes namespace and brings them back. It is a set of Kubernetes
controllers, an admission webhook and a volume populator. But for a cache of
repository keys, none of them keeps state in memory between two calls:
everything is in API objects, in restic repositories and in WAL archives, and
every one of these is changed by several actors. This project models that
control logic, checks it on small instances with TLC, and proves with TLAPS the
safety properties of the Leases, the scheduler, BackupRuns, RestoreRuns, the
populator, the webhook and Retime for instances of any size.

## Inventory

| Component | State it keeps | Operations | Hard behaviour | What makes it correct |
| --- | --- | --- | --- | --- |
| Leases (`internal/lease`, `internal/runs/leases.go`) | `coordination.k8s.io` Leases, `status.leases` | Take, Release, holding, releaseAll, RunAlive | two controllers interleave between Get, liveness check and Update; crashes; takeovers; a release that stops half-way | one holder at a time; nothing left behind; all come back |
| BackupRun (`internal/runs/backuprun.go`, `pause.go`, `sources.go`, `cnpg.go`, `trigger.go`) | status of the run, replicas and suspend flags of the app, ReplicationSources, Backups, snapshots | plan, admit, work (holding, pause, startItem, clonesCut, resume, collectItem), abort, finish, release, finalize | failed writes between an action and its record; eviction, timeout, deletion at any point; stale triggers | the app is given back; a paused backup is one point in time; Succeeded means restorable; every run ends |
| Scheduler (`schedule.go`) | none: labels of BackupRuns | Reconcile, dueTick, create | lagging cache; missed ticks; expiry | one at a time and once per tick (but for the lag of the cache and for sparse ticks, see Disagreements), forward, no tick lost |
| RestoreRun (`restorerun.go`, `restore_items.go`, `restore_select.go`) | status of the run, restore Jobs, Clusters | plan, admit, selectBackups, pause, restoreVolume, restoreDatabase, resume, abort, release, finalize | irreversible deletes and overwrites across crashes; the owner and the webhook re-create the Cluster | nothing is touched before backups are selected; only the recorded Cluster is deleted; the app is resumed next to no restore that the run still follows (the stronger claim, that restic never writes under a running app, does not hold: `restore_pod`) |
| Populator (`internal/populator`) | `status.claims` of VolumeRestores, Workloads, Jobs | Populate, Complete, Cleanup | retries, evictions, failing Jobs, unreachable pins | every claim is filled; slots go back |
| Paused moment (`internal/synced`) | none: snapshots | Repositories, Moment, At | computed at different times by two callers | claims and Cluster come back from one moment |
| Webhook (`internal/bootstrap`) | none: archive, VolumeRestores, RestoreRuns | Handle (waitingRun, recoveryFor, automaticRecovery, claimsFromMoment, optedOut, withoutBaseBackup, archiveHolder, keepRecovery) | decides from objects that change before the Cluster is stored; Flux dry-runs and applies again and again | the Cluster is never ahead of the claims, and live rows are kept; an archive each (checked at creation only, and not against overlapping creates: `cluster_twins`); no new database that cannot be backed up, Flux is never shut out |
| Admission (`internal/admission`) | Kueue Workloads | EnsureWorkload, Admitted, Evicted, Delete | eviction at any time | work only under a Workload |
| Retime and repository access (`internal/restic`) | snapshot files, locks | Retime, lockExclusive, checkLocks, listing | save-then-remove with calls that fail after their effect; locks of other, dead and earlier processes | it works alone; a snapshot is moved once and never lost; no lock stays; every move ends |

The components interact through API objects only: the scheduler creates
BackupRuns; both kinds of run take turns through Leases and ask Kueue for
admission; a RestoreRun deletes a Cluster and waits while its owner creates it
again through the webhook, which reads the run's status; the populator and the
webhook agree through the snapshots a BackupRun tagged. `PROJECT.json` lists
every component, with those that are not modelled, and the hazards of the code
at the lines where they bite.

## Modules

| Module | Models |
| --- | --- |
| `LeaseNames` | the Lease names a run needs and their order (`leaseNames` of both controllers) |
| `LeaseLock` | abstract: a lock with owners, taken over only from runs that ended |
| `Leases` | Take, Release, holding and releaseAll, one API call per action |
| `LeasesProofs` | theorems about `Leases` |
| `MCLeases` | a namespace with one Cluster and three runs that contend for it |
| `BackupRun`, `MCBackupRun` | the BackupRuns of one namespace, with VolSync, CloudNativePG, Kueue, Flux and the app around them |
| `BackupRunProofs` | theorems about `BackupRun` |
| `Scheduler` | the schedule of one namespace |
| `SchedulerProofs`, `NumberFacts` | theorems about `Scheduler`; the maximum of a bounded set of numbers |
| `RestoreRun` | one RestoreRun with the webhook, Jobs, pods, Clusters and users around it |
| `RestoreRunProofs` | theorems about `RestoreRun` |
| `SnapshotMove` | abstract: a snapshot is moved in one step and reported only then |
| `Retime` | collectVolume, Retime, lockExclusive and checkLocks, one call to the object store per action, next to a mover and a restore Job |
| `RetimeProofs` | theorems about `Retime`, and that it implements `SnapshotMove` |
| `ClusterAdmission`, `MCClusterAdmission` | the webhook call by call between Flux, the API server, databases and users |
| `ClusterAdmissionProofs` | theorems about `ClusterAdmission` |
| `Rebuild`, `MCRebuild` | populator, paused moment and webhook while a namespace comes back without a RestoreRun |
| `RebuildProofs` | theorems about `Rebuild` |

### How code becomes actions

* A *pass* is one call of Reconcile (or of a populator callback). It starts by
  reading the stored object into a copy (`pass.mem`, `seen`), and every later
  API call that changes the cluster is an action of its own, guarded by the
  program counter of the pass. What is only in the copy is lost when the pass
  ends early; `Fail` ends a pass before any of its calls, which stands for an API
  error, a conflict, a crash and a lost leadership.
* Reads that are not followed by a decision in a later call belong to the action
  that uses them.
* `Leases` has the single API calls. `BackupRun` takes the Leases of a pass in one
  step and `RestoreRun` sees other runs through one token; both are justified by
  `ImplementsLock`, which shows that the calls behave as an atomic lock.
* `Retime` has the single calls to the object store; each may fail without its
  effect or after it. `BackupRun` retimes in one step, which the refinement
  `Moves` justifies. A file is what was saved, the time it was moved to and
  the ID of its original; IDs count up, since each encryption gives a new one.
* `ClusterAdmission` has one action per read of the webhook and one for the API
  server that stores the Cluster afterwards. An archive is empty, has WAL, or has
  a base backup; where a recovery stops is in `RestoreRun` and `Rebuild`.
* Data is reduced to what tells results apart. In `BackupRun` the content of a
  claim is the number of the app's last start, or `Torn` while a pod runs; in
  `RestoreRun` a claim holds its old, part of, or the whole restored data; in
  `Rebuild` everything is the moment it stems from.
* Definitions marked external in the map stand for Kubernetes, Kueue, VolSync,
  CloudNativePG, Flux and users. They may act at any time the API lets them.

The operators whose comment begins "A slip" are small mutations of the definition
that follows; none is part of `Next`. Each property is violated when its slip
replaces that definition.

## Runs

Bounds on failures (`MaxFaults`) count failed calls, crashes, evictions and
deletions together. One fault at any step, followed by a pass that starts from
what is stored, is what each recovery path is written for; `retime` has two, since
a leftover lock matters only to a call that fails or starts after the first.

| Run | Instance | Shows |
| --- | --- | --- |
| `leases` | 3 runs (a BackupRun of everything, one of the Cluster, a RestoreRun), their real Lease lists, passes start until a name was written `MaxVersion` = 2 times | `MutualExclusion`, `FinishedLeavesNoLease`, refinement `LockSpec`, `LeasesComeBack` |
| `backup` | two runs with spec.all, symmetric, 1 claim, 1 Cluster, 1 fault; the usual namespace and each single departure from it (unmarked workload, suspended Kustomization with a hibernated Cluster, claim without files) | `AppGivenBack`, `OnePointInTime`, `SucceededIsRestorable` |
| `backup_ends` | one run with spec.all, with fairness | `StartedRunsEnd`, `AppComesBack` |
| `scheduler` | ticks 1, 2 and 6, horizon 7, runs that expire after 2, a cache and passes that lag by up to 1 | `OneAtATime`, `OnceEach`, `Forward`, `EveryTickIsServed` |
| `restore` | every kind of spec (pausing or not, into a new claim, as of a time), 1 claim, 1 Cluster re-created up to UID 3, 1 fault | `AppGivenBack`, `RestoresIntoStoppedApp`, `LeaseCoversRestic`, `NothingChangedWithoutBackup`, `SucceededIsRestored`, `DeletesWhatItRecorded`, `RunEnds` |
| `rebuild` | 2 claims, 1 slot, 4 histories of the stores, a pin on one claim, plain claims; any number of failures | `ComeBackTogether`, `NotAhead`, `LiveRowsKept`, `JobHasSlot`, `ClaimsAreFilled` |
| `retime` | 2 pods for the controller, 1 mover (backup and forget), 1 restore Job, 2 backups, 3 commands of others, 2 faults | `LockIsExclusive`, `MovedOnce`, `NoLockLeft`, refinement `Moves`, `EveryMoveEnds` |
| `cluster_admission` | a Cluster of every kind (declared recovery, opted out, not archiving) next to a plain one, with two prefixes between which users move them, every state of the archives, 1 failed request | `BackedUpFromTheStart`, `FluxGetsThrough` |
| `backup_two_pauses` | two runs that pause | `PauseIsExclusive` is violated |
| `rebuild_pieces` | VolumeRestores applied one after the other | `ComeBackTogether` is violated |
| `restore_pod` | the instance of `restore` | `AppNeverRunsUnderRestic` is violated |
| `cluster_twins` | two Clusters with one prefix, created at the same moment | `OneArchiveEach` is violated |

Ticks of `scheduler` follow each other within the lag (1 and 2) and later than a run
lives (2 and 6), so TLC reaches two scheduled runs at once and a tick that is
run twice; `OneAtATime` and `OnceEach` say exactly when that may happen, and both
slips are caught beyond it. `MaxLag` bounds two ages together, that of the cache and
that of the list which a pass under way works from: the clock does not go on while
either is older. A pass can meet a tick in either.

In `backup` both runs may be at work, wait for each other's Leases, or follow one
another. `spoilt` is a history variable: it holds the runs that met one of two
defects of the code (the third and fourth of the Disagreements below), which may tear
a snapshot that is tagged as paused. `OnePointInTime` is stated of all the others.
Runs of a single claim or Cluster next to these are in the proofs only, which hold
for any number of either.

The last four runs state what a document or a comment of the repository says, and
TLC finds a behaviour of the code that differs; `findings` in `PROJECT.json` quotes
the line and tells the behaviour.

`rebuild` assumes that nobody looks before all VolumeRestores and claims of the
namespace are applied and pinned for good (`Together`); `rebuild_pieces` drops
that. `Wipe` is bound to namespaces that were backed up at the last moment of the
horizon, so each behaviour has at most two rebuilds.

`retime` assumes that a Retime lasts less than `staleLockAge`, since it does not
refresh its lock; a few calls to the object store are far from 30 minutes.
`MaxFile` = 6 lets both backups be written, moved and moved again by a faulty
call. `cluster_admission` assumes (`Careful`) that users leave a prefix alone while a
Cluster is created with it: nobody creates another Cluster there, deletes the one
that has it, or changes git so that a Cluster comes to it or goes; and that
the database of a Cluster deleted or moved has left it before. Everything else users
do, also to that Cluster and between two creates, is free, and updates take any
prefix. `cluster_twins` drops `Careful`; that two Clusters archive to one prefix is
not excluded with it either, since an update is not checked, and no passing run says so.
Two Clusters are enough for a conflict over a prefix, and any archive that a
longer history could have left is an initial state.

Deadlock is checked in `cluster_admission`, where Flux never stops. In the others
it is not, because the models come to rest in states where the system is idle: all
runs finished, all ticks served, no more commands of others.

### Disagreements

Besides the four above, the models show these behaviours that differ from what a
comment or a document says, and that no run is kept for:

* A scheduled run that the cache does not show yet does not hold back the next tick
  (`runs/schedule.go:135-164`), so a second run of the whole namespace starts next to
  it; the comment at `schedule.go:161` says "Only one namespace backup runs at a
  time". `OneAtATime` bounds it by the lag.
* With ticks further apart than `scheduledTTL` (31 days of a monthly schedule), the
  run of the last tick expires before the next one, and the tick is run again
  (`runs/schedule.go:28`); the comment at `schedule.go:228-231` says that a second
  reconcile for a tick gets AlreadyExists. `OnceEach` names the condition.
* `pause` takes a ReplicationSource that it cannot read for idle
  (`runs/backuprun.go:461-462`). If it was busy with the trigger of an earlier run,
  the clone of that sync, cut under the pods that still stop, is newer than
  `pausedAt`, `clonesCut` takes it for this run's, the app is resumed, and the run's
  own clone is cut under the running app; the comment of `collectVolume`
  (`backuprun.go:663-672`) has the snapshot moved to `resumedAt` and tagged paused as
  the state of the pause.
* A run whose final write failed resumes the app again (`backup_two_pauses`), which
  may be during the pause of another run, whose snapshots then are not of one moment.
* A populator takes no Lease (`populator/populator.go:390`), and a BackupRun may
  retime, and so remove, the snapshot whose ID a restore Job was given. All tries of
  the Job then fail; docs/operations.md:274-276 says that a concurrent retime does not
  fail it. `Retime` has the behaviour (`Choose`, `FailTry`).
* A Recovering item looks for a healthy Cluster of its name
  (`runs/restore_items.go:328`). When the Cluster is deleted and created once more
  between two passes, the item succeeds for a Cluster that the webhook may have
  let through without the run's recovery; docs/restores.md:117 and
  `restore_items.go:273-274` say that the item fails. `SucceededIsRestored` names that
  case.
* `releaseAll` may stop half-way (`runs/leases.go:105`); the run goes on and asks for
  its first Lease anew while it holds later ones, so two runs may wait for each
  other until a deadline. docs/operations.md:241 says of Busy "The run named in the
  message holds a Lease and works".
* A run that was evicted, and whose final write failed, reads no Workload, which
  `endIfEvicted` takes for not evicted (`runs/backuprun.go:379`): it starts items
  without a share of the quota that docs/backups.md:100 speaks of.
* A pass that created a restore Job and died before its status write leaves the item
  Pending. When the next pass cannot read the repository, it fails the item without
  a look at the recorded Job (`runs/restore_items.go:60-64`), and with all volumes
  done the app is resumed next to the running Job, which `release` deletes only
  later; the comment at `restorerun.go:588-590` says that it never is.
  `RestoresIntoStoppedApp` excepts items that the run gave up, this way or the way of
  `restore_pod`. TLC reaches the state when two faults are allowed.

### Fairness

* `Leases`: controller-runtime delivers an unfinished run again and again, a pass
  that began goes on, a run's deadline passes, and calls fail only finitely often.
* `BackupRun`, `RestoreRun`: the same for passes, and deadlines pass. Nothing is
  assumed of VolSync, CloudNativePG, Kueue, Flux or the pods of the app;
  `RestoreRun` assumes that the pod of a deleted Job stops, which kubelet forces
  after the grace period.
* `Scheduler`: passes are repeated (every pass requeues within five minutes), the
  cache follows, runs end. Ticks are served only if the schedule is looked at while
  the cache shows no unfinished run of a user and the controller is not paused (`Ready`).
* `Rebuild`: the library retries the callbacks, Kueue admits whoever asks again and
  again (strong fairness, since a slot is free only now and then), Jobs end, an
  admin deletes failed Jobs, and failures stop at some time.
* `Retime`: passes are repeated, locks age, restic ends what it began. Strong
  fairness is assumed of a Job that has written its lock: it and the controller
  may both see the other's lock and back off, but their retries are seconds and
  200 ms apart, so not each time. `Abandon`, crashes and failed calls are not fair.
* `ClusterAdmission`: Flux applies a Kustomization again at every interval,
  an instance shuts down or follows its Cluster to another prefix, and a RestoreRun
  that waits ends at its deadline. Strong fairness is assumed of a create or update,
  since an instance or what `Careful` rules out is in its way only now and then.
  Nothing is assumed of users: a create that waits for a user (`Refused`) may wait
  for ever.

## Proofs

Each theorem holds for every value of the constants that satisfies the named
assumptions of its module, so for any number of runs, claims, Clusters, processes
and faults. Hypotheses on the constants are written in the theorem, and hold in
the configuration of the run that checks the same property.

| Module | Theorem | Statement |
| --- | --- | --- |
| `LeasesProofs` | `TypeCorrect` | `Spec => []TypeOK` |
| | `Exclusion` | `Spec => []MutualExclusion` |
| | `NoLeaseLeftBehind` | `Spec => []FinishedLeavesNoLease` |
| | `ImplementsLock` | `Spec => LockSpec` |
| `SchedulerProofs` | `TypeCorrect` | `Spec => []TypeOK` |
| | `OneRunAtATime` | `Spec => []OneAtATime` |
| | `TickIsRunOnce` | `Spec => []OnceEach` |
| | `NeverGoesBack` | `Spec => Forward` |
| `ClusterAdmissionProofs` | `TypeCorrect` | `Spec => []TypeOK` |
| | `NewDatabaseCanArchive` | `Careful /\ Spec => BackedUpFromTheStart` |
| `RetimeProofs` | `TypeCorrect` | `Spec => []TypeOK` |
| | `RetimeWorksAlone` | `Spec => []LockIsExclusive` |
| | `NoLockIsLeft` | `Spec => []NoLockLeft` |
| | `SnapshotMovedOnce` | `Spec => []MovedOnce` |
| | `ImplementsMove` | `Spec => Moves` |
| `RebuildProofs` | `TypeCorrect` | `Spec => []TypeOK` |
| | `RestoresAreCounted` | `Spec => []JobHasSlot` |
| | `ClaimsJoinTheCluster` | `Together /\ Spec => []ComeBackTogether` |
| | `DatabaseIsNotAhead` | `Together /\ Spec => NotAhead` |
| | `LiveDatabaseIsKept` | `Spec => LiveRowsKept` |
| `RestoreRunProofs` | `TypeCorrect` | `Spec => []TypeOK` |
| | `LeasesCoverRestores` | `Spec => []LeaseCoversRestic` |
| | `NothingIsTouchedFirst` | `Spec => []NothingChangedWithoutBackup` |
| | `PausedAppIsGivenBack` | `Spec => []AppGivenBack` |
| | `SuccessIsARestore` | `Spec => []SucceededIsRestored` |
| | `ClusterIsDeletedByRecord` | `Spec => DeletesWhatItRecorded` |
| | `AppIsStoppedForRestore` | `Spec => RestoresIntoStoppedApp` |
| `BackupRunProofs` | `TypeCorrect` | `Spec => []TypeOK` |
| | `AppIsGivenBack` | `Spec => []AppGivenBack` |
| | `SucceededRunsRestore` | `Spec => []SucceededIsRestorable` |
| | `PausedSnapshotsAgree` | `Spec => []OnePointInTime` |

Every proof has the same shape: an inductive invariant (`IInv`; `PInv`, `RInv` and
`MInv` in `BackupRunProofs`), one lemma per action
that keeps it, `NextInv` over the disjuncts of `Next`, and the theorems from it.

### Leases

The holder names of no Lease and of a foreign one are no runs, each run's list is
a sequence of names. `IInv` conjoins:

* `HeldIsStored`: what a pass believes to hold is stored under its name. Mutual
  exclusion follows at once, but only this form survives a takeover.
* `EndedIsIdle` and `TakeInv`: a run that ended has no pass, and the holder that a
  takeover was decided on had ended, which is for good, so the optimistic Update
  takes nothing from a live run.
* `RecordedInv`: every stored Lease of a run is in its `status.leases`, because
  `holding` writes that before the first Take.
* `ReleaseInv`: what `releaseAll` has gone past no longer names the run, and what it
  is about to delete is what it read.

The refinement maps the owner of a Lease to its stored holder; every call is a step
of `LeaseLock` or a stutter.

### Scheduler

* `RunsInv`: an unfinished run that the cache lacks is no older than `lag`, and a run
  that is gone lived for the TTL.
* `DueInv`: the tick of the pass under way came within `MaxLag` of the creation of
  every run that the pass did not see, it is the newest but for the ticks that came
  since its list was taken, and no later one was ever run.

`OneAtATime` and `OnceEach` are inductive with them, and `Forward` follows: a pass
decides for the newest tick, so no tick that was run is newer, and it repeats one only
if no other came, but for the lag, before the first run of it could expire. No condition
on the ticks, the TTL or the lag is needed.

`NumberFacts` has what the proofs use of the maximum of a bounded set of numbers.

### ClusterAdmission

`NoneAssumption` says that the value for no Cluster is not one. `IInv` is the type
invariant with `StoredInv` (a stored Cluster has its ObjectStore and an instance, and
archives as git says) and `PendingInv` (a create works for a Cluster without
instance). `NewDatabaseCanArchive` holds under `Careful` (see Runs): with one create
at a time for a prefix (`OneCreate`), what the webhook read of holders, of instances
and of the archive is still so when the API server stores the Cluster (`NoHolder`,
`NoStranger`, `StillEmpty`), although other Clusters come, go and move meanwhile.

### Retime

* `LockInv` and `AloneInv`: whoever is past the writing of its lock has it stored, and
  nobody else is when Retime works. Each side wrote its lock before it looked a
  second time, which excludes the other through failed writes, failed removals and
  processes that died.
* `LeftInv`: the second check has removed what earlier calls of the pod left.
* `FilesInv`, `ItemInv` and `CtlInv`: IDs are given once and grow, a copy was made for
  the item at hand, and what the controller has read is so. With them `MovedOnce` is
  inductive, since a copy is written only when none was listed under the lock.

The refinement maps each call to a step of `SnapshotMove` or to a stutter.

### Rebuild

`ArchivesAssumption` says that no archive replays to more than its WAL holds.

* `PassInv`, `ClaimInv`: a pass works on an unbound claim and in a slot until the Job
  exists, and a bound claim holds what its entry says until the app writes to it.
  `JobHasSlot` is inductive with them.
* `ReadyInv`, `ChoiceInv`: under `Together` (see Runs) nobody decides before all is
  applied, and the populator chooses the paused moment for every claim.
* `JoinedInv`: when the webhook answered with a moment, what is filled is of it and
  what is not will be, since the moment cannot change while a claim is unfilled.
* `BehindInv`: while the claims come back from the moment, neither the Cluster, the
  one asked for, nor an archive that a Cluster of this rebuild wrote is ahead.
* `DbInv`, `LiveInv`: next to a claim that an app has written to, the webhook asks for
  the whole archive, also when the Cluster comes and goes.

### RestoreRun

`MaxUID` is at least 1, the UID of the first Cluster. What is stored must be right
when a pass dies, and what the pass has in hand must be right when it is written, so
the invariant says the same things of both:

* `Stored(st)`: nothing happens before the selection is stored (`Ahead`); a volume
  that counts as restored is whole and no Job writes it (`VolumesInv`); a Cluster is
  deleted after the volumes, and what counts as its recovery is the webhook's
  (`DatabasesInv`, `DbInv`); what a Job did is recorded (`JobInv`); the status says how
  the owner had the app (`AppInv`); a run is over only when what it paused is resumed
  (`LifeInv`); a Job or a pod implies the Leases (`LeaseInv`).
* `InMemory`: the copy of the pass differs from the store in the phases of items,
  UIDs and marks of a resume only (`Agree`, `MemInv`), and how the pass is about to
  end fits its items (`EndInv`).
* `Control`: what each stage of the pass implies (`ShapeInv`, `StageInv`, `PauseInv`), a
  deletion is of what is stored (`DeleteInv`), and where Jobs are created the app is
  down (`DownInv`).

### BackupRun

The constants are as in any namespace: the reserved names are no runs, claims or
Clusters (`RunsAssumption`, `ThingsAssumption`), each run outside `All` names one thing
(`NamedAssumption`), and faults are counted (`FaultsAssumption`). Several runs may
pause the app. `PInv` is the type invariant with

* `AppInv` and `PauseInv`: an app that is scaled down or suspended is what the recorded
  pause of a live run says, and that run holds `backup-pause`; a run records how the
  owner had the app before it takes it away, and marks it resumed afterwards.
* `InHand` (`Agree`, `HolderInv`): the pass has in its copy of the status the pause that
  is stored, and a holder that has marked the resume has resumed.
* `MetaInv`, `StageInv`: the finalizer, and what each stage of the pass implies. A pass
  reaches the calls that give the Lease back or end the run with the app resumed.

A run whose last write failed may resume the app once more after it gave the Lease
back (the disagreement `PauseIsExclusive`). That gives the app the state of its owner
too, so `AppGivenBack` does not need one run in `All` only.

`RInv` says of every status, stored or in hand, what its items mean: a volume
with a recorded snapshot is not started again (`VolumeItem`); a sync that completed
left a snapshot, and only a recorded one is moved, to the recorded end of the pause
(`Snaps`); on a run that paused the app a volume succeeds with its snapshot moved, or
once a database of the run has failed, in which case the run does not succeed. The
copy in hand is ahead of the store only in what it collected (`Results`).

`MInv` is about the paused moment. `OnePointInTime` speaks of snapshots that carry the
tag, when everything that made them agree is long past: the app runs again, the
sources serve other runs. So the invariant follows a run from its first clone to the
move of its last snapshot:

* `HeldInv`: a run that has the app paused is alive and holds every Lease, so no other
  run touches a source or asks for a clone during the pause.
* `StopInv`: from the first source or base backup a run uses to the record of its
  resume the app is suspended, scaled down and without pods. `Stopping` says it stage
  by stage, since a pass may end after any call and a later one go on.
* `DInv`: during the pause every clone, saved snapshot and completed base backup of the
  run holds the current start of the app (`DuringPause`); after it there is one start `n`
  that everything the run has moved, based or may still collect holds (`AfterPause`).
  The change from one to the other is the write of `resumedAt`.
* `CInv` (`Covers`, `Settled`): what the statuses must say for that write to be final. A
  database that succeeded did so in the pause, nothing is left to start and no base
  backup runs once the resume is recorded, and a recorded snapshot waits to be
  moved only with all base backups at hand.

`DuringPause` has to speak of the clone's age as well: before it resumes the app the run
takes a clone that is not older than its pause for its own (`ClonesCut`), so any such
clone must be the run's.

All of this is said of runs that are not in `spoilt` (`Window(r)` during the pause,
`Past(r)` after it). `PauseGives` shows that a run which pauses and is not spoilt did
so with every source idle or its own, and a step that resumes the app during the
pause of another run puts that one into `spoilt`. Any number of runs may back up the
whole namespace, next to runs of single claims and Clusters.

### Only model-checked

* Liveness (`LeasesComeBack`, `StartedRunsEnd`, `AppComesBack`, `EveryTickIsServed`,
  `RunEnds`, `ClaimsAreFilled`, `EveryMoveEnds`, `FluxGetsThrough`): TLAPS does not
  reason about fairness and ENABLED.

Every invariant of the passing runs, and every action property, is a theorem. That the
claims of `backup_two_pauses`, `rebuild_pieces`, `restore_pod` and `cluster_twins` fail
is shown by TLC only.

## Not modelled

* `internal/cli`, `cmd/`: one API call per command, and wiring.
* Encryption, key cache, S3 clients, parsing of `backup.info` and of settings:
  I/O and conversions without state that other steps read.
* Events, metrics, conditions and messages: nothing in the controller reads them.
* The key cache (`restic/keycache.go`): an entry is named by location, password and
  key files, whose names are hashes of their content, so it is right for ever; one
  derivation at a time is a channel of one slot, released by `defer`.
* A pod that mounts a claim between `claimHolder` and the restore Job, and an owner
  who scales the app while a run has it paused.

## Plan

1. Done: `Leases` with its proofs; `BackupRun`; `Scheduler`; `RestoreRun`; `Rebuild`;
   `Retime` with `SnapshotMove`, and the restore Job under a retime; `ClusterAdmission`.
2. Done: theorems about `Leases`, `Scheduler`, `ClusterAdmission`, `Retime`, `Rebuild`,
   `RestoreRun` and `BackupRun`.
3. Done: in `BackupRunProofs` the paused moment, `PausedSnapshotsAgree`.
