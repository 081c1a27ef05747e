-------------------------------- MODULE Leases --------------------------------
(***************************************************************************)
(* How a run takes and gives back its coordination.k8s.io Leases:          *)
(* internal/lease/lease.go (Take, Release) driven by holding, releaseAll   *)
(* and RunAlive of internal/runs/leases.go.                                *)
(*                                                                         *)
(* Every API call of Take and Release is a step of its own, so the calls   *)
(* of different runs interleave: the BackupRun and the RestoreRun          *)
(* controllers reconcile concurrently, and a new leader starts while the   *)
(* last calls of the old one arrive.  A pass may stop before any of its    *)
(* calls (an API error, a crash, a lost leadership): what it knew is lost, *)
(* and the next pass starts from the stored objects.                       *)
(***************************************************************************)
EXTENDS Naturals, Sequences, FiniteSets

CONSTANTS
    Runs,        \* the runs of a namespace, one per UID
    Names,       \* Lease names
    Order,       \* [Runs -> Seq(Names)]: what leaseNames returns for the run
    NoRun,       \* holder of no Lease
    Foreign,     \* an identity that ParseHolder does not accept
    MaxVersion   \* bound on the writes to a Lease name after which no pass starts

ASSUME RunsAssumption == NoRun \notin Runs /\ Foreign \notin Runs /\ NoRun # Foreign
ASSUME OrderAssumption == Order \in [Runs -> Seq(Names)]
ASSUME VersionAssumption == MaxVersion \in Nat

VARIABLES
    lease,      \* [Names -> Lease]: the stored Leases; holder NoRun means there is none
    run,        \* [Runs -> phase]: the stored run, as RunAlive sees it
    recorded,   \* [Runs -> Seq(Names)]: status.leases of the stored run
    pc,         \* [Runs -> next API call of the run's pass]
    at,         \* [Runs -> Nat]: position of holding or releaseAll in its list
    seen,       \* [Runs -> Lease]: the Lease that the last Get returned
    held        \* [Runs -> SUBSET Names]: the Leases this pass knows it holds

vars == <<lease, run, recorded, pc, at, seen, held>>
passVars == <<pc, at, seen, held>>

(* One Lease.  version stands for the UID and the resourceVersion: it is   *)
(* never the same before and after a write to the name.                    *)
Lease == [holder : Runs \cup {NoRun, Foreign}, version : Nat]

NoLease == [holder |-> NoRun, version |-> 0]

Calls == {"idle", "record", "create", "get", "alive", "update", "work",
          "releaseGet", "releaseDelete"}

(* RunAlive: the run exists with the holder's UID and has not finished.    *)
RunAlive(r) == run[r] = "active"

Want(r) == Order[r][at[r]]

Init ==
    /\ lease = [n \in Names |-> NoLease]
    /\ run = [r \in Runs |-> "active"]
    /\ recorded = [r \in Runs |-> <<>>]
    /\ pc = [r \in Runs |-> "idle"]
    /\ at = [r \in Runs |-> 1]
    /\ seen = [r \in Runs |-> NoLease]
    /\ held = [r \in Runs |-> {}]

-----------------------------------------------------------------------------
(* A pass and its end. *)

Goto(r, call) == pc' = [pc EXCEPT ![r] = call]

(* The pass ends, and with it everything it knew. *)
StopPass(r) ==
    /\ Goto(r, "idle")
    /\ at' = [at EXCEPT ![r] = 1]
    /\ seen' = [seen EXCEPT ![r] = NoLease]
    /\ held' = [held EXCEPT ![r] = {}]

(* work reaches holding. *)
BeginHolding(r) ==
    /\ pc[r] = "idle" /\ RunAlive(r)
    /\ \A n \in Names : lease[n].version < MaxVersion
    /\ Goto(r, "record")
    /\ UNCHANGED <<lease, run, recorded, at, seen, held>>

(* A slip that FinishedLeavesNoLease catches: the names are not written. *)
RecordLater(r) ==
    /\ pc[r] = "record"
    /\ Goto(r, IF Order[r] = <<>> THEN "work" ELSE "create")
    /\ UNCHANGED <<lease, run, recorded, at, seen, held>>

(* holding adds the names that status.leases lacks and writes the status   *)
(* before the first Take.  leaseNames returns the same list on every pass  *)
(* here, so it adds all of them or none.                                   *)
Record(r) ==
    /\ pc[r] = "record"
    /\ recorded' = [recorded EXCEPT ![r] = Order[r]]
    /\ Goto(r, IF Order[r] = <<>> THEN "work" ELSE "create")
    /\ UNCHANGED <<lease, run, at, seen, held>>

(* The pass has done what it could for now; the run keeps its Leases. *)
EndPass(r) ==
    /\ pc[r] = "work"
    /\ StopPass(r)
    /\ UNCHANGED <<lease, run, recorded>>

(* Any call of a pass may fail, and the process may die before it. *)
Fail(r) ==
    /\ pc[r] \notin {"idle", "work"}
    /\ StopPass(r)
    /\ UNCHANGED <<lease, run, recorded>>

-----------------------------------------------------------------------------
(* Take. *)

(* Take reports Want(r) as held, and holding goes on to the next name. *)
Held(r) ==
    /\ held' = [held EXCEPT ![r] = @ \cup {Want(r)}]
    /\ at' = [at EXCEPT ![r] = @ + 1]
    /\ Goto(r, IF at[r] = Len(Order[r]) THEN "work" ELSE "create")
    /\ UNCHANGED <<seen>>

(* A write to a Lease name, which gets a version of its own. *)
Write(n, h) ==
    lease' = [lease EXCEPT ![n] = [holder |-> h, version |-> @.version + 1]]

TakeCreate(r) ==
    /\ pc[r] = "create"
    /\ \/ /\ lease[Want(r)].holder = NoRun
          /\ Write(Want(r), r)
          /\ Held(r)
       \/ /\ lease[Want(r)].holder # NoRun          \* AlreadyExists
          /\ Goto(r, "get")
          /\ UNCHANGED <<lease, at, seen, held>>
    /\ UNCHANGED <<run, recorded>>

TakeGet(r) ==
    /\ pc[r] = "get"
    /\ LET current == lease[Want(r)] IN
       \/ current.holder \in {NoRun, Foreign} /\ StopPass(r)
       \/ current.holder = r /\ Held(r)
       \/ /\ current.holder \in Runs \ {r}
          /\ seen' = [seen EXCEPT ![r] = current]
          /\ Goto(r, "alive")
          /\ UNCHANGED <<at, held>>
    /\ UNCHANGED <<lease, run, recorded>>

(* A slip that LockSpec catches: the holder is not looked at. *)
TakeAliveUnasked(r) ==
    /\ pc[r] = "alive"
    /\ Goto(r, "update")
    /\ UNCHANGED <<lease, run, recorded, at, seen, held>>

TakeAlive(r) ==
    /\ pc[r] = "alive"
    /\ \/ RunAlive(seen[r].holder) /\ StopPass(r)
       \/ /\ ~RunAlive(seen[r].holder)
          /\ Goto(r, "update")
          /\ UNCHANGED <<at, seen, held>>
    /\ UNCHANGED <<lease, run, recorded>>

(* A slip that MutualExclusion catches: the write carries no version. *)
TakeUpdateBlind(r) ==
    /\ pc[r] = "update"
    /\ Write(Want(r), r) /\ Held(r)
    /\ UNCHANGED <<run, recorded>>

TakeUpdate(r) ==
    /\ pc[r] = "update"
    /\ \/ lease[Want(r)] = seen[r] /\ Write(Want(r), r) /\ Held(r)
       \/ lease[Want(r)] # seen[r] /\ StopPass(r) /\ UNCHANGED lease   \* Conflict, NotFound
    /\ UNCHANGED <<run, recorded>>

-----------------------------------------------------------------------------
(* Release. *)

(* A slip that TypeOK catches: positions counted from zero. *)
BeginReleaseAtZero(r) ==
    /\ pc[r] \in {"idle", "work"} /\ RunAlive(r)
    /\ at' = [at EXCEPT ![r] = 0]
    /\ Goto(r, "releaseGet")
    /\ UNCHANGED <<lease, run, recorded, seen, held>>

(* The run ends: its work is done, or a pass finds it overdue, evicted or  *)
(* deleted before it asks for any Lease.                                   *)
BeginRelease(r) ==
    /\ pc[r] \in {"idle", "work"} /\ RunAlive(r)
    /\ at' = [at EXCEPT ![r] = 1]
    /\ Goto(r, "releaseGet")
    /\ UNCHANGED <<lease, run, recorded, seen, held>>

Giving(r) == recorded[r][at[r]]

(* A slip that LeasesComeBack catches: a Lease that is gone, or another    *)
(* holder's, is asked for until the run holds it.                          *)
ReleaseGetStrict(r) ==
    /\ pc[r] = "releaseGet" /\ at[r] <= Len(recorded[r])
    /\ lease[Giving(r)].holder = r
    /\ seen' = [seen EXCEPT ![r] = lease[Giving(r)]]
    /\ Goto(r, "releaseDelete")
    /\ UNCHANGED <<lease, run, recorded, at, held>>

ReleaseGet(r) ==
    /\ pc[r] = "releaseGet" /\ at[r] <= Len(recorded[r])
    /\ \/ /\ lease[Giving(r)].holder # r           \* gone, or another holder's
          /\ at' = [at EXCEPT ![r] = @ + 1]
          /\ UNCHANGED <<pc, seen>>
       \/ /\ lease[Giving(r)].holder = r
          /\ seen' = [seen EXCEPT ![r] = lease[Giving(r)]]
          /\ Goto(r, "releaseDelete")
          /\ UNCHANGED at
    /\ UNCHANGED <<lease, run, recorded, held>>

(* The delete carries the UID and the resourceVersion of the Get; a        *)
(* Conflict and a NotFound count as released.                              *)
ReleaseDelete(r) ==
    /\ pc[r] = "releaseDelete"
    /\ \/ lease[Giving(r)] = seen[r] /\ Write(Giving(r), NoRun)
       \/ lease[Giving(r)] # seen[r] /\ UNCHANGED lease
    /\ held' = [held EXCEPT ![r] = @ \ {Giving(r)}]
    /\ at' = [at EXCEPT ![r] = @ + 1]
    /\ Goto(r, "releaseGet")
    /\ UNCHANGED <<run, recorded, seen>>

(* finish writes the final phase, finalize drops the finalizer. *)
Close(r) ==
    /\ pc[r] = "releaseGet" /\ at[r] > Len(recorded[r])
    /\ \E phase \in {"finished", "gone"} : run' = [run EXCEPT ![r] = phase]
    /\ StopPass(r)
    /\ UNCHANGED <<lease, recorded>>

-----------------------------------------------------------------------------
(* The surroundings. *)

(* A run that disappears without finalize, for example because somebody    *)
(* removed its finalizer by hand while no pass of it was under way.        *)
Vanish(r) ==
    /\ pc[r] = "idle" /\ RunAlive(r)
    /\ run' = [run EXCEPT ![r] = "gone"]
    /\ UNCHANGED <<lease, recorded, passVars>>

(* Something else in the cluster makes or deletes a Lease of such a name. *)
Outsider(n) ==
    /\ \/ lease[n].holder = NoRun /\ lease[n].version < MaxVersion /\ Write(n, Foreign)
       \/ lease[n].holder = Foreign /\ Write(n, NoRun)
    /\ UNCHANGED <<run, recorded, passVars>>

Takes(r) == TakeCreate(r) \/ TakeGet(r) \/ TakeAlive(r) \/ TakeUpdate(r)
Releases(r) == ReleaseGet(r) \/ ReleaseDelete(r) \/ Close(r)

PassStep(r) ==
    \/ BeginHolding(r) \/ Record(r) \/ Takes(r) \/ EndPass(r)
    \/ BeginRelease(r) \/ Releases(r)

Next ==
    \/ \E r \in Runs : PassStep(r) \/ Fail(r) \/ Vanish(r)
    \/ \E n \in Names : Outsider(n)

Spec == Init /\ [][Next]_vars

-----------------------------------------------------------------------------
(* Properties. *)

TypeOK ==
    /\ lease \in [Names -> Lease]
    /\ run \in [Runs -> {"active", "finished", "gone"}]
    /\ recorded \in [Runs -> Seq(Names)]
    /\ pc \in [Runs -> Calls]
    /\ at \in [Runs -> Nat \ {0}]
    /\ seen \in [Runs -> Lease]
    /\ held \in [Runs -> SUBSET Names]

(* What a pass knows to hold is stored as its own: Take never reports a    *)
(* Lease as held that another run could take away while the pass works.    *)
HeldIsStored == \A r \in Runs : \A n \in held[r] : lease[n].holder = r

(* Two passes never work on the same object at once (README.md, "Two runs  *)
(* never act on the same claim, repository, Cluster or paused app at       *)
(* once"): Take, interleaved with takeovers of dead holders, failed calls, *)
(* crashes and releases, hands each Lease to one pass at a time.           *)
MutualExclusion == \A r, q \in Runs : r # q => held[r] \cap held[q] = {}

(* holding records a name before Take creates its Lease, so releaseAll     *)
(* finds every Lease of the run however often its passes were cut short:   *)
(* a run that finished left none behind.                                   *)
FinishedLeavesNoLease ==
    \A n \in Names : lease[n].holder \in Runs => run[lease[n].holder] # "finished"

(* The owner of a Lease name and the runs that need theirs, as the         *)
(* abstract lock sees them.                                                *)
Lock == INSTANCE LeaseLock WITH
            owner <- [n \in Names |-> lease[n].holder],
            live <- {r \in Runs : RunAlive(r)}

(* Take and Release implement the abstract lock: a live holder loses its   *)
(* Lease only through its own Release, a takeover happens only from a run  *)
(* that is gone or finished, and a foreign Lease is never written.         *)
LockSpec == Lock!Spec

-----------------------------------------------------------------------------
(* Fairness.  The work queue of controller-runtime delivers every          *)
(* unfinished run again and again, and a pass that has begun goes on to    *)
(* its next call.  A run's deadline passes, and every pass looks at the    *)
(* deadline before it asks for a Lease, so the run's end is tried again    *)
(* and again.  The API server answers again after every outage.            *)
CallFails == \E r \in Runs : Fail(r)
Ending(r) == BeginRelease(r) /\ pc[r] = "idle"

Fairness ==
    /\ <>[][~CallFails]_vars
    /\ \A r \in Runs :
         /\ WF_vars(Record(r) \/ Takes(r) \/ EndPass(r) \/ Releases(r))
         /\ SF_vars(Ending(r))

FairSpec == Spec /\ Fairness

(* No state of the Leases keeps a run from ending, and none stays with a   *)
(* run that ended by itself: from some moment on, each Lease is free,      *)
(* foreign, or left by a run that vanished without its finalizer.          *)
LeasesComeBack ==
    \A n \in Names : <>[](\/ lease[n].holder \notin Runs
                          \/ run[lease[n].holder] = "gone")
=============================================================================
