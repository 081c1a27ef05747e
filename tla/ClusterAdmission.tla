--------------------------- MODULE ClusterAdmission ---------------------------
(***************************************************************************)
(* The webhook of internal/bootstrap between Flux, which applies Clusters  *)
(* from git over and over, and the API server, which stores what the       *)
(* webhook let through: who may archive where, which new database may      *)
(* start empty, and that Flux is never shut out.                           *)
(*                                                                         *)
(* Each Cluster has a Kustomization of its own, which holds its            *)
(* ObjectStore too.  Flux dry-runs the whole set before it applies any of  *)
(* it.  The webhook reads the cluster and the object store in several      *)
(* calls, and the API server stores the Cluster after the last of them.    *)
(* Where a recovery stops is the matter of RestoreRun and Rebuild.         *)
(*                                                                         *)
(* A bucket and prefix are one value.  Careful leaves out what users may   *)
(* do to a prefix that a Cluster is just created with: creating another    *)
(* one, deleting or moving a Cluster that has the prefix, and moving one   *)
(* there.  The database of a Cluster deleted or moved before has left it.  *)
(***************************************************************************)
EXTENDS Naturals, FiniteSets

CONSTANTS
    Clusters,
    Prefixes,    \* where Clusters may archive
    Manifests,   \* what git may hold
    MaxFaults,   \* how many requests the webhook answers with an HTTP 500
    Careful,
    None

Methods == {"initdb", "recovery"}
Manifest == [prefix : Prefixes, boot : Methods, optOut : BOOLEAN, archives : BOOLEAN]

ASSUME ManifestsAssumption == Manifests \subseteq [Clusters -> Manifest]
ASSUME CarefulAssumption == Careful \in BOOLEAN /\ MaxFaults \in Nat

(* A Cluster as the API server has it, with one bootstrap method; ours: its *)
(* recovery is the webhook's, skip: cnpg.io/skipEmptyWalArchiveCheck.       *)
Stored ==
    [boot : {{m} : m \in Methods}, ours : BOOLEAN, skip : BOOLEAN, prefix : Prefixes, archives : BOOLEAN]

ASSUME NoneAssumption == None \notin Stored

VARIABLES
    git,        \* [Clusters -> Manifest]
    store,      \* the Clusters whose ObjectStore exists
    cluster,    \* [Clusters -> the stored Cluster, or None]
    instance,   \* [Clusters -> [pc, prefix, can]]: the database; can: the plugin archives
    archive,    \* [Prefixes -> "empty", "wal" or "base" (WAL and a base backup)]
    flux,       \* [Clusters -> [pc, run, recover]]: the Kustomization and its request;
                \* run: a RestoreRun waits, recover: the answer is a recovery
    waiting,    \* the Clusters that a RestoreRun deleted and waits for
    faults

vars == <<git, store, cluster, instance, archive, flux, waiting, faults>>

NoInstance == [pc |-> "none", prefix |-> None, can |-> FALSE]

Init ==
    /\ git \in Manifests
    /\ store = {} /\ waiting = {} /\ faults = 0
    /\ cluster = [c \in Clusters |-> None]
    /\ instance = [c \in Clusters |-> NoInstance]
    /\ archive \in [Prefixes -> {"empty", "wal", "base"}]
    /\ flux = [c \in Clusters |-> [pc |-> "idle", run |-> FALSE, recover |-> FALSE]]

(* The webhook is at work on a create, or has just answered. *)
Pending(c) == flux[c].pc \in {"holder", "run", "probe", "persist"}

Goto(c, pc) == flux' = [flux EXCEPT ![c] = [pc |-> pc, run |-> FALSE, recover |-> FALSE]]

-----------------------------------------------------------------------------
(* Updates. *)

(* Server-side apply: the manifest over what is stored. *)
Merged(c) ==
    [cluster[c] EXCEPT !.boot = @ \cup {git[c].boot}, !.prefix = git[c].prefix, !.archives = git[c].archives]

(* A slip that FluxGetsThrough catches: updates are let through. *)
KeepRecoveryNot(old, new) == new

(* keepRecovery *)
KeepRecovery(old, new) == IF old.ours THEN [new EXCEPT !.boot = @ \ {"initdb"}] ELSE new

(* CloudNativePG refuses two bootstrap methods. *)
Valid(cl) == Cardinality(cl.boot) = 1

(* Handle on a dry run: a create is allowed unread, an update is answered  *)
(* like any other.                                                         *)
DryRunAllowed(c) == cluster[c] # None => Valid(KeepRecovery(cluster[c], Merged(c)))

(* A user changes the archive in git, for the next pass of Flux. *)
Move(c) ==
    /\ flux[c].pc = "idle"
    /\ \E p \in Prefixes \ {git[c].prefix} : git' = [git EXCEPT ![c].prefix = p]
    /\ git' \in Manifests
    /\ UNCHANGED <<store, cluster, instance, archive, flux, waiting, faults>>

DryRun(c) ==
    /\ flux[c].pc = "idle" /\ DryRunAllowed(c)
    /\ Goto(c, "store")
    /\ UNCHANGED <<git, store, cluster, instance, archive, waiting, faults>>

ApplyStore(c) ==
    /\ flux[c].pc = "store"
    /\ store' = store \cup {c}
    /\ Goto(c, "cluster")
    /\ UNCHANGED <<git, cluster, instance, archive, waiting, faults>>

(* No Cluster is being created at a prefix that the update takes or leaves. *)
Undisturbing(c) ==
    \A d \in Clusters \ {c} :
        Pending(d) /\ cluster[c].prefix # git[c].prefix =>
            git[d].prefix \notin {cluster[c].prefix, git[c].prefix}

(* An update never comes to archiveHolder, whatever it changes. *)
Update(c) ==
    /\ flux[c].pc = "cluster" /\ cluster[c] # None /\ (Careful => Undisturbing(c))
    /\ IF Valid(KeepRecovery(cluster[c], Merged(c)))
       THEN /\ cluster' = [cluster EXCEPT ![c] = KeepRecovery(cluster[c], Merged(c))]
            /\ Goto(c, "applied")
       ELSE UNCHANGED cluster /\ Goto(c, "idle")
    /\ UNCHANGED <<git, store, instance, archive, waiting, faults>>

FluxAgain(c) ==
    /\ flux[c].pc = "applied"
    /\ Goto(c, "idle")
    /\ UNCHANGED <<git, store, cluster, instance, archive, waiting, faults>>

-----------------------------------------------------------------------------
(* Handle on a create. *)

(* Nothing else is created with the prefix, and no database that gave it   *)
(* up still archives there.                                                *)
Alone(c) ==
    \A d \in Clusters \ {c} :
        /\ Pending(d) => git[d].prefix # git[c].prefix
        /\ instance[d].prefix = git[c].prefix => cluster[d] # None /\ cluster[d].prefix = git[c].prefix

(* archivePath: the Cluster's ObjectStore can be read. *)
Located(c) == c \in store

(* InstanceLeft, Archiver and ResolveLocation. *)
Create(c) ==
    /\ flux[c].pc = "cluster" /\ cluster[c] = None /\ (Careful => Alone(c))
    /\ Goto(c, IF instance[c].pc # "none" THEN "idle"
               ELSE IF ~git[c].archives THEN "persist"
               ELSE IF ~Located(c) THEN "idle" ELSE "holder")
    /\ UNCHANGED <<git, store, cluster, instance, archive, waiting, faults>>

(* archiveHolder: the other Clusters that archive there. *)
Holders(c) ==
    {d \in Clusters \ {c} : /\ cluster[d] # None /\ Located(d)
                            /\ cluster[d].archives /\ cluster[d].prefix = git[c].prefix}

CheckHolder(c) ==
    /\ flux[c].pc = "holder"
    /\ Goto(c, IF Holders(c) = {} THEN "run" ELSE "idle")
    /\ UNCHANGED <<git, store, cluster, instance, archive, waiting, faults>>

(* waitingRun *)
FindRun(c) ==
    /\ flux[c].pc = "run"
    /\ flux' = [flux EXCEPT ![c].pc = "probe", ![c].run = c \in waiting]
    /\ UNCHANGED <<git, store, cluster, instance, archive, waiting, faults>>

(* The listings of the object store. *)
ArchiveEmpty(p) == archive[p] = "empty"
BaseBackups(p) == archive[p] = "base"

(* A slip that BackedUpFromTheStart catches: no base backup, no archive. *)
StartsEmptyUnbased(c) ==
    /\ ~BaseBackups(git[c].prefix)
    /\ git[c].optOut \/ (git[c].boot = "initdb" /\ ~flux[c].run)

(* optedOut and withoutBaseBackup. *)
StartsEmpty(c) ==
    /\ ArchiveEmpty(git[c].prefix)
    /\ git[c].optOut \/ (git[c].boot = "initdb" /\ ~flux[c].run)

(* A Cluster that declares its own recovery. *)
RecoversAsDeclared(c) == ~git[c].optOut /\ git[c].boot = "recovery" /\ ~flux[c].run

(* For the run that waits, or by itself. *)
Recovers(c) == ~git[c].optOut /\ git[c].boot = "initdb" /\ BaseBackups(git[c].prefix)

(* Everything else is refused, and so is a recovery to a base backup that  *)
(* the run names and the store no longer holds (recoveryFor).              *)
Probe(c) ==
    /\ flux[c].pc = "probe"
    /\ \/ (StartsEmpty(c) \/ RecoversAsDeclared(c)) /\ Goto(c, "persist")
       \/ Recovers(c) /\ flux' = [flux EXCEPT ![c].pc = "persist", ![c].recover = TRUE]
       \/ ~(StartsEmpty(c) \/ RecoversAsDeclared(c) \/ (Recovers(c) /\ ~flux[c].run)) /\ Goto(c, "idle")
    /\ UNCHANGED <<git, store, cluster, instance, archive, waiting, faults>>

(* A read of the cluster or of the object store fails. *)
FailRead(c) ==
    /\ faults < MaxFaults /\ faults' = faults + 1
    /\ flux[c].pc \in {"holder", "run", "probe"} \/ (flux[c].pc = "cluster" /\ cluster[c] = None)
    /\ Goto(c, "idle")
    /\ UNCHANGED <<git, store, cluster, instance, archive, waiting>>

(* A slip that TypeOK catches: recovery is set next to initdb. *)
SetRecoveryBeside(c) == [boot |-> Methods, ours |-> TRUE, skip |-> TRUE]

(* What the webhook makes of the manifest: setRecovery, or nothing. *)
SetRecovery(c) == [boot |-> {"recovery"}, ours |-> TRUE, skip |-> TRUE]
Unchanged(c) == [boot |-> {git[c].boot}, ours |-> FALSE, skip |-> FALSE]

(* The API server stores the Cluster, and its first instance starts.  The  *)
(* plugin archives into an empty prefix, or when told to skip the check.   *)
Persist(c) ==
    /\ flux[c].pc = "persist"
    /\ \E boot \in {IF flux[c].recover THEN SetRecovery(c) ELSE Unchanged(c)} :
         /\ cluster' = [cluster EXCEPT ![c] =
              [boot |-> boot.boot, ours |-> boot.ours, skip |-> boot.skip,
               prefix |-> git[c].prefix, archives |-> git[c].archives]]
         /\ instance' = [instance EXCEPT ![c] =
              [pc |-> "up", prefix |-> git[c].prefix,
               can |-> git[c].archives /\ (boot.skip \/ archive[git[c].prefix] = "empty")]]
    /\ waiting' = waiting \ {c}
    /\ Goto(c, "applied")
    /\ UNCHANGED <<git, store, archive, faults>>

-----------------------------------------------------------------------------
(* Databases and users. *)

ArchiveWAL(c) ==
    /\ instance[c].pc # "none" /\ instance[c].can /\ archive[instance[c].prefix] = "empty"
    /\ archive' = [archive EXCEPT ![instance[c].prefix] = "wal"]
    /\ UNCHANGED <<git, store, cluster, instance, flux, waiting, faults>>

BaseBackup(c) ==
    /\ instance[c].pc = "up" /\ instance[c].can /\ archive[instance[c].prefix] = "wal"
    /\ archive' = [archive EXCEPT ![instance[c].prefix] = "base"]
    /\ UNCHANGED <<git, store, cluster, instance, flux, waiting, faults>>

(* The database follows its Cluster to another prefix.  Whether the plugin *)
(* archives there depends on what it archived before.                      *)
Follow(c) ==
    /\ cluster[c] # None /\ instance[c].prefix # cluster[c].prefix
    /\ \E can \in {FALSE, cluster[c].archives} :
         instance' = [instance EXCEPT ![c].prefix = cluster[c].prefix, ![c].can = can]
    /\ UNCHANGED <<git, store, cluster, archive, flux, waiting, faults>>

(* Somebody deletes a Cluster, or a RestoreRun does and waits for it. *)
DeleteCluster(c) ==
    /\ cluster[c] # None
    /\ Careful => \A d \in Clusters : Pending(d) => git[d].prefix # instance[c].prefix
    /\ cluster' = [cluster EXCEPT ![c] = None]
    /\ instance' = [instance EXCEPT ![c].pc = "stopping"]
    /\ \/ UNCHANGED waiting
       \/ instance[c].can /\ archive[instance[c].prefix] = "base" /\ waiting' = waiting \cup {c}
    /\ UNCHANGED <<git, store, archive, flux, faults>>

(* Its pods and PVCs are gone. *)
InstanceGone(c) ==
    /\ instance[c].pc = "stopping"
    /\ instance' = [instance EXCEPT ![c] = NoInstance]
    /\ UNCHANGED <<git, store, cluster, archive, flux, waiting, faults>>

(* The RestoreRun times out. *)
RunEnds(c) ==
    /\ c \in waiting
    /\ waiting' = waiting \ {c}
    /\ UNCHANGED <<git, store, cluster, instance, archive, flux, faults>>

(* A user deletes everything under a prefix, as the refusals ask for. *)
Clear(p) ==
    /\ archive[p] # "empty" /\ \A c \in Clusters : instance[c].prefix # p
    /\ archive' = [archive EXCEPT ![p] = "empty"]
    /\ UNCHANGED <<git, store, cluster, instance, flux, waiting, faults>>

-----------------------------------------------------------------------------
FluxStep(c) ==
    \/ DryRun(c) \/ ApplyStore(c) \/ Update(c) \/ FluxAgain(c)
    \/ CheckHolder(c) \/ FindRun(c) \/ Probe(c) \/ Persist(c)

Next ==
    \/ \E c \in Clusters :
         \/ Move(c) \/ Follow(c)
         \/ FluxStep(c) \/ Create(c) \/ FailRead(c) \/ InstanceGone(c) \/ RunEnds(c)
         \/ ArchiveWAL(c) \/ BaseBackup(c) \/ DeleteCluster(c)
    \/ \E p \in Prefixes : Clear(p)

Spec == Init /\ [][Next]_vars

(* Flux tries again at every interval, also what Careful holds back, an    *)
(* instance shuts down or follows its Cluster, and a run that waits ends   *)
(* at its deadline.                                                        *)
FairSpec ==
    /\ Spec
    /\ \A c \in Clusters :
         /\ WF_vars(FluxStep(c)) /\ SF_vars(Create(c) \/ Update(c))
         /\ WF_vars(Follow(c)) /\ WF_vars(InstanceGone(c)) /\ WF_vars(RunEnds(c))

-----------------------------------------------------------------------------
(* Properties. *)

TypeOK ==
    /\ git \in Manifests /\ store \subseteq Clusters /\ waiting \subseteq Clusters /\ faults \in 0..MaxFaults
    /\ cluster \in [Clusters -> {None} \cup Stored]
    /\ instance \in [Clusters -> {NoInstance} \cup [pc : {"up", "stopping"}, prefix : Prefixes, can : BOOLEAN]]
    /\ archive \in [Prefixes -> {"empty", "wal", "base"}]
    /\ flux \in [Clusters -> [pc : {"idle", "store", "cluster", "holder", "run", "probe", "persist", "applied"},
                              run : BOOLEAN, recover : BOOLEAN]]

(* "Two Clusters never archive into the same bucket and prefix"            *)
(* (README.md:54): archiveHolder looks before the API server stores the    *)
(* Cluster, so two creates that overlap can both pass, and updates, which  *)
(* may take a prefix too, do not come to it at all.                        *)
OneArchiveEach ==
    \A c, d \in store :
        /\ c # d /\ cluster[c] # None /\ cluster[d] # None
        /\ cluster[c].archives /\ cluster[d].archives
        => cluster[c].prefix # cluster[d].prefix

(* Every new database that the webhook decided on can be backed up, so     *)
(* none starts empty beside a full archive (webhook.go:300-302): at the    *)
(* moment it is stored, not at that of the listing, its prefix is empty or *)
(* it recovers from it.                                                    *)
BackedUpFromTheStart ==
    [][\A c \in Clusters :
         cluster[c] = None /\ cluster'[c] # None /\ git[c].archives
            /\ (git[c].boot = "initdb" \/ git[c].optOut)
         => instance'[c].can]_vars

(* What the refusals of docs/automatic-restore.md leave to the user. *)
Refused(c) ==
    /\ cluster[c] = None
    /\ \/ Holders(c) # {}
       \/ git[c].optOut /\ archive[git[c].prefix] # "empty"
       \/ git[c].boot = "initdb" /\ archive[git[c].prefix] = "wal"

(* Flux is never shut out: neither by the dry run before the ObjectStore   *)
(* exists, nor by the recovery that the webhook put in the place of the    *)
(* manifest's initdb, nor by an instance that shuts down or a RestoreRun   *)
(* that waits (webhook.go:134-141, 535-542).  It applies the set again and *)
(* again, unless a user has to act.                                        *)
FluxGetsThrough == \A c \in Clusters : []<>(flux[c].pc = "applied" \/ Refused(c))

=============================================================================
