------------------------ MODULE ClusterAdmissionProofs ------------------------
(***************************************************************************)
(* Proofs about ClusterAdmission, for any Clusters, prefixes, manifests    *)
(* and number of failed requests.                                          *)
(*                                                                         *)
(* The listing of the archive is out of date when the API server stores    *)
(* the Cluster.  With Careful it still holds: no Cluster took the prefix   *)
(* since archiveHolder looked, by a create or by an update; and no         *)
(* instance can have written there, since an instance with that prefix     *)
(* belongs to a stored Cluster that has it, which archiveHolder would have *)
(* found.                                                                  *)
(***************************************************************************)
EXTENDS ClusterAdmission, FiniteSetTheorems, TLAPS

(* A stored Cluster has its ObjectStore and a running instance.  Git moves *)
(* a Cluster, and does not change whether it archives.                     *)
StoredInv ==
    \A c \in Clusters :
        /\ cluster[c] # None =>
              /\ cluster[c].archives = git[c].archives
              /\ c \in store
              /\ instance[c].pc = "up"
        /\ instance[c].can => instance[c].pc # "none" /\ git[c].archives

(* A create is at work for a Cluster with an ObjectStore and no instance. *)
PendingInv ==
    \A c \in Clusters :
        /\ flux[c].pc = "cluster" => c \in store
        /\ Pending(c) => c \in store /\ instance[c].pc = "none"

IInv == TypeOK /\ StoredInv /\ PendingInv

(* One create at a time for a prefix. *)
OneCreate ==
    \A c, d \in Clusters : Pending(c) /\ Pending(d) /\ git[c].prefix = git[d].prefix => c = d

(* Instances with the prefix of the new Cluster belong to stored Clusters  *)
(* that have it.                                                           *)
NoStranger ==
    \A c, d \in Clusters :
        Pending(c) /\ c # d /\ instance[d].pc # "none" /\ instance[d].prefix = git[c].prefix
        => cluster[d] # None /\ cluster[d].prefix = git[c].prefix

(* What archiveHolder found stays so. *)
NoHolder ==
    \A c, d \in Clusters :
        /\ flux[c].pc \in {"run", "probe", "persist"} /\ git[c].archives
        /\ c # d /\ cluster[d] # None /\ git[d].archives
        => cluster[d].prefix # git[c].prefix

(* What the listing of the archive found stays so. *)
StillEmpty ==
    \A c \in Clusters :
        /\ flux[c].pc = "persist" /\ ~flux[c].recover /\ git[c].archives
        /\ git[c].boot = "initdb" \/ git[c].optOut
        => archive[git[c].prefix] = "empty"

CarefulInv == OneCreate /\ NoStranger /\ NoHolder /\ StillEmpty

-----------------------------------------------------------------------------
Request ==
    [pc : {"idle", "store", "cluster", "holder", "run", "probe", "persist", "applied"},
     run : BOOLEAN, recover : BOOLEAN]

(* A step that only moves the request of one Kustomization on. *)
Moved(c) ==
    /\ \E f \in Request : flux' = [flux EXCEPT ![c] = f]
    /\ UNCHANGED <<git, cluster, instance, archive, waiting>>
    /\ store \subseteq store' /\ store' \in SUBSET Clusters /\ faults' \in 0 .. MaxFaults

LEMMA GotoMoves ==
    ASSUME NEW c \in Clusters,
           NEW pc \in {"idle", "store", "cluster", "holder", "run", "probe", "persist", "applied"},
           Goto(c, pc)
    PROVE  \E f \in Request : flux' = [flux EXCEPT ![c] = f]
<1>1. [pc |-> pc, run |-> FALSE, recover |-> FALSE] \in Request
  BY DEF Request
<1> QED
  BY <1>1 DEF Goto

(* Dry runs, reads and refusals. *)
LEMMA RequestMoves ==
    ASSUME TypeOK, NEW c \in Clusters,
           \/ DryRun(c) \/ ApplyStore(c) \/ FluxAgain(c) \/ Create(c) \/ CheckHolder(c)
           \/ FindRun(c) \/ Probe(c) \/ FailRead(c)
    PROVE  Moved(c)
<1> USE CarefulAssumption
<1>1. CASE DryRun(c)
  BY <1>1, GotoMoves DEF DryRun, Moved, TypeOK
<1>2. CASE ApplyStore(c)
  BY <1>2, GotoMoves DEF ApplyStore, Moved, TypeOK
<1>3. CASE FluxAgain(c)
  BY <1>3, GotoMoves DEF FluxAgain, Moved, TypeOK
<1>4. CASE Create(c)
  BY <1>4, GotoMoves DEF Create, Moved, TypeOK
<1>5. CASE CheckHolder(c)
  BY <1>5, GotoMoves DEF CheckHolder, Moved, TypeOK
<1>6. CASE FindRun(c)
  <2> DEFINE run == c \in waiting
  <2>0. run \in BOOLEAN
    OBVIOUS
  <2> HIDE DEF run
  <2>1. [flux[c] EXCEPT !.pc = "probe", !.run = run] \in Request
    BY <2>0 DEF TypeOK, Request
  <2>2. flux' = [flux EXCEPT ![c] = [flux[c] EXCEPT !.pc = "probe", !.run = run]]
    BY <1>6 DEF FindRun, TypeOK, run
  <2>3. store \subseteq store' /\ store' \in SUBSET Clusters /\ faults' \in 0 .. MaxFaults
    BY <1>6 DEF FindRun, TypeOK
  <2> QED
    BY <1>6, <2>1, <2>2, <2>3, Zenon DEF FindRun, Moved
<1>7. CASE Probe(c)
  <2>1. CASE \E pc \in {"persist", "idle"} : Goto(c, pc)
    BY <1>7, <2>1, GotoMoves DEF Probe, Moved, TypeOK
  <2>2. CASE flux' = [flux EXCEPT ![c].pc = "persist", ![c].recover = TRUE]
    <3>1. [flux[c] EXCEPT !.pc = "persist", !.recover = TRUE] \in Request
      BY DEF TypeOK, Request
    <3>2. flux' = [flux EXCEPT ![c] = [flux[c] EXCEPT !.pc = "persist", !.recover = TRUE]]
      BY <2>2 DEF TypeOK
    <3>3. store \subseteq store' /\ store' \in SUBSET Clusters /\ faults' \in 0 .. MaxFaults
      BY <1>7 DEF Probe, TypeOK
    <3> QED
      BY <1>7, <3>1, <3>2, <3>3, Zenon DEF Probe, Moved
  <2> QED
    BY <1>7, <2>1, <2>2 DEF Probe
<1>8. CASE FailRead(c)
  BY <1>8, GotoMoves DEF FailRead, Moved, TypeOK
<1> QED
  BY <1>1, <1>2, <1>3, <1>4, <1>5, <1>6, <1>7, <1>8

(* CloudNativePG lets one method through. *)
LEMMA OneMethod ==
    ASSUME NEW cl, cl.boot \subseteq Methods, Valid(cl)
    PROVE  cl.boot \in {{m} : m \in Methods}
<1>1. IsFiniteSet(Methods)
  <2>1. IsFiniteSet({"initdb"}) /\ IsFiniteSet({"recovery"})
    BY FS_Singleton
  <2>2. Methods = {"initdb"} \cup {"recovery"}
    BY DEF Methods
  <2> QED
    BY <2>1, <2>2, FS_Union
<1>2. IsFiniteSet(cl.boot)
  BY <1>1, FS_Subset
<1>3. \E m : cl.boot = {m}
  BY <1>2, FS_Singleton DEF Valid
<1> QED
  BY <1>3

(* Git moves one Cluster and changes nothing else. *)
LEMMA MovesPrefix ==
    ASSUME TypeOK, NEW c \in Clusters, Move(c)
    PROVE  /\ \A d \in Clusters \ {c} : git'[d] = git[d]
           /\ git'[c].archives = git[c].archives /\ git'[c].boot = git[c].boot
           /\ git'[c].optOut = git[c].optOut
<1>1. git \in [Clusters -> Manifest]
  BY ManifestsAssumption DEF TypeOK
<1>2. PICK p \in Prefixes : git' = [git EXCEPT ![c].prefix = p]
  BY DEF Move
<1> QED
  BY <1>1, <1>2 DEF Manifest

(* What an update makes of a stored Cluster. *)
LEMMA UpdateStores ==
    ASSUME TypeOK, NEW c \in Clusters, cluster[c] # None, Valid(KeepRecovery(cluster[c], Merged(c)))
    PROVE  /\ KeepRecovery(cluster[c], Merged(c)) \in Stored
           /\ KeepRecovery(cluster[c], Merged(c)).prefix = git[c].prefix
           /\ KeepRecovery(cluster[c], Merged(c)).archives = git[c].archives
<1> DEFINE old == cluster[c]
           new == KeepRecovery(cluster[c], Merged(c))
<1>1. old \in Stored /\ git[c] \in Manifest
  BY ManifestsAssumption DEF TypeOK, Stored
<1>2. Merged(c) = [boot |-> old.boot \cup {git[c].boot}, ours |-> old.ours, skip |-> old.skip,
                   prefix |-> git[c].prefix, archives |-> git[c].archives]
  <2>1. Merged(c) \in [boot : {old.boot \cup {git[c].boot}}, ours : {old.ours}, skip : {old.skip},
                       prefix : {git[c].prefix}, archives : {git[c].archives}]
    BY <1>1 DEF Merged, Stored
  <2> QED
    BY <2>1
<1>3. PICK boot \in {old.boot \cup {git[c].boot}, (old.boot \cup {git[c].boot}) \ {"initdb"}} :
        new = [boot |-> boot, ours |-> old.ours, skip |-> old.skip, prefix |-> git[c].prefix,
               archives |-> git[c].archives]
  BY <1>2 DEF KeepRecovery
<1>4. boot \in {{m} : m \in Methods}
  <2>1. old.boot \subseteq Methods /\ git[c].boot \in Methods
    BY <1>1 DEF Stored, Manifest
  <2>2. new.boot \subseteq Methods
    BY <1>3, <2>1
  <2>3. new.boot = boot
    BY <1>3
  <2> HIDE DEF new
  <2> QED
    BY <2>2, <2>3, OneMethod DEF new
<1> HIDE DEF new
<1> QED
  BY <1>1, <1>3, <1>4 DEF Stored, Manifest, new

(* What the API server stores on a create, and the instance that starts. *)
LEMMA PersistStores ==
    ASSUME TypeOK, NEW c \in Clusters, Persist(c)
    PROVE  /\ \E cl \in Stored :
                /\ cl.prefix = git[c].prefix /\ cl.archives = git[c].archives
                /\ cluster' = [cluster EXCEPT ![c] = cl]
           /\ \E can \in BOOLEAN :
                /\ can = (git[c].archives /\ (flux[c].recover \/ archive[git[c].prefix] = "empty"))
                /\ instance' = [instance EXCEPT ![c] = [pc |-> "up", prefix |-> git[c].prefix, can |-> can]]
<1>1. git[c] \in Manifest
  BY ManifestsAssumption DEF TypeOK
<1> DEFINE b == IF flux[c].recover THEN SetRecovery(c) ELSE Unchanged(c)
           cl == [boot |-> b.boot, ours |-> b.ours, skip |-> b.skip, prefix |-> git[c].prefix,
                  archives |-> git[c].archives]
           can == git[c].archives /\ (b.skip \/ archive[git[c].prefix] = "empty")
<1>2. /\ cluster' = [cluster EXCEPT ![c] = cl]
      /\ instance' = [instance EXCEPT ![c] = [pc |-> "up", prefix |-> git[c].prefix, can |-> can]]
  BY Zenon DEF Persist
<1>3. b \in [boot : {{m} : m \in Methods}, ours : BOOLEAN, skip : BOOLEAN] /\ b.skip = flux[c].recover
  <2>1. flux[c].recover \in BOOLEAN
    BY DEF TypeOK
  <2>2. CASE flux[c].recover
    BY <2>1, <2>2 DEF SetRecovery, Methods
  <2>3. CASE ~flux[c].recover
    BY <1>1, <2>1, <2>3 DEF Unchanged, Manifest
  <2> QED
    BY <2>2, <2>3
<1>4. cl \in Stored
  BY <1>1, <1>3 DEF Stored, Manifest
<1>5. can \in BOOLEAN /\ can = (git[c].archives /\ (flux[c].recover \/ archive[git[c].prefix] = "empty"))
  BY <1>3
<1> QED
  BY <1>2, <1>4, <1>5

(* What holds of a request after each of these steps. *)
LEMMA RequestSteps ==
    ASSUME TypeOK, NEW c \in Clusters,
           \/ DryRun(c) \/ ApplyStore(c) \/ FluxAgain(c) \/ Create(c) \/ CheckHolder(c)
           \/ FindRun(c) \/ Probe(c) \/ FailRead(c)
    PROVE  /\ flux'[c].pc = "cluster" => c \in store'
           /\ Pending(c)' =>
                 \/ Pending(c)
                 \/ flux[c].pc = "cluster" /\ instance[c].pc = "none" /\ (Careful => Alone(c))
           /\ flux'[c].pc \in {"run", "probe", "persist"} /\ git[c].archives =>
                 flux[c].pc \in {"run", "probe"} \/ Holders(c) = {}
           /\ /\ flux'[c].pc = "persist" /\ ~flux'[c].recover /\ git[c].archives
              /\ git[c].boot = "initdb" \/ git[c].optOut
              => archive[git[c].prefix] = "empty"
<1> USE DEF Pending, Request
<1>0. /\ DOMAIN flux = Clusters /\ git[c] \in Manifest
      /\ flux[c] \in Request
  BY ManifestsAssumption DEF TypeOK, Request
<1>1. CASE DryRun(c)
  BY <1>0, <1>1 DEF DryRun, Goto
<1>2. CASE ApplyStore(c)
  BY <1>0, <1>2 DEF ApplyStore, Goto
<1>3. CASE FluxAgain(c)
  BY <1>0, <1>3 DEF FluxAgain, Goto
<1>4. CASE Create(c)
  BY <1>0, <1>4 DEF Create, Goto
<1>5. CASE CheckHolder(c)
  BY <1>0, <1>5 DEF CheckHolder, Goto
<1>6. CASE FindRun(c)
  BY <1>0, <1>6 DEF FindRun
<1>7. CASE Probe(c)
  <2>1. CASE (StartsEmpty(c) \/ RecoversAsDeclared(c)) /\ Goto(c, "persist")
    BY <1>0, <1>7, <2>1 DEF Probe, Goto, StartsEmpty, ArchiveEmpty, RecoversAsDeclared, Manifest
  <2>2. CASE flux' = [flux EXCEPT ![c].pc = "persist", ![c].recover = TRUE]
    BY <1>0, <1>7, <2>2 DEF Probe
  <2>3. CASE Goto(c, "idle")
    BY <1>0, <1>7, <2>3 DEF Probe, Goto
  <2> QED
    BY <1>7, <2>1, <2>2, <2>3 DEF Probe
<1>8. CASE FailRead(c)
  BY <1>0, <1>8 DEF FailRead, Goto
<1> QED
  BY <1>1, <1>2, <1>3, <1>4, <1>5, <1>6, <1>7, <1>8

-----------------------------------------------------------------------------
(* The next-state relation by what its steps change. *)
LEMMA NextCases ==
    ASSUME TypeOK, [Next]_vars
    PROVE  \/ \E c \in Clusters : Moved(c) /\ (\/ DryRun(c) \/ ApplyStore(c) \/ FluxAgain(c) \/ Create(c)
                                               \/ CheckHolder(c) \/ FindRun(c) \/ Probe(c) \/ FailRead(c))
           \/ \E c \in Clusters : Move(c)
           \/ \E c \in Clusters : Update(c)
           \/ \E c \in Clusters : Persist(c)
           \/ \E c \in Clusters : Follow(c)
           \/ \E c \in Clusters : ArchiveWAL(c)
           \/ \E c \in Clusters : BaseBackup(c)
           \/ \E c \in Clusters : DeleteCluster(c)
           \/ \E c \in Clusters : InstanceGone(c)
           \/ \E c \in Clusters : RunEnds(c)
           \/ \E p \in Prefixes : Clear(p)
           \/ UNCHANGED vars
BY RequestMoves DEF Next, FluxStep

LEMMA InitInv == Init => IInv
<1> SUFFICES ASSUME Init PROVE IInv
  OBVIOUS
<1>1. TypeOK
  BY CarefulAssumption DEF Init, TypeOK
<1>2. StoredInv /\ PendingInv
  BY DEF Init, NoInstance, StoredInv, PendingInv, Pending
<1> QED
  BY <1>1, <1>2 DEF IInv

LEMMA NextType == TypeOK /\ StoredInv /\ [Next]_vars => TypeOK'
<1> SUFFICES ASSUME TypeOK, StoredInv, [Next]_vars PROVE TypeOK'
  OBVIOUS
<1>1. ASSUME NEW c \in Clusters, Moved(c) PROVE TypeOK'
  BY <1>1 DEF Moved, TypeOK, Request
<1>2. ASSUME NEW c \in Clusters, Update(c) PROVE TypeOK'
  <2>1. cluster' \in [Clusters -> {None} \cup Stored]
    BY ZenonT(60), <1>2, UpdateStores DEF Update, TypeOK, Stored
  <2>2. flux' \in [Clusters -> Request]
    BY <1>2, GotoMoves DEF Update, TypeOK, Request
  <2> QED
    BY <1>2, <2>1, <2>2 DEF Update, TypeOK, Stored, Request
<1>3. ASSUME NEW c \in Clusters, Persist(c) PROVE TypeOK'
  <2>0. git[c].prefix \in Prefixes
    BY ManifestsAssumption DEF TypeOK, Manifest
  <2>1. cluster' \in [Clusters -> {None} \cup Stored]
    BY <1>3, PersistStores DEF TypeOK, Stored
  <2>2. instance' \in [Clusters -> {NoInstance} \cup [pc : {"up", "stopping"}, prefix : Prefixes, can : BOOLEAN]]
    BY <1>3, <2>0, PersistStores DEF TypeOK
  <2>3. flux' \in [Clusters -> Request]
    BY <1>3, GotoMoves DEF Persist, TypeOK, Request
  <2> QED
    BY <1>3, <2>1, <2>2, <2>3 DEF Persist, TypeOK, Stored, Request
<1>4. ASSUME NEW c \in Clusters, ArchiveWAL(c) PROVE TypeOK'
  BY <1>4 DEF ArchiveWAL, TypeOK
<1>5. ASSUME NEW c \in Clusters, BaseBackup(c) PROVE TypeOK'
  BY <1>5 DEF BaseBackup, TypeOK
<1>6. ASSUME NEW c \in Clusters, DeleteCluster(c) PROVE TypeOK'
  <2>1. instance[c] \in [pc : {"up", "stopping"}, prefix : Prefixes, can : BOOLEAN]
    BY <1>6 DEF DeleteCluster, StoredInv, TypeOK, NoInstance
  <2> QED
    BY <1>6, <2>1 DEF DeleteCluster, TypeOK
<1>11. ASSUME NEW c \in Clusters, Move(c) PROVE TypeOK'
  BY <1>11 DEF Move, TypeOK
<1>12. ASSUME NEW c \in Clusters, Follow(c) PROVE TypeOK'
  <2>1. instance[c] \in [pc : {"up", "stopping"}, prefix : Prefixes, can : BOOLEAN]
    BY <1>12 DEF Follow, StoredInv, TypeOK, NoInstance
  <2>2. cluster[c].prefix \in Prefixes /\ cluster[c].archives \in BOOLEAN
    BY <1>12 DEF Follow, TypeOK, Stored
  <2>3. PICK can \in BOOLEAN :
          instance' = [instance EXCEPT ![c] = [instance[c] EXCEPT !.prefix = cluster[c].prefix, !.can = can]]
    BY <1>12, <2>2 DEF Follow, TypeOK
  <2>4. [instance[c] EXCEPT !.prefix = cluster[c].prefix, !.can = can] \in
           [pc : {"up", "stopping"}, prefix : Prefixes, can : BOOLEAN]
    BY <2>1, <2>2
  <2>5. instance' \in [Clusters -> {NoInstance} \cup [pc : {"up", "stopping"}, prefix : Prefixes, can : BOOLEAN]]
    BY <2>3, <2>4 DEF TypeOK
  <2> QED
    BY <1>12, <2>5 DEF Follow, TypeOK
<1>7. ASSUME NEW c \in Clusters, InstanceGone(c) PROVE TypeOK'
  BY <1>7 DEF InstanceGone, TypeOK
<1>8. ASSUME NEW c \in Clusters, RunEnds(c) PROVE TypeOK'
  BY <1>8 DEF RunEnds, TypeOK
<1>9. ASSUME NEW p \in Prefixes, Clear(p) PROVE TypeOK'
  BY <1>9 DEF Clear, TypeOK
<1>10. CASE UNCHANGED vars
  BY <1>10 DEF vars, TypeOK
<1> QED
  BY NextCases, <1>1, <1>2, <1>3, <1>4, <1>5, <1>6, <1>7, <1>8, <1>9, <1>10, <1>11, <1>12

LEMMA NextStored == IInv /\ [Next]_vars => StoredInv'
<1> SUFFICES ASSUME TypeOK, StoredInv, PendingInv, [Next]_vars PROVE StoredInv'
  BY DEF IInv
<1> USE DEF StoredInv
<1>1. ASSUME NEW c \in Clusters, Moved(c) PROVE StoredInv'
  BY <1>1 DEF Moved
<1>2. ASSUME NEW c \in Clusters, Update(c) PROVE StoredInv'
  BY <1>2, UpdateStores DEF Update, TypeOK
<1>3. ASSUME NEW c \in Clusters, Persist(c) PROVE StoredInv'
  <2>1. c \in store
    BY <1>3 DEF Persist, PendingInv, Pending
  <2>2. PICK cl \in Stored : /\ cl.prefix = git[c].prefix /\ cl.archives = git[c].archives
                             /\ cluster' = [cluster EXCEPT ![c] = cl]
    BY <1>3, PersistStores
  <2>3. PICK can \in BOOLEAN :
          /\ can => git[c].archives
          /\ instance' = [instance EXCEPT ![c] = [pc |-> "up", prefix |-> git[c].prefix, can |-> can]]
    BY <1>3, PersistStores, Zenon
  <2>4. git' = git /\ store' = store
    BY <1>3 DEF Persist
  <2> QED
    BY <2>1, <2>2, <2>3, <2>4 DEF TypeOK
<1>4. ASSUME NEW c \in Clusters, DeleteCluster(c) PROVE StoredInv'
  <2>1. instance'[c] = [instance[c] EXCEPT !.pc = "stopping"] /\ instance[c].pc = "up"
    BY <1>4 DEF DeleteCluster, TypeOK
  <2>2. instance'[c].prefix = instance[c].prefix /\ instance'[c].can = instance[c].can
    BY <2>1 DEF TypeOK, NoInstance
  <2> QED
    BY <1>4, <2>1, <2>2 DEF DeleteCluster, TypeOK
<1>7. ASSUME NEW c \in Clusters, Move(c) PROVE StoredInv'
  <2>1. \A d \in Clusters : git'[d].archives = git[d].archives
    BY <1>7, MovesPrefix
  <2> QED
    BY <1>7, <2>1 DEF Move
<1>8. ASSUME NEW c \in Clusters, Follow(c) PROVE StoredInv'
  <2>1. instance[c].pc = "up" /\ cluster[c].archives = git[c].archives /\ UNCHANGED <<git, store, cluster>>
    BY <1>8 DEF Follow
  <2>2. PICK can \in {FALSE, cluster[c].archives} :
          instance' = [instance EXCEPT ![c].prefix = cluster[c].prefix, ![c].can = can]
    BY <1>8 DEF Follow
  <2>3. instance[c] \in [pc : {"up", "stopping"}, prefix : Prefixes, can : BOOLEAN]
    BY <2>1 DEF TypeOK, NoInstance
  <2>4. instance'[c].pc = "up" /\ instance'[c].can = can /\ \A d \in Clusters \ {c} : instance'[d] = instance[d]
    BY <2>1, <2>2, <2>3 DEF TypeOK
  <2> QED
    BY <2>1, <2>4
<1>5. ASSUME NEW c \in Clusters, InstanceGone(c) PROVE StoredInv'
  BY <1>5 DEF InstanceGone, NoInstance, TypeOK
<1>6. ASSUME UNCHANGED <<git, store, cluster, instance>> PROVE StoredInv'
  BY <1>6
<1> QED
  BY NextCases, <1>1, <1>2, <1>3, <1>4, <1>5, <1>6, <1>7, <1>8 DEF ArchiveWAL, BaseBackup, RunEnds, Clear, vars

LEMMA NextPending == IInv /\ [Next]_vars => PendingInv'
<1> SUFFICES ASSUME TypeOK, StoredInv, PendingInv, [Next]_vars PROVE PendingInv'
  BY DEF IInv
<1> USE DEF PendingInv, Pending
<1>1. ASSUME NEW c \in Clusters, Moved(c),
             \/ DryRun(c) \/ ApplyStore(c) \/ FluxAgain(c) \/ Create(c)
             \/ CheckHolder(c) \/ FindRun(c) \/ Probe(c) \/ FailRead(c)
      PROVE  PendingInv'
  <2>1. \A d \in Clusters \ {c} : flux'[d] = flux[d]
    BY <1>1 DEF Moved, TypeOK
  <2> QED
    BY <1>1, <2>1, RequestSteps DEF Moved
<1>2. ASSUME NEW c \in Clusters, Update(c) PROVE PendingInv'
  BY <1>2 DEF Update, Goto, TypeOK
<1>3. ASSUME NEW c \in Clusters, Persist(c) PROVE PendingInv'
  BY <1>3, PersistStores DEF Persist, Goto, TypeOK
<1>4. ASSUME NEW c \in Clusters, DeleteCluster(c) PROVE PendingInv'
  BY <1>4 DEF DeleteCluster, StoredInv, TypeOK
<1>5. ASSUME NEW c \in Clusters, InstanceGone(c) PROVE PendingInv'
  BY <1>5 DEF InstanceGone, NoInstance, TypeOK
<1>6. ASSUME UNCHANGED <<store, instance, flux>> PROVE PendingInv'
  BY <1>6
<1>7. ASSUME NEW c \in Clusters, Follow(c) PROVE PendingInv'
  <2>1. \A d \in Clusters : instance'[d].pc = instance[d].pc
    BY <1>7 DEF Follow, TypeOK, NoInstance
  <2> QED
    BY <1>7, <2>1 DEF Follow
<1> QED
  BY NextCases, <1>1, <1>2, <1>3, <1>4, <1>5, <1>6, <1>7 DEF Move, ArchiveWAL, BaseBackup, RunEnds, Clear, vars

LEMMA Invariant == Spec => []IInv
<1>1. IInv /\ [Next]_vars => IInv'
  BY NextType, NextStored, NextPending DEF IInv
<1> QED
  BY InitInv, <1>1, PTL DEF Spec

(* The state keeps its types whatever git holds; in particular, every      *)
(* stored Cluster has one bootstrap method, through setRecovery, updates   *)
(* and keepRecovery.                                                       *)
THEOREM TypeCorrect == Spec => []TypeOK
<1>1. IInv => TypeOK
  BY DEF IInv
<1> QED
  BY <1>1, Invariant, PTL

-----------------------------------------------------------------------------
LEMMA InitCareful == Init => CarefulInv
BY DEF Init, CarefulInv, OneCreate, NoStranger, NoHolder, StillEmpty, Pending

(* The reads of the webhook. *)
LEMMA RequestCareful ==
    ASSUME Careful, IInv, CarefulInv, NEW c \in Clusters, Moved(c),
           \/ DryRun(c) \/ ApplyStore(c) \/ FluxAgain(c) \/ Create(c)
           \/ CheckHolder(c) \/ FindRun(c) \/ Probe(c) \/ FailRead(c)
    PROVE  CarefulInv'
<1> USE DEF IInv, CarefulInv
<1>1. UNCHANGED <<git, cluster, instance, archive>> /\ \A d \in Clusters \ {c} : flux'[d] = flux[d]
  BY DEF Moved, TypeOK
<1>2. Pending(c)' => Pending(c) \/ Alone(c)
  BY RequestSteps
<1>3. \A d \in Clusters \ {c} : Pending(d)' <=> Pending(d)
  BY <1>1 DEF Pending
<1>4. OneCreate'
  BY <1>1, <1>2, <1>3 DEF OneCreate, Alone
<1>5. NoStranger'
  BY <1>1, <1>2, <1>3 DEF NoStranger, Alone
<1>6. NoHolder'
  <2>1. flux'[c].pc \in {"run", "probe", "persist"} /\ git[c].archives =>
           flux[c].pc \in {"run", "probe"} \/ Holders(c) = {}
    BY RequestSteps
  <2>2. ASSUME Holders(c) = {}, NEW d \in Clusters, c # d, cluster[d] # None, git[d].archives
        PROVE  cluster[d].prefix # git[c].prefix
    BY <2>2 DEF Holders, Located, StoredInv
  <2> QED
    BY <1>1, <2>1, <2>2 DEF NoHolder
<1>7. StillEmpty'
  BY <1>1, RequestSteps DEF StillEmpty
<1> QED
  BY <1>4, <1>5, <1>6, <1>7

(* A Cluster is stored at a prefix where no other create is under way. *)
LEMMA PersistCareful ==
    ASSUME Careful, IInv, CarefulInv, NEW c \in Clusters, Persist(c)
    PROVE  CarefulInv'
<1> USE DEF IInv, CarefulInv
<1>1. PICK cl \in Stored : /\ cl.prefix = git[c].prefix /\ cl.archives = git[c].archives
                           /\ cluster' = [cluster EXCEPT ![c] = cl]
  BY PersistStores
<1>2. UNCHANGED <<git, store, archive>> /\ Goto(c, "applied") /\ flux[c].pc = "persist"
  BY DEF Persist
<1>3. PICK can \in BOOLEAN :
        instance' = [instance EXCEPT ![c] = [pc |-> "up", prefix |-> git[c].prefix, can |-> can]]
  BY PersistStores, Zenon
<1>4. ~Pending(c)' /\ flux'[c].pc # "persist" /\ \A d \in Clusters \ {c} : flux'[d] = flux[d]
  BY <1>2 DEF Goto, Pending, TypeOK
<1>5. \A d \in Clusters : Pending(d)' => Pending(d) /\ d # c
  BY <1>4 DEF Pending
<1>6. /\ cluster'[c] # None /\ cluster'[c].prefix = git[c].prefix /\ instance'[c].prefix = git[c].prefix
      /\ \A d \in Clusters \ {c} : cluster'[d] = cluster[d] /\ instance'[d] = instance[d]
  BY <1>1, <1>3, NoneAssumption DEF TypeOK
<1>7. \A d \in Clusters : Pending(d)' => git[d].prefix # git[c].prefix
  BY <1>2, <1>5 DEF OneCreate, Pending
<1>8. OneCreate'
  BY <1>2, <1>5 DEF OneCreate
<1>9. NoStranger'
  BY <1>2, <1>5, <1>6 DEF NoStranger
<1>10. NoHolder'
  <2> SUFFICES ASSUME NEW d \in Clusters, NEW e \in Clusters,
                      flux'[d].pc \in {"run", "probe", "persist"}, git[d].archives,
                      d # e, cluster'[e] # None, git[e].archives
               PROVE  cluster'[e].prefix # git[d].prefix
    BY <1>2 DEF NoHolder
  <2>1. Pending(d)' /\ d # c /\ flux'[d] = flux[d]
    BY <1>4, <1>5 DEF Pending
  <2> QED
    BY <1>6, <1>7, <2>1 DEF NoHolder
<1>11. StillEmpty'
  BY <1>2, <1>4 DEF StillEmpty
<1> QED
  BY <1>8, <1>9, <1>10, <1>11

(* An update takes and leaves no prefix where a create is under way. *)
LEMMA UpdateCareful ==
    ASSUME Careful, IInv, CarefulInv, NEW c \in Clusters, Update(c)
    PROVE  CarefulInv'
<1> USE DEF IInv, CarefulInv
<1>1. UNCHANGED <<git, store, instance, archive>> /\ ~Pending(c)' /\ flux'[c].pc \in {"applied", "idle"}
  BY DEF Update, Goto, Pending, TypeOK
<1>2. \A d \in Clusters \ {c} : flux'[d] = flux[d] /\ cluster'[d] = cluster[d]
  BY DEF Update, Goto, TypeOK
<1>3. \A d \in Clusters : Pending(d)' => Pending(d) /\ d # c
  BY <1>1, <1>2 DEF Pending
<1>4. cluster[c] # None /\ cluster'[c] # None
  BY UpdateStores, NoneAssumption DEF Update, TypeOK
<1>5. cluster'[c].prefix \in {cluster[c].prefix, git[c].prefix}
  BY UpdateStores DEF Update, TypeOK
<1>6. ASSUME NEW d \in Clusters, Pending(d), d # c, git[d].prefix \in {cluster[c].prefix, cluster'[c].prefix}
      PROVE  cluster'[c].prefix = cluster[c].prefix
  BY <1>5, <1>6 DEF Update, Undisturbing
<1>7. OneCreate'
  BY <1>1, <1>3 DEF OneCreate
<1>8. NoStranger'
  BY <1>1, <1>2, <1>3, <1>4, <1>6 DEF NoStranger
<1>9. NoHolder'
  <2> SUFFICES ASSUME NEW d \in Clusters, NEW e \in Clusters,
                      flux'[d].pc \in {"run", "probe", "persist"}, git[d].archives,
                      d # e, cluster'[e] # None, git[e].archives
               PROVE  cluster'[e].prefix # git[d].prefix
    BY <1>1 DEF NoHolder
  <2>1. d # c /\ flux'[d] = flux[d] /\ Pending(d)
    BY <1>1, <1>2, <1>3 DEF Pending
  <2>2. CASE e = c
    BY <1>4, <1>6, <2>1, <2>2 DEF NoHolder
  <2>3. CASE e # c
    BY <1>2, <2>1, <2>3 DEF NoHolder
  <2> QED
    BY <2>2, <2>3
<1>10. StillEmpty'
  BY <1>1, <1>2 DEF StillEmpty
<1> QED
  BY <1>7, <1>8, <1>9, <1>10

(* No WAL reaches the prefix of a Cluster between the listing and the      *)
(* moment it is stored.                                                    *)
LEMMA ArchiveCareful ==
    ASSUME Careful, IInv, CarefulInv, NEW c \in Clusters, ArchiveWAL(c)
    PROVE  StillEmpty'
<1> USE DEF IInv, CarefulInv
<1> SUFFICES ASSUME NEW d \in Clusters, flux[d].pc = "persist", ~flux[d].recover, git[d].archives,
                    git[d].boot = "initdb" \/ git[d].optOut
             PROVE  git[d].prefix # instance[c].prefix
  <2>1. archive' = [archive EXCEPT ![instance[c].prefix] = "wal"] /\ UNCHANGED <<git, flux>>
    BY DEF ArchiveWAL
  <2>2. \A d \in Clusters : git[d].prefix \in Prefixes
    BY ManifestsAssumption DEF TypeOK, Manifest
  <2> QED
    BY <2>1, <2>2 DEF StillEmpty, TypeOK
<1>1. Pending(d) /\ instance[d].pc = "none"
  BY DEF Pending, PendingInv
<1>2. instance[c].pc # "none" /\ git[c].archives
  BY DEF ArchiveWAL, StoredInv
<1>3. c # d
  BY <1>1, <1>2
<1> QED
  BY <1>1, <1>2, <1>3 DEF NoHolder, NoStranger

LEMMA NextCareful ==
    ASSUME Careful, IInv, CarefulInv, [Next]_vars
    PROVE  CarefulInv'
<1>0. TypeOK /\ StoredInv /\ PendingInv /\ \A c \in Clusters : git[c].prefix \in Prefixes
  BY ManifestsAssumption DEF IInv, TypeOK, Manifest
<1> USE DEF CarefulInv
<1>1. ASSUME NEW c \in Clusters, Move(c) PROVE CarefulInv'
  <2>1. UNCHANGED <<cluster, instance, archive, flux>> /\ flux[c].pc = "idle"
    BY <1>1 DEF Move
  <2>2. \A d \in Clusters : Pending(d)' <=> Pending(d)
    BY <2>1 DEF Pending
  <2>3. ~Pending(c) /\ \A d \in Clusters : Pending(d) => git'[d] = git[d]
    BY <1>0, <1>1, <2>1, MovesPrefix DEF Pending
  <2>4. \A d \in Clusters : git'[d].archives = git[d].archives
    BY <1>0, <1>1, MovesPrefix
  <2>5. OneCreate' /\ NoStranger'
    BY <2>1, <2>2, <2>3 DEF OneCreate, NoStranger
  <2>6. \A d \in Clusters : flux[d].pc \in {"run", "probe", "persist"} => Pending(d)
    BY DEF Pending
  <2>7. NoHolder' /\ StillEmpty'
    BY <2>1, <2>3, <2>4, <2>6 DEF NoHolder, StillEmpty
  <2> QED
    BY <2>5, <2>7
<1>2. ASSUME NEW c \in Clusters, ArchiveWAL(c) PROVE CarefulInv'
  <2>1. UNCHANGED <<git, store, cluster, instance, flux>>
    BY <1>2 DEF ArchiveWAL
  <2>2. OneCreate' /\ NoStranger' /\ NoHolder'
    BY <2>1 DEF OneCreate, NoStranger, NoHolder, Pending
  <2> QED
    BY <1>2, <2>2, ArchiveCareful
<1>3. ASSUME UNCHANGED <<git, store, cluster, instance, flux>>,
             \A p \in Prefixes : archive[p] = "empty" => archive'[p] = "empty"
      PROVE  CarefulInv'
  BY <1>0, <1>3 DEF OneCreate, NoStranger, NoHolder, StillEmpty, Pending
<1>4. ASSUME NEW c \in Clusters, BaseBackup(c) PROVE CarefulInv'
  <2>1. \A p \in Prefixes : archive[p] = "empty" => archive'[p] = "empty"
    BY <1>0, <1>4 DEF BaseBackup, TypeOK
  <2> QED
    BY <1>3, <1>4, <2>1 DEF BaseBackup
<1>5. ASSUME NEW c \in Clusters, DeleteCluster(c) PROVE CarefulInv'
  <2>1. UNCHANGED <<git, store, archive, flux>> /\ cluster' = [cluster EXCEPT ![c] = None]
    BY <1>5 DEF DeleteCluster
  <2>2. \A d \in Clusters : Pending(d)' <=> Pending(d)
    BY <2>1 DEF Pending
  <2>3. \A d \in Clusters \ {c} : cluster'[d] = cluster[d] /\ instance'[d] = instance[d]
    BY <1>0, <1>5 DEF DeleteCluster, TypeOK
  <2>4. \A d \in Clusters : Pending(d) => git[d].prefix # instance[c].prefix
    BY <1>5 DEF DeleteCluster
  <2>5. cluster'[c] = None /\ instance'[c].prefix = instance[c].prefix
    BY <1>0, <1>5, <2>1 DEF DeleteCluster, TypeOK, NoInstance
  <2>6. OneCreate' /\ NoStranger'
    BY <2>1, <2>2, <2>3, <2>4, <2>5 DEF OneCreate, NoStranger
  <2>7. NoHolder' /\ StillEmpty'
    BY <1>0, <2>1, <2>3, <2>5 DEF NoHolder, StillEmpty
  <2> QED
    BY <2>6, <2>7
<1>6. ASSUME NEW c \in Clusters, Follow(c) PROVE CarefulInv'
  <2>1. UNCHANGED <<git, store, cluster, archive, flux>> /\ cluster[c] # None
    BY <1>6 DEF Follow
  <2>2. PICK can : instance' = [instance EXCEPT ![c].prefix = cluster[c].prefix, ![c].can = can]
    BY <1>6 DEF Follow
  <2>3. instance[c] \in [pc : {"up", "stopping"}, prefix : Prefixes, can : BOOLEAN]
    BY <1>0, <2>1 DEF StoredInv, TypeOK, NoInstance
  <2>4. instance'[c].prefix = cluster[c].prefix /\ \A d \in Clusters \ {c} : instance'[d] = instance[d]
    BY <1>0, <2>2, <2>3 DEF TypeOK
  <2> QED
    BY <2>1, <2>4 DEF OneCreate, NoStranger, NoHolder, StillEmpty, Pending
<1>7. ASSUME NEW c \in Clusters, InstanceGone(c) PROVE CarefulInv'
  <2>1. UNCHANGED <<git, store, cluster, archive, flux>>
    BY <1>7 DEF InstanceGone
  <2>2. \A d \in Clusters : instance'[d].pc # "none" => instance'[d] = instance[d]
    BY <1>0, <1>7 DEF InstanceGone, NoInstance, TypeOK
  <2> QED
    BY <2>1, <2>2 DEF OneCreate, NoStranger, NoHolder, StillEmpty, Pending
<1>8. ASSUME NEW c \in Clusters, RunEnds(c) PROVE CarefulInv'
  BY <1>3, <1>8 DEF RunEnds
<1>9. ASSUME NEW p \in Prefixes, Clear(p) PROVE CarefulInv'
  <2>1. \A q \in Prefixes : archive[q] = "empty" => archive'[q] = "empty"
    BY <1>0, <1>9 DEF Clear, TypeOK
  <2> QED
    BY <1>3, <1>9, <2>1 DEF Clear
<1>10. CASE UNCHANGED vars
  BY <1>3, <1>10 DEF vars
<1> HIDE DEF CarefulInv
<1> QED
  BY <1>0, NextCases, RequestCareful, PersistCareful, UpdateCareful,
     <1>1, <1>2, <1>4, <1>5, <1>6, <1>7, <1>8, <1>9, <1>10

LEMMA CarefulInvariant == Careful /\ Spec => []CarefulInv
<1> SUFFICES ASSUME Careful PROVE Spec => []CarefulInv
  OBVIOUS
<1>1. IInv /\ CarefulInv /\ [Next]_vars => CarefulInv'
  BY NextCareful
<1> QED
  BY <1>1, InitCareful, Invariant, PTL DEF Spec

(* While nobody creates, deletes or moves another Cluster at a prefix that *)
(* one is being created with, a new database that Handle decided on can    *)
(* archive from its first moment, although the listing of its archive is   *)
(* older than the stored Cluster, and although the updates that take a     *)
(* prefix never come to archiveHolder.                                     *)
THEOREM NewDatabaseCanArchive == Careful /\ Spec => BackedUpFromTheStart
<1> SUFFICES ASSUME Careful PROVE Spec => BackedUpFromTheStart
  OBVIOUS
<1> DEFINE Step ==
      \A c \in Clusters :
         cluster[c] = None /\ cluster'[c] # None /\ git[c].archives
            /\ (git[c].boot = "initdb" \/ git[c].optOut)
         => instance'[c].can
<1>1. IInv /\ CarefulInv /\ [Next]_vars => [Step]_vars
  <2> SUFFICES ASSUME IInv, CarefulInv, Next, NEW c \in Clusters,
                      cluster[c] = None, cluster'[c] # None, git[c].archives,
                      git[c].boot = "initdb" \/ git[c].optOut
               PROVE  instance'[c].can
    OBVIOUS
  <2>1. Persist(c)
    <3>1. TypeOK
      BY DEF IInv
    <3>2. ~\E d \in Clusters : Moved(d)
      BY DEF Moved
    <3>3. ~\E d \in Clusters : Update(d)
      BY <3>1 DEF Update, TypeOK
    <3>4. ~\E d \in Clusters : DeleteCluster(d)
      BY <3>1 DEF DeleteCluster, TypeOK
    <3>5. cluster' # cluster
      OBVIOUS
    <3>6. PICK d \in Clusters : Persist(d)
      BY <3>1, <3>2, <3>3, <3>4, <3>5, NextCases DEF Move, Follow, ArchiveWAL, BaseBackup, InstanceGone, RunEnds, Clear, vars
    <3> QED
      BY <3>1, <3>6, PersistStores DEF TypeOK
  <2>2. flux[c].recover \/ archive[git[c].prefix] = "empty"
    BY <2>1 DEF Persist, CarefulInv, StillEmpty
  <2> QED
    BY <2>1, <2>2, PersistStores DEF IInv, TypeOK
<1> QED
  BY <1>1, Invariant, CarefulInvariant, PTL DEF Spec, BackedUpFromTheStart
=============================================================================
