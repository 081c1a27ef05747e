------------------------------ MODULE LeaseNames ------------------------------
(***************************************************************************)
(* The Leases a run needs and the order it takes them in: leaseNames of    *)
(* internal/runs/backuprun.go and of internal/runs/restorerun.go.          *)
(***************************************************************************)
EXTENDS Sequences, SequencesExt

(* The prefixes of internal/lease/lease.go keep the names of the guarded   *)
(* objects apart.                                                          *)
ClaimLease(claim) == <<"backup-claim-", claim>>
RepositoryLease(secret) == <<"backup-repository-", secret>>
ClusterLease(cluster) == <<"backup-cluster-", cluster>>
PauseLease == <<"backup-pause", "">>

(* One item of status.items.  A claim whose VolumeRestore is gone has no   *)
(* repository.                                                             *)
VolumeItem(claim, secret) == [kind |-> "volume", name |-> claim, repository |-> secret]
DatabaseItem(cluster) == [kind |-> "Cluster", name |-> cluster, repository |-> ""]

ItemLeases(item) ==
    IF item.kind = "Cluster"
    THEN <<ClusterLease(item.name)>>
    ELSE <<ClaimLease(item.name)>>
         \o IF item.repository = "" THEN <<>> ELSE <<RepositoryLease(item.repository)>>

PauseFirst(pauses) == IF pauses THEN <<PauseLease>> ELSE <<>>

(* A BackupRun pauses when spec.all is set. *)
BackupLeaseNames(all, items) ==
    PauseFirst(all) \o FlattenSeq([i \in 1 .. Len(items) |-> ItemLeases(items[i])])

(* A RestoreRun pauses when spec.pauseDuringRestore lists a workload.  Its *)
(* volume items name the repository that sourceRepository resolves: the    *)
(* claim's own one, or that of spec.claim or spec.repository for an into   *)
(* restore.                                                                *)
RestoreLeaseNames(pauses, items) ==
    PauseFirst(pauses) \o FlattenSeq([i \in 1 .. Len(items) |-> ItemLeases(items[i])])
=============================================================================
