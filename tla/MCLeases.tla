------------------------------- MODULE MCLeases -------------------------------
(***************************************************************************)
(* A namespace that holds the Cluster db.  Three runs contend: a BackupRun *)
(* of everything, which pauses the app, a BackupRun of the Cluster alone,  *)
(* and a RestoreRun of the Cluster that pauses the app too.                *)
(***************************************************************************)
EXTENDS Leases, LeaseNames

CONSTANTS backupAll, backupDb, restoreDb

items == <<DatabaseItem("db")>>

MCOrder ==
    [r \in Runs |->
        CASE r = backupAll -> BackupLeaseNames(TRUE, items)
          [] r = backupDb -> BackupLeaseNames(FALSE, items)
          [] r = restoreDb -> RestoreLeaseNames(TRUE, items)]

MCNames == UNION {Range(MCOrder[r]) : r \in Runs}
=============================================================================
