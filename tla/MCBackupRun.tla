----------------------------- MODULE MCBackupRun -----------------------------
(***************************************************************************)
(* A namespace with one claim, one Cluster and one marked workload, and    *)
(* two BackupRuns of everything in it, which a schedule or users create.   *)
(***************************************************************************)
EXTENDS BackupRun, TLC

CONSTANTS data, db, r1, r2

MCNamed == [r \in Runs \ All |-> data]

(* The usual namespace, and departures from it. *)
usual == [marked |-> TRUE, suspended |-> FALSE, asleep |-> {}, blank |-> {}]

MCApps ==
    {usual, [usual EXCEPT !.marked = FALSE], [usual EXCEPT !.suspended = TRUE, !.asleep = {db}],
     [usual EXCEPT !.blank = {data}]}

Symmetry == Permutations({r1, r2})
=============================================================================
