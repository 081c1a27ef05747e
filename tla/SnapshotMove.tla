----------------------------- MODULE SnapshotMove -----------------------------
(***************************************************************************)
(* What Retime of internal/restic promises to a BackupRun, with nothing of *)
(* how it works: a snapshot is moved to the run's moment in one step,      *)
(* nobody but retention takes one away, and the run reports only what      *)
(* Retime answered for a snapshot that had been moved.                     *)
(***************************************************************************)
EXTENDS Naturals

CONSTANT Trees      \* what the snapshots of the repository hold

VARIABLES
    shown,       \* [Trees -> what a listing of the repository offers of the tree]
    forgotten,   \* the trees of which retention has taken a snapshot
    item,        \* [phase, tree]: the volume item of the BackupRun
    answered     \* Retime has its answer, and the run has not stored it yet

vars == <<shown, forgotten, item, answered>>

Init ==
    /\ shown \in [Trees -> {"none", "plain"}]
    /\ forgotten = {}
    /\ item = [phase |-> "none", tree |-> 0]
    /\ answered = FALSE

(* A backup stores a snapshot. *)
Save(t) ==
    /\ shown[t] = "none" /\ t \notin forgotten
    /\ shown' = [shown EXCEPT ![t] = "plain"]
    /\ UNCHANGED <<forgotten, item, answered>>

(* A run writes down which snapshot is its own. *)
Track(t) ==
    /\ item.phase # "moving"
    /\ item' = [phase |-> "moving", tree |-> t]
    /\ UNCHANGED <<shown, forgotten, answered>>

Move ==
    /\ item.phase = "moving" /\ shown[item.tree] = "plain"
    /\ shown' = [shown EXCEPT ![item.tree] = "moved"]
    /\ UNCHANGED <<forgotten, item, answered>>

Answer ==
    /\ item.phase = "moving" /\ shown[item.tree] = "moved" /\ ~answered
    /\ answered' = TRUE
    /\ UNCHANGED <<shown, forgotten, item>>

(* The process dies, or a call after the move fails. *)
Lose ==
    /\ answered
    /\ answered' = FALSE
    /\ UNCHANGED <<shown, forgotten, item>>

Report ==
    /\ answered
    /\ answered' = FALSE
    /\ item' = [item EXCEPT !.phase = "done"]
    /\ UNCHANGED <<shown, forgotten>>

(* The run ends without its item. *)
Abandon ==
    /\ item.phase = "moving" /\ ~answered
    /\ item' = [item EXCEPT !.phase = "ended"]
    /\ UNCHANGED <<shown, forgotten, answered>>

(* Retention takes a snapshot of the tree; there may be another one. *)
Forget(t) ==
    /\ forgotten' = forgotten \cup {t}
    /\ \/ shown[t] # "none" /\ shown' = [shown EXCEPT ![t] = "none"]
       \/ shown[t] = "moved" /\ shown' = [shown EXCEPT ![t] = "plain"]
       \/ shown[t] # "none" /\ UNCHANGED shown
    /\ UNCHANGED <<item, answered>>

Next ==
    \/ \E t \in Trees : Save(t) \/ Track(t) \/ Forget(t)
    \/ Move \/ Answer \/ Lose \/ Report \/ Abandon

Spec == Init /\ [][Next]_vars

=============================================================================
