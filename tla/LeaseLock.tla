------------------------------ MODULE LeaseLock ------------------------------
(***************************************************************************)
(* What the Leases of internal/lease promise to the runs, without the API  *)
(* calls: every guarded object has at most one owner, an owner that is     *)
(* still alive loses the object only by giving it up, and an owner that is *)
(* gone or finished is succeeded by whichever live run asks next.          *)
(***************************************************************************)

CONSTANTS
    Runs,     \* the BackupRuns and RestoreRuns of a namespace, one per UID
    Names,    \* the names of the Leases
    NoRun,    \* the owner of an object that nobody holds
    Foreign   \* an owner that is not a run of this controller

VARIABLES
    owner,    \* [Names -> who holds the Lease]
    live      \* the runs that exist and have not finished

vars == <<owner, live>>

Init ==
    /\ owner = [n \in Names |-> NoRun]
    /\ live = Runs

(* A live run takes an object nobody holds. *)
Acquire(r, n) ==
    /\ r \in live
    /\ owner[n] = NoRun
    /\ owner' = [owner EXCEPT ![n] = r]
    /\ UNCHANGED live

(* A live run succeeds a run that is gone or finished. *)
Inherit(r, n) ==
    /\ r \in live
    /\ owner[n] \in Runs \ live
    /\ owner' = [owner EXCEPT ![n] = r]
    /\ UNCHANGED live

(* The owner, still alive, gives the object up. *)
GiveUp(r, n) ==
    /\ r \in live
    /\ owner[n] = r
    /\ owner' = [owner EXCEPT ![n] = NoRun]
    /\ UNCHANGED live

(* A run finishes or is deleted. *)
End(r) ==
    /\ r \in live
    /\ live' = live \ {r}
    /\ UNCHANGED owner

(* Something outside the controller makes or removes a Lease of its own. *)
Outside(n) ==
    /\ \/ owner[n] = NoRun /\ owner' = [owner EXCEPT ![n] = Foreign]
       \/ owner[n] = Foreign /\ owner' = [owner EXCEPT ![n] = NoRun]
    /\ UNCHANGED live

Next ==
    \/ \E r \in Runs, n \in Names : Acquire(r, n) \/ Inherit(r, n) \/ GiveUp(r, n)
    \/ \E r \in Runs : End(r)
    \/ \E n \in Names : Outside(n)

Spec == Init /\ [][Next]_vars
==============================================================================
