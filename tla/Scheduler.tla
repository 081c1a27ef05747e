------------------------------ MODULE Scheduler ------------------------------
(***************************************************************************)
(* The schedule of one namespace: Scheduler.Reconcile of                   *)
(* internal/runs/schedule.go.                                              *)
(*                                                                         *)
(* The scheduler keeps no state.  It finds the last tick it served in the  *)
(* labels of the BackupRuns, which it lists from an informer cache that    *)
(* lags behind the API server, and creates a run named after the tick in a *)
(* second call.  Between the two, and between two passes, runs finish and  *)
(* expire, users start runs of their own, claims are marked, and the       *)
(* controller restarts with and without --pause.                           *)
(***************************************************************************)
EXTENDS Naturals, FiniteSetsExt

CONSTANTS
    Ticks,     \* the ticks of the cron schedule within the horizon
    Horizon,   \* bound on the clock
    TTL,       \* spec.ttlSecondsAfterFinished of a scheduled run
    MaxLag,    \* what the scheduler works from is at most this old
    NoTick

ASSUME TicksAssumption == Ticks \subseteq 1 .. Horizon /\ NoTick \notin Nat
ASSUME TimesAssumption == Horizon \in Nat /\ TTL \in Nat /\ MaxLag \in Nat

VARIABLES
    now,       \* the time; the namespace was created at 0
    runs,      \* [Ticks -> run]: the BackupRun scheduled-<tick>, in the API server
    view,      \* the same as the cache has it
    lag,       \* since when the cache, or the list of the pass, may be old
    made,      \* [Ticks -> Nat]: how often the run of a tick was created
    due,       \* the tick that the pass under way decided to run, or NoTick
    manual,    \* a run with spec.all that a user created is unfinished
    seen,      \* the same as the cache has it
    marked,    \* something in the namespace is marked backup.wlz.li/enabled
    paused     \* the controller runs with --pause

vars == <<now, runs, view, lag, made, due, manual, seen, marked, paused>>

NoRun == [state |-> "none", born |-> 0, ended |-> 0]

(* A run just created, and the same run when it ended. *)
NewRun == [state |-> "unfinished", born |-> now, ended |-> 0]
Ended(run, at) == [state |-> "finished", born |-> run.born, ended |-> at]

Init ==
    /\ now = 0
    /\ runs = [t \in Ticks |-> NoRun]
    /\ view = runs
    /\ lag = 0
    /\ made = [t \in Ticks |-> 0]
    /\ due = NoTick
    /\ manual = FALSE
    /\ seen = FALSE
    /\ marked \in BOOLEAN
    /\ paused \in BOOLEAN

-----------------------------------------------------------------------------
(* The newest tick with a run, or the namespace's creation. *)
Baseline == Max({0} \cup {t \in Ticks : view[t].state # "none"})

Passed == {t \in Ticks : Baseline < t /\ t <= now}

(* A slip that EveryTickIsServed catches: a tick is run at its time only. *)
DuePunctual == IF now \in Passed THEN now ELSE NoTick

(* A slip that Forward catches: the missed ticks are made up for, newest   *)
(* first.                                                                  *)
DueMissed ==
    LET missed == {t \in Ticks : t <= now /\ view[t].state = "none"}
    IN IF missed = {} THEN NoTick ELSE Max(missed)

(* The ticks missed give one run, for the newest of them. *)
DueTick == IF Passed = {} THEN NoTick ELSE Max(Passed)

Unfinished == seen \/ \E t \in Ticks : view[t].state = "unfinished"

(* A slip that OneAtATime catches: an unfinished run does not hold it back. *)
ReconcileEagerly ==
    /\ due = NoTick
    /\ due' = IF ~paused /\ marked THEN DueTick ELSE NoTick
    /\ UNCHANGED <<now, runs, view, lag, made, manual, seen, marked, paused>>

(* Reconcile lists the runs and decides. *)
Reconcile ==
    /\ due = NoTick
    /\ due' = IF ~paused /\ ~Unfinished /\ marked THEN DueTick ELSE NoTick
    /\ UNCHANGED <<now, runs, view, lag, made, manual, seen, marked, paused>>

(* A slip that OnceEach catches: the name does not come from the tick. *)
CreateAnother ==
    /\ due # NoTick
    /\ runs' = [runs EXCEPT ![due] = NewRun]
    /\ made' = [made EXCEPT ![due] = @ + 1]
    /\ due' = NoTick
    /\ UNCHANGED <<now, view, lag, manual, seen, marked, paused>>

(* create; AlreadyExists counts as success. *)
Create ==
    /\ due # NoTick
    /\ IF runs[due].state = "none"
       THEN /\ runs' = [runs EXCEPT ![due] = NewRun]
            /\ made' = [made EXCEPT ![due] = @ + 1]
       ELSE UNCHANGED <<runs, made>>
    /\ due' = NoTick
    /\ UNCHANGED <<now, view, lag, manual, seen, marked, paused>>

(* The create fails, or the controller restarts before it. *)
Fail ==
    /\ due # NoTick
    /\ due' = NoTick
    /\ UNCHANGED <<now, runs, view, lag, made, manual, seen, marked, paused>>

-----------------------------------------------------------------------------
(* The surroundings. *)

(* A slip that TypeOK catches: the expiry is recorded as the end. *)
FinishAtExpiry(t) ==
    /\ runs[t].state = "unfinished"
    /\ runs' = [runs EXCEPT ![t] = Ended(runs[t], now + TTL)]
    /\ UNCHANGED <<now, view, lag, made, due, manual, seen, marked, paused>>

(* The BackupRun controller finishes a run, and expire deletes it. *)
Finish(t) ==
    /\ runs[t].state = "unfinished"
    /\ runs' = [runs EXCEPT ![t] = Ended(runs[t], now)]
    /\ UNCHANGED <<now, view, lag, made, due, manual, seen, marked, paused>>

Expire(t) ==
    /\ runs[t].state = "finished" /\ now >= runs[t].ended + TTL
    /\ runs' = [runs EXCEPT ![t] = NoRun]
    /\ UNCHANGED <<now, view, lag, made, due, manual, seen, marked, paused>>

(* The cache catches up.  A pass under way still works from its list. *)
Observe ==
    /\ view # runs \/ seen # manual
    /\ view' = runs /\ seen' = manual
    /\ lag' = IF due = NoTick THEN 0 ELSE lag
    /\ UNCHANGED <<now, runs, made, due, manual, marked, paused>>

User ==
    /\ \/ manual' = ~manual /\ UNCHANGED <<marked, paused>>
       \/ marked' = TRUE /\ UNCHANGED <<manual, paused>>
       \/ paused' = ~paused /\ due = NoTick /\ UNCHANGED <<manual, marked>>
    /\ UNCHANGED <<now, runs, view, lag, made, due, seen>>

(* Time passes, ticks come, at any point of a pass and whatever the cache  *)
(* lacks, while neither the cache nor the list of the pass is older than   *)
(* MaxLag.                                                                 *)
Elapse ==
    /\ now < Horizon
    /\ now' = now + 1
    /\ lag' = IF view = runs /\ seen = manual /\ due = NoTick THEN 0 ELSE lag + 1
    /\ lag' <= MaxLag
    /\ UNCHANGED <<runs, view, made, due, manual, seen, marked, paused>>

Next ==
    \/ Reconcile \/ Create \/ Fail
    \/ \E t \in Ticks : Finish(t) \/ Expire(t)
    \/ Observe \/ User \/ Elapse

Spec == Init /\ [][Next]_vars

-----------------------------------------------------------------------------
(* Properties. *)

TypeOK ==
    /\ now \in 0 .. Horizon
    /\ runs \in [Ticks -> [state : {"none", "unfinished", "finished"},
                           born : 0 .. now, ended : 0 .. now]]
    /\ view \in [Ticks -> [state : {"none", "unfinished", "finished"},
                           born : 0 .. now, ended : 0 .. now]]
    /\ lag \in 0 .. MaxLag
    /\ made \in [Ticks -> Nat]
    /\ due \in Ticks \cup {NoTick}
    /\ manual \in BOOLEAN /\ seen \in BOOLEAN /\ marked \in BOOLEAN /\ paused \in BOOLEAN

(* "Only one namespace backup runs at a time" (schedule.go:161), which the *)
(* code keeps but for the lag of its cache: a second scheduled run starts  *)
(* next to an unfinished one only if its tick came before the cache had to *)
(* show that one.  Within the lag the sentence is false.                   *)
OneAtATime == \A t, u \in Ticks :
    t < u /\ runs[t].state = "unfinished" /\ runs[u].state = "unfinished" =>
        u <= runs[t].born + MaxLag

(* "Because the name comes from the tick, a second reconcile for the same  *)
(* tick gets AlreadyExists" (schedule.go:229-231), for as long as the run  *)
(* exists: a tick is backed up once, however often it is reconciled and    *)
(* whatever the cache shows, if the next tick comes before the run may     *)
(* expire and be forgotten.  A tick that no other follows in that time is  *)
(* run again: the sentence holds for no schedule sparser than the TTL.     *)
OnceEach == \A t \in Ticks :
    made[t] > 1 => \A u \in Ticks : u > t => u + MaxLag > t + TTL

(* A pass never goes back: the run it creates is for no older tick than    *)
(* any run created before, through lag, expiry and restarts.               *)
Forward ==
    [][\A t \in Ticks : made'[t] > made[t] => \A u \in Ticks : made[u] > 0 => u <= t]_vars

-----------------------------------------------------------------------------
(* Fairness.  Every pass asks for a requeue within five minutes, and a     *)
(* changed run requeues the namespace; the cache follows; a run ends       *)
(* (StartedRunsEnd of BackupRun, and Kueue admits it some day).  The       *)
(* schedule is looked at while the cache shows no user's run in the way    *)
(* and the controller is not paused, again and again.  Nothing is assumed  *)
(* of the clock.                                                           *)
Ready == ~seen /\ ~paused /\ marked

Fairness ==
    /\ WF_vars(Observe) /\ SF_vars(Create)
    /\ \A t \in Ticks : WF_vars(Finish(t))
    /\ SF_vars(Reconcile /\ Ready /\ due' # NoTick)

FairSpec == Spec /\ Fairness

(* "Several ticks passed while the controller was down or paused: one run, *)
(* for the newest tick" (docs/backups.md): every tick is followed by a run *)
(* for it or for a newer one, if the schedule is looked at at all.         *)
EveryTickIsServed ==
    []<>Ready => \A t \in Ticks : <>(now >= t) => <>(\E u \in Ticks : u >= t /\ made[u] > 0)
=============================================================================
