--------------------------- MODULE SchedulerProofs ---------------------------
(***************************************************************************)
(* Proofs about Scheduler, for any ticks, horizon, TTL and lag.            *)
(*                                                                         *)
(* A pass that sees no unfinished run misses only runs younger than its    *)
(* list, so its tick, which has come, is within MaxLag of their creation.  *)
(* A pass decides for the newest tick that has come when its list is       *)
(* taken, and every tick that was run has come: so it never goes back, and *)
(* it runs a tick again only if no later tick came, but for the age of its *)
(* list, before the first run of that tick expired.                        *)
(***************************************************************************)
EXTENDS Scheduler, NumberFacts, TLAPS

(* No tick that has passed is newer. *)
IsNewest(t) == t <= now /\ \A u \in Ticks : u <= now => u <= t

(* What the cache lacks is no older than the cache, and no run is created  *)
(* before its tick or after now.                                           *)
RunsInv ==
    \A t \in Ticks :
        /\ runs[t].state # "none" => t <= runs[t].born /\ made[t] > 0
        /\ runs[t].state = "finished" => runs[t].born <= runs[t].ended
        /\ runs[t].state = "unfinished" /\ view[t].state # "unfinished" =>
               now <= runs[t].born + lag
        /\ made[t] > 0 => t <= now
        /\ made[t] > 0 /\ runs[t].state = "none" => t + TTL <= now

(* The tick of a pass came within the lag of every run the pass did not    *)
(* see, no later tick came but since its list was taken, and no later one  *)
(* was ever run.                                                           *)
DueInv ==
    due # NoTick =>
        /\ due <= now
        /\ \A t \in Ticks :
               /\ runs[t].state = "unfinished" => due <= runs[t].born + MaxLag
               /\ due < t => now < t + lag
               /\ made[t] > 0 => t <= due

IInv == TypeOK /\ RunsInv /\ DueInv /\ OneAtATime /\ OnceEach

-----------------------------------------------------------------------------
LEMMA TicksAreNumbers == Ticks \subseteq Nat
BY TicksAssumption, TimesAssumption

(* The baseline is the creation of the namespace or a tick with a run. *)
LEMMA BaselineIsNumber == TypeOK => Baseline \in Nat
<1> SUFFICES ASSUME TypeOK PROVE Baseline \in Nat
  OBVIOUS
<1> DEFINE S == {0} \cup {t \in Ticks : view[t].state # "none"}
<1>1. S \in SUBSET Nat /\ S # {} /\ Horizon \in Nat /\ \A s \in S : s <= Horizon
  <2>1. S \subseteq {0} \cup Ticks /\ 0 \in S
    OBVIOUS
  <2> HIDE DEF S
  <2> QED
    BY <2>1, TicksAssumption, TimesAssumption
<1>2. Max(S) \in S
  <2> HIDE DEF S
  <2> QED
    BY <1>1, MaxOfBounded
<1> QED
  BY <1>1, <1>2 DEF Baseline

(* What dueTick returns is the newest tick that passed. *)
LEMMA DueTickIsNewest ==
    ASSUME TypeOK
    PROVE  /\ DueTick \in Ticks \cup {NoTick}
           /\ DueTick # NoTick => IsNewest(DueTick)
<1>1. now \in Nat /\ Ticks \subseteq Nat /\ Baseline \in Nat
  BY TimesAssumption, TicksAreNumbers, BaselineIsNumber DEF TypeOK
<1>2. CASE Passed = {}
  BY <1>2 DEF DueTick
<1>3. CASE Passed # {}
  <2>1. Passed \in SUBSET Nat /\ \A s \in Passed : s <= now
    BY <1>1 DEF Passed
  <2>2. Max(Passed) \in Passed /\ \A s \in Passed : s <= Max(Passed)
    BY <1>1, <1>3, <2>1, MaxOfBounded
  <2>3. DueTick = Max(Passed)
    BY <1>3 DEF DueTick
  <2>4. ASSUME NEW u \in Ticks, u <= now PROVE u <= DueTick
    <3>1. CASE u \in Passed
      BY <2>2, <2>3, <3>1
    <3>2. CASE u \notin Passed
      <4>1. ~(Baseline < u)
        BY <2>4, <3>2 DEF Passed
      <4>2. DueTick \in Ticks /\ Baseline < DueTick
        BY <2>2, <2>3 DEF Passed
      <4> QED
        BY <1>1, <4>1, <4>2
    <3> QED
      BY <3>1, <3>2
  <2>5. DueTick \in Ticks /\ DueTick <= now
    BY <2>2, <2>3 DEF Passed
  <2> QED
    BY <2>4, <2>5 DEF IsNewest
<1> QED
  BY <1>2, <1>3

-----------------------------------------------------------------------------
LEMMA InitInv == Init => IInv
<1> SUFFICES ASSUME Init PROVE IInv
  OBVIOUS
<1>1. TypeOK
  <2>1. manual \in BOOLEAN /\ seen \in BOOLEAN /\ marked \in BOOLEAN /\ paused \in BOOLEAN
    BY Zenon DEF Init
  <2> QED
    BY <2>1, TicksAssumption, TimesAssumption DEF Init, NoRun, TypeOK
<1>2. RunsInv /\ DueInv /\ OneAtATime /\ OnceEach
  BY DEF Init, NoRun, RunsInv, DueInv, OneAtATime, OnceEach
<1> QED
  BY <1>1, <1>2 DEF IInv

LEMMA NextType == TypeOK /\ [Next]_vars => TypeOK'
<1> SUFFICES ASSUME TypeOK, [Next]_vars PROVE TypeOK'
  OBVIOUS
<1> USE TicksAssumption, TimesAssumption DEF TypeOK
<1>1. CASE Reconcile
  BY <1>1, DueTickIsNewest DEF Reconcile
<1>2. CASE Create
  BY <1>2 DEF Create, NewRun
<1>3. CASE Fail
  BY <1>3 DEF Fail
<1>4. CASE \E t \in Ticks : Finish(t)
  BY <1>4 DEF Finish, Ended
<1>5. CASE \E t \in Ticks : Expire(t)
  BY <1>5 DEF Expire, NoRun
<1>6. CASE Observe
  BY <1>6 DEF Observe
<1>7. CASE User
  BY <1>7 DEF User
<1>8. CASE Elapse
  BY <1>8 DEF Elapse
<1>9. CASE UNCHANGED vars
  BY <1>9 DEF vars
<1> QED
  BY <1>1, <1>2, <1>3, <1>4, <1>5, <1>6, <1>7, <1>8, <1>9 DEF Next

-----------------------------------------------------------------------------
(* What a pass decides from what it sees. *)
LEMMA ReconcileInv == ASSUME IInv, Reconcile PROVE IInv'
<1> USE DEF IInv
<1>1. UNCHANGED <<now, runs, view, lag, made>>
  BY DEF Reconcile
<1>2. RunsInv' /\ OneAtATime' /\ OnceEach'
  BY <1>1 DEF RunsInv, OneAtATime, OnceEach
<1>3. ASSUME due' # NoTick PROVE DueInv'
  <2>1. due' = DueTick /\ ~Unfinished
    BY <1>3 DEF Reconcile
  <2>2. due' \in Ticks /\ due' <= now /\ \A u \in Ticks : u <= now => u <= due'
    BY <1>3, <2>1, DueTickIsNewest DEF IsNewest
  <2>3. /\ now \in Nat /\ lag \in Nat /\ MaxLag \in Nat /\ lag <= MaxLag /\ Ticks \subseteq Nat
        /\ \A t \in Ticks : runs[t].born \in Nat
    BY TimesAssumption, TicksAreNumbers DEF TypeOK
  <2>4. ASSUME NEW t \in Ticks, runs[t].state = "unfinished" PROVE due' <= runs[t].born + MaxLag
    <3>1. now <= runs[t].born + lag
      BY <2>1, <2>4 DEF Unfinished, RunsInv
    <3> QED
      BY <2>2, <2>3, <3>1
  <2>5. ASSUME NEW t \in Ticks, due' < t PROVE now < t + lag
    BY <2>2, <2>3, <2>5
  <2>6. ASSUME NEW t \in Ticks, made[t] > 0 PROVE t <= due'
    BY <2>2, <2>6 DEF RunsInv
  <2> QED
    BY <1>1, <2>2, <2>4, <2>5, <2>6 DEF DueInv
<1> QED
  BY <1>2, <1>3, NextType DEF DueInv, Next

(* The run that a pass creates. *)
LEMMA CreateInv == ASSUME IInv, Create PROVE IInv'
<1> USE DEF IInv
<1>1. /\ now \in Nat /\ lag \in Nat /\ MaxLag \in Nat /\ lag <= MaxLag /\ TTL \in Nat
      /\ Ticks \subseteq Nat /\ made \in [Ticks -> Nat]
      /\ \A t \in Ticks : runs[t].born \in Nat
  BY TimesAssumption, TicksAreNumbers DEF TypeOK
<1>2. /\ due \in Ticks /\ due <= now
      /\ \A t \in Ticks :
             /\ runs[t].state = "unfinished" => due <= runs[t].born + MaxLag
             /\ due < t => now < t + lag
  BY DEF Create, DueInv, TypeOK
<1>3. UNCHANGED <<now, view, lag>> /\ due' = NoTick
  BY DEF Create
<1>4. CASE runs[due].state # "none"
  <2>1. runs' = runs /\ made' = made
    BY <1>4 DEF Create
  <2> QED
    BY <1>3, <2>1, NextType DEF RunsInv, DueInv, OneAtATime, OnceEach, Next
<1>5. CASE runs[due].state = "none"
  <2>1. /\ runs' = [runs EXCEPT ![due] = NewRun]
        /\ made' = [made EXCEPT ![due] = @ + 1]
    BY <1>5 DEF Create
  <2>2. DOMAIN runs = Ticks
    BY DEF TypeOK
  <2>3. runs'[due] = NewRun /\ made'[due] = made[due] + 1
    BY <1>1, <1>2, <2>1, <2>2
  <2>4. \A t \in Ticks : t # due => runs'[t] = runs[t] /\ made'[t] = made[t]
    BY <1>1, <1>2, <2>1, <2>2
  <2>5. RunsInv'
    <3> SUFFICES ASSUME NEW t \in Ticks
                 PROVE  /\ runs'[t].state # "none" => t <= runs'[t].born /\ made'[t] > 0
                        /\ runs'[t].state = "finished" => runs'[t].born <= runs'[t].ended
                        /\ runs'[t].state = "unfinished" /\ view[t].state # "unfinished" =>
                               now <= runs'[t].born + lag
                        /\ made'[t] > 0 => t <= now
                        /\ made'[t] > 0 /\ runs'[t].state = "none" => t + TTL <= now
      BY <1>3 DEF RunsInv
    <3>1. CASE t = due
      BY <1>1, <1>2, <2>3, <3>1 DEF NewRun
    <3>2. CASE t # due
      BY <2>4, <3>2 DEF RunsInv
    <3> QED
      BY <3>1, <3>2
  <2>6. OneAtATime'
    <3> SUFFICES ASSUME NEW t \in Ticks, NEW u \in Ticks, t < u,
                        runs'[t].state = "unfinished", runs'[u].state = "unfinished"
                 PROVE  u <= runs'[t].born + MaxLag
      BY DEF OneAtATime
    <3>1. CASE t = due
      <4>1. u # due
        BY <1>1, <3>1
      <4>2. runs[u].state = "unfinished"
        BY <2>4, <4>1
      <4>3. u <= now
        BY <1>1, <4>2 DEF RunsInv
      <4> QED
        BY <1>1, <2>3, <3>1, <4>3 DEF NewRun
    <3>2. CASE u = due
      <4>1. t # due
        BY <1>1, <3>2
      <4> QED
        BY <1>2, <2>4, <3>2, <4>1
    <3>3. CASE t # due /\ u # due
      BY <2>4, <3>3 DEF OneAtATime
    <3> QED
      BY <3>1, <3>2, <3>3
  <2>7. OnceEach'
    <3> SUFFICES ASSUME NEW t \in Ticks, made'[t] > 1, NEW u \in Ticks, u > t
                 PROVE  u + MaxLag > t + TTL
      BY DEF OnceEach
    <3>1. CASE t = due
      <4>1. made[due] > 0
        BY <1>1, <1>2, <2>3, <3>1
      <4>2. due + TTL <= now
        BY <1>2, <1>5, <4>1 DEF RunsInv
      <4>3. now < u + lag
        BY <1>1, <1>2, <3>1
      <4> QED
        BY <1>1, <1>2, <3>1, <4>2, <4>3
    <3>2. CASE t # due
      BY <2>4, <3>2 DEF OnceEach
    <3> QED
      BY <3>1, <3>2
  <2> QED
    BY <1>3, <2>5, <2>6, <2>7, NextType DEF DueInv, Next
<1> QED
  BY <1>4, <1>5

LEMMA FinishInv == ASSUME IInv, NEW r \in Ticks, Finish(r) PROVE IInv'
<1> USE DEF IInv
<1>1. now \in Nat /\ runs[r].born \in Nat /\ runs[r].born <= now
  BY TimesAssumption DEF TypeOK
<1>2. runs' = [runs EXCEPT ![r] = Ended(runs[r], now)] /\ runs[r].state = "unfinished"
  BY DEF Finish
<1>3. UNCHANGED <<now, view, lag, made, due>>
  BY DEF Finish
<1>4. runs'[r] = Ended(runs[r], now) /\ \A t \in Ticks : t # r => runs'[t] = runs[t]
  BY <1>2 DEF TypeOK
<1>5. RunsInv'
  BY <1>1, <1>2, <1>3, <1>4 DEF RunsInv, Ended
<1>6. DueInv' /\ OneAtATime' /\ OnceEach'
  BY <1>3, <1>4 DEF DueInv, OneAtATime, OnceEach, Ended
<1> QED
  BY <1>5, <1>6, NextType DEF Next

(* A run expires TTL after it ended, and so no earlier after its tick. *)
LEMMA ExpireInv == ASSUME IInv, NEW r \in Ticks, Expire(r) PROVE IInv'
<1> USE DEF IInv
<1>1. /\ now \in Nat /\ TTL \in Nat /\ r \in Nat
      /\ runs[r].born \in Nat /\ runs[r].ended \in Nat
  BY TimesAssumption, TicksAreNumbers DEF TypeOK
<1>2. runs' = [runs EXCEPT ![r] = NoRun] /\ runs[r].state = "finished" /\ now >= runs[r].ended + TTL
  BY DEF Expire
<1>3. UNCHANGED <<now, view, lag, made, due>>
  BY DEF Expire
<1>4. runs'[r] = NoRun /\ \A t \in Ticks : t # r => runs'[t] = runs[t]
  BY <1>2 DEF TypeOK
<1>5. r + TTL <= now
  BY <1>1, <1>2 DEF RunsInv
<1>6. RunsInv'
  BY <1>3, <1>4, <1>5 DEF RunsInv, NoRun
<1>7. DueInv' /\ OneAtATime' /\ OnceEach'
  BY <1>3, <1>4 DEF DueInv, OneAtATime, OnceEach, NoRun
<1> QED
  BY <1>6, <1>7, NextType DEF Next

LEMMA ObserveInv == ASSUME IInv, Observe PROVE IInv'
<1> USE DEF IInv
<1>1. UNCHANGED <<now, runs, made, due>> /\ view' = runs /\ (due # NoTick => lag' = lag)
  BY DEF Observe
<1> QED
  BY <1>1, NextType DEF RunsInv, DueInv, OneAtATime, OnceEach, Next

(* Time makes the cache and the list of a pass older by as much. *)
LEMMA ElapseInv == ASSUME IInv, Elapse PROVE IInv'
<1> USE DEF IInv
<1>1. /\ now \in Nat /\ lag \in Nat /\ TTL \in Nat /\ Ticks \subseteq Nat
      /\ \A t \in Ticks : runs[t].born \in Nat
  BY TimesAssumption, TicksAreNumbers DEF TypeOK
<1>2. UNCHANGED <<runs, view, made, due>> /\ now' = now + 1
  BY DEF Elapse
<1>3. view # runs \/ due # NoTick => lag' = lag + 1
  BY DEF Elapse
<1>4. RunsInv'
  <2>1. \A t \in Ticks : runs[t].state = "unfinished" /\ view[t].state # "unfinished" => view # runs
    OBVIOUS
  <2> QED
    BY <1>1, <1>2, <1>3, <2>1 DEF RunsInv
<1>5. DueInv'
  <2> SUFFICES ASSUME due # NoTick
               PROVE  /\ due <= now + 1
                      /\ \A t \in Ticks : due < t => now + 1 < t + (lag + 1)
    BY <1>2, <1>3 DEF DueInv
  <2>1. due \in Nat
    BY <1>1 DEF TypeOK
  <2> QED
    BY <1>1, <2>1 DEF DueInv
<1>6. OneAtATime' /\ OnceEach'
  BY <1>2 DEF OneAtATime, OnceEach
<1> QED
  BY <1>4, <1>5, <1>6, NextType DEF Next

LEMMA NextInv == IInv /\ [Next]_vars => IInv'
<1> SUFFICES ASSUME IInv, [Next]_vars PROVE IInv'
  OBVIOUS
<1>1. CASE Fail \/ User \/ UNCHANGED vars
  <2>1. UNCHANGED <<now, runs, view, lag, made>> /\ due' \in {due, NoTick}
    BY <1>1 DEF Fail, User, vars
  <2> QED
    BY <2>1, NextType DEF IInv, RunsInv, DueInv, OneAtATime, OnceEach
<1> QED
  BY <1>1, ReconcileInv, CreateInv, FinishInv, ExpireInv, ObserveInv, ElapseInv DEF Next

LEMMA Invariant == Spec => []IInv
BY InitInv, NextInv, PTL DEF Spec

-----------------------------------------------------------------------------
(* The clock, the runs and what a pass decided keep their types, for any   *)
(* schedule: in particular what dueTick returns is a tick.                 *)
THEOREM TypeCorrect == Spec => []TypeOK
<1>1. IInv => TypeOK
  BY DEF IInv
<1> QED
  BY <1>1, Invariant, PTL

(* Reconcile starts a scheduled run next to another one only for a tick    *)
(* that came while the cache could still lack that one, for any schedule,  *)
(* TTL and lag.                                                            *)
THEOREM OneRunAtATime == Spec => []OneAtATime
<1>1. IInv => OneAtATime
  BY DEF IInv
<1> QED
  BY <1>1, Invariant, PTL

(* create makes a second run for a tick only if no later tick came, but    *)
(* for the lag, before the first one could expire.                         *)
THEOREM TickIsRunOnce == Spec => []OnceEach
<1>1. IInv => OnceEach
  BY DEF IInv
<1> QED
  BY <1>1, Invariant, PTL

(* A run is created for no older tick than any before, in any schedule:    *)
(* neither a lagging cache nor the expiry of runs takes dueTick back.      *)
THEOREM NeverGoesBack == Spec => Forward
<1> DEFINE Step == \A t \in Ticks : made'[t] > made[t] => \A u \in Ticks : made[u] > 0 => u <= t
<1>1. IInv /\ [Next]_vars => [Step]_vars
  <2> SUFFICES ASSUME IInv, Next, NEW t \in Ticks, made'[t] > made[t],
                      NEW u \in Ticks, made[u] > 0
               PROVE  u <= t
    OBVIOUS
  <2>0. made \in [Ticks -> Nat]
    BY DEF IInv, TypeOK
  <2>1. Create /\ made' # made
    BY <2>0 DEF Next, Reconcile, Create, Fail, Finish, Expire, Observe, User, Elapse
  <2>2. made' = [made EXCEPT ![due] = @ + 1] /\ due # NoTick
    BY <2>1 DEF Create
  <2>3. t = due
    BY <2>0, <2>2
  <2> QED
    BY <2>2, <2>3 DEF IInv, DueInv
<1> QED
  BY <1>1, Invariant, PTL DEF Spec, Forward
=============================================================================
