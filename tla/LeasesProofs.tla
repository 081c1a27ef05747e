----------------------------- MODULE LeasesProofs -----------------------------
(***************************************************************************)
(* Proofs about Leases, for any set of runs, any Lease names, any order in *)
(* which the runs take them, and any number of failures.                   *)
(*                                                                         *)
(* Mutual exclusion is not inductive.  It rests on three facts: what a     *)
(* pass believes to hold is stored under its name; a run that is gone or   *)
(* finished has no pass; and a takeover is decided on a holder that was    *)
(* dead when it was looked at, which it stays.  That a finished run leaves *)
(* no Lease behind rests on status.leases being written before the first   *)
(* Take, and on releaseAll having passed every name up to its position.    *)
(***************************************************************************)
EXTENDS Leases, TLAPS

Lists(seq, n) == \E i \in 1 .. Len(seq) : seq[i] = n

(* A run that ended has no pass, and a run without a pass knows nothing. *)
EndedIsIdle ==
    \A r \in Runs :
        /\ run[r] # "active" => pc[r] = "idle"
        /\ pc[r] = "idle" => held[r] = {}

(* A pass starts at the head of the list. *)
EntryInv == \A r \in Runs : pc[r] \in {"idle", "record"} => at[r] = 1

(* The calls of Take act on a name of the list, which status.leases has,   *)
(* and its verdict on the holder it read stays true.                       *)
TakeInv ==
    \A r \in Runs :
        /\ pc[r] \in {"create", "get", "alive", "update"} =>
              recorded[r] = Order[r] /\ at[r] <= Len(Order[r])
        /\ pc[r] \in {"alive", "update"} => seen[r].holder \in Runs \ {r}
        /\ pc[r] = "update" => run[seen[r].holder] # "active"

(* Every stored Lease of a run is in its status.leases. *)
RecordedInv ==
    /\ \A r \in Runs : recorded[r] \in {<<>>, Order[r]}
    /\ \A n \in Names : lease[n].holder \in Runs => Lists(recorded[lease[n].holder], n)

(* What releaseAll has gone past no longer names the run. *)
ReleaseInv ==
    \A r \in Runs :
        /\ pc[r] \in {"releaseGet", "releaseDelete"} =>
              \A n \in Names : lease[n].holder = r =>
                 \E i \in at[r] .. Len(recorded[r]) : recorded[r][i] = n
        /\ pc[r] = "releaseDelete" =>
              /\ at[r] <= Len(recorded[r])
              /\ seen[r].holder = r
              /\ lease[Giving(r)] = seen[r]

IInv ==
    /\ TypeOK
    /\ EndedIsIdle
    /\ EntryInv
    /\ HeldIsStored
    /\ TakeInv
    /\ RecordedInv
    /\ ReleaseInv
    /\ FinishedLeavesNoLease

-----------------------------------------------------------------------------
(* While Take runs, the name it asks for is one of the run's recorded ones. *)
LEMMA WantIsRecorded ==
    ASSUME IInv, NEW r \in Runs, pc[r] \in {"create", "get", "alive", "update"}
    PROVE  Want(r) \in Names /\ Lists(recorded[r], Want(r))
BY OrderAssumption DEF IInv, TypeOK, TakeInv, Want, Lists

LEMMA GivingIsAName ==
    ASSUME IInv, NEW r \in Runs, at[r] <= Len(recorded[r])
    PROVE  Giving(r) \in Names
BY DEF IInv, TypeOK, Giving

LEMMA InitInv == Init => IInv
BY RunsAssumption, OrderAssumption
   DEF Init, IInv, TypeOK, Calls, Lease, NoLease, EndedIsIdle, EntryInv, HeldIsStored, TakeInv, RecordedInv,
       Lists, ReleaseInv, FinishedLeavesNoLease

(* A pass that stops leaves the stored objects as they are. *)
LEMMA StopInv ==
    ASSUME IInv, NEW r \in Runs, StopPass(r), UNCHANGED <<lease, run, recorded>>
    PROVE  IInv'
<1> USE RunsAssumption DEF IInv
<1>1. TypeOK'
  BY DEF StopPass, Goto, TypeOK, Calls, Lease, NoLease
<1>2. EndedIsIdle' /\ EntryInv'
  BY DEF StopPass, Goto, TypeOK, EndedIsIdle, EntryInv
<1>3. HeldIsStored'
  BY DEF StopPass, TypeOK, HeldIsStored
<1>4. TakeInv'
  BY DEF StopPass, Goto, TypeOK, TakeInv
<1>5. RecordedInv' /\ FinishedLeavesNoLease'
  BY DEF RecordedInv, Lists, FinishedLeavesNoLease
<1>6. ReleaseInv'
  BY DEF StopPass, Goto, TypeOK, ReleaseInv, Giving
<1>7. QED
  BY <1>1, <1>2, <1>3, <1>4, <1>5, <1>6

(* Take reports a Lease as held: it is stored under the run's name now,    *)
(* and before it was nobody's, the run's own, or that of a run that ended. *)
LEMMA HeldInv ==
    ASSUME IInv, NEW r \in Runs, NEW w \in Names,
           pc[r] \in {"create", "get", "update"},
           w = Want(r), Held(r), UNCHANGED <<run, recorded>>,
           lease' \in [Names -> Lease],
           lease'[w].holder = r,
           \A n \in Names \ {w} : lease'[n] = lease[n],
           lease[w].holder \in Runs \ {r} => run[lease[w].holder] # "active"
    PROVE  IInv'
<1> USE RunsAssumption, OrderAssumption DEF IInv
<1>a. run[r] = "active" /\ recorded[r] = Order[r] /\ at[r] \in 1 .. Len(Order[r])
  BY DEF EndedIsIdle, TypeOK, TakeInv
<1>b. Lists(recorded[r], w)
  BY WantIsRecorded
<1>1. TypeOK'
  BY <1>a DEF Held, Goto, TypeOK, Calls
<1>2. EndedIsIdle' /\ EntryInv'
  BY <1>a DEF Held, Goto, TypeOK, EndedIsIdle, EntryInv
<1>3. HeldIsStored'
  <2> SUFFICES ASSUME NEW q \in Runs, NEW n \in held'[q]
               PROVE  lease'[n].holder = q
    BY DEF HeldIsStored
  <2>1. CASE q = r
    BY <2>1 DEF Held, TypeOK, HeldIsStored
  <2>2. CASE q # r
    <3>1. n \in held[q] /\ lease[n].holder = q /\ n \in Names
      BY <2>2 DEF Held, TypeOK, HeldIsStored
    <3>2. run[q] = "active"
      BY <3>1 DEF EndedIsIdle, TypeOK
    <3>3. n # w
      BY <2>2, <3>1, <3>2
    <3>4. QED
      BY <3>1, <3>3
  <2>3. QED BY <2>1, <2>2
<1>4. TakeInv'
  BY <1>a DEF Held, Goto, TypeOK, TakeInv
<1>5. RecordedInv'
  <2> SUFFICES ASSUME NEW n \in Names, lease'[n].holder \in Runs
               PROVE  Lists(recorded[lease'[n].holder], n)
    BY DEF RecordedInv, Lists
  <2>1. CASE n = w
    BY <1>b, <2>1
  <2>2. CASE n # w
    BY <2>2 DEF RecordedInv
  <2>3. QED BY <2>1, <2>2
<1>6. ReleaseInv'
  <2> SUFFICES ASSUME NEW q \in Runs,
                      pc'[q] \in {"releaseGet", "releaseDelete"}
               PROVE  /\ \A n \in Names : lease'[n].holder = q =>
                            \E i \in at'[q] .. Len(recorded[q]) : recorded[q][i] = n
                      /\ pc'[q] = "releaseDelete" =>
                            /\ at'[q] <= Len(recorded[q])
                            /\ seen'[q].holder = q
                            /\ lease'[recorded[q][at'[q]]] = seen'[q]
    BY DEF ReleaseInv, Giving
  <2>1. q # r /\ pc[q] = pc'[q] /\ at'[q] = at[q] /\ seen'[q] = seen[q]
    BY DEF Held, Goto, TypeOK
  <2>2. run[q] = "active"
    BY <2>1 DEF EndedIsIdle, TypeOK
  <2>3. lease[w].holder # q /\ lease'[w].holder # q
    BY <2>1, <2>2
  <2>4. \A n \in Names : lease'[n].holder = q => lease[n].holder = q
    BY <2>3
  <2>5. \A n \in Names : lease[n].holder = q => lease'[n] = lease[n]
    BY <2>3
  <2>6. ASSUME pc[q] = "releaseDelete"
        PROVE  /\ recorded[q][at[q]] \in Names
               /\ lease[recorded[q][at[q]]] = seen[q]
               /\ seen[q].holder = q
               /\ at[q] <= Len(recorded[q])
    BY <2>6, GivingIsAName DEF ReleaseInv, Giving
  <2>7. QED
    BY <2>1, <2>4, <2>5, <2>6 DEF ReleaseInv
<1>7. FinishedLeavesNoLease'
  <2> SUFFICES ASSUME NEW n \in Names, lease'[n].holder \in Runs
               PROVE  run[lease'[n].holder] # "finished"
    BY DEF FinishedLeavesNoLease
  <2>1. CASE n = w
    BY <1>a, <2>1
  <2>2. CASE n # w
    BY <2>2 DEF FinishedLeavesNoLease
  <2>3. QED BY <2>1, <2>2
<1>8. QED
  BY <1>1, <1>2, <1>3, <1>4, <1>5, <1>6, <1>7

(* Steps that only move a pass along. *)
LEMMA BeginHoldingInv ==
    ASSUME IInv, NEW r \in Runs, BeginHolding(r)
    PROVE  IInv'
<1> USE DEF IInv, BeginHolding, Goto, RunAlive
<1>1. TypeOK' /\ EndedIsIdle' /\ EntryInv' /\ TakeInv'
  BY DEF TypeOK, Calls, EndedIsIdle, EntryInv, TakeInv
<1>2. HeldIsStored' /\ RecordedInv' /\ FinishedLeavesNoLease'
  BY DEF HeldIsStored, RecordedInv, Lists, FinishedLeavesNoLease
<1>3. ReleaseInv'
  BY DEF TypeOK, ReleaseInv, Giving
<1>4. QED
  BY <1>1, <1>2, <1>3

LEMMA BeginReleaseInv ==
    ASSUME IInv, NEW r \in Runs, BeginRelease(r)
    PROVE  IInv'
<1> USE DEF IInv, BeginRelease, Goto, RunAlive
<1>1. TypeOK' /\ EndedIsIdle' /\ EntryInv' /\ TakeInv'
  BY DEF TypeOK, Calls, EndedIsIdle, EntryInv, TakeInv
<1>2. HeldIsStored' /\ RecordedInv' /\ FinishedLeavesNoLease'
  BY DEF HeldIsStored, RecordedInv, Lists, FinishedLeavesNoLease
<1>3. ReleaseInv'
  <2> SUFFICES ASSUME NEW q \in Runs, pc'[q] \in {"releaseGet", "releaseDelete"}
               PROVE  /\ \A n \in Names : lease[n].holder = q =>
                            \E i \in at'[q] .. Len(recorded[q]) : recorded[q][i] = n
                      /\ pc'[q] = "releaseDelete" =>
                            /\ at'[q] <= Len(recorded[q])
                            /\ seen[q].holder = q
                            /\ lease[recorded[q][at'[q]]] = seen[q]
    BY DEF ReleaseInv, Giving
  <2>1. CASE q = r
    <3>1. at'[q] = 1 /\ pc'[q] = "releaseGet"
      BY <2>1 DEF TypeOK
    <3>2. \A n \in Names : lease[n].holder = q => Lists(recorded[q], n)
      BY DEF RecordedInv
    <3>3. QED
      BY <3>1, <3>2 DEF Lists
  <2>2. CASE q # r
    BY <2>2 DEF TypeOK, ReleaseInv, Giving
  <2>3. QED BY <2>1, <2>2
<1>4. QED
  BY <1>1, <1>2, <1>3

(* The write of status.leases adds names and never drops one. *)
LEMMA RecordInv ==
    ASSUME IInv, NEW r \in Runs, Record(r)
    PROVE  IInv'
<1> USE OrderAssumption DEF IInv, Record, Goto
<1>1. TypeOK'
  BY DEF TypeOK, Calls
<1>2. EndedIsIdle' /\ EntryInv' /\ HeldIsStored' /\ FinishedLeavesNoLease'
  BY DEF TypeOK, EndedIsIdle, EntryInv, HeldIsStored, FinishedLeavesNoLease
<1>3. at[r] = 1
  BY DEF EntryInv
<1>4. TakeInv'
  BY <1>3 DEF TypeOK, TakeInv
<1>5. RecordedInv'
  <2>1. \A q \in Runs : recorded'[q] \in {<<>>, Order[q]}
    BY DEF TypeOK, RecordedInv
  <2>2. ASSUME NEW n \in Names, lease[n].holder \in Runs
        PROVE  Lists(recorded'[lease[n].holder], n)
    <3>1. Lists(recorded[lease[n].holder], n)
      BY <2>2 DEF RecordedInv
    <3>2. recorded[lease[n].holder] = Order[lease[n].holder]
      BY <2>2, <3>1 DEF RecordedInv, Lists
    <3>3. recorded'[lease[n].holder] = Order[lease[n].holder]
      BY <2>2, <3>2 DEF TypeOK
    <3>4. QED BY <3>1, <3>2, <3>3
  <2>3. QED BY <2>1, <2>2 DEF RecordedInv
<1>6. ReleaseInv'
  BY DEF TypeOK, ReleaseInv, Giving
<1>7. QED
  BY <1>1, <1>2, <1>4, <1>5, <1>6
(* A write changes one Lease. *)
LEMMA WriteEffect ==
    ASSUME TypeOK, NEW n \in Names, NEW h \in Runs \cup {NoRun, Foreign}, Write(n, h)
    PROVE  /\ lease' \in [Names -> Lease]
           /\ lease'[n].holder = h
           /\ \A m \in Names \ {n} : lease'[m] = lease[m]
BY DEF TypeOK, Write, Lease

LEMMA TakeCreateInv ==
    ASSUME IInv, NEW r \in Runs, TakeCreate(r)
    PROVE  IInv'
<1> DEFINE w == Want(r)
<1>1. w \in Names
  BY WantIsRecorded DEF TakeCreate
<1>2. CASE lease[w].holder = NoRun /\ Write(w, r) /\ Held(r)
  <2>1. /\ lease' \in [Names -> Lease]
        /\ lease'[w].holder = r
        /\ \A m \in Names \ {w} : lease'[m] = lease[m]
    BY <1>1, <1>2, WriteEffect DEF IInv
  <2>2. lease[w].holder \notin Runs
    BY <1>2, RunsAssumption
  <2>3. QED
    BY <1>1, <1>2, <2>1, <2>2, HeldInv DEF TakeCreate
<1>3. CASE Goto(r, "get") /\ UNCHANGED <<lease, at, seen, held>>
  <2> USE <1>3 DEF IInv, TakeCreate, Goto
  <2>1. TypeOK' /\ EndedIsIdle' /\ EntryInv' /\ TakeInv'
    BY DEF TypeOK, Calls, EndedIsIdle, EntryInv, TakeInv
  <2>2. HeldIsStored' /\ RecordedInv' /\ FinishedLeavesNoLease'
    BY DEF HeldIsStored, RecordedInv, Lists, FinishedLeavesNoLease
  <2>3. ReleaseInv'
    BY DEF TypeOK, ReleaseInv, Giving
  <2>4. QED BY <2>1, <2>2, <2>3
<1>4. QED
  BY <1>2, <1>3 DEF TakeCreate

LEMMA TakeGetInv ==
    ASSUME IInv, NEW r \in Runs, TakeGet(r)
    PROVE  IInv'
<1> DEFINE w == Want(r)
<1>1. w \in Names
  BY WantIsRecorded DEF TakeGet
<1>2. CASE StopPass(r)
  BY <1>2, StopInv DEF TakeGet
<1>3. CASE lease[w].holder = r /\ Held(r)
  <2>1. lease' = lease /\ lease \in [Names -> Lease]
    BY DEF TakeGet, IInv, TypeOK
  <2>2. QED
    BY <1>1, <1>3, <2>1, HeldInv DEF TakeGet
<1>4. CASE /\ lease[w].holder \in Runs \ {r}
           /\ seen' = [seen EXCEPT ![r] = lease[w]]
           /\ Goto(r, "alive")
           /\ UNCHANGED <<at, held>>
  <2> USE <1>1, <1>4 DEF IInv, TakeGet, Goto
  <2>1. TypeOK' /\ EndedIsIdle' /\ EntryInv'
    BY DEF TypeOK, Calls, EndedIsIdle, EntryInv
  <2>2. HeldIsStored' /\ RecordedInv' /\ FinishedLeavesNoLease'
    BY DEF HeldIsStored, RecordedInv, Lists, FinishedLeavesNoLease
  <2>3. TakeInv'
    BY DEF TypeOK, TakeInv
  <2>4. ReleaseInv'
    BY DEF TypeOK, ReleaseInv, Giving
  <2>5. QED BY <2>1, <2>2, <2>3, <2>4
<1>5. QED
  BY <1>2, <1>3, <1>4 DEF TakeGet

LEMMA TakeAliveInv ==
    ASSUME IInv, NEW r \in Runs, TakeAlive(r)
    PROVE  IInv'
<1>1. CASE StopPass(r)
  BY <1>1, StopInv DEF TakeAlive
<1>2. CASE /\ ~RunAlive(seen[r].holder)
           /\ Goto(r, "update")
           /\ UNCHANGED <<at, seen, held>>
  <2> USE <1>2 DEF IInv, TakeAlive, Goto, RunAlive
  <2>1. TypeOK' /\ EndedIsIdle' /\ EntryInv'
    BY DEF TypeOK, Calls, EndedIsIdle, EntryInv
  <2>2. HeldIsStored' /\ RecordedInv' /\ FinishedLeavesNoLease'
    BY DEF HeldIsStored, RecordedInv, Lists, FinishedLeavesNoLease
  <2>3. TakeInv'
    BY DEF TypeOK, TakeInv
  <2>4. ReleaseInv'
    BY DEF TypeOK, ReleaseInv, Giving
  <2>5. QED BY <2>1, <2>2, <2>3, <2>4
<1>3. QED
  BY <1>1, <1>2 DEF TakeAlive

(* A takeover: the holder that Take read was dead, and nobody wrote the    *)
(* Lease since.                                                            *)
LEMMA TakeUpdateInv ==
    ASSUME IInv, NEW r \in Runs, TakeUpdate(r)
    PROVE  IInv'
<1> DEFINE w == Want(r)
<1>1. w \in Names
  BY WantIsRecorded DEF TakeUpdate
<1>2. CASE lease[w] = seen[r] /\ Write(w, r) /\ Held(r)
  <2>1. /\ lease' \in [Names -> Lease]
        /\ lease'[w].holder = r
        /\ \A m \in Names \ {w} : lease'[m] = lease[m]
    BY <1>1, <1>2, WriteEffect DEF IInv
  <2>2. run[lease[w].holder] # "active"
    BY <1>2 DEF TakeUpdate, IInv, TakeInv
  <2>3. QED
    BY <1>1, <1>2, <2>1, <2>2, HeldInv DEF TakeUpdate
<1>3. CASE StopPass(r) /\ UNCHANGED lease
  BY <1>3, StopInv DEF TakeUpdate
<1>4. QED
  BY <1>2, <1>3 DEF TakeUpdate

LEMMA ReleaseGetInv ==
    ASSUME IInv, NEW r \in Runs, ReleaseGet(r)
    PROVE  IInv'
<1> USE DEF IInv, ReleaseGet, Goto
<1>0. Giving(r) \in Names
  BY GivingIsAName
<1>1. TypeOK' /\ EndedIsIdle' /\ EntryInv' /\ TakeInv'
  <2>1. CASE lease[Giving(r)].holder # r
    <3>1. /\ UNCHANGED <<lease, run, recorded, held, pc, seen>>
          /\ at' = [at EXCEPT ![r] = @ + 1]
          /\ pc[r] = "releaseGet"
      BY <2>1
    <3>2. TypeOK'
      BY <3>1 DEF TypeOK
    <3>3. EndedIsIdle' /\ EntryInv' /\ TakeInv'
      BY <3>1 DEF TypeOK, EndedIsIdle, EntryInv, TakeInv
    <3>4. QED BY <3>2, <3>3
  <2>2. CASE lease[Giving(r)].holder = r
    <3>1. /\ UNCHANGED <<lease, run, recorded, held, at>>
          /\ seen' = [seen EXCEPT ![r] = lease[Giving(r)]]
          /\ pc' = [pc EXCEPT ![r] = "releaseDelete"]
          /\ pc[r] = "releaseGet"
      BY <2>2
    <3>2. TypeOK'
      BY <1>0, <3>1 DEF TypeOK, Calls
    <3>3. EndedIsIdle' /\ EntryInv' /\ TakeInv'
      BY <1>0, <3>1 DEF TypeOK, EndedIsIdle, EntryInv, TakeInv
    <3>4. QED BY <3>2, <3>3
  <2>3. QED BY <2>1, <2>2
<1>2. HeldIsStored' /\ RecordedInv' /\ FinishedLeavesNoLease'
  BY DEF HeldIsStored, RecordedInv, Lists, FinishedLeavesNoLease
<1>3. ReleaseInv'
  <2> SUFFICES ASSUME NEW q \in Runs, pc'[q] \in {"releaseGet", "releaseDelete"}
               PROVE  /\ \A n \in Names : lease[n].holder = q =>
                            \E i \in at'[q] .. Len(recorded[q]) : recorded[q][i] = n
                      /\ pc'[q] = "releaseDelete" =>
                            /\ at'[q] <= Len(recorded[q])
                            /\ seen'[q].holder = q
                            /\ lease[recorded[q][at'[q]]] = seen'[q]
    BY DEF ReleaseInv, Giving
  <2>1. CASE q # r
    BY <2>1 DEF TypeOK, ReleaseInv, Giving
  <2>2. CASE q = r /\ lease[Giving(r)].holder # r
    BY <2>2 DEF TypeOK, ReleaseInv, Giving
  <2>3. CASE q = r /\ lease[Giving(r)].holder = r
    BY <2>3 DEF TypeOK, ReleaseInv, Giving
  <2>4. QED BY <2>1, <2>2, <2>3
<1>4. QED BY <1>1, <1>2, <1>3

(* The delete finds the Lease as the Get read it, because only a takeover  *)
(* from a dead run could have written it meanwhile.                        *)
LEMMA ReleaseDeleteInv ==
    ASSUME IInv, NEW r \in Runs, ReleaseDelete(r)
    PROVE  IInv'
<1> USE RunsAssumption DEF IInv
<1> DEFINE g == Giving(r)
<1>0. /\ g \in Names /\ lease[g] = seen[r] /\ lease[g].holder = r
      /\ at[r] <= Len(recorded[r]) /\ pc[r] = "releaseDelete"
  BY GivingIsAName DEF ReleaseDelete, ReleaseInv
<1>a. /\ lease' \in [Names -> Lease]
      /\ lease'[g].holder = NoRun
      /\ \A m \in Names \ {g} : lease'[m] = lease[m]
  BY <1>0, WriteEffect DEF ReleaseDelete
<1>b. /\ UNCHANGED <<run, recorded, seen>>
      /\ pc' = [pc EXCEPT ![r] = "releaseGet"]
      /\ at' = [at EXCEPT ![r] = @ + 1]
      /\ held' = [held EXCEPT ![r] = @ \ {g}]
  BY DEF ReleaseDelete, Goto
<1>1. TypeOK'
  BY <1>a, <1>b DEF TypeOK, Calls
<1>2. EndedIsIdle' /\ EntryInv' /\ TakeInv'
  BY <1>0, <1>b DEF TypeOK, EndedIsIdle, EntryInv, TakeInv
<1>3. HeldIsStored'
  <2> SUFFICES ASSUME NEW q \in Runs, NEW n \in held'[q]
               PROVE  lease'[n].holder = q
    BY DEF HeldIsStored
  <2>1. n \in held[q] /\ n \in Names /\ lease[n].holder = q
    BY <1>b DEF TypeOK, HeldIsStored
  <2>2. n # g
    BY <1>0, <1>b, <2>1 DEF TypeOK
  <2>3. QED BY <1>a, <2>1, <2>2
<1>4. RecordedInv'
  <2> SUFFICES ASSUME NEW n \in Names, lease'[n].holder \in Runs
               PROVE  Lists(recorded[lease'[n].holder], n)
    BY <1>b DEF RecordedInv, Lists
  <2>1. n # g
    BY <1>a
  <2>2. QED BY <1>a, <2>1 DEF RecordedInv
<1>5. FinishedLeavesNoLease'
  BY <1>a, <1>b DEF FinishedLeavesNoLease, TypeOK
<1>6. ReleaseInv'
  <2> SUFFICES ASSUME NEW q \in Runs, pc'[q] \in {"releaseGet", "releaseDelete"}
               PROVE  /\ \A n \in Names : lease'[n].holder = q =>
                            \E i \in at'[q] .. Len(recorded[q]) : recorded[q][i] = n
                      /\ pc'[q] = "releaseDelete" =>
                            /\ at'[q] <= Len(recorded[q])
                            /\ seen[q].holder = q
                            /\ lease'[recorded[q][at'[q]]] = seen[q]
    BY <1>b DEF ReleaseInv, Giving
  <2>1. CASE q = r
    <3>1. at'[q] = at[r] + 1 /\ pc'[q] = "releaseGet"
      BY <1>b, <2>1 DEF TypeOK
    <3>2. ASSUME NEW n \in Names, lease'[n].holder = q
          PROVE  \E i \in at'[q] .. Len(recorded[q]) : recorded[q][i] = n
      <4>1. n # g /\ lease[n].holder = r
        BY <1>a, <2>1, <3>2
      <4>2. PICK i \in at[r] .. Len(recorded[r]) : recorded[r][i] = n
        BY <1>0, <4>1 DEF ReleaseInv
      <4>3. i # at[r]
        BY <4>1, <4>2 DEF Giving
      <4>4. QED BY <2>1, <3>1, <4>2, <4>3 DEF TypeOK
    <3>3. QED BY <3>1, <3>2
  <2>2. CASE q # r
    <3>1. pc'[q] = pc[q] /\ at'[q] = at[q]
      BY <1>b, <2>2 DEF TypeOK
    <3>2. \A n \in Names : lease'[n].holder = q => lease[n].holder = q
      BY <1>a
    <3>3. ASSUME pc[q] = "releaseDelete"
          PROVE  /\ recorded[q][at[q]] \in Names
                 /\ lease[recorded[q][at[q]]] = seen[q]
                 /\ seen[q].holder = q
                 /\ at[q] <= Len(recorded[q])
      BY <3>3, GivingIsAName DEF ReleaseInv, Giving
    <3>4. QED
      BY <1>0, <1>a, <2>2, <3>1, <3>2, <3>3 DEF ReleaseInv
  <2>3. QED BY <2>1, <2>2
<1>7. QED
  BY <1>1, <1>2, <1>3, <1>4, <1>5, <1>6

(* The run ends once releaseAll has gone past every recorded name. *)
LEMMA CloseInv ==
    ASSUME IInv, NEW r \in Runs, Close(r)
    PROVE  IInv'
<1> USE DEF IInv
<1>0. PICK phase \in {"finished", "gone"} : run' = [run EXCEPT ![r] = phase]
  BY DEF Close
<1>a. /\ UNCHANGED <<lease, recorded>>
      /\ pc[r] = "releaseGet" /\ at[r] > Len(recorded[r])
      /\ pc' = [pc EXCEPT ![r] = "idle"]
      /\ at' = [at EXCEPT ![r] = 1]
      /\ seen' = [seen EXCEPT ![r] = NoLease]
      /\ held' = [held EXCEPT ![r] = {}]
  BY DEF Close, StopPass, Goto
<1>1. TypeOK'
  BY <1>0, <1>a, RunsAssumption DEF TypeOK, Calls, Lease, NoLease
<1>2. EndedIsIdle' /\ EntryInv' /\ HeldIsStored'
  BY <1>0, <1>a DEF TypeOK, EndedIsIdle, EntryInv, HeldIsStored
<1>3. TakeInv'
  BY <1>0, <1>a DEF TypeOK, TakeInv
<1>4. RecordedInv'
  BY <1>a DEF RecordedInv, Lists
<1>5. FinishedLeavesNoLease'
  <2>1. \A n \in Names : lease[n].holder # r
    BY <1>a DEF ReleaseInv, TypeOK
  <2>2. QED BY <1>0, <1>a, <2>1 DEF FinishedLeavesNoLease, TypeOK
<1>6. ReleaseInv'
  BY <1>a DEF TypeOK, ReleaseInv, Giving
<1>7. QED
  BY <1>1, <1>2, <1>3, <1>4, <1>5, <1>6

LEMMA VanishInv ==
    ASSUME IInv, NEW r \in Runs, Vanish(r)
    PROVE  IInv'
<1> USE DEF IInv, Vanish, passVars
<1>1. TypeOK' /\ EndedIsIdle' /\ EntryInv'
  BY DEF TypeOK, EndedIsIdle, EntryInv
<1>2. TakeInv'
  BY DEF TypeOK, TakeInv
<1>3. HeldIsStored' /\ RecordedInv' /\ ReleaseInv'
  BY DEF HeldIsStored, RecordedInv, Lists, ReleaseInv, Giving
<1>4. FinishedLeavesNoLease'
  BY DEF TypeOK, FinishedLeavesNoLease
<1>5. QED BY <1>1, <1>2, <1>3, <1>4

(* A foreign Lease appears only where there is none, and disappears again. *)
LEMMA OutsiderInv ==
    ASSUME IInv, NEW n \in Names, Outsider(n)
    PROVE  IInv'
<1> USE RunsAssumption DEF IInv
<1>0. /\ lease[n].holder \notin Runs
      /\ lease' \in [Names -> Lease] /\ lease'[n].holder \notin Runs
      /\ \A m \in Names \ {n} : lease'[m] = lease[m]
  BY WriteEffect DEF Outsider
<1>a. UNCHANGED <<run, recorded, pc, at, seen, held>>
  BY DEF Outsider, passVars
<1>b. \A m \in Names : lease'[m].holder \in Runs \/ lease[m].holder \in Runs => lease'[m] = lease[m]
  BY <1>0
<1>1. TypeOK'
  BY <1>0, <1>a DEF TypeOK
<1>2. EndedIsIdle' /\ EntryInv' /\ TakeInv'
  BY <1>a DEF EndedIsIdle, EntryInv, TakeInv
<1>3. HeldIsStored' /\ FinishedLeavesNoLease'
  BY <1>a, <1>b DEF HeldIsStored, FinishedLeavesNoLease, TypeOK
<1>4. RecordedInv'
  BY <1>a, <1>b DEF RecordedInv, Lists
<1>5. ReleaseInv'
  <2> SUFFICES ASSUME NEW q \in Runs, pc[q] \in {"releaseGet", "releaseDelete"}
               PROVE  /\ \A m \in Names : lease'[m].holder = q =>
                            \E i \in at[q] .. Len(recorded[q]) : recorded[q][i] = m
                      /\ pc[q] = "releaseDelete" =>
                            /\ at[q] <= Len(recorded[q])
                            /\ seen[q].holder = q
                            /\ lease'[recorded[q][at[q]]] = seen[q]
    BY <1>a DEF ReleaseInv, Giving
  <2>1. ASSUME pc[q] = "releaseDelete"
        PROVE  /\ recorded[q][at[q]] \in Names
               /\ lease[recorded[q][at[q]]] = seen[q]
               /\ seen[q].holder = q
               /\ at[q] <= Len(recorded[q])
    BY <2>1, GivingIsAName DEF ReleaseInv, Giving
  <2>2. QED
    BY <1>b, <2>1 DEF ReleaseInv
<1>6. QED BY <1>1, <1>2, <1>3, <1>4, <1>5

LEMMA NextInv == IInv /\ [Next]_vars => IInv'
<1> SUFFICES ASSUME IInv, [Next]_vars PROVE IInv'
  OBVIOUS
<1>1. ASSUME NEW r \in Runs, PassStep(r) PROVE IInv'
  <2>1. CASE EndPass(r)
    BY <2>1, StopInv DEF EndPass
  <2>2. CASE Takes(r)
    BY <2>2, TakeCreateInv, TakeGetInv, TakeAliveInv, TakeUpdateInv DEF Takes
  <2>3. CASE Releases(r)
    BY <2>3, ReleaseGetInv, ReleaseDeleteInv, CloseInv DEF Releases
  <2>4. QED
    BY <1>1, <2>1, <2>2, <2>3, BeginHoldingInv, RecordInv, BeginReleaseInv DEF PassStep
<1>2. ASSUME NEW r \in Runs, Fail(r) PROVE IInv'
  BY <1>2, StopInv DEF Fail
<1>3. CASE UNCHANGED vars
  BY <1>3 DEF vars, IInv, TypeOK, EndedIsIdle, EntryInv, HeldIsStored, TakeInv, RecordedInv,
              Lists, ReleaseInv, Giving, FinishedLeavesNoLease
<1>4. QED
  BY <1>1, <1>2, <1>3, VanishInv, OutsiderInv DEF Next

(* The inductive invariant holds in every reachable state. *)
LEMMA Invariance == Spec => []IInv
BY InitInv, NextInv, PTL DEF Spec

(* Every variable of the Lease protocol keeps its type. *)
THEOREM TypeCorrect == Spec => []TypeOK
<1>1. IInv => TypeOK
  BY DEF IInv
<1>2. QED BY <1>1, Invariance, PTL

(* No two passes ever hold the same Lease: Take and Release serialise the  *)
(* runs of a namespace under every interleaving of their API calls.        *)
THEOREM Exclusion == Spec => []MutualExclusion
<1>1. IInv => MutualExclusion
  BY DEF IInv, HeldIsStored, MutualExclusion, TypeOK
<1>2. QED BY <1>1, Invariance, PTL

(* A run that finished holds no Lease, whatever failed on its way. *)
THEOREM NoLeaseLeftBehind == Spec => []FinishedLeavesNoLease
<1>1. IInv => FinishedLeavesNoLease
  BY DEF IInv
<1>2. QED BY <1>1, Invariance, PTL

-----------------------------------------------------------------------------
(* The steps of Take and Release as steps of the abstract lock. *)

Owner == [n \in Names |-> lease[n].holder]
Live == {r \in Runs : RunAlive(r)}

(* A write to one Lease is a change of one owner. *)
LEMMA WriteMaps ==
    ASSUME IInv, NEW n \in Names, NEW h \in Runs \cup {NoRun, Foreign},
           Write(n, h), UNCHANGED run
    PROVE  /\ Owner' = [Owner EXCEPT ![n] = h]
           /\ Live' = Live
           /\ Owner[n] = lease[n].holder
BY DEF IInv, TypeOK, Lease, Write, Owner, Live, RunAlive

(* A step that writes no Lease and ends no run is a stuttering step. *)
LEMMA Stutters ==
    ASSUME UNCHANGED <<lease, run>>
    PROVE  UNCHANGED Lock!vars
BY DEF Lock!vars, RunAlive

(* The run of a pass that has begun is alive. *)
LEMMA PassIsLive ==
    ASSUME IInv, NEW r \in Runs, pc[r] # "idle"
    PROVE  r \in Live
BY DEF IInv, EndedIsIdle, Live, RunAlive, TypeOK

LEMMA InitMaps == Init => Lock!Init
BY DEF Init, Lock!Init, NoLease, RunAlive

LEMMA TakeCreateMaps ==
    ASSUME IInv, NEW r \in Runs, TakeCreate(r)
    PROVE  [Lock!Next]_Lock!vars
<1>1. CASE lease[Want(r)].holder = NoRun /\ Write(Want(r), r)
  <2>1. r \in Live /\ Want(r) \in Names
    BY PassIsLive, WantIsRecorded DEF TakeCreate
  <2>2. PICK n \in Names : n = Want(r)
    BY <2>1
  <2>3. Lock!Acquire(r, n)
    BY <1>1, <2>1, <2>2, WriteMaps DEF TakeCreate, Lock!Acquire, Owner, Live
  <2>4. QED BY <2>3 DEF Lock!Next
<1>2. CASE UNCHANGED lease
  BY <1>2, Stutters DEF TakeCreate
<1>3. QED BY <1>1, <1>2 DEF TakeCreate

(* The holder that TakeAlive found dead is still dead, and the Lease still *)
(* names it, or its version would differ from the one Get returned.        *)
LEMMA TakeUpdateMaps ==
    ASSUME IInv, NEW r \in Runs, TakeUpdate(r)
    PROVE  [Lock!Next]_Lock!vars
<1>1. CASE lease[Want(r)] = seen[r] /\ Write(Want(r), r)
  <2>1. r \in Live /\ Want(r) \in Names
    BY PassIsLive, WantIsRecorded DEF TakeUpdate
  <2>2. lease[Want(r)].holder \in Runs \ Live
    BY <1>1 DEF TakeUpdate, IInv, TakeInv, Live, RunAlive
  <2>3. PICK n \in Names : n = Want(r)
    BY <2>1
  <2>4. Lock!Inherit(r, n)
    BY <1>1, <2>1, <2>2, <2>3, WriteMaps DEF TakeUpdate, Lock!Inherit, Owner, Live
  <2>5. QED BY <2>4 DEF Lock!Next
<1>2. CASE UNCHANGED lease
  BY <1>2, Stutters DEF TakeUpdate
<1>3. QED BY <1>1, <1>2 DEF TakeUpdate

LEMMA ReleaseDeleteMaps ==
    ASSUME IInv, NEW r \in Runs, ReleaseDelete(r)
    PROVE  [Lock!Next]_Lock!vars
<1>1. r \in Live /\ Giving(r) \in Names /\ lease[Giving(r)].holder = r
  BY PassIsLive, GivingIsAName DEF ReleaseDelete, IInv, ReleaseInv
<1>2. CASE Write(Giving(r), NoRun)
  <2>1. PICK n \in Names : n = Giving(r)
    BY <1>1
  <2>2. Lock!GiveUp(r, n)
    BY <1>1, <1>2, <2>1, WriteMaps DEF ReleaseDelete, Lock!GiveUp, Owner, Live
  <2>3. QED BY <2>2 DEF Lock!Next
<1>3. CASE UNCHANGED lease
  BY <1>3, Stutters DEF ReleaseDelete
<1>4. QED BY <1>2, <1>3 DEF ReleaseDelete

(* A run that ends leaves the set of live runs and changes no owner. *)
LEMMA EndMaps ==
    ASSUME IInv, NEW r \in Runs, NEW phase \in {"finished", "gone"}, RunAlive(r),
           run' = [run EXCEPT ![r] = phase], UNCHANGED lease
    PROVE  [Lock!Next]_Lock!vars
<1>1. Lock!End(r)
  BY DEF IInv, TypeOK, Lock!End, RunAlive
<1>2. QED BY <1>1 DEF Lock!Next

LEMMA OutsiderMaps ==
    ASSUME IInv, NEW n \in Names, Outsider(n)
    PROVE  [Lock!Next]_Lock!vars
<1>1. Lock!Outside(n)
  BY WriteMaps DEF Outsider, Lock!Outside, Owner, Live
<1>2. QED BY <1>1 DEF Lock!Next

LEMMA StepMaps == IInv /\ [Next]_vars => [Lock!Next]_Lock!vars
<1> SUFFICES ASSUME IInv, [Next]_vars PROVE [Lock!Next]_Lock!vars
  OBVIOUS
<1>1. ASSUME NEW r \in Runs, PassStep(r) PROVE [Lock!Next]_Lock!vars
  <2>1. CASE BeginHolding(r) \/ Record(r) \/ EndPass(r) \/ BeginRelease(r)
    BY <2>1, Stutters DEF BeginHolding, Record, EndPass, BeginRelease
  <2>2. CASE TakeGet(r) \/ TakeAlive(r) \/ ReleaseGet(r)
    BY <2>2, Stutters DEF TakeGet, TakeAlive, ReleaseGet
  <2>3. CASE Close(r)
    <3>1. RunAlive(r)
      BY <2>3, PassIsLive DEF Close, Live
    <3>2. QED BY <2>3, <3>1, EndMaps DEF Close
  <2>4. QED
    BY <1>1, <2>1, <2>2, <2>3, TakeCreateMaps, TakeUpdateMaps, ReleaseDeleteMaps
       DEF PassStep, Takes, Releases
<1>2. ASSUME NEW r \in Runs, Fail(r) PROVE [Lock!Next]_Lock!vars
  BY <1>2, Stutters DEF Fail
<1>3. ASSUME NEW r \in Runs, Vanish(r) PROVE [Lock!Next]_Lock!vars
  BY <1>3, EndMaps DEF Vanish
<1>4. CASE UNCHANGED vars
  BY <1>4, Stutters DEF vars
<1>5. QED
  BY <1>1, <1>2, <1>3, <1>4, OutsiderMaps DEF Next

(* The API calls of Take and Release implement the abstract lock: a live   *)
(* holder loses its Lease only through its own Release, and only a run     *)
(* that is gone or finished is succeeded.                                  *)
THEOREM ImplementsLock == Spec => LockSpec
BY InitMaps, StepMaps, Invariance, PTL DEF Spec, LockSpec, Lock!Spec
=============================================================================
