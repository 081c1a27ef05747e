---------------------------- MODULE RebuildProofs ----------------------------
(***************************************************************************)
(* The proofs of Rebuild, for any number of claims, any repositories and   *)
(* any archive that the namespace may come back from.                      *)
(***************************************************************************)
EXTENDS Rebuild, NumberFacts, TLAPS

ClaimType == [state : {"absent", "unbound", "bound"}, vr : BOOLEAN, plain : BOOLEAN, pin : 0 .. Horizon]
EntryType == [phase : {"none", "Restoring", "Failed", "Restored"}, snap : 0 .. Horizon, since : BOOLEAN]
PassType == [pc : {"idle", "decide", "record", "start", "bind"}, snap : 0 .. Horizon]
DbType == [state : {"gone", "recovering", "up"}, content : 0 .. Live, moment : 0 .. Horizon]
RequestType == [base : 0 .. Horizon, moment : 0 .. Horizon, empty : BOOLEAN]

-----------------------------------------------------------------------------
(* The inductive invariant. *)

(* A pass works on an unbound claim, in a slot until the Job exists, and   *)
(* a Job exists only once its snapshot is recorded.                        *)
PassInv ==
    \A c \in Claims :
        /\ pass[c].pc = "idle" => pass[c].snap = 0
        /\ pass[c].pc # "idle" => claim[c].state = "unbound" /\ claim[c].vr
        /\ pass[c].pc \in {"decide", "record", "start"} => job[c] = "none" /\ wl[c] # "none"
        /\ pass[c].pc \in {"start", "bind"} => entry[c].phase # "none" /\ pass[c].snap = entry[c].snap
        /\ job[c] # "none" => entry[c].phase # "none"

(* A bound claim holds what its entry says, until the app writes to it;    *)
(* the entry knows of the WAL of that write.                               *)
ClaimInv ==
    \A c \in Claims :
        /\ claim[c].plain => claim[c].state = "bound" /\ ~claim[c].vr
        /\ entry[c].phase = "none" => ~entry[c].since
        /\ claim[c].state = "bound" /\ ~claim[c].plain =>
             entry[c].phase # "none" /\ claim[c].vr /\ data[c] \in {entry[c].snap, Live}
        /\ data[c] = Live => claim[c].state = "bound" /\ (claim[c].plain \/ entry[c].since)
        /\ claim[c].state = "absent" => entry[c].phase = "none"

DbInv ==
    /\ store.tip <= store.wal /\ (store.archived \/ store.tip = 0)
    /\ request # None => db.state = "gone"
    /\ db.state = "gone" => db.moment = 0

(* Next to a claim that an app has written to, the webhook asks for the    *)
(* whole archive.                                                          *)
LiveInv ==
    request # None /\ (\E c \in Claims : data[c] = Live) =>
        IF request.empty THEN store.tip = 0 ELSE request.base = 0

(* Before everything is applied nobody has decided anything. *)
ReadyInv ==
    Together /\ ~Applied =>
        /\ db.state = "gone" /\ request = None
        /\ \A c \in Claims : entry[c].phase = "none" /\ pass[c].pc = "idle"

(* The populator chooses the paused moment for every claim. *)
ChoiceInv ==
    Together /\ Applied /\ Moment # 0 =>
        \A c \in Claims : claim[c].pin = 0 /\ claim[c].state = "unbound" =>
            /\ entry[c].phase # "none" => entry[c].snap = Moment
            /\ pass[c].pc = "record" => pass[c].snap = Moment

(* The namespace comes back from moment m: what is filled was filled from  *)
(* it, and what is not will be.                                            *)
Joined(m) ==
    /\ Applied
    /\ \A c \in Claims :
         /\ ~claim[c].plain /\ claim[c].pin = 0
         /\ claim[c].state = "bound" => data[c] \in {m, Live}
         /\ claim[c].state = "unbound" => Moment = m

JoinedInv ==
    Together =>
        /\ request # None /\ request.moment # 0 => Joined(request.moment)
        /\ db.moment # 0 => Joined(db.moment)

(* While the claims come back from the paused moment, the database is not  *)
(* ahead of them: neither the Cluster nor the one that is asked for, nor   *)
(* an archive that a Cluster of this rebuild has written to.               *)
FromTheMoment ==
    /\ Together /\ Applied /\ Moment # 0
    /\ \A c \in Claims : /\ ~claim[c].plain /\ claim[c].pin = 0
                         /\ claim[c].state = "bound" => data[c] = Moment

Behind(t) == t <= Moment \/ AtOrBefore(store.bases, Moment) = {}

BehindInv ==
    FromTheMoment =>
        /\ (\E c \in Claims : entry[c].since) => Behind(store.tip)
        /\ db.state # "gone" => Behind(db.content)
        /\ request # None /\ ~request.empty =>
             IF request.base # 0 THEN Behind(request.base) ELSE Behind(store.tip)

Own == PassInv /\ JobHasSlot /\ ClaimInv
IInv == TypeOK /\ Own /\ DbInv /\ LiveInv /\ ReadyInv /\ ChoiceInv /\ JoinedInv /\ BehindInv

-----------------------------------------------------------------------------
(* The greatest of some moments, and the paused moment. *)

LEMMA MaxMoment ==
    ASSUME NEW S \in SUBSET Moments
    PROVE  /\ Max({0} \cup S) \in {0} \cup S
           /\ \A t \in S : t <= Max({0} \cup S)
           /\ Max({0} \cup S) = 0 => S = {}
<1> DEFINE T == {0} \cup S
<1>1. T \in SUBSET Nat /\ T # {} /\ Horizon \in Nat /\ \A t \in T : t <= Horizon
  BY BoundsAssumption DEF Moments
<1>2. Max(T) \in T /\ \A t \in T : t <= Max(T)
  <2> HIDE DEF T
  <2> QED
    BY <1>1, MaxOfBounded
<1>3. Max(T) = 0 => S = {}
  <2> HIDE DEF T
  <2>1. \A t \in S : t \in T /\ t \in Nat /\ t > 0
    BY BoundsAssumption DEF T, Moments
  <2> QED
    BY <1>2, <2>1
<1> QED
  BY <1>2, <1>3

LEMMA MaxOfMoments ==
    ASSUME NEW S \in SUBSET Moments, S # {}
    PROVE  Max(S) \in S
<1>1. S \in SUBSET Nat /\ Horizon \in Nat /\ \A t \in S : t <= Horizon
  BY BoundsAssumption DEF Moments
<1> QED
  BY <1>1, MaxOfBounded

(* The store, field by field. *)
LEMMA StoreFields ==
    ASSUME TypeOK
    PROVE  /\ \A c \in Claims : store.snaps[c] \subseteq Moments
           /\ store.paused \subseteq Moments /\ store.bases \subseteq Moments
           /\ store.wal \in 0 .. Live /\ store.tip \in 0 .. Live /\ store.archived \in BOOLEAN
           /\ store.tag \in [Moments -> {"base", "hibernated", "none"}]
           /\ store.snaps \in [Claims -> SUBSET Moments]
BY DEF TypeOK, Stores

(* A paused moment is in every repository that a VolumeRestore names, and  *)
(* there is one.                                                           *)
LEMMA MomentFacts ==
    ASSUME TypeOK
    PROVE  /\ Moment \in 0 .. Horizon
           /\ Moment # 0 => Moment \in Moments /\ \A c \in Claims : claim[c].vr => Moment \in store.snaps[c]
           /\ Moment # 0 => \E c \in Claims : claim[c].vr
<1> DEFINE S == UNION {store.snaps[c] \cap store.paused : c \in Repositories}
           newest == Max({0} \cup S)
<1>1. S \in SUBSET Moments
  BY StoreFields DEF Repositories
<1>2. newest \in {0} \cup S /\ (S = {} => newest = 0)
  <2> HIDE DEF S
  <2> QED
    BY <1>1, MaxMoment
<1>3. Moment = IF newest # 0 /\ \A c \in Repositories : newest \in store.snaps[c] THEN newest ELSE 0
  BY DEF Moment
<1>4. newest # 0 => newest \in S /\ \E c \in Repositories : TRUE
  BY <1>2
<1>5. newest # 0 => newest \in Moments
  BY <1>1, <1>4
<1> HIDE DEF newest, S
<1>6. Moment # 0 => Moment \in Moments
  BY <1>3, <1>5
<1> QED
  BY <1>3, <1>4, <1>6, BoundsAssumption DEF Repositories, Moments

LEMMA MomentStays ==
    ASSUME Repositories' = Repositories, store'.snaps = store.snaps, store'.paused = store.paused
    PROVE  Moment' = Moment
BY DEF Moment

-----------------------------------------------------------------------------
(* Types. *)

LEMMA Types ==
    TypeOK <=> /\ claim \in [Claims -> ClaimType] /\ entry \in [Claims -> EntryType]
               /\ pass \in [Claims -> PassType]
               /\ wl \in [Claims -> {"none", "pending", "admitted", "evicted"}]
               /\ job \in [Claims -> {"none", "running", "succeeded", "failed"}]
               /\ data \in [Claims -> 0 .. Live] /\ store \in Stores /\ db \in DbType
               /\ request \in {None} \cup RequestType
BY DEF TypeOK, ClaimType, EntryType, PassType, DbType, RequestType

LEMMA InitType == Init => TypeOK
<1> SUFFICES ASSUME Init PROVE TypeOK
  OBVIOUS
<1>1. PICK plain \in SUBSET Claims, pins \in Pins :
        /\ claim = [c \in Claims |-> [state |-> IF c \in plain THEN "bound" ELSE "absent",
                                      vr |-> FALSE, plain |-> c \in plain, pin |-> pins[c]]]
        /\ data = [c \in Claims |-> IF c \in plain THEN Live ELSE 0]
  BY DEF Init
<1>2. ASSUME NEW c \in Claims PROVE claim[c] \in ClaimType
  <2>1. pins[c] \in 0 .. Horizon
    BY BoundsAssumption
  <2>2. (c \in plain) \in BOOLEAN
    OBVIOUS
  <2> DEFINE b == c \in plain
  <2>3. claim[c] = [state |-> IF b THEN "bound" ELSE "absent", vr |-> FALSE, plain |-> b, pin |-> pins[c]]
    BY <1>1
  <2> HIDE DEF b
  <2>4. b \in BOOLEAN
    BY <2>2 DEF b
  <2> QED
    BY <2>1, <2>3, <2>4 DEF ClaimType
<1>3. claim \in [Claims -> ClaimType]
  BY <1>1, <1>2
<1>4. data \in [Claims -> 0 .. Live]
  BY <1>1, BoundsAssumption DEF Live
<1>5. /\ entry \in [Claims -> EntryType] /\ pass \in [Claims -> PassType] /\ db \in DbType
      /\ request \in {None} \cup RequestType
  BY BoundsAssumption DEF Init, NoEntry, NoPass, Gone, EntryType, PassType, DbType, Live
<1> QED
  BY <1>3, <1>4, <1>5, HistoriesAssumption, Types DEF Init

LEMMA PassTypes ==
    ASSUME TypeOK, NEW c \in Claims, NEW pc \in {"decide", "record", "start", "bind"}, NEW t \in 0 .. Horizon
    PROVE  (Goto(c, pc, t) \/ StopPass(c)) => pass' \in [Claims -> PassType]
<1>1. [pc |-> pc, snap |-> t] \in PassType /\ NoPass \in PassType
  BY BoundsAssumption DEF PassType, NoPass
<1> QED
  BY <1>1, Types DEF Goto, StopPass

LEMMA ChosenType ==
    ASSUME TypeOK, NEW c \in Claims
    PROVE  /\ ChooseUnpinned(c) \in 0 .. Horizon
           /\ AtOrBefore(store.snaps[c], claim[c].pin) # {} =>
                Max(AtOrBefore(store.snaps[c], claim[c].pin)) \in 0 .. Horizon
<1>1. Moment \in 0 .. Horizon /\ store.snaps[c] \subseteq Moments
  BY MomentFacts, StoreFields
<1>2. Max({0} \cup store.snaps[c]) \in {0} \cup store.snaps[c]
  BY <1>1, MaxMoment
<1>3. AtOrBefore(store.snaps[c], claim[c].pin) # {} =>
        Max(AtOrBefore(store.snaps[c], claim[c].pin)) \in AtOrBefore(store.snaps[c], claim[c].pin)
  BY <1>1, MaxOfMoments DEF AtOrBefore
<1> QED
  BY <1>1, <1>2, <1>3, BoundsAssumption DEF ChooseUnpinned, Moments, AtOrBefore

(* One field of a claim or of an entry changes. *)
LEMMA ClaimTypes ==
    ASSUME TypeOK, NEW c \in Claims,
           \/ claim' = [claim EXCEPT ![c].state = "unbound"]
           \/ claim' = [claim EXCEPT ![c].state = "bound"]
           \/ claim' = [claim EXCEPT ![c].vr = TRUE]
           \/ claim' = [claim EXCEPT ![c].pin = 0]
    PROVE  claim' \in [Claims -> ClaimType]
<1>1. claim[c] \in ClaimType /\ claim \in [Claims -> ClaimType]
  BY Types
<1>2. 0 \in 0 .. Horizon
  BY BoundsAssumption
<1>3. /\ [claim[c] EXCEPT !.state = "unbound"] \in ClaimType
      /\ [claim[c] EXCEPT !.state = "bound"] \in ClaimType
  BY <1>1 DEF ClaimType
<1>4. [claim[c] EXCEPT !.vr = TRUE] \in ClaimType
  BY <1>1 DEF ClaimType
<1>5. [claim[c] EXCEPT !.pin = 0] \in ClaimType
  BY <1>1, <1>2 DEF ClaimType
<1> QED
  BY <1>1, <1>3, <1>4, <1>5

LEMMA EntryTypes ==
    ASSUME TypeOK, NEW c \in Claims, NEW phase \in {"Restoring", "Failed", "Restored"}, NEW t \in 0 .. Horizon,
           \/ entry' = [entry EXCEPT ![c].phase = phase]
           \/ entry' = [entry EXCEPT ![c].phase = phase, ![c].snap = t]
    PROVE  entry' \in [Claims -> EntryType]
<1>1. entry[c] \in EntryType /\ entry \in [Claims -> EntryType]
  BY Types
<1>2. ASSUME NEW x \in EntryType
      PROVE  [x EXCEPT !.phase = phase] \in EntryType /\ [x EXCEPT !.snap = t] \in EntryType
  BY DEF EntryType
<1>3. [entry EXCEPT ![c].phase = phase] \in [Claims -> EntryType]
  BY <1>1, <1>2
<1>4. [entry EXCEPT ![c].phase = phase, ![c].snap = t] \in [Claims -> EntryType]
  BY <1>2, <1>3
<1> QED
  BY <1>3, <1>4

LEMMA PopulatorType == ASSUME TypeOK, NEW c \in Claims, Populator(c) PROVE TypeOK'
<1> USE BoundsAssumption
<1>1. pass' \in [Claims -> PassType]
  <2>1. CASE pass' = pass
    BY <2>1, Types
  <2>2. CASE StopPass(c)
    BY <2>2, PassTypes
  <2>3. ASSUME NEW pc \in {"decide", "record", "start", "bind"}, NEW t \in 0 .. Horizon, Goto(c, pc, t)
        PROVE  pass' \in [Claims -> PassType]
    BY <2>3, PassTypes
  <2>4. entry[c].snap \in 0 .. Horizon /\ pass[c].snap \in 0 .. Horizon
    BY Types DEF EntryType, PassType
  <2> QED
    BY <2>1, <2>2, <2>3, <2>4, ChosenType
       DEF Populator, Populate, Pick, Unreachable, Record, Start, Complete, Bind, Cleanup
<1>2. entry' \in [Claims -> EntryType]
  <2>1. \E phase \in {"Restoring", "Failed", "Restored"}, t \in 0 .. Horizon :
          \/ entry' = entry
          \/ entry' = [entry EXCEPT ![c].phase = phase]
          \/ entry' = [entry EXCEPT ![c].phase = phase, ![c].snap = t]
    <3>1. pass[c].snap \in 0 .. Horizon /\ 0 \in 0 .. Horizon
      BY Types DEF PassType
    <3> QED
      BY <3>1 DEF Populator, Populate, Pick, Unreachable, Record, Start, Complete, Bind, Cleanup
  <2> QED
    <3>1. PICK phase \in {"Restoring", "Failed", "Restored"}, t \in 0 .. Horizon :
          \/ entry' = entry
          \/ entry' = [entry EXCEPT ![c].phase = phase]
          \/ entry' = [entry EXCEPT ![c].phase = phase, ![c].snap = t]
      BY <2>1
    <3> QED
      BY <3>1, EntryTypes, Types
<1>3. /\ wl' \in [Claims -> {"none", "pending", "admitted", "evicted"}]
      /\ job' \in [Claims -> {"none", "running", "succeeded", "failed"}]
  BY Types DEF Populator, Populate, Pick, Unreachable, Record, Start, Complete, Bind, Cleanup
<1>4. claim' \in [Claims -> ClaimType] /\ data' \in [Claims -> 0 .. Live]
  <2>1. claim' = claim \/ claim' = [claim EXCEPT ![c].state = "bound"]
    BY DEF Populator, Populate, Pick, Unreachable, Record, Start, Complete, Bind, Cleanup
  <2>2. data' = data \/ data' = [data EXCEPT ![c] = pass[c].snap]
    BY DEF Populator, Populate, Pick, Unreachable, Record, Start, Complete, Bind, Cleanup
  <2>3. pass[c].snap \in 0 .. Live
    BY Types DEF PassType, Live
  <2> QED
    BY <2>1, <2>2, <2>3, Types, ClaimTypes
<1>5. UNCHANGED <<store, db, request>>
  BY DEF Populator, Populate, Pick, Unreachable, Record, Start, Complete, Bind, Cleanup
<1> QED
  BY <1>1, <1>2, <1>3, <1>4, <1>5, Types DEF TypeOK, ClaimType, EntryType, PassType

LEMMA SmallType ==
    ASSUME TypeOK, NEW c \in Claims,
           \/ Troubles(c) \/ Admit(c) \/ JobSucceeds(c) \/ AdminDeletesJob(c)
           \/ ApplyRestore(c) \/ ApplyClaim(c) \/ Unpin(c)
    PROVE  TypeOK'
<1>1. UNCHANGED <<entry, data, store, db, request>>
  BY DEF Troubles, Fail, Evict, JobFails, Admit, JobSucceeds, AdminDeletesJob, ApplyRestore, ApplyClaim, Unpin,
         restores
<1>2. pass' = pass \/ StopPass(c)
  BY DEF Troubles, Fail, Evict, JobFails, Admit, JobSucceeds, AdminDeletesJob, ApplyRestore, ApplyClaim, Unpin,
         restores
<1>3. pass' \in [Claims -> PassType]
  <2>1. 0 \in 0 .. Horizon
    BY BoundsAssumption
  <2> QED
    BY <1>2, <2>1, PassTypes, Types
<1>4. claim' \in [Claims -> ClaimType]
  BY Types, ClaimTypes
     DEF Troubles, Fail, Evict, JobFails, Admit, JobSucceeds, AdminDeletesJob, ApplyRestore, ApplyClaim,
         Unpin, restores
<1>5. /\ wl' \in [Claims -> {"none", "pending", "admitted", "evicted"}]
      /\ job' \in [Claims -> {"none", "running", "succeeded", "failed"}]
  BY Types DEF Troubles, Fail, Evict, JobFails, Admit, JobSucceeds, AdminDeletesJob, ApplyRestore, ApplyClaim, Unpin,
         restores
<1> QED
  BY <1>1, <1>3, <1>4, <1>5, Types DEF TypeOK, ClaimType, PassType

LEMMA RecoverType ==
    ASSUME TypeOK, NEW m \in Moments
    PROVE  /\ Recover(m) \in 0 .. Horizon
           /\ Recover(m) # 0 => Recover(m) <= m
           /\ Recover(m) = 0 => \/ store.tag[m] = "hibernated" /\ ~Woken(m)
                                \/ AtOrBefore(store.bases, m) = {}
<1>1. AtOrBefore(store.bases, m) \in SUBSET Moments
  BY StoreFields DEF AtOrBefore
<1>2. PICK t : t = Max({0} \cup AtOrBefore(store.bases, m))
  OBVIOUS
<1>3. t \in {0} \cup AtOrBefore(store.bases, m) /\ (t = 0 => AtOrBefore(store.bases, m) = {})
  BY <1>1, <1>2, MaxMoment
<1>4. t \in 0 .. Horizon /\ (t # 0 => t <= m)
  BY <1>1, <1>3, BoundsAssumption DEF AtOrBefore, Moments
<1>5. m \in 1 .. Horizon
  BY DEF Moments
<1>6. CASE store.tag[m] = "base" /\ m \in store.bases
  BY <1>5, <1>6, BoundsAssumption DEF Recover
<1>7. CASE ~(store.tag[m] = "base" /\ m \in store.bases) /\ store.tag[m] = "hibernated" /\ ~Woken(m)
  BY <1>7, BoundsAssumption DEF Recover
<1>8. CASE ~(store.tag[m] = "base" /\ m \in store.bases) /\ ~(store.tag[m] = "hibernated" /\ ~Woken(m))
  BY <1>2, <1>3, <1>4, <1>8 DEF Recover
<1> QED
  BY <1>6, <1>7, <1>8

LEMMA AutomaticType == ASSUME TypeOK PROVE AutomaticRecovery \in RequestType
<1>1. Moment \in 0 .. Horizon /\ (Moment # 0 => Recover(Moment) \in 0 .. Horizon)
  BY MomentFacts, RecoverType
<1> QED
  BY <1>1, BoundsAssumption DEF AutomaticRecovery, RequestType

LEMMA HandleType == ASSUME TypeOK, Handle PROVE TypeOK'
<1>1. request' \in RequestType
  <2>1. [base |-> 0, moment |-> 0, empty |-> TRUE] \in RequestType
    BY BoundsAssumption DEF RequestType
  <2> QED
    BY <2>1, AutomaticType DEF Handle
<1>2. UNCHANGED <<claim, entry, pass, wl, job, data, store, db>>
  BY DEF Handle, restores
<1> QED
  BY <1>1, <1>2 DEF TypeOK, RequestType

LEMMA StoreClusterType == ASSUME TypeOK, StoreCluster PROVE TypeOK'
<1>1. request \in RequestType /\ store.tip \in 0 .. Live
  BY Types, StoreFields DEF StoreCluster
<1>2. PICK content : content = IF request.empty THEN 0 ELSE IF request.base # 0 THEN request.base ELSE store.tip
  OBVIOUS
<1>3. content \in 0 .. Live /\ request.moment \in 0 .. Horizon
  BY <1>1, <1>2, BoundsAssumption DEF RequestType, Live
<1>4. db' = [state |-> "recovering", moment |-> request.moment, content |-> content]
  BY <1>2 DEF StoreCluster
<1>5. db' \in DbType
  BY <1>3, <1>4 DEF DbType
<1>6. UNCHANGED <<claim, entry, pass, wl, job, data, store>> /\ request' = None
  BY DEF StoreCluster, restores
<1> QED
  BY <1>5, <1>6 DEF TypeOK, DbType

LEMMA ArchiveType ==
    ASSUME TypeOK, NEW content \in 0 .. Live, Archive(content)
    PROVE  store' \in Stores /\ entry' \in [Claims -> EntryType]
<1>1. store' \in Stores
  <2>1. [store EXCEPT !.tip = content] \in Stores
    BY DEF TypeOK, Stores
  <2>2. Live \in 0 .. Live
    BY BoundsAssumption DEF Live
  <2>3. ASSUME NEW s \in Stores PROVE [s EXCEPT !.wal = Live] \in Stores
    BY <2>2 DEF Stores
  <2>4. ASSUME NEW s \in Stores PROVE [s EXCEPT !.archived = TRUE] \in Stores
    BY DEF Stores
  <2> QED
    BY <2>1, <2>3, <2>4 DEF Archive
<1>2. ASSUME NEW c \in Claims PROVE [entry[c] EXCEPT !.since = entry[c].phase # "none"] \in EntryType
  <2>1. (entry[c].phase # "none") \in BOOLEAN
    OBVIOUS
  <2> DEFINE b == entry[c].phase # "none"
  <2> HIDE DEF b
  <2>2. b \in BOOLEAN /\ entry[c] \in EntryType
    BY <2>1, Types DEF b
  <2>3. [entry[c] EXCEPT !.since = b] \in EntryType
    BY <2>2 DEF EntryType
  <2> QED
    BY <2>3 DEF b
<1> QED
  BY <1>1, <1>2 DEF Archive

LEMMA ClusterType ==
    ASSUME TypeOK, Recovered \/ AppWrites \/ ClusterGone
    PROVE  TypeOK'
<1> USE BoundsAssumption
<1>1. CASE Recovered
  <2>1. db.content \in 0 .. Live /\ db' \in DbType
    BY <1>1, Types DEF Recovered, DbType
  <2> QED
    BY <1>1, <2>1, ArchiveType DEF Recovered, TypeOK, DbType, EntryType
<1>2. CASE AppWrites
  <2>1. Live \in 0 .. Live
    BY DEF Live
  <2>2. db' \in DbType
    BY <1>2, <2>1, Types DEF AppWrites, DbType
  <2>3. data' \in [Claims -> 0 .. Live]
    BY <1>2, <2>1 DEF AppWrites
  <2>4. store' \in Stores /\ entry' \in [Claims -> EntryType]
    BY <1>2, <2>1, ArchiveType DEF AppWrites
  <2> QED
    BY <1>2, <2>2, <2>3, <2>4 DEF AppWrites, TypeOK, DbType, EntryType
<1>3. CASE ClusterGone
  <2>1. db' \in DbType
    BY <1>3 DEF ClusterGone, Gone, DbType, Live
  <2> QED
    BY <1>3, <2>1 DEF ClusterGone, restores, TypeOK, DbType
<1> QED
  BY <1>1, <1>2, <1>3

LEMMA BackupType == ASSUME TypeOK, Backup PROVE TypeOK'
<1>1. PICK t \in Moments :
        store' = [store EXCEPT !.snaps = [c \in Claims |-> IF claim[c].plain THEN @[c] ELSE @[c] \cup {t}],
                               !.paused = @ \cup {t}, !.bases = @ \cup {t}, !.tag[t] = "base"]
  BY DEF Backup
<1>2. PICK snaps : snaps = [c \in Claims |-> IF claim[c].plain THEN store.snaps[c] ELSE store.snaps[c] \cup {t}]
  OBVIOUS
<1>3. snaps \in [Claims -> SUBSET Moments]
  BY <1>2, StoreFields
<1>4. [store.tag EXCEPT ![t] = "base"] \in [Moments -> {"base", "hibernated", "none"}]
  BY StoreFields
<1>5. store.paused \cup {t} \in SUBSET Moments /\ store.bases \cup {t} \in SUBSET Moments
  BY StoreFields
<1>6. store' \in Stores
  BY <1>1, <1>2, <1>3, <1>4, <1>5 DEF TypeOK, Stores
<1>7. UNCHANGED <<claim, entry, pass, wl, job, data, db, request>>
  BY DEF Backup, restores
<1> QED
  BY <1>6, <1>7 DEF TypeOK

LEMMA WipeType == ASSUME TypeOK, Wipe PROVE TypeOK'
<1>1. ASSUME NEW c \in Claims PROVE [claim[c] EXCEPT !.state = "absent", !.vr = FALSE] \in ClaimType
  <2>1. claim[c] \in ClaimType
    BY Types
  <2>2. [claim[c] EXCEPT !.state = "absent"] \in ClaimType
    BY <2>1 DEF ClaimType
  <2> QED
    BY <2>1, <2>2 DEF ClaimType
<1>2. claim' \in [Claims -> ClaimType]
  BY <1>1 DEF Wipe
<1>3. data' \in [Claims -> 0 .. Live] /\ entry' \in [Claims -> EntryType]
  <2>1. 0 \in 0 .. Live /\ 0 \in 0 .. Horizon
    BY BoundsAssumption DEF Live
  <2>2. NoEntry \in EntryType
    BY <2>1 DEF NoEntry, EntryType
  <2> QED
    BY <2>1, <2>2 DEF Wipe
<1>4. UNCHANGED <<pass, wl, job, store, db, request>>
  BY DEF Wipe
<1> QED
  BY <1>2, <1>3, <1>4 DEF TypeOK, ClaimType, EntryType

LEMMA NextType == TypeOK /\ [Next]_vars => TypeOK'
<1>1. TypeOK /\ UNCHANGED vars => TypeOK'
  BY DEF TypeOK, vars, restores
<1> QED
  BY <1>1, PopulatorType, SmallType, HandleType, StoreClusterType, ClusterType, BackupType, WipeType DEF Next

-----------------------------------------------------------------------------
(* The claims, their passes and their Jobs. *)

LEMMA InitOwn == Init => Own
<1> SUFFICES ASSUME Init PROVE Own
  OBVIOUS
<1>1. PICK plain \in SUBSET Claims, pins \in Pins :
        /\ claim = [c \in Claims |-> [state |-> IF c \in plain THEN "bound" ELSE "absent",
                                      vr |-> FALSE, plain |-> c \in plain, pin |-> pins[c]]]
        /\ data = [c \in Claims |-> IF c \in plain THEN Live ELSE 0]
  BY DEF Init
<1>2. PassInv /\ JobHasSlot
  BY DEF Init, NoPass, PassInv, JobHasSlot
<1>3. Live # 0
  BY BoundsAssumption DEF Live
<1>4. ASSUME NEW c \in Claims
      PROVE  /\ ~claim[c].vr /\ (claim[c].plain <=> c \in plain)
             /\ claim[c].state = IF c \in plain THEN "bound" ELSE "absent"
  BY <1>1
<1>5. \A c \in Claims : entry[c].phase = "none" /\ ~entry[c].since
  BY DEF Init, NoEntry
<1>6. ClaimInv
  BY <1>1, <1>3, <1>4, <1>5 DEF ClaimInv
<1> QED
  BY <1>2, <1>6 DEF Own

(* What a step on claim c leaves alone, and what it does to that claim. *)
LEMMA OthersOwn ==
    ASSUME TypeOK, Own, NEW c \in Claims,
           \A d \in Claims \ {c} : /\ claim'[d] = claim[d] /\ entry'[d] = entry[d] /\ pass'[d] = pass[d]
                                   /\ wl'[d] = wl[d] /\ job'[d] = job[d] /\ data'[d] = data[d],
           /\ pass'[c].pc = "idle" => pass'[c].snap = 0
           /\ pass'[c].pc # "idle" => claim'[c].state = "unbound" /\ claim'[c].vr
           /\ pass'[c].pc \in {"decide", "record", "start"} => job'[c] = "none" /\ wl'[c] # "none"
           /\ pass'[c].pc \in {"start", "bind"} => entry'[c].phase # "none" /\ pass'[c].snap = entry'[c].snap
           /\ job'[c] # "none" => entry'[c].phase # "none",
           job'[c] = "running" => wl'[c] # "none",
           /\ claim'[c].plain => claim'[c].state = "bound" /\ ~claim'[c].vr
           /\ entry'[c].phase = "none" => ~entry'[c].since
           /\ claim'[c].state = "bound" /\ ~claim'[c].plain =>
                entry'[c].phase # "none" /\ claim'[c].vr /\ data'[c] \in {entry'[c].snap, Live}
           /\ data'[c] = Live => claim'[c].state = "bound" /\ (claim'[c].plain \/ entry'[c].since)
           /\ claim'[c].state = "absent" => entry'[c].phase = "none"
    PROVE  Own'
<1>1. PassInv'
  BY DEF Own, PassInv
<1>2. JobHasSlot'
  BY DEF Own, JobHasSlot
<1>3. ClaimInv'
  BY DEF Own, ClaimInv
<1> QED
  BY <1>1, <1>2, <1>3 DEF Own

LEMMA PopulateOwn == ASSUME TypeOK, Own, NEW c \in Claims, Populate(c) PROVE Own'
<1>1. /\ UNCHANGED <<claim, entry, job, data>> /\ job[c] = "none" /\ claim[c].state = "unbound" /\ claim[c].vr
      /\ \A d \in Claims \ {c} : pass'[d] = pass[d] /\ wl'[d] = wl[d]
  BY Types DEF Populate, Goto
<1>2. \/ pass'[c] = pass[c] /\ pass[c].pc = "idle"
      \/ pass'[c].pc = "decide" /\ wl'[c] = "admitted"
      \/ pass'[c].pc = "start" /\ wl'[c] = "admitted" /\ pass'[c].snap = entry[c].snap /\ entry[c].phase = "Restoring"
  BY Types DEF Populate, Goto, Decided, NoPass
<1> QED
  BY <1>1, <1>2, OthersOwn DEF Own, PassInv, JobHasSlot, ClaimInv

LEMMA DecideOwn ==
    ASSUME TypeOK, Own, NEW c \in Claims, Pick(c) \/ Unreachable(c) \/ Record(c) PROVE Own'
<1>1. /\ UNCHANGED <<claim, job, data>> /\ pass[c].pc \in {"decide", "record"}
      /\ \A d \in Claims \ {c} : pass'[d] = pass[d] /\ wl'[d] = wl[d] /\ entry'[d] = entry[d]
  BY Types DEF Pick, Unreachable, Record, Goto, StopPass
<1>2. job[c] = "none" /\ wl[c] # "none" /\ claim[c].state = "unbound" /\ claim[c].vr
  BY <1>1 DEF Own, PassInv
<1>3. \/ /\ pass'[c].pc = "record" /\ wl'[c] = wl[c] /\ entry'[c] = entry[c]
      \/ /\ pass'[c].pc = "idle" /\ pass'[c].snap = 0
         /\ entry'[c].phase # "none" /\ entry'[c].since = entry[c].since
      \/ /\ pass'[c].pc = "start" /\ wl'[c] = wl[c] /\ pass'[c].snap = entry'[c].snap
         /\ entry'[c].phase # "none" /\ entry'[c].since = entry[c].since
  <2>1. CASE Pick(c)
    BY <2>1, Types DEF Pick, Goto
  <2>2. CASE Unreachable(c)
    BY <2>2, Types DEF Unreachable, StopPass, NoPass, EntryType
  <2>3. CASE Record(c)
    BY <2>3, Types DEF Record, StopPass, NoPass, EntryType, Goto
  <2> QED
    BY <2>1, <2>2, <2>3
<1> QED
  BY <1>1, <1>2, <1>3, OthersOwn DEF Own, PassInv, JobHasSlot, ClaimInv

LEMMA StartOwn == ASSUME TypeOK, Own, NEW c \in Claims, Start(c) PROVE Own'
<1>1. /\ UNCHANGED <<claim, entry, wl, data>> /\ pass[c].pc = "start"
      /\ job'[c] = "running" /\ pass'[c].pc = "idle" /\ pass'[c].snap = 0
      /\ \A d \in Claims \ {c} : pass'[d] = pass[d] /\ job'[d] = job[d]
  BY Types DEF Start, StopPass, NoPass
<1> QED
  BY <1>1, OthersOwn DEF Own, PassInv, JobHasSlot, ClaimInv

LEMMA FailOwn == ASSUME TypeOK, Own, NEW c \in Claims, Fail(c) PROVE Own'
<1>1. /\ UNCHANGED <<claim, entry, job, data>>
      /\ pass'[c].pc = "idle" /\ pass'[c].snap = 0
      /\ \A d \in Claims \ {c} : pass'[d] = pass[d] /\ wl'[d] = wl[d]
  BY Types DEF Fail, StopPass, NoPass
<1>2. wl'[c] = wl[c] \/ pass[c].pc \in {"decide", "record"} \/ job[c] = "failed"
  BY Types DEF Fail
<1> QED
  BY <1>1, <1>2, OthersOwn DEF Own, PassInv, JobHasSlot, ClaimInv

LEMMA CompleteOwn == ASSUME TypeOK, Own, NEW c \in Claims, Complete(c) PROVE Own'
<1>1. /\ UNCHANGED <<claim, job, data>> /\ job[c] # "running" /\ pass[c].pc = "idle" /\ pass[c].snap = 0
      /\ claim[c].state = "unbound" /\ claim[c].vr
      /\ \A d \in Claims \ {c} : pass'[d] = pass[d] /\ wl'[d] = wl[d] /\ entry'[d] = entry[d]
  BY Types DEF Complete, Goto, NoPass
<1>2. \/ /\ entry'[c] = entry[c] /\ pass'[c].pc = "bind" /\ pass'[c].snap = entry[c].snap
         /\ job[c] # "none" \/ entry[c].phase = "Restoring"
      \/ /\ pass'[c] = pass[c] /\ entry'[c].phase = "Failed" /\ entry'[c].since = entry[c].since
         /\ job[c] = "failed"
  BY Types DEF Complete, Goto, Decided, EntryType
<1> QED
  BY <1>1, <1>2, OthersOwn DEF Own, PassInv, JobHasSlot, ClaimInv

LEMMA BindOwn == ASSUME TypeOK, Own, NEW c \in Claims, Bind(c) PROVE Own'
<1>1. /\ UNCHANGED <<entry, job, wl>> /\ pass[c].pc = "bind"
      /\ pass'[c].pc = "idle" /\ pass'[c].snap = 0 /\ data'[c] = pass[c].snap
      /\ \A d \in Claims \ {c} : pass'[d] = pass[d] /\ claim'[d] = claim[d] /\ data'[d] = data[d]
  BY Types DEF Bind, StopPass, NoPass
<1>2. claim'[c].state = "bound" /\ claim'[c].vr = claim[c].vr /\ claim'[c].plain = claim[c].plain
  BY Types DEF Bind, ClaimType
<1>3. data'[c] # Live
  BY <1>1, Types, BoundsAssumption DEF PassType, Live
<1> QED
  BY <1>1, <1>2, <1>3, OthersOwn DEF Own, PassInv, JobHasSlot, ClaimInv

LEMMA CleanupOwn == ASSUME TypeOK, Own, NEW c \in Claims, Cleanup(c) PROVE Own'
<1>1. /\ UNCHANGED <<claim, pass, data>> /\ job'[c] = "none" /\ claim[c].state = "bound"
      /\ \A d \in Claims \ {c} : job'[d] = job[d] /\ wl'[d] = wl[d] /\ entry'[d] = entry[d]
  BY Types DEF Cleanup
<1>2. entry'[c].phase = "Restored" /\ entry'[c].since = entry[c].since /\ entry'[c].snap = entry[c].snap
  BY Types DEF Cleanup, EntryType
<1> QED
  BY <1>1, <1>2, OthersOwn DEF Own, PassInv, JobHasSlot, ClaimInv

LEMMA KueueOwn ==
    ASSUME TypeOK, Own, NEW c \in Claims, Admit(c) \/ Evict(c) \/ JobSucceeds(c) \/ JobFails(c) \/ AdminDeletesJob(c)
    PROVE  Own'
<1>1. /\ UNCHANGED <<claim, entry, pass, data>>
      /\ \A d \in Claims \ {c} : job'[d] = job[d] /\ wl'[d] = wl[d]
  BY Types DEF Admit, Evict, JobSucceeds, JobFails, AdminDeletesJob
<1>2. \/ job'[c] = job[c] /\ wl'[c] # "none"
      \/ wl'[c] = wl[c] /\ job[c] # "none" /\ job'[c] # "running"
  BY Types DEF Admit, Evict, JobSucceeds, JobFails, AdminDeletesJob
<1> QED
  BY <1>1, <1>2, OthersOwn DEF Own, PassInv, JobHasSlot, ClaimInv

LEMMA FluxOwn ==
    ASSUME TypeOK, Own, NEW c \in Claims, ApplyRestore(c) \/ ApplyClaim(c) \/ Unpin(c)
    PROVE  Own'
<1>1. /\ UNCHANGED <<entry, pass, wl, job, data>>
      /\ \A d \in Claims \ {c} : claim'[d] = claim[d]
  BY Types DEF ApplyRestore, ApplyClaim, Unpin, restores
<1>2. /\ claim'[c].plain = claim[c].plain
      /\ \/ claim'[c].state = claim[c].state /\ claim'[c].vr /\ ~claim[c].plain
         \/ claim'[c].state = "unbound" /\ claim[c].state = "absent" /\ claim'[c].vr = claim[c].vr
         \/ claim'[c].state = claim[c].state /\ claim'[c].vr = claim[c].vr
  BY Types DEF ApplyRestore, ApplyClaim, Unpin, ClaimType
<1> QED
  BY <1>1, <1>2, OthersOwn DEF Own, PassInv, JobHasSlot, ClaimInv

(* WAL reaches the archive. *)
LEMMA ArchiveSince ==
    ASSUME TypeOK, NEW content, Archive(content)
    PROVE  \A c \in Claims : /\ entry'[c].phase = entry[c].phase /\ entry'[c].snap = entry[c].snap
                             /\ entry'[c].since <=> entry[c].phase # "none"
BY Types DEF Archive, EntryType

LEMMA ClusterOwn == ASSUME TypeOK, Own, Recovered \/ AppWrites PROVE Own'
<1>1. UNCHANGED <<claim, pass, wl, job>>
  BY DEF Recovered, AppWrites
<1>2. \A c \in Claims : /\ entry'[c].phase = entry[c].phase /\ entry'[c].snap = entry[c].snap
                        /\ entry'[c].since <=> entry[c].phase # "none"
  BY ArchiveSince DEF Recovered, AppWrites
<1>3. \/ data' = data
      \/ \A c \in Claims : data'[c] = Live /\ claim[c].state = "bound"
  BY DEF Recovered, AppWrites
<1>4. PassInv' /\ JobHasSlot'
  BY <1>1, <1>2 DEF Own, PassInv, JobHasSlot
<1>5. ClaimInv'
  BY <1>1, <1>2, <1>3 DEF Own, ClaimInv
<1> QED
  BY <1>4, <1>5 DEF Own

LEMMA WipeAbsent ==
    ASSUME TypeOK, Wipe, NEW c \in Claims
    PROVE  claim'[c].state = "absent" /\ ~claim'[c].vr /\ ~claim'[c].plain
<1>1. claim'[c] = [[claim[c] EXCEPT !.state = "absent"] EXCEPT !.vr = FALSE] /\ ~claim[c].plain
  BY DEF Wipe
<1>2. claim[c] \in ClaimType
  BY Types
<1> QED
  BY <1>1, <1>2 DEF ClaimType

LEMMA WipeOwn == ASSUME TypeOK, Own, Wipe PROVE Own'
<1>1. \A c \in Claims : claim'[c].state = "absent" /\ ~claim'[c].vr /\ ~claim'[c].plain
  BY WipeAbsent
<1>2. \A c \in Claims : /\ pass[c].pc = "idle" /\ job[c] = "none" /\ data'[c] = 0
                        /\ entry'[c].phase = "none" /\ ~entry'[c].since
  BY DEF Wipe, Own, PassInv, NoEntry
<1>3. UNCHANGED <<pass, wl, job>>
  BY DEF Wipe
<1>4. PassInv' /\ JobHasSlot'
  BY <1>1, <1>2, <1>3 DEF Own, PassInv, JobHasSlot
<1>5. ClaimInv'
  BY <1>1, <1>2, BoundsAssumption DEF ClaimInv, Live
<1> QED
  BY <1>4, <1>5 DEF Own

LEMMA NextOwn == TypeOK /\ Own /\ [Next]_vars => Own'
<1> SUFFICES ASSUME TypeOK, Own, [Next]_vars PROVE Own'
  OBVIOUS
<1>1. CASE UNCHANGED <<claim, restores, data>>
  BY <1>1 DEF Own, PassInv, JobHasSlot, ClaimInv, restores
<1> QED
  BY <1>1, PopulateOwn, DecideOwn, StartOwn, CompleteOwn, BindOwn, CleanupOwn, FailOwn, KueueOwn, FluxOwn,
     ClusterOwn, WipeOwn
     DEF Next, Populator, Troubles, Handle, StoreCluster, Backup, ClusterGone, vars

-----------------------------------------------------------------------------
(* The Cluster and its archive. *)

(* A step that changes claims and restores only. *)
Local == UNCHANGED <<store, db, request>> /\ \A c \in Claims : data'[c] = Live => data[c] = Live

LEMMA LocalSteps ==
    ASSUME TypeOK, NEW c \in Claims,
           \/ Populator(c) \/ Troubles(c) \/ Admit(c) \/ JobSucceeds(c) \/ AdminDeletesJob(c)
           \/ ApplyRestore(c) \/ ApplyClaim(c) \/ Unpin(c)
    PROVE  Local
<1>1. UNCHANGED <<store, db, request>>
  BY DEF Populator, Populate, Pick, Unreachable, Record, Start, Complete, Bind, Cleanup, Troubles, Fail, Evict,
         JobFails, Admit, JobSucceeds, AdminDeletesJob, ApplyRestore, ApplyClaim, Unpin
<1>2. data' = data \/ data' = [data EXCEPT ![c] = pass[c].snap]
  BY DEF Populator, Populate, Pick, Unreachable, Record, Start, Complete, Bind, Cleanup, Troubles, Fail, Evict,
         JobFails, Admit, JobSucceeds, AdminDeletesJob, ApplyRestore, ApplyClaim, Unpin
<1>3. pass[c].snap # Live
  BY Types, BoundsAssumption DEF PassType, Live
<1> QED
  BY <1>1, <1>2, <1>3, Types DEF Local

LEMMA ArchiveStore ==
    ASSUME TypeOK, NEW content, Archive(content)
    PROVE  /\ store'.tip = content /\ store'.wal = Live /\ store'.archived = TRUE
           /\ store'.snaps = store.snaps /\ store'.paused = store.paused /\ store'.bases = store.bases
BY DEF Archive, TypeOK, Stores

LEMMA BackupStore ==
    ASSUME TypeOK, Backup
    PROVE  store'.tip = store.tip /\ store'.wal = store.wal /\ store'.archived = store.archived
BY DEF Backup, TypeOK, Stores

LEMMA NextDb == TypeOK /\ DbInv /\ [Next]_vars => DbInv'
<1> SUFFICES ASSUME TypeOK, DbInv, [Next]_vars PROVE DbInv'
  OBVIOUS
<1>1. CASE UNCHANGED <<store, db, request>>
  BY <1>1 DEF DbInv
<1>2. CASE Handle \/ StoreCluster \/ ClusterGone
  BY <1>2 DEF Handle, StoreCluster, ClusterGone, Gone, DbInv
<1>3. CASE Recovered \/ AppWrites
  <2>1. PICK content : Archive(content) /\ content \in {db.content, Live}
    BY <1>3 DEF Recovered, AppWrites
  <2>2. store'.tip <= store'.wal /\ store'.archived
    <3>1. store'.tip = content /\ store'.wal = Live /\ store'.archived
      BY <2>1, ArchiveStore, Zenon
    <3>2. content <= Live
      BY <2>1, Types, BoundsAssumption DEF DbType, Live
    <3> QED
      BY <3>1, <3>2
  <2>3. request' = request /\ db.state # "gone" /\ db'.state # "gone"
    BY <1>3, Types DEF Recovered, AppWrites, DbType
  <2> QED
    BY <2>2, <2>3 DEF DbInv
<1>4. CASE Backup
  BY <1>4, BackupStore DEF Backup, DbInv
<1> QED
  BY <1>1, <1>2, <1>3, <1>4, LocalSteps DEF Next, Local, Wipe, vars

LEMMA HandleLive == ASSUME TypeOK, Own, DbInv, Handle PROVE LiveInv'
<1> SUFFICES ASSUME NEW d \in Claims, data[d] = Live
             PROVE  IF request'.empty THEN store.tip = 0 ELSE request'.base = 0
  BY DEF LiveInv, Handle
<1>1. CASE ~store.archived /\ request' = [base |-> 0, moment |-> 0, empty |-> TRUE]
  BY <1>1 DEF DbInv
<1>2. CASE request' = AutomaticRecovery
  <2>1. claim[d].state = "bound" /\ (claim[d].plain \/ entry[d].since)
    BY DEF Own, ClaimInv
  <2>2. (\A c \in Existing : FromMoment(c, Moment)) => WrittenSince
    BY <2>1 DEF Existing, FromMoment, WrittenSince
  <2> QED
    BY <1>2, <2>2 DEF AutomaticRecovery
<1> QED
  BY <1>1, <1>2 DEF Handle

LEMMA NextLive == TypeOK /\ Own /\ DbInv /\ LiveInv /\ [Next]_vars => LiveInv'
<1> SUFFICES ASSUME TypeOK, Own, DbInv, LiveInv, [Next]_vars PROVE LiveInv'
  OBVIOUS
<1>1. CASE Local
  BY <1>1 DEF Local, LiveInv
<1>2. CASE request' = None
  BY <1>2 DEF LiveInv
<1>3. CASE Recovered \/ AppWrites \/ Backup
  BY <1>3 DEF Recovered, AppWrites, Backup, DbInv, LiveInv
<1>4. CASE ClusterGone \/ UNCHANGED vars
  BY <1>4 DEF ClusterGone, restores, vars, LiveInv
<1>5. CASE Wipe \/ StoreCluster
  BY <1>2, <1>5 DEF Wipe, StoreCluster
<1> QED
  BY <1>1, <1>3, <1>4, <1>5, HandleLive, LocalSteps DEF Next

-----------------------------------------------------------------------------
(* What the populator and the webhook decide, once everything is applied. *)

Restore(c) == Populator(c) \/ Troubles(c) \/ Admit(c) \/ JobSucceeds(c) \/ AdminDeletesJob(c)
Flux(c) == ApplyRestore(c) \/ ApplyClaim(c) \/ Unpin(c)

(* No restore changes what the namespace consists of. *)
LEMMA RestoreClaims ==
    ASSUME TypeOK, Own, NEW c \in Claims, Restore(c)
    PROVE  /\ \A d \in Claims : /\ claim'[d].plain = claim[d].plain /\ claim'[d].pin = claim[d].pin
                                /\ claim'[d].vr = claim[d].vr
                                /\ \/ claim'[d].state = claim[d].state /\ data'[d] = data[d]
                                   \/ /\ claim[d].state = "unbound" /\ claim'[d].state = "bound"
                                      /\ pass[d].pc = "bind" /\ data'[d] = pass[d].snap
           /\ Applied' <=> Applied
           /\ Moment' = Moment
           /\ UNCHANGED <<store, db, request>>
<1>1. UNCHANGED <<store, db, request>>
  BY LocalSteps DEF Restore, Local
<1>2. Bind(c) \/ UNCHANGED <<claim, data>>
  BY DEF Restore, Populator, Populate, Pick, Unreachable, Record, Start, Complete, Cleanup, Troubles, Fail, Evict,
         JobFails, Admit, JobSucceeds, AdminDeletesJob
<1>3. \A d \in Claims : /\ claim'[d].plain = claim[d].plain /\ claim'[d].pin = claim[d].pin
                        /\ claim'[d].vr = claim[d].vr
                        /\ \/ claim'[d].state = claim[d].state /\ data'[d] = data[d]
                           \/ /\ claim[d].state = "unbound" /\ claim'[d].state = "bound"
                              /\ pass[d].pc = "bind" /\ data'[d] = pass[d].snap
  <2>1. CASE UNCHANGED <<claim, data>>
    BY <2>1
  <2>2. CASE Bind(c)
    <3>1. /\ \A d \in Claims \ {c} : claim'[d] = claim[d] /\ data'[d] = data[d]
          /\ data'[c] = pass[c].snap /\ pass[c].pc = "bind"
      BY <2>2, Types DEF Bind
    <3>2. /\ claim'[c].plain = claim[c].plain /\ claim'[c].pin = claim[c].pin /\ claim'[c].vr = claim[c].vr
          /\ claim'[c].state = "bound"
      BY <2>2, Types DEF Bind, ClaimType
    <3>3. claim[c].state = "unbound"
      BY <3>1 DEF Own, PassInv
    <3> QED
      BY <3>1, <3>2, <3>3
  <2> QED
    BY <1>2, <2>1, <2>2
<1>4. Repositories' = Repositories
  BY <1>3 DEF Repositories
<1>5. Moment' = Moment
  BY <1>1, <1>4, MomentStays
<1>6. Applied' <=> Applied
  BY <1>3 DEF Applied
<1> QED
  BY <1>1, <1>3, <1>5, <1>6

(* Flux and the users are done by then. *)
LEMMA FluxBefore == ASSUME Together, NEW c \in Claims, Flux(c) PROVE ~Applied
BY DEF Flux, ApplyRestore, ApplyClaim, Unpin, Applied

(* Nobody begins before. *)
LEMMA RestoreReady ==
    ASSUME TypeOK, Own, ReadyInv, Together, ~Applied, NEW c \in Claims, Restore(c)
    PROVE  UNCHANGED <<entry, pass>>
<1>1. entry[c].phase = "none" /\ pass[c].pc = "idle" /\ pass[c] = NoPass /\ job[c] = "none"
  <2>1. entry[c].phase = "none" /\ pass[c].pc = "idle"
    BY DEF ReadyInv
  <2>2. job[c] = "none" /\ pass[c].snap = 0
    BY <2>1 DEF Own, PassInv
  <2>3. pass[c] \in PassType
    BY Types
  <2>4. pass[c] = NoPass
    BY <2>1, <2>2, <2>3 DEF PassType, NoPass
  <2> QED
    BY <2>1, <2>2, <2>4
<1>2. ~Populate(c) /\ ~Pick(c) /\ ~Unreachable(c) /\ ~Record(c) /\ ~Start(c) /\ ~Bind(c)
  BY <1>1 DEF Populate, Looking, Pick, Unreachable, Record, Start, Bind
<1>3. ~Complete(c) /\ ~Fail(c)
  BY <1>1 DEF Complete, Fail, Decided
<1>4. ~Cleanup(c)
  BY <1>1 DEF Cleanup, Own, ClaimInv
<1> QED
  BY <1>2, <1>3, <1>4 DEF Restore, Populator, Troubles, Evict, JobFails, Admit, JobSucceeds, AdminDeletesJob

LEMMA NextReady == TypeOK /\ Own /\ ReadyInv /\ [Next]_vars => ReadyInv'
<1> SUFFICES ASSUME TypeOK, Own, ReadyInv, [Next]_vars, Together, ~Applied'
             PROVE  /\ db'.state = "gone" /\ request' = None
                    /\ \A c \in Claims : entry'[c].phase = "none" /\ pass'[c].pc = "idle"
  BY DEF ReadyInv
<1>1. ASSUME NEW c \in Claims, Restore(c)
      PROVE  /\ db'.state = "gone" /\ request' = None
             /\ \A d \in Claims : entry'[d].phase = "none" /\ pass'[d].pc = "idle"
  BY <1>1, RestoreClaims, RestoreReady DEF ReadyInv
<1>2. ASSUME NEW c \in Claims, Flux(c)
      PROVE  /\ db'.state = "gone" /\ request' = None
             /\ \A d \in Claims : entry'[d].phase = "none" /\ pass'[d].pc = "idle"
  <2>1. ~Applied /\ UNCHANGED <<db, request, entry, pass>>
    BY <1>2, FluxBefore DEF Flux, ApplyRestore, ApplyClaim, Unpin, restores
  <2> QED
    BY <2>1 DEF ReadyInv
<1>3. CASE Wipe
  BY <1>3 DEF Wipe, NoEntry, Own, PassInv
<1>4. CASE UNCHANGED claim
  <2>1. ~Applied
    BY <1>4 DEF Applied
  <2>2. db.state = "gone" /\ request = None
    BY <2>1 DEF ReadyInv
  <2>3. ~Handle /\ ~StoreCluster /\ ~Recovered /\ ~AppWrites /\ ~Backup /\ ~ClusterGone
    BY <2>1, <2>2 DEF Handle, Looking, StoreCluster, Recovered, AppWrites, Backup, ClusterGone
  <2>4. CASE UNCHANGED vars
    BY <2>1, <2>4 DEF ReadyInv, vars, restores
  <2> QED
    BY <1>1, <1>2, <1>3, <2>3, <2>4 DEF Next, Restore, Flux
<1>5. Handle \/ StoreCluster \/ Recovered \/ AppWrites \/ Backup \/ ClusterGone \/ UNCHANGED vars => UNCHANGED claim
  BY DEF Handle, StoreCluster, Recovered, AppWrites, Backup, ClusterGone, vars
<1> QED
  BY <1>1, <1>2, <1>3, <1>4, <1>5 DEF Next, Restore, Flux

(* Nor does the Cluster, except that the app writes and is backed up. *)
LEMMA ClusterClaims ==
    ASSUME TypeOK, Handle \/ StoreCluster \/ Recovered \/ AppWrites \/ ClusterGone \/ UNCHANGED vars
    PROVE  /\ UNCHANGED <<claim, pass>> /\ (Applied' <=> Applied) /\ Moment' = Moment
           /\ store'.bases = store.bases
           /\ \A c \in Claims : entry'[c].phase = entry[c].phase /\ entry'[c].snap = entry[c].snap
<1>1. UNCHANGED <<claim, pass>>
  BY DEF Handle, StoreCluster, Recovered, AppWrites, ClusterGone, restores, vars
<1>2. UNCHANGED <<store, entry>> \/ \E content : Archive(content)
  BY DEF Handle, StoreCluster, Recovered, AppWrites, ClusterGone, restores, vars
<1>3. store'.snaps = store.snaps /\ store'.paused = store.paused /\ store'.bases = store.bases
  BY <1>2, ArchiveStore
<1>4. \A c \in Claims : entry'[c].phase = entry[c].phase /\ entry'[c].snap = entry[c].snap
  BY <1>2, ArchiveSince
<1>5. Repositories' = Repositories /\ (Applied' <=> Applied)
  BY <1>1 DEF Repositories, Applied
<1>6. Moment' = Moment
  BY <1>3, <1>5, MomentStays
<1> QED
  BY <1>1, <1>3, <1>4, <1>5, <1>6

LEMMA BackupBound == ASSUME TypeOK, Own, Backup PROVE \A c \in Claims : claim[c].state = "bound" /\ data[c] = Live
BY DEF Backup, Own, ClaimInv

(* Afterwards the namespace is empty, or has no claim and so no moment. *)
LEMMA WipeEmpty == ASSUME TypeOK, Wipe PROVE ~(Applied' /\ Moment' # 0)
<1>1. CASE Claims # {}
  BY <1>1, WipeAbsent DEF Applied
<1>2. CASE Claims = {}
  <2>1. Moment = 0
    BY <1>2, MomentFacts
  <2>2. Repositories' = Repositories /\ store' = store
    BY <1>2 DEF Wipe, Repositories
  <2> QED
    BY <2>1, <2>2, MomentStays
<1> QED
  BY <1>1, <1>2

LEMMA RestoreChoice ==
    ASSUME TypeOK, Own, ChoiceInv, NEW c \in Claims, Restore(c)
    PROVE  ChoiceInv'
<1> SUFFICES ASSUME Together, Applied, Moment # 0, NEW d \in Claims,
                    claim'[d].pin = 0, claim'[d].state = "unbound"
             PROVE  /\ entry'[d].phase # "none" => entry'[d].snap = Moment
                    /\ pass'[d].pc = "record" => pass'[d].snap = Moment
  BY RestoreClaims DEF ChoiceInv
<1>1. claim[d].pin = 0 /\ claim[d].state = "unbound"
  BY RestoreClaims
<1>2. /\ entry[d].phase # "none" => entry[d].snap = Moment
      /\ pass[d].pc = "record" => pass[d].snap = Moment
  BY <1>1 DEF ChoiceInv
<1>3. CASE c # d
  <2>1. entry'[d] = entry[d] /\ pass'[d] = pass[d]
    BY <1>3, Types DEF Restore, Populator, Populate, Pick, Unreachable, Record, Start, Complete, Bind, Cleanup,
         Troubles, Fail, Evict, JobFails, Admit, JobSucceeds, AdminDeletesJob, Goto, StopPass
  <2> QED
    BY <1>2, <2>1
<1>4. CASE Pick(d)
  <2>1. Moment \in store.snaps[d]
    BY <1>4, MomentFacts DEF Pick, Own, PassInv
  <2>2. entry' = entry /\ pass'[d].snap = ChooseUnpinned(d)
    BY <1>1, <1>4, Types DEF Pick, Goto
  <2> QED
    BY <1>2, <2>1, <2>2 DEF ChooseUnpinned
<1>5. CASE Record(d)
  <2>1. pass'[d].pc # "record" /\ entry'[d].snap = pass[d].snap /\ pass[d].pc = "record"
    BY <1>5, Types DEF Record, Goto, StopPass, NoPass, EntryType
  <2> QED
    BY <1>2, <2>1
<1>6. CASE Complete(d)
  <2>1. /\ pass'[d].pc = "record" => pass'[d].snap = pass[d].snap /\ pass[d].pc = "record"
        /\ entry'[d].snap = entry[d].snap
        /\ entry'[d].phase # entry[d].phase => job[d] = "failed"
    BY <1>6, Types DEF Complete, Goto, EntryType
  <2> QED
    BY <1>2, <2>1 DEF Own, PassInv
<1>7. CASE Populate(d) \/ Start(d) \/ Troubles(d) \/ Admit(d) \/ JobSucceeds(d) \/ AdminDeletesJob(d)
  <2>1. entry' = entry /\ (pass'[d] = pass[d] \/ pass'[d].pc # "record")
    BY <1>7, Types DEF Populate, Start, Troubles, Fail, Evict, JobFails, Admit, JobSucceeds, AdminDeletesJob, Goto,
         StopPass, NoPass
  <2> QED
    BY <1>2, <2>1
<1>8. ~Unreachable(d) /\ ~Cleanup(d) /\ ~Bind(d)
  <2>1. ~Bind(d)
    BY <1>1, Types DEF Bind, ClaimType
  <2> QED
    BY <1>1, <2>1 DEF Unreachable, Cleanup
<1> QED
  BY <1>3, <1>4, <1>5, <1>6, <1>7, <1>8 DEF Restore, Populator

LEMMA NextChoice == TypeOK /\ Own /\ ReadyInv /\ ChoiceInv /\ [Next]_vars => ChoiceInv'
<1> SUFFICES ASSUME TypeOK, Own, ReadyInv, ChoiceInv, [Next]_vars PROVE ChoiceInv'
  OBVIOUS
<1>1. ASSUME NEW c \in Claims, Flux(c) PROVE ChoiceInv'
  <2>1. UNCHANGED <<entry, pass>> /\ (Together => ~Applied)
    BY <1>1, FluxBefore DEF Flux, ApplyRestore, ApplyClaim, Unpin, restores
  <2> QED
    BY <2>1 DEF ReadyInv, ChoiceInv
<1>2. CASE Handle \/ StoreCluster \/ Recovered \/ AppWrites \/ ClusterGone \/ UNCHANGED vars
  BY <1>2, ClusterClaims DEF ChoiceInv
<1>3. CASE Backup
  <2>1. \A c \in Claims : claim'[c].state = "bound"
    BY <1>3, BackupBound DEF Backup
  <2> QED
    BY <2>1 DEF ChoiceInv
<1>4. CASE Wipe
  BY <1>4, WipeEmpty DEF ChoiceInv
<1> QED
  BY <1>1, <1>2, <1>3, <1>4, RestoreChoice DEF Next, Restore, Flux

(* Only the end of the namespace ends a joint return. *)
LEMMA JoinedStays ==
    ASSUME TypeOK, Own, ChoiceInv, Together, NEW m, m # 0, Joined(m), [Next]_vars, ~Wipe
    PROVE  Joined(m)'
<1>1. ASSUME NEW c \in Claims, Restore(c) PROVE Joined(m)'
  <2>1. ASSUME NEW d \in Claims, claim'[d].state = "bound" PROVE data'[d] \in {m, Live}
    <3>1. CASE claim[d].state = "unbound" /\ pass[d].pc = "bind" /\ data'[d] = pass[d].snap
      <4>1. Moment = m /\ Applied /\ claim[d].pin = 0
        BY <3>1 DEF Joined
      <4>2. pass[d].snap = entry[d].snap /\ entry[d].phase # "none"
        BY <3>1 DEF Own, PassInv
      <4>3. entry[d].snap = m
        BY <3>1, <4>1, <4>2 DEF ChoiceInv
      <4> QED
        BY <3>1, <4>2, <4>3
    <3>2. CASE claim'[d].state = claim[d].state /\ data'[d] = data[d]
      BY <2>1, <3>2 DEF Joined
    <3> QED
      BY <1>1, <3>1, <3>2, RestoreClaims
  <2> QED
    BY <1>1, <2>1, RestoreClaims DEF Joined
<1>2. ASSUME NEW c \in Claims PROVE ~Flux(c)
  BY FluxBefore DEF Joined
<1>3. CASE Handle \/ StoreCluster \/ Recovered \/ AppWrites \/ ClusterGone \/ UNCHANGED vars
  <2>1. data' = data \/ \A c \in Claims : data'[c] = Live
    BY <1>3 DEF Handle, StoreCluster, Recovered, AppWrites, ClusterGone, vars
  <2> QED
    BY <1>3, <2>1, ClusterClaims DEF Joined
<1>4. CASE Backup
  <2>1. UNCHANGED <<claim, data>> /\ (Applied' <=> Applied)
    BY <1>4 DEF Backup, Applied
  <2> QED
    BY <1>4, <2>1, BackupBound DEF Joined
<1> QED
  BY <1>1, <1>2, <1>3, <1>4 DEF Next, Restore, Flux

LEMMA HandleJoins ==
    ASSUME TypeOK, Own, Together, Handle, request'.moment # 0
    PROVE  request'.moment = Moment /\ Joined(Moment)
<1>1. request' = AutomaticRecovery /\ Applied
  BY DEF Handle, Looking
<1>2. /\ Moment # 0 /\ \A c \in Existing : FromMoment(c, Moment)
      /\ request'.moment = Moment
  BY <1>1 DEF AutomaticRecovery
<1>3. \A c \in Claims : FromMoment(c, Moment)
  BY <1>1, <1>2 DEF Existing, Applied
<1>4. \A c \in Claims : claim[c].state = "bound" => data[c] \in {Moment, Live}
  BY <1>3 DEF FromMoment, Own, ClaimInv
<1> QED
  BY <1>1, <1>2, <1>3, <1>4 DEF Joined, FromMoment

LEMMA NextJoined == IInv /\ [Next]_vars => JoinedInv'
<1> SUFFICES ASSUME IInv, [Next]_vars, Together
             PROVE  /\ request' # None /\ request'.moment # 0 => Joined(request.moment)'
                    /\ db'.moment # 0 => Joined(db.moment)'
  BY DEF JoinedInv
<1> USE DEF IInv
<1>1. CASE Wipe
  BY <1>1 DEF Wipe, DbInv
<1>2. CASE Handle
  <2>1. ASSUME request'.moment # 0 PROVE Joined(request.moment)'
    <3>1. PICK m : m = Moment
      OBVIOUS
    <3>2. request'.moment = m /\ Joined(m) /\ m # 0
      BY <1>2, <2>1, <3>1, HandleJoins
    <3>3. Joined(m)'
      BY <1>2, <3>2, ClusterClaims DEF Handle, Joined
    <3> QED
      BY <3>2, <3>3
  <2>2. db'.moment = 0
    BY <1>2 DEF Handle, DbInv
  <2> QED
    BY <2>1, <2>2
<1>3. CASE ~Wipe /\ ~Handle
  <2>1. request' # None => request' = request
    BY <1>3, LocalSteps
       DEF Next, Local, StoreCluster, Recovered, AppWrites, Backup, ClusterGone, vars
  <2>2. db'.moment # 0 => db'.moment = db.moment \/ (request # None /\ db'.moment = request.moment)
    <3>1. CASE Recovered \/ AppWrites
      BY <3>1, Types DEF Recovered, AppWrites, DbType
    <3>2. CASE StoreCluster \/ ClusterGone \/ UNCHANGED db
      BY <3>2 DEF StoreCluster, ClusterGone, Gone
    <3> QED
      BY <1>3, <3>1, <3>2, LocalSteps DEF Next, Local, Backup, vars
  <2>3. ASSUME request # None, request.moment # 0
        PROVE  \E m : m = request.moment /\ Joined(m)'
    <3>1. PICK m : m = request.moment
      OBVIOUS
    <3>2. Joined(m)'
      BY <1>3, <2>3, <3>1, JoinedStays DEF JoinedInv
    <3> QED
      BY <3>1, <3>2
  <2>4. ASSUME db.moment # 0
        PROVE  \E m : m = db.moment /\ Joined(m)'
    <3>1. PICK m : m = db.moment
      OBVIOUS
    <3>2. Joined(m)'
      BY <1>3, <2>4, <3>1, JoinedStays DEF JoinedInv
    <3> QED
      BY <3>1, <3>2
  <2>5. request' # None /\ request'.moment # 0 => Joined(request.moment)'
    BY <2>1, <2>3
  <2>6. db'.moment # 0 => Joined(db.moment)'
    BY <2>2, <2>3, <2>4
  <2> QED
    BY <2>5, <2>6
<1> QED
  BY <1>1, <1>2, <1>3

LEMMA RestoreBehind ==
    ASSUME TypeOK, Own, BehindInv, NEW c \in Claims, Restore(c)
    PROVE  BehindInv'
<1>1. \A d \in Claims : entry'[d].since = entry[d].since
  <2>1. \/ entry' = entry
        \/ \E phase : entry' = [entry EXCEPT ![c].phase = phase]
        \/ \E phase, t : entry' = [entry EXCEPT ![c].phase = phase, ![c].snap = t]
    BY DEF Restore, Populator, Populate, Pick, Unreachable, Record, Start, Complete, Bind, Cleanup,
           Troubles, Fail, Evict, JobFails, Admit, JobSucceeds, AdminDeletesJob
  <2>2. ASSUME NEW phase, NEW t, entry' = [entry EXCEPT ![c].phase = phase, ![c].snap = t]
        PROVE  \A d \in Claims : entry'[d].since = entry[d].since
    <3>1. entry \in [Claims -> EntryType] /\ entry[c] \in EntryType
      BY Types
    <3>2. entry'[c] = [[entry[c] EXCEPT !.phase = phase] EXCEPT !.snap = t]
      BY <2>2, <3>1
    <3>3. entry'[c].since = entry[c].since
      BY <3>1, <3>2 DEF EntryType
    <3> QED
      BY <2>2, <3>1, <3>3
  <2>3. ASSUME NEW phase, entry' = [entry EXCEPT ![c].phase = phase]
        PROVE  \A d \in Claims : entry'[d].since = entry[d].since
    BY <2>3, Types DEF EntryType
  <2> QED
    BY <2>1, <2>2, <2>3
<1>2. FromTheMoment' => FromTheMoment
  BY RestoreClaims DEF FromTheMoment
<1>3. Moment' = Moment /\ UNCHANGED <<store, db, request>>
  BY RestoreClaims
<1> QED
  BY <1>1, <1>2, <1>3 DEF BehindInv, Behind, AtOrBefore

(* The webhook finds that the claims come back from the paused moment,     *)
(* and chooses a recovery that ends there, unless WAL of this rebuild is   *)
(* in the archive already.                                                 *)
LEMMA HandleBehind ==
    ASSUME TypeOK, Own, DbInv, BehindInv, FromTheMoment, request' = AutomaticRecovery
    PROVE  IF request'.base # 0 THEN Behind(request'.base) ELSE Behind(store.tip)
<1>0. Moment \in Moments /\ Applied
  BY MomentFacts DEF FromTheMoment
<1>1. \A c \in Claims : FromMoment(c, Moment)
  <2> SUFFICES ASSUME NEW c \in Claims PROVE FromMoment(c, Moment)
    OBVIOUS
  <2>1. ~claim[c].plain /\ claim[c].pin = 0 /\ claim[c].vr
    BY DEF FromTheMoment, Applied
  <2>2. claim[c].state = "bound" => data[c] = Moment /\ data[c] # Live
    BY <1>0, BoundsAssumption DEF FromTheMoment, Live, Moments
  <2>3. claim[c].state = "bound" => entry[c].phase # "none" /\ entry[c].snap = Moment
    BY <2>1, <2>2 DEF Own, ClaimInv
  <2> QED
    BY <2>1, <2>3 DEF FromMoment
<1>2. CASE WrittenSince
  <2>1. request'.base = 0
    BY <1>2 DEF AutomaticRecovery
  <2> QED
    BY <1>2, <2>1 DEF BehindInv, WrittenSince
<1>3. CASE ~WrittenSince
  <2>1. request'.base = Recover(Moment)
    BY <1>0, <1>1, <1>3 DEF AutomaticRecovery, Existing, FromTheMoment
  <2>2. CASE Recover(Moment) # 0
    BY <1>0, <2>1, <2>2, RecoverType DEF Behind
  <2>3. CASE AtOrBefore(store.bases, Moment) = {}
    BY <2>3 DEF Behind
  <2>4. CASE Recover(Moment) = 0 /\ ~Woken(Moment)
    <3>1. store.tip <= store.wal /\ store.wal <= Moment
      <4>1. store.wal \in 0 .. Live /\ Moment \in 1 .. Horizon /\ Horizon \in Nat
        BY <1>0, StoreFields, BoundsAssumption DEF Moments
      <4> QED
        BY <2>4, <4>1 DEF DbInv, Woken, Live
    <3>2. store.tip \in Nat /\ store.wal \in Nat /\ Moment \in Nat
      BY <1>0, StoreFields, BoundsAssumption DEF Moments, Live
    <3>3. store.tip <= Moment
      BY <3>1, <3>2
    <3> QED
      BY <2>1, <2>4, <3>3 DEF Behind
  <2> QED
    BY <1>0, <2>2, <2>3, <2>4, RecoverType
<1> QED
  BY <1>2, <1>3

LEMMA NextBehind == IInv /\ [Next]_vars => BehindInv'
<1> SUFFICES ASSUME IInv, [Next]_vars PROVE BehindInv'
  OBVIOUS
<1> USE DEF IInv
<1>1. ASSUME NEW c \in Claims, Restore(c) PROVE BehindInv'
  BY <1>1, RestoreBehind
<1>2. ASSUME NEW c \in Claims, Flux(c) PROVE BehindInv'
  <2>1. UNCHANGED <<entry, db, request>> /\ (Together => ~Applied)
    BY <1>2, FluxBefore DEF Flux, ApplyRestore, ApplyClaim, Unpin, restores
  <2>2. Together => \A d \in Claims : ~entry[d].since
    BY <2>1 DEF ReadyInv, Own, ClaimInv
  <2>3. FromTheMoment' => Together
    BY DEF FromTheMoment
  <2> QED
    BY <2>1, <2>2, <2>3 DEF ReadyInv, BehindInv
<1>3. CASE AppWrites \/ Backup
  <2>1. \A c \in Claims : claim'[c].state = "bound" /\ data'[c] = Live
    BY <1>3, BackupBound DEF AppWrites, Backup
  <2>2. ~FromTheMoment'
    <3> SUFFICES ASSUME FromTheMoment' PROVE FALSE
      OBVIOUS
    <3>1. TypeOK'
      BY NextType
    <3>2. Moment' # 0 /\ \A c \in Claims : Moment' = Live
      BY <2>1 DEF FromTheMoment
    <3>3. (Moment \in 0 .. Horizon /\ (Moment # 0 => \E c \in Claims : claim[c].vr))'
      BY <3>1, MomentFacts, PTL
    <3> QED
      BY <3>2, <3>3, BoundsAssumption DEF Live
  <2> QED
    BY <2>2 DEF BehindInv
<1>4. CASE Wipe
  BY <1>4, WipeEmpty DEF BehindInv, FromTheMoment
<1>5. CASE Handle \/ StoreCluster \/ Recovered \/ ClusterGone \/ UNCHANGED vars
  <2>1. /\ UNCHANGED <<claim, data>> /\ (Applied' <=> Applied) /\ Moment' = Moment /\ store'.bases = store.bases
    BY <1>5, ClusterClaims DEF Handle, StoreCluster, Recovered, ClusterGone, vars
  <2>2. FromTheMoment' <=> FromTheMoment
    BY <2>1 DEF FromTheMoment
  <2>4. CASE Handle
    <3>1. UNCHANGED <<entry, store, db>>
      BY <2>4 DEF Handle, restores
    <3>2. ASSUME FromTheMoment, ~request'.empty
          PROVE  IF request'.base # 0 THEN Behind(request'.base) ELSE Behind(store.tip)
      BY <2>4, <3>2, HandleBehind DEF Handle
    <3> QED
      BY <2>1, <2>2, <3>1, <3>2 DEF BehindInv, Behind, AtOrBefore
  <2>5. CASE StoreCluster
    <3>1. UNCHANGED <<entry, store>> /\ request' = None /\ request # None
      BY <2>5 DEF StoreCluster, restores
    <3>2. FromTheMoment => db'.content <= Moment \/ AtOrBefore(store.bases, Moment) = {}
      <4>1. db'.content = IF request.empty THEN 0 ELSE IF request.base # 0 THEN request.base ELSE store.tip
        BY <2>5 DEF StoreCluster
      <4>2. 0 <= Moment
        BY MomentFacts, BoundsAssumption
      <4> QED
        BY <3>1, <4>1, <4>2 DEF BehindInv, Behind
    <3> QED
      BY <2>1, <2>2, <3>1, <3>2 DEF BehindInv, Behind, AtOrBefore
  <2>6. CASE Recovered
    <3>1. store'.tip = db.content /\ request' = None /\ db.state # "gone" /\ db'.content = db.content
      BY <2>6, ArchiveStore, Types DEF Recovered, DbInv, DbType
    <3> QED
      BY <2>1, <2>2, <3>1 DEF BehindInv, Behind, AtOrBefore
  <2>7. CASE ClusterGone \/ UNCHANGED vars
    BY <2>1, <2>2, <2>7 DEF BehindInv, Behind, AtOrBefore, ClusterGone, Gone, restores, vars
  <2> QED
    BY <1>5, <2>4, <2>5, <2>6, <2>7
<1> QED
  BY <1>1, <1>2, <1>3, <1>4, <1>5 DEF Next, Restore, Flux

LEMMA InitInv == Init => IInv
<1> SUFFICES ASSUME Init PROVE IInv
  OBVIOUS
<1>1. TypeOK /\ Own
  BY InitType, InitOwn
<1>2. DbInv
  BY ArchivesAssumption DEF Init, Gone, DbInv
<1>3. request = None /\ db.state = "gone" /\ db.moment = 0
  BY DEF Init, Gone
<1>4. \A c \in Claims : entry[c].phase = "none" /\ pass[c].pc = "idle" /\ ~entry[c].since
  BY DEF Init, NoEntry, NoPass
<1> QED
  BY <1>1, <1>2, <1>3, <1>4 DEF IInv, LiveInv, ReadyInv, ChoiceInv, JoinedInv, BehindInv

LEMMA Invariant == Spec => []IInv
<1>1. IInv /\ [Next]_vars => IInv'
  BY NextType, NextOwn, NextDb, NextLive, NextReady, NextChoice, NextJoined, NextBehind DEF IInv
<1> QED
  BY InitInv, <1>1, PTL DEF Spec

-----------------------------------------------------------------------------
(* The claims, the restores, the store and the Cluster keep their types. *)
THEOREM TypeCorrect == Spec => []TypeOK
<1>1. IInv => TypeOK
  BY DEF IInv
<1> QED
  BY <1>1, Invariant, PTL

(* Whatever fails and whoever is evicted, a running restore Job has its    *)
(* Workload.                                                               *)
THEOREM RestoresAreCounted == Spec => []JobHasSlot
<1>1. IInv => JobHasSlot
  BY DEF IInv, Own
<1> QED
  BY <1>1, Invariant, PTL

(* In a namespace that is applied as a whole, the populator and the        *)
(* webhook choose the same moment, though they look at different times;    *)
(* run rebuild_pieces shows what happens in another one.             *)
THEOREM ClaimsJoinTheCluster == Together /\ Spec => []ComeBackTogether
<1> SUFFICES ASSUME Together PROVE Spec => []ComeBackTogether
  OBVIOUS
<1>1. IInv => ComeBackTogether
  BY DEF IInv, JoinedInv, Joined, ComeBackTogether
<1> QED
  BY <1>1, Invariant, PTL

(* A database never comes back ahead of claims that come back from the     *)
(* paused moment.                                                          *)
THEOREM DatabaseIsNotAhead == Together /\ Spec => NotAhead
<1> DEFINE Premise == /\ request # None /\ request' = None /\ Moment # 0
                      /\ \A c \in Claims : ~claim[c].plain /\ claim[c].pin = 0 /\
                                           (claim[c].state = "bound" => data[c] = Moment)
           Conclusion == db'.content <= Moment \/ AtOrBefore(store.bases, Moment) = {}
<1> SUFFICES ASSUME Together PROVE Spec => NotAhead
  OBVIOUS
<1>1. IInv /\ [Next]_vars => [Premise => Conclusion]_vars
  <2> SUFFICES ASSUME IInv, Next, Premise PROVE Conclusion
    OBVIOUS
  <2> USE DEF IInv
  <2>1. StoreCluster
    BY LocalSteps DEF Next, Local, Handle, Recovered, AppWrites, Backup, ClusterGone, Wipe
  <2>2. FromTheMoment
    BY DEF FromTheMoment, ReadyInv
  <2>3. db'.content = IF request.empty THEN 0 ELSE IF request.base # 0 THEN request.base ELSE store.tip
    BY <2>1 DEF StoreCluster
  <2>4. 0 <= Moment
    BY MomentFacts, BoundsAssumption
  <2> QED
    BY <2>2, <2>3, <2>4 DEF BehindInv, Behind
<1> QED
  BY <1>1, Invariant, PTL DEF Spec, NotAhead

(* Nothing of a live database is lost: next to a claim that its app has    *)
(* written to, a Cluster recovers all that the archive holds, in whichever *)
(* order the namespace is applied.                                         *)
THEOREM LiveDatabaseIsKept == Spec => LiveRowsKept
<1>1. IInv /\ [Next]_vars =>
        [request # None /\ request' = None /\ (\E c \in Claims : data[c] = Live) => db'.content = store.tip]_vars
  <2> SUFFICES ASSUME IInv, Next, request # None, request' = None, \E c \in Claims : data[c] = Live
               PROVE  db'.content = store.tip
    OBVIOUS
  <2> USE DEF IInv
  <2>1. StoreCluster
    BY LocalSteps DEF Next, Local, Handle, Recovered, AppWrites, Backup, ClusterGone, Wipe
  <2> QED
    BY <2>1 DEF StoreCluster, LiveInv
<1> QED
  BY <1>1, Invariant, PTL DEF Spec, LiveRowsKept

=============================================================================
