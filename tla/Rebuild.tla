------------------------------- MODULE Rebuild -------------------------------
(***************************************************************************)
(* How a namespace comes back without a RestoreRun: the callbacks of       *)
(* internal/populator fill its claims from their restic repositories, and  *)
(* the webhook of internal/bootstrap chooses the recovery of its Cluster,  *)
(* both by the paused moment of internal/synced.                           *)
(*                                                                         *)
(* The two decide independently, at different times, from the objects that *)
(* exist then, while Flux applies the namespace, Kueue admits and evicts   *)
(* the restores, Jobs fail, the app starts to write, BackupRuns add        *)
(* backups, and Clusters and whole namespaces are deleted again.           *)
(*                                                                         *)
(* Data is reduced to the moment it stems from: 0 for an empty volume or   *)
(* database, 1 .. Horizon for a backup, Live for what an app has written   *)
(* to.  Each claim has a VolumeRestore and a repository of its own, except *)
(* the plain ones, which name none.                                        *)
(***************************************************************************)
EXTENDS Naturals, FiniteSetsExt

CONSTANTS
    Claims,      \* the claims marked backup.wlz.li/enabled
    Histories,   \* what the repositories and the archive may hold at the start
    Pins,        \* what the claims' backup.wlz.li/restore-as-of may say; 0 is none
    Horizon,     \* bound on the moments of backups
    Quota,       \* restores that Kueue admits at once
    Together,    \* nobody looks before everything is applied and pinned for good
    None

Live == Horizon + 1
Moments == 1 .. Horizon

(* snaps      the times of each repository's snapshots                     *)
(* paused     those of them that a pausing BackupRun moved its snapshots   *)
(*            to and tagged "paused"                                       *)
(* tag        what such a snapshot says of the Cluster                     *)
(* bases      the ends of the completed base backups, which identify them  *)
(* archived   something is stored under the archive prefix                 *)
(* wal        when the last WAL reached it; Live is after every moment     *)
(* tip        the database that the whole archive replays to               *)
Stores ==
    [snaps : [Claims -> SUBSET Moments], paused : SUBSET Moments,
     tag : [Moments -> {"base", "hibernated", "none"}], bases : SUBSET Moments,
     archived : BOOLEAN, wal : 0 .. Live, tip : 0 .. Live]

ASSUME HistoriesAssumption == Histories \subseteq Stores
ASSUME ArchivesAssumption ==      \* no archive replays to more than its WAL holds
    \A s \in Histories : s.tip <= s.wal /\ (s.archived \/ s.tip = 0)
ASSUME BoundsAssumption ==
    /\ Horizon \in Nat /\ Quota \in Nat \ {0} /\ Together \in BOOLEAN
    /\ Pins \subseteq [Claims -> 0 .. Horizon]

VARIABLES
    claim,     \* [Claims -> [state, vr, plain, pin]]: the claim; vr: its VolumeRestore
               \* exists; plain: it names none
    entry,     \* [Claims -> status.claims of its VolumeRestore, for this claim's UID]
    pass,      \* [Claims -> [pc, snap]]: the callback under way and its choice
    wl,        \* [Claims -> state of the restore's Kueue Workload]
    job,       \* [Claims -> state of the restore Job]
    data,      \* [Claims -> what the claim holds]
    store,     \* the restic repositories and the archive
    db,        \* [state, content, moment]: the Cluster; moment: the paused moment it
               \* recovered to, or 0
    request    \* the create that the webhook let through and nobody stored yet

restores == <<entry, pass, wl, job>>
vars == <<claim, restores, data, store, db, request>>

(* since: WAL reached the archive after StartedAt. *)
NoEntry == [phase |-> "none", snap |-> 0, since |-> FALSE]
NoPass == [pc |-> "idle", snap |-> 0]
Gone == [state |-> "gone", content |-> 0, moment |-> 0]

Init ==
    /\ store \in Histories
    /\ \E plain \in SUBSET Claims, pins \in Pins :
         /\ \A c \in plain : pins[c] = 0
         /\ claim = [c \in Claims |-> [state |-> IF c \in plain THEN "bound" ELSE "absent",
                                       vr |-> FALSE, plain |-> c \in plain, pin |-> pins[c]]]
         /\ data = [c \in Claims |-> IF c \in plain THEN Live ELSE 0]
    /\ entry = [c \in Claims |-> NoEntry]
    /\ pass = [c \in Claims |-> NoPass]
    /\ wl = [c \in Claims |-> "none"]
    /\ job = [c \in Claims |-> "none"]
    /\ db = Gone
    /\ request = None

-----------------------------------------------------------------------------
(* The paused moment. *)

(* Repositories: the ones that a VolumeRestore names now. *)
Repositories == {c \in Claims : claim[c].vr}

(* The moment of the newest paused snapshot, when every repository has a   *)
(* snapshot of it; 0 when there is none.                                   *)
Moment ==
    LET newest == Max({0} \cup UNION {store.snaps[c] \cap store.paused : c \in Repositories})
    IN IF newest # 0 /\ \A c \in Repositories : newest \in store.snaps[c] THEN newest ELSE 0

(* AtOrBefore *)
AtOrBefore(times, t) == {u \in times : u <= t}

-----------------------------------------------------------------------------
(* What the namespace consists of. *)

Applied == \A c \in Claims : claim[c].state # "absent" /\ (claim[c].plain \/ claim[c].vr)
Looking == Together => Applied

(* Flux. *)
ApplyRestore(c) ==
    /\ ~claim[c].vr /\ ~claim[c].plain
    /\ claim' = [claim EXCEPT ![c].vr = TRUE]
    /\ UNCHANGED <<restores, data, store, db, request>>

ApplyClaim(c) ==
    /\ claim[c].state = "absent"
    /\ claim' = [claim EXCEPT ![c].state = "unbound"]
    /\ UNCHANGED <<restores, data, store, db, request>>

(* A user takes a pin off. *)
Unpin(c) ==
    /\ claim[c].pin # 0 /\ (Together => ~Applied)
    /\ claim' = [claim EXCEPT ![c].pin = 0]
    /\ UNCHANGED <<restores, data, store, db, request>>

-----------------------------------------------------------------------------
(* The populator. *)

Goto(c, pc, t) == pass' = [pass EXCEPT ![c] = [pc |-> pc, snap |-> t]]
StopPass(c) == pass' = [pass EXCEPT ![c] = NoPass]

(* decided: the snapshot is chosen, and its restore has not failed. *)
Decided(c) == entry[c].phase = "Restoring"

(* Populate, up to the end of admit.  A claim whose Job exists is left     *)
(* alone, so is every claim while the controller runs with --pause.        *)
Populate(c) ==
    /\ Looking
    /\ claim[c].state = "unbound" /\ claim[c].vr /\ pass[c] = NoPass
    /\ job[c] = "none"
    /\ \/ wl[c] = "none" /\ wl' = [wl EXCEPT ![c] = "pending"] /\ UNCHANGED pass
       \/ wl[c] = "evicted" /\ wl' = [wl EXCEPT ![c] = "none"] /\ UNCHANGED pass
       \/ /\ wl[c] = "admitted" /\ UNCHANGED wl
          /\ \/ ~Decided(c) /\ Goto(c, "decide", 0)
             \/ Decided(c) /\ entry[c].snap # 0 /\ Goto(c, "start", entry[c].snap)
    /\ UNCHANGED <<claim, entry, job, data, store, db, request>>

(* choose, without a pin. *)
ChooseUnpinned(c) ==
    IF Moment # 0 /\ Moment \in store.snaps[c] THEN Moment ELSE Max({0} \cup store.snaps[c])

(* Slips in Unreachable: TypeOK catches the reason of the condition in the *)
(* phase, and ClaimsAreFilled a claim that keeps its slot while it fails.  *)
UnreachableWithReason(c) ==
    /\ pass[c].pc = "decide" /\ claim[c].pin # 0
    /\ AtOrBefore(store.snaps[c], claim[c].pin) = {}
    /\ entry' = [entry EXCEPT ![c].phase = "NoBackupInReach", ![c].snap = 0]
    /\ wl' = [wl EXCEPT ![c] = "none"]
    /\ StopPass(c)
    /\ UNCHANGED <<claim, job, data, store, db, request>>

UnreachableInSlot(c) ==
    /\ pass[c].pc = "decide" /\ claim[c].pin # 0
    /\ AtOrBefore(store.snaps[c], claim[c].pin) = {}
    /\ entry' = [entry EXCEPT ![c].phase = "Failed", ![c].snap = 0]
    /\ StopPass(c)
    /\ UNCHANGED <<claim, wl, job, data, store, db, request>>

(* A pin that no snapshot reaches fails the entry and gives the slot back; *)
(* the library calls again.                                                *)
Unreachable(c) ==
    /\ pass[c].pc = "decide" /\ claim[c].pin # 0
    /\ AtOrBefore(store.snaps[c], claim[c].pin) = {}
    /\ entry' = [entry EXCEPT ![c].phase = "Failed", ![c].snap = 0]
    /\ wl' = [wl EXCEPT ![c] = "none"]
    /\ StopPass(c)
    /\ UNCHANGED <<claim, job, data, store, db, request>>

(* pick reads the repositories and chooses. *)
Pick(c) ==
    /\ pass[c].pc = "decide"
    /\ \/ claim[c].pin = 0 /\ Goto(c, "record", ChooseUnpinned(c))
       \/ /\ claim[c].pin # 0 /\ AtOrBefore(store.snaps[c], claim[c].pin) # {}
          /\ Goto(c, "record", Max(AtOrBefore(store.snaps[c], claim[c].pin)))
    /\ UNCHANGED <<claim, entry, wl, job, data, store, db, request>>

(* decide writes the entry before the Job exists.  StartedAt stays as the  *)
(* first attempt set it.                                                   *)
Record(c) ==
    /\ pass[c].pc = "record"
    /\ entry' = [entry EXCEPT ![c].phase = "Restoring", ![c].snap = pass[c].snap]
    /\ IF pass[c].snap = 0 THEN StopPass(c) ELSE Goto(c, "start", pass[c].snap)
    /\ UNCHANGED <<claim, wl, job, data, store, db, request>>

Start(c) ==
    /\ pass[c].pc = "start"
    /\ job' = [job EXCEPT ![c] = "running"]
    /\ StopPass(c)
    /\ UNCHANGED <<claim, entry, wl, data, store, db, request>>

(* A call of a pass fails; decide gives the slot back then, and so has     *)
(* Complete when it cannot record that the Job failed.                     *)
Fail(c) ==
    /\ \/ /\ pass[c] # NoPass
          /\ wl' = IF pass[c].pc \in {"decide", "record"} THEN [wl EXCEPT ![c] = "none"] ELSE wl
       \/ /\ pass[c] = NoPass /\ claim[c].state = "unbound" /\ claim[c].vr
          /\ job[c] = "failed" /\ wl[c] # "none"
          /\ wl' = [wl EXCEPT ![c] = "none"]
    /\ StopPass(c)
    /\ UNCHANGED <<claim, entry, job, data, store, db, request>>

(* A slip that JobHasSlot catches: the slot goes back with the Job's start. *)
CompleteEarly(c) ==
    /\ claim[c].state = "unbound" /\ claim[c].vr /\ pass[c] = NoPass
    /\ job[c] # "none"
    /\ wl' = [wl EXCEPT ![c] = "none"]
    /\ \/ job[c] = "succeeded" /\ Goto(c, "bind", entry[c].snap) /\ UNCHANGED entry
       \/ /\ job[c] = "failed"
          /\ entry' = [entry EXCEPT ![c].phase = "Failed"] /\ UNCHANGED pass
       \/ job[c] = "running" /\ UNCHANGED <<entry, pass>>
    /\ UNCHANGED <<claim, job, data, store, db, request>>

(* Complete: the Job ended, or the claim binds empty. *)
Complete(c) ==
    /\ claim[c].state = "unbound" /\ claim[c].vr /\ pass[c] = NoPass
    /\ \/ /\ job[c] = "succeeded" \/ (job[c] = "none" /\ Decided(c) /\ entry[c].snap = 0)
          /\ Goto(c, "bind", entry[c].snap) /\ UNCHANGED entry
       \/ /\ job[c] = "failed" /\ (entry[c].phase # "Failed" \/ wl[c] # "none")
          /\ entry' = [entry EXCEPT ![c].phase = "Failed"] /\ UNCHANGED pass
    /\ wl' = [wl EXCEPT ![c] = "none"]
    /\ UNCHANGED <<claim, job, data, store, db, request>>

(* The library gives the filled volume to the claim. *)
Bind(c) ==
    /\ pass[c].pc = "bind"
    /\ claim' = [claim EXCEPT ![c].state = "bound"]
    /\ data' = [data EXCEPT ![c] = pass[c].snap]
    /\ StopPass(c)
    /\ UNCHANGED <<entry, wl, job, store, db, request>>

(* Cleanup. *)
Cleanup(c) ==
    /\ claim[c].state = "bound" /\ claim[c].vr
    /\ job[c] # "none" \/ wl[c] # "none" \/ entry[c].phase # "Restored"
    /\ job' = [job EXCEPT ![c] = "none"]
    /\ wl' = [wl EXCEPT ![c] = "none"]
    /\ entry' = [entry EXCEPT ![c].phase = "Restored"]
    /\ UNCHANGED <<claim, pass, data, store, db, request>>

-----------------------------------------------------------------------------
(* The webhook. *)

(* A slip that ComeBackTogether catches: a claim with a pin counts too. *)
FromMomentPinned(c, m) ==
    /\ ~claim[c].plain /\ claim[c].vr
    /\ claim[c].state = "bound" => entry[c].phase # "none" /\ entry[c].snap = m

(* claimsFromMoment, for one claim. *)
FromMoment(c, m) ==
    /\ ~claim[c].plain /\ claim[c].pin = 0 /\ claim[c].vr
    /\ claim[c].state = "bound" => entry[c].phase # "none" /\ entry[c].snap = m

(* A slip that LiveRowsKept catches: nobody asks for WAL since the fill. *)
WrittenSinceNever == FALSE

(* WALSince, for the earliest start among the bound claims. *)
WrittenSince == \E c \in Claims : claim[c].state = "bound" /\ entry[c].since

(* WALSince, for the moment. *)
Woken(m) == store.wal > m

(* A slip that NotAhead catches: without its tagged base backup the        *)
(* Cluster takes the whole archive.                                        *)
RecoverTagged(m) == IF store.tag[m] = "base" /\ m \in store.bases THEN m ELSE 0

(* Where the recovery stops, for a namespace that comes back from moment   *)
(* m: the end of a base backup, or 0 for the whole archive.                *)
Recover(m) ==
    IF store.tag[m] = "base" /\ m \in store.bases THEN m
    ELSE IF store.tag[m] = "hibernated" /\ ~Woken(m) THEN 0
    ELSE Max({0} \cup AtOrBefore(store.bases, m))

Existing == {c \in Claims : claim[c].state # "absent"}

(* automaticRecovery *)
AutomaticRecovery ==
    IF Moment # 0 /\ (\A c \in Existing : FromMoment(c, Moment)) /\ ~WrittenSince
    THEN [base |-> Recover(Moment), moment |-> Moment, empty |-> FALSE]
    ELSE [base |-> 0, moment |-> 0, empty |-> FALSE]

(* Handle, on the create of the Cluster.  It is refused while an earlier   *)
(* instance is left, and a new database may start empty only over an       *)
(* archive that is empty, whether its owner asked for that or there is no  *)
(* base backup.                                                            *)
Handle ==
    /\ Looking
    /\ db.state = "gone" /\ request = None
    /\ \/ ~store.archived /\ request' = [base |-> 0, moment |-> 0, empty |-> TRUE]
       \/ store.bases # {} /\ request' = AutomaticRecovery
    /\ UNCHANGED <<claim, restores, data, store, db>>

(* The API server stores the Cluster, and the Cluster recovers. *)
StoreCluster ==
    /\ request # None
    /\ db' = [state |-> "recovering", moment |-> request.moment,
              content |-> IF request.empty THEN 0
                          ELSE IF request.base # 0 THEN request.base ELSE store.tip]
    /\ request' = None
    /\ UNCHANGED <<claim, restores, data, store>>

-----------------------------------------------------------------------------
(* The surroundings. *)

(* A Cluster archives into the prefix that it recovered from, on a         *)
(* timeline of its own; what it holds is what the archive replays to now.  *)
Archive(content) ==
    /\ store' = [store EXCEPT !.tip = content, !.wal = Live, !.archived = TRUE]
    /\ entry' = [c \in Claims |-> [entry[c] EXCEPT !.since = entry[c].phase # "none"]]

Recovered ==
    /\ db.state = "recovering"
    /\ db' = [db EXCEPT !.state = "up"]
    /\ Archive(db.content)
    /\ UNCHANGED <<claim, pass, wl, job, data, request>>

(* The app runs once its claims are bound and its database is up, and      *)
(* writes to all of them.                                                  *)
AppWrites ==
    /\ db.state = "up" /\ \A c \in Claims : claim[c].state = "bound"
    /\ db.content # Live \/ \E c \in Claims : data[c] # Live
    /\ db' = [db EXCEPT !.content = Live]
    /\ data' = [c \in Claims |-> Live]
    /\ Archive(Live)
    /\ UNCHANGED <<claim, pass, wl, job, request>>

(* A BackupRun of everything succeeds (BackupRun has it step by step). *)
Backup ==
    /\ db.state = "up" /\ db.content = Live /\ \A c \in Claims : data[c] = Live
    /\ \E t \in Moments :
         /\ t = 1 + Max({0} \cup store.bases \cup UNION {store.snaps[c] : c \in Claims})
         /\ store' = [store EXCEPT !.snaps = [c \in Claims |-> IF claim[c].plain THEN @[c] ELSE @[c] \cup {t}],
                                   !.paused = @ \cup {t}, !.bases = @ \cup {t}, !.tag[t] = "base"]
    /\ UNCHANGED <<claim, restores, data, db, request>>

(* Somebody has deleted the Cluster, and its last instance is gone: Handle *)
(* refuses every create until then.                                        *)
ClusterGone ==
    /\ db.state # "gone"
    /\ db' = Gone
    /\ UNCHANGED <<claim, restores, data, store, request>>

(* The namespace goes, with everything in it, and Flux starts over.  To    *)
(* bound the model, only after a backup of the last moment.                *)
Wipe ==
    /\ Applied /\ db.state = "gone" /\ request = None /\ Horizon \in store.bases
    /\ \A c \in Claims : claim[c].state = "bound" /\ job[c] = "none" /\ ~claim[c].plain
    /\ claim' = [c \in Claims |-> [claim[c] EXCEPT !.state = "absent", !.vr = FALSE]]
    /\ data' = [c \in Claims |-> 0]
    /\ entry' = [c \in Claims |-> NoEntry]
    /\ UNCHANGED <<pass, wl, job, store, db, request>>

(* Kueue. *)
Admit(c) ==
    /\ wl[c] \in {"pending", "evicted"}
    /\ Cardinality({d \in Claims : wl[d] = "admitted"}) < Quota
    /\ wl' = [wl EXCEPT ![c] = "admitted"]
    /\ UNCHANGED <<claim, entry, pass, job, data, store, db, request>>

Evict(c) ==
    /\ wl[c] = "admitted"
    /\ wl' = [wl EXCEPT ![c] = "evicted"]
    /\ UNCHANGED <<claim, entry, pass, job, data, store, db, request>>

(* The Job controller, and the admin who deletes a failed Job. *)
JobSucceeds(c) ==
    /\ job[c] = "running"
    /\ job' = [job EXCEPT ![c] = "succeeded"]
    /\ UNCHANGED <<claim, entry, pass, wl, data, store, db, request>>

JobFails(c) ==
    /\ job[c] = "running"
    /\ job' = [job EXCEPT ![c] = "failed"]
    /\ UNCHANGED <<claim, entry, pass, wl, data, store, db, request>>

AdminDeletesJob(c) ==
    /\ job[c] = "failed"
    /\ job' = [job EXCEPT ![c] = "none"]
    /\ UNCHANGED <<claim, entry, pass, wl, data, store, db, request>>

Populator(c) ==
    \/ Populate(c) \/ Pick(c) \/ Unreachable(c) \/ Record(c) \/ Start(c)
    \/ Complete(c) \/ Bind(c) \/ Cleanup(c)

Troubles(c) == Fail(c) \/ Evict(c) \/ JobFails(c)

Next ==
    \/ \E c \in Claims : Populator(c) \/ Troubles(c) \/ Admit(c) \/ JobSucceeds(c) \/ AdminDeletesJob(c)
    \/ \E c \in Claims : ApplyRestore(c) \/ ApplyClaim(c) \/ Unpin(c)
    \/ Handle \/ StoreCluster \/ Recovered \/ AppWrites \/ Backup
    \/ ClusterGone \/ Wipe

Spec == Init /\ [][Next]_vars

-----------------------------------------------------------------------------
(* Properties. *)

TypeOK ==
    /\ claim \in [Claims -> [state : {"absent", "unbound", "bound"}, vr : BOOLEAN,
                             plain : BOOLEAN, pin : 0 .. Horizon]]
    /\ entry \in [Claims -> [phase : {"none", "Restoring", "Failed", "Restored"},
                             snap : 0 .. Horizon, since : BOOLEAN]]
    /\ pass \in [Claims -> [pc : {"idle", "decide", "record", "start", "bind"}, snap : 0 .. Horizon]]
    /\ wl \in [Claims -> {"none", "pending", "admitted", "evicted"}]
    /\ job \in [Claims -> {"none", "running", "succeeded", "failed"}]
    /\ data \in [Claims -> 0 .. Live]
    /\ store \in Stores
    /\ db \in [state : {"gone", "recovering", "up"}, content : 0 .. Live,
               moment : 0 .. Horizon]
    /\ request \in {None} \cup [base : 0 .. Horizon, moment : 0 .. Horizon, empty : BOOLEAN]

(* "The populator and the webhook read the same repositories, so they find *)
(* the same paused moment" (docs/automatic-restore.md:51): when the        *)
(* webhook brought the Cluster back to a paused moment, every claim that   *)
(* the populator has filled holds the snapshot of that moment, or what the *)
(* app made of it.                                                         *)
ComeBackTogether ==
    db.moment # 0 => \A c \in Claims : claim[c].state = "bound" => data[c] \in {db.moment, Live}

(* "Whenever the claims come back from the paused moment, the database     *)
(* comes back to that moment or to a base backup before it"                *)
(* (docs/automatic-restore.md:71), unless retention left none: also when   *)
(* the Cluster is created, runs and is deleted again while the claims are  *)
(* being filled.                                                           *)
NotAhead ==
    [][request # None /\ request' = None /\ Moment # 0
         /\ (\A c \in Claims : ~claim[c].plain /\ claim[c].pin = 0 /\
                               (claim[c].state = "bound" => data[c] = Moment))
       => db'.content <= Moment \/ AtOrBefore(store.bases, Moment) = {}]_vars

(* "So a Cluster deleted while its app runs keeps every row"               *)
(* (docs/automatic-restore.md:62): next to a claim that an app has written *)
(* to, a Cluster comes back with everything its archive holds.             *)
LiveRowsKept ==
    [][request # None /\ request' = None /\ (\E c \in Claims : data[c] = Live)
       => db'.content = store.tip]_vars

(* "The slot goes back once the restore Job ends" (docs/automatic-         *)
(* restore.md:119): no failure, retry or eviction leaves a restore Job     *)
(* running without the Workload that counts it against the quota.          *)
JobHasSlot == \A c \in Claims : job[c] = "running" => wl[c] # "none"

-----------------------------------------------------------------------------
(* Fairness.  The library calls the callbacks again for every claim that   *)
(* is not bound, Kueue admits whoever asks again and again, Jobs end, and  *)
(* an admin deletes a failed Job.  From some moment on no call fails, no   *)
(* Workload is evicted and no Job fails.                                   *)
TroubleStrikes == \E c \in Claims : Troubles(c)

Fairness ==
    /\ <>[][~TroubleStrikes]_vars
    /\ \A c \in Claims :
         /\ WF_vars(Populator(c)) /\ SF_vars(Admit(c))
         /\ WF_vars(JobSucceeds(c) \/ AdminDeletesJob(c))
         /\ WF_vars(ApplyRestore(c) \/ ApplyClaim(c))

FairSpec == Spec /\ Fairness

(* Every claim whose pin some snapshot reaches is filled and bound in the  *)
(* end, also while another claim of the namespace asks for the slots again *)
(* and again with a pin that no snapshot reaches.                          *)
ClaimsAreFilled ==
    \A c \in Claims :
        claim[c].state = "unbound" ~>
            \/ claim[c].state # "unbound"
            \/ claim[c].pin # 0 /\ AtOrBefore(store.snaps[c], claim[c].pin) = {}
=============================================================================
