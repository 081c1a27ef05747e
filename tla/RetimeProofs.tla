----------------------------- MODULE RetimeProofs -----------------------------
(***************************************************************************)
(* Proofs about Retime, for any pods, restic processes and bounds.         *)
(*                                                                         *)
(* The lock protocol is symmetric: everybody writes a lock, looks at the   *)
(* others' and goes on only if none is in the way, so of two that go on    *)
(* one must have looked after the other wrote.  It holds because a lock    *)
(* stays where it is, unaged, while its process is at work.                *)
(*                                                                         *)
(* A snapshot is moved once because IDs only grow: an item never goes back *)
(* to an older snapshot, so whatever is a copy of its snapshot was made    *)
(* for this item, and that is what retime looks for.                       *)
(***************************************************************************)
EXTENDS Retime, NumberFacts, TLAPS

(* Whoever is past the writing of its lock has it stored. *)
LockInv ==
    /\ \A r \in Restics : other[r].pc # "off" => Lock(r, other[r].kind = "forget") \in locks
    /\ job.pc \in {"wait", "in"} => Lock("job", FALSE) \in locks
    /\ ctl.pc \in {"recheck", "list", "save", "remove", "unlock"} => Lock(ctl.pod, TRUE) \in locks

(* Nobody else has a lock of a process at work while retime works. *)
AloneInv ==
    ctl.pc \in {"list", "save", "remove"} =>
        (\A r \in Restics : other[r].pc = "off") /\ job.pc \notin {"wait", "in"}

(* The second check has removed what earlier calls left. *)
LeftInv ==
    ctl.pc \in {"list", "save", "remove"} \/ (ctl.pc = "unlock" /\ ctl.res # 0) =>
        \A l \in locks : Mine(l) => ~l.left

(* IDs are given once and grow; copies are tagged and of items up to now. *)
FilesInv ==
    /\ \A f \in files :
         /\ f.id <= last
         /\ f.at # 0 <=> f.original # 0
         /\ f.original # 0 => f.original < f.id /\ f.original <= item.id
    /\ \A f, g \in files : f.id = g.id => f = g
    /\ files # {} \/ forgotten # {}

(* The item grows with its snapshots.  While it is moved, its snapshot is  *)
(* no copy, and the copies of it were made for this item.                  *)
ItemInv ==
    /\ item.n <= item.id /\ item.id <= last
    /\ item.phase = "moving" =>
         /\ item.n > 0 /\ item.tree \in Trees
         /\ \A f \in files :
              /\ f.id = item.id => f.original = 0 /\ f.tree = item.tree
              /\ f.original = item.id => f.at = item.n /\ f.tree = item.tree

(* What the controller has read. *)
CtlInv ==
    /\ ctl.pc \notin {"idle", "found"} => item.phase = "moving"
    /\ ctl.pc = "found" =>
         /\ item.phase # "moving" /\ ctl.file \in File /\ ctl.file.original = 0
         /\ item.id < ctl.file.id /\ ctl.file.id <= last
         /\ \A f \in files : f.id = ctl.file.id => f = ctl.file
    /\ ctl.pc \in {"save", "remove"} => ctl.file \in files /\ ctl.file.id = item.id
    /\ ctl.pc = "save" => \A g \in files : g.original # item.id
    /\ ctl.pc = "remove" => \E g \in files : g.id = ctl.res /\ g.original = item.id
    /\ ctl.res # 0 => item.id < ctl.res /\ ctl.res <= last
    /\ ctl.pc = "record" => ctl.res # 0
    /\ ctl.pc = "idle" => ctl.res = 0

IInv ==
    /\ TypeOK
    /\ LockInv /\ AloneInv /\ LeftInv /\ NoLockLeft
    /\ FilesInv /\ ItemInv /\ CtlInv /\ MovedOnce

-----------------------------------------------------------------------------
(* Types. *)

LockFile == [by : Pods \cup Restics \cup {"job"}, exclusive : BOOLEAN, stale : BOOLEAN, left : BOOLEAN]
Phases == {"none", "moving", "done", "ended"}
Calls == {"idle", "found", "check", "lock", "recheck", "list", "save", "remove", "unlock", "record"}
Control == [pod : Pods, file : File \cup {NoFile}, res : 0 .. MaxFile, pc : Calls]

LEMMA LockType ==
    ASSUME NEW by \in Pods \cup Restics \cup {"job"}, NEW exclusive \in BOOLEAN
    PROVE  /\ Lock(by, exclusive) \in LockFile
           /\ [Lock(by, exclusive) EXCEPT !.left = TRUE] \in LockFile
BY DEF Lock, LockFile

LEMMA LeftType ==
    ASSUME NEW l \in LockFile
    PROVE  /\ [l EXCEPT !.left = TRUE] \in LockFile
           /\ [l EXCEPT !.stale = TRUE] \in LockFile
BY DEF LockFile

(* A step of the program counter alone, and the end of a pass. *)
LEMMA GotoType ==
    ASSUME TypeOK, NEW pc \in Calls, NEW res \in 0 .. MaxFile, Goto(pc, res)
    PROVE  ctl' \in Control
BY DEF TypeOK, Goto, Control, Calls

LEMMA EndPassType == ASSUME TypeOK, EndPass PROVE ctl' \in Control
<1>1. ctl \in Control /\ 0 \in 0 .. MaxFile /\ NoFile \in File \cup {NoFile}
  BY BoundsAssumption DEF TypeOK, Control, Calls
<1> QED
  BY <1>1 DEF EndPass, Control, Calls

LEMMA FaultType == ASSUME TypeOK, Fault \/ UNCHANGED faults PROVE faults' \in 0 .. MaxFaults
BY BoundsAssumption DEF TypeOK, Fault

LEMMA WorkType ==
    ASSUME TypeOK, NEW kind, Work(kind)
    PROVE  files' \subseteq File /\ last' \in 1 .. MaxFile /\ forgotten' \subseteq Trees
<1> USE BoundsAssumption
<1>1. CASE kind = "backup" /\ last < MaxFile /\ last' = last + 1 /\ forgotten' = forgotten
           /\ \E t \in Trees : files' = files \cup {[id |-> last + 1, tree |-> t, at |-> 0, original |-> 0]}
  <2>1. PICK t \in Trees : files' = files \cup {[id |-> last + 1, tree |-> t, at |-> 0, original |-> 0]}
    BY <1>1
  <2>2. [id |-> last + 1, tree |-> t, at |-> 0, original |-> 0] \in File
    BY <1>1 DEF TypeOK, File
  <2> QED
    BY <1>1, <2>1, <2>2 DEF TypeOK
<1>2. CASE last' = last /\ \E f \in files : files' = files \ {f} /\ forgotten' = forgotten \cup {f.tree}
  BY <1>2 DEF TypeOK, File
<1>3. CASE UNCHANGED <<files, last, forgotten>>
  BY <1>3 DEF TypeOK
<1> QED
  BY <1>1, <1>2, <1>3 DEF Work

LEMMA InitType == Init => TypeOK
<1> SUFFICES ASSUME Init PROVE TypeOK
  OBVIOUS
<1> USE BoundsAssumption
<1>1. files \subseteq File /\ last \in 1 .. MaxFile /\ locks \subseteq LockFile
  BY DEF Init, File, Trees
<1>2. item \in [phase : Phases, id : 0 .. MaxFile, tree : 0 .. MaxTree, n : Nat]
  BY DEF Init, Phases
<1>3. ctl \in Control
  BY DEF Init, Control, Calls
<1>4. other \in [Restics -> [pc : {"off", "wait", "in"}, kind : {"backup", "forget"}]]
  BY DEF Init
<1>5. job \in [pc : {"none", "waiting", "wait", "in", "done", "failed"}, id : 0 .. MaxFile,
               tree : 0 .. MaxTree, tries : 0 .. Tries]
  BY DEF Init, NoJob
<1> QED
  BY <1>1, <1>2, <1>3, <1>4, <1>5 DEF Init, TypeOK, LockFile, Phases, Control, Calls

LEMMA ControllerType == ASSUME IInv, Controller PROVE TypeOK'
<1> USE BoundsAssumption DEF IInv
<1>0. TypeOK /\ FilesInv /\ ItemInv /\ CtlInv
  OBVIOUS
<1>1. CASE Find
  <2>1. PICK f \in files : ctl' = [ctl EXCEPT !.pc = "found", !.file = f]
    BY <1>1 DEF Find, Synced
  <2>2. ctl' \in Control
    BY <2>1 DEF TypeOK, Control, Calls
  <2> QED
    BY <1>1, <2>2 DEF Find, TypeOK, world, Control, Calls
<1>2. CASE Track
  <2>1. item' \in [phase : Phases, id : 0 .. MaxFile, tree : 0 .. MaxTree, n : Nat]
    BY <1>2 DEF Track, CtlInv, TypeOK, File, Trees, Phases
  <2> QED
    BY <1>2, <2>1, EndPassType DEF Track, TypeOK, world, Control, Calls, Phases
<1>3. CASE Begin
  BY <1>3, GotoType DEF Begin, TypeOK, world, Control, Calls
<1>4. CASE FirstCheck
  <2>1. locks' \subseteq locks
    BY <1>4 DEF FirstCheck, Passes, Blocked, CheckFails
  <2>2. ctl' \in Control
    BY <1>4, GotoType, EndPassType DEF FirstCheck, Calls
  <2>3. faults' \in 0 .. MaxFaults
    BY <1>4, FaultType DEF FirstCheck, Passes, Blocked, CheckFails
  <2> QED
    BY <1>4, <2>1, <2>2, <2>3 DEF FirstCheck, TypeOK, world, Control, Calls
<1>5. CASE WriteLock
  <2>1. ctl.pod \in Pods
    BY DEF TypeOK
  <2>2. locks' \subseteq LockFile
    <3>1. /\ Lock(ctl.pod, TRUE) \in LockFile
          /\ [Lock(ctl.pod, TRUE) EXCEPT !.left = TRUE] \in LockFile
      BY <2>1, LockType
    <3>2. locks \subseteq LockFile
      BY DEF TypeOK, LockFile
    <3> QED
      BY <1>5, <3>1, <3>2 DEF WriteLock
  <2>3. ctl' \in Control
    <3>1. Goto("recheck", 0) \/ EndPass
      BY <1>5 DEF WriteLock
    <3> QED
      BY <3>1, GotoType, EndPassType DEF Calls
  <2>4. faults' \in 0 .. MaxFaults
    BY <1>5, FaultType DEF WriteLock
  <2> QED
    BY <1>5, <2>2, <2>3, <2>4 DEF WriteLock, TypeOK, world, Control, Calls, LockFile
<1>6. CASE SecondCheck
  <2>1. locks' \subseteq locks
    BY <1>6 DEF SecondCheck, Passes, Blocked, CheckFails
  <2>2. ctl' \in Control
    BY <1>6, GotoType DEF SecondCheck, Calls
  <2>3. faults' \in 0 .. MaxFaults
    BY <1>6, FaultType DEF SecondCheck, Passes, Blocked, CheckFails
  <2> QED
    BY <1>6, <2>1, <2>2, <2>3 DEF SecondCheck, TypeOK, world, Control, Calls
<1>7. CASE List
  <2>1. ctl' \in Control
    <3>1. CASE \E pc \in Calls, res \in 0 .. MaxFile : Goto(pc, res)
      BY <3>1, GotoType
    <3>2. CASE \E f \in files, res \in 0 .. MaxFile : ctl' = [ctl EXCEPT !.pc = "remove", !.file = f, !.res = res]
      BY <3>2 DEF TypeOK, Control, Calls
    <3>3. CASE \E f \in files : ctl' = [ctl EXCEPT !.pc = "save", !.file = f]
      BY <3>3 DEF TypeOK, Control, Calls
    <3>4. \A g \in files : g.id \in 0 .. MaxFile
      BY DEF TypeOK, File
    <3>5. \/ \E f, g \in files : ctl' = [ctl EXCEPT !.pc = "remove", !.file = f, !.res = g.id]
          \/ \E f \in files : ctl' = [ctl EXCEPT !.pc = "save", !.file = f]
          \/ \E g \in files : Goto("unlock", g.id)
          \/ Goto("unlock", 0)
      BY <1>7 DEF List, Written
    <3>6. "unlock" \in Calls /\ 0 \in 0 .. MaxFile
      BY DEF Calls
    <3> QED
      BY <3>1, <3>2, <3>3, <3>4, <3>5, <3>6
  <2>2. faults' \in 0 .. MaxFaults
    BY <1>7, FaultType DEF List
  <2> QED
    BY <1>7, <2>1, <2>2 DEF List, TypeOK, world, Control, Calls
<1>8. CASE Save
  <2>1. Copy \in File \/ last = MaxFile
    <3>1. ctl.file \in File /\ item.n \in 0 .. MaxFile
      BY <1>8 DEF Save, CtlInv, ItemInv, TypeOK, File
    <3> QED
      BY <3>1 DEF Copy, Origin, TypeOK, File
  <2>2. files' \subseteq File /\ last' \in 1 .. MaxFile
    BY <1>8, <2>1 DEF Save, PutCopy, TypeOK
  <2>3. ctl' \in Control
    <3>1. PutCopy => Copy.id \in 0 .. MaxFile
      BY DEF PutCopy, Copy, TypeOK
    <3> QED
      BY <1>8, <3>1, GotoType DEF Save, Calls
  <2>4. faults' \in 0 .. MaxFaults
    BY <1>8, FaultType DEF Save
  <2> QED
    BY <1>8, <2>2, <2>3, <2>4 DEF Save, TypeOK, world, Control, Calls
<1>9. CASE Remove
  <2>1. files' \subseteq File
    BY <1>9 DEF Remove, TypeOK
  <2>2. ctl' \in Control
    <3>1. ctl.res \in 0 .. MaxFile
      BY DEF TypeOK
    <3> QED
      BY <1>9, <3>1, GotoType DEF Remove, Calls
  <2>3. faults' \in 0 .. MaxFaults
    BY <1>9, FaultType DEF Remove
  <2> QED
    BY <1>9, <2>1, <2>2, <2>3 DEF Remove, TypeOK, world, Control, Calls
<1>10. CASE Unlock
  <2>1. PICK own \in SUBSET locks :
          \/ locks' = locks \ own
          \/ locks' = (locks \ own) \cup {[l EXCEPT !.left = TRUE] : l \in own}
    BY <1>10 DEF Unlock
  <2>2. locks' \subseteq LockFile
    <3>1. locks \subseteq LockFile
      BY DEF TypeOK, LockFile
    <3>2. \A l \in own : [l EXCEPT !.left = TRUE] \in LockFile
      BY <3>1, LeftType
    <3> QED
      BY <2>1, <3>1, <3>2
  <2>3. ctl' \in Control
    <3>1. ctl.res \in 0 .. MaxFile
      BY DEF TypeOK
    <3> QED
      BY <1>10, <3>1, GotoType, EndPassType DEF Unlock, Calls
  <2>4. faults' \in 0 .. MaxFaults
    BY <1>10, FaultType DEF Unlock
  <2> QED
    BY <1>10, <2>2, <2>3, <2>4 DEF Unlock, TypeOK, world, Control, Calls, LockFile
<1>11. CASE Record
  <2>1. item' \in [phase : Phases, id : 0 .. MaxFile, tree : 0 .. MaxTree, n : Nat]
    BY <1>11 DEF Record, TypeOK, Phases
  <2>2. faults' \in 0 .. MaxFaults
    BY <1>11, FaultType DEF Record
  <2> QED
    BY <1>11, <2>1, <2>2, EndPassType DEF Record, TypeOK, world, Control, Calls, Phases
<1> QED
  BY <1>1, <1>2, <1>3, <1>4, <1>5, <1>6, <1>7, <1>8, <1>9, <1>10, <1>11 DEF Controller

LEMMA FailTryType ==
    ASSUME TypeOK, FailTry
    PROVE  job' \in [pc : {"none", "waiting", "wait", "in", "done", "failed"}, id : 0 .. MaxFile,
                     tree : 0 .. MaxTree, tries : 0 .. Tries]
<1>1. CASE job.tries < Tries /\ job' = [job EXCEPT !.pc = "waiting", !.tries = job.tries + 1]
  <2>1. job.tries + 1 \in 0 .. Tries
    BY <1>1, BoundsAssumption DEF TypeOK
  <2> QED
    BY <1>1, <2>1 DEF TypeOK
<1>2. CASE job' = [job EXCEPT !.pc = "failed"]
  BY <1>2 DEF TypeOK
<1> QED
  BY <1>1, <1>2 DEF FailTry

LEMMA NextType == IInv /\ [Next]_vars => TypeOK'
<1> SUFFICES ASSUME IInv, TypeOK, [Next]_vars PROVE TypeOK'
  BY DEF IInv
<1> USE BoundsAssumption
<1>0. locks \subseteq LockFile
  BY DEF TypeOK, LockFile
<1>1. CASE Controller
  BY <1>1, ControllerType
<1>2. CASE Abandon
  BY <1>2 DEF Abandon, TypeOK, world
<1>3. CASE Crash
  <2>1. \A l \in locks : [l EXCEPT !.left = TRUE] \in LockFile
    BY <1>0, LeftType
  <2>2. locks' \subseteq LockFile
    BY <1>0, <1>3, <2>1 DEF Crash
  <2>3. PICK p \in Pods : ctl' = [pod |-> p, pc |-> "idle", file |-> NoFile, res |-> 0]
    BY <1>3 DEF Crash
  <2>4. ctl' \in Control
    BY <2>3 DEF Control, Calls
  <2>5. faults' \in 0 .. MaxFaults
    BY <1>3, FaultType DEF Crash
  <2> QED
    BY <1>3, <2>2, <2>4, <2>5 DEF Crash, TypeOK, world, LockFile, Control, Calls
<1>4. ASSUME NEW l \in locks, Age(l) PROVE TypeOK'
  <2>1. locks' \subseteq LockFile
    BY <1>0, <1>4, LeftType DEF Age
  <2> QED
    BY <1>4, <2>1 DEF Age, TypeOK, world, LockFile
<1>5. ASSUME NEW r \in Restics, NEW kind \in {"backup", "forget"}, Start(r, kind) PROVE TypeOK'
  <2>1. PICK ls \in SUBSET locks : locks' = ls \cup {Lock(r, kind = "forget")}
    BY <1>5 DEF Start
  <2>2. (kind = "forget") \in BOOLEAN
    OBVIOUS
  <2>3. locks' \subseteq LockFile
    <3>1. Lock(r, kind = "forget") \in LockFile
      BY <2>2, LockType
    <3> QED
      BY <1>0, <2>1, <3>1
  <2>4. other' \in [Restics -> [pc : {"off", "wait", "in"}, kind : {"backup", "forget"}]]
    BY <1>5 DEF Start, TypeOK
  <2> QED
    BY <1>5, <2>3, <2>4 DEF Start, TypeOK, LockFile
<1>6. ASSUME NEW r \in Restics, Enter(r) PROVE TypeOK'
  <2>1. locks' \subseteq locks
    BY <1>6 DEF Enter, Release
  <2>2. other' \in [Restics -> [pc : {"off", "wait", "in"}, kind : {"backup", "forget"}]]
    BY <1>6 DEF Enter, TypeOK
  <2> QED
    BY <1>6, <2>1, <2>2 DEF Enter, TypeOK
<1>7. ASSUME NEW r \in Restics, Leave(r) PROVE TypeOK'
  <2>1. locks' \subseteq locks
    BY <1>7 DEF Leave, Release
  <2>2. other' \in [Restics -> [pc : {"off", "wait", "in"}, kind : {"backup", "forget"}]]
    BY <1>7 DEF Leave, TypeOK
  <2>3. files' \subseteq File /\ last' \in 1 .. MaxFile /\ forgotten' \subseteq Trees
    BY <1>7, WorkType DEF Leave
  <2> QED
    BY <1>7, <2>1, <2>2, <2>3 DEF Leave, TypeOK
<1>8. ASSUME NEW r \in Restics, Die(r) PROVE TypeOK'
  <2>1. \A l \in locks : [l EXCEPT !.left = TRUE] \in LockFile
    BY <1>0, LeftType
  <2>2. locks' \subseteq LockFile
    BY <1>0, <1>8, <2>1 DEF Die
  <2>3. other' \in [Restics -> [pc : {"off", "wait", "in"}, kind : {"backup", "forget"}]]
    BY <1>8 DEF Die, TypeOK
  <2>4. files' \subseteq File /\ last' \in 1 .. MaxFile /\ forgotten' \subseteq Trees
    <3>1. CASE Work(other[r].kind)
      BY <3>1, WorkType
    <3>2. CASE UNCHANGED <<files, last, forgotten>>
      BY <3>2 DEF TypeOK
    <3> QED
      BY <1>8, <3>1, <3>2 DEF Die
  <2>5. faults' \in 0 .. MaxFaults
    BY <1>8, FaultType DEF Die
  <2> QED
    BY <1>8, <2>2, <2>3, <2>4, <2>5 DEF Die, TypeOK, LockFile
<1>9. CASE Choose
  <2>1. job' \in [pc : {"none", "waiting", "wait", "in", "done", "failed"}, id : 0 .. MaxFile,
                  tree : 0 .. MaxTree, tries : 0 .. Tries]
    BY <1>9 DEF Choose, TypeOK, File, Trees
  <2> QED
    BY <1>9, <2>1 DEF Choose, TypeOK
<1>10. CASE JobLocks
  <2>1. locks' \subseteq LockFile
    <3>1. Lock("job", FALSE) \in LockFile
      BY LockType
    <3> QED
      BY <1>0, <1>10, <3>1 DEF JobLocks
  <2>2. job' \in [pc : {"none", "waiting", "wait", "in", "done", "failed"}, id : 0 .. MaxFile,
                  tree : 0 .. MaxTree, tries : 0 .. Tries]
    <3>1. CASE job' = [job EXCEPT !.pc = "wait"]
      BY <3>1 DEF TypeOK
    <3> QED
      BY <1>10, <3>1, FailTryType DEF JobLocks
  <2> QED
    BY <1>10, <2>1, <2>2 DEF JobLocks, TypeOK, LockFile
<1>11. CASE JobEnters
  <2>1. locks' \subseteq locks
    BY <1>11 DEF JobEnters, Release
  <2>2. job' \in [pc : {"none", "waiting", "wait", "in", "done", "failed"}, id : 0 .. MaxFile,
                  tree : 0 .. MaxTree, tries : 0 .. Tries]
    BY <1>11 DEF JobEnters, TypeOK
  <2> QED
    BY <1>11, <2>1, <2>2 DEF JobEnters, TypeOK
<1>12. CASE JobEnds
  <2>1. locks' \subseteq locks
    BY <1>12 DEF JobEnds, Release
  <2>2. job' \in [pc : {"none", "waiting", "wait", "in", "done", "failed"}, id : 0 .. MaxFile,
                  tree : 0 .. MaxTree, tries : 0 .. Tries]
    <3>1. CASE job' = [job EXCEPT !.pc = "done"]
      BY <3>1 DEF TypeOK
    <3> QED
      BY <1>12, <3>1, FailTryType DEF JobEnds
  <2> QED
    BY <1>12, <2>1, <2>2 DEF JobEnds, TypeOK
<1>13. CASE UNCHANGED vars
  BY <1>13 DEF vars, world, TypeOK
<1> QED
  BY <1>1, <1>2, <1>3, <1>4, <1>5, <1>6, <1>7, <1>8, <1>9, <1>10, <1>11, <1>12, <1>13 DEF Next

-----------------------------------------------------------------------------
(* Locks. *)

Locked == LockInv /\ AloneInv /\ LeftInv /\ NoLockLeft

LEMMA LockFields ==
    ASSUME NEW by, NEW exclusive
    PROVE  /\ Lock(by, exclusive).by = by /\ Lock(by, exclusive).exclusive = exclusive
           /\ ~Lock(by, exclusive).stale /\ ~Lock(by, exclusive).left
BY DEF Lock

(* checkLocks takes away only locks that calls in this pod left. *)
LEMMA ChecksKeep ==
    ASSUME Passes \/ Blocked \/ CheckFails
    PROVE  /\ locks' \subseteq locks
           /\ \A l \in locks : ~l.left => l \in locks'
BY DEF Passes, Blocked, CheckFails, Leftovers, Looked

(* The second check shows that no other process has its lock stored. *)
LEMMA PassesAlone ==
    ASSUME TypeOK, LockInv, Passes
    PROVE  /\ \A r \in Restics : other[r].pc = "off"
           /\ job.pc \notin {"wait", "in"}
           /\ \A l \in locks' : Mine(l) => ~l.left
<1>1. \A l \in locks : ~l.left /\ ~Mine(l) => l.stale
  BY DEF Passes, Blocking, Looked
<1>2. ctl.pod \in Pods
  BY DEF TypeOK
<1>3. ASSUME NEW r \in Restics PROVE other[r].pc = "off"
  <2>1. Lock(r, other[r].kind = "forget") \notin locks
    BY <1>1, <1>2, LockFields, ProcsAssumption DEF Mine
  <2> QED
    BY <2>1 DEF LockInv
<1>4. job.pc \notin {"wait", "in"}
  <2>1. Lock("job", FALSE) \notin locks
    <3>1. "job" # ctl.pod
      BY <1>2, ProcsAssumption
    <3> QED
      BY <1>1, <3>1 DEF Mine, Lock
  <2> QED
    BY <2>1 DEF LockInv
<1>5. \A l \in locks' : Mine(l) => ~l.left
  BY DEF Passes, Leftovers, Looked
<1> QED
  BY <1>3, <1>4, <1>5

(* Others' locks stay while this process works on its own. *)
LEMMA ControllerLocks == ASSUME IInv, Controller PROVE Locked'
<1> USE DEF IInv
<1>0. /\ TypeOK /\ ctl \in Control /\ ctl.pod \in Pods
  BY DEF TypeOK, Control, Calls
<1>1. CASE UNCHANGED <<locks, world>> /\ ctl'.pod = ctl.pod /\ ctl'.pc \notin {"recheck", "list", "save", "remove", "unlock", "record"}
  BY <1>1 DEF Locked, LockInv, AloneInv, LeftInv, NoLockLeft, world
<1>2. CASE /\ UNCHANGED <<locks, world>> /\ ctl'.pod = ctl.pod
           /\ ctl.pc \in {"list", "save", "remove"}
           /\ ctl'.pc \in {"save", "remove", "unlock"}
  BY <1>2 DEF Locked, LockInv, AloneInv, LeftInv, NoLockLeft, Mine, world
<1>3. CASE Find \/ Track \/ Begin \/ Record
  <2>1. UNCHANGED <<locks, world>> /\ ctl'.pod = ctl.pod
           /\ ctl'.pc \notin {"recheck", "list", "save", "remove", "unlock", "record"}
    BY <1>0, <1>3 DEF Find, Track, Begin, Record, EndPass, Goto, Control
  <2> QED
    BY <1>1, <2>1
<1>4. CASE List \/ Save \/ Remove
  <2>1. UNCHANGED <<locks, world>>
    BY <1>4 DEF List, Save, Remove
  <2>2. ctl.pc \in {"list", "save", "remove"}
    BY <1>4 DEF List, Save, Remove
  <2>3. ctl'.pod = ctl.pod /\ ctl'.pc \in {"save", "remove", "unlock"}
    BY <1>0, <1>4 DEF List, Save, Remove, Goto, Control
  <2> QED
    BY <1>2, <2>1, <2>2, <2>3
<1>5. CASE FirstCheck
  <2>1. UNCHANGED world /\ ctl'.pod = ctl.pod /\ ctl'.pc \in {"lock", "idle"}
    BY <1>0, <1>5 DEF FirstCheck, Goto, EndPass, Control
  <2>2. \A l \in locks : ~l.left => l \in locks'
    BY <1>5, ChecksKeep DEF FirstCheck
  <2>3. LockInv'
    BY <2>1, <2>2, LockFields DEF LockInv, world
  <2> QED
    BY <2>1, <2>3 DEF Locked, AloneInv, LeftInv, NoLockLeft
<1>6. CASE WriteLock
  <2>1. UNCHANGED world /\ ctl'.pod = ctl.pod /\ ctl'.pc \in {"recheck", "idle"}
    BY <1>0, <1>6 DEF WriteLock, Goto, EndPass, Control
  <2>2. locks \subseteq locks' /\ (ctl'.pc = "recheck" => Lock(ctl.pod, TRUE) \in locks')
    BY <1>0, <1>6 DEF WriteLock, Goto, EndPass, Control
  <2>3. LockInv'
    BY <2>1, <2>2 DEF LockInv, world
  <2> QED
    BY <2>1, <2>3 DEF Locked, AloneInv, LeftInv, NoLockLeft
<1>7. CASE SecondCheck
  <2>1. UNCHANGED world /\ ctl'.pod = ctl.pod /\ ctl.pc = "recheck"
    BY <1>0, <1>7 DEF SecondCheck, Goto, Control
  <2>2. \/ Passes /\ ctl'.pc = "list"
        \/ ctl'.pc = "unlock" /\ ctl'.res = 0
    BY <1>0, <1>7 DEF SecondCheck, Goto, Control
  <2>3. \A l \in locks : ~l.left => l \in locks'
    BY <1>7, ChecksKeep DEF SecondCheck
  <2>4. LockInv'
    BY <2>1, <2>2, <2>3, LockFields DEF LockInv, world
  <2>5. AloneInv' /\ LeftInv' /\ NoLockLeft'
    BY <2>1, <2>2, PassesAlone DEF AloneInv, LeftInv, NoLockLeft, Mine, world
  <2> QED
    BY <2>4, <2>5 DEF Locked
<1>8. CASE Unlock
  <2>1. UNCHANGED world /\ ctl'.pod = ctl.pod /\ ctl.pc = "unlock" /\ ctl'.pc \in {"idle", "record"}
    BY <1>0, <1>8 DEF Unlock, Goto, EndPass, Control
  <2>2. \A l \in locks : ~Mine(l) => l \in locks'
    BY <1>8 DEF Unlock
  <2>3. LockInv'
    <3>1. "job" # ctl.pod /\ \A r \in Restics : r # ctl.pod
      BY <1>0, ProcsAssumption
    <3>2. Lock("job", FALSE) \in locks => Lock("job", FALSE) \in locks'
      BY <2>2, <3>1, LockFields DEF Mine
    <3>3. \A r \in Restics : Lock(r, other[r].kind = "forget") \in locks => Lock(r, other[r].kind = "forget") \in locks'
      BY <2>2, <3>1, LockFields DEF Mine
    <3> QED
      BY <2>1, <3>2, <3>3 DEF LockInv, world
  <2>4. ctl'.pc = "record" => ctl.res # 0 /\ locks' = locks \ {l \in locks : Mine(l) /\ ~l.left}
    BY <1>0, <1>8 DEF Unlock, Goto, EndPass, Control
  <2>5. NoLockLeft'
    BY <2>1, <2>4 DEF NoLockLeft, LeftInv, Mine
  <2> QED
    BY <2>1, <2>3, <2>5 DEF Locked, AloneInv, LeftInv
<1> QED
  BY <1>3, <1>4, <1>5, <1>6, <1>7, <1>8 DEF Controller

(* A lock that somebody else removes, ages or leaves is not this one. *)
LEMMA NextLocks == IInv /\ [Next]_vars => Locked'
<1> SUFFICES ASSUME IInv, [Next]_vars PROVE Locked'
  OBVIOUS
<1> USE DEF IInv
<1>0. /\ ctl \in Control /\ ctl.pod \in Pods /\ "job" # ctl.pod
      /\ \A r \in Restics : r # ctl.pod /\ r # "job"
      /\ \A r \in Restics : other[r] \in [pc : {"off", "wait", "in"}, kind : {"backup", "forget"}]
      /\ DOMAIN other = Restics
  BY ProcsAssumption DEF TypeOK, Control, Calls
<1>1. CASE Controller
  BY <1>1, ControllerLocks
<1>2. CASE UNCHANGED <<locks, ctl, world>>
  BY <1>2 DEF Locked, LockInv, AloneInv, LeftInv, NoLockLeft, Mine, world
<1>3. CASE Crash
  <2>1. UNCHANGED world /\ ctl'.pc = "idle"
    BY <1>3 DEF Crash
  <2>2. \A l \in locks : ~Mine(l) => l \in locks'
    BY <1>3 DEF Crash
  <2>3. LockInv'
    <3>1. Lock("job", FALSE) \in locks => Lock("job", FALSE) \in locks'
      BY <1>0, <2>2, LockFields DEF Mine
    <3>2. \A r \in Restics : Lock(r, other[r].kind = "forget") \in locks => Lock(r, other[r].kind = "forget") \in locks'
      BY <1>0, <2>2, LockFields DEF Mine
    <3> QED
      BY <2>1, <3>1, <3>2 DEF LockInv, world
  <2> QED
    BY <2>1, <2>3 DEF Locked, AloneInv, LeftInv, NoLockLeft
<1>4. ASSUME NEW l \in locks, Age(l) PROVE Locked'
  <2>1. UNCHANGED <<ctl, world>> /\ locks' = (locks \ {l}) \cup {[l EXCEPT !.stale = TRUE]} /\ l.left
    BY <1>4 DEF Age
  <2>2. [l EXCEPT !.stale = TRUE].by = l.by /\ [l EXCEPT !.stale = TRUE].left = l.left
    BY DEF TypeOK
  <2>3. \A k \in locks : ~k.left => k \in locks'
    BY <2>1
  <2>4. LockInv'
    BY <2>1, <2>3, LockFields DEF LockInv, world
  <2>5. \A k \in locks' : \E m \in locks : Mine(k)' = Mine(m) /\ k.left = m.left
    BY <2>1, <2>2 DEF Mine
  <2>6. AloneInv' /\ LeftInv' /\ NoLockLeft'
    BY <2>1, <2>5, Zenon DEF AloneInv, LeftInv, NoLockLeft, world
  <2> QED
    BY <2>4, <2>6 DEF Locked
<1>5. ASSUME NEW r \in Restics, NEW kind \in {"backup", "forget"}, Start(r, kind) PROVE Locked'
  <2>1. PICK ls \in SUBSET locks :
          /\ \A l \in locks : ~l.stale => l \in ls
          /\ Free(r, kind = "forget", ls)
          /\ locks' = ls \cup {Lock(r, kind = "forget")}
    BY <1>5 DEF Start
  <2>2. UNCHANGED <<ctl, job>> /\ other' = [other EXCEPT ![r] = [pc |-> "wait", kind |-> kind]]
    BY <1>5 DEF Start
  <2>3. ctl.pc \notin {"recheck", "list", "save", "remove", "unlock"}
    <3>1. Lock(ctl.pod, TRUE) \notin locks
      BY <1>0, <2>1 DEF Free, Bars, Lock
    <3> QED
      BY <3>1 DEF LockInv
  <2>4. LockInv'
    <3>1. Lock("job", FALSE) \in locks => Lock("job", FALSE) \in locks'
      BY <2>1, LockFields
    <3>2. ASSUME NEW q \in Restics, other'[q].pc # "off" PROVE Lock(q, other'[q].kind = "forget") \in locks'
      <4>1. CASE q = r
        BY <1>0, <2>1, <2>2, <4>1
      <4>2. CASE q # r
        <5>1. other'[q] = other[q]
          BY <1>0, <2>2, <4>2
        <5>2. Lock(q, other[q].kind = "forget") \in locks
          BY <3>2, <5>1 DEF LockInv
        <5> QED
          BY <2>1, <5>1, <5>2, LockFields
      <4> QED
        BY <4>1, <4>2
    <3> QED
      BY <2>2, <2>3, <3>1, <3>2 DEF LockInv
  <2>5. NoLockLeft'
    BY <1>0, <2>1, <2>2, LockFields DEF NoLockLeft, Mine
  <2> QED
    BY <2>2, <2>3, <2>4, <2>5 DEF Locked, AloneInv, LeftInv
<1>6. ASSUME NEW r \in Restics, Enter(r) \/ Leave(r) PROVE Locked'
  <2>1. UNCHANGED <<ctl, job>> /\ other[r].pc # "off"
    BY <1>6 DEF Enter, Leave
  <2>2. locks' \subseteq locks /\ \A l \in locks : l.by # r => l \in locks'
    BY <1>6 DEF Enter, Leave, Release
  <2>3. \A q \in Restics \ {r} : other'[q] = other[q]
    BY <1>0, <1>6 DEF Enter, Leave
  <2>4. other'[r].pc # "off" => other'[r].kind = other[r].kind /\ locks' = locks
    BY <1>0, <1>6 DEF Enter, Leave
  <2>5. LockInv'
    <3>1. Lock("job", FALSE) \in locks => Lock("job", FALSE) \in locks'
      BY ZenonT(60), <1>0, <2>2, LockFields
    <3>2. Lock(ctl.pod, TRUE) \in locks => Lock(ctl.pod, TRUE) \in locks'
      BY <1>0, <2>2 DEF Lock
    <3>3. ASSUME NEW q \in Restics \ {r} PROVE
             Lock(q, other[q].kind = "forget") \in locks => Lock(q, other[q].kind = "forget") \in locks'
      BY <2>2, LockFields
    <3> QED
      BY <2>1, <2>3, <2>4, <3>1, <3>2, <3>3 DEF LockInv
  <2>6. AloneInv' /\ LeftInv' /\ NoLockLeft'
    BY <2>1, <2>2, <2>3 DEF AloneInv, LeftInv, NoLockLeft, Mine
  <2> QED
    BY <2>5, <2>6 DEF Locked
<1>7. ASSUME NEW r \in Restics, Die(r) PROVE Locked'
  <2>1. UNCHANGED <<ctl, job>> /\ other[r].pc # "off" /\ other' = [other EXCEPT ![r].pc = "off"]
    BY <1>7 DEF Die
  <2>2. \A l \in locks : l.by # r => l \in locks'
    BY <1>7 DEF Die
  <2>3. \A q \in Restics \ {r} : other'[q] = other[q]
    BY <1>0, <2>1
  <2>4. other'[r].pc = "off"
    BY <1>0, <2>1
  <2>5. LockInv'
    <3>1. Lock("job", FALSE) \in locks => Lock("job", FALSE) \in locks'
      BY <1>0, <2>2 DEF Lock
    <3>2. Lock(ctl.pod, TRUE) \in locks => Lock(ctl.pod, TRUE) \in locks'
      BY <1>0, <2>2 DEF Lock
    <3>3. ASSUME NEW q \in Restics \ {r} PROVE
             Lock(q, other[q].kind = "forget") \in locks => Lock(q, other[q].kind = "forget") \in locks'
      BY <2>2, LockFields
    <3> QED
      BY <2>1, <2>3, <2>4, <3>1, <3>2, <3>3 DEF LockInv
  <2>6. \A k \in locks' : Mine(k) => k \in locks
    <3>1. \A l \in locks : l.by = r => [l EXCEPT !.left = TRUE].by = r
      BY DEF TypeOK
    <3>2. locks' = {IF l.by = r THEN [l EXCEPT !.left = TRUE] ELSE l : l \in locks} /\ r # ctl.pod
      BY <1>0, <1>7 DEF Die
    <3> QED
      BY <3>1, <3>2 DEF Mine
  <2>7. AloneInv' /\ LeftInv' /\ NoLockLeft'
    BY <2>1, <2>6 DEF AloneInv, LeftInv, NoLockLeft, Mine
  <2> QED
    BY <2>5, <2>7 DEF Locked
<1>8. ASSUME UNCHANGED <<locks, ctl, other>>, job'.pc \notin {"wait", "in"} PROVE Locked'
  BY <1>8 DEF Locked, LockInv, AloneInv, LeftInv, NoLockLeft, Mine
<1>9. CASE Choose
  BY <1>8, <1>9 DEF Choose
<1>10. CASE JobLocks
  <2>1. CASE FailTry /\ UNCHANGED locks
    <3>1. job'.pc \notin {"wait", "in"}
      BY <2>1 DEF FailTry, TypeOK
    <3> QED
      BY <1>8, <1>10, <2>1, <3>1 DEF JobLocks
  <2>2. CASE Free("job", FALSE, locks) /\ locks' = locks \cup {Lock("job", FALSE)}
    <3>1. Lock(ctl.pod, TRUE) \notin locks
      BY <1>0, <2>2 DEF Free, Bars, Lock
    <3>2. ctl.pc \notin {"recheck", "list", "save", "remove", "unlock"}
      BY <3>1 DEF LockInv
    <3>3. UNCHANGED <<ctl, other>>
      BY <1>10 DEF JobLocks
    <3>4. LockInv'
      BY <2>2, <3>2, <3>3 DEF LockInv
    <3>5. NoLockLeft'
      BY <1>0, <2>2, <3>3 DEF NoLockLeft, Mine, Lock
    <3> QED
      BY <3>2, <3>3, <3>4, <3>5 DEF Locked, AloneInv, LeftInv
  <2> QED
    BY <1>10, <2>1, <2>2 DEF JobLocks
<1>11. CASE JobEnters \/ JobEnds
  <2>1. UNCHANGED <<ctl, other>> /\ job.pc \in {"wait", "in"}
    BY <1>11 DEF JobEnters, JobEnds
  <2>2. locks' \subseteq locks /\ \A l \in locks : l.by # "job" => l \in locks'
    BY <1>11 DEF JobEnters, JobEnds, Release
  <2>3. job'.pc \in {"wait", "in"} => locks' = locks
    BY <1>11 DEF JobEnters, JobEnds, FailTry, TypeOK
  <2>4. LockInv'
    <3>1. Lock(ctl.pod, TRUE) \in locks => Lock(ctl.pod, TRUE) \in locks'
      BY <1>0, <2>2 DEF Lock
    <3>2. \A r \in Restics : Lock(r, other[r].kind = "forget") \in locks => Lock(r, other[r].kind = "forget") \in locks'
      BY <1>0, <2>2, LockFields
    <3> QED
      BY <2>1, <2>3, <3>1, <3>2 DEF LockInv
  <2>5. AloneInv' /\ LeftInv' /\ NoLockLeft'
    BY <2>1, <2>2 DEF AloneInv, LeftInv, NoLockLeft, Mine
  <2> QED
    BY <2>4, <2>5 DEF Locked
<1> QED
  BY <1>1, <1>2, <1>3, <1>4, <1>5, <1>6, <1>7, <1>9, <1>10, <1>11 DEF Next, Abandon, vars

-----------------------------------------------------------------------------
(* Snapshots. *)

Filed == FilesInv /\ ItemInv /\ CtlInv /\ MovedOnce

LEMMA Numbers ==
    ASSUME TypeOK
    PROVE  /\ last \in Nat /\ item.id \in Nat /\ item.n \in Nat /\ ctl.res \in Nat
           /\ ctl \in Control /\ item \in [phase : Phases, id : 0 .. MaxFile, tree : 0 .. MaxTree, n : Nat]
           /\ \A f \in files : f \in File /\ f.id \in Nat /\ f.id # 0 /\ f.original \in Nat /\ f.at \in Nat
BY BoundsAssumption DEF TypeOK, File, Control, Calls, Phases

(* A pass reads the snapshot of a new sync, and stores it in the item. *)
LEMMA FindFiled == ASSUME IInv, Find PROVE Filed'
<1> USE DEF IInv
<1>1. UNCHANGED <<files, last, item, forgotten>> /\ ctl.pc = "idle" /\ item.phase # "moving"
  BY DEF Find, world
<1>2. FilesInv' /\ ItemInv' /\ MovedOnce'
  BY <1>1 DEF FilesInv, ItemInv, MovedOnce, Trees
<1>3. PICK f \in files : /\ f.original = 0 /\ f.id > item.id
                         /\ ctl' = [ctl EXCEPT !.pc = "found", !.file = f]
  BY DEF Find, Synced
<1>4. ctl'.pc = "found" /\ ctl'.file = f /\ ctl'.res = 0
  BY <1>1, <1>3, Numbers DEF Control, CtlInv
<1>5. CtlInv'
  BY <1>1, <1>3, <1>4, Numbers DEF CtlInv, FilesInv
<1> QED
  BY <1>2, <1>5 DEF Filed

LEMMA TrackFiled == ASSUME IInv, Track PROVE Filed'
<1> USE DEF IInv
<1>1. UNCHANGED <<files, last, forgotten>> /\ ctl.pc = "found" /\ ctl'.pc = "idle" /\ ctl'.res = 0
  BY Numbers DEF Track, world, EndPass, Control
<1>2. /\ item'.phase = "moving" /\ item'.id = ctl.file.id /\ item'.tree = ctl.file.tree /\ item'.n = item.n + 1
      /\ ctl.file \in File /\ ctl.file.original = 0 /\ item.id < item'.id /\ item'.id <= last
      /\ \A f \in files : f.id = item'.id => f = ctl.file
  BY <1>1 DEF Track, CtlInv
<1>3. item'.id \in Nat /\ item'.tree \in Trees
  BY <1>2 DEF File
<1>4. FilesInv'
  BY <1>1, <1>2, <1>3, Numbers DEF FilesInv
<1>5. ItemInv'
  <2>1. item'.n <= item'.id /\ item'.id <= last' /\ item'.n > 0
    BY <1>1, <1>2, <1>3, Numbers DEF ItemInv
  <2>2. \A f \in files : f.original # item'.id
    BY <1>2, <1>3, Numbers DEF FilesInv
  <2> QED
    BY <1>1, <1>2, <1>3, <2>1, <2>2 DEF ItemInv, Trees
<1>6. CtlInv' /\ MovedOnce'
  BY <1>1 DEF CtlInv, MovedOnce
<1> QED
  BY <1>4, <1>5, <1>6 DEF Filed

(* The calls about locks, and the listing. *)
LEMMA LockFiled ==
    ASSUME IInv, Begin \/ FirstCheck \/ WriteLock \/ SecondCheck \/ Unlock PROVE Filed'
<1> USE DEF IInv
<1>1. UNCHANGED <<files, last, item, forgotten>>
  BY DEF Begin, FirstCheck, WriteLock, SecondCheck, Unlock, world
<1>2. FilesInv' /\ ItemInv' /\ MovedOnce'
  BY <1>1 DEF FilesInv, ItemInv, MovedOnce, Trees
<1>3. item.phase = "moving"
  BY DEF Begin, FirstCheck, WriteLock, SecondCheck, Unlock, CtlInv
<1>4. \/ ctl'.pc \in {"check", "lock", "recheck", "list", "unlock", "idle"} /\ ctl'.res = 0
      \/ ctl'.pc = "record" /\ ctl'.res = ctl.res /\ ctl.res # 0
  BY Numbers DEF Begin, FirstCheck, WriteLock, SecondCheck, Unlock, Goto, EndPass, Control
<1>5. CtlInv'
  BY <1>1, <1>3, <1>4 DEF CtlInv
<1> QED
  BY <1>2, <1>5 DEF Filed

LEMMA ListFiled == ASSUME IInv, List PROVE Filed'
<1> USE DEF IInv
<1>1. UNCHANGED <<files, last, item, forgotten>> /\ ctl.pc = "list" /\ item.phase = "moving"
  BY DEF List, world, CtlInv
<1>2. FilesInv' /\ ItemInv' /\ MovedOnce'
  BY <1>1 DEF FilesInv, ItemInv, MovedOnce, Trees
<1>3. item.id > 0
  BY <1>1, Numbers DEF ItemInv
<1>4. ASSUME NEW f \in files, f.id = item.id, NEW g \in Written(f),
             ctl' = [ctl EXCEPT !.pc = "remove", !.file = f, !.res = g.id]
      PROVE  CtlInv'
  <2>1. ctl'.pc = "remove" /\ ctl'.file = f /\ ctl'.res = g.id
    BY <1>4, Numbers DEF Control
  <2>2. g \in files /\ g.original = item.id
    BY <1>1, <1>4 DEF Written, Origin, ItemInv
  <2>3. item.id < g.id /\ g.id <= last
    BY <1>3, <2>2, Numbers DEF FilesInv
  <2> QED
    BY <1>1, <1>4, <2>1, <2>2, <2>3 DEF CtlInv
<1>5. ASSUME NEW f \in files, f.id = item.id, Written(f) = {}, ctl' = [ctl EXCEPT !.pc = "save", !.file = f]
      PROVE  CtlInv'
  <2>1. ctl'.pc = "save" /\ ctl'.file = f /\ ctl'.res = ctl.res
    BY <1>5, Numbers DEF Control
  <2>2. f.original = 0 /\ \A g \in files : g.original = item.id => g.at = item.n
    BY <1>1, <1>5 DEF ItemInv
  <2>3. ASSUME NEW g \in files PROVE g.original # item.id
    <3>1. g.original = item.id => g.id # f.id
      BY <1>3, <1>5, <2>2 DEF FilesInv
    <3>2. g \notin Written(f)
      BY <1>5
    <3> QED
      BY <1>5, <2>2, <3>1, <3>2 DEF Written, Origin
  <2> QED
    BY <1>1, <1>5, <2>1, <2>3 DEF CtlInv
<1>6. ASSUME NEW g \in files, g.original = item.id, Goto("unlock", g.id) PROVE CtlInv'
  <2>1. ctl'.pc = "unlock" /\ ctl'.res = g.id
    BY <1>6, Numbers DEF Goto, Control
  <2>2. item.id < g.id /\ g.id <= last
    BY <1>3, <1>6, Numbers DEF FilesInv
  <2> QED
    BY <1>1, <2>1, <2>2 DEF CtlInv
<1>7. ASSUME Goto("unlock", 0) PROVE CtlInv'
  <2>1. ctl'.pc = "unlock" /\ ctl'.res = 0
    BY <1>7, Numbers DEF Goto, Control
  <2> QED
    BY <1>1, <2>1 DEF CtlInv
<1>8. CtlInv'
  BY <1>4, <1>5, <1>6, <1>7 DEF List
<1> QED
  BY <1>2, <1>8 DEF Filed

(* The copy that retime stores: of the item's snapshot, under a new ID. *)
LEMMA CopyOfItem ==
    ASSUME IInv, ctl.pc = "save"
    PROVE  /\ ctl.file \in files /\ ctl.file.id = item.id /\ ctl.file.original = 0 /\ ctl.file.tree = item.tree
           /\ item.phase = "moving" /\ item.id > 0 /\ item.n > 0 /\ item.id <= last /\ item.tree \in Trees
           /\ Copy = [id |-> last + 1, tree |-> item.tree, at |-> item.n, original |-> item.id]
           /\ \A g \in files : g.original # item.id
<1> USE DEF IInv
<1>1. /\ ctl.file \in files /\ ctl.file.id = item.id /\ item.phase = "moving"
      /\ \A g \in files : g.original # item.id
  BY DEF CtlInv
<1>2. /\ ctl.file.original = 0 /\ ctl.file.tree = item.tree /\ item.n > 0 /\ item.n <= item.id /\ item.id <= last
      /\ item.tree \in Trees
  BY <1>1 DEF ItemInv
<1> QED
  BY <1>1, <1>2, Numbers DEF Copy, Origin

LEMMA SaveFiled == ASSUME IInv, Save PROVE Filed'
<1> USE DEF IInv
<1>1. UNCHANGED <<item, forgotten>> /\ ctl.pc = "save"
  BY DEF Save, world
<1>2. /\ ctl.file \in files /\ ctl.file.id = item.id /\ ctl.file.original = 0 /\ ctl.file.tree = item.tree
      /\ item.phase = "moving" /\ item.id > 0 /\ item.n > 0 /\ item.id <= last /\ item.tree \in Trees
      /\ \A g \in files : g.original # item.id
  BY <1>1, CopyOfItem
<1>3. CASE UNCHANGED <<files, last>> /\ Goto("unlock", 0)
  <2>1. ctl'.pc = "unlock" /\ ctl'.res = 0
    BY <1>3, Numbers DEF Goto, Control
  <2>2. CtlInv'
    BY <1>1, <1>2, <2>1 DEF CtlInv
  <2>3. FilesInv' /\ ItemInv' /\ MovedOnce'
    BY <1>1, <1>3 DEF FilesInv, ItemInv, MovedOnce, Trees
  <2> QED
    BY <2>2, <2>3 DEF Filed
<1>4. CASE PutCopy /\ (Goto("remove", Copy.id) \/ Goto("unlock", 0))
  <2>1. PICK c : c = [id |-> last + 1, tree |-> item.tree, at |-> item.n, original |-> item.id]
    OBVIOUS
  <2>2. files' = files \cup {c} /\ last' = last + 1 /\ Copy = c
    BY <1>1, <1>4, <2>1, CopyOfItem DEF PutCopy
  <2>3. c.id = last + 1 /\ c.tree = item.tree /\ c.at = item.n /\ c.original = item.id
    BY <2>1
  <2>4. FilesInv'
    <3>1. \A f \in files' : /\ f.id <= last'
                            /\ f.at # 0 <=> f.original # 0
                            /\ f.original # 0 => f.original < f.id /\ f.original <= item'.id
      BY <1>1, <1>2, <2>2, <2>3, Numbers DEF FilesInv
    <3>2. \A f, g \in files' : f.id = g.id => f = g
      BY <1>1, <1>2, <2>2, <2>3, Numbers DEF FilesInv
    <3> QED
      BY <2>2, <3>1, <3>2 DEF FilesInv
  <2>5. ItemInv'
    BY <1>1, <1>2, <2>2, <2>3, Numbers DEF ItemInv, Trees
  <2>6. MovedOnce'
    BY <1>2, <2>2, <2>3 DEF MovedOnce
  <2>7. \/ ctl'.pc = "remove" /\ ctl'.res = c.id /\ ctl'.file = ctl.file
        \/ ctl'.pc = "unlock" /\ ctl'.res = 0
    BY <1>4, <2>2, Numbers DEF Goto, Control
  <2>8. CtlInv'
    BY <1>1, <1>2, <2>2, <2>3, <2>7, Numbers DEF CtlInv
  <2> QED
    BY <2>4, <2>5, <2>6, <2>8 DEF Filed
<1> QED
  BY <1>3, <1>4 DEF Save

(* Once the original is removed, its copy is still there. *)
LEMMA RemoveFiled == ASSUME IInv, Remove PROVE Filed'
<1> USE DEF IInv
<1>1. UNCHANGED <<last, item, forgotten>> /\ ctl.pc = "remove" /\ files' \in {files, files \ {ctl.file}}
  BY DEF Remove, world
<1>2. ctl.file \in files /\ ctl.file.id = item.id /\ item.phase = "moving"
  BY <1>1 DEF CtlInv
<1>3. PICK g \in files : g.id = ctl.res /\ g.original = item.id
  BY <1>1 DEF CtlInv
<1>4. ctl.file.original = 0 /\ item.id # 0
  BY <1>2, Numbers DEF ItemInv
<1>5. files' \subseteq files /\ g \in files'
  BY <1>1, <1>3, <1>4
<1>6. FilesInv' /\ ItemInv' /\ MovedOnce'
  BY <1>1, <1>5 DEF FilesInv, ItemInv, MovedOnce, Trees
<1>7. ctl'.pc = "unlock" /\ (ctl'.res = ctl.res \/ ctl'.res = 0)
  BY Numbers DEF Remove, Goto, Control
<1>8. CtlInv'
  BY <1>1, <1>2, <1>7 DEF CtlInv
<1> QED
  BY <1>6, <1>8 DEF Filed

LEMMA RecordFiled == ASSUME IInv, Record PROVE Filed'
<1> USE DEF IInv
<1>1. UNCHANGED <<files, last, forgotten>> /\ ctl.pc = "record" /\ ctl'.pc = "idle" /\ ctl'.res = 0
  BY Numbers DEF Record, world, EndPass, Control
<1>2. ctl.res # 0 /\ item.id < ctl.res /\ ctl.res <= last
  BY <1>1 DEF CtlInv
<1>3. \/ item' = item
      \/ item'.phase = "done" /\ item'.id = ctl.res /\ item'.n = item.n
  BY Numbers DEF Record
<1>4. FilesInv'
  BY <1>1, <1>2, <1>3, Numbers DEF FilesInv
<1>5. ItemInv'
  BY <1>1, <1>2, <1>3, Numbers DEF ItemInv, Trees
<1>6. CtlInv' /\ MovedOnce'
  BY <1>1 DEF CtlInv, MovedOnce
<1> QED
  BY <1>4, <1>5, <1>6 DEF Filed

(* restic backup and forget, which never run beside retime. *)
LEMMA WorkFiled ==
    ASSUME IInv, NEW kind, Work(kind), NEW r \in Restics, other[r].pc = "in", UNCHANGED <<item, ctl>>
    PROVE  Filed'
<1> USE DEF IInv
<1>1. ctl.pc \notin {"list", "save", "remove"}
  BY DEF AloneInv
<1>2. CASE /\ last' = last + 1 /\ forgotten' = forgotten
           /\ \E t \in Trees : files' = files \cup {[id |-> last + 1, tree |-> t, at |-> 0, original |-> 0]}
  <2>1. PICK t \in Trees : files' = files \cup {[id |-> last + 1, tree |-> t, at |-> 0, original |-> 0]}
    BY <1>2
  <2>2. PICK b : b = [id |-> last + 1, tree |-> t, at |-> 0, original |-> 0]
    OBVIOUS
  <2>3. files' = files \cup {b} /\ b.id = last + 1 /\ b.at = 0 /\ b.original = 0
    BY <2>1, <2>2
  <2>4. FilesInv'
    <3>1. \A f \in files' : /\ f.id <= last'
                            /\ f.at # 0 <=> f.original # 0
                            /\ f.original # 0 => f.original < f.id /\ f.original <= item'.id
      BY <1>2, <2>3, Numbers DEF FilesInv
    <3>2. \A f, g \in files' : f.id = g.id => f = g
      BY <1>2, <2>3, Numbers DEF FilesInv
    <3> QED
      BY <2>3, <3>1, <3>2 DEF FilesInv
  <2>5. ItemInv'
    BY <1>2, <2>3, Numbers DEF ItemInv, Trees
  <2>6. MovedOnce'
    BY <2>3 DEF MovedOnce
  <2>7. CtlInv'
    <3>1. ctl.pc = "found" => ctl.file.id \in Nat
      BY DEF CtlInv, File
    <3> QED
      BY <1>1, <1>2, <2>3, <3>1, Numbers DEF CtlInv
  <2> QED
    BY <2>4, <2>5, <2>6, <2>7 DEF Filed
<1>3. CASE last' = last /\ \E f \in files : files' = files \ {f} /\ forgotten' = forgotten \cup {f.tree}
  <2>1. files' \subseteq files /\ forgotten' # {}
    BY <1>3
  <2>2. FilesInv' /\ ItemInv' /\ MovedOnce'
    BY <1>3, <2>1 DEF FilesInv, ItemInv, MovedOnce, Trees
  <2>3. CtlInv'
    BY <1>1, <1>3, <2>1 DEF CtlInv
  <2> QED
    BY <2>2, <2>3 DEF Filed
<1>4. CASE UNCHANGED <<files, last, forgotten>>
  BY <1>4 DEF Filed, FilesInv, ItemInv, MovedOnce, CtlInv, Trees
<1> QED
  BY <1>2, <1>3, <1>4 DEF Work

LEMMA NextFiled == IInv /\ [Next]_vars => Filed'
<1> SUFFICES ASSUME IInv, [Next]_vars PROVE Filed'
  OBVIOUS
<1>1. CASE Controller
  BY <1>1, FindFiled, TrackFiled, LockFiled, ListFiled, SaveFiled, RemoveFiled, RecordFiled DEF Controller
<1>2. CASE Abandon
  <2>1. UNCHANGED <<files, last, ctl, forgotten>> /\ ctl.pc = "idle"
    BY <1>2 DEF Abandon, world
  <2>2. item'.id = item.id /\ item'.n = item.n /\ item'.phase = "ended"
    BY <1>2, Numbers DEF Abandon, IInv
  <2> QED
    BY <2>1, <2>2 DEF IInv, Filed, FilesInv, ItemInv, CtlInv, MovedOnce, Trees
<1>3. CASE Crash
  <2>1. UNCHANGED <<files, last, item, forgotten>> /\ ctl'.pc = "idle" /\ ctl'.res = 0
    BY <1>3 DEF Crash, world
  <2> QED
    BY <2>1 DEF IInv, Filed, FilesInv, ItemInv, CtlInv, MovedOnce, Trees
<1>4. CASE UNCHANGED <<files, last, item, ctl, forgotten>>
  BY <1>4 DEF IInv, Filed, FilesInv, ItemInv, CtlInv, MovedOnce, Trees
<1>5. ASSUME NEW r \in Restics, Leave(r) \/ Die(r) PROVE Filed'
  <2>1. UNCHANGED <<item, ctl>>
    BY <1>5 DEF Leave, Die
  <2>2. \/ other[r].pc = "in" /\ Work(other[r].kind)
        \/ UNCHANGED <<files, last, forgotten>>
    BY <1>5 DEF Leave, Die
  <2> QED
    BY <1>4, <2>1, <2>2, WorkFiled
<1> QED
  BY <1>1, <1>2, <1>3, <1>4, <1>5
     DEF Next, Age, Start, Enter, Choose, JobLocks, JobEnters, JobEnds, world, vars

LEMMA InitInv == Init => IInv
<1> SUFFICES ASSUME Init PROVE IInv
  OBVIOUS
<1>1. TypeOK
  BY InitType
<1>2. LockInv /\ AloneInv /\ LeftInv /\ NoLockLeft
  BY DEF Init, NoJob, LockInv, AloneInv, LeftInv, NoLockLeft
<1>3. FilesInv /\ ItemInv /\ CtlInv /\ MovedOnce
  BY DEF Init, FilesInv, ItemInv, CtlInv, MovedOnce
<1> QED
  BY <1>1, <1>2, <1>3 DEF IInv

LEMMA Invariant == Spec => []IInv
<1>1. IInv /\ [Next]_vars => IInv'
  BY NextType, NextLocks, NextFiled DEF IInv, Locked, Filed
<1> QED
  BY InitInv, <1>1, PTL DEF Spec

-----------------------------------------------------------------------------
(* The repository, the locks and the item keep their types; in particular  *)
(* the number that tags a copy never outgrows the IDs.                     *)
THEOREM TypeCorrect == Spec => []TypeOK
<1>1. IInv => TypeOK
  BY DEF IInv
<1> QED
  BY <1>1, Invariant, PTL

(* retime works alone: lockExclusive keeps every restic out from the       *)
(* listing to the removal, for any number of them, whoever dies and        *)
(* whichever locks are stored.                                             *)
THEOREM RetimeWorksAlone == Spec => []LockIsExclusive
<1>1. IInv => LockIsExclusive
  BY DEF IInv, AloneInv, LockIsExclusive
<1> QED
  BY <1>1, Invariant, PTL

(* A Retime that succeeds leaves no lock of its pod, from whichever call. *)
THEOREM NoLockIsLeft == Spec => []NoLockLeft
<1>1. IInv => NoLockLeft
  BY DEF IInv
<1> QED
  BY <1>1, Invariant, PTL

(* An original has one copy at most, however often retime is repeated      *)
(* after calls that failed with or without their effect.                   *)
THEOREM SnapshotMovedOnce == Spec => []MovedOnce
<1>1. IInv => MovedOnce
  BY DEF IInv
<1> QED
  BY <1>1, Invariant, PTL

-----------------------------------------------------------------------------
(* The refinement. *)

AllShown == [t \in Trees |-> Shown(t)]
Answered == ctl.pc \in {"unlock", "record"} /\ ctl.res # 0

(* What a listing shows depends on the files only. *)
LEMMA ShownStays ==
    ASSUME UNCHANGED files
    PROVE  AllShown' = AllShown /\ \A t \in Trees : Shown(t)' = Shown(t)
BY DEF AllShown, Shown, Trees

LEMMA ShownCases ==
    ASSUME NEW t
    PROVE  /\ Shown(t) = "moved" <=> \E f \in files : f.tree = t /\ f.at # 0
           /\ Shown(t) = "none" <=> \A f \in files : f.tree # t
           /\ Shown(t) \in {"none", "plain", "moved"}
BY DEF Shown

(* The same after a step. *)
LEMMA ShownCasesNext ==
    ASSUME NEW t
    PROVE  /\ Shown(t)' = "moved" <=> \E f \in files' : f.tree = t /\ f.at # 0
           /\ Shown(t)' = "none" <=> \A f \in files' : f.tree # t
           /\ Shown(t)' \in {"none", "plain", "moved"}
BY DEF Shown

LEMMA Stutters ==
    ASSUME AllShown' = AllShown, forgotten' = forgotten, item'.phase = item.phase, item'.tree = item.tree,
           Answered' <=> Answered
    PROVE  [Promise!Next]_Promise!vars
BY DEF Promise!vars, AllShown, Answered

LEMMA Answers ==
    ASSUME AllShown' = AllShown, forgotten' = forgotten, item' = item, ~Answered, Answered',
           item.phase = "moving", item.tree \in Trees, Shown(item.tree) = "moved"
    PROVE  [Promise!Next]_Promise!vars
<1>1. Promise!Answer
  BY DEF Promise!Answer, AllShown, Answered
<1> QED
  BY <1>1 DEF Promise!Next

LEMMA Loses ==
    ASSUME AllShown' = AllShown, forgotten' = forgotten, item' = item, Answered, ~Answered'
    PROVE  [Promise!Next]_Promise!vars
<1>1. Promise!Lose
  BY DEF Promise!Lose, AllShown, Answered
<1> QED
  BY <1>1 DEF Promise!Next

(* A pass ends, with an answer or without. *)
LEMMA EndMaps ==
    ASSUME UNCHANGED <<files, forgotten, item>>, ~Answered'
    PROVE  [Promise!Next]_Promise!vars
BY ShownStays, Stutters, Loses

LEMMA TrackMaps == ASSUME IInv, Track PROVE [Promise!Next]_Promise!vars
<1>1. /\ UNCHANGED <<files, forgotten>> /\ ctl.pc = "found" /\ ctl'.pc = "idle"
      /\ item' = [phase |-> "moving", id |-> ctl.file.id, tree |-> ctl.file.tree, n |-> item.n + 1]
  BY Numbers DEF Track, world, EndPass, Control, IInv
<1>2. item.phase # "moving" /\ ctl.file.tree \in Trees
  BY <1>1 DEF IInv, CtlInv, File
<1>3. Promise!Track(ctl.file.tree)
  BY <1>1, <1>2, ShownStays DEF Promise!Track, AllShown
<1> QED
  BY <1>2, <1>3 DEF Promise!Next

LEMMA ListMaps == ASSUME IInv, List PROVE [Promise!Next]_Promise!vars
<1> USE DEF IInv
<1>1. UNCHANGED <<files, forgotten, item>> /\ ctl.pc = "list" /\ item.phase = "moving"
  BY DEF List, world, CtlInv
<1>2. ~Answered
  BY <1>1 DEF Answered
<1>3. CASE ~Answered'
  BY <1>1, <1>3, EndMaps
<1>4. CASE Answered'
  <2>1. PICK g \in files : g.original = item.id /\ g.at # 0
    BY <1>4, Numbers DEF List, Goto, Control, Answered
  <2>2. g.tree = item.tree /\ item.tree \in Trees
    BY <1>1, <2>1 DEF ItemInv
  <2>3. Shown(item.tree) = "moved"
    BY <2>1, <2>2, ShownCases
  <2> QED
    BY <1>1, <1>2, <1>4, <2>2, <2>3, Answers, ShownStays
<1> QED
  BY <1>3, <1>4

(* The move is the moment the copy is stored. *)
LEMMA SaveMaps == ASSUME IInv, Save PROVE [Promise!Next]_Promise!vars
<1> USE DEF IInv
<1>1. UNCHANGED <<item, forgotten>> /\ ctl.pc = "save"
  BY DEF Save, world
<1>2. ~Answered /\ ~Answered'
  BY <1>1, Numbers DEF Save, Goto, Control, Answered
<1>3. CASE UNCHANGED files
  BY <1>1, <1>2, <1>3, EndMaps
<1>4. CASE PutCopy
  <2>1. /\ ctl.file \in files /\ ctl.file.tree = item.tree
        /\ item.phase = "moving" /\ item.n > 0 /\ item.tree \in Trees
        /\ Copy = [id |-> last + 1, tree |-> item.tree, at |-> item.n, original |-> item.id]
    BY <1>1, CopyOfItem
  <2>2. PICK c : c = Copy
    OBVIOUS
  <2>3. files' = files \cup {c} /\ c.tree = item.tree /\ c.at # 0
    BY <1>4, <2>1, <2>2, Numbers DEF PutCopy
  <2>4. Shown(item.tree)' = "moved" /\ Shown(item.tree) # "none"
    <3>1. PICK t : t = item.tree
      OBVIOUS
    <3>2. Shown(t)' = "moved" /\ Shown(t) # "none"
      BY <2>1, <2>3, <3>1, ShownCases, ShownCasesNext
    <3> QED
      BY <1>1, <3>1, <3>2
  <2>5. ASSUME NEW t \in Trees \ {item.tree} PROVE Shown(t)' = Shown(t)
    BY <2>3 DEF Shown
  <2>6. AllShown' = [AllShown EXCEPT ![item.tree] = "moved"]
    BY <1>1, <2>1, <2>4, <2>5 DEF AllShown, Trees
  <2>7. CASE Shown(item.tree) = "moved"
    <3>1. AllShown' = AllShown
      BY <2>1, <2>6, <2>7 DEF AllShown
    <3> QED
      BY <1>1, <1>2, <3>1, Stutters
  <2>8. CASE Shown(item.tree) = "plain"
    <3>1. Promise!Move
      BY <1>1, <1>2, <2>1, <2>6, <2>8 DEF Promise!Move, AllShown, Answered
    <3> QED
      BY <3>1 DEF Promise!Next
  <2> QED
    BY <2>4, <2>7, <2>8, ShownCases
<1> QED
  BY <1>3, <1>4 DEF Save

(* The copy stands in for the original. *)
LEMMA RemoveMaps == ASSUME IInv, Remove PROVE [Promise!Next]_Promise!vars
<1> USE DEF IInv
<1>1. UNCHANGED <<item, forgotten>> /\ ctl.pc = "remove" /\ files' \in {files, files \ {ctl.file}}
  BY DEF Remove, world
<1>2. ctl.file \in files /\ ctl.file.id = item.id /\ item.phase = "moving"
  BY <1>1 DEF CtlInv
<1>3. PICK g \in files : g.id = ctl.res /\ g.original = item.id
  BY <1>1 DEF CtlInv
<1>4. /\ ctl.file.original = 0 /\ item.id # 0 /\ ctl.file.tree = item.tree /\ item.tree \in Trees
      /\ g.tree = item.tree
  BY <1>2, <1>3, Numbers DEF ItemInv
<1>5. g.at # 0 /\ g \in files'
  BY <1>1, <1>3, <1>4 DEF FilesInv
<1>6. Shown(item.tree) = "moved" /\ Shown(item.tree)' = "moved"
  <2>1. PICK t : t = item.tree
    OBVIOUS
  <2>2. Shown(t) = "moved" /\ Shown(t)' = "moved"
    BY <1>3, <1>4, <1>5, <2>1, ShownCases, ShownCasesNext
  <2> QED
    BY <1>1, <2>1, <2>2
<1>7. ASSUME NEW t \in Trees \ {item.tree} PROVE Shown(t)' = Shown(t)
  BY <1>1, <1>4 DEF Shown
<1>8. AllShown' = AllShown
  BY <1>1, <1>6, <1>7 DEF AllShown, Trees
<1>9. ~Answered
  BY <1>1 DEF Answered
<1> QED
  BY <1>1, <1>2, <1>4, <1>6, <1>8, <1>9, Stutters, Answers

LEMMA UnlockMaps == ASSUME IInv, Unlock PROVE [Promise!Next]_Promise!vars
<1> USE DEF IInv
<1>1. UNCHANGED <<files, forgotten, item>> /\ ctl.pc = "unlock"
  BY DEF Unlock, world
<1>2. ctl'.pc = "idle" \/ (ctl'.pc = "record" /\ ctl'.res = ctl.res /\ ctl.res # 0)
  BY Numbers DEF Unlock, Goto, EndPass, Control
<1>3. CASE ctl'.pc = "idle"
  BY <1>1, <1>3, EndMaps DEF Answered
<1>4. CASE ctl'.pc = "record" /\ ctl'.res = ctl.res /\ ctl.res # 0
  BY <1>1, <1>4, Stutters, ShownStays DEF Answered
<1> QED
  BY <1>2, <1>3, <1>4

LEMMA RecordMaps == ASSUME IInv, Record PROVE [Promise!Next]_Promise!vars
<1> USE DEF IInv
<1>1. UNCHANGED <<files, forgotten>> /\ ctl.pc = "record" /\ ctl'.pc = "idle" /\ ctl.res # 0
  BY Numbers DEF Record, world, EndPass, Control, CtlInv
<1>2. Answered /\ ~Answered'
  BY <1>1 DEF Answered
<1>3. CASE UNCHANGED item
  BY <1>1, <1>2, <1>3, EndMaps
<1>4. CASE item' = [item EXCEPT !.phase = "done", !.id = ctl.res]
  <2>1. item'.phase = "done" /\ item'.tree = item.tree
    BY <1>4, Numbers
  <2>2. Promise!Report
    BY <1>1, <1>2, <2>1, ShownStays DEF Promise!Report, AllShown, Answered
  <2> QED
    BY <2>2 DEF Promise!Next
<1> QED
  BY <1>3, <1>4 DEF Record

LEMMA AbandonMaps == ASSUME IInv, Abandon PROVE [Promise!Next]_Promise!vars
<1> USE DEF IInv
<1>1. UNCHANGED <<files, forgotten, ctl>> /\ ctl.pc = "idle" /\ item.phase = "moving"
  BY DEF Abandon, world
<1>2. item'.phase = "ended" /\ item'.tree = item.tree
  BY Numbers DEF Abandon
<1>3. Promise!Abandon
  BY <1>1, <1>2, ShownStays DEF Promise!Abandon, AllShown
<1> QED
  BY <1>3 DEF Promise!Next

(* A backup stores a tree that no snapshot held before it, not even one    *)
(* that retention took; a forget takes one snapshot.                       *)
LEMMA BackupMaps ==
    ASSUME IInv, NEW t \in Trees, t = 1 + Max({f.tree : f \in files} \cup forgotten),
           files' = files \cup {[id |-> last + 1, tree |-> t, at |-> 0, original |-> 0]},
           UNCHANGED <<item, ctl, forgotten>>
    PROVE  [Promise!Next]_Promise!vars
<1> USE DEF IInv
<1> DEFINE Taken == {f.tree : f \in files} \cup forgotten
<1>1. Taken \subseteq Nat /\ Taken # {} /\ MaxTree \in Nat /\ \A s \in Taken : s <= MaxTree
  <2>1. \A f \in files : f.tree \in 1 .. MaxTree
    BY DEF TypeOK, File, Trees
  <2>2. forgotten \subseteq 1 .. MaxTree
    BY DEF TypeOK, Trees
  <2>3. Taken \subseteq 1 .. MaxTree
    BY <2>1, <2>2
  <2>4. Taken # {}
    BY DEF FilesInv
  <2> HIDE DEF Taken
  <2> QED
    BY <2>3, <2>4, BoundsAssumption
<1>2. \A s \in Taken : s <= Max(Taken) /\ Max(Taken) \in Nat
  <2> HIDE DEF Taken
  <2> QED
    BY <1>1, MaxOfBounded
<1>3. t \notin Taken
  <2>1. t = 1 + Max(Taken)
    OBVIOUS
  <2> HIDE DEF Taken
  <2> QED
    BY <1>2, <2>1
<1>4. Shown(t) = "none"
  BY <1>3, ShownCases
<1>5. Shown(t)' = "plain"
  <2>1. PICK b : b = [id |-> last + 1, tree |-> t, at |-> 0, original |-> 0]
    OBVIOUS
  <2>2. files' = files \cup {b} /\ b.tree = t /\ b.at = 0
    BY <2>1
  <2>3. \A f \in files : f.tree # t
    BY <1>4, ShownCases
  <2> QED
    BY <2>2, <2>3, ShownCasesNext
<1>6. ASSUME NEW s \in Trees \ {t} PROVE Shown(s)' = Shown(s)
  BY DEF Shown
<1>7. AllShown' = [AllShown EXCEPT ![t] = "plain"]
  BY <1>5, <1>6 DEF AllShown, Trees
<1>8. Promise!Save(t)
  BY <1>3, <1>4, <1>7 DEF Promise!Save, AllShown
<1> QED
  BY <1>8 DEF Promise!Next

LEMMA ForgetMaps ==
    ASSUME IInv, NEW f \in files, files' = files \ {f}, forgotten' = forgotten \cup {f.tree},
           UNCHANGED <<item, ctl>>
    PROVE  [Promise!Next]_Promise!vars
<1> USE DEF IInv
<1>1. PICK t : t = f.tree
  OBVIOUS
<1>2. t \in Trees
  BY <1>1, Numbers DEF File
<1>3. Shown(t) # "none"
  BY <1>1, ShownCases
<1>4. \/ Shown(t)' = "none"
      \/ Shown(t) = "moved" /\ Shown(t)' = "plain"
      \/ Shown(t)' = Shown(t)
  BY <1>3, ShownCases, ShownCasesNext
<1>5. ASSUME NEW s \in Trees \ {t} PROVE Shown(s)' = Shown(s)
  BY <1>1 DEF Shown
<1>6. AllShown' = [AllShown EXCEPT ![t] = Shown(t)']
  BY <1>2, <1>5 DEF AllShown, Trees
<1>7. Promise!Forget(t)
  BY <1>1, <1>2, <1>3, <1>4, <1>6 DEF Promise!Forget, AllShown
<1> QED
  BY <1>2, <1>7 DEF Promise!Next

LEMMA WorkMaps ==
    ASSUME IInv, NEW kind, Work(kind), UNCHANGED <<item, ctl>>
    PROVE  [Promise!Next]_Promise!vars
<1>1. CASE UNCHANGED <<files, last, forgotten>>
  BY <1>1, ShownStays, Stutters DEF Answered
<1> QED
  BY <1>1, BackupMaps, ForgetMaps DEF Work

(* The steps of lockExclusive, of the restore Job and of restic's locks    *)
(* show nothing.                                                           *)
LEMMA LockMaps ==
    ASSUME IInv, Find \/ Begin \/ FirstCheck \/ WriteLock \/ SecondCheck \/ Crash
    PROVE  [Promise!Next]_Promise!vars
<1>1. UNCHANGED <<files, forgotten, item>>
  BY DEF Find, Begin, FirstCheck, WriteLock, SecondCheck, Crash, world
<1>2. ctl \in Control
  BY Numbers DEF IInv
<1>3. ~Answered'
  <2>1. CASE Find
    BY <1>2, <2>1 DEF Find, Control, Answered
  <2>2. CASE Begin
    BY <1>2, <2>2 DEF Begin, Goto, Control, Answered
  <2>3. CASE FirstCheck
    BY <1>2, <2>3 DEF FirstCheck, Goto, EndPass, Control, Answered
  <2>4. CASE WriteLock
    BY <1>2, <2>4 DEF WriteLock, Goto, EndPass, Control, Answered
  <2>5. CASE SecondCheck
    BY <1>2, <2>5 DEF SecondCheck, Goto, Control, Answered
  <2>6. CASE Crash
    BY <2>6 DEF Crash, Answered
  <2> QED
    BY <2>1, <2>2, <2>3, <2>4, <2>5, <2>6
<1> QED
  BY <1>1, <1>3, EndMaps

LEMMA StepMaps == IInv /\ [Next]_vars => [Promise!Next]_Promise!vars
<1> SUFFICES ASSUME IInv, [Next]_vars PROVE [Promise!Next]_Promise!vars
  OBVIOUS
<1>1. CASE Controller \/ Abandon \/ Crash
  BY <1>1, LockMaps, TrackMaps, ListMaps, SaveMaps, RemoveMaps, UnlockMaps, RecordMaps, AbandonMaps
     DEF Controller
<1>2. CASE UNCHANGED <<files, item, ctl, forgotten>>
  BY <1>2, ShownStays, Stutters DEF Answered
<1>3. ASSUME NEW r \in Restics, Leave(r) \/ Die(r) PROVE [Promise!Next]_Promise!vars
  <2>1. UNCHANGED <<item, ctl>>
    BY <1>3 DEF Leave, Die
  <2>2. Work(other[r].kind) \/ UNCHANGED <<files, last, forgotten>>
    BY <1>3 DEF Leave, Die
  <2> QED
    BY <1>2, <2>1, <2>2, WorkMaps
<1> QED
  BY <1>1, <1>2, <1>3
     DEF Next, Age, Start, Enter, Choose, JobLocks, JobEnters, JobEnds, world, vars

LEMMA InitMaps == Init => Promise!Init
<1> SUFFICES ASSUME Init PROVE Promise!Init
  OBVIOUS
<1>1. [t \in Trees |-> Shown(t)] \in [Trees -> {"none", "plain"}]
  BY DEF Init, Shown
<1>2. ~(ctl.pc \in {"unlock", "record"} /\ ctl.res # 0)
  BY DEF Init
<1> QED
  BY <1>1, <1>2 DEF Init, Promise!Init

(* Storing a copy, removing the original and answering, with every call    *)
(* that may fail and every process that may die, is a move in one step:    *)
(* the snapshot is at no moment missing from the repository, what was      *)
(* moved goes back only by retention, and the run reports as moved what    *)
(* was.                                                                    *)
THEOREM ImplementsMove == Spec => Moves
<1>1. Spec => Promise!Init
  BY InitMaps DEF Spec
<1> QED
  BY <1>1, Invariant, StepMaps, PTL DEF Spec, Moves, Promise!Spec

=============================================================================
