------------------------------ MODULE MCRebuild ------------------------------
(***************************************************************************)
(* A namespace with two claims and one Cluster.  Moments 1 and 2 are those *)
(* of two pausing BackupRuns, 3 is that of a backup that paused nothing,   *)
(* and 4 is left for a BackupRun after the rebuild: the history in which   *)
(* everything is there is that of the next rebuild.                        *)
(***************************************************************************)
EXTENDS Rebuild

CONSTANTS a, b

History(ofA, ofB, tag, bases, tip) ==
    [snaps |-> [c \in Claims |-> IF c = a THEN ofA ELSE ofB], paused |-> {1, 2},
     tag |-> [t \in Moments |-> tag], bases |-> bases, archived |-> tip # 0,
     wal |-> tip, tip |-> tip]

all == {1, 2, 3}

MCUnpinned == {[c \in Claims |-> 0]}
MCPins == MCUnpinned \cup {[c \in Claims |-> IF c = a THEN 1 ELSE 0]}

(* a was empty at the second moment *)
MCApart == {History({1, 3}, all, "base", all, 3)}

MCHistories ==
    MCApart \cup
    {History(all, all, "base", {1, 3}, 3),          \* the tagged base backup was pruned
     History(all, all, "hibernated", {1}, 1),       \* asleep since the first moment
     History({}, {}, "none", {}, 0)}                \* a first deploy
=============================================================================
