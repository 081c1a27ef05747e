CONSTANTS
    Pods = {p, q}
    Restics = {mover}
    MaxTree = 2
    MaxFile = 6
    MaxCommands = 3
    MaxFaults = 2
    Tries = 2
SPECIFICATION FairSpec
INVARIANTS TypeOK LockIsExclusive MovedOnce NoLockLeft
PROPERTIES Moves EveryMoveEnds
CHECK_DEADLOCK FALSE
