SPECIFICATION FairSpec
CONSTANTS
    backupAll = backupAll
    backupDb = backupDb
    restoreDb = restoreDb
    Runs = {backupAll, backupDb, restoreDb}
    NoRun = NoRun
    Foreign = Foreign
    Names <- MCNames
    Order <- MCOrder
    MaxVersion = 2
INVARIANTS TypeOK MutualExclusion FinishedLeavesNoLease
PROPERTIES LockSpec LeasesComeBack
CHECK_DEADLOCK FALSE
