SPECIFICATION FairSpec
CONSTANTS
    Claims = {data}
    Clusters = {db}
    Copy = new
    None = None
    MaxFaults = 1
    MaxUID = 3
INVARIANTS TypeOK AppGivenBack LeaseCoversRestic NothingChangedWithoutBackup
           SucceededIsRestored
PROPERTIES RestoresIntoStoppedApp DeletesWhatItRecorded RunEnds
CHECK_DEADLOCK FALSE
