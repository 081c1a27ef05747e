SPECIFICATION FairSpec
CONSTANTS
    data = data
    db = db
    r1 = r1
    r2 = r2
    Runs = {r1}
    All = {r1}
    Claims = {data}
    Clusters = {db}
    Named <- MCNamed
    Apps <- MCApps
    NoRun = NoRun
    Torn = Torn
    MaxFaults = 1
PROPERTIES StartedRunsEnd AppComesBack
CHECK_DEADLOCK FALSE
