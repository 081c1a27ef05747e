SPECIFICATION Spec
CONSTANTS
    data = data
    db = db
    r1 = r1
    r2 = r2
    Runs = {r1, r2}
    All = {r1, r2}
    Claims = {data}
    Clusters = {db}
    Named <- MCNamed
    Apps <- MCApps
    NoRun = NoRun
    Torn = Torn
    MaxFaults = 1
SYMMETRY Symmetry
INVARIANTS TypeOK AppGivenBack OnePointInTime SucceededIsRestorable
CHECK_DEADLOCK FALSE
