SPECIFICATION Spec
CONSTANTS
    Claims = {data}
    Clusters = {db}
    Copy = new
    None = None
    MaxFaults = 1
    MaxUID = 3
INVARIANT AppNeverRunsUnderRestic
CHECK_DEADLOCK FALSE
