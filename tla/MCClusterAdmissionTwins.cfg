CONSTANTS
    a = a
    b = b
    x = x
    y = y
    None = None
    Clusters <- MCClusters
    Prefixes <- MCPrefixes
    Manifests <- MCTwins
    MaxFaults = 0
    Careful = FALSE
SPECIFICATION Spec
INVARIANT OneArchiveEach
