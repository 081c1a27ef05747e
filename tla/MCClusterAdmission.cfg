CONSTANTS
    a = a
    b = b
    x = x
    y = y
    None = None
    Clusters <- MCClusters
    Prefixes <- MCPrefixes
    Manifests <- MCManifests
    MaxFaults = 1
    Careful = TRUE
SPECIFICATION FairSpec
INVARIANT TypeOK
PROPERTIES BackedUpFromTheStart FluxGetsThrough
