SPECIFICATION Spec
CONSTANTS
    Clusters = 6
    PageClusters = 1
    MCTable = t0
    Tables = {t0}
    Entries = {"a", "b", "c", "r"}
    NoPage = NoPage
    MaxCluster = 20
    Band = 3
    VirtualBase = 4
    MaxDepth = 2
    MaxVisited = 3
    Images <- MCRelocatedImages
    Roots = {0}
INVARIANT LowMappingIsFallback
CHECK_DEADLOCK FALSE
