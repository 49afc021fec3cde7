SPECIFICATION Spec
CONSTANTS
    Clusters = 4
    PageClusters = 1
    MCTable = t0
    Tables = {t0}
    Entries = {"a", "b", "c", "r"}
    NoPage = NoPage
    MaxCluster = 20
    Band = 3
    VirtualBase = 4
    MaxDepth = 2
    MaxVisited = 3
    Images <- MCImages
    Roots = {0}
INVARIANT NeverSilentlyTruncated
CHECK_DEADLOCK FALSE
