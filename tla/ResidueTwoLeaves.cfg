SPECIFICATION Spec
CONSTANTS
    Clusters = 5
    PageClusters = 1
    Tables = {root, other}
    RootTable = root
    OtherTable = other
    OtherListings = {{"a"}, {"a", "b"}}
    Entries = {"a", "b"}
    NoPage = NoPage
    Nothing = Nothing
    LeafCounts = {1, 2}
    MaxBlock = 6
INVARIANT LiveNamesNeverCarved
CHECK_DEADLOCK FALSE
