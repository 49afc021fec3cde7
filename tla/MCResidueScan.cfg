SPECIFICATION Spec
CONSTANTS
    Images <- MCImages
    Clusters = 5
    PageClusters = 2
    Tables = {root, other}
    RootTable = root
    OtherTable = other
    Entries = {"a", "b", "c"}
    NoPage = NoPage
    Nothing = Nothing
INVARIANTS
    ScanTypeOK
    CurrentIsHighest
    ResidueIsExact
PROPERTY
    ResidueReturns
CHECK_DEADLOCK FALSE
