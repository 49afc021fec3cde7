SPECIFICATION Spec
CONSTANTS
    Clusters = 5
    PageClusters = 2
    MCTable = t0
    Tables = {t0}
    Entries = {e1}
    NoPage = NoPage
    MaxCluster = 6
    Images <- MCImages
    Bands = {0, 2, 3, 6}
INVARIANTS
    TypeOK
    BaseIsFirstWitness
    ResolvedNearImage
    AgreementResolves
    OnePageMovesOneContainer
PROPERTIES
    ScanReturns
CHECK_DEADLOCK FALSE
