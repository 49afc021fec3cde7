SPECIFICATION Spec
CONSTANTS
    Media <- MCMedia
    MaxLen = 48
    BootSignatureEnd = 1
    BootFsrsEnd = 2
    BootEnd = 3
    SignatureEnd = 1
    SelfBlockEnd = 2
    V3HeaderEnd = 3
    CountEnd = 4
    RefSize = 1
    PageSize = 4
    Band = 4
    SuperblockCluster = 2
    MaxSaneCluster = 8
    MaxCheckpoints = 2
    MediumClusters = 6
INVARIANT AuditGatesOnVersion
CHECK_DEADLOCK FALSE
