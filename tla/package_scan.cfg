SPECIFICATION FairSpec
CONSTANTS
    MaxBytes = 3
    ChunkSizes = {1, 2, 4}
    DocVersions = 3
    Instants = 3
    MaxMembers = 2
    MaxTotal = 3
    MaxFile = 2
    MaxDepth = 1
    RequiredHooks = {"preinstall"}
    OptionalHooks = {"prepare"}
    MaxFiles = 2
    Documents <- AnyDocument
    Archives <- AnyArchive
    Trees <- AnyTree
    Sizes <- SomeSizes
INVARIANTS
    TypeOK
    DiskWithinLimit
    WholeFileOrNone
    PreviousIsPredecessor
    ArchiveChecksExact
    RejectionsAreFinal
    BaselineNeverLowersScore
    RiskCalibration
PROPERTIES
    ScanEnds
