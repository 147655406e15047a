SPECIFICATION Spec
CONSTANTS
    p = p
    q = q
    invalid = invalid
    Packages = {p, q}
    MaxVersion = 2
    MaxScans = 2
    MaxFindings = 2
    RiskLevels = {"low", "high"}
    Limit = 1
    Requests <- AllRequests
    Contents <- SomeContents
    InvalidNames = {invalid}
    Blank = Blank
    Limits = {1, 2, 3}
    MaxDeliveries = 2
INVARIANTS
    TypeOK
    WalkComplete
    PageWithinTotal
    DetailCoherent
    FilteredLabel
    BatchWhole
    MessagesMatchRows
    BatchRowAwaited
PROPERTIES
    TablesAreScanAttempts
