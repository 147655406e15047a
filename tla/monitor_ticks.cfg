SPECIFICATION FairSpec
CONSTANTS
    p1 = p1
    p2 = p2
    Packages = {p1, p2}
    MaxVersion = 2
    Concurrency = 1
    SkipSettings = {TRUE, FALSE}
    MaxOpen = 2
    MaxFailures = 1
INVARIANTS
    TypeOK
    CountersAddUp
    SlotsConserved
PROPERTIES
    TickEnds
    ShutdownStops
    EventuallyScanned
