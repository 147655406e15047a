SPECIFICATION FairSpec
CONSTANTS
    p1 = p1
    p2 = p2
    Packages = {p1}
    MaxVersion = 2
    Concurrency = 1
    SkipSettings = {TRUE}
    MaxOpen = 2
    MaxFailures = 1
PROPERTY UpdatesAreScanned
