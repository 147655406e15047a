SPECIFICATION FairSpec
CONSTANTS
    p1 = p1
    t1 = t1
    t2 = t2
    w1 = w1
    w2 = w2
    NoTask = NoTask
    Packages = {p1}
    Tasks = {t1}
    Workers = {w1, w2}
    MaxVersion = 1
    MaxRetries = 0
    PackageOf <- OnePackage
    Faults = {"worker"}
    MaxFaults = 1
PROPERTIES
    ScansSettle
