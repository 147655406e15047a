SPECIFICATION FairSpec
CONSTANTS
    p1 = p1
    t1 = t1
    t2 = t2
    w1 = w1
    w2 = w2
    NoTask = NoTask
    Packages = {p1}
    Tasks = {t1}
    Workers = {w1, w2}
    MaxVersion = 1
    MaxRetries = 1
    PackageOf <- OnePackage
    Faults = {"publish", "worker", "workspace", "direct"}
    MaxFaults = 2
INVARIANTS
    LiveJobIsPending
PROPERTIES
    JobsSettle
