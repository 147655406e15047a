SPECIFICATION Spec
CONSTANTS
    p1 = p1
    t1 = t1
    t2 = t2
    w1 = w1
    w2 = w2
    NoTask = NoTask
    Packages = {p1}
    Tasks = {t1, t2}
    Workers = {w1, w2}
    MaxVersion = 2
    MaxRetries = 0
    PackageOf <- OnePackage
    Faults = {"worker", "redeliver", "workspace", "direct"}
    MaxFaults = 2
SYMMETRY Symmetry
INVARIANTS
    FindingsAreOfCompletedScans
    ScannedVersionHasScan
    CompletedJobsHaveScans
PROPERTIES
    ImplementsScanAttempts
