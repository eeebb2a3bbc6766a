CONSTANTS
    r1 = r1
    x1 = x1
    x2 = x2
    Resources = {r1}
    Buckets = {x1, x2}
    SpecsOf <- Edited
    Foreign <- PlainBucket
    InvalidNames = {}
    Locations = {"eu", "us"}
    Properties = {"plain", "versioned", "labelled"}
    UnsupportedProperties = {"labelled"}
    ProviderPhases = {"ok", "factoryError", "restricted"}
    MaxEdits = 2
    MaxFaults = 1
SPECIFICATION FairSpec
INVARIANTS TypeOK ReadyMeansConfigured ReleasedMeansDeleted
PROPERTIES KeepsFinalizerProtocol Converges DeletionCompletes
CHECK_DEADLOCK FALSE
