CONSTANTS
    a1 = a1
    a2 = a2
    b1 = b1
    p1 = p1
    Access = {a1, a2}
    Buckets = {b1}
    Principals = {p1}
    Levels = {"ObjectReader", "ObjectAdmin", "ObjectWriter"}
    BucketOf <- OneBucket
    SpecsOf <- OwnLevels
    Existing = {a1}
    UnsupportedLevels = {}
    ForeignPrincipals = {}
    DependencyPhases = {"absent", "notReady", "ready", "deleting"}
    ProviderPhases = {"ok", "factoryError", "restricted"}
    MaxEdits = 2
    MaxFaults = 1
SPECIFICATION FairSpec
INVARIANTS TypeOK ReadyMeansGranted ReleasedMeansRevoked
PROPERTIES KeepsFinalizerProtocol Converges DeletionCompletes
CHECK_DEADLOCK FALSE
