CONSTANTS
    a1 = a1
    a2 = a2
    b1 = b1
    p1 = p1
    Access = {a1}
    Buckets = {b1}
    Principals = {p1}
    Levels = {"ObjectReader", "ObjectAdmin"}
    BucketOf <- OneBucket
    SpecsOf <- AnySpec
    Existing = {a1}
    UnsupportedLevels = {}
    ForeignPrincipals = {}
    DependencyPhases = {"ready"}
    ProviderPhases = {"ok"}
    MaxEdits = 1
    MaxFaults = 0
SPECIFICATION Spec
INVARIANT AppliedCoversGrants
CHECK_DEADLOCK FALSE
