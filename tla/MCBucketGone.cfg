CONSTANTS
    r1 = r1
    x1 = x1
    x2 = x2
    Resources = {r1}
    Buckets = {x1}
    SpecsOf <- Fixed
    Foreign <- PlainBucket
    InvalidNames = {}
    Locations = {"eu"}
    Properties = {"plain"}
    UnsupportedProperties = {}
    ProviderPhases = {"ok"}
    MaxEdits = 1
    MaxFaults = 0
SPECIFICATION FairSpec
PROPERTY DeletionSettles
CHECK_DEADLOCK FALSE
