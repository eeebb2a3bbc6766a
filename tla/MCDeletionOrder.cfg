SPECIFICATION FairSpec
CONSTANTS
    Configs = {"config"}
    Buckets = {"bucket"}
    Principals = {"principal"}
    Accesses = {"access"}
    ConfigOf <- ConfigOfAll
    ConfigSpecs <- TwoSpecs
    Existing = {"principal"}
    TargetsOf <- Targets
    MaxEdits = 2
    MaxFaults = 1
INVARIANTS
    TypeOK
    AccessesHaveTargets
    NothingStranded
    ReadyMeansFit
PROPERTIES
    Converges
    DeletionCompletes
    KeepsDeletionProtocol
CHECK_DEADLOCK FALSE
