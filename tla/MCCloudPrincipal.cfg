CONSTANTS
    n1 = n1
    n2 = n2
    x1 = x1
    x2 = x2
    CloudPrincipals = {n1}
    Managements = {"Managed", "Reference"}
    Accounts = {x1, x2}
    NamesOf <- AnyName
    InvalidNames = {}
    Kinds = {"ServiceAccount"}
    UnsupportedKinds <- NoManagedUsers
    LooksUpReferences = TRUE
    ProviderPhases = {"ok", "factoryError", "restricted"}
    MaxEdits = 2
    MaxFaults = 1
SPECIFICATION FairSpec
INVARIANTS TypeOK ReadyMeansExists ReleasedMeansDeleted
PROPERTIES KeepsFinalizerProtocol Converges DeletionCompletes
CHECK_DEADLOCK FALSE
