CONSTANTS
    n1 = n1
    n2 = n2
    x1 = x1
    x2 = x2
    CloudPrincipals = {n1}
    Managements = {"Managed"}
    Accounts = {x1}
    NamesOf <- AnyName
    InvalidNames = {}
    Kinds = {"ServiceAccount"}
    UnsupportedKinds <- NoManagedUsers
    LooksUpReferences = FALSE
    ProviderPhases = {"ok"}
    MaxEdits = 1
    MaxFaults = 1
SPECIFICATION Spec
INVARIANT DeletionFindsUnrecorded
CHECK_DEADLOCK FALSE
