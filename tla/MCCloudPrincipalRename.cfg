CONSTANTS
    n1 = n1
    n2 = n2
    x1 = x1
    x2 = x2
    CloudPrincipals = {n1}
    Managements = {"Managed"}
    Accounts = {x1, x2}
    NamesOf <- AnyName
    InvalidNames = {}
    Kinds = {"ServiceAccount"}
    UnsupportedKinds <- NoManagedUsers
    LooksUpReferences = FALSE
    ProviderPhases = {"ok"}
    MaxEdits = 1
    MaxFaults = 0
SPECIFICATION Spec
PROPERTY NameIsForLife
CHECK_DEADLOCK FALSE
