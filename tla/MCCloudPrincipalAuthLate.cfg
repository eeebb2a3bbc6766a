CONSTANTS
    n1 = n1
    CloudPrincipalAuths = {n1}
    Settings <- LateTwice
    PrincipalPhases = {"ready"}
    ProviderPhases = {"ok"}
SPECIFICATION Spec
INVARIANTS SecretHoldsRecordedKey
CHECK_DEADLOCK FALSE
