CONSTANTS
    n1 = n1
    CloudPrincipalAuths = {n1}
    Settings <- Several
    PrincipalPhases = {"ready", "notReady", "deleting"}
    ProviderPhases = {"ok", "absent", "restricted"}
SPECIFICATION FairSpec
INVARIANTS
    TypeOK KeysTracked ReleasedMeansDeleted
    SecretHoldsRecordedKeyUndisturbed RetainedMeansDisowned
PROPERTIES
    KeepsFinalizerProtocol Converges DeletionCompletes
CHECK_DEADLOCK FALSE
