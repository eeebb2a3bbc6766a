------------------------- MODULE MCCloudPrincipalAuth -------------------------
(* Instances of CloudPrincipalAuth for TLC. *)
EXTENDS CloudPrincipalAuth

CONSTANT n1

Bounds(cloud, method, edits, faults, lags, keyQuota) ==
    [cloud |-> cloud, method |-> method, edits |-> edits,
     faults |-> faults, lags |-> lags, keys |-> keyQuota]

\* Both clouds and both methods: a failure, a late Secret and a user's action,
\* in pairs; or two actions of users.
Several ==
    {Bounds("yc", "StaticCredentials", 2, 0, 0, 3),
     Bounds("yc", "StaticCredentials", 1, 1, 0, 2),
     Bounds("yc", "StaticCredentials", 1, 0, 1, 2),
     Bounds("yc", "StaticCredentials", 0, 1, 1, 3),
     Bounds("gcp", "StaticCredentials", 1, 0, 1, 2),
     Bounds("gcp", "StaticCredentials", 0, 1, 1, 2),
     Bounds("gcp", "WorkloadIdentity", 1, 1, 0, 0),
     Bounds("gcp", "WorkloadIdentity", 2, 0, 0, 0),
     Bounds("yc", "WorkloadIdentity", 1, 0, 0, 0)}

\* The informer is late with the Secret twice, and nothing else goes wrong.
LateTwice == {Bounds("yc", "StaticCredentials", 0, 0, 2, 2)}
===============================================================================
