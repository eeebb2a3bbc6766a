--------------------------- MODULE MCCloudPrincipal ---------------------------
(* Instances of CloudPrincipal for TLC. *)
EXTENDS CloudPrincipal

CONSTANTS n1, n2, x1, x2

AnyName == [n \in CloudPrincipals |-> Accounts]

NoManagedUsers == [m \in Managements |-> IF m = "Managed" THEN {"User"} \intersect Kinds ELSE {}]

===============================================================================
