---------------------------- MODULE MCDeletionOrder ----------------------------
(* One ProviderConfig, a Bucket, a CloudPrincipal, and an access of the one to *)
(* the other. *)
EXTENDS DeletionOrder, TLC

ConfigOfAll == [r \in Resources |-> "config"]

\* The one with a Secret may fail, the other is refused.
TwoSpecs ==
    {[method |-> "StaticCredentials", valid |-> TRUE],
     [method |-> "WorkloadIdentity", valid |-> FALSE]}

Targets ==
    "bucket" :> {} @@ "principal" :> {}
    @@ "access" :> {"bucket", "principal"}
===============================================================================
