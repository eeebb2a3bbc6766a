---------------------------- MODULE ProviderConfig ----------------------------
(***************************************************************************)
(* The ProviderConfig controller: the credentials and the usage policy     *)
(* that Buckets and CloudPrincipals name.  It keeps the Ready condition    *)
(* and holds the resource back, by its finalizer, while the cache shows a  *)
(* Bucket or a CloudPrincipal of it.                                       *)
(*                                                                         *)
(* internal/controller/provider_config_controller.go and provider_setup.go *)
(* internal/resolvers/provider_config.go and common.go, newClient and      *)
(* ValidateProviderConfigSpec of internal/cloud/gcp and yc.                *)
(*                                                                         *)
(* DeletionOrder extends this module with the resources.                   *)
(***************************************************************************)
EXTENDS KubeObject

CONSTANTS
    Configs,     \* names of ProviderConfig resources
    Buckets,     \* Bucket resources
    Principals,  \* CloudPrincipal resources, managed
    Accesses,    \* BucketAccess resources
    ConfigOf,    \* the ProviderConfig of each resource
    ConfigSpecs, \* the specs users write of a ProviderConfig
    MaxEdits,    \* bound: actions of users
    MaxFaults    \* bound: failed calls and crashes

Roots == Buckets \union Principals

Resources == Roots \union Accesses

\* method: whether the credentials come from the Secret; valid: the verdict of
\* ValidateProviderConfigSpec on region and usage policy.
Specs == [method: {"StaticCredentials", "WorkloadIdentity"}, valid: BOOLEAN]

ASSUME ConfigsAssumption ==
    /\ Roots \intersect Accesses = {} /\ Buckets \intersect Principals = {}
    /\ ConfigOf \in [Resources -> Configs]
    /\ ConfigSpecs \subseteq Specs
    /\ MaxEdits \in Nat
    /\ MaxFaults \in Nat

VARIABLES
    api, cache, watch, queue, pc, obj, plan, budget,  \* as in Reconciler
    secret,  \* the credentials Secret, as the informer shows it
    seen     \* the informer's copy of each resource

configVars == <<api, cache, watch, queue, pc, obj, plan>>

-------------------------------------------------------------------------------
(* Data. *)

Reasons == {"None", "Reconciled", "ProviderConfigError", "InvalidSpec"}

Statuses == [reason: Reasons, gen: Nat]

NoStatus == [reason |-> "None", gen |-> 0]

Objects == Versions(Specs, Statuses)

NoObject == NeverCreated([method |-> "WorkloadIdentity", valid |-> TRUE], NoStatus)

PCs == {"idle", "addFinalizer", "check", "patchReady", "prepareDelete",
        "listPrincipals", "release", "report"}

NoPlan == [reason |-> "None", retry |-> FALSE]

INSTANCE Reconciler WITH Names <- Configs

\* A resource's version: uid counts the resources of the name, made says that the
\* cloud holds something for it and its status records that.
Copies == {v \in [uid: Nat, phase: {"absent", "live", "deleting"}, made: BOOLEAN] :
             v.phase = "absent" => ~v.made}

ConfigTypeOK ==
    /\ api \in [Configs -> Objects]
    /\ cache \in [Configs -> Objects]
    /\ watch \in [Configs -> SUBSET Objects]
    /\ queue \subseteq Configs
    /\ pc \in [Configs -> PCs]
    /\ obj \in [Configs -> Objects]
    /\ plan \in [Configs -> [reason: Reasons, retry: BOOLEAN]]
    /\ budget \in [edits: Nat, faults: Nat]
    /\ secret \in {"good", "bad"}
    /\ seen \in [Resources -> Copies]

-------------------------------------------------------------------------------

\* The operator starts on ProviderConfigs that are in order; an edit or a change
\* of the Secret spoils them.
ConfigInit ==
    /\ \E s \in [Configs -> {t \in ConfigSpecs : t.valid}] :
         api = [c \in Configs |-> Created(NoObject, s[c], NoStatus)]
    /\ cache = api
    /\ watch = [c \in Configs |-> {}]
    /\ queue = Configs
    /\ pc = [c \in Configs |-> "idle"]
    /\ obj = [c \in Configs |-> NoObject]
    /\ plan = [c \in Configs |-> NoPlan]
    /\ budget = [edits |-> MaxEdits, faults |-> MaxFaults]
    /\ secret = "good"

-------------------------------------------------------------------------------
(* Users. *)

CreateConfig(c) == \E s \in ConfigSpecs : Post(c, s, NoStatus)

EditConfig(c) == \E s \in ConfigSpecs \ {api[c].spec} : Put(c, s)

DeleteConfig(c) == Delete(c)

\* A controller without the watch on Secrets.
NoConfigsOfSecret == {}

\* findProviderConfigsOfSecret.
ConfigsOfSecret ==
    {c \in Configs : cache[c].exists /\ cache[c].spec.method = "StaticCredentials"}

SecretChanges ==
    /\ secret' \in {"good", "bad"} \ {secret}
    /\ Wake(ConfigsOfSecret)
    /\ SpendEdit

-------------------------------------------------------------------------------
(* The reconcile of c. *)

\* newClient of the provider: whether the factory makes one of the spec.
FactoryWorks(spec) == spec.method = "WorkloadIdentity" \/ secret = "good"

Check(c) ==
    LET spec == obj[c].spec
    IN /\ pc[c] = "check"
       /\ \/ ~FactoryWorks(spec) /\ Reporting(c, "ProviderConfigError", TRUE)
          \/ FactoryWorks(spec) /\ ~spec.valid /\ Reporting(c, "InvalidSpec", FALSE)
          \/ FactoryWorks(spec) /\ spec.valid /\ Proceed(c, "patchReady")

\* A patch that reports on the generation the informer shows.
PatchForLatest(c, reason, retry) ==
    LET new == [reason |-> reason, gen |-> cache[c].gen]
    IN PatchStatus(c, new, IF Differs(c, new) THEN new ELSE api[c].status, retry)

\* The only condition is replaced when the patch changes it at all.
Patch(c, reason, retry) ==
    LET new == [reason |-> reason, gen |-> obj[c].gen]
    IN PatchStatus(c, new, IF Differs(c, new) THEN new ELSE api[c].status, retry)

PatchReady(c) == pc[c] = "patchReady" /\ Patch(c, "Reconciled", FALSE)

Report(c) == pc[c] = "report" /\ Patch(c, plan[c].reason, plan[c].retry)

\* IsReferenced, asked of one list.
Listed(c, rs) == \E r \in rs : ConfigOf[r] = c /\ seen[r].phase # "absent"

\* A deletion that asks for Buckets only.
PrepareDeleteByBuckets(c) ==
    /\ pc[c] = "prepareDelete"
    /\ IF Listed(c, Buckets) THEN Return(c, TRUE) ELSE Proceed(c, "release")

\* deleteProviderConfig lists the Buckets, and then ...
PrepareDelete(c) ==
    /\ pc[c] = "prepareDelete"
    /\ IF Listed(c, Buckets) THEN Return(c, TRUE) ELSE Proceed(c, "listPrincipals")

\* ... the CloudPrincipals; it looks again after ten seconds.
ListPrincipals(c) ==
    /\ pc[c] = "listPrincipals"
    /\ IF Listed(c, Principals) THEN Return(c, TRUE) ELSE Proceed(c, "release")

ReconcileConfig(c) ==
    \/ Claim(c) \/ Check(c) \/ PatchReady(c) \/ Report(c)
    \/ PrepareDelete(c) \/ ListPrincipals(c) \/ Release(c)

\* A request to the API server fails, or the factory does for another reason than
\* the Secret.
ConfigCallFails(c) ==
    /\ \/ pc[c] \in {"addFinalizer", "patchReady", "report", "release"} /\ Return(c, TRUE)
       \/ pc[c] = "check" /\ Reporting(c, "ProviderConfigError", TRUE)
    /\ SpendFault

-------------------------------------------------------------------------------
(* What the other controllers ask of it. *)

\* isReady: the condition is True and of the current generation, which a request
\* for deletion raises.
IsReady(o) == o.status.reason = "Reconciled" /\ o.status.gen = o.gen

\* A prepareProvider that insists on a Ready ProviderConfig.
ReadyOnly(c) ==
    cache[c].exists /\ IsReady(cache[c]) /\ FactoryWorks(cache[c].spec)

\* prepareProvider: one under deletion is good enough, for there is no other way
\* to delete what was made with it.
Prepared(c) ==
    /\ cache[c].exists
    /\ IsReady(cache[c]) \/ cache[c].deleting
    /\ FactoryWorks(cache[c].spec)
===============================================================================
