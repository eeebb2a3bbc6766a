---------------------------- MODULE CloudPrincipal ----------------------------
(***************************************************************************)
(* The CloudPrincipal controller: custom resources that stand for a        *)
(* service account the operator manages, or for an identity it only refers *)
(* to, and the accounts of the cloud.                                      *)
(*                                                                         *)
(* internal/controller/cloudprincipal_controller.go, principal.go and the  *)
(* account calls of principal_api.go in internal/cloud/gcp and yc,         *)
(* internal/resolvers/cloud_principal.go, CheckPrincipal of usagepolicy.   *)
(***************************************************************************)
EXTENDS KubeObject

CONSTANTS
    CloudPrincipals,   \* names of CloudPrincipal resources
    Managements,       \* the managementPolicies users ask for: Managed, Reference
    Accounts,          \* names of accounts in the cloud
    NamesOf,           \* the names the users of a resource write in its spec
    InvalidNames,      \* names the provider's pattern refuses
    Kinds,             \* spec.kind
    UnsupportedKinds,  \* kinds the capabilities do not list for a managementPolicy
    LooksUpReferences, \* the provider looks a referenced identity up (yc)
    ProviderPhases,    \* phases the environment moves the ProviderConfig to
    MaxEdits,          \* bound: actions of users and of the environment
    MaxFaults          \* bound: failed calls and crashes of the controller

ASSUME ConstantsAssumption ==
    /\ Managements \subseteq {"Managed", "Reference"} /\ Managements # {}
    /\ Accounts # {} /\ Kinds # {}
    /\ NamesOf \in [CloudPrincipals -> SUBSET Accounts]
    /\ \A n \in CloudPrincipals : NamesOf[n] # {}
    /\ UnsupportedKinds \in [Managements -> SUBSET Kinds]
    /\ LooksUpReferences \in BOOLEAN
    /\ ProviderPhases \subseteq
         {"ok", "absent", "notReady", "factoryError", "restricted"}
    /\ MaxEdits \in Nat
    /\ MaxFaults \in Nat

VARIABLES
    api, cache, watch, queue, pc, obj, plan, budget,  \* as in Reconciler
    accounts,    \* each account of the cloud: absent, there, or taken by the operator
    referenced,  \* resources a cached BucketAccess or CloudPrincipalAuth refers to
    provider     \* what prepareProvider and the usage policy say

vars == <<api, cache, watch, queue, pc, obj, plan, budget,
          accounts, referenced, provider>>

-------------------------------------------------------------------------------
(* Data. *)

\* policy is spec.managed.deletionPolicy; a Reference has none.
Specs ==
    {s \in [management: Managements, name: Accounts, kind: Kinds,
            policy: {"Delete", "Retain", "None"}] :
       s.management = "Managed" <=> s.policy # "None"}

\* status.externalName, externalId and kind are written together; an id stands
\* for the name.
Records == [name: Accounts, kind: Kinds]

Reasons == {"None", "Reconciled", "ProviderIssue", "SpecRestricted",
            "UnsupportedFeatures", "InvalidSpec", "EnsureError", "DeleteError",
            "RemoveFinalizerError"}

Statuses == [recorded: {{}} \union {{r} : r \in Records}, reason: Reasons, gen: Nat]

NoStatus == [recorded |-> {}, reason |-> "None", gen |-> 0]

Objects == Versions(Specs, Statuses)

NoObject == NeverCreated(CHOOSE s \in Specs : TRUE, NoStatus)

PCs == {"idle", "addFinalizer", "check", "get", "create", "patchReady",
        "prepareDelete", "deleteAccount", "release", "report"}

Plans == [reason: Reasons, retry: BOOLEAN]

NoPlan == [reason |-> "None", retry |-> FALSE]

INSTANCE Reconciler WITH Names <- CloudPrincipals

environment == <<accounts, referenced, provider>>

SpecsOf(n) == {s \in Specs : s.name \in NamesOf[n]}

IsManaged(o) == o.spec.management = "Managed"

\* What a successful reconcile of version o records.
Want(o) == [name |-> o.spec.name, kind |-> o.spec.kind]

RecordedNames(o) == {r.name : r \in o.status.recorded}

AccountsOf(n) == {x \in NamesOf[n] : accounts[x] = "taken"}

TypeOK ==
    /\ api \in [CloudPrincipals -> Objects]
    /\ cache \in [CloudPrincipals -> Objects]
    /\ watch \in [CloudPrincipals -> SUBSET Objects]
    /\ queue \subseteq CloudPrincipals
    /\ pc \in [CloudPrincipals -> PCs]
    /\ obj \in [CloudPrincipals -> Objects]
    /\ plan \in [CloudPrincipals -> Plans]
    /\ budget \in [edits: Nat, faults: Nat]
    /\ accounts \in [Accounts -> {"absent", "there", "taken"}]
    /\ referenced \subseteq CloudPrincipals
    /\ provider \in {"ok", "absent", "notReady", "factoryError", "restricted"}

-------------------------------------------------------------------------------
(* The operator starts on resources that were created while it was away, some  *)
(* of them referred to already, in a cloud that may have accounts of the names *)
(* already.                                                                    *)

Init ==
    /\ \E s \in [CloudPrincipals -> Specs] :
         /\ \A n \in CloudPrincipals : s[n] \in SpecsOf(n)
         /\ api = [n \in CloudPrincipals |-> Created(NoObject, s[n], NoStatus)]
    /\ cache = api
    /\ watch = [n \in CloudPrincipals |-> {}]
    /\ queue = CloudPrincipals
    /\ pc = [n \in CloudPrincipals |-> "idle"]
    /\ obj = [n \in CloudPrincipals |-> NoObject]
    /\ plan = [n \in CloudPrincipals |-> NoPlan]
    /\ budget = [edits |-> MaxEdits, faults |-> MaxFaults]
    /\ accounts \in [Accounts -> {"absent", "there"}]
    /\ referenced \in SUBSET CloudPrincipals
    /\ provider = "ok"

-------------------------------------------------------------------------------
(* Users and the environment. *)

Create(n) ==
    /\ \E s \in SpecsOf(n) : Post(n, s, NoStatus)
    /\ UNCHANGED environment

\* managementPolicy is immutable.
EditSpec(n) ==
    /\ \E s \in SpecsOf(n) \ {api[n].spec} :
         s.management = api[n].spec.management /\ Put(n, s)
    /\ UNCHANGED environment

RequestDeletion(n) ==
    /\ Delete(n)
    /\ UNCHANGED environment

\* The cache learns of the first resource that refers to n, or that the last one
\* is gone.  No watch tells this controller: deletion polls.
ReferencesChange(n) ==
    /\ referenced' \in {referenced \union {n}, referenced \ {n}} \ {referenced}
    /\ Wake({})
    /\ SpendEdit
    /\ UNCHANGED <<accounts, provider>>

\* findCloudPrincipalsOfProviderConfig, for a controller that asks for the
\* resources it has made Ready only.
ReadyDependants == {n \in CloudPrincipals : cache[n].status.reason = "Reconciled"}

\* findCloudPrincipalsOfProviderConfig.
Dependants == {n \in CloudPrincipals : cache[n].exists}

ProviderChanges ==
    /\ \E p \in ProviderPhases \ {provider} : provider' = p
    /\ Wake(Dependants)
    /\ SpendEdit
    /\ UNCHANGED <<accounts, referenced>>

-------------------------------------------------------------------------------
(* The reconcile. *)

Deliver(n) == Inform(n) /\ UNCHANGED <<environment, budget>>

Start(n) == Begin(n, cache[n]) /\ UNCHANGED <<environment, budget>>

AddFinalizer(n) == Claim(n) /\ UNCHANGED <<environment, budget>>

\* ValidateNameImmutability, against the status the reconcile read.
Renamed(o) == \E x \in RecordedNames(o) : x # o.spec.name

\* prepareProvider, CheckPrincipal, ValidatePrincipalCapabilities and
\* ValidatePrincipalSpec: what stops the reconcile, or "None".
Obstacle(n, o) ==
    CASE provider \in {"absent", "notReady", "factoryError"} -> "ProviderIssue"
      [] provider = "restricted"                             -> "SpecRestricted"
      [] o.spec.kind \in UnsupportedKinds[o.spec.management] -> "UnsupportedFeatures"
      [] IsManaged(o) /\ Renamed(o)                          -> "InvalidSpec"
      [] o.spec.name \in InvalidNames                        -> "InvalidSpec"
      [] OTHER                                               -> "None"

Check(n) ==
    /\ pc[n] = "check"
    /\ \/ Obstacle(n, obj[n]) = "None" /\ Proceed(n, "get")
       \/ /\ Obstacle(n, obj[n]) # "None"
          /\ Reporting(n, Obstacle(n, obj[n]), provider = "factoryError")
    /\ UNCHANGED <<environment, budget>>

\* GetPrincipal: a reference is looked up by yc only, and AllUsers by no cloud.
Found(o) ==
    \/ accounts[o.spec.name] # "absent"
    \/ ~IsManaged(o) /\ (~LooksUpReferences \/ o.spec.kind = "AllUsers")

\* EnsurePrincipal: a managed account that is there already is adopted.
Get(n) ==
    LET o == obj[n]
    IN /\ pc[n] = "get"
       /\ \/ /\ Found(o)
             /\ accounts' = IF IsManaged(o) THEN [accounts EXCEPT ![o.spec.name] = "taken"]
                                            ELSE accounts
             /\ Proceed(n, "patchReady")
          \/ /\ ~Found(o) /\ IsManaged(o)
             /\ Proceed(n, "create")
             /\ UNCHANGED accounts
          \/ /\ ~Found(o) /\ ~IsManaged(o)
             /\ Reporting(n, "EnsureError", TRUE)
             /\ UNCHANGED accounts
       /\ UNCHANGED <<referenced, provider, budget>>

CreateAccount(n) ==
    /\ pc[n] = "create"
    /\ accounts' = [accounts EXCEPT ![obj[n].spec.name] = "taken"]
    /\ Proceed(n, "patchReady")
    /\ UNCHANGED <<referenced, provider, budget>>

-------------------------------------------------------------------------------
(* The status patch at the end of a reconcile: the fields merge one by one,    *)
(* the list of conditions is replaced.                                         *)

\* A merge in which the record is only ever added to.
MergedRecordedUnion(base, new, current) == current \union new

MergedRecorded(base, new, current) ==
    IF new = base THEN current
    ELSE IF base = {} \/ current = {} THEN new
    ELSE {[name |-> IF r.name = b.name THEN c.name ELSE r.name,
           kind |-> IF r.kind = b.kind THEN c.kind ELSE r.kind] :
             b \in base, r \in new, c \in current}

Merged(base, new, current) ==
    LET conditions == IF <<new.reason, new.gen>> = <<base.reason, base.gen>>
                        THEN current ELSE new
    IN [recorded |-> MergedRecorded(base.recorded, new.recorded, current.recorded),
        reason |-> conditions.reason,
        gen |-> conditions.gen]

\* A condition that carries the generation the cache has by now.
FreshOutcome(n, recorded, reason) ==
    [recorded |-> recorded, reason |-> reason, gen |-> cache[n].gen]

\* The generation is the one of the object the reconcile read.
Outcome(n, recorded, reason) ==
    [recorded |-> recorded, reason |-> reason, gen |-> obj[n].gen]

Patch(n, new, retry) ==
    PatchStatus(n, new, Merged(cache[n].status, new, api[n].status), retry)

PatchReady(n) ==
    /\ pc[n] = "patchReady"
    /\ Patch(n, Outcome(n, {Want(obj[n])}, "Reconciled"), FALSE)
    /\ UNCHANGED <<environment, budget>>

Report(n) ==
    /\ pc[n] = "report"
    /\ Patch(n, Outcome(n, cache[n].status.recorded, plan[n].reason), plan[n].retry)
    /\ UNCHANGED <<environment, budget>>

-------------------------------------------------------------------------------
(* deleteCloudPrincipal. *)

ShouldBeDeleted(o) == IsManaged(o) /\ o.spec.policy = "Delete"

\* CheckPrincipal of a resource under deletion asks for the recorded kind, and
\* no policy lists the empty kind of a status that records nothing.
DeletionAllowed(o) == provider = "ok" /\ o.status.recorded # {}

\* A deletion that counts on a watch for the references to go.
StopWhileReferenced(n) == n \in referenced /\ Return(n, FALSE)

\* A deletion that looks again after ten seconds.
PollWhileReferenced(n) == n \in referenced /\ Return(n, TRUE)

PrepareDelete(n) ==
    LET o == obj[n]
        issue == provider \in {"absent", "notReady", "factoryError"}
    IN /\ pc[n] = "prepareDelete"
       /\ \/ PollWhileReferenced(n)
          \/ /\ n \notin referenced
             /\ ~ShouldBeDeleted(o)
             /\ Proceed(n, "release")
          \/ /\ n \notin referenced
             /\ ShouldBeDeleted(o) /\ issue
             /\ Return(n, TRUE)
          \/ /\ n \notin referenced
             /\ ShouldBeDeleted(o) /\ ~issue
             /\ DeletionAllowed(o)
             /\ Proceed(n, "deleteAccount")
          \/ /\ n \notin referenced
             /\ ShouldBeDeleted(o) /\ ~issue
             /\ ~DeletionAllowed(o) /\ o.status.recorded # {}
             /\ Reporting(n, "RemoveFinalizerError", FALSE)
          \/ /\ n \notin referenced
             /\ ShouldBeDeleted(o) /\ ~issue
             /\ ~DeletionAllowed(o) /\ o.status.recorded = {}
             /\ Proceed(n, "release")
       /\ UNCHANGED <<environment, budget>>

\* The name in the spec, which the user may have edited since.
SpecNames(o) == {o.spec.name}

\* PrincipalNameForDelete.
NamesForDelete(o) == IF o.status.recorded = {} THEN {o.spec.name} ELSE RecordedNames(o)

WithoutAccounts(xs) == [x \in Accounts |-> IF x \in xs THEN "absent" ELSE accounts[x]]

\* DeletePrincipal: an account that is not there counts as deleted.
DeleteAccount(n) ==
    /\ pc[n] = "deleteAccount"
    /\ accounts' = WithoutAccounts(NamesForDelete(obj[n]))
    /\ Proceed(n, "release")
    /\ UNCHANGED <<referenced, provider, budget>>

RemoveFinalizer(n) == Release(n) /\ UNCHANGED <<environment, budget>>

-------------------------------------------------------------------------------
(* Failures. *)

\* A request to the API server fails: the reconcile returns the error.
ApiCallFails(n) ==
    /\ pc[n] \in {"addFinalizer", "patchReady", "report", "release"}
    /\ Return(n, TRUE)
    /\ SpendFault
    /\ UNCHANGED environment

\* A request to the cloud fails, with or without its effect.
CloudCallFails(n) ==
    /\ \/ /\ pc[n] = "get"
          /\ Reporting(n, "EnsureError", TRUE)
          /\ UNCHANGED accounts
       \/ /\ pc[n] = "create"
          /\ Reporting(n, "EnsureError", TRUE)
          /\ accounts' \in {accounts, [accounts EXCEPT ![obj[n].spec.name] = "taken"]}
       \/ /\ pc[n] = "deleteAccount"
          /\ Reporting(n, "DeleteError", TRUE)
          /\ accounts' \in {accounts, WithoutAccounts(NamesForDelete(obj[n]))}
    /\ SpendFault
    /\ UNCHANGED <<referenced, provider>>

Crash == Restart /\ SpendFault /\ UNCHANGED environment

-------------------------------------------------------------------------------

User(n) == Create(n) \/ EditSpec(n) \/ RequestDeletion(n)

Reconcile(n) ==
    \/ AddFinalizer(n) \/ Check(n) \/ Get(n) \/ CreateAccount(n)
    \/ PatchReady(n) \/ Report(n)
    \/ PrepareDelete(n) \/ DeleteAccount(n) \/ RemoveFinalizer(n)

Next ==
    \/ \E n \in CloudPrincipals :
         \/ User(n) \/ ReferencesChange(n)
         \/ Deliver(n) \/ Start(n) \/ Reconcile(n)
         \/ ApiCallFails(n) \/ CloudCallFails(n)
    \/ ProviderChanges
    \/ Crash

Spec == Init /\ [][Next]_vars

\* As for BucketAccess: informer, worker and queue make progress; users, the
\* environment and failures need not.
Fairness ==
    \A n \in CloudPrincipals :
      /\ WF_vars(Deliver(n))
      /\ SF_vars(Start(n))
      /\ WF_vars(Reconcile(n))

FairSpec == Spec /\ Fairness

-------------------------------------------------------------------------------
(* Properties. *)

\* Other controllers build bindings and keys on a principal that is Ready for its
\* current generation: the account its spec names is in the cloud by then.
ReadyMeansExists ==
    \A n \in CloudPrincipals :
      /\ api[n].exists /\ ~api[n].deleting /\ IsManaged(api[n])
      /\ api[n].status.reason = "Reconciled"
      /\ api[n].status.gen = api[n].gen
      => accounts[api[n].spec.name] = "taken"

\* A resource that left the API server under deletionPolicy Delete leaves no
\* account it recorded, however old the copy its deletion worked on and whatever
\* name its spec was edited to.
ReleasedMeansDeleted ==
    \A n \in CloudPrincipals :
      ~api[n].exists /\ ShouldBeDeleted(api[n])
      => \A x \in RecordedNames(api[n]) : accounts[x] = "absent"

\* The controller keeps the promise of FinalizerProtocol.
Protocol == INSTANCE FinalizerProtocol WITH
    Names <- CloudPrincipals,
    Things <- Accounts,
    claimed <- {n \in CloudPrincipals : api[n].exists /\ api[n].finalizer},
    owned <- [n \in CloudPrincipals |-> AccountsOf(n)],
    recorded <- [n \in CloudPrincipals |-> RecordedNames(api[n])],
    kept <- {n \in CloudPrincipals : ~ShouldBeDeleted(api[n])}

KeepsFinalizerProtocol == Protocol!Spec

\* A deletion that starts before the first successful reconcile, for which
\* PrincipalNameForDelete falls back on the name in the spec, leaves no account
\* of that name behind.
DeletionFindsUnrecorded ==
    \A n \in CloudPrincipals :
      ~api[n].exists /\ ShouldBeDeleted(api[n]) => AccountsOf(n) = {}

\* "name cannot be changed after creation": the account a managed resource
\* records is its account for life.
NameIsForLife ==
    [][\A n \in CloudPrincipals :
         api[n].exists /\ IsManaged(api[n]) /\ api[n].status.recorded # {} /\ api'[n].uid = api[n].uid
         => RecordedNames(api[n])' = RecordedNames(api[n])]_vars

Serviceable(n) ==
    /\ api[n].exists /\ ~api[n].deleting
    /\ Obstacle(n, api[n]) = "None"
    /\ IsManaged(api[n]) \/ Found(api[n])

\* Left alone, a resource that nothing stands in the way of becomes Ready, with
\* its account in the cloud and in its status.
Converges ==
    <>[](\A n \in CloudPrincipals :
           Serviceable(n) =>
             /\ api[n].status.reason = "Reconciled"
             /\ api[n].status.gen = api[n].gen
             /\ api[n].status.recorded = {Want(api[n])}
             /\ IsManaged(api[n]) => accounts[api[n].spec.name] = "taken")

\* ... and one whose deletion was requested goes away, unless a reference or the
\* ProviderConfig stands in the way.
DeletionCompletes ==
    <>[](\A n \in CloudPrincipals :
           api[n].exists /\ api[n].deleting
           => n \in referenced \/ (provider # "ok" /\ ShouldBeDeleted(api[n])))
===============================================================================
