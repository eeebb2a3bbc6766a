-------------------------- MODULE CloudPrincipalAuth --------------------------
(***************************************************************************)
(* The CloudPrincipalAuth controller: custom resources that give a managed *)
(* CloudPrincipal a way to authenticate.  With StaticCredentials it is a   *)
(* key of the cloud, whose secret half the cloud tells once, kept in a     *)
(* Secret; with WorkloadIdentity it is a binding in the cloud and an       *)
(* annotation of a Kubernetes ServiceAccount.                              *)
(*                                                                         *)
(* internal/controller/cloudprincipal_auth_controller.go,                  *)
(* principal_auth.go and the key calls of principal_api.go and helpers.go  *)
(* in internal/cloud/gcp and yc, CreateOrUpdateOwned and RemoveAllOwnerRefs *)
(* of internal/helpers, internal/resolvers/cloud_principal_auth.go.        *)
(***************************************************************************)
EXTENDS KubeObject

CONSTANTS
    CloudPrincipalAuths, \* names of CloudPrincipalAuth resources
    Settings,            \* what a run may be about, and its bounds
    PrincipalPhases,     \* phases the environment moves the CloudPrincipal to
    ProviderPhases       \* phases the environment moves the ProviderConfig to

\* cloud is the provider, and method the spec.method of every resource, which is
\* immutable.  Bounds: edits, the actions of users and of the environment; faults,
\* the failed calls and crashes of the controller; lags, the reads of a Secret the
\* informer is late with; keys, the keys created, after which the quota is reached.
ASSUME ConstantsAssumption ==
    /\ \A s \in Settings :
         s \in [cloud: {"gcp", "yc"}, method: {"StaticCredentials", "WorkloadIdentity"},
                edits: Nat, faults: Nat, lags: Nat, keys: Nat]
    /\ PrincipalPhases \subseteq {"ready", "notReady", "absent", "deleting", "reference"}
    /\ ProviderPhases \subseteq
         {"ok", "absent", "notReady", "factoryError", "restricted"}

VARIABLES
    api, cache, watch, queue, pc, obj, plan, budget,  \* as in Reconciler
    setting,        \* the setting chosen for the run
    principal,      \* what prepareCloudPrincipal says of the CloudPrincipal
    provider,       \* what prepareProvider and the usage policy say
    live,           \* the keys and the binding of each resource in the cloud
    young,          \* the last key while the grace period runs and gcp may not show it
    lost,           \* keys the controller was never told of, or told were gone
    inherited,      \* what earlier resources of the name left in the cloud
    secret,         \* the Secret that spec.staticCredentials.secretRef names
    cachedSecret,   \* the informer's copy of it
    secretNews,     \* whether the informer has events of it to deliver
    serviceAccount  \* the ServiceAccount that spec.workloadIdentity names

secrets == <<secret, cachedSecret, secretNews>>
keys == <<live, young, lost, inherited>>
environment == <<setting, principal, provider>>
worker == <<keys, secrets, serviceAccount>>

vars == <<api, cache, watch, queue, pc, obj, plan, budget, worker, environment>>

-------------------------------------------------------------------------------
(* Data. *)

\* policy is the deletionPolicy of the method's own part of the spec.
Specs == [method: {"StaticCredentials", "WorkloadIdentity"}, policy: {"Delete", "Retain"}]

\* The id of a workload identity binding, which is made of names only; the
\* cloud numbers the keys.
Binding == 0
Ids == {Binding} \union UNION {1 .. s.keys : s \in Settings}

\* status.applied; ref stands for its secretRef or serviceAccountRef, createdAt
\* is in young, and the principal is the same for life.
Applieds == [id: Ids, ref: BOOLEAN]

Reasons == {"None", "Reconciled", "DependencyNotReady", "ProviderIssue",
            "SpecRestricted", "UnsupportedFeatures", "EnsureError",
            "CredentialsError", "DeleteError", "RemoveFinalizerError"}

\* configured is the condition StaticCredentialsConfigured or
\* WorkloadIdentityConfigured, reason and gen are of the condition Ready.
Statuses == [applied: {{}} \union {{r} : r \in Applieds},
             configured: {"None", "True", "False"}, reason: Reasons, gen: Nat]

NoStatus == [applied |-> {}, configured |-> "None", reason |-> "None", gen |-> 0]

Objects == Versions(Specs, Statuses)

NoObject == NeverCreated(CHOOSE s \in Specs : TRUE, NoStatus)

PCs == {"idle", "addFinalizer", "check", "get", "create", "secret", "emptySecret",
        "settle", "dropKey", "patchKey", "serviceAccount", "annotate", "patch",
        "prepareDelete", "disown", "deleteKey", "unannotate", "noteAbsent",
        "noteFailure", "release", "report"}

Plans == [reason: Reasons, retry: BOOLEAN]

NoPlan == [reason |-> "None", retry |-> FALSE]

INSTANCE Reconciler WITH Names <- CloudPrincipalAuths

\* key 0: a Secret without data.  managed: its data was last set by server-side
\* apply, so that applying no data removes it.  owner: the uid of its controller,
\* 0 for none.
Secrets == [exists: BOOLEAN, owner: Nat, key: Ids, managed: BOOLEAN]

NoSecret == [exists |-> FALSE, owner |-> 0, key |-> 0, managed |-> FALSE]

\* What a user keeps in a Secret of his own is nobody else's business.
ForeignSecret == [NoSecret EXCEPT !.exists = TRUE]

TypeOK ==
    /\ api \in [CloudPrincipalAuths -> Objects]
    /\ cache \in [CloudPrincipalAuths -> Objects]
    /\ watch \in [CloudPrincipalAuths -> SUBSET Objects]
    /\ queue \subseteq CloudPrincipalAuths
    /\ pc \in [CloudPrincipalAuths -> PCs]
    /\ obj \in [CloudPrincipalAuths -> Objects]
    /\ plan \in [CloudPrincipalAuths -> Plans]
    /\ budget \in [edits: Nat, faults: Nat, lags: Nat, keys: Nat]
    /\ setting \in Settings
    /\ principal \in {"ready", "notReady", "absent", "deleting", "reference"}
    /\ provider \in {"ok", "absent", "notReady", "factoryError", "restricted"}
    /\ live \in [CloudPrincipalAuths -> SUBSET Ids]
    /\ young \in [CloudPrincipalAuths -> SUBSET Ids]
    /\ lost \in [CloudPrincipalAuths -> SUBSET Ids]
    /\ inherited \in [CloudPrincipalAuths -> SUBSET Ids]
    /\ secret \in [CloudPrincipalAuths -> Secrets]
    /\ cachedSecret \in [CloudPrincipalAuths -> Secrets]
    /\ secretNews \in [CloudPrincipalAuths -> {"none", "quiet", "wakes"}]
    /\ serviceAccount \in [CloudPrincipalAuths -> {"absent", "plain", "annotated"}]

RecordedIds(o) == {r.id : r \in o.status.applied}

\* The credentials a reconcile has in hand.
Id(n) == CHOOSE k \in RecordedIds(obj[n]) : TRUE

HasRef(o) == \E r \in o.status.applied : r.ref

IsStatic(o) == o.spec.method = "StaticCredentials"

SpecsOfSetting == {s \in Specs : s.method = setting.method}

-------------------------------------------------------------------------------
(* The operator starts on resources created while it was away; a Secret of the *)
(* name they ask for may be there already.                                     *)

Init ==
    /\ setting \in Settings
    /\ \E s \in [CloudPrincipalAuths -> SpecsOfSetting] :
         api = [n \in CloudPrincipalAuths |-> Created(NoObject, s[n], NoStatus)]
    /\ cache = api
    /\ watch = [n \in CloudPrincipalAuths |-> {}]
    /\ queue = CloudPrincipalAuths
    /\ pc = [n \in CloudPrincipalAuths |-> "idle"]
    /\ obj = [n \in CloudPrincipalAuths |-> NoObject]
    /\ plan = [n \in CloudPrincipalAuths |-> NoPlan]
    /\ budget = [edits |-> setting.edits, faults |-> setting.faults,
                 lags |-> setting.lags, keys |-> setting.keys]
    /\ principal = "ready"
    /\ provider = "ok"
    /\ live = [n \in CloudPrincipalAuths |-> {}]
    /\ young = live
    /\ lost = live
    /\ inherited = live
    /\ secret \in [CloudPrincipalAuths -> {NoSecret, ForeignSecret}]
    /\ cachedSecret = secret
    /\ secretNews = [n \in CloudPrincipalAuths |-> "none"]
    /\ serviceAccount = [n \in CloudPrincipalAuths |-> "plain"]

-------------------------------------------------------------------------------
(* The Secret in the API server, and the informer's copy of it. *)

\* Owns: events of a Secret wake the resource that owned it before or after.
WriteSecret(n, s) ==
    /\ secret' = [secret EXCEPT ![n] = s]
    /\ secretNews' = [secretNews EXCEPT ![n] =
         IF s = secret[n] THEN @
         ELSE IF @ = "wakes" \/ s.owner # 0 \/ secret[n].owner # 0 THEN "wakes"
         ELSE "quiet"]
    /\ UNCHANGED cachedSecret

\* The informer's copy: late, or the current one.
ReadSecret(n) ==
    IF cachedSecret[n] = secret[n]
      THEN UNCHANGED budget
      ELSE budget.lags > 0 /\ budget' = [budget EXCEPT !.lags = @ - 1]

DeliverSecret(n) ==
    /\ secretNews[n] # "none"
    /\ cachedSecret' = [cachedSecret EXCEPT ![n] = secret[n]]
    /\ secretNews' = [secretNews EXCEPT ![n] = "none"]
    /\ Wake(IF secretNews[n] = "wakes" THEN {n} ELSE {})
    /\ UNCHANGED <<budget, secret, keys, serviceAccount, environment>>

\* The garbage collector removes what is left of an owner that is gone.
CollectGarbage(n) ==
    /\ secret[n].owner # 0
    /\ ~(api[n].exists /\ api[n].uid = secret[n].owner)
    /\ WriteSecret(n, NoSecret)
    /\ Wake({})
    /\ UNCHANGED <<budget, keys, serviceAccount, environment>>

-------------------------------------------------------------------------------
(* Users and the environment. *)

Create(n) ==
    /\ \E s \in SpecsOfSetting : Post(n, s, NoStatus)
    /\ inherited' = [inherited EXCEPT ![n] = live[n]]
    /\ UNCHANGED <<live, young, lost, secrets, serviceAccount, environment>>

EditSpec(n) ==
    /\ \E s \in SpecsOfSetting \ {api[n].spec} : Put(n, s)
    /\ UNCHANGED <<worker, environment>>

RequestDeletion(n) ==
    /\ Delete(n)
    /\ UNCHANGED <<worker, environment>>

\* A user deletes the Secret, or what is in it.
TamperWithSecret(n) ==
    /\ secret[n].exists
    /\ \/ WriteSecret(n, NoSecret)
       \/ secret[n].key # 0 /\ WriteSecret(n, [secret[n] EXCEPT !.key = 0])
    /\ Wake({})
    /\ SpendEdit
    /\ UNCHANGED <<keys, serviceAccount, environment>>

\* For a controller that does not watch ServiceAccounts.
NoDependantsOfServiceAccount(n) == {}

\* findCloudPrincipalAuthsOfServiceAccount.
DependantsOfServiceAccount(n) ==
    {m \in {n} : cache[m].exists /\ cache[m].spec.method = "WorkloadIdentity"}

\* A user deletes the ServiceAccount or makes it again.
ServiceAccountChanges(n) ==
    /\ serviceAccount' = [serviceAccount EXCEPT ![n] =
         IF @ = "absent" THEN "plain" ELSE "absent"]
    /\ Wake(DependantsOfServiceAccount(n))
    /\ SpendEdit
    /\ UNCHANGED <<keys, secrets, environment>>

\* findCloudPrincipalAuthsOfCloudPrincipal.
DependantsOfPrincipal == {n \in CloudPrincipalAuths : cache[n].exists}

PrincipalChanges ==
    /\ \E p \in PrincipalPhases \ {principal} : principal' = p
    /\ Wake(DependantsOfPrincipal)
    /\ SpendEdit
    /\ UNCHANGED <<worker, setting, provider>>

\* findCloudPrincipalAuthsOfProviderConfig goes by way of the CloudPrincipals.
DependantsOfProvider == IF principal = "absent" THEN {} ELSE DependantsOfPrincipal

ProviderChanges ==
    /\ \E p \in ProviderPhases \ {provider} : provider' = p
    /\ Wake(DependantsOfProvider)
    /\ SpendEdit
    /\ UNCHANGED <<worker, setting, principal>>

\* gcpKeyPropagationGracePeriod passes.
Age(n) ==
    /\ \E k \in young[n] : young' = [young EXCEPT ![n] = @ \ {k}]
    /\ Wake({})
    /\ UNCHANGED <<budget, live, lost, inherited, secrets, serviceAccount, environment>>

-------------------------------------------------------------------------------
(* The reconcile, which reads the resource from the API server itself. *)

Deliver(n) == Inform(n) /\ UNCHANGED <<budget, worker, environment>>

Start(n) == Begin(n, api[n]) /\ UNCHANGED <<budget, worker, environment>>

AddFinalizer(n) == Claim(n) /\ UNCHANGED <<budget, worker, environment>>

\* prepareCloudPrincipal, prepareProvider, CheckPrincipalAuth and
\* ValidatePrincipalAuthCapabilities: what stops the reconcile, or "None".
Obstacle(o) ==
    CASE principal \in {"absent", "notReady", "reference"}       -> "DependencyNotReady"
      [] provider \in {"absent", "notReady", "factoryError"}     -> "ProviderIssue"
      [] provider = "restricted"                                 -> "SpecRestricted"
      [] setting.cloud = "yc" /\ ~IsStatic(o)                    -> "UnsupportedFeatures"
      [] OTHER                                                   -> "None"

Check(n) ==
    /\ pc[n] = "check" /\ principal # "deleting"
    /\ \/ Obstacle(obj[n]) = "None" /\ Proceed(n, "get")
       \/ /\ Obstacle(obj[n]) # "None"
          /\ Reporting(n, Obstacle(obj[n]),
                       Obstacle(obj[n]) = "ProviderIssue" /\ provider = "factoryError")
    /\ UNCHANGED <<budget, worker, environment>>

\* A resource goes with its CloudPrincipal once it has credentials of it.
DeleteSelfIfProvisioned(n) ==
    /\ pc[n] = "check" /\ principal = "deleting"
    /\ IF api[n].exists /\ ~api[n].deleting /\ obj[n].status.applied # {}
         THEN Commit(n, DeletionRequested(api[n]))
         ELSE UNCHANGED <<api, watch>>
    /\ Finish(n, FALSE)
    /\ UNCHANGED <<cache, budget, worker, environment>>

\* The resource goes with its CloudPrincipal.
DeleteSelf(n) ==
    /\ pc[n] = "check" /\ principal = "deleting"
    /\ IF api[n].exists /\ ~api[n].deleting
         THEN Commit(n, DeletionRequested(api[n]))
         ELSE UNCHANGED <<api, watch>>
    /\ Finish(n, FALSE)
    /\ UNCHANGED <<cache, budget, worker, environment>>

-------------------------------------------------------------------------------
(* EnsureAuthentication. *)

\* What the cloud answers when asked for a key: gcp may not know a young one yet.
Answers(n, k) ==
    (IF k \in live[n] THEN {"found"} ELSE {"notFound"})
      \union (IF k \in young[n] THEN {"notFound"} ELSE {})

\* What the controller does with credentials that were there already.
WithEnsured(n) ==
    IF ~IsStatic(obj[n]) THEN ProceedWith(n, obj[n], "serviceAccount")
    ELSE IF obj[n].status.configured # "None" THEN ProceedWith(n, obj[n], "settle")
    ELSE ProceedWith(n, [obj[n] EXCEPT !.status.applied = {[id |-> Id(n), ref |-> FALSE]}],
                     "emptySecret")

\* withinGracePeriod: a key that was made just now is taken to be there.
Forgives(n) == IsStatic(obj[n]) /\ Id(n) \in young[n]

Get(n) ==
    /\ pc[n] = "get"
    /\ \/ /\ obj[n].status.applied = {}
          /\ Proceed(n, "create")
       \/ /\ obj[n].status.applied # {}
          /\ \E answer \in Answers(n, Id(n)) :
               IF answer = "found" \/ Forgives(n) THEN WithEnsured(n)
                                                  ELSE Proceed(n, "create")
    /\ UNCHANGED <<budget, worker, environment>>

NextKey == setting.keys - budget.keys + 1

Applying(n, k) == [obj[n] EXCEPT !.status.applied = {[id |-> k, ref |-> FALSE]}]

\* CreatePrincipalAuth, within the quota of keys.
CreateKey(n) ==
    /\ pc[n] = "create" /\ IsStatic(obj[n]) /\ budget.keys > 0
    /\ live' = [live EXCEPT ![n] = @ \union {NextKey}]
    /\ young' = [young EXCEPT ![n] = IF setting.cloud = "gcp" THEN {NextKey} ELSE {}]
    /\ budget' = [budget EXCEPT !.keys = @ - 1]
    /\ ProceedWith(n, Applying(n, NextKey), "secret")
    /\ UNCHANGED <<lost, inherited, secrets, serviceAccount, environment>>

ReachQuota(n) ==
    /\ pc[n] = "create" /\ IsStatic(obj[n]) /\ budget.keys = 0
    /\ Reporting(n, "EnsureError", TRUE)
    /\ UNCHANGED <<budget, worker, environment>>

\* Granting the binding is idempotent; what is recorded already stays.
Bind(n) ==
    /\ pc[n] = "create" /\ ~IsStatic(obj[n])
    /\ live' = [live EXCEPT ![n] = @ \union {Binding}]
    /\ ProceedWith(n, IF obj[n].status.applied = {} THEN Applying(n, Binding) ELSE obj[n],
                   "serviceAccount")
    /\ UNCHANGED <<budget, young, lost, inherited, secrets, serviceAccount, environment>>

-------------------------------------------------------------------------------
(* ensureWorkloadIdentity and reconcileServiceAccount. *)

\* The in-memory object with the outcome of the reconcile.
Concluding(n, ref, configured, reason) ==
    [obj[n] EXCEPT !.status = [applied |-> {[r EXCEPT !.ref = ref] : r \in @.applied},
                               configured |-> configured,
                               reason |-> reason, gen |-> obj[n].gen]]

\* It is patched, and the reconcile returns.
Conclude(n, o, retry, step) ==
    /\ obj' = [obj EXCEPT ![n] = o]
    /\ plan' = [plan EXCEPT ![n].retry = retry]
    /\ GoTo(n, step)
    /\ UNCHANGED <<api, cache, watch, queue>>

FindServiceAccount(n) ==
    /\ pc[n] = "serviceAccount"
    /\ IF serviceAccount[n] # "absent"
         THEN Proceed(n, "annotate")
         ELSE Conclude(n, Concluding(n, HasRef(obj[n]), "False", "CredentialsError"), FALSE, "patch")
    /\ UNCHANGED <<budget, worker, environment>>

\* Server-side apply, without the right to create a ServiceAccount.
Annotate(n) ==
    /\ pc[n] = "annotate"
    /\ IF serviceAccount[n] # "absent"
         THEN /\ serviceAccount' = [serviceAccount EXCEPT ![n] = "annotated"]
              /\ Conclude(n, Concluding(n, TRUE, "True", "Reconciled"), FALSE, "patch")
         ELSE /\ UNCHANGED serviceAccount
              /\ Conclude(n, Concluding(n, HasRef(obj[n]), "False", "CredentialsError"), TRUE, "patch")
    /\ UNCHANGED <<budget, keys, secrets, environment>>

-------------------------------------------------------------------------------
(* ensureStaticCredentials, reconcileSecret and CreateOrUpdateOwned. *)

\* Create when the informer has no such Secret; else apply, which makes it if it
\* is gone and is refused when another incarnation of the resource controls it.
SecretAccepts(n) ==
    IF ~cachedSecret[n].exists THEN ~secret[n].exists
    ELSE /\ cachedSecret[n].owner # 0
         /\ secret[n].exists => secret[n].owner \in {0, obj[n].uid}

\* Data that is there stays.
SecretWithOldData(n, k) ==
    [exists |-> TRUE, owner |-> obj[n].uid, key |-> IF secret[n].key # 0 THEN secret[n].key ELSE k,
     managed |-> cachedSecret[n].exists]

\* Applying no data removes only data that was applied.
SecretWith(n, k) ==
    IF ~cachedSecret[n].exists \/ k # 0 \/ ~secret[n].exists \/ secret[n].managed
      THEN [exists |-> TRUE, owner |-> obj[n].uid, key |-> k,
            managed |-> cachedSecret[n].exists]
      ELSE [secret[n] EXCEPT !.owner = obj[n].uid]

\* The data of the Secret: the key just created, or none when the reconcile
\* found the key there but no condition in the status.
DataInHand(n) == IF pc[n] = "secret" THEN Id(n) ELSE 0

StoreKey(n) ==
    /\ pc[n] \in {"secret", "emptySecret"}
    /\ ReadSecret(n)
    /\ IF SecretAccepts(n)
         THEN /\ WriteSecret(n, SecretWith(n, DataInHand(n)))
              /\ Conclude(n, Concluding(n, TRUE, "True", "Reconciled"), FALSE, "patchKey")
         ELSE /\ UNCHANGED secrets
              /\ Conclude(n, Concluding(n, FALSE, "False", "CredentialsError"), TRUE, "patchKey")
    /\ UNCHANGED <<keys, serviceAccount, environment>>

\* Credentials that were there: whether the Secret still is.
Settle(n) ==
    /\ pc[n] = "settle"
    /\ \/ ~HasRef(obj[n]) /\ Proceed(n, "dropKey") /\ UNCHANGED budget
       \/ /\ HasRef(obj[n])
          /\ ReadSecret(n)
          /\ IF cachedSecret[n].exists /\ cachedSecret[n].key # 0
               THEN Conclude(n, Concluding(n, TRUE, obj[n].status.configured, "Reconciled"),
                             FALSE, "patch")
               ELSE Proceed(n, "dropKey")
    /\ UNCHANGED <<worker, environment>>

-------------------------------------------------------------------------------
(* DeleteAuthentication: what the cloud does not find counts as deleted, and   *)
(* gcp may not find a young key.                                               *)

Forget(n, k) ==
    \/ /\ live' = [live EXCEPT ![n] = @ \ {k}]
       /\ UNCHANGED <<young, lost, inherited>>
    \/ /\ k \in young[n] \intersect live[n]
       /\ lost' = [lost EXCEPT ![n] = @ \union {k}]
       /\ UNCHANGED <<live, young, inherited>>

\* cloudCredsDeleter: the reconcile runs again a second later.
DropKey(n) ==
    /\ pc[n] = "dropKey"
    /\ Forget(n, Id(n))
    /\ Return(n, TRUE)
    /\ UNCHANGED <<budget, secrets, serviceAccount, environment>>

-------------------------------------------------------------------------------
(* patchStatus: the fields of applied merge one by one, the list of conditions *)
(* is replaced.                                                                *)

\* What the patch says of a field that both statuses have.
MergedField(base, new, current) == IF new = base THEN current ELSE new

\* A merge in which what is recorded is only ever added to.
MergedAppliedUnion(base, new, current) == current \union new

\* An omitted secretRef is no field of the patch when there was no applied.
MergedApplied(base, new, current) ==
    IF new = base THEN current
    ELSE IF current = {} THEN new
    ELSE IF base = {}
      THEN {[id |-> r.id, ref |-> r.ref \/ c.ref] : r \in new, c \in current}
      ELSE {[id |-> MergedField(b.id, r.id, c.id), ref |-> MergedField(b.ref, r.ref, c.ref)] :
              b \in base, r \in new, c \in current}

Merged(base, new, current) ==
    LET conditions(s) == <<s.configured, s.reason, s.gen>>
        from == IF conditions(new) = conditions(base) THEN current ELSE new
    IN [applied |-> MergedApplied(base.applied, new.applied, current.applied),
        configured |-> from.configured, reason |-> from.reason, gen |-> from.gen]

\* A patch of some fields of applied makes no valid object where there are none.
Invalid(n, new) ==
    /\ cache[n].status.applied # {} /\ api[n].status.applied = {}
    /\ new.applied # cache[n].status.applied

Refused(n, new) == PatchRefused(n, new) \/ Invalid(n, new)

\* The status is patched, and the reconcile returns.
Patch(n, new, retry) ==
    IF Invalid(n, new)
      THEN Return(n, TRUE)
      ELSE PatchStatus(n, new, Merged(cache[n].status, new, api[n].status), retry)

\* The keys made for the resource that are in the cloud and not in its status.
Unrecorded(n) ==
    {k \in live[n] \ inherited[n] : k # Binding /\ k \notin RecordedIds(api[n])}

\* A key the controller could neither record nor delete.
PatchConclusion(n) ==
    /\ pc[n] = "patch"
    /\ Patch(n, obj[n].status, plan[n].retry)
    /\ lost' = IF Refused(n, obj[n].status)
                 THEN [lost EXCEPT ![n] = @ \union Unrecorded(n)] ELSE lost
    /\ UNCHANGED <<budget, live, young, inherited, secrets, serviceAccount, environment>>

\* A new key that could not be recorded is left to the next reconcile.
RecordKeyOrRetry(n) ==
    /\ pc[n] = "patchKey"
    /\ Patch(n, obj[n].status, plan[n].retry)
    /\ UNCHANGED <<budget, worker, environment>>

\* A new key that could not be recorded is deleted.
RecordKey(n) ==
    /\ pc[n] = "patchKey"
    /\ IF Refused(n, obj[n].status) THEN Proceed(n, "dropKey")
                                    ELSE Patch(n, obj[n].status, plan[n].retry)
    /\ UNCHANGED <<budget, worker, environment>>

\* A patch of the condition Ready only.
Report(n) ==
    /\ pc[n] = "report"
    /\ Patch(n, [cache[n].status EXCEPT !.reason = plan[n].reason, !.gen = obj[n].gen],
             plan[n].retry)
    /\ UNCHANGED <<budget, worker, environment>>

-------------------------------------------------------------------------------
(* deleteCloudPrincipalAuth. *)

ShouldBeDeleted(o) == o.spec.policy = "Delete"

\* A deletion that counts on the garbage collector where no Secret is recorded.
FirstDeletionStepWithRef(o) ==
    IF ~HasRef(o) THEN "release"
    ELSE IF ShouldBeDeleted(o) THEN "deleteKey"
    ELSE IF IsStatic(o) THEN "disown" ELSE "release"

\* A deletion that leaves what is retained alone.
FirstDeletionStepRetaining(o) ==
    IF o.status.applied # {} /\ ShouldBeDeleted(o) THEN "deleteKey" ELSE "release"

\* What the deletion of resource o has to do first.
FirstDeletionStep(o) ==
    IF o.status.applied = {} THEN "release"
    ELSE IF ShouldBeDeleted(o) THEN "deleteKey"
    ELSE IF IsStatic(o) /\ HasRef(o) THEN "disown"
    ELSE "release"

PrepareDelete(n) ==
    LET step == FirstDeletionStep(obj[n])
    IN /\ pc[n] = "prepareDelete"
       /\ \/ step # "deleteKey" /\ Proceed(n, step)
          \/ step = "deleteKey" /\ provider = "ok" /\ Proceed(n, step)
          \/ /\ step = "deleteKey" /\ provider = "restricted"
             /\ Reporting(n, "RemoveFinalizerError", FALSE)
          \/ /\ step = "deleteKey" /\ provider \notin {"ok", "restricted"}
             /\ Return(n, TRUE)
       /\ UNCHANGED <<budget, worker, environment>>

\* RemoveAllOwnerRefs, with the version the informer has.
Disown(n) ==
    /\ pc[n] = "disown"
    /\ ReadSecret(n)
    /\ \/ /\ ~cachedSecret[n].exists
          /\ Proceed(n, "release")
          /\ UNCHANGED secrets
       \/ /\ cachedSecret[n].exists /\ cachedSecret[n] = secret[n]
          /\ WriteSecret(n, [secret[n] EXCEPT !.owner = 0])
          /\ Proceed(n, "release")
       \/ /\ cachedSecret[n].exists /\ cachedSecret[n] # secret[n]
          /\ Return(n, TRUE)
          /\ UNCHANGED secrets
    /\ UNCHANGED <<keys, serviceAccount, environment>>

DeleteKey(n) ==
    /\ pc[n] = "deleteKey"
    /\ Forget(n, Id(n))
    /\ Proceed(n, IF ~IsStatic(obj[n]) /\ HasRef(obj[n]) THEN "unannotate" ELSE "release")
    /\ UNCHANGED <<budget, secrets, serviceAccount, environment>>

\* reconcileServiceAccount with a patch that applies no annotation.  That there
\* is no ServiceAccount is noted, and no reason to stay.
Unannotate(n) ==
    /\ pc[n] = "unannotate"
    /\ IF serviceAccount[n] # "absent"
         THEN /\ serviceAccount' = [serviceAccount EXCEPT ![n] = "plain"]
              /\ Proceed(n, "release")
         ELSE /\ UNCHANGED serviceAccount
              /\ Proceed(n, "noteAbsent")
    /\ UNCHANGED <<budget, keys, secrets, environment>>

\* A patch of the conditions only.
Note(n) ==
    LET new == [cache[n].status EXCEPT !.configured = "False",
                                       !.reason = "CredentialsError", !.gen = obj[n].gen]
    IN /\ \/ pc[n] = "noteFailure" /\ Patch(n, new, TRUE)
          \/ pc[n] = "noteAbsent" /\ Refused(n, new) /\ Return(n, TRUE)
          \/ /\ pc[n] = "noteAbsent" /\ ~Refused(n, new)
             /\ SendPatch(n, new, Merged(cache[n].status, new, api[n].status))
             /\ GoTo(n, "release")
             /\ UNCHANGED <<cache, queue, obj, plan>>
       /\ UNCHANGED <<budget, worker, environment>>

RemoveFinalizerBlindly(n) == ReleaseBlindly(n) /\ UNCHANGED <<budget, worker, environment>>

RemoveFinalizer(n) == Release(n) /\ UNCHANGED <<budget, worker, environment>>

-------------------------------------------------------------------------------
(* Failures. *)

\* A request to the API server fails.  The patch that records a key and the
\* write of the Secret may have had their effect all the same.
ApiCallFails(n) ==
    /\ \/ /\ pc[n] \in {"addFinalizer", "report", "disown", "noteAbsent", "noteFailure",
                        "release"}
          /\ Return(n, TRUE)
          /\ UNCHANGED worker
       \/ /\ pc[n] = "check" /\ principal = "deleting"
          /\ Return(n, TRUE)
          /\ UNCHANGED worker
       \/ /\ pc[n] = "patch"
          /\ Return(n, TRUE)
          /\ lost' = [lost EXCEPT ![n] = @ \union Unrecorded(n)]
          /\ UNCHANGED <<live, young, inherited, secrets, serviceAccount>>
       \/ /\ pc[n] = "patchKey"
          /\ \/ UNCHANGED <<api, watch>>
             \/ /\ ~Refused(n, obj[n].status)
                /\ SendPatch(n, obj[n].status,
                             Merged(cache[n].status, obj[n].status, api[n].status))
          /\ GoTo(n, "dropKey")
          /\ UNCHANGED <<cache, queue, obj, plan, worker>>
       \/ /\ pc[n] \in {"secret", "emptySecret"}
          /\ \/ UNCHANGED secrets
             \/ SecretAccepts(n) /\ WriteSecret(n, SecretWith(n, DataInHand(n)))
          /\ Conclude(n, Concluding(n, FALSE, "False", "CredentialsError"), TRUE, "patchKey")
          /\ UNCHANGED <<keys, serviceAccount>>
       \/ /\ pc[n] = "annotate"
          /\ Conclude(n, Concluding(n, HasRef(obj[n]), "False", "CredentialsError"), TRUE, "patch")
          /\ UNCHANGED worker
       \/ /\ pc[n] = "unannotate"
          /\ Proceed(n, "noteFailure")
          /\ UNCHANGED worker
    /\ SpendFault
    /\ UNCHANGED environment

\* A request to the cloud fails, with or without its effect.
CloudCallFails(n) ==
    /\ \/ /\ pc[n] = "get"
          /\ Reporting(n, "EnsureError", TRUE)
          /\ UNCHANGED keys
       \/ /\ pc[n] = "create" /\ (IsStatic(obj[n]) => budget.keys > 0)
          /\ Reporting(n, "EnsureError", TRUE)
          /\ \/ UNCHANGED keys
             \/ /\ IsStatic(obj[n])
                /\ live' = [live EXCEPT ![n] = @ \union {NextKey}]
                /\ lost' = [lost EXCEPT ![n] = @ \union {NextKey}]
                /\ UNCHANGED <<young, inherited>>
             \/ /\ ~IsStatic(obj[n])
                /\ live' = [live EXCEPT ![n] = @ \union {Binding}]
                /\ UNCHANGED <<young, lost, inherited>>
       \/ /\ pc[n] = "dropKey"
          /\ Conclude(n, [obj[n] EXCEPT !.status.reason = "DeleteError"], TRUE, "patch")
          /\ UNCHANGED keys \/ Forget(n, Id(n))
       \/ /\ pc[n] = "deleteKey"
          /\ Reporting(n, "DeleteError", TRUE)
          /\ UNCHANGED keys \/ Forget(n, Id(n))
    /\ budget.faults > 0
    /\ budget' = [budget EXCEPT !.faults = @ - 1,
                                !.keys = IF NextKey \in live'[n] THEN @ - 1 ELSE @]
    /\ UNCHANGED <<secrets, serviceAccount, environment>>

\* A key created and not recorded is lost with the process.
Crash ==
    /\ Restart
    /\ lost' = [n \in CloudPrincipalAuths |-> lost[n] \union Unrecorded(n)]
    /\ cachedSecret' = secret
    /\ secretNews' = [n \in CloudPrincipalAuths |-> "none"]
    /\ SpendFault
    /\ UNCHANGED <<live, young, inherited, secret, serviceAccount, environment>>

-------------------------------------------------------------------------------

User(n) ==
    \/ Create(n) \/ EditSpec(n) \/ RequestDeletion(n)
    \/ TamperWithSecret(n) \/ ServiceAccountChanges(n)

Reconcile(n) ==
    \/ AddFinalizer(n) \/ Check(n) \/ DeleteSelf(n) \/ Get(n)
    \/ CreateKey(n) \/ ReachQuota(n) \/ Bind(n)
    \/ FindServiceAccount(n) \/ Annotate(n)
    \/ StoreKey(n) \/ Settle(n) \/ DropKey(n)
    \/ PatchConclusion(n) \/ RecordKey(n) \/ Report(n)
    \/ PrepareDelete(n) \/ Disown(n) \/ DeleteKey(n) \/ Unannotate(n) \/ Note(n)
    \/ RemoveFinalizer(n)

Next ==
    \/ \E n \in CloudPrincipalAuths :
         \/ User(n) \/ Age(n)
         \/ Deliver(n) \/ DeliverSecret(n) \/ CollectGarbage(n)
         \/ Start(n) \/ Reconcile(n)
         \/ ApiCallFails(n) \/ CloudCallFails(n)
    \/ PrincipalChanges \/ ProviderChanges
    \/ Crash

Spec == Init /\ [][Next]_vars

\* As for BucketAccess; besides, time passes, and the garbage collector works.
Fairness ==
    \A n \in CloudPrincipalAuths :
      /\ WF_vars(Deliver(n)) /\ WF_vars(DeliverSecret(n))
      /\ SF_vars(Start(n))
      /\ WF_vars(Reconcile(n))
      /\ WF_vars(CollectGarbage(n)) /\ WF_vars(Age(n))

FairSpec == Spec /\ Fairness

-------------------------------------------------------------------------------
(* Properties. *)

\* No reconcile forgets a key: one made for the resource that is in the cloud and
\* in no status is in the hands of the worker, or was lost to a crash, to an answer
\* of the cloud that did not arrive or was wrong, or to a deletion and a patch that
\* both failed.
KeysTracked ==
    \A n \in CloudPrincipalAuths :
      Unrecorded(n) \subseteq lost[n] \union RecordedIds(obj[n])

\* A resource that left the API server under deletionPolicy Delete leaves nothing
\* it recorded: no key, unless the cloud denied having it, no binding, and no
\* annotation.
ReleasedMeansDeleted ==
    \A n \in CloudPrincipalAuths :
      ~api[n].exists /\ ShouldBeDeleted(api[n])
      => /\ RecordedIds(api[n]) \intersect live[n] \subseteq lost[n]
         /\ ~IsStatic(api[n]) /\ HasRef(api[n]) => serviceAccount[n] # "annotated"

\* The informer was never late with the Secret, and nothing failed.
Undisturbed == budget.lags = setting.lags /\ budget.faults = setting.faults

\* ... or one thing failed, on yc, with one action of a user at the most.
Recovering ==
    /\ budget.lags = setting.lags /\ budget.faults = setting.faults - 1
    /\ setting.cloud = "yc" /\ setting.edits <= 1

\* No reconcile is under way or due.
AtRest(n) == pc[n] = "idle" /\ n \notin queue /\ watch[n] = {}

Ready(n) ==
    /\ api[n].exists /\ ~api[n].deleting
    /\ api[n].status.reason = "Reconciled"
    /\ api[n].status.gen = api[n].gen

\* "SecretRef identifies the Kubernetes Secret containing static credentials": once
\* a Ready resource is left in peace, the data in the Secret is of the key that
\* status.applied records.
SecretHoldsRecordedKey ==
    \A n \in CloudPrincipalAuths :
      Ready(n) /\ AtRest(n) /\ IsStatic(api[n]) /\ secret[n].key # 0
      => secret[n].key \in RecordedIds(api[n])

\* ... provided nothing failed and the informer of Secrets kept up.
SecretHoldsRecordedKeyUndisturbed == Undisturbed => SecretHoldsRecordedKey

\* A retained resource leaves its Secret to nobody: the garbage collector would
\* take it, and with it the only copy of a key that lives on.
RetainedMeansDisowned ==
    \A n \in CloudPrincipalAuths :
      /\ budget.lags = setting.lags
      /\ ~api[n].exists /\ ~ShouldBeDeleted(api[n]) /\ HasRef(api[n])
      => secret[n].owner # api[n].uid

\* The controller keeps the promise of FinalizerProtocol.
Protocol == INSTANCE FinalizerProtocol WITH
    Names <- CloudPrincipalAuths,
    Things <- Ids,
    claimed <- {n \in CloudPrincipalAuths : api[n].exists /\ api[n].finalizer},
    owned <- [n \in CloudPrincipalAuths |-> live[n] \ lost[n]],
    recorded <- [n \in CloudPrincipalAuths |-> RecordedIds(api[n])],
    kept <- {n \in CloudPrincipalAuths : ~ShouldBeDeleted(api[n])}

KeepsFinalizerProtocol == Protocol!Spec

Serviceable(n) ==
    /\ api[n].exists /\ ~api[n].deleting
    /\ principal # "deleting" /\ Obstacle(api[n]) = "None"
    /\ IF IsStatic(api[n])
         THEN budget.keys > 0 /\ (secret[n].exists => secret[n].owner = api[n].uid)
         ELSE serviceAccount[n] # "absent"

Established(n) ==
    IF IsStatic(api[n])
      THEN /\ secret[n].exists /\ secret[n].key # 0
           /\ Undisturbed \/ Recovering =>
                /\ RecordedIds(api[n]) = {secret[n].key}
                /\ RecordedIds(api[n]) \subseteq live[n]
      ELSE serviceAccount[n] = "annotated" /\ Binding \in live[n]

\* Left alone, a resource that nothing stands in the way of becomes Ready, with
\* its key in the cloud and in the Secret or its binding and annotation made.
Converges ==
    <>[](\A n \in CloudPrincipalAuths :
           Serviceable(n) => Ready(n) /\ HasRef(api[n]) /\ Established(n))

\* ... and one whose deletion was requested, by a user or by the deletion of its
\* CloudPrincipal, goes away unless the ProviderConfig stands in the way.
DeletionCompletes ==
    <>[](\A n \in CloudPrincipalAuths :
           api[n].exists /\ (api[n].deleting \/ principal = "deleting")
           => provider # "ok" /\ ShouldBeDeleted(api[n]) /\ api[n].status.applied # {})
===============================================================================
