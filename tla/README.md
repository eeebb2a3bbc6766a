# Verification of the vedro operator

vedro is a Kubernetes operator that manages buckets, service accounts, their
keys and the access of the one to the other in a cloud (Google, Yandex) through
five custom resources.  This directory holds TLA+ models of its controllers, the
TLC configurations that check them and proofs that TLAPS checks.

## 1. The system

### Components

| component | source | state it keeps | operations |
|---|---|---|---|
| BucketAccess controller | `internal/controller/bucket_access_controller.go`, `internal/cloud/{gcp,yc}/bucket_access.go` | finalizer, `status.applied`, conditions; access bindings in the cloud | reconcile (grant, revoke the outdated grant), delete (revoke what is recorded) |
| Bucket controller | `bucket_controller.go`, `internal/cloud/{gcp,yc}/bucket.go`, `bucket_api.go` | finalizer, `status.externalName/externalId`, conditions; buckets and their objects | get, create or update; delete when no BucketAccess references it, objects first |
| CloudPrincipal controller | `cloudprincipal_controller.go`, `internal/cloud/{gcp,yc}/principal.go`, `principal_api.go` | finalizer, `status.externalId`, `status.kind`; service accounts | get, create or update, or observe an unmanaged one; delete when unreferenced |
| CloudPrincipalAuth controller | `cloudprincipal_auth_controller.go`, `internal/cloud/{gcp,yc}/principal_auth.go` | finalizer, `status.applied` (id of the credentials); Secret or annotated ServiceAccounts; keys and identity bindings | make credentials, re-make them when the cloud lost them, publish them, delete both |
| ProviderConfig controller | `provider_config_controller.go` | finalizer, conditions | validate and build the provider; delete when no Bucket or CloudPrincipal references it |
| provider preparation | `provider_setup.go`, `bucket_setup.go`, `cloudprincipal_setup.go`, `helpers.go`, `internal/resolvers` | none | resolve a reference; absent, terminating, not Ready, Ready; what a reconcile's result means for the queue |
| policy, capabilities, validation | `internal/usagepolicy`, `internal/capabilities`, `internal/validation` | none | pure verdicts on a spec |
| provider sessions | `internal/cloud/{gcp,yc}/provider.go` | clients; a temporary S3 key in Yandex | build, `Cleanup` |
| process | `cmd/main.go` | | flags, manager, leader election |

The interfaces in `internal/cloud/provider.go` separate controllers from clouds.
`internal/cloud/aws` has the listing and the deletion of objects the Yandex provider
uses, and stubs no provider is registered for; `internal/cloud/test` holds the doubles of the unit tests; helm charts, manifests and generated code
(deep copies, CRDs) have no behaviour of their own.

### How the parts interact

Every controller runs one worker on one work queue in one process (leader
election is on in `config/manager/manager.yaml`).  All of them read through the
informers' cache, which follows the API server at its own pace; only
CloudPrincipalAuth reads its own resource through the API server.  Metadata is
written with `Update`, which the API server refuses on an old
`resourceVersion`; status is written by `patchStatus`, a JSON merge patch of the
difference from the cached copy, without a `resourceVersion`.

Resources refer to each other by name.  A controller watches the kinds its
resources refer to and queues the resources that refer to what changed:

    ProviderConfig <- Bucket         <- BucketAccess -> CloudPrincipal
    ProviderConfig <- CloudPrincipal <- CloudPrincipalAuth

Deletion runs against the arrows.  A Bucket, CloudPrincipal or ProviderConfig
that is terminating waits, polling, until the cache shows nothing that refers to
it; a BucketAccess deletes itself when its bucket or principal terminates; a
ProviderConfig that is terminating goes on serving the deletions that need it.

### What is hard

* A reconcile acts on a cached copy that may be older than its own last write,
  on any of several fields (spec, status, deletion, generation).
* Two systems are written without a transaction: the cloud and the status that
  records what was made there.  The process may die, or either call fail with
  or without its effect, between the two.
* Most obstacles end a reconcile without a requeue, so that everything depends
  on the watches delivering one more wakeup.
* Deletions wait for each other across five kinds.
* A bucket is emptied by a pool of workers while applications write into it.
* What a cloud gives back is compared with the spec by deep equality, after
  conversions in which nil, empty and default values are different things.

`PROJECT.json` lists each such place under `hazards`, at its line.

### What makes each component correct

* BucketAccess: Ready for the current generation means that the access asked
  for is in the cloud; deletion leaves nothing recorded behind; nothing is
  granted for a resource a deletion could overtake; a change of spec ends in the
  new access and only it; a resource left alone becomes Ready or goes away.
* Bucket, CloudPrincipal: deletion under the Delete policy leaves no bucket or
  service account behind, Retain leaves it intact; nothing referenced is
  deleted; what exists in the cloud already is adopted and not made twice; the
  update makes what was read equal to what was asked, and then stops.
* CloudPrincipalAuth: no key is lost without a failure, the Secret and the status
  name the same one, and deletion leaves neither.
* ProviderConfig: it outlives everything that needs it to be deleted, and its
  condition follows its spec and its Secret.
* Deleting a bucket's objects: no worker outlives the call, no error is lost, no
  slot of the semaphore is kept, and a session's temporary key goes with it.

## 2. Modules

| module | what it models |
|---|---|
| `KubeObject` | versions of a custom resource in the API server and what create, edit, delete, status writes and finalizer updates make of one; external to the repository |
| `FinalizerProtocol` | the abstract specification: a resource is claimed by the finalizer, things are made and recorded for it, and the claim is released when nothing recorded is left or the policy keeps it |
| `Reconciler` | what the controllers share: informer and work queue, the only worker, adding and removing the finalizer, `patchStatus`, the results of a reconcile, a restart |
| `BucketAccess` | the BucketAccess controller, the users, the phases of what a BucketAccess depends on, the access bindings in the cloud, failures and crashes |
| `Bucket` | the Bucket controller, the users, the buckets of the cloud and their objects, references, failures and crashes |
| `CloudPrincipal` | the CloudPrincipal controller, the users, the accounts of the cloud, references, failures and crashes |
| `CloudPrincipalAuth` | the CloudPrincipalAuth controller, the users, the Secret and the informer's copy of it, the ServiceAccount, keys and bindings in the cloud, failures and crashes |
| `ProviderConfig` | the ProviderConfig controller, its Secret, `prepareProvider` |
| `DeletionProtocol` | the abstract specification of `DeletionOrder`: a resource is made on what it refers to and unmade before that is; a config that is asked to go stays until what was made with it is gone |
| `DeletionOrder` | extends `ProviderConfig` with Buckets, CloudPrincipals and BucketAccesses that work with a provider made from it: who waits for whom, and who goes first |
| `BucketDeletion` | `DeleteBucket` of both clouds: listing, pool, semaphore, temporary key |
| `BucketProvider` | extends `BucketDeletion` with admission and `EnsureBucket`: normal forms, comparison, patch |
| `KubeObject_proofs` | what the versions of one resource tell about each other; lemmas that the proofs about `BucketAccess`, `Bucket`, `CloudPrincipal` and `DeletionOrder` share |
| `BucketAccess_proofs`, `Bucket_proofs`, `CloudPrincipal_proofs`, `CloudPrincipalAuth_proofs`, `DeletionOrder_proofs`, `BucketProvider_proofs` | theorems about the module of that name |
| `MCBucketAccess`, `MCBucket`, `MCCloudPrincipal`, `MCCloudPrincipalAuth`, `MCDeletionOrder`, `MCBucketProvider` | instances for TLC |

`BucketAccess`, `Bucket`, `CloudPrincipal` and `CloudPrincipalAuth` instantiate
`Reconciler` for their own resources and have `FinalizerProtocol` as their abstract
specification, through a refinement mapping of what they make (bindings, buckets,
accounts, keys) and what their status records of it.  `ProviderConfig` makes nothing in
a cloud; it instantiates `Reconciler` only.  What the controllers promise together has
an abstract specification of its own: `DeletionOrder` implements `DeletionProtocol`.

### State and actions the controllers share

`api` is the API server's object per name, `cache` the informer's copy, `watch` the
versions between the two; `queue` the work queue; `pc`, `obj` and `plan` the
reconcile in progress (where it stands, its in-memory object, the failure it is
about to report); `budget` what is left of the bounds.  `provider` is what
`prepareProvider` and the usage policy say.

Actions follow the code between two calls that leave the process:

| action | code |
|---|---|
| `Start`, `AddFinalizer` | `Reconcile` up to `reconcile...Finalizer` |
| `Check` | `prepareProvider`, usage policy, capabilities, validation, in order |
| `PatchReady`, `Report` | `patchStatus` at the end of a reconcile |
| `PrepareDelete`, `RemoveFinalizer` | `delete...` before and after the calls to the cloud |
| `Deliver` | one watch event: cache and queue |
| `ProviderChanges` | the cache learns a new phase; `find...OfProviderConfig` |
| `ApiCallFails`, `CloudCallFails`, `Crash` | an error return of either API, with or without effect in the cloud; a restart |

Abstractions:

* Names stand for external ids.  What the status records is merged field by field,
  since two merge patches can mix.
* `reason` and `gen` of the Ready condition stand for the list of conditions,
  which a merge patch replaces as a whole.  `status.observedProvider` is not
  kept: the provider of a bucket or principal is immutable.
* The `Get` and the `Patch` of `patchStatus` are one step.  A user's write between
  the two can be moved before the first, since it leaves the cache alone; a
  delivery or a change of another resource can be moved after the second, since
  it leaves the server's object alone.  The step in between loses no behaviour.
* `Check` reads the phases of everything it looks at at one moment.
* The usage policy is a phase, `restricted`, for all names at once.
* A retry, with backoff or after ten seconds, is a place in the queue.
* Reading, changing and writing an IAM policy under its etag is one step.
* Changes of the cloud behind the operator's back are not modelled, except that
  applications write objects into buckets.

### BucketAccess

`grants` are the bindings in the cloud, `dep` the phases of buckets and principals
as the controller's cache shows them.

| action | code |
|---|---|
| `DeleteSelf` | `r.Delete` when the bucket or the principal terminates |
| `RevokeStale`, `Grant` | `EnsureBucketAccess` |
| `RevokeRecorded` | `DeleteBucketAccess` |
| `DependencyChanges` | the cache learns a new phase; the `findBucketAccessOf...` |

`HasAccess` followed by `GrantAccess` or `RevokeAccess` is one step: there is one
worker, and each is idempotent.  Every level maps to a role of its own, so that bindings
of different levels or principals are independent members of the bucket's policy.

`SpecsOf` are the specs the users of a resource write, `BindingsOf` what its status can then
come to record; `Existing` are the resources that were created before the operator started,
the others are created later or never.  Several resources may grant on one bucket, as the
chart's do (`helm/vedro/README.md:184`).

### Bucket

`cloud` has each bucket with its location, its properties, whether there are objects
in it and whether the operator has taken it (made or adopted it); `referenced` are
the resources a cached BucketAccess refers to.

| action | code |
|---|---|
| `Get` | `GetBucket` and the comparison in `EnsureBucket`: create, adopt, update, or refuse another location |
| `CreateBucket`, `UpdateBucket` | the calls of that name |
| `DeleteObjects` | `ProcessObjects` and the workers of `DeleteBucket`: all the objects, as one step; `BucketDeletion` takes it apart |
| `DeleteBucket` | `b.api.DeleteBucket` |
| `WriteObject` | an application |

`Properties` is a set of values that stand for labels, versioning, lifecycle, storage
class and the rest together; `BucketProvider` takes them apart.

### CloudPrincipal

`accounts` says of each account of the cloud whether it is absent, there, or taken by
the operator (made or adopted); `referenced` are the resources a cached BucketAccess
or CloudPrincipalAuth refers to.  `Managements` are the managementPolicies of the
instance, which a resource keeps for life; one that is not managed is only looked
up, and with `LooksUpReferences = FALSE` (Google) not even that.

| action | code |
|---|---|
| `Get`, `CreateAccount` | `EnsurePrincipal`, `CreatePrincipal` |
| `DeleteAccount` | `DeletePrincipal`, under the name `PrincipalNameForDelete` returns |

On deletion `CheckPrincipal` is asked for the recorded kind.  No policy lists the
empty kind, hence `DeletionAllowed` needs a record.

### CloudPrincipalAuth

This controller reads its own resource through the API server (`APIReader`), hence
`Start` begins with `api`; its Secret comes from a cache of its own, hence `cachedSecret`
and `secretNews`.  A credential is a number: key 1, 2, ... in the order they are made, or
`Binding`.  `live` are the credentials in the cloud, `young` a key the grace period still
vouches for although the cloud may not show it, `lost` those the controller was never
told of, or was told were gone.  `secret` has its owner, the key in it and whether it
carries the operator's labels.

| action | code |
|---|---|
| `DeleteSelfIfProvisioned`, `DeleteSelf` | the branch on a principal that is going, with or without a finalizer |
| `Get`, `CreateKey`, `ReachQuota`, `Bind` | `EnsureAuthentication` of either cloud |
| `FindServiceAccount`, `Annotate` | the ServiceAccount of a workload identity |
| `StoreKey` | `CreateOrUpdateOwned`, and the "No secret found" branch when there is no data |
| `RecordKey`, `PatchConclusion`, `Report` | the three status patches |
| `DropKey`, `Forget` | `DeleteAuthentication` of a key that could not be stored or recorded |
| `Disown`, `DeleteKey`, `Unannotate`, `RemoveFinalizer` | `deleteAuth`, by policy and method |
| `Age` | the end of the grace period |
| `TamperWithSecret`, `ServiceAccountChanges`, `DeliverSecret`, `CollectGarbage` | users, the informer, the garbage collector |

`Setting` is one of a set of records that a behaviour picks at the start: cloud, method
and bounds.  One run covers what the two clouds and the two methods do differently.

### ProviderConfig and DeletionOrder

`secret` says whether the informer shows a credentials Secret the factory can use, `seen`
the informer's copy of each resource that refers to a ProviderConfig.
`PrepareDelete` and `ListPrincipals` are the two lists of `IsReferenced`, two steps.
`Prepared` is `prepareProvider`: a ProviderConfig must be Ready for its generation or be
under deletion, since nothing else can delete what was made with it.

In `DeletionOrder` a resource has, in the API server and in the cache, a uid, a phase and
whether it was made.  Its controller reads the cache, and is idle or at work (`ensure`,
`destroy`) with a provider of the moment it began.  The step that begins and the one that
finishes are apart, so that anything may happen between the two; what a controller does
in between is the subject of its own module.  `promised` is a history: the resources
that were made when the deletion of their ProviderConfig was asked for.
`NothingStranded` is stated of these, because a resource created afterwards, whose event is still on
its way when the lists are read, can be stranded.  It says nothing of newcomers.

`DeletionProtocol` sees of all this which ProviderConfigs are there (`open`), which of them
are asked to go (`closing`), which resources are made in a cloud, and `promised`; caches, queues
and workers are gone.  `ReadyMeansFit` is about the other use of a ProviderConfig: the condition
`prepareProvider` trusts is patched without a `resourceVersion` by a reconcile that may have
read an older generation, or an earlier object of the name.

### BucketDeletion and BucketProvider

`pc` is where the goroutine of the reconcile stands: open (a Yandex session makes its
temporary S3 key), list, stopWait, deleteBucket, cleanup.  `sem`, `waiting` and `running`
are the slots taken, the tasks submitted and those at work; `ListNext` is the callback of
the listing, which blocks when no slot is free.  The first error ends the listing
(`failed`), and the goroutine waits for the pool whichever way it ended.

`BucketProvider` has the settings of a bucket apart: storage class, labels, versioning,
public access prevention, lifecycle rules, soft deletion.  `Normalized`, `ToCloud` and
`FromCloud` are the conversions of `normalization.go` and `bucket_api.go`: a rule without an age
or that is off, a nil, empty and filled list, a default the cloud fills in are told
apart, and a reconcile patches exactly the fields that differ by deep equality.
Lifecycle rules are a set: what order they are in, and whether one is repeated, is not told apart.

| action | code |
|---|---|
| `Admit` | capabilities and `ValidateBucketSpec` |
| `Get`, `Create`, `Update` | `EnsureBucket`: `GetBucket`, the comparison, `CreateBucket`, `UpdateBucket` |
| `BeginDeletion` ... `Cleanup` | `DeleteBucket`, and the `Cleanup` deferred by the reconcile |

### Runs

| run | instance | shows |
|---|---|---|
| `bucket_access` | two resources on one bucket for one principal, one there from the start with two levels and both policies, the other created later with a third level; four phases of bucket and principal, provider ok, failing or restricted; two edits, one failure | `ReadyMeansGranted`, `ReleasedMeansRevoked`, refinement of `FinalizerProtocol`, `Converges`, `DeletionCompletes` |
| `bucket_access_orphan` | one edit, no failure | the counterexample of `AppliedCoversGrants` |
| `bucket` | two names, two locations, three properties of which one is unsupported, both policies, provider ok, failing or restricted; two edits, one failure | `ReadyMeansConfigured`, `ReleasedMeansDeleted`, refinement, `Converges`, `DeletionCompletes` |
| `bucket_gone` | one edit, no failure | the counterexample of `DeletionSettles` |
| `principal` | managed and referring, two accounts, a kind that may be unsupported, provider ok, failing or restricted; two edits, one failure | `ReadyMeansExists`, `ReleasedMeansDeleted`, refinement, `Converges`, `DeletionCompletes` |
| `principal_leak` | one edit, one failure | the counterexample of `DeletionFindsUnrecorded` |
| `principal_rename` | two names, one edit, no failure | the counterexample of `NameIsForLife` |
| `auth` | nine settings (`Several`): on Yandex with a key two actions of users, one with a failure, one with a late Secret, or a failure with a late Secret; on Google with a key a late Secret with an action or a failure; workload identity on both; principal ready, not ready or going; provider ok, absent or restricted | `KeysTracked`, `ReleasedMeansDeleted`, `SecretHoldsRecordedKeyUndisturbed`, `RetainedMeansDisowned`, refinement, `Converges`, `DeletionCompletes` |
| `auth_late` | two late reads of the Secret, nothing else | the counterexample of `SecretHoldsRecordedKey` |
| `deletion_order` | a ProviderConfig with two specs of which one is invalid, its Secret, a Bucket, a CloudPrincipal, an access of the one to the other; two edits, one failure | `AccessesHaveTargets`, `NothingStranded`, `ReadyMeansFit`, refinement of `DeletionProtocol`, `Converges`, `DeletionCompletes` |
| `bucket_provider` | both clouds with five specs each, three objects, two workers, two slots, one write of an application, two failures, one edit | `ReadyMeansInForce`, `LeavesAloneWhatIsInForce`, `TasksEndWithTheCall`, `ListedAreDeleted`, `KeysAreAccountedFor`, `DeletionEmpties` |
| `bucket_provider_location` | Yandex, a bucket outside the region | the counterexample of `LocationIsTheSpecs` |

Every passing run also checks the type invariant of its module.  The passing runs have
between 0.7 and 1.2 million distinct states each.

Bounds.  `MaxEdits` bounds the actions of users and of the environment together
and `MaxFaults` failed calls and crashes; nothing else is bounded, the watch
channel and the number of reconciles in particular.  Two edits reach each pair of
them that can race with one reconcile: edit and delete, delete and re-create, edit and
the termination of a dependency.  Resources may start referred to, so that two edits
reach the deletion of one whose last reference goes while it waits.  In `bucket_access`
two resources share the bucket, the principal, the worker and the bounds: with the second
created there is an edit left for either.  In `bucket` and `principal` one resource is
enough for one worker: resources share nothing else as long as each has its own bucket or
account.  The proofs cover any number of BucketAccesses, Buckets and CloudPrincipals, and
of what they ask for.  In `auth`, two keys are what a replacement needs
and three what a replacement of the replacement needs; `lags` bounds how often the
informer has not seen the last write of a Secret.  In `bucket_provider`, three objects
on two workers and two slots (2000 and 32 in the code, where the slots outnumber the
workers) make the listing block, a task wait, and an error come while another task runs;
the proofs hold for all sizes.  The specs are chosen so that each conversion has one
that changes a value.

Fairness.  `Deliver` is weakly fair (an informer re-lists until it succeeds), a
step of a reconcile is weakly fair (every call has a timeout and returns), and
`Start` is strongly fair: the work queue is first in, first out, and a resource
is queued again and again behind others that take the only worker.  In `DeletionOrder`
the same holds of `InformOfResource` and `Work`, in `CloudPrincipalAuth` of the informer
of Secrets, the garbage collector and the end of the grace period, in `BucketProvider` of
a reconcile's goroutine and of the pool.  Users, the
environment and failures have no fairness; the liveness properties say what
holds once they stop, which the budget makes certain.

Deadlock is not checked in passing runs: a system whose resources are settled, or gone,
has nothing to do.  That nothing waits for ever is what `Converges` and the deletion
properties say.

### The counterexamples

`AppliedCoversGrants` (BucketAccess) says that what status.applied records is all the
access a settled, Ready resource has.  It fails:

1. the first reconcile adds the finalizer, grants the access of the spec and is
   about to patch the status;
2. the user edits the level; the edit reaches the cache and queues the resource;
3. the status patch records the first grant; its watch event is on the way;
4. the second reconcile reads the cached copy: new level, no status.applied.  It
   revokes nothing, grants the new level, and its patch (computed against the
   cached copy) records the new level.

The first grant stays, and no reconcile or deletion will look for it.

`NameIsForLife` (CloudPrincipal) says that the recorded account of a managed resource
never changes, as `ValidateNameImmutability` has it.  It fails in the same way, with a
name in place of the level: the second reconcile finds no name recorded, makes the
second account, and records it.  Buckets are exposed to the same.

`DeletionFindsUnrecorded` (CloudPrincipal) says that a deletion that starts before the
first successful reconcile leaves no account.  It fails: the account is made, the
status patch fails, deletion is requested.  The usage policy is asked for the
recorded kind, which is still empty; the deletion counts as restricted and the
resource as never provisioned, and the finalizer goes.

`DeletionSettles` (Bucket) says that a requested deletion completes although the bucket
is not there.  It fails: deletion is requested during the first reconcile; the second
reads the cached copy with the deletion and without the status patch that followed,
deletes the bucket, and its Update is refused.  From then on `ProcessObjects` reports
that there is no such bucket, and every attempt ends there.  `DeletionCompletes`, which
holds, leaves that case out.

`SecretHoldsRecordedKey` (CloudPrincipalAuth) says that the Secret of a settled, Ready
resource holds the key its status records.  It fails without a failure and without a
user, by an informer that is late with the Secret:

1. the first reconcile makes key 1, creates the Secret, patches the status;
2. the second, woken by the finalizer update of the first, reads the resource through
   the API server and no Secret in the cache: a key whose secret half is nowhere.  It
   deletes key 1;
3. the third makes key 2; Create of the Secret is refused, since it exists.  One patch
   records the key and reports the error; it is computed from a cached copy without
   a secretRef, so that the server's stays;
4. the fourth finds key 2 in the cloud, a secretRef, and a Secret with data: Ready.

Nothing looks again, and the Secret holds key 1.  `SecretHoldsRecordedKeyUndisturbed`,
which holds, is stated of histories in which no Secret was read late and nothing failed.
Failures can lead to the same end: on Google one is enough (below), on Yandex it takes two, or
one and several edits.  `Converges` therefore asks that the Secret, the status and the cloud
agree (`Established`) when nothing went wrong, and, on Yandex, after one failure and at most one edit
(`Recovering`); in all other cases it asks for a Ready resource with a key in its Secret.

`LocationIsTheSpecs` (BucketProvider) says that a Bucket that is Ready is not refused
later for its location.  It fails on Yandex: the location of the spec is never sent,
and the provider reports its own region as the bucket's.  The first reconcile creates the
bucket and is Ready, the second finds it in another location.

### What the models leave open

Met while modelling, left out of the properties as stated, and worth knowing:

* gcp: a delete of a key the cloud does not show yet is answered NotFound and counts as
  done; the key stays (`lost` in `CloudPrincipalAuth`).
* A patch of a new key that is reported failed though it was applied makes the controller
  drop the key.  Within the grace period the dead key is taken to be there, and
  the resource is Ready and not requeued (`internal/cloud/gcp/principal_auth.go:67`).
* Under Retain, a Secret the cache does not show keeps its owner reference, and the
  garbage collector takes it: `RetainedMeansDisowned` is stated for runs without late reads.
* A Secret of the name that is not the operator's makes the controller create and
  drop a key in each attempt.
* gcp never applies a lifecycle rule without an age, and updates the bucket for it in
  every reconcile; yc does the same for versioning that is unset after it was on, for an
  empty lifecycle and for ageless rules.  `Expressible` leaves these out of
  `LeavesAloneWhatIsInForce`.
* Two BucketAccesses with one binding, and two CloudPrincipals with one account, take it
  from each other on deletion.  The code states no rule against it.
* Two BucketAccesses on one bucket that never ask for the same binding can still meet, by
  way of the record.  A resource is edited twice, level first and principal next, while its
  first reconcile is under way.  Patches are computed against a cached copy that still has
  the first record and send only the fields that differ from it: the server merges the
  level of the second spec with the principal of the third, a binding that nobody asked
  for here.  The next reconcile revokes what the status records, and if
  another resource on the bucket has just that binding, it loses it and stays Ready.
  `BindingsOf` is therefore closed under such mixtures, and `DistinctBindings` (below)
  speaks of these sets; it is met when two resources on a bucket have different
  principals, or different levels, in all that their users write.

## 3. Proofs

`tlapm` checks seven modules, of which `KubeObject_proofs` has lemmas only.  Every safety
invariant and every action property of the passing runs is proved, the refinements included.
Each theorem holds for every value of the constants that its module's assumptions admit: `ConstantsAssumption` of `BucketAccess`, `Bucket`,
`CloudPrincipal` and `CloudPrincipalAuth`, and `DataAssumption` of `BucketAccess` and `Bucket`;
`ConfigsAssumption` and `TargetsAssumption` of `ProviderConfig` and `DeletionOrder`;
`DeletionAssumption` of `BucketDeletion` and `ProviderAssumption` of `BucketProvider`.  TLC evaluates them in the runs.

### BucketAccess

* `TypeCorrect`: `Spec => []TypeOK`;
* `Invariance`: `Spec => []Inv`;
* `ReleaseRevokes`: `Spec => []ReleasedMeansRevoked`;
* `ReadyGrants`: `Spec => []ReadyMeansGranted`;
* `ImplementsProtocol`: `Spec => KeepsFinalizerProtocol`, a step-by-step refinement.

All but the first assume `DistinctBindings`: `BindingsOf` of two resources have nothing in
common.  Any number of them may grant on one bucket, to principals or at levels of their own.
Without it they are false, since two resources that record the same binding
revoke it from each other.

No property is inductive: each speaks of the object in the API server while
the worker acts on a copy.  `Inv` says what the worker may rely on:

* `KnownIsPast`, `DeliveredInOrder`: cache and watch hold past versions, in
  order, and one with the server's resourceVersion is the server's version;
* `AliveMeansClaimed`: as long as cache or watch holds a version with the
  finalizer and no deletion request, the finalizer is on the object.  Only the
  worker takes it off, in a version it read with a deletion request, and the
  Update is refused unless that version is the last: then every version still
  to be delivered is that one;
* `EnsureMeansClaimed`: hence the reconcile that grants works on a claimed object;
* `DeleteReadsCache`, `RevokedBeforeRelease`: a deletion works on a version the
  cache held, and between the revocation and the Update nothing it recorded
  comes back;
* `UnclaimedMeansUnrecorded`, `KeepsToBindings`: a status without finalizer records
  nothing; and what the server, the informer or the worker has of a resource asks for and
  records bindings of its own only, however patches merge (`MergedKeepsBindings`).  What is
  revoked for one resource is then nobody else's, though the bucket may be.

One lemma per kind of step (`Writes`, `Moves`, `Returns`, `NewGrant`) carries most of
the actions; releasing the finalizer, delivery, start and crash have their own.

### Bucket, CloudPrincipal

The same for what these controllers make:

* `TypeCorrect`: `Spec => []TypeOK`;
* `Invariance`: `Spec => []Inv`;
* `ReleaseDeletes`: `Spec => []ReleasedMeansDeleted`;
* `ReadyConfigures` (Bucket): `Spec => []ReadyMeansConfigured`, `ReadyExists`
  (CloudPrincipal): `Spec => []ReadyMeansExists`;
* `ImplementsProtocol`: `Spec => KeepsFinalizerProtocol`.

All but the first assume `DistinctNames`: no two resources ask for one bucket or account.
Two that do adopt it from each other, and the deletion of either takes it.

`Inv` has the parts of `BucketAccess` about versions and claims.  In place of
`RevokedBeforeRelease` and `KeepsToBindings`:

* `KeepsToNames`: what the server, the informer or the worker has of a resource asks for
  and records names of its own only, so that nobody else's reconcile can disturb them.  A
  merge patch may mix the name of one status with the properties of another; it
  never makes up a name;
* `DeletedBeforeRelease`: when the finalizer is about to be taken off, nothing the version
  that was read records is in the cloud, unless the policy keeps it.

In the refinement a bucket or account is made for a resource when it is taken: created,
or found and adopted.  What is in the cloud before anybody takes it is nobody's.

### Readiness

`ReadyGrants`, `ReadyConfigures` and `ReadyExists` need more than `Inv`: a status is written
without a `resourceVersion`, so that a late reconcile may report on what it no longer sees, and
what it reports may not be taken for a later generation, or for another object of the
name.  `Readiness` is the invariant of each resource, beside `Inv`:

* `VersionsFollow`: what the server, the informer and the watch have of a name is `Orderly`:
  of one object a later version has no earlier generation, of one generation it has the
  same spec and the same deletion mark, and objects follow each other.  The cached copy of a claimed resource is of the
  same object, and the generation reported in the status is not ahead of it;
* `WorkerFollows`: the worker's copy is not ahead of the cache; when its generation is the
  server's, so is its spec; and no later generation is reported.  Hence a patch
  of the worker reports for the object as it is, or for a generation that has passed;
* `GrantFollows`, `BucketFollows`, `AccountFollows`: what is asked for is in the cloud when
  the worker is about to say so, and as long as the resource is Ready for what it is.

`ReadyForWhatItIs` draws the conclusion: a resource that is Ready for its current generation
is claimed, no deletion of it is under way, and a reconcile works for the spec it has
now.  Such a reconcile takes nothing away that was asked for.

### CloudPrincipalAuth

* `TypeCorrect`: `Spec => []TypeOK`;
* `Invariance`: `Spec => []Inv`;
* `KeysAreTracked`: `Spec => []KeysTracked`;
* `ReleaseDeletes`: `Spec => []ReleasedMeansDeleted`;
* `RetainDisowns`: `Spec => []RetainedMeansDisowned`;
* `SecretHoldsKey`: `Spec => []SecretHoldsRecordedKeyUndisturbed`;
* `ImplementsProtocol`: `Spec => KeepsFinalizerProtocol`.

They assume nothing about names: a key belongs to the resource it was made for, and is
numbered in the order of making.  They hold for both clouds and methods, any number of
resources, keys, failures and late Secrets, and a principal and a ServiceAccount that
come and go.  Types alone are not inductive, and `Base` adds to them that a step that
handles credentials has some in hand (`KeyInHand`), and that no version records a key that
is still to be made (`KeysNumbered`): a new key is then nobody's.  `Inv` adds:

* `OneAtWork`: there is one worker;
* `Claims`: credentials are made for a claimed resource only.  A deletion goes by a version
  that was read; if it is an old one, its Update is refused.  A resource
  without finalizer records nothing;
* `Followed`: there is at most one key a resource has to answer for, and it is in the
  status, in the worker's copy, or in both.  Between `Pending` steps it is in the status;
  the copy is either what the server records or a key made by this reconcile (`Fresh`),
  which no version can bring back.  A key is created only when there is none, so that
  the one the patch overwrites is never alive;
* `Orderly`: past the deletion of the key, nothing the version records is in the cloud,
  past `unannotate` the ServiceAccount has no annotation, and that stays so of the object
  that is gone.

`RetainDisowns` has an invariant of its own beside `Inv`: `Retention` says that the worker
works with the method and, in the steps of one policy, the policy of the resource (`Kind`),
that only a Secret that exists, of a resource with static credentials, has an owner
(`Ownable`), and that the resource owns none any more when it is about to go or has gone
(`Disowned`).  `Disown` takes the owner off what the informer shows; with an informer that is
never late that is the Secret itself, or there is none.

`SecretHoldsKey` rests on `Agreement`, beside both: failures are never given back, and as long as
none happened and no Secret was read late, every resource with static credentials is `Agreed`:

* `InTouch`: what a reconcile has in hand agrees with the server, and watch and cache end in
  the server's version.  Users may edit, delete and re-create meanwhile; this is what
  reading through the API server buys;
* `Numberless`: a key about to be recorded is the recorded one, or was never recorded;
* `Behind`: a status that works has a Secret behind it, and so has one about to be written;
* `Matching`: the Secret holds another key than the recorded one only when the recorded
  one is gone from the cloud, and if the resource still counts as Reconciled, a reconcile
  is due that makes a new one.  At rest none is due, and Ready means they agree.

Users may empty or delete the Secret, and on Google a new key may
not show: the theorem covers both.

In the refinement a key the cloud denies having or a crash took away (`lost`) is nobody's
any more: the protocol speaks of what the controller could know of.

### DeletionOrder

* `TypeCorrect`: `Spec => []TypeOK`;
* `TargetsOutliveAccesses`: `Spec => []AccessesHaveTargets`;
* `ConfigsGoLast`: `Spec => []NothingStranded`;
* `ReadyIsFit`: `Spec => []ReadyMeansFit`;
* `ImplementsProtocol`: `Spec => KeepsDeletionProtocol`, a step-by-step refinement.

They hold for any number of ProviderConfigs, Buckets, CloudPrincipals and accesses, and
for whatever they refer to.  The difficulty is that everybody decides by what the cache
shows, and that names are used again.  The invariant relates the two:

* `VersionsInv`: cache and watch hold past versions of a ProviderConfig, and one with
  its resourceVersion is the last;
* `ResourceInv`: what the cache shows of a resource is a past of it, ordered by uid; a
  controller at work is at it for the resource of that uid; and what was made is shown,
  under its own uid, until it is gone, since a controller makes only what it was shown;
* `HoldsInv`: what an access is being made of, or was, is made and nobody is deleting it;
* `PromiseInv`: what is promised is made, its ProviderConfig is under deletion, and with an
  access its targets are promised: two lists of Buckets and CloudPrincipals are enough;
* `ReleaseInv`: past a list (`PastTheLists`) nothing promised is left that it would have
  shown, or else the version that was read is an old one and its Update is refused.

The refinement needs nothing more: each step, by that invariant, is one of
`DeletionProtocol` or leaves open, closing, made and promised alone.  `FinishEnsure` is `Make`,
for its targets are made (`HoldsInv`); `FinishDestroy` is `Unmake`, for no access that is
left refers to it; the Update that takes the finalizer off is `Leave`, and nothing is promised
(`ReleaseInv`).

`ReadyIsFit` has `Fitness` beside that invariant:

* `InformerFollows`: the versions of a name are `Orderly`, and the finalizer is given up only
  when no version without a deletion request is under way;
* `WorkerFollows`: a reconcile that checks works for the generation asked for, or for one that
  has passed; one that deletes has read a version with a deletion request that the cache
  showed; `patchReady` follows a spec that was found valid;
* `Fit`: a Ready condition of the current generation stands for a valid spec, of an object
  that is not asked to go.  A request to delete moves the generation, as an edit does.

### BucketProvider

Of the settings:

* `Types`: `Spec => []TypeOK`;
* `ReadyIsInForce`: `Spec => []ReadyMeansInForce`;
* `InForceIsLeftAlone`: `Spec => LeavesAloneWhatIsInForce`.

They hold for both clouds, every set of specs and every set of lifecycle rules.  The invariant
`SettingsInv` says where `EnsureBucket` stands (`EnsureInv`), that a Yandex bucket has no setting
Yandex does not know (`OfItsCloud`), and that after a Ready reconcile every compared setting
`Shows` the spec: it is read back as it was asked for, or is what was sent for it, or is
versioning that yc suspends in place of turning it off.  A field that was not patched is
one that was read back as asked (`PatchedFields`); that what was sent is read back as asked
holds for specs the cloud can express, and is the lemma under `InForceIsLeftAlone`.

Of the deletion, whose variables no other action touches:

* `DeletionTypes`: every variable of it keeps its type;
* `SlotsAreTasks`: the slots taken are the tasks not done, at most `Capacity`;
* `NoTaskOutlivesItsCall`: `Spec => []TasksEndWithTheCall`;
* `BucketGoesLast`: `Spec => []ListedAreDeleted`: an object that was shown and is still
  there is a task's, or a task has failed;
* `KeysLeakByFaultsOnly`: `Spec => []KeysAreAccountedFor`.

### What is only model-checked

The liveness properties: `Converges`, `DeletionCompletes` of five modules each and
`DeletionEmpties` of `BucketProvider`.  Liveness under fairness and ENABLED are out of the
prover's reach.

## 4. Not modelled

* Generated code, flags, metrics, logging, helm charts and manifests, test doubles.
* The SDK clients and what they do on the wire; the clouds' own consistency, beyond the
  keys gcp does not show yet.
* The regular expressions of names, and the usage policy's patterns: a verdict each.
* Comparison of locations without regard to case, and `status.location` in the provider's
  spelling; `appliedState` of gcp, which drops `cloudSpecificConfig` from the status.
* `CloudPrincipalAuth` with a principal that is absent, or a provider that is not ready or
  fails: the code takes the branch of the phases that are in the instance.
* `CloudPrincipalAuth` in `DeletionOrder`: because it reads itself through the API server, a
  re-created one can be provisioned before any cache shows it, and the argument of
  `AccessesHaveTargets` does not carry over.
* Resources that share a binding, a bucket of the cloud or an account: two BucketAccesses
  whose specs give one principal one level on one bucket, two Buckets or CloudPrincipals
  with one name.  Several BucketAccesses on one bucket with bindings of their own are
  covered, by `bucket_access` and by the theorems; two that can come to record the same
  binding are covered by `TypeCorrect` only.

## 5. Plan

What would be worth adding, in this order:

1. `CloudPrincipalAuth` in `DeletionOrder`, and what then holds of its principal.
2. Lemmas about `Reconciler` that the proofs of all four controllers can use.
3. Resources that share a binding, a bucket of the cloud or an account: what still holds.
