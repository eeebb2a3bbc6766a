-------------------------------- MODULE Bucket --------------------------------
(***************************************************************************)
(* The Bucket controller: custom resources that stand for a bucket, and    *)
(* the buckets of the cloud with the objects in them.                      *)
(*                                                                         *)
(* internal/controller/bucket_controller.go, EnsureBucket and DeleteBucket *)
(* of internal/cloud/gcp and yc, internal/resolvers/bucket.go, CheckBucket *)
(* of usagepolicy, ValidateNameImmutability of validation.                 *)
(***************************************************************************)
EXTENDS KubeObject

CONSTANTS
    Resources,        \* names of Bucket resources
    Buckets,          \* names of buckets in the cloud
    SpecsOf,          \* the specs the users of a resource write
    Foreign,          \* what buckets may be like that the operator did not make
    InvalidNames,     \* names the provider's pattern refuses
    Locations,
    Properties,       \* what labels, versioning, lifecycle, ... amount to
    UnsupportedProperties,  \* those the provider's capabilities do not list
    ProviderPhases,   \* phases the environment moves the ProviderConfig to
    MaxEdits,         \* bound: actions of users and of the environment
    MaxFaults         \* bound: failed calls and crashes of the controller

ASSUME ConstantsAssumption ==
    /\ Buckets # {} /\ Locations # {} /\ Properties # {}
    /\ ProviderPhases \subseteq
         {"ok", "absent", "notReady", "factoryError", "restricted"}
    /\ MaxEdits \in Nat
    /\ MaxFaults \in Nat

-------------------------------------------------------------------------------
(* Data. *)

Specs == [name: Buckets, location: Locations, properties: Properties,
          policy: {"Delete", "Retain"}]

\* A bucket of the cloud is taken from when the operator makes or adopts it.
Contents == [taken: BOOLEAN, location: Locations, properties: Properties,
             objects: BOOLEAN]

ASSUME DataAssumption ==
    /\ SpecsOf \in [Resources -> SUBSET Specs]
    /\ \A n \in Resources : SpecsOf[n] # {}
    /\ Foreign \subseteq {b \in Contents : ~b.taken}

VARIABLES
    api, cache, watch, queue, pc, obj, plan, budget,  \* as in Reconciler
    cloud,       \* the buckets
    referenced,  \* resources a cached BucketAccess refers to
    provider     \* what prepareProvider and the usage policy say

vars == <<api, cache, watch, queue, pc, obj, plan, budget,
          cloud, referenced, provider>>

-------------------------------------------------------------------------------
(* The resource and its status. *)

\* status.externalName (the id stands for it) and applied, written together.
Records == [name: Buckets, properties: Properties]

Reasons == {"None", "Reconciled", "ProviderIssue", "SpecRestricted",
            "UnsupportedFeatures", "InvalidSpec", "EnsureError", "DeleteError",
            "RemoveFinalizerError"}

Statuses == [recorded: {{}} \union {{r} : r \in Records}, reason: Reasons, gen: Nat]

NoStatus == [recorded |-> {}, reason |-> "None", gen |-> 0]

Objects == Versions(Specs, Statuses)

NoObject == NeverCreated(CHOOSE s \in Specs : TRUE, NoStatus)

PCs == {"idle", "addFinalizer", "check", "get", "create", "update", "patchReady",
        "prepareDelete", "deleteObjects", "deleteBucket", "release", "report"}

Plans == [reason: Reasons, retry: BOOLEAN]

NoPlan == [reason |-> "None", retry |-> FALSE]

INSTANCE Reconciler WITH Names <- Resources

environment == <<cloud, referenced, provider>>

\* What a successful reconcile of version o records.
Want(o) == [name |-> o.spec.name, properties |-> o.spec.properties]

RecordedNames(o) == {r.name : r \in o.status.recorded}

\* Whether a bucket is there, and is as a version o of the resource asks.
There(x) == cloud[x] # {}

AsAsked(o) ==
    \E b \in cloud[o.spec.name] :
      b.taken /\ b.location = o.spec.location /\ b.properties = o.spec.properties

BucketsOf(n) == {x \in {s.name : s \in SpecsOf[n]} : \E b \in cloud[x] : b.taken}

TypeOK ==
    /\ api \in [Resources -> Objects]
    /\ cache \in [Resources -> Objects]
    /\ watch \in [Resources -> SUBSET Objects]
    /\ queue \subseteq Resources
    /\ pc \in [Resources -> PCs]
    /\ obj \in [Resources -> Objects]
    /\ plan \in [Resources -> Plans]
    /\ budget \in [edits: Nat, faults: Nat]
    /\ cloud \in [Buckets -> {{}} \union {{b} : b \in Contents}]
    /\ referenced \subseteq Resources
    /\ provider \in {"ok", "absent", "notReady", "factoryError", "restricted"}

-------------------------------------------------------------------------------
(* The operator starts on resources that were created while it was away, some  *)
(* of them referred to already, in a cloud that may have buckets of the names  *)
(* already.                                                                    *)

Init ==
    /\ \E s \in [Resources -> Specs] :
         /\ \A n \in Resources : s[n] \in SpecsOf[n]
         /\ api = [n \in Resources |-> Created(NoObject, s[n], NoStatus)]
    /\ cache = api
    /\ watch = [n \in Resources |-> {}]
    /\ queue = Resources
    /\ pc = [n \in Resources |-> "idle"]
    /\ obj = [n \in Resources |-> NoObject]
    /\ plan = [n \in Resources |-> NoPlan]
    /\ budget = [edits |-> MaxEdits, faults |-> MaxFaults]
    /\ cloud \in [Buckets -> {{}} \union {{b} : b \in Foreign}]
    /\ referenced \in SUBSET Resources
    /\ provider = "ok"

-------------------------------------------------------------------------------
(* Users and the environment. *)

Create(n) ==
    /\ \E s \in SpecsOf[n] : Post(n, s, NoStatus)
    /\ UNCHANGED environment

EditSpec(n) ==
    /\ \E s \in SpecsOf[n] \ {api[n].spec} : Put(n, s)
    /\ UNCHANGED environment

RequestDeletion(n) ==
    /\ Delete(n)
    /\ UNCHANGED environment

\* The cache learns of the first BucketAccess that refers to n, or that the last
\* one is gone.  No watch tells this controller: deletion polls.
ReferencesChange(n) ==
    /\ referenced' \in {referenced \union {n}, referenced \ {n}} \ {referenced}
    /\ Wake({})
    /\ SpendEdit
    /\ UNCHANGED <<cloud, provider>>

\* findBucketsOfProviderConfig, for a controller that asks for the resources it
\* has made Ready only.
ReadyDependants == {n \in Resources : cache[n].status.reason = "Reconciled"}

\* findBucketsOfProviderConfig.
Dependants == {n \in Resources : cache[n].exists}

ProviderChanges ==
    /\ \E p \in ProviderPhases \ {provider} : provider' = p
    /\ Wake(Dependants)
    /\ SpendEdit
    /\ UNCHANGED <<cloud, referenced>>

\* An application writes the first object into a bucket.
WriteObject(x) ==
    /\ \E b \in cloud[x] :
         /\ ~b.objects
         /\ cloud' = [cloud EXCEPT ![x] = {[b EXCEPT !.objects = TRUE]}]
    /\ Wake({})
    /\ SpendEdit
    /\ UNCHANGED <<referenced, provider>>

-------------------------------------------------------------------------------
(* The reconcile. *)

Deliver(n) == Inform(n) /\ UNCHANGED <<environment, budget>>

Start(n) == Begin(n, cache[n]) /\ UNCHANGED <<environment, budget>>

AddFinalizer(n) == Claim(n) /\ UNCHANGED <<environment, budget>>

\* ValidateNameImmutability, against the status the reconcile read.
Renamed(o) == \E x \in RecordedNames(o) : x # o.spec.name

\* prepareProvider, CheckBucket, ValidateBucketCapabilities, ValidateBucketSpec:
\* what stops the reconcile, or "None".
Obstacle(o) ==
    CASE provider \in {"absent", "notReady", "factoryError"}  -> "ProviderIssue"
      [] provider = "restricted"                              -> "SpecRestricted"
      [] o.spec.properties \in UnsupportedProperties          -> "UnsupportedFeatures"
      [] Renamed(o) \/ o.spec.name \in InvalidNames           -> "InvalidSpec"
      [] OTHER                                                -> "None"

Check(n) ==
    /\ pc[n] = "check"
    /\ \/ Obstacle(obj[n]) = "None" /\ Proceed(n, "get")
       \/ /\ Obstacle(obj[n]) # "None"
          /\ Reporting(n, Obstacle(obj[n]), provider = "factoryError")
    /\ UNCHANGED <<environment, budget>>

\* EnsureBucket.  A bucket that is there already is adopted, where it is and
\* whatever is in it, unless it is in another location.
Get(n) ==
    LET s == obj[n].spec
    IN /\ pc[n] = "get"
       /\ \/ ~There(s.name) /\ Proceed(n, "create") /\ UNCHANGED cloud
          \/ \E b \in cloud[s.name] :
               \/ /\ b.location # s.location
                  /\ Reporting(n, "EnsureError", TRUE)
                  /\ UNCHANGED cloud
               \/ /\ b.location = s.location
                  /\ Proceed(n, IF b.properties = s.properties THEN "patchReady"
                                                               ELSE "update")
                  /\ cloud' = [cloud EXCEPT ![s.name] = {[b EXCEPT !.taken = TRUE]}]
       /\ UNCHANGED <<referenced, provider, budget>>

WithBucketFor(o) ==
    [cloud EXCEPT ![o.spec.name] =
       {[taken |-> TRUE, location |-> o.spec.location,
         properties |-> o.spec.properties, objects |-> FALSE]}]

CreateBucket(n) ==
    /\ pc[n] = "create"
    /\ cloud' = WithBucketFor(obj[n])
    /\ Proceed(n, "patchReady")
    /\ UNCHANGED <<referenced, provider, budget>>

WithPropertiesOf(o) ==
    [cloud EXCEPT ![o.spec.name] =
       {[b EXCEPT !.properties = o.spec.properties] : b \in @}]

UpdateBucket(n) ==
    /\ pc[n] = "update"
    /\ cloud' = WithPropertiesOf(obj[n])
    /\ Proceed(n, "patchReady")
    /\ UNCHANGED <<referenced, provider, budget>>

-------------------------------------------------------------------------------
(* The status patch at the end of a reconcile: the fields merge one by one,    *)
(* the list of conditions is replaced.                                         *)

\* A merge in which the record is only ever added to.
MergedRecordedUnion(base, new, current) == current \union new

MergedRecorded(base, new, current) ==
    IF new = base THEN current
    ELSE IF base = {} \/ current = {} THEN new
    ELSE {[name |-> IF r.name = b.name THEN c.name ELSE r.name,
           properties |-> IF r.properties = b.properties THEN c.properties
                                                         ELSE r.properties] :
             b \in base, r \in new, c \in current}

Merged(base, new, current) ==
    LET conditions == IF <<new.reason, new.gen>> = <<base.reason, base.gen>>
                        THEN current ELSE new
    IN [recorded |-> MergedRecorded(base.recorded, new.recorded, current.recorded),
        reason |-> conditions.reason,
        gen |-> conditions.gen]

\* A condition that carries the generation the cache has by now.
FreshOutcome(n, recorded, reason) ==
    [recorded |-> recorded, reason |-> reason, gen |-> cache[n].gen]

\* The generation is the one of the object the reconcile read.
Outcome(n, recorded, reason) ==
    [recorded |-> recorded, reason |-> reason, gen |-> obj[n].gen]

Patch(n, new, retry) ==
    PatchStatus(n, new, Merged(cache[n].status, new, api[n].status), retry)

PatchReady(n) ==
    /\ pc[n] = "patchReady"
    /\ Patch(n, Outcome(n, {Want(obj[n])}, "Reconciled"), FALSE)
    /\ UNCHANGED <<environment, budget>>

Report(n) ==
    /\ pc[n] = "report"
    /\ Patch(n, Outcome(n, cache[n].status.recorded, plan[n].reason), plan[n].retry)
    /\ UNCHANGED <<environment, budget>>

-------------------------------------------------------------------------------
(* deleteBucket and, under the policy Delete, DeleteBucket: the objects, then  *)
(* the bucket.                                                                 *)

ShouldBeDeleted(o) == o.spec.policy = "Delete"

\* A deletion that counts on a watch for the references to go.
StopWhileReferenced(n) == n \in referenced /\ Return(n, FALSE)

\* A deletion that looks again after ten seconds.
PollWhileReferenced(n) == n \in referenced /\ Return(n, TRUE)

PrepareDelete(n) ==
    LET o == obj[n]
        issue == provider \in {"absent", "notReady", "factoryError"}
        provisioned == o.status.recorded # {}
    IN /\ pc[n] = "prepareDelete"
       /\ \/ PollWhileReferenced(n)
          \/ /\ n \notin referenced
             /\ ~ShouldBeDeleted(o) \/ (provider = "restricted" /\ ~provisioned)
             /\ Proceed(n, "release")
          \/ /\ n \notin referenced
             /\ ShouldBeDeleted(o) /\ issue
             /\ Return(n, TRUE)
          \/ /\ n \notin referenced
             /\ ShouldBeDeleted(o) /\ provider = "restricted" /\ provisioned
             /\ Reporting(n, "RemoveFinalizerError", FALSE)
          \/ /\ n \notin referenced
             /\ ShouldBeDeleted(o) /\ provider = "ok"
             /\ Proceed(n, "deleteObjects")
       /\ UNCHANGED <<environment, budget>>

\* The name in the spec, which the user may have edited since.
SpecName(o) == o.spec.name

\* BucketNameForDelete.
NameForDelete(o) ==
    IF o.status.recorded = {} THEN o.spec.name
                              ELSE CHOOSE x \in RecordedNames(o) : TRUE

\* ProcessObjects reports a bucket that is not there as an error, and DeleteBucket
\* returns it.
DeleteObjects(n) ==
    LET x == NameForDelete(obj[n])
    IN /\ pc[n] = "deleteObjects"
       /\ IF There(x)
            THEN /\ cloud' = [cloud EXCEPT ![x] = {[b EXCEPT !.objects = FALSE] : b \in @}]
                 /\ Proceed(n, "deleteBucket")
            ELSE Reporting(n, "DeleteError", TRUE) /\ UNCHANGED cloud
       /\ UNCHANGED <<referenced, provider, budget>>

\* A bucket that is not there counts as deleted; the cloud refuses to delete one
\* with objects in it.
DeleteBucket(n) ==
    LET x == NameForDelete(obj[n])
    IN /\ pc[n] = "deleteBucket"
       /\ IF \E b \in cloud[x] : b.objects
            THEN Reporting(n, "DeleteError", TRUE) /\ UNCHANGED cloud
            ELSE cloud' = [cloud EXCEPT ![x] = {}] /\ Proceed(n, "release")
       /\ UNCHANGED <<referenced, provider, budget>>

RemoveFinalizer(n) == Release(n) /\ UNCHANGED <<environment, budget>>

-------------------------------------------------------------------------------
(* Failures. *)

\* A request to the API server fails: the reconcile returns the error.
ApiCallFails(n) ==
    /\ pc[n] \in {"addFinalizer", "patchReady", "report", "release"}
    /\ Return(n, TRUE)
    /\ SpendFault
    /\ UNCHANGED environment

\* A request to the cloud fails, with or without its effect.
CloudCallFails(n) ==
    /\ \/ /\ pc[n] \in {"get", "create", "update"}
          /\ cloud' \in {cloud} \union
               CASE pc[n] = "get"    -> {}
                 [] pc[n] = "create" -> {WithBucketFor(obj[n])}
                 [] pc[n] = "update" -> {WithPropertiesOf(obj[n])}
          /\ Reporting(n, "EnsureError", TRUE)
       \/ /\ pc[n] \in {"deleteObjects", "deleteBucket"}
          /\ LET x == NameForDelete(obj[n])
             IN cloud' \in {cloud} \union
                  IF pc[n] = "deleteObjects"
                    THEN {[cloud EXCEPT ![x] = {[b EXCEPT !.objects = FALSE] : b \in @}]}
                    ELSE {[cloud EXCEPT ![x] = {b \in @ : b.objects}]}
          /\ Reporting(n, "DeleteError", TRUE)
    /\ SpendFault
    /\ UNCHANGED <<referenced, provider>>

Crash == Restart /\ SpendFault /\ UNCHANGED environment

-------------------------------------------------------------------------------

User(n) == Create(n) \/ EditSpec(n) \/ RequestDeletion(n)

Reconcile(n) ==
    \/ AddFinalizer(n) \/ Check(n)
    \/ Get(n) \/ CreateBucket(n) \/ UpdateBucket(n)
    \/ PatchReady(n) \/ Report(n)
    \/ PrepareDelete(n) \/ DeleteObjects(n) \/ DeleteBucket(n) \/ RemoveFinalizer(n)

Next ==
    \/ \E n \in Resources :
         \/ User(n) \/ ReferencesChange(n)
         \/ Deliver(n) \/ Start(n) \/ Reconcile(n)
         \/ ApiCallFails(n) \/ CloudCallFails(n)
    \/ ProviderChanges
    \/ \E x \in Buckets : WriteObject(x)
    \/ Crash

Spec == Init /\ [][Next]_vars

\* Informer, worker and queue make progress; users, the environment and failures
\* need not.
Fairness ==
    \A n \in Resources :
      /\ WF_vars(Deliver(n))
      /\ SF_vars(Start(n))
      /\ WF_vars(Reconcile(n))

FairSpec == Spec /\ Fairness

-------------------------------------------------------------------------------
(* Properties. *)

\* A BucketAccess grants on a bucket whose resource is Ready for its current
\* generation: that bucket is in the cloud, where and as the spec asks.
ReadyMeansConfigured ==
    \A n \in Resources :
      /\ api[n].exists /\ ~api[n].deleting
      /\ api[n].status.reason = "Reconciled"
      /\ api[n].status.gen = api[n].gen
      => AsAsked(api[n])

\* A resource that left the API server under deletionPolicy Delete leaves no
\* bucket it recorded, however old the copy its deletion worked on and whatever
\* name its spec was edited to.
ReleasedMeansDeleted ==
    \A n \in Resources :
      ~api[n].exists /\ ShouldBeDeleted(api[n])
      => \A x \in RecordedNames(api[n]) : ~There(x)

\* The controller keeps the promise of FinalizerProtocol.
Protocol == INSTANCE FinalizerProtocol WITH
    Names <- Resources,
    Things <- Buckets,
    claimed <- {n \in Resources : api[n].exists /\ api[n].finalizer},
    owned <- [n \in Resources |-> BucketsOf(n)],
    recorded <- [n \in Resources |-> RecordedNames(api[n])],
    kept <- {n \in Resources : ~ShouldBeDeleted(api[n])}

KeepsFinalizerProtocol == Protocol!Spec

Serviceable(n) ==
    /\ api[n].exists /\ ~api[n].deleting
    /\ Obstacle(api[n]) = "None"
    /\ \A b \in cloud[api[n].spec.name] : b.location = api[n].spec.location

\* Left alone, a resource that nothing stands in the way of becomes Ready, with
\* the bucket in the cloud and in its status as its spec asks: update and status
\* reach a fixed point.
Converges ==
    <>[](\A n \in Resources :
           Serviceable(n) =>
             /\ api[n].status.reason = "Reconciled"
             /\ api[n].status.gen = api[n].gen
             /\ api[n].status.recorded = {Want(api[n])}
             /\ AsAsked(api[n]))

Hindered(n) == n \in referenced \/ (provider # "ok" /\ ShouldBeDeleted(api[n]))

\* Left alone, a resource whose deletion was requested goes away, unless a
\* reference or the ProviderConfig stands in the way, or its bucket is not there.
DeletionCompletes ==
    <>[](\A n \in Resources :
           api[n].exists /\ api[n].deleting
           => Hindered(n) \/ ~There(NameForDelete(api[n])))

\* ... or not: a bucket that is not there counts as deleted.
DeletionSettles ==
    <>[](\A n \in Resources : api[n].exists /\ api[n].deleting => Hindered(n))
===============================================================================
