----------------------------- MODULE BucketAccess -----------------------------
(***************************************************************************)
(* The BucketAccess controller: custom resources that grant a principal a  *)
(* level of access to a bucket, the informer cache the reconciler reads    *)
(* them through, the single worker that reconciles them, and the access    *)
(* bindings of the cloud.                                                  *)
(*                                                                         *)
(* internal/controller/bucket_access_controller.go, the EnsureBucketAccess *)
(* and DeleteBucketAccess of internal/cloud/gcp and internal/cloud/yc (the *)
(* two files are the same), internal/resolvers/bucket_access.go.           *)
(*                                                                         *)
(* One action is one call that leaves the process or one decision between  *)
(* two of them; anything may happen between two actions.                   *)
(***************************************************************************)
EXTENDS KubeObject

CONSTANTS
    Access,             \* names of BucketAccess resources
    Buckets,            \* names of Bucket resources
    Principals,         \* names of CloudPrincipal resources
    Levels,             \* spec.access.level
    BucketOf,           \* spec.bucketRef, which the CRD makes immutable
    SpecsOf,            \* the specs the users of a resource write
    Existing,           \* resources created before the operator started
    UnsupportedLevels,  \* levels the provider's capabilities do not list
    ForeignPrincipals,  \* principals of another ProviderConfig than the bucket's
    DependencyPhases,   \* phases the environment moves buckets and principals to
    ProviderPhases,     \* phases the environment moves the ProviderConfig to
    MaxEdits,           \* bound: actions of users and of the environment
    MaxFaults           \* bound: failed calls and crashes of the controller

ASSUME ConstantsAssumption ==
    /\ Principals # {} /\ Levels # {}
    /\ BucketOf \in [Access -> Buckets]
    /\ DependencyPhases \subseteq {"absent", "notReady", "ready", "deleting"}
    /\ ProviderPhases \subseteq
         {"ok", "absent", "notReady", "factoryError", "restricted"}
    /\ MaxEdits \in Nat
    /\ MaxFaults \in Nat

VARIABLES
    api,       \* the objects in the API server
    cache,     \* the informer's copy of them
    watch,     \* versions committed and not yet delivered to the informer
    queue,     \* the controller's work queue (a set: requests are merged)
    pc,        \* where the worker stands in the reconcile of a resource
    obj,       \* the in-memory object of that reconcile
    plan,      \* the failure that reconcile is about to report
    grants,    \* the access bindings in the cloud
    dep,       \* buckets and principals as the controller's cache shows them
    provider,  \* what prepareProvider and the usage policy say
    budget     \* what is left of MaxEdits and MaxFaults

vars == <<api, cache, watch, queue, pc, obj, plan, grants, dep, provider, budget>>

-------------------------------------------------------------------------------
(* Data. *)

Specs == [principal: Principals, level: Levels, policy: {"Delete", "Retain"}]

ASSUME DataAssumption ==
    /\ SpecsOf \in [Access -> SUBSET Specs]
    /\ \A a \in Access : SpecsOf[a] # {}
    /\ Existing \subseteq Access

Grants == [bucket: Buckets, principal: Principals, level: Levels]

\* The reason of the Ready condition; the condition is True with "Reconciled"
\* and False with every other reason.
Reasons == {"None", "Reconciled", "BucketNotFound", "PrincipalNotFound",
            "DependencyNotReady", "ProviderMismatch", "ProviderIssue",
            "Restricted", "Unsupported", "EnsureError", "DeleteError",
            "RemoveFinalizerError"}

\* applied is empty for a nil status.applied; gen is the observedGeneration.
Statuses == [applied: {{}} \union {{g} : g \in Grants}, reason: Reasons, gen: Nat]

NoStatus == [applied |-> {}, reason |-> "None", gen |-> 0]

Objects == Versions(Specs, Statuses)

NoObject == NeverCreated(CHOOSE s \in Specs : TRUE, NoStatus)

PCs == {"idle", "addFinalizer", "check", "deleteSelf", "revokeStale", "grant",
        "patchReady", "prepareDelete", "revokeRecorded", "release", "report"}

Plans == [reason: Reasons, retry: BOOLEAN]

NoPlan == [reason |-> "None", retry |-> FALSE]

INSTANCE Reconciler WITH Names <- Access

environment == <<grants, dep, provider>>

\* What EnsureBucketAccess wants to be granted for version o of resource a.
Want(a, o) ==
    [bucket |-> BucketOf[a], principal |-> o.spec.principal, level |-> o.spec.level]

\* The bindings a resource may ask for, and those its status may come to record:
\* patches that each change one field mix what was asked for at different times.
BindingsOf(a) ==
    [bucket: {BucketOf[a]},
     principal: {s.principal : s \in SpecsOf[a]},
     level: {s.level : s \in SpecsOf[a]}]

GrantsOf(a) == grants \intersect BindingsOf(a)

TypeOK ==
    /\ api \in [Access -> Objects]
    /\ cache \in [Access -> Objects]
    /\ watch \in [Access -> SUBSET Objects]
    /\ queue \subseteq Access
    /\ pc \in [Access -> PCs]
    /\ obj \in [Access -> Objects]
    /\ plan \in [Access -> Plans]
    /\ grants \subseteq Grants
    /\ dep \in [Buckets \union Principals ->
                  {"absent", "notReady", "ready", "deleting"}]
    /\ provider \in {"ok", "absent", "notReady", "factoryError", "restricted"}
    /\ budget \in [edits: Nat, faults: Nat]

-------------------------------------------------------------------------------
(* The operator starts on resources that were created while it was away. *)

Init ==
    /\ \E s \in [Access -> Specs] :
         /\ \A a \in Access : s[a] \in SpecsOf[a]
         /\ api = [a \in Access |->
              IF a \in Existing THEN Created(NoObject, s[a], NoStatus) ELSE NoObject]
    /\ cache = api
    /\ watch = [a \in Access |-> {}]
    /\ queue = Existing
    /\ pc = [a \in Access |-> "idle"]
    /\ obj = [a \in Access |-> NoObject]
    /\ plan = [a \in Access |-> NoPlan]
    /\ grants = {}
    /\ dep \in [Buckets \union Principals -> DependencyPhases \ {"deleting"}]
    /\ provider = "ok"
    /\ budget = [edits |-> MaxEdits, faults |-> MaxFaults]

-------------------------------------------------------------------------------
(* Users and the environment. *)

Create(a) ==
    /\ \E s \in SpecsOf[a] : Post(a, s, NoStatus)
    /\ UNCHANGED environment

EditSpec(a) ==
    /\ \E s \in SpecsOf[a] \ {api[a].spec} : Put(a, s)
    /\ UNCHANGED environment

RequestDeletion(a) ==
    /\ Delete(a)
    /\ UNCHANGED environment

\* A controller without the watch on CloudPrincipal.
ReferencingBucketOnly(d) == {a \in Access : cache[a].exists /\ d = BucketOf[a]}

\* findBucketAccessOfBucket, findBucketAccessOfPrincipal: the resources whose
\* cached spec references d.
Referencing(d) ==
    {a \in Access : cache[a].exists /\ d \in {BucketOf[a], cache[a].spec.principal}}

\* The life of a Bucket or a CloudPrincipal.  Its finalizer goes only when the
\* cache shows no resource referencing it (IsReferenced of its resolver).
PhaseChanges ==
    {<<"absent", "notReady">>, <<"notReady", "ready">>, <<"ready", "notReady">>,
     <<"notReady", "deleting">>, <<"ready", "deleting">>, <<"deleting", "absent">>}

\* The controller's cache learns that a bucket or a principal changed, and the
\* watch of that kind queues the resources that reference it.
DependencyChanges(d) ==
    /\ \E p \in DependencyPhases :
         /\ <<dep[d], p>> \in PhaseChanges
         /\ p = "absent" => Referencing(d) = {}
         /\ dep' = [dep EXCEPT ![d] = p]
    /\ Wake(Referencing(d))
    /\ SpendEdit
    /\ UNCHANGED <<grants, provider>>

\* The same for the ProviderConfig: findBucketAccessOfProviderConfig goes through
\* the buckets that reference it.
ProviderChanges ==
    /\ \E p \in ProviderPhases \ {provider} : provider' = p
    /\ Wake({a \in Access : cache[a].exists /\ dep[BucketOf[a]] # "absent"})
    /\ SpendEdit
    /\ UNCHANGED <<grants, dep>>

-------------------------------------------------------------------------------
(* The reconcile. *)

Deliver(a) == Inform(a) /\ UNCHANGED <<environment, budget>>

Start(a) == Begin(a, cache[a]) /\ UNCHANGED <<environment, budget>>

AddFinalizer(a) == Claim(a) /\ UNCHANGED <<environment, budget>>

\* prepareBucket, prepareCloudPrincipal, the ProviderConfig comparison,
\* prepareProvider, the usage policy and the capabilities, in the order of the
\* code: what stops the reconcile, or "None".
Obstacle(a, o) ==
    LET bucket == dep[BucketOf[a]]
        principal == dep[o.spec.principal]
    IN CASE bucket = "absent"                         -> "BucketNotFound"
         [] principal = "absent"                      -> "PrincipalNotFound"
         [] "notReady" \in {bucket, principal}        -> "DependencyNotReady"
         [] o.spec.principal \in ForeignPrincipals    -> "ProviderMismatch"
         [] provider \in {"absent", "notReady", "factoryError"} -> "ProviderIssue"
         [] provider = "restricted"                   -> "Restricted"
         [] o.spec.level \in UnsupportedLevels        -> "Unsupported"
         [] OTHER                                     -> "None"

\* A terminating bucket, or a terminating principal of a bucket that is there,
\* ends the resource.
MustDeleteSelf(a, o) ==
    \/ dep[BucketOf[a]] = "deleting"
    \/ dep[BucketOf[a]] # "absent" /\ dep[o.spec.principal] = "deleting"

Check(a) ==
    /\ pc[a] = "check"
    /\ \/ MustDeleteSelf(a, obj[a]) /\ Proceed(a, "deleteSelf")
       \/ /\ ~MustDeleteSelf(a, obj[a])
          /\ Obstacle(a, obj[a]) = "None"
          /\ Proceed(a, "revokeStale")
       \/ /\ ~MustDeleteSelf(a, obj[a])
          /\ Obstacle(a, obj[a]) # "None"
          /\ Reporting(a, Obstacle(a, obj[a]),
                       Obstacle(a, obj[a]) = "ProviderIssue" /\ provider = "factoryError")
    /\ UNCHANGED <<environment, budget>>

\* r.Delete carries no precondition: it hits whatever has the name now, and
\* NotFound is not an error.
DeleteSelf(a) ==
    /\ pc[a] = "deleteSelf"
    /\ IF api[a].exists /\ ~api[a].deleting
         THEN Commit(a, DeletionRequested(api[a]))
         ELSE UNCHANGED <<api, watch>>
    /\ Finish(a, FALSE)
    /\ UNCHANGED <<cache, environment, budget>>

\* The bindings EnsureBucketAccess takes back: what status.applied records,
\* unless that is what is wanted.
Stale(a) == obj[a].status.applied \ {Want(a, obj[a])}

RevokeStale(a) ==
    /\ pc[a] = "revokeStale"
    /\ grants' = grants \ Stale(a)
    /\ Proceed(a, "grant")
    /\ UNCHANGED <<dep, provider, budget>>

Grant(a) ==
    /\ pc[a] = "grant"
    /\ grants' = grants \union {Want(a, obj[a])}
    /\ Proceed(a, "patchReady")
    /\ UNCHANGED <<dep, provider, budget>>

-------------------------------------------------------------------------------
(* The status patch at the end of a reconcile. *)

\* A merge in which a map is only ever added to.
MergedAppliedUnion(base, new, current) == current \union new

\* The fields of status.applied merge one by one; against a nil one all are sent.
MergedApplied(base, new, current) ==
    IF new = base THEN current
    ELSE IF base = {} \/ current = {} THEN new
    ELSE {[bucket |-> c.bucket,
           principal |-> IF n.principal = b.principal THEN c.principal
                                                      ELSE n.principal,
           level |-> IF n.level = b.level THEN c.level ELSE n.level] :
             b \in base, n \in new, c \in current}

\* The list of conditions is replaced as a whole.
Merged(base, new, current) ==
    LET conditions == IF <<new.reason, new.gen>> = <<base.reason, base.gen>>
                        THEN current ELSE new
    IN [applied |-> MergedApplied(base.applied, new.applied, current.applied),
        reason |-> conditions.reason,
        gen |-> conditions.gen]

\* A condition that carries the generation the cache has by now.
FreshOutcome(a, applied, reason) ==
    [applied |-> applied, reason |-> reason, gen |-> cache[a].gen]

\* The condition carries the generation of the object the reconcile read.
Outcome(a, applied, reason) ==
    [applied |-> applied, reason |-> reason, gen |-> obj[a].gen]

Patch(a, new, retry) ==
    PatchStatus(a, new, Merged(cache[a].status, new, api[a].status), retry)

PatchReady(a) ==
    /\ pc[a] = "patchReady"
    /\ Patch(a, Outcome(a, {Want(a, obj[a])}, "Reconciled"), FALSE)
    /\ UNCHANGED <<environment, budget>>

Report(a) ==
    /\ pc[a] = "report"
    /\ Patch(a, Outcome(a, cache[a].status.applied, plan[a].reason), plan[a].retry)
    /\ UNCHANGED <<environment, budget>>

-------------------------------------------------------------------------------
(* deleteBucketAccess. *)

\* Something was granted that the deletion policy wants revoked.
MustRevoke(o) == o.spec.policy = "Delete" /\ o.status.applied # {}

PrepareDelete(a) ==
    /\ pc[a] = "prepareDelete"
    /\ \/ ~MustRevoke(obj[a]) /\ Proceed(a, "release")
       \/ /\ MustRevoke(obj[a])
          /\ provider = "ok"
          /\ Proceed(a, "revokeRecorded")
       \/ /\ MustRevoke(obj[a])
          /\ provider \in {"absent", "notReady", "factoryError"}
          /\ Return(a, TRUE)
       \/ /\ MustRevoke(obj[a])
          /\ provider = "restricted"
          /\ Reporting(a, "RemoveFinalizerError", FALSE)
    /\ UNCHANGED <<environment, budget>>

\* DeleteBucketAccess.
RevokeRecorded(a) ==
    /\ pc[a] = "revokeRecorded"
    /\ grants' = grants \ obj[a].status.applied
    /\ Proceed(a, "release")
    /\ UNCHANGED <<dep, provider, budget>>

RemoveFinalizer(a) == Release(a) /\ UNCHANGED <<environment, budget>>

-------------------------------------------------------------------------------
(* Failures. *)

\* A request to the API server fails: the reconcile returns the error.
ApiCallFails(a) ==
    /\ pc[a] \in {"addFinalizer", "deleteSelf", "patchReady", "report", "release"}
    /\ Return(a, TRUE)
    /\ SpendFault
    /\ UNCHANGED environment

\* A request to the cloud fails, with or without its effect, and the failure is
\* reported in the Ready condition.
CloudCallFails(a) ==
    /\ \/ /\ pc[a] = "revokeStale"
          /\ grants' \in {grants, grants \ Stale(a)}
          /\ Reporting(a, "EnsureError", TRUE)
       \/ /\ pc[a] = "grant"
          /\ grants' \in {grants, grants \union {Want(a, obj[a])}}
          /\ Reporting(a, "EnsureError", TRUE)
       \/ /\ pc[a] = "revokeRecorded"
          /\ grants' \in {grants, grants \ obj[a].status.applied}
          /\ Reporting(a, "DeleteError", TRUE)
    /\ SpendFault
    /\ UNCHANGED <<dep, provider>>

Crash == Restart /\ SpendFault /\ UNCHANGED environment

-------------------------------------------------------------------------------

User(a) == Create(a) \/ EditSpec(a) \/ RequestDeletion(a)

Reconcile(a) ==
    \/ AddFinalizer(a) \/ Check(a) \/ DeleteSelf(a)
    \/ RevokeStale(a) \/ Grant(a) \/ PatchReady(a) \/ Report(a)
    \/ PrepareDelete(a) \/ RevokeRecorded(a) \/ RemoveFinalizer(a)

Next ==
    \/ \E a \in Access :
         \/ User(a) \/ Deliver(a) \/ Start(a) \/ Reconcile(a)
         \/ ApiCallFails(a) \/ CloudCallFails(a)
    \/ \E d \in Buckets \union Principals : DependencyChanges(d)
    \/ ProviderChanges
    \/ Crash

Spec == Init /\ [][Next]_vars

\* The informer keeps delivering; the worker finishes what it started; the
\* work queue is first in, first out, so that no request waits forever behind
\* the others.  Users, the environment and failures are under no obligation.
Fairness ==
    \A a \in Access :
      /\ WF_vars(Deliver(a))
      /\ SF_vars(Start(a))
      /\ WF_vars(Reconcile(a))

FairSpec == Spec /\ Fairness

-------------------------------------------------------------------------------
(* Properties. *)

\* A Ready condition that is current for the resource's generation is not a
\* claim about the past: the access the spec asks for is in the cloud.  This
\* is what the observedGeneration patchStatus writes is for.
ReadyMeansGranted ==
    \A a \in Access :
      /\ api[a].exists /\ ~api[a].deleting
      /\ api[a].status.reason = "Reconciled"
      /\ api[a].status.gen = api[a].gen
      => Want(a, api[a]) \in grants

\* A resource that left the API server under deletionPolicy Delete leaves no
\* access it recorded in status.applied, whatever the cache showed when its
\* deletion was reconciled.
ReleasedMeansRevoked ==
    \A a \in Access :
      ~api[a].exists /\ api[a].spec.policy = "Delete"
      => api[a].status.applied \intersect grants = {}

\* The controller keeps the promise of FinalizerProtocol: access appears only
\* while the finalizer is on the resource, so that no deletion request overtakes
\* the reconcile that grants; the finalizer goes only when the access recorded
\* at that very moment is gone, or the policy is Retain.
Protocol == INSTANCE FinalizerProtocol WITH
    Names <- Access,
    Things <- Grants,
    claimed <- {a \in Access : api[a].exists /\ api[a].finalizer},
    owned <- [a \in Access |-> GrantsOf(a)],
    recorded <- [a \in Access |-> api[a].status.applied],
    kept <- {a \in Access : api[a].spec.policy = "Retain"}

KeepsFinalizerProtocol == Protocol!Spec

\* What patchStatus last wrote in status.applied is all the access a settled
\* resource has in the cloud.
Settled(a) ==
    /\ \A b \in Access : pc[b] = "idle"
    /\ a \notin queue
    /\ watch[a] = {}

AppliedCoversGrants ==
    \A a \in Access :
      Settled(a) /\ api[a].exists /\ api[a].status.reason = "Reconciled"
      => GrantsOf(a) \subseteq api[a].status.applied

\* Nothing stands between the resource and its access.
Serviceable(a) ==
    /\ api[a].exists /\ ~api[a].deleting
    /\ ~MustDeleteSelf(a, api[a])
    /\ Obstacle(a, api[a]) = "None"

\* Once users, the environment and failures leave it alone, a resource that can
\* be served is Ready for its current generation and records the access it has:
\* no wakeup is lost, although most obstacles end a reconcile without a requeue.
Converges ==
    <>[](\A a \in Access :
           Serviceable(a) =>
             /\ api[a].status.reason = "Reconciled"
             /\ api[a].status.gen = api[a].gen
             /\ api[a].status.applied = {Want(a, api[a])}
             /\ Want(a, api[a]) \in grants)

\* ... and a resource whose deletion was requested, or whose bucket or principal
\* is terminating, goes away unless the ProviderConfig stands in the way.
DeletionCompletes ==
    <>[](\A a \in Access :
           /\ api[a].exists
           /\ api[a].deleting \/ MustDeleteSelf(a, api[a])
           => api[a].deleting /\ provider # "ok" /\ MustRevoke(api[a]))
===============================================================================
