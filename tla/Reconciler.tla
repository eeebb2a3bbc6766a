------------------------------ MODULE Reconciler ------------------------------
(***************************************************************************)
(* What the controllers of internal/controller share: custom resources in  *)
(* the API server, the informer's copy of them, a work queue with a single *)
(* worker, and the reconcile in progress.                                  *)
(*                                                                         *)
(* A controller instantiates this module and builds its actions from these *)
(* pieces.  A piece says what becomes of the variables here, the budget    *)
(* excepted; the budget changes where SpendEdit or SpendFault is.          *)
(***************************************************************************)
EXTENDS KubeObject

CONSTANTS
    Names,     \* names of resources
    NoObject,  \* the in-memory object outside of a reconcile
    NoPlan     \* nothing to report

VARIABLES
    api,     \* the objects in the API server
    cache,   \* the informer's copy of them
    watch,   \* versions committed and not yet delivered to the informer
    queue,   \* the controller's work queue (a set: requests are merged)
    pc,      \* where the worker stands in the reconcile of a resource
    obj,     \* the in-memory object of that reconcile
    plan,    \* the failure that reconcile is about to report
    budget   \* how many edits and how many faults are left

-------------------------------------------------------------------------------
(* The API server. *)

\* It stores version o of resource n and tells the watchers.
Commit(n, o) ==
    /\ api' = [api EXCEPT ![n] = o]
    /\ watch' = [watch EXCEPT ![n] = @ \union {o}]

SpendEdit ==
    /\ budget.edits > 0
    /\ budget' = [budget EXCEPT !.edits = @ - 1]

SpendFault ==
    /\ budget.faults > 0
    /\ budget' = [budget EXCEPT !.faults = @ - 1]

\* Requests of users.
Post(n, spec, status) ==
    /\ ~api[n].exists
    /\ Commit(n, Created(api[n], spec, status))
    /\ SpendEdit
    /\ UNCHANGED <<cache, queue, pc, obj, plan>>

Put(n, spec) ==
    /\ api[n].exists
    /\ Commit(n, SpecEdited(api[n], spec))
    /\ SpendEdit
    /\ UNCHANGED <<cache, queue, pc, obj, plan>>

Delete(n) ==
    /\ api[n].exists /\ ~api[n].deleting
    /\ Commit(n, DeletionRequested(api[n]))
    /\ SpendEdit
    /\ UNCHANGED <<cache, queue, pc, obj, plan>>

-------------------------------------------------------------------------------
(* The informer: each object's versions arrive in order, late. *)

\* An informer with GenerationChangedPredicate, which hides status patches.
InformOnGeneration(n) ==
    /\ \E v \in watch[n] :
         /\ Earliest(watch[n], v)
         /\ cache' = [cache EXCEPT ![n] = v]
         /\ watch' = [watch EXCEPT ![n] = @ \ {v}]
         /\ queue' = IF v.gen # cache[n].gen THEN queue \union {n} ELSE queue
    /\ UNCHANGED <<api, pc, obj, plan>>

Inform(n) ==
    /\ \E v \in watch[n] :
         /\ Earliest(watch[n], v)
         /\ cache' = [cache EXCEPT ![n] = v]
         /\ watch' = [watch EXCEPT ![n] = @ \ {v}]
    /\ queue' = queue \union {n}
    /\ UNCHANGED <<api, pc, obj, plan>>

\* A watch on another kind queues the resources that refer to what changed.
Wake(ns) ==
    /\ queue' = queue \union ns
    /\ UNCHANGED <<api, cache, watch, pc, obj, plan>>

-------------------------------------------------------------------------------
(* The reconcile, step by step. *)

GoTo(n, step) == pc' = [pc EXCEPT ![n] = step]

\* The reconcile returns: with an error it is queued again, after a backoff.
Finish(n, retry) ==
    /\ pc' = [pc EXCEPT ![n] = "idle"]
    /\ obj' = [obj EXCEPT ![n] = NoObject]
    /\ plan' = [plan EXCEPT ![n] = NoPlan]
    /\ queue' = IF retry THEN queue \union {n} ELSE queue

Return(n, retry) ==
    /\ Finish(n, retry)
    /\ UNCHANGED <<api, cache, watch>>

Proceed(n, step) ==
    /\ GoTo(n, step)
    /\ UNCHANGED <<api, cache, watch, queue, obj, plan>>

\* The reconcile goes on to patch the Ready condition with a failure.
Reporting(n, reason, retry) ==
    /\ plan' = [plan EXCEPT ![n] = [reason |-> reason, retry |-> retry]]
    /\ GoTo(n, "report")
    /\ UNCHANGED <<api, cache, watch, queue, obj>>

\* The finalizer is left to a later pass.
FirstStepWithoutFinalizer(o) == IF o.deleting THEN "prepareDelete" ELSE "check"

\* Resolve, and what the reconcile...Finalizer function makes of the object.
FirstStep(o) ==
    IF o.deleting THEN "prepareDelete"
                  ELSE IF o.finalizer THEN "check" ELSE "addFinalizer"

\* The only worker takes a request and reads version o of the resource.
Begin(n, o) ==
    /\ \A m \in Names : pc[m] = "idle"
    /\ n \in queue
    /\ queue' = queue \ {n}
    /\ \/ /\ o.exists
          /\ o.deleting => o.finalizer
          /\ obj' = [obj EXCEPT ![n] = o]
          /\ GoTo(n, FirstStep(o))
       \/ /\ ~o.exists \/ (o.deleting /\ ~o.finalizer)
          /\ UNCHANGED <<pc, obj>>
    /\ UNCHANGED <<api, cache, watch, plan>>

\* Update(finalizer): the response replaces the in-memory object.
Claim(n) ==
    /\ pc[n] = "addFinalizer"
    /\ \/ /\ Accepts(api[n], obj[n])
          /\ Commit(n, FinalizerAdded(api[n]))
          /\ obj' = [obj EXCEPT ![n] = FinalizerAdded(api[n])]
          /\ GoTo(n, "check")
          /\ UNCHANGED <<plan, queue>>
       \/ /\ ~Accepts(api[n], obj[n])
          /\ Finish(n, TRUE)
          /\ UNCHANGED <<api, watch>>
    /\ UNCHANGED cache

\* A patch that takes the finalizer off whatever version is there.
ReleaseBlindly(n) ==
    /\ pc[n] = "release"
    /\ IF api[n].exists
         THEN Commit(n, Gone(api[n])) /\ Finish(n, FALSE)
         ELSE UNCHANGED <<api, watch>> /\ Finish(n, TRUE)
    /\ UNCHANGED cache

\* Update(without finalizer): a conflict or NotFound is retried.
Release(n) ==
    /\ pc[n] = "release"
    /\ IF Accepts(api[n], obj[n])
         THEN Commit(n, Gone(api[n])) /\ Finish(n, FALSE)
         ELSE UNCHANGED <<api, watch>> /\ Finish(n, TRUE)
    /\ UNCHANGED cache

\* The reconcile goes on with o as its in-memory object.
ProceedWith(n, o, step) ==
    /\ obj' = [obj EXCEPT ![n] = o]
    /\ GoTo(n, step)
    /\ UNCHANGED <<api, cache, watch, queue, plan>>

\* patchStatus, a JSON merge patch of the status without a resourceVersion.  new
\* is the status it makes of the cached copy, and merged what the patch makes of
\* the server's.  Only what differs from the cached copy is sent, nothing when
\* nothing differs; a patch that changes nothing on the server makes no new
\* version.
Differs(n, new) == cache[n].exists /\ new # cache[n].status

SendPatch(n, new, merged) ==
    IF Differs(n, new) /\ api[n].exists /\ merged # api[n].status
      THEN Commit(n, StatusWritten(api[n], merged))
      ELSE UNCHANGED <<api, watch>>

\* It fails when the cache has no copy or the server no object.
PatchRefused(n, new) == ~cache[n].exists \/ (Differs(n, new) /\ ~api[n].exists)

\* patchStatus and the end of the reconcile.
PatchStatus(n, new, merged, retry) ==
    /\ SendPatch(n, new, merged)
    /\ Finish(n, retry \/ PatchRefused(n, new))
    /\ UNCHANGED cache

\* The operator dies and starts again: its informer lists the current objects
\* and each of them is queued.
Restart ==
    /\ cache' = api
    /\ watch' = [n \in Names |-> {}]
    /\ queue' = {n \in Names : api[n].exists}
    /\ pc' = [n \in Names |-> "idle"]
    /\ obj' = [n \in Names |-> NoObject]
    /\ plan' = [n \in Names |-> NoPlan]
    /\ UNCHANGED api
===============================================================================
