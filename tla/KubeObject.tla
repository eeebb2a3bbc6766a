------------------------------ MODULE KubeObject ------------------------------
(***************************************************************************)
(* Versions of a custom resource in the Kubernetes API server, and what    *)
(* the API server does to them.  The server is not in the repository; this *)
(* is what the reconcilers under internal/controller use of it:            *)
(*                                                                         *)
(*   rv         metadata.resourceVersion: every committed write raises it  *)
(*   uid        metadata.uid: distinguishes objects re-created by name     *)
(*   gen        metadata.generation: raised by a spec edit and by the      *)
(*              deletion request, left alone by metadata and status writes *)
(*   exists     FALSE in the version a DELETED watch event carries         *)
(*   deleting   metadata.deletionTimestamp is set                          *)
(*   finalizer  the controller's finalizer is on the object                *)
(*   spec, status  as each controller's module defines them                *)
(***************************************************************************)
EXTENDS Integers

Versions(Specs, Statuses) ==
    [rv: Nat, uid: Nat, gen: Nat, exists: BOOLEAN, deleting: BOOLEAN,
     finalizer: BOOLEAN, spec: Specs, status: Statuses]

\* A name nothing was ever created under.
NeverCreated(spec, status) ==
    [rv |-> 0, uid |-> 0, gen |-> 0, exists |-> FALSE, deleting |-> FALSE,
     finalizer |-> FALSE, spec |-> spec, status |-> status]

\* A POST under the name whose last version is o.
Created(o, spec, status) ==
    [rv |-> o.rv + 1, uid |-> o.rv + 1, gen |-> 1, exists |-> TRUE,
     deleting |-> FALSE, finalizer |-> FALSE, spec |-> spec, status |-> status]

SpecEdited(o, spec) ==
    [o EXCEPT !.rv = @ + 1, !.gen = @ + 1, !.spec = spec]

StatusWritten(o, status) ==
    [o EXCEPT !.rv = @ + 1, !.status = status]

FinalizerAdded(o) ==
    [o EXCEPT !.rv = @ + 1, !.finalizer = TRUE]

\* The object leaves the API server; its last spec and status stay in the
\* record, as they do in the DELETED event.
Gone(o) ==
    [o EXCEPT !.rv = @ + 1, !.exists = FALSE, !.finalizer = FALSE]

\* A DELETE request: with a finalizer the object stays, marked.
DeletionRequested(o) ==
    IF o.finalizer THEN [o EXCEPT !.rv = @ + 1, !.gen = @ + 1, !.deleting = TRUE]
                   ELSE Gone(o)

\* Optimistic concurrency: an Update is accepted only when the caller holds
\* the current version.
Accepts(current, sent) == current.exists /\ current.rv = sent.rv

\* The next watch event of an object: events are delivered in rv order.
Earliest(pending, v) == v \in pending /\ \A u \in pending : v.rv <= u.rv
===============================================================================
