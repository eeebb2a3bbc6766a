-------------------------- MODULE BucketAccess_proofs --------------------------
(***************************************************************************)
(* Proofs about BucketAccess, for every set of resources, buckets,         *)
(* principals and levels and for every bound on edits and failures.        *)
(***************************************************************************)
EXTENDS BucketAccess, KubeObject_proofs, TLAPS

-------------------------------------------------------------------------------
(* Types. *)

\* What the API server makes of a version is a version.
LEMMA VersionTypes ==
    ASSUME NEW o \in Objects, NEW s \in Specs, NEW t \in Statuses
    PROVE  /\ Created(o, s, t) \in Objects
           /\ SpecEdited(o, s) \in Objects
           /\ StatusWritten(o, t) \in Objects
           /\ FinalizerAdded(o) \in Objects
           /\ Gone(o) \in Objects
           /\ DeletionRequested(o) \in Objects
  <1> USE DEF Objects, Versions
  <1>1. o.rv + 1 \in Nat /\ o.gen + 1 \in Nat
    OBVIOUS
  <1>2. Created(o, s, t) \in Objects
    BY <1>1 DEF Created
  <1>3. SpecEdited(o, s) \in Objects
    BY <1>1 DEF SpecEdited
  <1>4. StatusWritten(o, t) \in Objects
    BY <1>1 DEF StatusWritten
  <1>5. FinalizerAdded(o) \in Objects
    BY <1>1 DEF FinalizerAdded
  <1>6. Gone(o) \in Objects
    BY <1>1 DEF Gone
  <1>7. DeletionRequested(o) \in Objects
    BY <1>1, <1>6 DEF DeletionRequested
  <1>8. QED
    BY <1>2, <1>3, <1>4, <1>5, <1>6, <1>7

LEMMA NoStatusType == NoStatus \in Statuses
  BY DEF NoStatus, Statuses, Reasons

LEMMA NoObjectType == NoObject \in Objects
  <1>1. \E s \in Specs : TRUE
    <2>1. PICK p \in Principals, l \in Levels : TRUE
      BY ConstantsAssumption
    <2>2. [principal |-> p, level |-> l, policy |-> "Delete"] \in Specs
      BY DEF Specs
    <2>3. QED
      BY <2>2
  <1>2. (CHOOSE s \in Specs : TRUE) \in Specs
    BY <1>1
  <1>3. QED
    BY <1>2, NoStatusType DEF NoObject, NeverCreated, Objects, Versions

\* The binding EnsureBucketAccess asks for is a binding.
LEMMA WantType ==
    ASSUME NEW a \in Access, NEW o \in Objects
    PROVE  Want(a, o) \in Grants /\ Want(a, o).bucket = BucketOf[a]
  BY ConstantsAssumption DEF Want, Grants, Objects, Versions, Specs

Applieds == {{}} \union {{g} : g \in Grants}

\* A resource asks for a binding of its own when its spec is one its users write.
LEMMA WantOwn ==
    ASSUME NEW a \in Access, NEW o, o.spec \in SpecsOf[a]
    PROVE  Want(a, o) \in BindingsOf(a)
  BY DEF Want, BindingsOf

\* Merging two values of status.applied into a third gives at most one binding.
LEMMA MergedAppliedType ==
    ASSUME NEW base \in Applieds, NEW new \in Applieds, NEW current \in Applieds
    PROVE  MergedApplied(base, new, current) \in Applieds
  <1>1. CASE new = base \/ base = {} \/ current = {}
    BY <1>1 DEF MergedApplied
  <1>2. CASE new # base /\ base # {} /\ current # {} /\ new = {}
    BY <1>2 DEF MergedApplied, Applieds
  <1>3. CASE new # base /\ base # {} /\ current # {} /\ new # {}
    <2>1. PICK b \in Grants : base = {b}
      BY <1>3 DEF Applieds
    <2>2. PICK n \in Grants : new = {n}
      BY <1>3 DEF Applieds
    <2>3. PICK c \in Grants : current = {c}
      BY <1>3 DEF Applieds
    <2> DEFINE g == [bucket |-> c.bucket,
                     principal |-> IF n.principal = b.principal
                                     THEN c.principal ELSE n.principal,
                     level |-> IF n.level = b.level THEN c.level ELSE n.level]
    <2>4. MergedApplied(base, new, current) = {g}
      BY <1>3, <2>1, <2>2, <2>3 DEF MergedApplied
    <2>5. g \in Grants
      BY <2>1, <2>2, <2>3 DEF Grants
    <2>6. QED
      BY <2>4, <2>5 DEF Applieds
  <1>4. QED
    BY <1>1, <1>2, <1>3

\* Each field of the outcome comes from the value sent or from the value merged into.
LEMMA MergedKeepsBindings ==
    ASSUME NEW a, NEW base,
           NEW new \in SUBSET BindingsOf(a), NEW current \in SUBSET BindingsOf(a)
    PROVE  MergedApplied(base, new, current) \subseteq BindingsOf(a)
  <1>1. CASE new = base \/ base = {} \/ current = {}
    BY <1>1 DEF MergedApplied
  <1>2. CASE ~(new = base \/ base = {} \/ current = {})
    <2> SUFFICES ASSUME NEW b \in base, NEW n \in new, NEW c \in current
                 PROVE  [bucket |-> c.bucket,
                         principal |-> IF n.principal = b.principal
                                         THEN c.principal ELSE n.principal,
                         level |-> IF n.level = b.level THEN c.level ELSE n.level]
                          \in BindingsOf(a)
      BY <1>2 DEF MergedApplied
    <2>1. n \in BindingsOf(a) /\ c \in BindingsOf(a)
      OBVIOUS
    <2>2. QED
      BY <2>1 DEF BindingsOf
  <1>3. QED
    BY <1>1, <1>2

LEMMA MergedType ==
    ASSUME NEW base \in Statuses, NEW new \in Statuses, NEW current \in Statuses
    PROVE  /\ Merged(base, new, current) \in Statuses
           /\ Merged(base, new, current).applied
                = MergedApplied(base.applied, new.applied, current.applied)
  <1>1. /\ base.applied \in Applieds /\ new.applied \in Applieds
        /\ current.applied \in Applieds
    BY DEF Statuses, Applieds
  <1>2. MergedApplied(base.applied, new.applied, current.applied) \in Applieds
    BY <1>1, MergedAppliedType
  <1>3. QED
    BY <1>2 DEF Merged, Statuses, Applieds

\* Where the worker can be, after whatever it does to one resource.
LEMMA FinishTypes ==
    ASSUME TypeOK, NEW a \in Access, NEW retry \in BOOLEAN, Finish(a, retry)
    PROVE  /\ pc' \in [Access -> PCs]
           /\ obj' \in [Access -> Objects]
           /\ plan' \in [Access -> Plans]
           /\ queue' \subseteq Access
  <1>1. NoPlan \in Plans
    BY DEF NoPlan, Plans, Reasons
  <1>2. QED
    BY <1>1, NoObjectType DEF TypeOK, Finish, PCs

LEMMA CommitTypes ==
    ASSUME TypeOK, NEW a \in Access, NEW o \in Objects, Commit(a, o)
    PROVE  /\ api' \in [Access -> Objects]
           /\ watch' \in [Access -> SUBSET Objects]
  BY DEF TypeOK, Commit

\* What patchStatus sends, and what the API server makes of it.
LEMMA PatchStatusTypes ==
    ASSUME TypeOK, NEW a \in Access, NEW applied \in Applieds,
           NEW reason \in Reasons, NEW retry \in BOOLEAN,
           Patch(a, Outcome(a, applied, reason), retry)
    PROVE  /\ api' \in [Access -> Objects]
           /\ watch' \in [Access -> SUBSET Objects]
           /\ pc' \in [Access -> PCs]
           /\ obj' \in [Access -> Objects]
           /\ plan' \in [Access -> Plans]
           /\ queue' \subseteq Access
           /\ UNCHANGED cache
  <1> DEFINE new == [applied |-> applied, reason |-> reason, gen |-> obj[a].gen]
  <1> DEFINE merged == Merged(cache[a].status, new, api[a].status)
  <1>1. /\ new \in Statuses
        /\ api[a] \in Objects /\ api[a].status \in Statuses
        /\ api[a].spec \in Specs
        /\ cache[a].status \in Statuses
    BY DEF TypeOK, Objects, Versions, Statuses, Applieds
  <1>2. merged \in Statuses
    BY <1>1, MergedType
  <1>3. StatusWritten(api[a], merged) \in Objects
    BY <1>1, <1>2, VersionTypes
  <1>4. \/ UNCHANGED <<api, watch>>
        \/ Commit(a, StatusWritten(api[a], merged))
    BY DEF Patch, PatchStatus, SendPatch, PatchRefused,
           Differs, Outcome
  <1>5. api' \in [Access -> Objects] /\ watch' \in [Access -> SUBSET Objects]
    BY <1>3, <1>4, CommitTypes DEF TypeOK
  <1>6. \E r \in BOOLEAN : Finish(a, r)
    <2> DEFINE sent == cache[a].exists /\ new # cache[a].status
    <2>1. (retry \/ (~cache[a].exists \/ (sent /\ ~api[a].exists))) \in BOOLEAN
      OBVIOUS
    <2>2. QED
      BY <2>1 DEF Patch, PatchStatus, SendPatch, PatchRefused,
           Differs, Outcome
  <1>7. UNCHANGED cache
    BY DEF Patch, PatchStatus
  <1>8. QED
    BY <1>5, <1>6, <1>7, FinishTypes

\* A resource is there, as its users wrote it, or was never created.
LEMMA InitialVersions ==
    ASSUME Init, NEW a \in Access
    PROVE  \/ api[a] = NoObject
           \/ \E s \in SpecsOf[a] :
                s \in Specs /\ api[a] = Created(NoObject, s, NoStatus)
  <1>1. PICK s \in [Access -> Specs] :
          /\ \A b \in Access : s[b] \in SpecsOf[b]
          /\ api = [b \in Access |->
               IF b \in Existing THEN Created(NoObject, s[b], NoStatus) ELSE NoObject]
    BY DEF Init
  <1>2. api[a] = IF a \in Existing THEN Created(NoObject, s[a], NoStatus) ELSE NoObject
    BY <1>1
  <1>3. s[a] \in SpecsOf[a] /\ s[a] \in Specs
    BY <1>1
  <1>4. QED
    BY <1>2, <1>3

LEMMA InitialFields ==
    ASSUME Init, NEW a \in Access
    PROVE  /\ api[a].exists => api[a].spec \in SpecsOf[a]
           /\ ~api[a].finalizer /\ api[a].status = NoStatus
           /\ api[a].uid = api[a].rv
           /\ api[a].rv \in {0, 1} /\ api[a].gen \in {0, 1}
  <1>1. CASE api[a] = NoObject
    BY <1>1 DEF NoObject, NeverCreated
  <1>2. ASSUME NEW s \in SpecsOf[a], api[a] = Created(NoObject, s, NoStatus)
        PROVE  /\ api[a].exists => api[a].spec \in SpecsOf[a]
               /\ ~api[a].finalizer /\ api[a].status = NoStatus
               /\ api[a].uid = api[a].rv
               /\ api[a].rv \in {0, 1} /\ api[a].gen \in {0, 1}
    <2>1. NoObject.rv = 0
      BY DEF NoObject, NeverCreated
    <2>2. QED
      BY <1>2, <2>1 DEF Created
  <1>3. QED
    BY <1>1, <1>2, InitialVersions

LEMMA TypesInit == Init => TypeOK
  <1> SUFFICES ASSUME Init PROVE TypeOK
    OBVIOUS
  <1>1. api \in [Access -> Objects]
    <2>1. \A a \in Access : api[a] \in Objects
      BY InitialVersions, NoObjectType, NoStatusType, VersionTypes
    <2>2. \E f : api = [a \in Access |-> f[a]]
      BY DEF Init
    <2>3. QED
      BY <2>1, <2>2
  <1>2. queue \subseteq Access
    BY DataAssumption DEF Init
  <1>3. NoPlan \in Plans
    BY DEF NoPlan, Plans, Reasons
  <1>4. /\ dep \in [Buckets \union Principals ->
                    {"absent", "notReady", "ready", "deleting"}]
        /\ budget \in [edits: Nat, faults: Nat]
    BY ConstantsAssumption DEF Init
  <1>5. QED
    BY <1>1, <1>2, <1>3, <1>4, NoObjectType DEF Init, TypeOK, PCs

LEMMA BudgetTypes ==
    ASSUME TypeOK, SpendEdit \/ SpendFault
    PROVE  budget' \in [edits: Nat, faults: Nat]
  <1>1. budget.edits \in Nat /\ budget.faults \in Nat
    BY DEF TypeOK
  <1>2. CASE SpendEdit
    BY <1>1, <1>2 DEF TypeOK, SpendEdit
  <1>3. CASE SpendFault
    BY <1>1, <1>3 DEF TypeOK, SpendFault
  <1>4. QED
    BY <1>2, <1>3

LEMMA TypesUser ==
    ASSUME TypeOK, NEW a \in Access, User(a)
    PROVE  TypeOK'
  <1>1. SpendEdit /\ budget' \in [edits: Nat, faults: Nat]
    BY BudgetTypes DEF User, Create, Post, environment, EditSpec, Put,
                       RequestDeletion, Delete
  <1>2. \E o \in Objects : Commit(a, o)
    <2>1. api[a] \in Objects /\ api[a].spec \in Specs
      BY DEF TypeOK, Objects, Versions
    <2>2. CASE Create(a)
      BY <2>1, <2>2, DataAssumption, NoStatusType, VersionTypes
         DEF Create, Post, environment
    <2>3. CASE EditSpec(a)
      BY <2>1, <2>3, DataAssumption, NoStatusType, VersionTypes
         DEF EditSpec, Put, environment
    <2>4. CASE RequestDeletion(a)
      BY <2>1, <2>4, NoStatusType, VersionTypes DEF RequestDeletion, Delete,
                                                    environment
    <2>5. QED
      BY <2>2, <2>3, <2>4 DEF User
  <1>3. api' \in [Access -> Objects] /\ watch' \in [Access -> SUBSET Objects]
    BY <1>2, CommitTypes
  <1>4. UNCHANGED <<cache, queue, pc, obj, plan, grants, dep, provider>>
    BY DEF User, Create, Post, environment, EditSpec, Put, RequestDeletion, Delete
  <1>5. QED
    BY <1>1, <1>3, <1>4 DEF TypeOK

LEMMA TypesEnvironment ==
    ASSUME TypeOK,
           (\E d \in Buckets \union Principals : DependencyChanges(d)) \/ ProviderChanges
    PROVE  TypeOK'
  <1>1. budget' \in [edits: Nat, faults: Nat]
    BY BudgetTypes DEF DependencyChanges, Wake, ProviderChanges
  <1>2. CASE \E d \in Buckets \union Principals : DependencyChanges(d)
    BY <1>1, <1>2, ConstantsAssumption DEF DependencyChanges, Wake, TypeOK,
                                           Referencing
  <1>3. CASE ProviderChanges
    BY <1>1, <1>3, ConstantsAssumption DEF ProviderChanges, Wake, TypeOK
  <1>4. QED
    BY <1>2, <1>3

LEMMA TypesFailures ==
    ASSUME TypeOK, NEW a \in Access, ApiCallFails(a) \/ CloudCallFails(a) \/ Crash
    PROVE  TypeOK'
  <1>1. budget' \in [edits: Nat, faults: Nat]
    BY BudgetTypes DEF ApiCallFails, Return, environment, CloudCallFails,
                       Reporting, Crash, Restart
  <1>2. CASE ApiCallFails(a)
    BY <1>1, <1>2, FinishTypes DEF ApiCallFails, Return, environment, TypeOK
  <1>3. CASE CloudCallFails(a)
    <2>1. grants' \subseteq Grants
      <3>1. Want(a, obj[a]) \in Grants
        BY WantType DEF TypeOK
      <3>2. QED
        BY <1>3, <3>1 DEF CloudCallFails, Reporting, environment, TypeOK
    <2>2. plan' \in [Access -> Plans]
      <3>1. /\ [reason |-> "EnsureError", retry |-> TRUE] \in Plans
            /\ [reason |-> "DeleteError", retry |-> TRUE] \in Plans
        BY DEF Plans, Reasons
      <3>2. QED
        BY <1>3, <3>1 DEF CloudCallFails, Reporting, environment, TypeOK
    <2>3. pc' \in [Access -> PCs]
      BY <1>3 DEF CloudCallFails, Reporting, environment, TypeOK, PCs, GoTo
    <2>4. QED
      BY <1>1, <1>3, <2>1, <2>2, <2>3 DEF CloudCallFails, Reporting, environment,
                                          TypeOK
  <1>4. CASE Crash
    <2>1. NoPlan \in Plans
      BY DEF NoPlan, Plans, Reasons
    <2>2. QED
      BY <1>1, <1>4, <2>1, NoObjectType DEF Crash, Restart, environment, TypeOK,
                                            PCs
  <1>5. QED
    BY <1>2, <1>3, <1>4

LEMMA ObstacleType ==
    ASSUME NEW a, NEW o
    PROVE  Obstacle(a, o) \in Reasons
  <1> DEFINE bucket == dep[BucketOf[a]]
             principal == dep[o.spec.principal]
  <1>1. Obstacle(a, o) \in
          {"BucketNotFound", "PrincipalNotFound", "DependencyNotReady",
           "ProviderMismatch", "ProviderIssue", "Restricted", "Unsupported", "None"}
    <2>1. CASE bucket = "absent"
      BY <2>1 DEF Obstacle
    <2>2. CASE bucket # "absent" /\ principal = "absent"
      BY <2>2 DEF Obstacle
    <2>3. CASE bucket # "absent" /\ principal # "absent"
      BY <2>3 DEF Obstacle
    <2>4. QED
      BY <2>1, <2>2, <2>3
  <1>2. QED
    BY <1>1 DEF Reasons

LEMMA TypesReconcile ==
    ASSUME TypeOK, NEW a \in Access, Reconcile(a)
    PROVE  TypeOK'
  <1>1. /\ api[a] \in Objects /\ api[a].spec \in Specs
        /\ api[a].status \in Statuses
        /\ obj[a] \in Objects
    BY DEF TypeOK, Objects, Versions
  <1>2. Want(a, obj[a]) \in Grants
    BY <1>1, WantType
  <1>3. CASE AddFinalizer(a)
    <2>1. FinalizerAdded(api[a]) \in Objects
      BY <1>1, NoStatusType, VersionTypes
    <2>2. CASE Accepts(api[a], obj[a])
      <3>1. api' \in [Access -> Objects] /\ watch' \in [Access -> SUBSET Objects]
        BY <1>3, <2>1, <2>2, CommitTypes DEF AddFinalizer, Claim, environment
      <3>2. obj' \in [Access -> Objects]
        BY <1>3, <2>1, <2>2 DEF AddFinalizer, Claim, environment, TypeOK
      <3>3. pc' \in [Access -> PCs]
        BY <1>3, <2>2 DEF AddFinalizer, Claim, environment, TypeOK, GoTo, PCs
      <3>4. QED
        BY <1>3, <2>2, <3>1, <3>2, <3>3 DEF AddFinalizer, Claim, environment,
                                            TypeOK
    <2>3. CASE ~Accepts(api[a], obj[a])
      BY <1>3, <2>3, FinishTypes DEF AddFinalizer, Claim, environment, TypeOK
    <2>4. QED
      BY <2>2, <2>3
  <1>4. CASE Check(a)
    <2>1. Obstacle(a, obj[a]) \in Reasons
      BY ObstacleType
    <2>2. plan' \in [Access -> Plans]
      <3>1. [reason |-> Obstacle(a, obj[a]),
             retry |-> /\ Obstacle(a, obj[a]) = "ProviderIssue"
                       /\ provider = "factoryError"] \in Plans
        BY <2>1 DEF Plans
      <3>2. QED
        BY <1>4, <3>1 DEF Check, Proceed, Reporting, environment, TypeOK
    <2>3. QED
      BY <1>4, <2>2 DEF Check, Proceed, Reporting, environment, TypeOK, GoTo, PCs
  <1>5. CASE DeleteSelf(a)
    <2>1. DeletionRequested(api[a]) \in Objects
      BY <1>1, NoStatusType, VersionTypes
    <2>2. api' \in [Access -> Objects] /\ watch' \in [Access -> SUBSET Objects]
      BY <1>5, <2>1, CommitTypes DEF DeleteSelf, environment, TypeOK
    <2>3. QED
      BY <1>5, <2>2, FinishTypes DEF DeleteSelf, environment, TypeOK
  <1>6. CASE RevokeStale(a)
    BY <1>6 DEF RevokeStale, Proceed, TypeOK, GoTo, PCs
  <1>7. CASE Grant(a)
    BY <1>7, <1>2 DEF Grant, Proceed, TypeOK, GoTo, PCs
  <1>8. CASE PatchReady(a)
    <2>1. {Want(a, obj[a])} \in Applieds /\ "Reconciled" \in Reasons
      BY <1>2 DEF Applieds, Reasons
    <2>2. QED
      BY <1>8, <2>1, PatchStatusTypes DEF PatchReady, environment,
                                          TypeOK
  <1>9. CASE Report(a)
    <2>1. /\ cache[a].status.applied \in Applieds
          /\ plan[a].reason \in Reasons /\ plan[a].retry \in BOOLEAN
      BY DEF TypeOK, Objects, Versions, Statuses, Applieds, Plans
    <2>2. QED
      BY <1>9, <2>1, PatchStatusTypes DEF Report, environment,
                                          TypeOK
  <1>10. CASE PrepareDelete(a)
    <2>1. CASE Finish(a, TRUE)
      BY <1>10, <2>1, FinishTypes DEF PrepareDelete, Proceed, Return, Reporting,
                                      environment, TypeOK
    <2>2. CASE GoTo(a, "release") \/ GoTo(a, "revokeRecorded") \/ GoTo(a, "report")
      <3>1. pc' \in [Access -> PCs]
        BY <2>2 DEF TypeOK, GoTo, PCs
      <3>2. [reason |-> "RemoveFinalizerError", retry |-> FALSE] \in Plans
        BY DEF Plans, Reasons
      <3>3. /\ plan' \in [Access -> Plans]
            /\ queue' \subseteq Access
            /\ obj' \in [Access -> Objects]
        BY <1>10, <3>2, FinishTypes DEF PrepareDelete, Proceed, Return, Reporting,
                                        environment, TypeOK
      <3>4. QED
        BY <1>10, <3>1, <3>3 DEF PrepareDelete, Proceed, Return, Reporting,
                                 environment, TypeOK
    <2>3. QED
      BY <1>10, <2>1, <2>2 DEF PrepareDelete, Proceed, Return, Reporting,
                               environment
  <1>11. CASE RevokeRecorded(a)
    BY <1>11 DEF RevokeRecorded, Proceed, TypeOK, GoTo, PCs
  <1>12. CASE RemoveFinalizer(a)
    <2>1. Gone(api[a]) \in Objects
      BY <1>1, NoStatusType, VersionTypes
    <2>2. CASE Accepts(api[a], obj[a])
      BY <1>12, <2>1, <2>2, CommitTypes, FinishTypes DEF RemoveFinalizer, Release,
                                                         environment, TypeOK
    <2>3. CASE ~Accepts(api[a], obj[a])
      BY <1>12, <2>3, FinishTypes DEF RemoveFinalizer, Release, environment, TypeOK
    <2>4. QED
      BY <2>2, <2>3
  <1>13. QED
    BY <1>3, <1>4, <1>5, <1>6, <1>7, <1>8, <1>9, <1>10, <1>11, <1>12 DEF Reconcile

LEMMA TypesStep == TypeOK /\ [Next]_vars => TypeOK'
  <1> SUFFICES ASSUME TypeOK, [Next]_vars PROVE TypeOK'
    OBVIOUS
  <1>1. ASSUME NEW a \in Access, Deliver(a) PROVE TypeOK'
    BY <1>1 DEF Deliver, Inform, environment, TypeOK
  <1>2. ASSUME NEW a \in Access, Start(a) PROVE TypeOK'
    <2>1. pc' \in [Access -> PCs]
      BY <1>2 DEF Start, Begin, environment, FirstStep, GoTo, TypeOK, PCs
    <2>2. obj' \in [Access -> Objects]
      BY <1>2 DEF Start, Begin, environment, TypeOK
    <2>3. QED
      BY <1>2, <2>1, <2>2 DEF Start, Begin, environment, TypeOK
  <1>3. CASE Crash
    <2>1. CASE Access = {}
      BY <1>3, <2>1, BudgetTypes DEF Crash, Restart, environment, TypeOK
    <2>2. CASE Access # {}
      BY <1>3, <2>2, TypesFailures
    <2>3. QED
      BY <2>1, <2>2
  <1>4. CASE UNCHANGED vars
    BY <1>4 DEF vars, environment, TypeOK
  <1>5. QED
    BY <1>1, <1>2, <1>3, <1>4, TypesUser, TypesEnvironment, TypesFailures,
       TypesReconcile DEF Next

\* Every variable keeps its type: in particular a status merged by the API
\* server from two that patchStatus never saw together is a status still.
THEOREM TypeCorrect == Spec => []TypeOK
  <1>1. Init => TypeOK
    BY TypesInit
  <1>2. TypeOK /\ [Next]_vars => TypeOK'
    BY TypesStep
  <1>3. QED
    BY <1>1, <1>2, PTL DEF Spec

-------------------------------------------------------------------------------
(* The inductive invariant. *)

\* The versions of a resource the reconciler may read, now or later.
Known(a) == {cache[a]} \union watch[a]

Alive(v) == v.exists /\ v.finalizer /\ ~v.deleting

InEnsure(a) == pc[a] \in {"check", "deleteSelf", "revokeStale", "grant", "patchReady"}

InDelete(a) == pc[a] \in {"prepareDelete", "revokeRecorded", "release"}

\* A version number identifies the version, and the informer is behind.
KnownIsPast ==
    \A a \in Access : \A v \in Known(a) :
      v.rv <= api[a].rv /\ (v.rv = api[a].rv => v = api[a])

DeliveredInOrder ==
    \A a \in Access : \A v \in watch[a] : cache[a].rv <= v.rv

\* While the cache can still show a resource with its finalizer and no deletion
\* request, the finalizer is there: nobody took it off in between.
AliveMeansClaimed ==
    \A a \in Access : \A v \in Known(a) :
      Alive(v) => api[a].exists /\ api[a].finalizer

EnsureMeansClaimed ==
    \A a \in Access : InEnsure(a) => api[a].exists /\ api[a].finalizer

\* A deletion works on a version the cache held, marked for deletion.
DeleteReadsCache ==
    \A a \in Access :
      InDelete(a) =>
        /\ obj[a].deleting
        /\ obj[a].rv <= cache[a].rv
        /\ obj[a].rv = api[a].rv => obj[a] = api[a]

UnclaimedMeansUnrecorded ==
    \A a \in Access :
      api[a].exists /\ ~api[a].finalizer => api[a].status.applied = {}

\* A resource asks for and records bindings of its users only.
OwnBindings(a, v) ==
    /\ v.status.applied \subseteq BindingsOf(a)
    /\ v.exists => v.spec \in SpecsOf[a]

KeepsToBindings ==
    \A a \in Access :
      /\ \A v \in Known(a) \union {api[a], obj[a]} : OwnBindings(a, v)
      /\ pc[a] # "idle" => obj[a].exists

RevokedBeforeRelease ==
    \A a \in Access :
      pc[a] = "release" /\ MustRevoke(obj[a])
      => obj[a].status.applied \intersect grants = {}

Inv ==
    /\ TypeOK
    /\ KnownIsPast
    /\ DeliveredInOrder
    /\ AliveMeansClaimed
    /\ EnsureMeansClaimed
    /\ DeleteReadsCache
    /\ UnclaimedMeansUnrecorded
    /\ KeepsToBindings
    /\ RevokedBeforeRelease
    /\ ReleasedMeansRevoked

\* Two resources with one binding revoke each other's access; what follows is about
\* resources with bindings of their own, however many of them share a bucket.
DistinctBindings ==
    \A a, b \in Access : BindingsOf(a) \intersect BindingsOf(b) # {} => a = b

\* The part of Inv about the API server and the informer only.
ServerInv ==
    KnownIsPast /\ DeliveredInOrder /\ AliveMeansClaimed /\ UnclaimedMeansUnrecorded

\* The part about the worker and the cloud.
WorkerInv ==
    /\ EnsureMeansClaimed
    /\ DeleteReadsCache
    /\ KeepsToBindings
    /\ RevokedBeforeRelease
    /\ ReleasedMeansRevoked

LEMMA InvParts == Inv <=> TypeOK /\ ServerInv /\ WorkerInv
  BY DEF Inv, ServerInv, WorkerInv

LEMMA ObjectFields ==
    ASSUME NEW o \in Objects
    PROVE  /\ o.rv \in Nat
           /\ o.exists \in BOOLEAN /\ o.deleting \in BOOLEAN
           /\ o.finalizer \in BOOLEAN
           /\ o.spec \in Specs /\ o.status \in Statuses
           /\ o.status.applied \in Applieds /\ o.status.applied \subseteq Grants
  BY DEF Objects, Versions, Statuses, Applieds

LEMMA KnownTypes ==
    ASSUME TypeOK, NEW a \in Access
    PROVE  /\ api[a] \in Objects /\ cache[a] \in Objects /\ obj[a] \in Objects
           /\ Known(a) \subseteq Objects
  BY DEF TypeOK, Known

LEMMA InvInit == Init => Inv
  <1> SUFFICES ASSUME Init PROVE Inv
    OBVIOUS
  <1>1. TypeOK
    BY TypesInit
  <1>2. \A a \in Access :
          /\ cache[a] = api[a] /\ Known(a) = {api[a]}
          /\ obj[a] = NoObject /\ pc[a] = "idle"
    BY DEF Init, Known
  <1>3. \A a \in Access :
          /\ ~api[a].finalizer /\ api[a].status.applied = {}
          /\ api[a].exists => api[a].spec \in SpecsOf[a]
          /\ ~obj[a].exists /\ obj[a].status.applied = {}
    <2>1. ~NoObject.exists /\ NoObject.status = NoStatus
      BY DEF NoObject, NeverCreated
    <2>2. QED
      BY <1>2, <2>1, InitialFields DEF NoStatus
  <1>4. \A a \in Access : api[a].rv \in Nat
    BY <1>1, KnownTypes, ObjectFields
  <1>5. ServerInv
    <2>1. KnownIsPast
      BY <1>2, <1>4 DEF KnownIsPast
    <2>2. DeliveredInOrder
      BY DEF Init, DeliveredInOrder
    <2>3. AliveMeansClaimed /\ UnclaimedMeansUnrecorded
      BY <1>2, <1>3 DEF AliveMeansClaimed, Alive, UnclaimedMeansUnrecorded
    <2>4. QED
      BY <2>1, <2>2, <2>3 DEF ServerInv
  <1>6. WorkerInv
    BY <1>2, <1>3 DEF WorkerInv, EnsureMeansClaimed, InEnsure, DeleteReadsCache, InDelete,
       KeepsToBindings, OwnBindings, RevokedBeforeRelease, ReleasedMeansRevoked
  <1>7. QED
    BY <1>1, <1>5, <1>6, InvParts

-------------------------------------------------------------------------------
(* The API server and the informer. *)

LEMMA ServerUntouched ==
    ASSUME ServerInv, UNCHANGED <<api, cache, watch>>
    PROVE  ServerInv'
  BY DEF ServerInv, KnownIsPast, DeliveredInOrder, AliveMeansClaimed,
         UnclaimedMeansUnrecorded, Known

\* A write that does not take the finalizer from under a version that shows it.
LEMMA ServerCommits ==
    ASSUME TypeOK, ServerInv, NEW a \in Access, NEW o \in Objects,
           Commit(a, o), UNCHANGED cache,
           o.rv = api[a].rv + 1,
           (\E v \in Known(a) : Alive(v)) => o.exists /\ o.finalizer,
           o.exists /\ ~o.finalizer => o.status.applied = {}
    PROVE  ServerInv'
  <1>1. /\ api' = [api EXCEPT ![a] = o] /\ api'[a] = o
        /\ \A b \in Access \ {a} : api'[b] = api[b] /\ watch'[b] = watch[b]
        /\ watch'[a] = watch[a] \union {o}
    BY DEF Commit, TypeOK
  <1>2. /\ Known(a)' = Known(a) \union {o}
        /\ \A b \in Access \ {a} : Known(b)' = Known(b)
    BY <1>1 DEF Known
  <1>3. \A v \in Known(a) : v.rv \in Nat /\ v.rv <= api[a].rv /\ v.rv < o.rv
    BY KnownTypes, ObjectFields DEF ServerInv, KnownIsPast
  <1>4. api[a].rv \in Nat /\ o.rv \in Nat
    BY KnownTypes, ObjectFields
  <1>5. KnownIsPast'
    <2> SUFFICES ASSUME NEW b \in Access, NEW v \in Known(b)'
                 PROVE  v.rv <= api'[b].rv /\ (v.rv = api'[b].rv => v = api'[b])
      BY DEF KnownIsPast
    <2>1. CASE b = a /\ v = o
      BY <1>1, <1>4, <2>1
    <2>2. CASE b = a /\ v # o
      BY <1>1, <1>2, <1>3, <1>4, <2>2
    <2>3. CASE b # a
      BY <1>1, <1>2, <2>3 DEF ServerInv, KnownIsPast
    <2>4. QED
      BY <2>1, <2>2, <2>3
  <1>6. DeliveredInOrder'
    <2>1. cache[a].rv <= o.rv
      BY <1>3, <1>4 DEF Known
    <2>2. QED
      BY <1>1, <2>1 DEF ServerInv, DeliveredInOrder
  <1>7. AliveMeansClaimed'
    BY <1>1, <1>2 DEF ServerInv, AliveMeansClaimed, Alive
  <1>8. UnclaimedMeansUnrecorded'
    BY <1>1 DEF ServerInv, UnclaimedMeansUnrecorded
  <1>9. QED
    BY <1>5, <1>6, <1>7, <1>8 DEF ServerInv

LEMMA ServerDelivers ==
    ASSUME TypeOK, ServerInv, NEW a \in Access, Deliver(a)
    PROVE  ServerInv'
  <1>1. PICK v \in watch[a] : /\ Earliest(watch[a], v)
                              /\ cache' = [cache EXCEPT ![a] = v]
                              /\ watch' = [watch EXCEPT ![a] = @ \ {v}]
    BY DEF Deliver, Inform, environment
  <1>2. UNCHANGED api
    BY DEF Deliver, Inform, environment
  <1>3. \A b \in Access : Known(b)' \subseteq Known(b)
    BY <1>1 DEF Known, TypeOK
  <1>4. KnownIsPast' /\ AliveMeansClaimed' /\ UnclaimedMeansUnrecorded'
    BY <1>2, <1>3 DEF ServerInv, KnownIsPast, AliveMeansClaimed, UnclaimedMeansUnrecorded
  <1>5. DeliveredInOrder'
    BY <1>1 DEF ServerInv, DeliveredInOrder, Earliest, TypeOK
  <1>6. QED
    BY <1>4, <1>5 DEF ServerInv

LEMMA ServerRelists ==
    ASSUME TypeOK, ServerInv, Crash
    PROVE  ServerInv'
  <1>1. /\ UNCHANGED api
        /\ \A b \in Access : Known(b)' = {api[b]} /\ watch'[b] = {}
    BY DEF Crash, Restart, environment, Known
  <1>2. \A b \in Access : api[b].rv \in Nat
    BY KnownTypes, ObjectFields
  <1>3. QED
    BY <1>1, <1>2 DEF ServerInv, KnownIsPast, DeliveredInOrder, AliveMeansClaimed,
                      Alive, UnclaimedMeansUnrecorded

-------------------------------------------------------------------------------
(* The worker and the cloud: what kinds of step it takes. *)

\* The reconcile goes on, or reports; nothing but revocations reach the cloud.
LEMMA Moves ==
    ASSUME Inv, NEW a \in Access, NEW step, GoTo(a, step),
           UNCHANGED <<api, cache, watch, obj>>,
           grants' \subseteq grants,
           step \in {"check", "deleteSelf", "revokeStale", "grant", "patchReady"}
             => InEnsure(a),
           step \in {"prepareDelete", "revokeRecorded", "release"} => InDelete(a),
           InEnsure(a) \/ InDelete(a),
           step = "release" /\ MustRevoke(obj[a])
             => obj[a].status.applied \intersect grants' = {}
    PROVE  ServerInv' /\ WorkerInv'
  <1>1. pc'[a] = step /\ \A b \in Access \ {a} : pc'[b] = pc[b]
    BY InvParts DEF GoTo, TypeOK
  <1>2. ServerInv'
    BY ServerUntouched, InvParts
  <1>3. EnsureMeansClaimed'
    BY <1>1, InvParts DEF WorkerInv, EnsureMeansClaimed, InEnsure
  <1>4. DeleteReadsCache'
    BY <1>1, InvParts DEF WorkerInv, DeleteReadsCache, InDelete
  <1>5. KeepsToBindings'
    BY <1>1, InvParts
       DEF WorkerInv, KeepsToBindings, OwnBindings, Known, InEnsure, InDelete
  <1>6. RevokedBeforeRelease'
    <2> SUFFICES ASSUME NEW b \in Access, pc'[b] = "release", MustRevoke(obj[b])
                 PROVE  obj[b].status.applied \intersect grants' = {}
      BY DEF RevokedBeforeRelease, MustRevoke
    <2>1. CASE b = a
      BY <1>1, <2>1
    <2>2. CASE b # a
      BY <1>1, <2>2, InvParts DEF WorkerInv, RevokedBeforeRelease
    <2>3. QED
      BY <2>1, <2>2
  <1>7. ReleasedMeansRevoked'
    BY InvParts DEF WorkerInv, ReleasedMeansRevoked
  <1>8. QED
    BY <1>2, <1>3, <1>4, <1>5, <1>6, <1>7 DEF WorkerInv

\* The reconcile ends without a write.
LEMMA Returns ==
    ASSUME Inv, NEW a \in Access, NEW retry \in BOOLEAN, Finish(a, retry),
           UNCHANGED <<api, cache, watch, grants>>
    PROVE  ServerInv' /\ WorkerInv'
  <1>1. /\ pc'[a] = "idle" /\ obj'[a] = NoObject
        /\ NoObject.status.applied = {} /\ ~NoObject.exists
        /\ \A b \in Access \ {a} : pc'[b] = pc[b] /\ obj'[b] = obj[b]
    BY InvParts DEF Finish, TypeOK, NoObject, NeverCreated, NoStatus
  <1>2. ServerInv'
    BY ServerUntouched, InvParts
  <1>3. EnsureMeansClaimed' /\ DeleteReadsCache'
    BY <1>1, InvParts DEF WorkerInv, EnsureMeansClaimed, DeleteReadsCache, InEnsure, InDelete
  <1>4. KeepsToBindings'
    BY <1>1, InvParts DEF WorkerInv, KeepsToBindings, OwnBindings, Known
  <1>5. RevokedBeforeRelease' /\ ReleasedMeansRevoked'
    BY <1>1, InvParts DEF WorkerInv, RevokedBeforeRelease, ReleasedMeansRevoked
  <1>6. QED
    BY <1>2, <1>3, <1>4, <1>5 DEF WorkerInv

\* A write to a resource that takes neither a claim nor a record away from it.
Harmless(a, o) ==
    /\ o.rv = api[a].rv + 1
    /\ api[a].exists /\ api[a].finalizer => o.exists /\ o.finalizer
    /\ o.exists /\ ~o.finalizer => o.status.applied = {}
    /\ o.exists \/ o.status.applied = {}
    /\ OwnBindings(a, o)

LEMMA Writes ==
    ASSUME Inv, NEW a \in Access, NEW o \in Objects, Harmless(a, o), Commit(a, o),
           UNCHANGED <<cache, grants>>,
           \/ UNCHANGED <<pc, obj>>
           \/ \E retry \in BOOLEAN : Finish(a, retry)
           \/ /\ GoTo(a, "check")
              /\ obj' = [obj EXCEPT ![a] = o]
              /\ o.exists /\ o.finalizer
    PROVE  ServerInv' /\ WorkerInv'
  <1>1. /\ api'[a] = o /\ Known(a)' = Known(a) \union {o}
        /\ \A b \in Access \ {a} : api'[b] = api[b] /\ Known(b)' = Known(b)
    BY InvParts DEF Commit, TypeOK, Known
  <1>2. OwnBindings(a, NoObject)
    BY DEF OwnBindings, NoObject, NeverCreated, NoStatus
  <1>3. /\ \A b \in Access \ {a} : pc'[b] = pc[b] /\ obj'[b] = obj[b]
        /\ \/ pc'[a] = pc[a] /\ obj'[a] = obj[a]
           \/ pc'[a] = "idle" /\ obj'[a] = NoObject
           \/ pc'[a] = "check" /\ obj'[a] = o /\ o.exists /\ o.finalizer
    BY InvParts DEF Finish, GoTo, TypeOK
  <1>4. ServerInv'
    <2>1. (\E v \in Known(a) : Alive(v)) => o.exists /\ o.finalizer
      BY InvParts DEF ServerInv, AliveMeansClaimed, Harmless
    <2>2. QED
      BY <2>1, ServerCommits, InvParts DEF Harmless
  <1>5. EnsureMeansClaimed'
    BY <1>1, <1>3, InvParts DEF WorkerInv, EnsureMeansClaimed, InEnsure, Harmless
  <1>6. DeleteReadsCache'
    <2> SUFFICES ASSUME NEW b \in Access, InDelete(b)'
                 PROVE  /\ obj'[b].deleting
                        /\ obj'[b].rv <= cache[b].rv
                        /\ obj'[b].rv = api'[b].rv => obj'[b] = api'[b]
      BY DEF DeleteReadsCache
    <2>1. InDelete(b) /\ obj'[b] = obj[b]
      BY <1>3 DEF InDelete
    <2>2. obj[b].deleting /\ obj[b].rv <= cache[b].rv
      BY <2>1, InvParts DEF WorkerInv, DeleteReadsCache
    <2>3. CASE b = a
      <3>1. cache[a].rv <= api[a].rv
        BY InvParts DEF ServerInv, KnownIsPast, Known
      <3>2. cache[a].rv \in Nat /\ api[a].rv \in Nat /\ obj[a].rv \in Nat
        BY KnownTypes, ObjectFields, InvParts
      <3>3. obj[a].rv # o.rv
        BY <2>2, <2>3, <3>1, <3>2 DEF Harmless
      <3>4. QED
        BY <1>1, <2>1, <2>2, <2>3, <3>3
    <2>4. CASE b # a
      BY <1>1, <2>1, <2>4, InvParts DEF WorkerInv, DeleteReadsCache
    <2>5. QED
      BY <2>3, <2>4
  <1>7. KeepsToBindings'
    <2>1. ASSUME NEW b \in Access, NEW v \in Known(b)' \union {api'[b], obj'[b]}
          PROVE  OwnBindings(b, v)
      <3>1. CASE b = a /\ v \in {o, NoObject}
        BY <1>2, <3>1 DEF Harmless
      <3>2. CASE v \in Known(b) \union {api[b], obj[b]}
        BY <3>2, InvParts DEF WorkerInv, KeepsToBindings
      <3>3. QED
        BY <1>1, <1>3, <2>1, <3>1, <3>2
    <2>2. \A b \in Access : pc'[b] # "idle" => obj'[b].exists
      BY <1>3, InvParts DEF WorkerInv, KeepsToBindings
    <2>3. QED
      BY <2>1, <2>2 DEF KeepsToBindings, OwnBindings
  <1>8. RevokedBeforeRelease'
    BY <1>3, InvParts DEF WorkerInv, RevokedBeforeRelease
  <1>9. ReleasedMeansRevoked'
    BY <1>1, InvParts DEF WorkerInv, ReleasedMeansRevoked, Harmless
  <1>10. QED
    BY <1>4, <1>5, <1>6, <1>7, <1>8, <1>9 DEF WorkerInv

\* A reconcile asks for a binding of its own resource.
LEMMA WantWorker ==
    ASSUME WorkerInv, NEW a \in Access, pc[a] # "idle"
    PROVE  Want(a, obj[a]) \in BindingsOf(a)
  BY WantOwn DEF WorkerInv, KeepsToBindings, OwnBindings

\* The cloud gains the access of a resource that is claimed and not released.
LEMMA NewGrant ==
    ASSUME Inv, DistinctBindings, NEW a \in Access, NEW step, pc[a] = "grant",
           GoTo(a, step), step \in {"patchReady", "report"},
           UNCHANGED <<api, cache, watch, obj>>,
           grants' = grants \union {Want(a, obj[a])}
    PROVE  ServerInv' /\ WorkerInv'
  <1>1. pc'[a] = step /\ \A b \in Access \ {a} : pc'[b] = pc[b]
    BY InvParts DEF GoTo, TypeOK
  <1>2. ServerInv'
    BY ServerUntouched, InvParts
  <1>3. EnsureMeansClaimed' /\ DeleteReadsCache'
    BY <1>1, InvParts DEF WorkerInv, EnsureMeansClaimed, DeleteReadsCache, InEnsure, InDelete
  <1>4. KeepsToBindings'
    BY <1>1, InvParts DEF WorkerInv, KeepsToBindings, OwnBindings, Known
  <1>5. Want(a, obj[a]) \in BindingsOf(a)
    BY WantWorker, InvParts
  <1>6. \A b \in Access \ {a} :
          /\ Want(a, obj[a]) \notin obj[b].status.applied
          /\ Want(a, obj[a]) \notin api[b].status.applied
    BY <1>5, InvParts DEF WorkerInv, KeepsToBindings, OwnBindings, DistinctBindings
  <1>7. RevokedBeforeRelease'
    <2> SUFFICES ASSUME NEW b \in Access, pc'[b] = "release", MustRevoke(obj[b])
                 PROVE  obj[b].status.applied \intersect grants' = {}
      BY DEF RevokedBeforeRelease, MustRevoke
    <2>1. b # a /\ pc[b] = "release"
      BY <1>1
    <2>2. QED
      BY <1>6, <2>1, InvParts DEF WorkerInv, RevokedBeforeRelease
  <1>8. ReleasedMeansRevoked'
    <2> SUFFICES ASSUME NEW b \in Access, ~api[b].exists, api[b].spec.policy = "Delete"
                 PROVE  api[b].status.applied \intersect grants' = {}
      BY DEF ReleasedMeansRevoked
    <2>1. b # a
      BY InvParts DEF WorkerInv, EnsureMeansClaimed, InEnsure
    <2>2. QED
      BY <1>6, <2>1, InvParts DEF WorkerInv, ReleasedMeansRevoked
  <1>9. QED
    BY <1>2, <1>3, <1>4, <1>7, <1>8 DEF WorkerInv

-------------------------------------------------------------------------------
(* Each action preserves the invariant. *)

\* Users create, edit and delete: none of it takes a claim away.
LEMMA InvUser ==
    ASSUME Inv, NEW a \in Access, User(a)
    PROVE  ServerInv' /\ WorkerInv'
  <1>1. /\ api[a] \in Objects
        /\ api[a].spec \in Specs /\ api[a].status \in Statuses
        /\ api[a].exists /\ ~api[a].finalizer => api[a].status.applied = {}
        /\ OwnBindings(a, api[a])
    BY KnownTypes, ObjectFields, InvParts
       DEF ServerInv, WorkerInv, UnclaimedMeansUnrecorded, KeepsToBindings
  <1>2. \E o \in Objects : Harmless(a, o) /\ Commit(a, o)
    <2>1. CASE Create(a)
      <3>1. PICK s \in SpecsOf[a] :
              Commit(a, Created(api[a], s, NoStatus)) /\ ~api[a].exists
        BY <2>1 DEF Create, Post, environment
      <3>2. Created(api[a], s, NoStatus) \in Objects
        BY <1>1, DataAssumption, NoStatusType, VersionTypes
      <3>3. Harmless(a, Created(api[a], s, NoStatus))
        BY <3>1 DEF Harmless, OwnBindings, Created, NoStatus
      <3>4. QED
        BY <3>1, <3>2, <3>3
    <2>2. CASE EditSpec(a)
      <3>1. PICK s \in SpecsOf[a] : Commit(a, SpecEdited(api[a], s)) /\ api[a].exists
        BY <2>2 DEF EditSpec, Put, environment
      <3>2. SpecEdited(api[a], s) \in Objects
        BY <1>1, DataAssumption, VersionTypes
      <3>3. Harmless(a, SpecEdited(api[a], s))
        BY <1>1, <3>1 DEF Harmless, OwnBindings, SpecEdited, Objects, Versions
      <3>4. QED
        BY <3>1, <3>2, <3>3
    <2>3. CASE RequestDeletion(a)
      <3>1. Commit(a, DeletionRequested(api[a])) /\ api[a].exists
        BY <2>3 DEF RequestDeletion, Delete, environment
      <3>2. DeletionRequested(api[a]) \in Objects
        BY <1>1, VersionTypes
      <3>3. Harmless(a, DeletionRequested(api[a]))
        BY <1>1, <3>1
           DEF Harmless, OwnBindings, DeletionRequested, Gone, Objects, Versions
      <3>4. QED
        BY <3>1, <3>2, <3>3
    <2>4. QED
      BY <2>1, <2>2, <2>3 DEF User
  <1>3. UNCHANGED <<cache, grants, pc, obj>>
    BY DEF User, Create, Post, environment, EditSpec, Put, RequestDeletion, Delete
  <1>4. QED
    BY <1>2, <1>3, Writes

LEMMA InvQuiet ==
    ASSUME Inv, UNCHANGED <<api, cache, watch, grants, pc, obj>>
    PROVE  ServerInv' /\ WorkerInv'
  <1>1. ServerInv'
    BY ServerUntouched, InvParts
  <1>2. WorkerInv'
    BY InvParts DEF WorkerInv, EnsureMeansClaimed, InEnsure, DeleteReadsCache, InDelete,
       KeepsToBindings, OwnBindings, Known, RevokedBeforeRelease, ReleasedMeansRevoked
  <1>3. QED
    BY <1>1, <1>2

LEMMA InvDeliver ==
    ASSUME Inv, NEW a \in Access, Deliver(a)
    PROVE  ServerInv' /\ WorkerInv'
  <1>1. ServerInv'
    BY ServerDelivers, InvParts
  <1>2. PICK v \in watch[a] : /\ Earliest(watch[a], v)
                              /\ cache' = [cache EXCEPT ![a] = v]
                              /\ watch' = [watch EXCEPT ![a] = @ \ {v}]
    BY DEF Deliver, Inform, environment
  <1>3. UNCHANGED <<api, pc, obj, grants>>
    BY DEF Deliver, Inform, environment
  <1>4. /\ cache[a].rv <= v.rv /\ cache'[a] = v
        /\ \A b \in Access \ {a} : cache'[b] = cache[b]
        /\ \A b \in Access : Known(b)' \subseteq Known(b)
    BY <1>2, InvParts DEF ServerInv, DeliveredInOrder, TypeOK, Known
  <1>5. EnsureMeansClaimed' /\ RevokedBeforeRelease' /\ ReleasedMeansRevoked'
    BY <1>3, InvParts DEF WorkerInv, EnsureMeansClaimed, InEnsure,
       RevokedBeforeRelease, ReleasedMeansRevoked
  <1>6. DeleteReadsCache'
    <2>1. \A b \in Access : /\ obj[b].rv \in Nat /\ cache[b].rv \in Nat
                            /\ cache'[b].rv \in Nat /\ cache[b].rv <= cache'[b].rv
      <3>1. \A b \in Access : obj[b].rv \in Nat /\ cache[b].rv \in Nat
        BY KnownTypes, ObjectFields, InvParts
      <3>2. v.rv \in Nat
        BY KnownTypes, ObjectFields, InvParts DEF Known
      <3>3. QED
        BY <1>4, <3>1, <3>2
    <2>2. QED
      BY <1>3, <2>1, InvParts DEF WorkerInv, DeleteReadsCache, InDelete
  <1>7. KeepsToBindings'
    <2>1. \A b \in Access : Known(b)' \union {api'[b], obj'[b]}
                             \subseteq Known(b) \union {api[b], obj[b]}
      BY <1>3, <1>4
    <2>2. QED
      BY <1>3, <2>1, InvParts DEF WorkerInv, KeepsToBindings, OwnBindings
  <1>8. QED
    BY <1>1, <1>5, <1>6, <1>7 DEF WorkerInv

\* The worker takes what the cache holds: a claimed resource to ensure, or one
\* marked for deletion.
LEMMA InvStart ==
    ASSUME Inv, NEW a \in Access, Start(a)
    PROVE  ServerInv' /\ WorkerInv'
  <1>1. CASE UNCHANGED <<pc, obj>>
    BY <1>1, InvQuiet DEF Start, Begin, environment
  <1>2. CASE /\ cache[a].exists
             /\ cache[a].deleting => cache[a].finalizer
             /\ obj' = [obj EXCEPT ![a] = cache[a]]
             /\ GoTo(a, FirstStep(cache[a]))
    <2>1. UNCHANGED <<api, cache, watch, grants>>
      BY DEF Start, Begin, environment
    <2>2. /\ pc'[a] = FirstStep(cache[a]) /\ obj'[a] = cache[a]
          /\ \A b \in Access \ {a} : pc'[b] = pc[b] /\ obj'[b] = obj[b]
      BY <1>2, InvParts DEF GoTo, TypeOK
    <2>3. ServerInv'
      BY <2>1, ServerUntouched, InvParts
    <2>4. EnsureMeansClaimed'
      <3>1. InEnsure(a)' => Alive(cache[a])
        BY <1>2, <2>2 DEF InEnsure, FirstStep, Alive
      <3>2. QED
        BY <2>1, <2>2, <3>1, InvParts
           DEF WorkerInv, ServerInv, EnsureMeansClaimed, InEnsure, AliveMeansClaimed, Known
    <2>5. DeleteReadsCache'
      <3>1. InDelete(a)' => cache[a].deleting
        BY <2>2 DEF InDelete, FirstStep
      <3>2. cache[a].rv \in Nat /\ (cache[a].rv = api[a].rv => cache[a] = api[a])
        BY KnownTypes, ObjectFields, InvParts DEF ServerInv, KnownIsPast, Known
      <3>3. QED
        BY <2>1, <2>2, <3>1, <3>2, InvParts DEF WorkerInv, DeleteReadsCache, InDelete
    <2>6. KeepsToBindings'
      BY <1>2, <2>1, <2>2, InvParts DEF WorkerInv, KeepsToBindings, OwnBindings, Known
    <2>7. RevokedBeforeRelease' /\ ReleasedMeansRevoked'
      BY <2>1, <2>2, InvParts
         DEF WorkerInv, RevokedBeforeRelease, ReleasedMeansRevoked, FirstStep
    <2>8. QED
      BY <2>3, <2>4, <2>5, <2>6, <2>7 DEF WorkerInv
  <1>3. QED
    BY <1>1, <1>2 DEF Start, Begin, environment

LEMMA InvCrash ==
    ASSUME Inv, Crash
    PROVE  ServerInv' /\ WorkerInv'
  <1>1. ServerInv'
    BY ServerRelists, InvParts
  <1>2. \A b \in Access :
          /\ Known(b)' = {api[b]} /\ pc'[b] = "idle"
          /\ OwnBindings(b, obj'[b])
    BY DEF OwnBindings, Crash, Restart, environment, Known, NoObject, NeverCreated, NoStatus
  <1>3. UNCHANGED <<api, grants>>
    BY DEF Crash, Restart, environment
  <1>4. EnsureMeansClaimed' /\ DeleteReadsCache' /\ RevokedBeforeRelease'
    BY <1>2 DEF EnsureMeansClaimed, InEnsure, DeleteReadsCache, InDelete, RevokedBeforeRelease
  <1>5. KeepsToBindings' /\ ReleasedMeansRevoked'
    BY <1>2, <1>3, InvParts DEF WorkerInv, KeepsToBindings, OwnBindings,
       ReleasedMeansRevoked
  <1>6. QED
    BY <1>1, <1>4, <1>5 DEF WorkerInv

\* A status patch changes no claim.  It records something only for a resource
\* whose finalizer is on, or sends back what the cached copy records already.
LEMMA InvPatchStatus ==
    ASSUME Inv, NEW a \in Access, NEW applied \in Applieds,
           NEW reason \in Reasons, NEW retry \in BOOLEAN,
           Patch(a, Outcome(a, applied, reason), retry),
           UNCHANGED grants,
           \/ applied = cache[a].status.applied
           \/ /\ api[a].exists /\ api[a].finalizer
              /\ applied \subseteq BindingsOf(a)
    PROVE  ServerInv' /\ WorkerInv'
  <1> DEFINE new == [applied |-> applied, reason |-> reason, gen |-> obj[a].gen]
             merged == Merged(cache[a].status, new, api[a].status)
             o == StatusWritten(api[a], merged)
             sent == cache[a].exists /\ new # cache[a].status
             again == retry \/ (~cache[a].exists \/ (sent /\ ~api[a].exists))
  <1>1. again \in BOOLEAN /\ Finish(a, again) /\ UNCHANGED cache
    BY DEF Patch, PatchStatus, SendPatch, PatchRefused,
           Differs, Outcome
  <1>2. CASE UNCHANGED <<api, watch>>
    BY <1>1, <1>2, Returns
  <1>3. CASE api[a].exists /\ Commit(a, o)
    <2>1. /\ api[a] \in Objects /\ api[a].spec \in Specs /\ api[a].rv \in Nat
          /\ api[a].status \in Statuses /\ api[a].status.applied \in Applieds
          /\ cache[a].status \in Statuses /\ cache[a].status.applied \in Applieds
          /\ obj[a].gen \in Nat
      BY KnownTypes, ObjectFields, InvParts DEF TypeOK, Objects, Versions
    <2>2. new \in Statuses
      BY <2>1 DEF Statuses, Applieds
    <2>3. /\ merged \in Statuses
          /\ merged.applied
               = MergedApplied(cache[a].status.applied, applied, api[a].status.applied)
      BY <2>1, <2>2, MergedType
    <2>4. o \in Objects
      BY <2>1, <2>3, VersionTypes
    <2>5. /\ o.rv = api[a].rv + 1 /\ o.exists = api[a].exists
          /\ o.finalizer = api[a].finalizer /\ o.status = merged
      BY <2>1 DEF StatusWritten, Objects, Versions
    <2>6. ~api[a].finalizer => o.status.applied = {}
      <3>1. SUFFICES ASSUME ~api[a].finalizer PROVE merged.applied = {}
        BY <2>5
      <3>2. applied = cache[a].status.applied
        BY <3>1
      <3>3. merged.applied = api[a].status.applied
        BY <2>3, <3>2 DEF MergedApplied
      <3>4. QED
        BY <1>3, <3>1, <3>3, InvParts DEF ServerInv, UnclaimedMeansUnrecorded
    <2>7. OwnBindings(a, o)
      <3>1. OwnBindings(a, cache[a]) /\ OwnBindings(a, api[a])
        BY InvParts DEF WorkerInv, KeepsToBindings, Known
      <3>2. applied \subseteq BindingsOf(a) /\ api[a].status.applied \subseteq BindingsOf(a)
        BY <3>1 DEF OwnBindings
      <3>3. merged.applied \subseteq BindingsOf(a)
        BY <2>3, <3>2, MergedKeepsBindings
      <3>4. o.spec = api[a].spec
        BY <2>1 DEF StatusWritten, Objects, Versions
      <3>5. QED
        BY <2>5, <3>1, <3>3, <3>4 DEF OwnBindings
    <2>8. Harmless(a, o)
      BY <1>3, <2>5, <2>6, <2>7 DEF Harmless
    <2>9. QED
      BY <1>1, <1>3, <2>4, <2>8, Writes
  <1>4. QED
    BY <1>2, <1>3 DEF Patch, PatchStatus, SendPatch, PatchRefused,
           Differs, Outcome

\* The finalizer goes with the version whose access has been revoked: that the
\* Update is accepted means nothing was recorded since.
LEMMA InvRemoveFinalizer ==
    ASSUME Inv, NEW a \in Access, RemoveFinalizer(a)
    PROVE  ServerInv' /\ WorkerInv'
  <1>1. CASE ~Accepts(api[a], obj[a])
    BY <1>1, Returns DEF RemoveFinalizer, Release, environment
  <1>2. CASE Accepts(api[a], obj[a])
    <2>1. /\ Commit(a, Gone(api[a])) /\ Finish(a, FALSE)
          /\ UNCHANGED <<cache, grants>> /\ pc[a] = "release"
      BY <1>2 DEF RemoveFinalizer, Release, environment
    <2>2. obj[a] = api[a] /\ api[a].deleting /\ api[a].rv <= cache[a].rv
      BY <1>2, <2>1, InvParts DEF WorkerInv, DeleteReadsCache, InDelete, Accepts
    <2>3. /\ api[a] \in Objects /\ api[a].rv \in Nat /\ cache[a].rv \in Nat
          /\ api[a].spec \in Specs /\ api[a].status \in Statuses
          /\ \A v \in Known(a) : v.rv \in Nat
      BY KnownTypes, ObjectFields, InvParts
    <2>4. Gone(api[a]) \in Objects
      BY <2>3, VersionTypes
    <2>5. /\ Gone(api[a]).rv = api[a].rv + 1 /\ ~Gone(api[a]).exists
          /\ Gone(api[a]).spec = api[a].spec /\ Gone(api[a]).status = api[a].status
      BY <2>3 DEF Gone, Objects, Versions
    <2>6. \A v \in Known(a) : v = api[a]
      <3> SUFFICES ASSUME NEW v \in Known(a) PROVE v = api[a]
        OBVIOUS
      <3>1. cache[a].rv <= v.rv /\ v.rv <= api[a].rv
        BY <2>3, InvParts DEF ServerInv, KnownIsPast, DeliveredInOrder, Known
      <3>2. v.rv = api[a].rv
        BY <2>2, <2>3, <3>1
      <3>3. QED
        BY <3>2, InvParts DEF ServerInv, KnownIsPast
    <2>7. ServerInv'
      <3>1. ~\E v \in Known(a) : Alive(v)
        BY <2>2, <2>6 DEF Alive
      <3>2. QED
        BY <2>1, <2>4, <2>5, <3>1, ServerCommits, InvParts
    <2>8. /\ api'[a] = Gone(api[a]) /\ pc'[a] = "idle"
          /\ obj'[a].status.applied = {} /\ ~obj'[a].exists
          /\ Known(a)' = Known(a) \union {api'[a]}
          /\ \A b \in Access \ {a} : /\ api'[b] = api[b] /\ pc'[b] = pc[b]
                                     /\ obj'[b] = obj[b] /\ Known(b)' = Known(b)
      BY <2>1, InvParts DEF Commit, Finish, TypeOK, Known, NoObject, NeverCreated, NoStatus
    <2>9. EnsureMeansClaimed' /\ DeleteReadsCache' /\ RevokedBeforeRelease'
      BY <2>1, <2>8, InvParts DEF WorkerInv, EnsureMeansClaimed, InEnsure,
         DeleteReadsCache, InDelete, RevokedBeforeRelease
    <2>10. KeepsToBindings'
      <3>1. \A v \in Known(a)' \union {api'[a], obj'[a]} : OwnBindings(a, v)
        <4>1. OwnBindings(a, api[a])
          BY InvParts DEF WorkerInv, KeepsToBindings
        <4>2. OwnBindings(a, api'[a]) /\ OwnBindings(a, obj'[a])
          BY <2>5, <2>8, <4>1 DEF OwnBindings
        <4>3. QED
          BY <2>6, <2>8, <4>1, <4>2
      <3>2. \A b \in Access \ {a} :
              \A v \in Known(b)' \union {api'[b], obj'[b]} : OwnBindings(b, v)
        BY <2>8, InvParts DEF WorkerInv, KeepsToBindings
      <3>3. \A b \in Access : pc'[b] # "idle" => obj'[b].exists
        BY <2>8, InvParts DEF WorkerInv, KeepsToBindings
      <3>4. QED
        BY <3>1, <3>2, <3>3 DEF KeepsToBindings, OwnBindings
    <2>11. ReleasedMeansRevoked'
      <3> SUFFICES ASSUME NEW b \in Access, ~api'[b].exists, api'[b].spec.policy = "Delete"
                   PROVE  api'[b].status.applied \intersect grants = {}
        BY <2>1 DEF ReleasedMeansRevoked
      <3>1. CASE b = a
        BY <2>1, <2>2, <2>5, <2>8, <3>1, InvParts DEF WorkerInv, RevokedBeforeRelease, MustRevoke
      <3>2. CASE b # a
        BY <2>8, <3>2, InvParts DEF WorkerInv, ReleasedMeansRevoked
      <3>3. QED
        BY <3>1, <3>2
    <2>12. QED
      BY <2>7, <2>9, <2>10, <2>11 DEF WorkerInv
  <1>3. QED
    BY <1>1, <1>2

LEMMA InvReconcile ==
    ASSUME Inv, DistinctBindings, NEW a \in Access, Reconcile(a)
    PROVE  ServerInv' /\ WorkerInv'
  <1>1. /\ api[a] \in Objects /\ obj[a] \in Objects
        /\ api[a].spec \in Specs /\ api[a].status \in Statuses
        /\ OwnBindings(a, api[a])
        /\ api[a].exists /\ ~api[a].finalizer => api[a].status.applied = {}
    BY KnownTypes, ObjectFields, InvParts
       DEF WorkerInv, ServerInv, KeepsToBindings, UnclaimedMeansUnrecorded
  <1>2. /\ Want(a, obj[a]) \in Grants
        /\ pc[a] # "idle" => Want(a, obj[a]) \in BindingsOf(a)
    BY <1>1, WantType, WantWorker, InvParts
  <1>3. CASE AddFinalizer(a)
    <2>1. CASE ~Accepts(api[a], obj[a])
      BY <1>3, <2>1, Returns DEF AddFinalizer, Claim, environment
    <2>2. CASE Accepts(api[a], obj[a])
      <3>1. /\ Commit(a, FinalizerAdded(api[a])) /\ GoTo(a, "check")
            /\ obj' = [obj EXCEPT ![a] = FinalizerAdded(api[a])]
            /\ UNCHANGED <<cache, grants>> /\ api[a].exists
        BY <1>3, <2>2 DEF AddFinalizer, Claim, environment, Accepts
      <3>2. FinalizerAdded(api[a]) \in Objects
        BY <1>1, VersionTypes
      <3>3. /\ FinalizerAdded(api[a]).finalizer /\ FinalizerAdded(api[a]).exists
            /\ Harmless(a, FinalizerAdded(api[a]))
        BY <1>1, <3>1 DEF Harmless, OwnBindings, FinalizerAdded, Objects, Versions
      <3>4. QED
        BY <3>1, <3>2, <3>3, Writes
    <2>3. QED
      BY <2>1, <2>2
  <1>4. CASE Check(a)
    <2>1. InEnsure(a) /\ UNCHANGED <<api, cache, watch, obj, grants>>
      BY <1>4 DEF Check, Proceed, Reporting, environment, InEnsure
    <2>2. GoTo(a, "deleteSelf") \/ GoTo(a, "revokeStale") \/ GoTo(a, "report")
      BY <1>4 DEF Check, Proceed, Reporting, environment
    <2>3. QED
      BY <2>1, <2>2, Moves
  <1>5. CASE DeleteSelf(a)
    <2>1. Finish(a, FALSE) /\ UNCHANGED <<cache, grants>>
      BY <1>5 DEF DeleteSelf, environment
    <2>2. CASE UNCHANGED <<api, watch>>
      BY <2>1, <2>2, Returns
    <2>3. CASE api[a].exists /\ Commit(a, DeletionRequested(api[a]))
      <3>1. DeletionRequested(api[a]) \in Objects
        BY <1>1, VersionTypes
      <3>2. Harmless(a, DeletionRequested(api[a]))
        BY <1>1, <2>3
           DEF Harmless, OwnBindings, DeletionRequested, Gone, Objects, Versions
      <3>3. QED
        BY <2>1, <2>3, <3>1, <3>2, Writes
    <2>4. QED
      BY <1>5, <2>2, <2>3 DEF DeleteSelf, environment
  <1>6. CASE RevokeStale(a)
    BY <1>6, Moves DEF RevokeStale, Proceed, InEnsure
  <1>7. CASE Grant(a)
    BY <1>7, NewGrant DEF Grant, Proceed
  <1>8. CASE PatchReady(a)
    <2>1. {Want(a, obj[a])} \in Applieds /\ "Reconciled" \in Reasons
      BY <1>2 DEF Applieds, Reasons
    <2>2. api[a].exists /\ api[a].finalizer
      BY <1>8, InvParts DEF PatchReady, environment, WorkerInv,
                            EnsureMeansClaimed, InEnsure
    <2>3. QED
      BY <1>2, <1>8, <2>1, <2>2, InvPatchStatus DEF PatchReady, environment
  <1>9. CASE Report(a)
    <2>1. /\ cache[a].status.applied \in Applieds
          /\ plan[a].reason \in Reasons /\ plan[a].retry \in BOOLEAN
      BY KnownTypes, ObjectFields, InvParts DEF TypeOK, Plans
    <2>2. QED
      BY <1>9, <2>1, InvPatchStatus DEF Report, environment
  <1>10. CASE PrepareDelete(a)
    <2>1. CASE Finish(a, TRUE)
      BY <1>10, <2>1, Returns DEF PrepareDelete, Proceed, Return, Reporting,
                                  environment
    <2>2. CASE GoTo(a, "revokeRecorded") \/ GoTo(a, "report")
      <3>1. InDelete(a) /\ UNCHANGED <<api, cache, watch, grants>>
        BY <1>10 DEF PrepareDelete, Proceed, Return, Reporting, environment,
                     InDelete
      <3>2. CASE UNCHANGED obj
        BY <2>2, <3>1, <3>2, Moves
      <3>3. CASE Finish(a, TRUE)
        BY <3>1, <3>3, Returns
      <3>4. QED
        BY <1>10, <3>2, <3>3 DEF PrepareDelete, Proceed, Return, Reporting,
                                 environment
    <2>3. CASE ~MustRevoke(obj[a]) /\ GoTo(a, "release") /\ UNCHANGED obj
      BY <1>10, <2>3, Moves DEF PrepareDelete, Proceed, Return, Reporting,
                                environment, InDelete
    <2>4. QED
      BY <1>10, <2>1, <2>2, <2>3 DEF PrepareDelete, Proceed, Return, Reporting,
                                     environment
  <1>11. CASE RevokeRecorded(a)
    BY <1>11, Moves DEF RevokeRecorded, Proceed, InDelete
  <1>12. CASE RemoveFinalizer(a)
    BY <1>12, InvRemoveFinalizer
  <1>13. QED
    BY <1>3, <1>4, <1>5, <1>6, <1>7, <1>8, <1>9, <1>10, <1>11, <1>12 DEF Reconcile

LEMMA InvCloudCallFails ==
    ASSUME Inv, DistinctBindings, NEW a \in Access, CloudCallFails(a)
    PROVE  ServerInv' /\ WorkerInv'
  <1>1. /\ GoTo(a, "report") /\ UNCHANGED <<api, cache, watch, obj>>
        /\ InEnsure(a) \/ InDelete(a)
    BY DEF CloudCallFails, Reporting, environment, InEnsure, InDelete
  <1>2. CASE grants' \subseteq grants
    BY <1>1, <1>2, Moves
  <1>3. CASE pc[a] = "grant" /\ grants' = grants \union {Want(a, obj[a])}
    BY <1>1, <1>3, NewGrant
  <1>4. QED
    BY <1>2, <1>3 DEF CloudCallFails, Reporting, environment

LEMMA InvStep == Inv /\ DistinctBindings /\ [Next]_vars => Inv'
  <1> SUFFICES ASSUME Inv, DistinctBindings, [Next]_vars PROVE Inv'
    OBVIOUS
  <1>1. ASSUME NEW a \in Access, ApiCallFails(a) PROVE ServerInv' /\ WorkerInv'
    BY <1>1, Returns DEF ApiCallFails, Return, environment
  <1>2. ASSUME NEW d, DependencyChanges(d) PROVE ServerInv' /\ WorkerInv'
    BY <1>2, InvQuiet DEF DependencyChanges, Wake
  <1>3. ASSUME ProviderChanges PROVE ServerInv' /\ WorkerInv'
    BY <1>3, InvQuiet DEF ProviderChanges, Wake
  <1>4. ASSUME UNCHANGED vars PROVE ServerInv' /\ WorkerInv'
    BY <1>4, InvQuiet DEF vars, environment
  <1>5. ServerInv' /\ WorkerInv'
    BY <1>1, <1>2, <1>3, <1>4, InvUser, InvDeliver, InvStart, InvReconcile,
       InvCloudCallFails, InvCrash DEF Next
  <1>6. TypeOK'
    BY TypesStep, InvParts
  <1>7. QED
    BY <1>5, <1>6 DEF Inv, ServerInv, WorkerInv

-------------------------------------------------------------------------------
(* What follows for every behaviour. *)

\* The invariant holds: what the worker believes of a resource, from however old
\* a cached copy, is good enough for what it goes on to do.
THEOREM Invariance == DistinctBindings => (Spec => []Inv)
  <1> SUFFICES ASSUME DistinctBindings PROVE Spec => []Inv
    OBVIOUS
  <1>1. Init => Inv
    BY InvInit
  <1>2. Inv /\ [Next]_vars => Inv'
    BY InvStep
  <1>3. QED
    BY <1>1, <1>2, PTL DEF Spec

\* A deleted resource under deletionPolicy Delete leaves no recorded access, for
\* resources with bindings of their own: RemoveFinalizer's Update is refused whenever
\* anything was recorded after the version that DeleteBucketAccess worked on.
THEOREM ReleaseRevokes == DistinctBindings => (Spec => []ReleasedMeansRevoked)
  <1> SUFFICES ASSUME DistinctBindings PROVE Spec => []ReleasedMeansRevoked
    OBVIOUS
  <1>1. Spec => []Inv
    BY Invariance
  <1>2. Inv => ReleasedMeansRevoked
    BY DEF Inv
  <1>3. QED
    BY <1>1, <1>2, PTL

-------------------------------------------------------------------------------
(* The controller implements FinalizerProtocol. *)

\* The variables of the protocol.
claimed == {a \in Access : api[a].exists /\ api[a].finalizer}
owned == [a \in Access |-> GrantsOf(a)]
recorded == [a \in Access |-> api[a].status.applied]
kept == {a \in Access : api[a].spec.policy = "Retain"}

LEMMA Quiet ==
    ASSUME UNCHANGED <<api, grants>>
    PROVE  UNCHANGED Protocol!vars
  BY DEF Protocol!vars, GrantsOf

LEMMA ProtocolInit == Init => Protocol!Init
  <1> SUFFICES ASSUME Init PROVE Protocol!Init
    OBVIOUS
  <1>1. \A a \in Access : ~api[a].finalizer /\ api[a].status.applied = {}
    BY InitialFields DEF NoStatus
  <1>2. grants = {}
    BY DEF Init
  <1>3. QED
    BY <1>1, <1>2 DEF Protocol!Init, GrantsOf

LEMMA ProtocolUser ==
    ASSUME Inv, NEW a \in Access, User(a)
    PROVE  [Protocol!Next]_(Protocol!vars)
  <1>1. UNCHANGED grants
    BY DEF User, Create, Post, environment, EditSpec, Put, RequestDeletion, Delete
  <1>2. /\ api[a] \in Objects
        /\ api[a].exists /\ ~api[a].finalizer => api[a].status.applied = {}
    BY KnownTypes, InvParts DEF ServerInv, UnclaimedMeansUnrecorded
  <1>3. ASSUME NEW o, Commit(a, o)
        PROVE  /\ api'[a] = o
               /\ \A b \in Access \ {a} : api'[b] = api[b]
    BY <1>3, InvParts DEF Commit, TypeOK
  <1>4. CASE Create(a)
    <2>1. PICK s \in SpecsOf[a] :
            Commit(a, Created(api[a], s, NoStatus)) /\ ~api[a].exists
      BY <1>4 DEF Create, Post, environment
    <2>2. /\ ~api'[a].finalizer /\ api'[a].status.applied = {}
          /\ \A b \in Access \ {a} : api'[b] = api[b]
      BY <1>3, <2>1 DEF Created, NoStatus
    <2>3. a \notin claimed /\ UNCHANGED <<claimed, owned>>
      BY <1>1, <2>1, <2>2 DEF claimed, owned, GrantsOf
    <2>4. recorded' = [recorded EXCEPT ![a] = {}]
      BY <2>2 DEF recorded
    <2>5. kept' \in {kept \union {a}, kept \ {a}}
      BY <2>2 DEF kept
    <2>6. Protocol!Renew(a)
      BY <2>3, <2>4, <2>5 DEF Protocol!Renew, claimed, owned, recorded, kept
    <2>7. QED
      BY <2>6 DEF Protocol!Next
  <1>5. CASE EditSpec(a)
    <2>1. PICK s \in SpecsOf[a] : Commit(a, SpecEdited(api[a], s)) /\ api[a].exists
      BY <1>5 DEF EditSpec, Put, environment
    <2>2. /\ SpecEdited(api[a], s).exists /\ SpecEdited(api[a], s).spec = s
          /\ SpecEdited(api[a], s).finalizer = api[a].finalizer
          /\ SpecEdited(api[a], s).status = api[a].status
      BY <1>2, <2>1 DEF SpecEdited, Objects, Versions
    <2>3. /\ UNCHANGED <<claimed, owned, recorded>>
          /\ kept' \in {kept \union {a}, kept \ {a}}
      BY <1>1, <1>3, <2>1, <2>2 DEF claimed, owned, recorded, kept, GrantsOf
    <2>4. CASE api[a].finalizer
      <3>1. Protocol!ChangePolicy(a)
        BY <2>1, <2>3, <2>4 DEF Protocol!ChangePolicy, claimed, owned, recorded, kept
      <3>2. QED
        BY <3>1 DEF Protocol!Next
    <2>5. CASE ~api[a].finalizer
      <3>1. recorded = [recorded EXCEPT ![a] = {}]
        BY <1>2, <2>1, <2>5 DEF recorded
      <3>2. Protocol!Renew(a)
        BY <2>3, <2>5, <3>1 DEF Protocol!Renew, claimed, owned, recorded, kept
      <3>3. QED
        BY <3>2 DEF Protocol!Next
    <2>6. QED
      BY <2>4, <2>5
  <1>6. CASE RequestDeletion(a)
    <2>1. Commit(a, DeletionRequested(api[a])) /\ api[a].exists
      BY <1>6 DEF RequestDeletion, Delete, environment
    <2>2. /\ DeletionRequested(api[a]).spec = api[a].spec
          /\ DeletionRequested(api[a]).status = api[a].status
          /\ (DeletionRequested(api[a]).exists /\ DeletionRequested(api[a]).finalizer)
               = (api[a].exists /\ api[a].finalizer)
      BY <1>2, <2>1 DEF DeletionRequested, Gone, Objects, Versions
    <2>3. UNCHANGED <<claimed, owned, recorded, kept>>
      BY <1>1, <1>3, <2>1, <2>2 DEF claimed, owned, recorded, kept, GrantsOf
    <2>4. QED
      BY <2>3 DEF Protocol!vars, claimed, owned, recorded, kept
  <1>7. QED
    BY <1>4, <1>5, <1>6 DEF User

\* A revocation is seen on the resource's own bindings.
LEMMA ProtocolUnmake ==
    ASSUME Inv, DistinctBindings, NEW a \in Access, UNCHANGED api,
           NEW revoked, grants' = grants \ revoked,
           revoked \subseteq BindingsOf(a)
    PROVE  [Protocol!Next]_(Protocol!vars)
  <1>1. /\ UNCHANGED <<claimed, recorded, kept>>
        /\ owned' = [owned EXCEPT ![a] = GrantsOf(a)']
        /\ GrantsOf(a)' \in SUBSET owned[a]
    BY DEF claimed, recorded, kept, owned, GrantsOf, DistinctBindings
  <1>2. Protocol!Unmake(a)
    BY <1>1 DEF Protocol!Unmake, claimed, recorded, kept, owned
  <1>3. QED
    BY <1>2 DEF Protocol!Next

LEMMA ProtocolMake ==
    ASSUME Inv, DistinctBindings, NEW a \in Access, UNCHANGED api, pc[a] = "grant",
           grants' = grants \union {Want(a, obj[a])}
    PROVE  [Protocol!Next]_(Protocol!vars)
  <1>1. Want(a, obj[a]) \in Grants /\ Want(a, obj[a]) \in BindingsOf(a)
    BY KnownTypes, WantType, WantWorker, InvParts
  <1>2. a \in claimed
    BY InvParts DEF claimed, WorkerInv, EnsureMeansClaimed, InEnsure
  <1>3. /\ UNCHANGED <<claimed, recorded, kept>>
        /\ owned' = [owned EXCEPT ![a] = @ \union {Want(a, obj[a])}]
    BY <1>1 DEF claimed, recorded, kept, owned, GrantsOf, DistinctBindings
  <1>4. Protocol!Make(a)
    BY <1>1, <1>2, <1>3 DEF Protocol!Make, claimed, recorded, kept, owned
  <1>5. QED
    BY <1>4 DEF Protocol!Next

\* patchStatus records for a claimed resource and changes nothing of another.
LEMMA ProtocolRecord ==
    ASSUME Inv, NEW a \in Access, NEW applied \in Applieds,
           NEW reason \in Reasons, NEW retry,
           Patch(a, Outcome(a, applied, reason), retry), UNCHANGED grants,
           \/ applied = cache[a].status.applied
           \/ api[a].exists /\ api[a].finalizer
    PROVE  [Protocol!Next]_(Protocol!vars)
  <1> DEFINE new == [applied |-> applied, reason |-> reason, gen |-> obj[a].gen]
             merged == Merged(cache[a].status, new, api[a].status)
             o == StatusWritten(api[a], merged)
  <1>1. CASE UNCHANGED <<api, watch>>
    BY <1>1, Quiet
  <1>2. CASE api[a].exists /\ Commit(a, o)
    <2>1. /\ api[a] \in Objects /\ api[a].status \in Statuses
          /\ cache[a].status \in Statuses
          /\ cache[a].status.applied \in Applieds /\ obj[a].gen \in Nat
      BY KnownTypes, ObjectFields, InvParts DEF TypeOK, Objects, Versions
    <2>2. new \in Statuses
      BY <2>1 DEF Statuses, Applieds
    <2>3. /\ merged \in Statuses
          /\ merged.applied
               = MergedApplied(cache[a].status.applied, applied, api[a].status.applied)
      BY <2>1, <2>2, MergedType
    <2>4. merged.applied \subseteq Grants
      BY <2>3 DEF Statuses
    <2>5. /\ o.exists = api[a].exists /\ o.finalizer = api[a].finalizer
          /\ o.spec = api[a].spec /\ o.status = merged
      BY <2>1 DEF StatusWritten, Objects, Versions
    <2>6. /\ api'[a] = o
          /\ \A b \in Access \ {a} : api'[b] = api[b]
      BY <1>2, InvParts DEF Commit, TypeOK
    <2>7. /\ UNCHANGED <<claimed, owned, kept>>
          /\ recorded' = [recorded EXCEPT ![a] = merged.applied]
      BY <2>5, <2>6 DEF claimed, owned, recorded, kept, GrantsOf
    <2>8. CASE api[a].finalizer
      <3>1. a \in claimed
        BY <1>2, <2>8 DEF claimed
      <3>2. Protocol!Record(a)
        BY <2>4, <2>7, <3>1 DEF Protocol!Record, claimed, owned, recorded, kept
      <3>3. QED
        BY <3>2 DEF Protocol!Next
    <2>9. CASE ~api[a].finalizer
      <3>1. merged.applied = api[a].status.applied
        BY <2>3, <2>9 DEF MergedApplied
      <3>2. recorded' = recorded
        BY <2>7, <3>1 DEF recorded
      <3>3. QED
        BY <2>7, <3>2 DEF Protocol!vars, claimed, owned, recorded, kept
    <2>10. QED
      BY <2>8, <2>9
  <1>3. QED
    BY <1>1, <1>2 DEF Patch, PatchStatus, SendPatch, PatchRefused,
           Differs, Outcome

\* The finalizer is taken off the version whose recorded access is gone.
LEMMA ProtocolRelease ==
    ASSUME Inv, NEW a \in Access, RemoveFinalizer(a)
    PROVE  [Protocol!Next]_(Protocol!vars)
  <1>1. CASE ~Accepts(api[a], obj[a])
    BY <1>1, Quiet DEF RemoveFinalizer, Release, environment
  <1>2. CASE Accepts(api[a], obj[a])
    <2>1. /\ api[a].exists /\ obj[a] = api[a]
          /\ pc[a] = "release" /\ Commit(a, Gone(api[a])) /\ UNCHANGED grants
      BY <1>2, InvParts DEF RemoveFinalizer, Release, environment, WorkerInv,
                            DeleteReadsCache, InDelete, Accepts
    <2>2. /\ api[a] \in Objects /\ api[a].spec \in Specs
      BY KnownTypes, ObjectFields, InvParts
    <2>3. /\ ~api'[a].exists /\ api'[a].spec = api[a].spec
          /\ api'[a].status = api[a].status
          /\ \A b \in Access \ {a} : api'[b] = api[b]
      BY <2>1, <2>2, InvParts DEF Commit, Gone, Objects, Versions, TypeOK
    <2>4. /\ claimed' = claimed \ {a}
          /\ UNCHANGED <<owned, recorded, kept>>
      BY <2>1, <2>3 DEF claimed, owned, recorded, kept, GrantsOf
    <2>5. CASE ~api[a].finalizer
      <3>1. UNCHANGED claimed
        BY <2>4, <2>5 DEF claimed
      <3>2. QED
        BY <2>4, <3>1 DEF Protocol!vars, claimed, owned, recorded, kept
    <2>6. CASE api[a].finalizer
      <3>1. a \in claimed
        BY <2>1, <2>6 DEF claimed
      <3>2. a \in kept \/ recorded[a] \intersect owned[a] = {}
        <4>1. api[a].spec.policy # "Retain" => api[a].status.applied \intersect grants = {}
          BY <2>1, <2>2, InvParts
             DEF WorkerInv, RevokedBeforeRelease, MustRevoke, Specs
        <4>2. QED
          BY <4>1 DEF kept, recorded, owned, GrantsOf
      <3>3. Protocol!Release(a)
        BY <2>4, <3>1, <3>2 DEF Protocol!Release, claimed, owned, recorded, kept
      <3>4. QED
        BY <3>3 DEF Protocol!Next
    <2>7. QED
      BY <2>5, <2>6
  <1>3. QED
    BY <1>1, <1>2

LEMMA ProtocolReconcile ==
    ASSUME Inv, DistinctBindings, NEW a \in Access, Reconcile(a)
    PROVE  [Protocol!Next]_(Protocol!vars)
  <1>1. /\ api[a] \in Objects /\ obj[a] \in Objects
        /\ api[a].exists /\ ~api[a].finalizer => api[a].status.applied = {}
        /\ obj[a].status.applied \subseteq BindingsOf(a)
    BY KnownTypes, InvParts
       DEF ServerInv, WorkerInv, UnclaimedMeansUnrecorded, KeepsToBindings, OwnBindings
  <1>2. Want(a, obj[a]) \in Grants
    BY <1>1, WantType
  <1>3. CASE AddFinalizer(a)
    <2>1. CASE ~Accepts(api[a], obj[a])
      BY <1>3, <2>1, Quiet DEF AddFinalizer, Claim, environment
    <2>2. CASE Accepts(api[a], obj[a])
      <3>1. /\ Commit(a, FinalizerAdded(api[a])) /\ api[a].exists /\ UNCHANGED grants
        BY <1>3, <2>2 DEF AddFinalizer, Claim, environment, Accepts
      <3>2. /\ api'[a].exists /\ api'[a].finalizer /\ api'[a].spec = api[a].spec
            /\ api'[a].status = api[a].status
            /\ \A b \in Access \ {a} : api'[b] = api[b]
        BY <1>1, <3>1, InvParts DEF Commit, FinalizerAdded, Objects, Versions, TypeOK
      <3>3. /\ claimed' = claimed \union {a}
            /\ UNCHANGED <<owned, recorded, kept>>
        BY <3>1, <3>2 DEF claimed, owned, recorded, kept, GrantsOf
      <3>4. CASE api[a].finalizer
        <4>1. UNCHANGED claimed
          BY <3>1, <3>3, <3>4 DEF claimed
        <4>2. QED
          BY <3>3, <4>1 DEF Protocol!vars, claimed, owned, recorded, kept
      <3>5. CASE ~api[a].finalizer
        <4>1. a \notin claimed /\ recorded[a] = {}
          BY <1>1, <3>1, <3>5 DEF claimed, recorded
        <4>2. Protocol!Claim(a)
          BY <3>3, <4>1 DEF Protocol!Claim, claimed, owned, recorded, kept
        <4>3. QED
          BY <4>2 DEF Protocol!Next
      <3>6. QED
        BY <3>4, <3>5
    <2>3. QED
      BY <2>1, <2>2
  <1>4. CASE Check(a) \/ PrepareDelete(a)
    BY <1>4, Quiet DEF Check, Proceed, Reporting, environment, PrepareDelete,
                       Return
  <1>5. CASE DeleteSelf(a)
    <2>1. CASE UNCHANGED <<api, watch>>
      BY <1>5, <2>1, Quiet DEF DeleteSelf, environment
    <2>2. CASE Commit(a, DeletionRequested(api[a]))
      <3>1. api[a].exists /\ api[a].finalizer /\ UNCHANGED grants
        BY <1>5, InvParts DEF DeleteSelf, environment, WorkerInv,
                              EnsureMeansClaimed, InEnsure
      <3>2. /\ api'[a].exists = api[a].exists /\ api'[a].finalizer = api[a].finalizer
            /\ api'[a].spec = api[a].spec /\ api'[a].status = api[a].status
            /\ \A b \in Access \ {a} : api'[b] = api[b]
        BY <1>1, <2>2, <3>1, InvParts
           DEF Commit, DeletionRequested, Objects, Versions, TypeOK
      <3>3. UNCHANGED <<claimed, owned, recorded, kept>>
        BY <3>1, <3>2 DEF claimed, owned, recorded, kept, GrantsOf
      <3>4. QED
        BY <3>3 DEF Protocol!vars, claimed, owned, recorded, kept
    <2>3. QED
      BY <1>5, <2>1, <2>2 DEF DeleteSelf, environment
  <1>6. CASE RevokeStale(a)
    BY <1>1, <1>6, ProtocolUnmake DEF RevokeStale, Proceed, Stale
  <1>7. CASE Grant(a)
    BY <1>7, ProtocolMake DEF Grant, Proceed
  <1>8. CASE PatchReady(a)
    <2>1. {Want(a, obj[a])} \in Applieds /\ "Reconciled" \in Reasons
      BY <1>2 DEF Applieds, Reasons
    <2>2. api[a].exists /\ api[a].finalizer
      BY <1>8, InvParts DEF PatchReady, environment, WorkerInv,
                            EnsureMeansClaimed, InEnsure
    <2>3. QED
      BY <1>8, <2>1, <2>2, ProtocolRecord DEF PatchReady, environment
  <1>9. CASE Report(a)
    <2>1. cache[a].status.applied \in Applieds /\ plan[a].reason \in Reasons
      BY KnownTypes, ObjectFields, InvParts DEF TypeOK, Plans
    <2>2. QED
      BY <1>9, <2>1, ProtocolRecord DEF Report, environment
  <1>10. CASE RevokeRecorded(a)
    BY <1>1, <1>10, ProtocolUnmake DEF RevokeRecorded, Proceed
  <1>11. CASE RemoveFinalizer(a)
    BY <1>11, ProtocolRelease
  <1>12. QED
    BY <1>3, <1>4, <1>5, <1>6, <1>7, <1>8, <1>9, <1>10, <1>11 DEF Reconcile

LEMMA ProtocolCloudCallFails ==
    ASSUME Inv, DistinctBindings, NEW a \in Access, CloudCallFails(a)
    PROVE  [Protocol!Next]_(Protocol!vars)
  <1>1. UNCHANGED api /\ obj[a].status.applied \subseteq BindingsOf(a)
    BY InvParts DEF CloudCallFails, Reporting, environment, WorkerInv,
                    KeepsToBindings, OwnBindings
  <1>2. CASE UNCHANGED grants
    BY <1>1, <1>2, Quiet
  <1>3. CASE grants' = grants \ Stale(a)
    BY <1>1, <1>3, ProtocolUnmake DEF Stale
  <1>4. CASE grants' = grants \ obj[a].status.applied
    BY <1>1, <1>4, ProtocolUnmake
  <1>5. CASE pc[a] = "grant" /\ grants' = grants \union {Want(a, obj[a])}
    BY <1>1, <1>5, ProtocolMake
  <1>6. QED
    BY <1>2, <1>3, <1>4, <1>5 DEF CloudCallFails, Reporting, environment

LEMMA ProtocolStep ==
    ASSUME Inv, DistinctBindings, [Next]_vars
    PROVE  [Protocol!Next]_(Protocol!vars)
  <1>1. ASSUME UNCHANGED <<api, grants>> PROVE [Protocol!Next]_(Protocol!vars)
    BY <1>1, Quiet
  <1>2. ASSUME NEW a \in Access, Deliver(a) \/ Start(a) \/ ApiCallFails(a)
        PROVE  [Protocol!Next]_(Protocol!vars)
    BY <1>1, <1>2 DEF Deliver, Inform, environment, Start, Begin, ApiCallFails,
                      Return
  <1>3. ASSUME NEW d, DependencyChanges(d) PROVE [Protocol!Next]_(Protocol!vars)
    BY <1>1, <1>3 DEF DependencyChanges, Wake
  <1>4. CASE ProviderChanges \/ Crash \/ UNCHANGED vars
    BY <1>1, <1>4 DEF ProviderChanges, Wake, Crash, Restart, environment, vars
  <1>5. QED
    BY <1>2, <1>3, <1>4, ProtocolUser, ProtocolReconcile, ProtocolCloudCallFails DEF Next

\* Every step of users, informer, worker and failures is a step of the protocol
\* or changes nothing of it: nothing is granted for a resource without the
\* finalizer, and the finalizer goes only when the access recorded at that
\* moment is gone or the deletionPolicy keeps it.
THEOREM ImplementsProtocol == DistinctBindings => (Spec => KeepsFinalizerProtocol)
  <1> SUFFICES ASSUME DistinctBindings PROVE Spec => KeepsFinalizerProtocol
    OBVIOUS
  <1>1. Init => Protocol!Init
    BY ProtocolInit
  <1>2. Inv /\ [Next]_vars => [Protocol!Next]_(Protocol!vars)
    BY ProtocolStep
  <1>3. Spec => []Inv
    BY Invariance
  <1>4. QED
    BY <1>1, <1>2, <1>3, PTL DEF Spec, KeepsFinalizerProtocol, Protocol!Spec

-------------------------------------------------------------------------------
(* Ready means granted. *)

\* What o asks for is granted.
Granted(a, o) == Want(a, o) \in grants

\* A version that is Ready for what it is.
Obliging(v) ==
    /\ v.exists /\ ~v.deleting
    /\ v.status.reason = "Reconciled"
    /\ v.status.gen = v.gen

VersionsFollow(a) == Followed(api[a], cache[a], watch[a])

\* The worker claims what the informer shows, works for what is asked for, deletes
\* what is marked, and reports a failure as one.
WorkerFollows(a) ==
    /\ pc[a] = "addFinalizer" => obj[a].rv <= cache[a].rv
    /\ InEnsure(a) => Current(api[a], cache[a], obj[a])
    /\ InDelete(a) /\ Claimed(api[a]) => api[a].deleting
    /\ pc[a] = "report" => plan[a].reason # "Reconciled"

GrantFollows(a) ==
    /\ pc[a] = "patchReady" => Granted(a, obj[a])
    /\ Obliging(api[a]) => Granted(a, api[a])

Readiness(a) == VersionsFollow(a) /\ WorkerFollows(a) /\ GrantFollows(a)

LEMMA ReadyFacts ==
    ASSUME Inv, NEW a \in Access
    PROVE  /\ api[a] \in Versions(Specs, Statuses)
           /\ cache[a] \in Versions(Specs, Statuses)
           /\ obj[a] \in Versions(Specs, Statuses)
           /\ watch[a] \in SUBSET Versions(Specs, Statuses)
           /\ Past(api[a], cache[a], watch[a])
           /\ \A v \in watch[a] : cache[a].rv <= v.rv
           /\ InEnsure(a) => Claimed(api[a])
           /\ \A s \in Statuses : s.gen \in Nat
  <1>1. Past(api[a], cache[a], watch[a])
    BY InvParts DEF ServerInv, KnownIsPast, Known, Past
  <1>2. InEnsure(a) => Claimed(api[a])
    BY InvParts DEF WorkerInv, EnsureMeansClaimed, Claimed
  <1>3. \A v \in watch[a] : cache[a].rv <= v.rv
    BY InvParts DEF ServerInv, DeliveredInOrder
  <1>4. /\ api[a] \in Objects /\ cache[a] \in Objects /\ obj[a] \in Objects
        /\ watch[a] \in SUBSET Objects
    BY InvParts DEF TypeOK
  <1>5. QED
    BY <1>1, <1>2, <1>3, <1>4 DEF Objects, Statuses

\* A resource that is Ready for what it is is claimed, and a reconcile of it works
\* for what it is.
LEMMA ReadyForWhatItIs ==
    ASSUME Inv, NEW a \in Access, Readiness(a), Obliging(api[a])
    PROVE  /\ Claimed(api[a]) /\ ~InDelete(a)
           /\ InEnsure(a) => obj[a].spec = api[a].spec
  <1>1. Claimed(api[a])
    BY DEF Readiness, VersionsFollow, Followed, Obliging, Claimed, Reported
  <1>2. ~InDelete(a)
    BY <1>1 DEF Readiness, WorkerFollows, Obliging
  <1>3. ASSUME InEnsure(a) PROVE obj[a].spec = api[a].spec
    <2>1. cache[a].gen <= api[a].gen
      BY <1>1, ReadyFacts, CachedPrecedes DEF Readiness, VersionsFollow, Precedes
    <2>2. Current(api[a], cache[a], obj[a]) /\ Reported(api[a])
      BY <1>3 DEF Readiness, WorkerFollows, Obliging, Reported
    <2>3. api[a].gen \in Nat /\ cache[a].gen \in Nat /\ obj[a].gen \in Nat
      BY ReadyFacts, VersionFields
    <2>4. QED
      BY <2>1, <2>2, <2>3 DEF Current, Obliging
  <1>4. QED
    BY <1>1, <1>2, <1>3

\* The access of a resource stays.
Stays(a) == grants \intersect BindingsOf(a) \subseteq grants'

Untouched(a) ==
    /\ api'[a] = api[a] /\ cache'[a] = cache[a] /\ watch'[a] = watch[a]
    /\ pc'[a] = pc[a] /\ obj'[a] = obj[a] /\ plan'[a] = plan[a]

\* Somebody else's step.
LEMMA ReadyUntouched ==
    ASSUME Inv, NEW a \in Access, Readiness(a), Untouched(a),
           Stays(a)
    PROVE  Readiness(a)'
  <1>1. VersionsFollow(a)'
    BY DEF Readiness, VersionsFollow, Untouched
  <1>2. WorkerFollows(a)'
    BY DEF Readiness, WorkerFollows, Untouched, InEnsure, InDelete
  <1>3. /\ pc[a] = "patchReady" => Want(a, obj[a]) \in BindingsOf(a)
        /\ Obliging(api[a]) => Want(a, api[a]) \in BindingsOf(a)
    BY WantOwn, WantWorker, InvParts
       DEF WorkerInv, KeepsToBindings, OwnBindings, Obliging
  <1>4. GrantFollows(a)'
    BY <1>3 DEF Readiness, GrantFollows, Untouched, Stays, Granted, Want, Obliging
  <1>5. QED
    BY <1>1, <1>2, <1>4 DEF Readiness

\* A step of the reconcile between two writes to the API server.
LEMMA ReadyMoves ==
    ASSUME Inv, NEW a \in Access, Readiness(a),
           UNCHANGED <<api, cache, watch, obj>>,
           pc'[a] = "report" => plan'[a].reason # "Reconciled",
           InEnsure(a)' => InEnsure(a), InDelete(a)' => InDelete(a),
           pc'[a] # "addFinalizer",
           pc'[a] = "patchReady" => Granted(a, obj[a])',
           Obliging(api[a]) => Granted(a, api[a])'
    PROVE  Readiness(a)'
  <1>1. VersionsFollow(a)'
    BY DEF Readiness, VersionsFollow
  <1>2. WorkerFollows(a)'
    BY DEF Readiness, WorkerFollows
  <1>3. GrantFollows(a)'
    BY DEF Readiness, GrantFollows, Obliging
  <1>4. QED
    BY <1>1, <1>2, <1>3 DEF Readiness

LEMMA ReadyReturns ==
    ASSUME Inv, NEW a \in Access, Readiness(a), NEW retry \in BOOLEAN,
           Finish(a, retry), UNCHANGED <<api, cache, watch, grants>>
    PROVE  Readiness(a)'
  <1>1. pc'[a] = "idle"
    BY InvParts DEF Finish, TypeOK
  <1>2. VersionsFollow(a)'
    BY DEF Readiness, VersionsFollow
  <1>3. WorkerFollows(a)'
    BY <1>1 DEF WorkerFollows, InEnsure, InDelete
  <1>4. GrantFollows(a)'
    BY <1>1 DEF Readiness, GrantFollows, Obliging, Granted, Want
  <1>5. QED
    BY <1>2, <1>3, <1>4 DEF Readiness

LEMMA ReadyInit == Init => \A a \in Access : Readiness(a)
  <1> SUFFICES ASSUME Init, NEW a \in Access PROVE Readiness(a)
    OBVIOUS
  <1>1. cache[a] = api[a] /\ watch[a] = {} /\ pc[a] = "idle"
    BY DEF Init
  <1>2. /\ api[a].status.reason = "None" /\ ~api[a].finalizer
        /\ api[a].uid = api[a].rv /\ api[a].rv \in Nat /\ api[a].gen \in Nat
        /\ api[a].uid \in Nat
    BY InitialFields DEF NoStatus
  <1>3. VersionsFollow(a)
    BY <1>1, <1>2 DEF VersionsFollow, Followed, Orderly, Precedes, Claimed, Reported
  <1>4. WorkerFollows(a) /\ GrantFollows(a)
    BY <1>1, <1>2 DEF WorkerFollows, GrantFollows, InEnsure, InDelete, Obliging
  <1>5. QED
    BY <1>3, <1>4 DEF Readiness

\* A write to the API server that claims nothing new and reports no more than what the
\* worker is at.
LEMMA ReadyWrites ==
    ASSUME Inv, NEW a \in Access, Readiness(a), NEW o \in Objects,
           Commit(a, o), UNCHANGED <<cache, grants>>, Succeeds(o, api[a]),
           Claimed(o) => /\ Claimed(api[a]) /\ o.uid = api[a].uid
                         /\ api[a].deleting => o.deleting,
           Claimed(api[a]) /\ o.exists => Claimed(o),
           \/ o.gen = api[a].gen /\ o.spec = api[a].spec
           \/ o.gen = api[a].gen + 1
           \/ ~Claimed(api[a]),
           \/ ~Reported(o)
           \/ Reported(api[a]) /\ o.status.gen = api[a].status.gen
           \/ InEnsure(a) /\ o.status.reason = "Reconciled" /\ o.status.gen = obj[a].gen,
           Obliging(o) => Granted(a, o),
           \/ UNCHANGED <<pc, obj, plan>>
           \/ \E retry \in BOOLEAN : Finish(a, retry)
    PROVE  Readiness(a)'
  <1>1. api'[a] = o /\ watch'[a] = watch[a] \union {o}
    BY InvParts DEF Commit, TypeOK
  <1>2. /\ Followed(api[a], cache[a], watch[a])
        /\ InEnsure(a) => Current(api[a], cache[a], obj[a])
    BY DEF Readiness, VersionsFollow, WorkerFollows
  <1>3. o \in Versions(Specs, Statuses)
    BY DEF Objects
  <1>4. Reported(o) => o.finalizer /\ o.status.gen <= cache[a].gen
    <2>1. CASE Reported(api[a]) /\ o.status.gen = api[a].status.gen /\ o.exists
      <3>1. Claimed(api[a]) /\ api[a].status.gen <= cache[a].gen
        BY <1>2, <2>1 DEF Followed, Claimed, Reported
      <3>2. QED
        BY <2>1, <3>1 DEF Claimed
    <2>2. CASE o.exists /\ InEnsure(a) /\ o.status.gen = obj[a].gen
      BY <1>2, <2>2, ReadyFacts DEF Current, Claimed
    <2>3. QED
      BY <2>1, <2>2 DEF Reported
  <1>5. VersionsFollow(a)'
    <2>1. Claimed(o) => cache[a].uid = o.uid
      BY <1>2 DEF Followed
    <2>2. Followed(o, cache[a], watch[a] \union {o})
      BY <1>2, <1>3, <1>4, <2>1, ReadyFacts, FollowedWrites
    <2>3. QED
      BY <1>1, <2>2 DEF VersionsFollow
  <1>6. ASSUME InEnsure(a) PROVE Current(o, cache[a], obj[a])
    <2>1. Claimed(api[a]) /\ Current(api[a], cache[a], obj[a])
      BY <1>2, <1>6, ReadyFacts
    <2>2. obj[a].gen \in Nat
      BY ReadyFacts, VersionFields
    <2>3. Reported(o) => o.status.gen <= obj[a].gen
      BY <2>1, <2>2 DEF Current
    <2>4. QED
      BY <1>2, <1>3, <2>1, <2>3, ReadyFacts, CurrentWrites
  <1>7. CASE UNCHANGED <<pc, obj, plan>>
    <2>1. WorkerFollows(a)'
      BY <1>1, <1>6, <1>7 DEF Readiness, WorkerFollows, InEnsure, InDelete
    <2>2. GrantFollows(a)'
      BY <1>1, <1>7 DEF Readiness, GrantFollows, Obliging, Granted, Want
    <2>3. QED
      BY <1>5, <2>1, <2>2 DEF Readiness
  <1>8. CASE \E retry \in BOOLEAN : Finish(a, retry)
    <2>1. pc'[a] = "idle"
      BY <1>8, InvParts DEF Finish, TypeOK
    <2>2. WorkerFollows(a)'
      BY <2>1 DEF WorkerFollows, InEnsure, InDelete
    <2>3. GrantFollows(a)'
      BY <1>1, <2>1 DEF GrantFollows, Obliging, Granted, Want
    <2>4. QED
      BY <1>5, <2>2, <2>3 DEF Readiness
  <1>9. QED
    BY <1>7, <1>8

\* Deletion is requested, by a user or by the reconcile itself.
LEMMA ReadyDeletes ==
    ASSUME Inv, NEW a \in Access, Readiness(a),
           Commit(a, DeletionRequested(api[a])), api[a].exists, ~api[a].deleting,
           UNCHANGED <<cache, grants>>,
           \/ UNCHANGED <<pc, obj, plan>>
           \/ \E retry \in BOOLEAN : Finish(a, retry)
    PROVE  Readiness(a)'
  <1> DEFINE o == DeletionRequested(api[a])
  <1>1. o \in Objects /\ Succeeds(o, api[a])
    BY KnownTypes, ObjectFields, VersionTypes, ReadyFacts, WritesSucceed, InvParts
  <1>2. CASE api[a].finalizer
    <2>1. /\ o.uid = api[a].uid /\ o.gen = api[a].gen + 1 /\ o.status = api[a].status
          /\ o.exists /\ o.finalizer /\ o.deleting
      BY <1>2, ReadyFacts DEF DeletionRequested, Versions
    <2>2. /\ Claimed(o) /\ Claimed(api[a]) /\ ~Obliging(o)
          /\ Reported(o) => Reported(api[a])
      BY <1>2, <2>1 DEF Claimed, Reported, Obliging
    <2> HIDE DEF o
    <2>3. QED
      BY <1>1, <2>1, <2>2, ReadyWrites DEF o
  <1>3. CASE ~api[a].finalizer
    <2>1. ~o.exists
      BY <1>3, ReadyFacts DEF DeletionRequested, Gone, Versions
    <2>2. ~Claimed(o) /\ ~Claimed(api[a]) /\ ~Reported(o) /\ ~Obliging(o)
      BY <1>3, <2>1 DEF Claimed, Reported, Obliging
    <2> HIDE DEF o
    <2>3. QED
      BY <1>1, <2>2, ReadyWrites DEF o
  <1>4. QED
    BY <1>2, <1>3

LEMMA ReadyUser ==
    ASSUME Inv, NEW a \in Access, Readiness(a), User(a)
    PROVE  Readiness(a)'
  <1>1. UNCHANGED <<cache, grants, pc, obj, plan>>
    BY DEF User, Create, Post, environment, EditSpec, Put, RequestDeletion, Delete
  <1>2. /\ api[a] \in Objects /\ api[a].spec \in Specs /\ api[a].status \in Statuses
        /\ api[a] \in Versions(Specs, Statuses)
        /\ api[a].gen \in Nat /\ api[a].status.gen \in Nat
    BY KnownTypes, ObjectFields, ReadyFacts, VersionFields, InvParts
  <1>3. Reported(api[a]) => api[a].status.gen <= api[a].gen
    <2>1. Followed(api[a], api[a], {})
      BY ReadyFacts, FollowedRelists DEF Readiness, VersionsFollow
    <2>2. QED
      BY <2>1 DEF Followed
  <1>4. CASE Create(a)
    <2>1. PICK s \in SpecsOf[a] :
            Commit(a, Created(api[a], s, NoStatus)) /\ ~api[a].exists
      BY <1>4 DEF Create, Post
    <2> DEFINE o == Created(api[a], s, NoStatus)
    <2>2. o \in Objects /\ Succeeds(o, api[a])
      BY <1>2, DataAssumption, NoStatusType, VersionTypes, WritesSucceed
    <2>3. ~Claimed(o) /\ ~Claimed(api[a]) /\ ~Reported(o) /\ ~Obliging(o)
      BY <2>1 DEF Claimed, Reported, Obliging, Created, NoStatus
    <2> HIDE DEF o
    <2>4. QED
      BY <1>1, <2>1, <2>2, <2>3, ReadyWrites DEF o
  <1>5. CASE EditSpec(a)
    <2>1. PICK s \in SpecsOf[a] : Commit(a, SpecEdited(api[a], s)) /\ api[a].exists
      BY <1>5 DEF EditSpec, Put
    <2> DEFINE o == SpecEdited(api[a], s)
    <2>2. o \in Objects /\ Succeeds(o, api[a])
      BY <1>2, DataAssumption, NoStatusType, VersionTypes, WritesSucceed
    <2>3. /\ o.uid = api[a].uid /\ o.gen = api[a].gen + 1 /\ o.status = api[a].status
          /\ o.exists = api[a].exists /\ o.finalizer = api[a].finalizer
          /\ o.deleting = api[a].deleting
      BY <1>2 DEF SpecEdited, Versions
    <2>4. /\ Claimed(o) <=> Claimed(api[a])
          /\ Reported(o) => Reported(api[a])
      BY <2>3 DEF Claimed, Reported
    <2>5. ~Obliging(o)
      BY <1>2, <1>3, <2>3, <2>4 DEF Reported, Obliging
    <2> HIDE DEF o
    <2>6. QED
      BY <1>1, <2>1, <2>2, <2>3, <2>4, <2>5, ReadyWrites DEF o
  <1>6. CASE RequestDeletion(a)
    BY <1>1, <1>6, ReadyDeletes DEF RequestDeletion, Delete
  <1>7. QED
    BY <1>4, <1>5, <1>6 DEF User

LEMMA ReadyDeliver ==
    ASSUME Inv, NEW a \in Access, Readiness(a), Deliver(a)
    PROVE  Readiness(a)'
  <1>1. PICK v \in watch[a] : /\ Earliest(watch[a], v)
                              /\ cache' = [cache EXCEPT ![a] = v]
                              /\ watch' = [watch EXCEPT ![a] = @ \ {v}]
    BY DEF Deliver, Inform
  <1>2. cache'[a] = v /\ watch'[a] = watch[a] \ {v} /\ UNCHANGED <<api, pc, obj, plan, grants>>
    BY <1>1, InvParts DEF Deliver, Inform, environment, TypeOK
  <1>3. /\ Followed(api[a], v, watch[a] \ {v})
        /\ Claimed(api[a]) => cache[a].gen <= v.gen
    BY <1>1, ReadyFacts, FollowedDelivers DEF Readiness, VersionsFollow
  <1>4. VersionsFollow(a)'
    BY <1>2, <1>3 DEF VersionsFollow
  <1>5. WorkerFollows(a)'
    <2>1. /\ v.rv \in Nat /\ v.gen \in Nat /\ cache[a].rv \in Nat /\ cache[a].gen \in Nat
          /\ obj[a].rv \in Nat /\ obj[a].gen \in Nat /\ cache[a].rv <= v.rv
      BY ReadyFacts, VersionFields
    <2>2. pc[a] = "addFinalizer" => obj[a].rv <= v.rv
      BY <2>1 DEF Readiness, WorkerFollows
    <2>3. InEnsure(a) => Current(api[a], v, obj[a])
      BY <1>3, <2>1, ReadyFacts DEF Readiness, WorkerFollows, Current
    <2>4. QED
      BY <1>2, <2>2, <2>3 DEF Readiness, WorkerFollows, InEnsure, InDelete
  <1>6. GrantFollows(a)'
    BY <1>2 DEF Readiness, GrantFollows, Obliging, Granted, Want
  <1>7. QED
    BY <1>4, <1>5, <1>6 DEF Readiness

LEMMA ReadyStart ==
    ASSUME Inv, NEW a \in Access, Readiness(a), Start(a)
    PROVE  Readiness(a)'
  <1>1. UNCHANGED <<api, cache, watch, plan, grants>>
    BY DEF Start, Begin, environment
  <1>2. CASE UNCHANGED <<pc, obj>>
    BY <1>1, <1>2, ReadyUntouched DEF Untouched, Stays
  <1>3. CASE /\ obj' = [obj EXCEPT ![a] = cache[a]]
             /\ GoTo(a, FirstStep(cache[a]))
             /\ cache[a].exists
    <2>1. pc'[a] = FirstStep(cache[a]) /\ obj'[a] = cache[a]
      BY <1>3, InvParts DEF GoTo, TypeOK
    <2>2. VersionsFollow(a)'
      BY <1>1 DEF Readiness, VersionsFollow
    <2>3. Claimed(api[a])
            => Current(api[a], cache[a], cache[a]) /\ (cache[a].deleting => api[a].deleting)
      BY ReadyFacts, CurrentStarts DEF Readiness, VersionsFollow
    <2>4. WorkerFollows(a)'
      <3>1. InEnsure(a)' => Alive(cache[a])
        BY <1>3, <2>1 DEF InEnsure, FirstStep, Alive
      <3>2. Alive(cache[a]) => Claimed(api[a])
        BY InvParts DEF ServerInv, AliveMeansClaimed, Known, Claimed
      <3>3. InDelete(a)' => cache[a].deleting
        BY <2>1 DEF InDelete, FirstStep
      <3>4. cache[a].rv \in Nat /\ pc'[a] # "report"
        BY <2>1, ReadyFacts, VersionFields DEF FirstStep
      <3>5. QED
        BY <1>1, <2>1, <2>3, <3>1, <3>2, <3>3, <3>4 DEF WorkerFollows
    <2>5. GrantFollows(a)'
      BY <1>1, <2>1 DEF Readiness, GrantFollows, FirstStep, Obliging, Granted, Want
    <2>6. QED
      BY <2>2, <2>4, <2>5 DEF Readiness
  <1>4. QED
    BY <1>2, <1>3 DEF Start, Begin

LEMMA ReadyCrash ==
    ASSUME Inv, NEW a \in Access, Readiness(a), Crash
    PROVE  Readiness(a)'
  <1>1. /\ api'[a] = api[a] /\ cache'[a] = api[a] /\ watch'[a] = {}
        /\ pc'[a] = "idle" /\ UNCHANGED grants
    BY DEF Crash, Restart, environment
  <1>2. Followed(api[a], api[a], {})
    BY ReadyFacts, FollowedRelists DEF Readiness, VersionsFollow
  <1>3. VersionsFollow(a)'
    BY <1>1, <1>2 DEF VersionsFollow
  <1>4. WorkerFollows(a)' /\ GrantFollows(a)'
    BY <1>1 DEF Readiness, WorkerFollows, GrantFollows, InEnsure, InDelete, Obliging,
                Granted, Want
  <1>5. QED
    BY <1>3, <1>4 DEF Readiness

\* The finalizer is added to the version that was read, which the informer shows.
LEMMA ReadyAddFinalizer ==
    ASSUME Inv, NEW a \in Access, Readiness(a), AddFinalizer(a)
    PROVE  Readiness(a)'
  <1>1. CASE ~Accepts(api[a], obj[a])
    BY <1>1, ReadyReturns DEF AddFinalizer, Claim, environment
  <1>2. CASE Accepts(api[a], obj[a])
    <2> DEFINE o == FinalizerAdded(api[a])
    <2>1. /\ Commit(a, o) /\ GoTo(a, "check") /\ obj' = [obj EXCEPT ![a] = o]
          /\ UNCHANGED <<cache, grants>> /\ pc[a] = "addFinalizer"
      BY <1>2 DEF AddFinalizer, Claim, environment
    <2>2. /\ api'[a] = o /\ watch'[a] = watch[a] \union {o}
          /\ pc'[a] = "check" /\ obj'[a] = o
      BY <2>1, InvParts DEF Commit, GoTo, TypeOK
    <2>3. o \in Versions(Specs, Statuses) /\ Succeeds(o, api[a])
      BY KnownTypes, VersionTypes, ReadyFacts, WritesSucceed, InvParts, NoStatusType,
         ObjectFields DEF Objects
    <2>4. /\ o.uid = api[a].uid /\ o.gen = api[a].gen /\ o.spec = api[a].spec
          /\ o.status = api[a].status /\ o.deleting = api[a].deleting
          /\ o.exists /\ api[a].exists /\ o.finalizer
      BY <1>2, ReadyFacts DEF Accepts, FinalizerAdded, Versions
    <2>5. cache[a] = api[a]
      <3>1. obj[a].rv = api[a].rv /\ obj[a].rv <= cache[a].rv /\ cache[a].rv <= api[a].rv
        BY <1>2, <2>1, ReadyFacts DEF Accepts, Readiness, WorkerFollows, Past
      <3>2. cache[a].rv = api[a].rv
        BY <3>1, ReadyFacts, VersionFields
      <3>3. QED
        BY <3>2, InvParts DEF ServerInv, KnownIsPast, Known
    <2>6. Reported(o) => o.finalizer /\ o.status.gen <= cache[a].gen
      BY <2>4 DEF Readiness, VersionsFollow, Followed, Reported
    <2>7. VersionsFollow(a)'
      <3>1. Claimed(o) => cache[a].uid = o.uid
        BY <2>4, <2>5
      <3> HIDE DEF o
      <3>2. Followed(o, cache[a], watch[a] \union {o})
        BY <2>3, <2>6, <3>1, ReadyFacts, FollowedWrites DEF Readiness, VersionsFollow
      <3>3. QED
        BY <2>1, <2>2, <3>2 DEF VersionsFollow
    <2>8. WorkerFollows(a)'
      <3>1. o.gen <= cache[a].gen
        BY <2>4, <2>5, ReadyFacts, VersionFields
      <3>2. Current(o, cache[a], o)
        BY <2>4, <2>5, <2>6, <3>1 DEF Current
      <3> HIDE DEF o
      <3>3. QED
        BY <2>1, <2>2, <3>2 DEF WorkerFollows, InDelete
    <2>9. GrantFollows(a)'
      <3>1. Obliging(o) => Obliging(api[a])
        BY <2>4 DEF Obliging
      <3> HIDE DEF o
      <3>2. QED
        BY <2>1, <2>2, <2>4, <3>1 DEF Readiness, GrantFollows, Obliging, Granted, Want
    <2>10. QED
      BY <2>7, <2>8, <2>9 DEF Readiness
  <1>3. QED
    BY <1>1, <1>2

\* A status patch reports Ready for what the worker has made, or keeps what is reported.
LEMMA ReadyPatchStatus ==
    ASSUME Inv, NEW a \in Access, Readiness(a), NEW rs \in Applieds,
           NEW reason \in Reasons, NEW retry \in BOOLEAN,
           Patch(a, Outcome(a, rs, reason), retry), UNCHANGED grants,
           reason = "Reconciled" => pc[a] = "patchReady"
    PROVE  Readiness(a)'
  <1> DEFINE new == [applied |-> rs, reason |-> reason, gen |-> obj[a].gen]
             merged == Merged(cache[a].status, new, api[a].status)
             o == StatusWritten(api[a], merged)
             sent == cache[a].exists /\ new # cache[a].status
             again == retry \/ (~cache[a].exists \/ (sent /\ ~api[a].exists))
  <1>1. again \in BOOLEAN /\ Finish(a, again) /\ UNCHANGED cache
    BY DEF Patch, PatchStatus, SendPatch, PatchRefused, Differs, Outcome
  <1>2. CASE UNCHANGED <<api, watch>>
    BY <1>1, <1>2, ReadyReturns
  <1>3. CASE api[a].exists /\ Commit(a, o)
    <2>1. /\ api[a] \in Objects /\ api[a].spec \in Specs
          /\ api[a].status \in Statuses /\ cache[a].status \in Statuses
          /\ obj[a].gen \in Nat
      BY KnownTypes, ObjectFields, InvParts DEF TypeOK, Objects, Versions
    <2>2. merged \in Statuses
      <3>1. new \in Statuses
        BY <2>1 DEF Statuses, Applieds
      <3>2. QED
        BY <2>1, <3>1, MergedType
    <2>3. o \in Objects /\ Succeeds(o, api[a])
      BY <2>1, <2>2, VersionTypes, ReadyFacts, WritesSucceed
    <2>4. /\ o.uid = api[a].uid /\ o.gen = api[a].gen /\ o.spec = api[a].spec
          /\ o.exists = api[a].exists /\ o.finalizer = api[a].finalizer
          /\ o.deleting = api[a].deleting /\ o.status = merged
      BY <2>1 DEF StatusWritten, Objects, Versions
    <2>5. \/ merged.reason = reason /\ merged.gen = obj[a].gen
          \/ merged.reason = api[a].status.reason /\ merged.gen = api[a].status.gen
      BY DEF Merged
    <2> HIDE DEF merged
    <2>6. Claimed(o) <=> Claimed(api[a])
      BY <2>4 DEF Claimed
    <2>7. \/ ~Reported(o)
          \/ Reported(api[a]) /\ o.status.gen = api[a].status.gen
          \/ InEnsure(a) /\ o.status.reason = "Reconciled" /\ o.status.gen = obj[a].gen
      BY <2>4, <2>5 DEF Reported, InEnsure
    <2>8. ASSUME Obliging(o) PROVE Granted(a, o)
      <3>1. CASE merged.reason = api[a].status.reason /\ merged.gen = api[a].status.gen
        <4>1. Obliging(api[a])
          BY <2>4, <2>8, <3>1 DEF Obliging
        <4>2. QED
          BY <2>4, <4>1 DEF Readiness, GrantFollows, Granted, Want
      <3>2. CASE merged.reason = reason /\ merged.gen = obj[a].gen
        <4>1. pc[a] = "patchReady" /\ obj[a].gen = api[a].gen
          BY <2>4, <2>8, <3>2 DEF Obliging
        <4>2. obj[a].spec = api[a].spec /\ Granted(a, obj[a])
          BY <4>1 DEF Readiness, WorkerFollows, GrantFollows, InEnsure, Current
        <4>3. QED
          BY <2>4, <4>2 DEF Granted, Want
      <3>3. QED
        BY <2>5, <3>1, <3>2
    <2> HIDE DEF o, again
    <2>9. QED
      BY <1>1, <1>3, <2>3, <2>4, <2>6, <2>7, <2>8, ReadyWrites
  <1>4. QED
    BY <1>2, <1>3 DEF Patch, PatchStatus, SendPatch, PatchRefused, Differs, Outcome

LEMMA ReadyRemoveFinalizer ==
    ASSUME Inv, NEW a \in Access, Readiness(a), RemoveFinalizer(a)
    PROVE  Readiness(a)'
  <1>1. CASE ~Accepts(api[a], obj[a])
    BY <1>1, ReadyReturns DEF RemoveFinalizer, Release, environment
  <1>2. CASE Accepts(api[a], obj[a])
    <2> DEFINE o == Gone(api[a])
    <2>1. Commit(a, o) /\ Finish(a, FALSE) /\ UNCHANGED <<cache, grants>>
      BY <1>2 DEF RemoveFinalizer, Release, environment
    <2>2. o \in Objects /\ Succeeds(o, api[a])
      BY KnownTypes, ObjectFields, VersionTypes, ReadyFacts, WritesSucceed, InvParts
    <2>3. ~o.exists /\ o.gen = api[a].gen /\ o.spec = api[a].spec
      BY ReadyFacts DEF Gone, Versions
    <2>4. ~Claimed(o) /\ ~Reported(o) /\ ~Obliging(o)
      BY <2>3 DEF Claimed, Reported, Obliging
    <2> HIDE DEF o
    <2>5. QED
      BY <2>1, <2>2, <2>3, <2>4, ReadyWrites
  <1>3. QED
    BY <1>1, <1>2

\* The steps of EnsureBucketAccess leave the access that the worker asks for; the
\* others are not taken while the resource is Ready for what it is.
LEMMA ReadyEnsures ==
    ASSUME Inv, NEW a \in Access, Readiness(a),
           UNCHANGED <<api, cache, watch, obj>>, InEnsure(a) \/ InDelete(a),
           pc'[a] = "report" => plan'[a].reason # "Reconciled",
           InEnsure(a)' => InEnsure(a), InDelete(a)' => InDelete(a),
           pc'[a] # "addFinalizer",
           pc'[a] = "patchReady" => Granted(a, obj[a])',
           InEnsure(a) /\ Granted(a, obj[a]) => Granted(a, obj[a])'
    PROVE  Readiness(a)'
  <1>1. ASSUME Obliging(api[a]) PROVE Granted(a, api[a])'
    <2>1. InEnsure(a) /\ obj[a].spec = api[a].spec
      BY <1>1, ReadyForWhatItIs
    <2>2. Granted(a, obj[a])
      BY <1>1, <2>1 DEF Readiness, GrantFollows, Granted, Want
    <2>3. QED
      BY <2>1, <2>2 DEF Granted, Want
  <1>2. QED
    BY <1>1, ReadyMoves

LEMMA ReadyReconcile ==
    ASSUME Inv, NEW a \in Access, Readiness(a), Reconcile(a)
    PROVE  Readiness(a)'
  <1>1. CASE AddFinalizer(a)
    BY <1>1, ReadyAddFinalizer
  <1>2. CASE Check(a)
    <2>1. /\ InEnsure(a) /\ UNCHANGED <<api, cache, watch, obj, grants>>
          /\ pc'[a] \in {"deleteSelf", "revokeStale", "report"}
      BY <1>2, InvParts DEF Check, Proceed, Reporting, GoTo, environment, InEnsure, TypeOK
    <2>2. pc'[a] = "report" => plan'[a].reason # "Reconciled"
      <3>1. Obstacle(a, obj[a]) # "Reconciled"
        BY DEF Obstacle
      <3>2. QED
        BY <1>2, <3>1, InvParts DEF Check, Proceed, Reporting, GoTo, TypeOK
    <2>3. QED
      BY <2>1, <2>2, ReadyEnsures DEF Granted, Want, InEnsure, InDelete
  <1>3. CASE DeleteSelf(a)
    <2>1. Finish(a, FALSE) /\ UNCHANGED <<cache, grants>>
      BY <1>3 DEF DeleteSelf, environment
    <2>2. CASE UNCHANGED <<api, watch>>
      BY <2>1, <2>2, ReadyReturns
    <2>3. CASE /\ api[a].exists /\ ~api[a].deleting
               /\ Commit(a, DeletionRequested(api[a]))
      BY <2>1, <2>3, ReadyDeletes
    <2>4. QED
      BY <1>3, <2>2, <2>3 DEF DeleteSelf
  <1>4. CASE RevokeStale(a)
    <2>1. /\ InEnsure(a) /\ UNCHANGED <<api, cache, watch, obj>> /\ pc'[a] = "grant"
          /\ grants' = grants \ Stale(a)
      BY <1>4, InvParts DEF RevokeStale, Proceed, GoTo, InEnsure, TypeOK
    <2>2. Granted(a, obj[a]) => Granted(a, obj[a])'
      BY <2>1 DEF Granted, Want, Stale
    <2>3. QED
      BY <2>1, <2>2, ReadyEnsures DEF InEnsure, InDelete
  <1>5. CASE Grant(a)
    <2>1. /\ InEnsure(a) /\ UNCHANGED <<api, cache, watch, obj>> /\ pc'[a] = "patchReady"
          /\ grants' = grants \union {Want(a, obj[a])}
      BY <1>5, InvParts DEF Grant, Proceed, GoTo, InEnsure, TypeOK
    <2>2. Granted(a, obj[a])'
      BY <2>1 DEF Granted, Want
    <2>3. QED
      BY <2>1, <2>2, ReadyEnsures DEF InEnsure, InDelete
  <1>6. CASE PatchReady(a)
    <2>1. {Want(a, obj[a])} \in Applieds
      BY KnownTypes, WantType, InvParts DEF Applieds
    <2>2. QED
      BY <1>6, <2>1, ReadyPatchStatus DEF PatchReady, environment, Reasons
  <1>7. CASE Report(a)
    <2>1. /\ plan[a].reason # "Reconciled"
          /\ plan[a].reason \in Reasons /\ plan[a].retry \in BOOLEAN
          /\ cache[a].status.applied \in Applieds
      BY <1>7, KnownTypes, ObjectFields, InvParts
         DEF Report, Readiness, WorkerFollows, TypeOK, Plans
    <2>2. QED
      BY <1>7, <2>1, ReadyPatchStatus DEF Report, environment
  <1>8. CASE PrepareDelete(a)
    <2>1. CASE Return(a, TRUE)
      BY <1>8, <2>1, ReadyReturns DEF Return, PrepareDelete, environment
    <2>2. CASE \/ Proceed(a, "release") \/ Proceed(a, "revokeRecorded")
               \/ Reporting(a, "RemoveFinalizerError", FALSE)
      <3>1. /\ UNCHANGED <<api, cache, watch, obj>>
            /\ pc'[a] \in {"release", "revokeRecorded", "report"}
            /\ pc'[a] = "report" => plan'[a].reason = "RemoveFinalizerError"
        BY <2>2, InvParts DEF Proceed, Reporting, GoTo, TypeOK
      <3>2. InDelete(a)
        BY <1>8 DEF PrepareDelete, InDelete
      <3>3. QED
        BY <3>1, <3>2, ReadyEnsures DEF InEnsure, InDelete
    <2>3. QED
      BY <1>8, <2>1, <2>2 DEF PrepareDelete
  <1>9. CASE RevokeRecorded(a)
    <2>1. /\ InDelete(a) /\ UNCHANGED <<api, cache, watch, obj>> /\ pc'[a] = "release"
      BY <1>9, InvParts DEF RevokeRecorded, Proceed, GoTo, InDelete, TypeOK
    <2>2. QED
      BY <2>1, ReadyEnsures DEF InEnsure, InDelete
  <1>10. CASE RemoveFinalizer(a)
    BY <1>10, ReadyRemoveFinalizer
  <1>11. QED
    BY <1>1, <1>2, <1>3, <1>4, <1>5, <1>6, <1>7, <1>8, <1>9, <1>10 DEF Reconcile

LEMMA ReadyCloudCallFails ==
    ASSUME Inv, NEW a \in Access, Readiness(a), CloudCallFails(a)
    PROVE  Readiness(a)'
  <1>1. /\ UNCHANGED <<api, cache, watch, obj>>
        /\ pc'[a] = "report" /\ plan'[a].reason \in {"EnsureError", "DeleteError"}
        /\ InEnsure(a) \/ InDelete(a)
    BY InvParts DEF CloudCallFails, Reporting, GoTo, InEnsure, InDelete, TypeOK
  <1>2. ASSUME InEnsure(a), Granted(a, obj[a]) PROVE Granted(a, obj[a])'
    <2>1. \/ UNCHANGED grants
          \/ grants' = grants \ Stale(a)
          \/ grants' = grants \union {Want(a, obj[a])}
      BY <1>2 DEF CloudCallFails, InEnsure
    <2>2. QED
      BY <1>1, <1>2, <2>1 DEF Granted, Want, Stale
  <1>3. QED
    BY <1>1, <1>2, ReadyEnsures DEF InEnsure, InDelete

-------------------------------------------------------------------------------
(* The steps for other resources. *)

\* What a step for m leaves of n's variables.
LEMMA OthersKeep ==
    ASSUME TypeOK, NEW a \in Access, NEW b \in Access, b # a,
           User(b) \/ Deliver(b) \/ Start(b) \/ Reconcile(b) \/ ApiCallFails(b)
             \/ CloudCallFails(b)
    PROVE  Untouched(a)
  <1> USE DEF Untouched, TypeOK, Commit, Finish, GoTo, environment
  <1>1. CASE User(b)
    BY <1>1 DEF User, Create, Post, EditSpec, Put, RequestDeletion, Delete
  <1>2. CASE Deliver(b)
    BY <1>2 DEF Deliver, Inform
  <1>3. CASE Start(b)
    BY <1>3 DEF Start, Begin
  <1>4. CASE Reconcile(b)
    <2>1. CASE AddFinalizer(b)
      BY <2>1 DEF AddFinalizer, Claim
    <2>2. CASE Check(b)
      BY <2>2 DEF Check, Proceed, Reporting
    <2>3. CASE DeleteSelf(b)
      BY <2>3 DEF DeleteSelf
    <2>4. CASE RevokeStale(b) \/ Grant(b)
      BY <2>4 DEF RevokeStale, Grant, Proceed
    <2>5. CASE PatchReady(b) \/ Report(b)
      BY <2>5 DEF PatchReady, Report, Patch, PatchStatus, SendPatch
    <2>6. CASE PrepareDelete(b)
      BY <2>6 DEF PrepareDelete, Return, Proceed, Reporting
    <2>7. CASE RevokeRecorded(b)
      BY <2>7 DEF RevokeRecorded, Proceed
    <2>8. CASE RemoveFinalizer(b)
      BY <2>8 DEF RemoveFinalizer, Release
    <2>9. QED
      BY <1>4, <2>1, <2>2, <2>3, <2>4, <2>5, <2>6, <2>7, <2>8 DEF Reconcile
  <1>5. CASE ApiCallFails(b)
    BY <1>5 DEF ApiCallFails, Return
  <1>6. CASE CloudCallFails(b)
    BY <1>6 DEF CloudCallFails, Reporting
  <1>7. QED
    BY <1>1, <1>2, <1>3, <1>4, <1>5, <1>6

\* They revoke bindings of their own.
LEMMA OthersStay ==
    ASSUME Inv, DistinctBindings, NEW a \in Access, NEW b \in Access, b # a,
           User(b) \/ Deliver(b) \/ Start(b) \/ Reconcile(b) \/ ApiCallFails(b)
             \/ CloudCallFails(b)
    PROVE  Stays(a)
  <1>1. BindingsOf(a) \intersect BindingsOf(b) = {}
    BY DEF DistinctBindings
  <1>2. obj[b].status.applied \subseteq BindingsOf(b)
    BY InvParts DEF WorkerInv, KeepsToBindings, OwnBindings
  <1>3. CASE grants \subseteq grants'
    BY <1>3 DEF Stays
  <1>4. CASE grants' = grants \ Stale(b) \/ grants' = grants \ obj[b].status.applied
    BY <1>1, <1>2, <1>4 DEF Stays, Stale
  <1>5. CASE Reconcile(b)
    BY <1>3, <1>4, <1>5
       DEF Reconcile, AddFinalizer, Check, DeleteSelf, RevokeStale, Grant, PatchReady,
           Report, PrepareDelete, RevokeRecorded, RemoveFinalizer, environment
  <1>6. CASE CloudCallFails(b)
    BY <1>3, <1>4, <1>6 DEF CloudCallFails
  <1>7. QED
    BY <1>3, <1>5, <1>6
       DEF User, Create, EditSpec, RequestDeletion, Deliver, Start, ApiCallFails,
           environment

LEMMA ReadyStep ==
    ASSUME Inv, DistinctBindings, NEW a \in Access, Readiness(a), [Next]_vars
    PROVE  Readiness(a)'
  <1>1. CASE UNCHANGED <<api, cache, watch, pc, obj, plan, grants>>
    BY <1>1, ReadyUntouched DEF Untouched, Stays
  <1>2. CASE (\E d \in Buckets \union Principals : DependencyChanges(d)) \/ ProviderChanges
             \/ UNCHANGED vars
    BY <1>1, <1>2 DEF DependencyChanges, ProviderChanges, Wake, vars
  <1>3. CASE ApiCallFails(a)
    BY <1>3, ReadyReturns DEF ApiCallFails, Return, environment
  <1>4. ASSUME NEW b \in Access, b # a,
               User(b) \/ Deliver(b) \/ Start(b) \/ Reconcile(b) \/ ApiCallFails(b)
                 \/ CloudCallFails(b)
        PROVE  Readiness(a)'
    BY <1>4, OthersKeep, OthersStay, ReadyUntouched, InvParts
  <1>5. QED
    BY <1>2, <1>3, <1>4, ReadyUser, ReadyDeliver, ReadyStart, ReadyReconcile,
       ReadyCloudCallFails, ReadyCrash DEF Next

\* The access a Ready resource asks for in its current generation is in the cloud: what
\* reconciles, users and failures do in between, on however old a cached copy, does not
\* take it away, for resources with bindings of their own.
THEOREM ReadyGrants == DistinctBindings => (Spec => []ReadyMeansGranted)
  <1> DEFINE AllReady == \A a \in Access : Readiness(a)
  <1> SUFFICES ASSUME DistinctBindings PROVE Spec => []ReadyMeansGranted
    OBVIOUS
  <1>1. Init => Inv /\ AllReady
    BY InvInit, ReadyInit
  <1>2. (Inv /\ AllReady) /\ [Next]_vars => (Inv /\ AllReady)'
    BY InvStep, ReadyStep
  <1>3. AllReady => ReadyMeansGranted
    BY DEF Readiness, GrantFollows, Obliging, Granted, ReadyMeansGranted
  <1> HIDE DEF AllReady
  <1>4. QED
    BY <1>1, <1>2, <1>3, PTL DEF Spec
===============================================================================
