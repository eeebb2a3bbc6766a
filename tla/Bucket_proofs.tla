----------------------------- MODULE Bucket_proofs -----------------------------
(***************************************************************************)
(* Proofs about Bucket, for every set of resources, buckets, locations and *)
(* properties and for every bound on edits and failures.                   *)
(***************************************************************************)
EXTENDS Bucket, KubeObject_proofs, TLAPS

-------------------------------------------------------------------------------
(* Types. *)

\* What the API server makes of a version is a version.
LEMMA VersionTypes ==
    ASSUME NEW o \in Objects, NEW s \in Specs, NEW t \in Statuses
    PROVE  /\ Created(o, s, t) \in Objects
           /\ SpecEdited(o, s) \in Objects
           /\ StatusWritten(o, t) \in Objects
           /\ FinalizerAdded(o) \in Objects
           /\ Gone(o) \in Objects
           /\ DeletionRequested(o) \in Objects
  <1> USE DEF Objects, Versions
  <1>1. o.rv + 1 \in Nat /\ o.gen + 1 \in Nat
    OBVIOUS
  <1>2. Created(o, s, t) \in Objects
    BY <1>1 DEF Created
  <1>3. SpecEdited(o, s) \in Objects
    BY <1>1 DEF SpecEdited
  <1>4. StatusWritten(o, t) \in Objects
    BY <1>1 DEF StatusWritten
  <1>5. FinalizerAdded(o) \in Objects
    BY <1>1 DEF FinalizerAdded
  <1>6. Gone(o) \in Objects
    BY <1>1 DEF Gone
  <1>7. DeletionRequested(o) \in Objects
    BY <1>1, <1>6 DEF DeletionRequested
  <1>8. QED
    BY <1>2, <1>3, <1>4, <1>5, <1>6, <1>7

LEMMA NoStatusType == NoStatus \in Statuses
  BY DEF NoStatus, Statuses, Reasons

LEMMA NoObjectType == NoObject \in Objects
  <1>1. \E s \in Specs : TRUE
    <2>1. PICK x \in Buckets, l \in Locations, p \in Properties : TRUE
      BY ConstantsAssumption
    <2>2. [name |-> x, location |-> l, properties |-> p, policy |-> "Delete"] \in Specs
      BY DEF Specs
    <2>3. QED
      BY <2>2
  <1>2. (CHOOSE s \in Specs : TRUE) \in Specs
    BY <1>1
  <1>3. QED
    BY <1>2, NoStatusType DEF NoObject, NeverCreated, Objects, Versions

\* What a successful reconcile records is a record.
LEMMA WantType ==
    ASSUME NEW o \in Objects
    PROVE  Want(o) \in Records /\ Want(o).name = o.spec.name
  BY DEF Want, Records, Objects, Versions, Specs

\* The names the users of a resource write.
NamesOf(n) == {s.name : s \in SpecsOf[n]}

States == {{}} \union {{b} : b \in Contents}

Clouds == [Buckets -> States]

RecordSets == {{}} \union {{r} : r \in Records}

Names(rs) == {r.name : r \in rs}

\* Merging two records into a third gives at most one, whose name is in the one
\* sent or in the one merged into.
LEMMA MergedRecordedType ==
    ASSUME NEW base \in RecordSets, NEW new \in RecordSets, NEW current \in RecordSets
    PROVE  /\ MergedRecorded(base, new, current) \in RecordSets
           /\ Names(MergedRecorded(base, new, current))
                \subseteq Names(new) \union Names(current)
  <1>1. CASE new = base \/ base = {} \/ current = {}
    BY <1>1 DEF MergedRecorded, Names
  <1>2. CASE new # base /\ base # {} /\ current # {} /\ new = {}
    BY <1>2 DEF MergedRecorded, RecordSets, Names
  <1>3. CASE new # base /\ base # {} /\ current # {} /\ new # {}
    <2>1. PICK b \in Records : base = {b}
      BY <1>3 DEF RecordSets
    <2>2. PICK r \in Records : new = {r}
      BY <1>3 DEF RecordSets
    <2>3. PICK c \in Records : current = {c}
      BY <1>3 DEF RecordSets
    <2> DEFINE g == [name |-> IF r.name = b.name THEN c.name ELSE r.name,
                     properties |->
                         IF r.properties = b.properties THEN c.properties ELSE r.properties]
    <2>4. MergedRecorded(base, new, current) = {g}
      BY <1>3, <2>1, <2>2, <2>3 DEF MergedRecorded
    <2>5. g \in Records /\ g.name \in {r.name, c.name}
      BY <2>1, <2>2, <2>3 DEF Records
    <2>6. QED
      BY <2>2, <2>3, <2>4, <2>5 DEF RecordSets, Names
  <1>4. QED
    BY <1>1, <1>2, <1>3

LEMMA MergedType ==
    ASSUME NEW base \in Statuses, NEW new \in Statuses, NEW current \in Statuses
    PROVE  /\ Merged(base, new, current) \in Statuses
           /\ Merged(base, new, current).recorded
                = MergedRecorded(base.recorded, new.recorded, current.recorded)
  <1>1. /\ base.recorded \in RecordSets /\ new.recorded \in RecordSets
        /\ current.recorded \in RecordSets
    BY DEF Statuses, RecordSets
  <1>2. MergedRecorded(base.recorded, new.recorded, current.recorded) \in RecordSets
    BY <1>1, MergedRecordedType
  <1>3. QED
    BY <1>2 DEF Merged, Statuses, RecordSets

\* Where the worker can be, after whatever it does to one resource.
LEMMA FinishTypes ==
    ASSUME TypeOK, NEW n \in Resources, NEW retry \in BOOLEAN, Finish(n, retry)
    PROVE  /\ pc' \in [Resources -> PCs]
           /\ obj' \in [Resources -> Objects]
           /\ plan' \in [Resources -> Plans]
           /\ queue' \subseteq Resources
  <1>1. NoPlan \in Plans
    BY DEF NoPlan, Plans, Reasons
  <1>2. QED
    BY <1>1, NoObjectType DEF TypeOK, Finish, PCs

LEMMA CommitTypes ==
    ASSUME TypeOK, NEW n \in Resources, NEW o \in Objects, Commit(n, o)
    PROVE  /\ api' \in [Resources -> Objects]
           /\ watch' \in [Resources -> SUBSET Objects]
  BY DEF TypeOK, Commit

\* What patchStatus sends, and what the API server makes of it.
LEMMA PatchStatusTypes ==
    ASSUME TypeOK, NEW n \in Resources, NEW recorded \in RecordSets,
           NEW reason \in Reasons, NEW retry \in BOOLEAN,
           Patch(n, Outcome(n, recorded, reason), retry)
    PROVE  /\ api' \in [Resources -> Objects]
           /\ watch' \in [Resources -> SUBSET Objects]
           /\ pc' \in [Resources -> PCs]
           /\ obj' \in [Resources -> Objects]
           /\ plan' \in [Resources -> Plans]
           /\ queue' \subseteq Resources
           /\ UNCHANGED cache
  <1> DEFINE new == [recorded |-> recorded, reason |-> reason, gen |-> obj[n].gen]
  <1> DEFINE merged == Merged(cache[n].status, new, api[n].status)
  <1>1. /\ new \in Statuses
        /\ api[n] \in Objects /\ api[n].status \in Statuses
        /\ api[n].spec \in Specs
        /\ cache[n].status \in Statuses
    BY DEF TypeOK, Objects, Versions, Statuses, RecordSets
  <1>2. merged \in Statuses
    BY <1>1, MergedType
  <1>3. StatusWritten(api[n], merged) \in Objects
    BY <1>1, <1>2, VersionTypes
  <1>4. \/ UNCHANGED <<api, watch>>
        \/ Commit(n, StatusWritten(api[n], merged))
    BY DEF Patch, PatchStatus, SendPatch, PatchRefused,
           Differs, Outcome
  <1>5. api' \in [Resources -> Objects] /\ watch' \in [Resources -> SUBSET Objects]
    BY <1>3, <1>4, CommitTypes DEF TypeOK
  <1>6. \E r \in BOOLEAN : Finish(n, r)
    <2> DEFINE sent == cache[n].exists /\ new # cache[n].status
    <2>1. (retry \/ (~cache[n].exists \/ (sent /\ ~api[n].exists))) \in BOOLEAN
      OBVIOUS
    <2>2. QED
      BY <2>1 DEF Patch, PatchStatus, SendPatch, PatchRefused,
           Differs, Outcome
  <1>7. UNCHANGED cache
    BY DEF Patch, PatchStatus
  <1>8. QED
    BY <1>5, <1>6, <1>7, FinishTypes

LEMMA TypesInit == Init => TypeOK
  <1> SUFFICES ASSUME Init PROVE TypeOK
    OBVIOUS
  <1>1. PICK s \in [Resources -> Specs] :
          api = [n \in Resources |-> Created(NoObject, s[n], NoStatus)]
    BY DEF Init
  <1>2. api \in [Resources -> Objects]
    <2>1. \A n \in Resources : Created(NoObject, s[n], NoStatus) \in Objects
      BY NoObjectType, NoStatusType, VersionTypes
    <2>2. QED
      BY <1>1, <2>1
  <1>3. NoPlan \in Plans
    BY DEF NoPlan, Plans, Reasons
  <1>4. /\ cloud \in Clouds
        /\ budget \in [edits: Nat, faults: Nat]
    BY ConstantsAssumption, DataAssumption DEF Init, Clouds, States
  <1>5. QED
    BY <1>2, <1>3, <1>4, NoObjectType DEF Init, TypeOK, PCs, Clouds, States

LEMMA BudgetTypes ==
    ASSUME TypeOK, SpendEdit \/ SpendFault
    PROVE  budget' \in [edits: Nat, faults: Nat]
  <1>1. budget.edits \in Nat /\ budget.faults \in Nat
    BY DEF TypeOK
  <1>2. CASE SpendEdit
    BY <1>1, <1>2 DEF TypeOK, SpendEdit
  <1>3. CASE SpendFault
    BY <1>1, <1>3 DEF TypeOK, SpendFault
  <1>4. QED
    BY <1>2, <1>3

LEMMA TypesUser ==
    ASSUME TypeOK, NEW n \in Resources, User(n)
    PROVE  TypeOK'
  <1>1. SpendEdit /\ budget' \in [edits: Nat, faults: Nat]
    BY BudgetTypes DEF User, Create, Post, environment, EditSpec, Put,
                       RequestDeletion, Delete
  <1>2. \E o \in Objects : Commit(n, o)
    <2>1. api[n] \in Objects /\ api[n].spec \in Specs
      BY DEF TypeOK, Objects, Versions
    <2>2. CASE Create(n)
      BY <2>1, <2>2, DataAssumption, NoStatusType, VersionTypes DEF Create, Post, environment
    <2>3. CASE EditSpec(n)
      <3>1. PICK s \in SpecsOf[n] : Commit(n, SpecEdited(api[n], s))
        BY <2>3 DEF EditSpec, Put
      <3>2. s \in Specs
        BY DataAssumption
      <3>3. QED
        BY <2>1, <3>1, <3>2, NoStatusType, VersionTypes
    <2>4. CASE RequestDeletion(n)
      BY <2>1, <2>4, NoStatusType, VersionTypes DEF RequestDeletion, Delete,
                                                    environment
    <2>5. QED
      BY <2>2, <2>3, <2>4 DEF User
  <1>3. api' \in [Resources -> Objects] /\ watch' \in [Resources -> SUBSET Objects]
    BY <1>2, CommitTypes
  <1>4. UNCHANGED <<cache, queue, pc, obj, plan, cloud, referenced, provider>>
    BY DEF User, Create, Post, environment, EditSpec, Put, RequestDeletion, Delete
  <1>5. QED
    BY <1>1, <1>3, <1>4 DEF TypeOK

\* What the cloud makes of a call, and of an application's write.
LEMMA CloudTypes ==
    ASSUME TypeOK
    PROVE  /\ cloud \in Clouds
           /\ \A o \in Objects : WithBucketFor(o) \in Clouds /\ WithPropertiesOf(o) \in Clouds
           /\ \A x : /\ [cloud EXCEPT ![x] = {}] \in Clouds
                     /\ [cloud EXCEPT ![x] = {[b EXCEPT !.objects = FALSE] : b \in @}] \in Clouds
                     /\ [cloud EXCEPT ![x] = {b \in @ : b.objects}] \in Clouds
           /\ \A x \in Buckets : \A b \in cloud[x] :
                /\ [cloud EXCEPT ![x] = {[b EXCEPT !.taken = TRUE]}] \in Clouds
                /\ [cloud EXCEPT ![x] = {[b EXCEPT !.objects = TRUE]}] \in Clouds
  <1>1. cloud \in Clouds
    BY DEF TypeOK, Clouds, States
  <1>2. \A x : \A st \in States : [cloud EXCEPT ![x] = st] \in Clouds
    BY <1>1 DEF Clouds
  <1>3. \A x \in Buckets : \A b \in cloud[x] : b \in Contents
    BY <1>1 DEF Clouds, States
  <1>4. \A x \in Buckets :
          /\ {[b EXCEPT !.objects = FALSE] : b \in cloud[x]} \in States
          /\ {b \in cloud[x] : b.objects} \in States
          /\ \A p \in Properties : {[b EXCEPT !.properties = p] : b \in cloud[x]} \in States
    <2> TAKE x \in Buckets
    <2>1. CASE cloud[x] = {}
      BY <2>1 DEF States
    <2>2. CASE cloud[x] # {}
      <3>1. PICK c \in Contents : cloud[x] = {c}
        BY <1>1, <2>2 DEF Clouds, States
      <3>2. /\ [c EXCEPT !.objects = FALSE] \in Contents
            /\ \A p \in Properties : [c EXCEPT !.properties = p] \in Contents
        BY DEF Contents
      <3>3. {[b EXCEPT !.objects = FALSE] : b \in cloud[x]} = {[c EXCEPT !.objects = FALSE]}
        BY <3>1
      <3>4. {b \in cloud[x] : b.objects} \in {{}, {c}}
        BY <3>1
      <3>5. \A p \in Properties :
              {[b EXCEPT !.properties = p] : b \in cloud[x]} = {[c EXCEPT !.properties = p]}
        BY <3>1
      <3>6. QED
        BY <3>2, <3>3, <3>4, <3>5 DEF States
    <2>3. QED
      BY <2>1, <2>2
  <1>5. \A o \in Objects : WithBucketFor(o) \in Clouds /\ WithPropertiesOf(o) \in Clouds
    <2> TAKE o \in Objects
    <2>1. /\ o.spec.name \in Buckets /\ o.spec.properties \in Properties
          /\ o.spec.location \in Locations
      BY DEF Objects, Versions, Specs
    <2>2. [taken |-> TRUE, location |-> o.spec.location,
           properties |-> o.spec.properties, objects |-> FALSE] \in Contents
      BY <2>1 DEF Contents
    <2>3. WithBucketFor(o) \in Clouds
      BY <1>2, <2>2 DEF WithBucketFor, States
    <2> DEFINE st == {[b EXCEPT !.properties = o.spec.properties] : b \in cloud[o.spec.name]}
    <2>4. WithPropertiesOf(o) = [cloud EXCEPT ![o.spec.name] = st]
      BY DEF WithPropertiesOf
    <2>5. st \in States
      BY <1>4, <2>1
    <2>6. WithPropertiesOf(o) \in Clouds
      <3> HIDE DEF st
      <3>1. [cloud EXCEPT ![o.spec.name] = st] \in Clouds
        BY <1>2, <2>5
      <3>2. QED
        BY <2>4, <3>1, Zenon
    <2>7. QED
      BY <2>3, <2>6
  <1>6. \A x : /\ [cloud EXCEPT ![x] = {}] \in Clouds
               /\ [cloud EXCEPT ![x] = {[b EXCEPT !.objects = FALSE] : b \in @}] \in Clouds
               /\ [cloud EXCEPT ![x] = {b \in @ : b.objects}] \in Clouds
    <2> TAKE x
    <2>1. CASE x \in Buckets
      BY <1>2, <1>4, <2>1 DEF States
    <2>2. CASE x \notin Buckets
      BY <1>1, <2>2 DEF Clouds
    <2>3. QED
      BY <2>1, <2>2
  <1>7. \A x \in Buckets : \A b \in cloud[x] :
          /\ [cloud EXCEPT ![x] = {[b EXCEPT !.taken = TRUE]}] \in Clouds
          /\ [cloud EXCEPT ![x] = {[b EXCEPT !.objects = TRUE]}] \in Clouds
    <2> TAKE x \in Buckets
    <2> TAKE b \in cloud[x]
    <2>1. [b EXCEPT !.taken = TRUE] \in Contents /\ [b EXCEPT !.objects = TRUE] \in Contents
      BY <1>3 DEF Contents
    <2>2. QED
      BY <1>2, <2>1 DEF States
  <1>8. QED
    BY <1>1, <1>5, <1>6, <1>7

LEMMA TypesEnvironment ==
    ASSUME TypeOK,
           \/ \E n \in Resources : ReferencesChange(n)
           \/ ProviderChanges
           \/ \E x \in Buckets : WriteObject(x)
    PROVE  TypeOK'
  <1>1. budget' \in [edits: Nat, faults: Nat]
    BY BudgetTypes DEF ReferencesChange, ProviderChanges, WriteObject
  <1>2. CASE \E n \in Resources : ReferencesChange(n)
    BY <1>1, <1>2 DEF ReferencesChange, Wake, TypeOK
  <1>3. CASE ProviderChanges
    BY <1>1, <1>3, ConstantsAssumption DEF ProviderChanges, Wake, TypeOK, Dependants
  <1>4. CASE \E x \in Buckets : WriteObject(x)
    <2>1. cloud' \in Clouds
      BY <1>4, CloudTypes DEF WriteObject
    <2>2. QED
      BY <1>1, <1>4, <2>1 DEF WriteObject, Wake, TypeOK, Clouds, States
  <1>5. QED
    BY <1>2, <1>3, <1>4

LEMMA TypesFailures ==
    ASSUME TypeOK, NEW n \in Resources, ApiCallFails(n) \/ CloudCallFails(n) \/ Crash
    PROVE  TypeOK'
  <1>1. budget' \in [edits: Nat, faults: Nat]
    BY BudgetTypes DEF ApiCallFails, Return, environment, CloudCallFails,
                       Reporting, Crash, Restart
  <1>2. CASE ApiCallFails(n)
    BY <1>1, <1>2, FinishTypes DEF ApiCallFails, Return, environment, TypeOK
  <1>3. CASE CloudCallFails(n)
    <2>1. cloud' \in Clouds
      <3>1. obj[n] \in Objects
        BY DEF TypeOK
      <3>2. QED
        BY <1>3, <3>1, CloudTypes DEF CloudCallFails
    <2>2. plan' \in [Resources -> Plans]
      <3>1. /\ [reason |-> "EnsureError", retry |-> TRUE] \in Plans
            /\ [reason |-> "DeleteError", retry |-> TRUE] \in Plans
        BY DEF Plans, Reasons
      <3>2. QED
        BY <1>3, <3>1 DEF CloudCallFails, Reporting, environment, TypeOK
    <2>3. pc' \in [Resources -> PCs]
      BY <1>3 DEF CloudCallFails, Reporting, environment, TypeOK, PCs, GoTo
    <2>4. QED
      BY <1>1, <1>3, <2>1, <2>2, <2>3 DEF CloudCallFails, Reporting, TypeOK, Clouds, States
  <1>4. CASE Crash
    <2>1. NoPlan \in Plans
      BY DEF NoPlan, Plans, Reasons
    <2>2. QED
      BY <1>1, <1>4, <2>1, NoObjectType DEF Crash, Restart, environment, TypeOK,
                                            PCs
  <1>5. QED
    BY <1>2, <1>3, <1>4

LEMMA ObstacleType ==
    ASSUME NEW o
    PROVE  Obstacle(o) \in Reasons
  <1>1. Obstacle(o) \in
          {"ProviderIssue", "SpecRestricted", "UnsupportedFeatures", "InvalidSpec", "None"}
    BY DEF Obstacle
  <1>2. QED
    BY <1>1 DEF Reasons

LEMMA TypesReconcile ==
    ASSUME TypeOK, NEW n \in Resources, Reconcile(n)
    PROVE  TypeOK'
  <1>1. /\ api[n] \in Objects /\ api[n].spec \in Specs
        /\ api[n].status \in Statuses
        /\ obj[n] \in Objects
    BY DEF TypeOK, Objects, Versions
  <1>2. Want(obj[n]) \in Records
    BY <1>1, WantType
  <1>3. CASE AddFinalizer(n)
    <2>1. FinalizerAdded(api[n]) \in Objects
      BY <1>1, NoStatusType, VersionTypes
    <2>2. CASE Accepts(api[n], obj[n])
      <3>1. api' \in [Resources -> Objects] /\ watch' \in [Resources -> SUBSET Objects]
        BY <1>3, <2>1, <2>2, CommitTypes DEF AddFinalizer, Claim, environment
      <3>2. obj' \in [Resources -> Objects]
        BY <1>3, <2>1, <2>2 DEF AddFinalizer, Claim, environment, TypeOK
      <3>3. pc' \in [Resources -> PCs]
        BY <1>3, <2>2 DEF AddFinalizer, Claim, environment, TypeOK, GoTo, PCs
      <3>4. QED
        BY <1>3, <2>2, <3>1, <3>2, <3>3 DEF AddFinalizer, Claim, environment,
                                            TypeOK
    <2>3. CASE ~Accepts(api[n], obj[n])
      BY <1>3, <2>3, FinishTypes DEF AddFinalizer, Claim, environment, TypeOK
    <2>4. QED
      BY <2>2, <2>3
  <1>4. CASE Check(n)
    <2>1. Obstacle(obj[n]) \in Reasons
      BY ObstacleType
    <2>2. plan' \in [Resources -> Plans]
      <3>1. [reason |-> Obstacle(obj[n]), retry |-> provider = "factoryError"] \in Plans
        BY <2>1 DEF Plans
      <3>2. QED
        BY <1>4, <3>1 DEF Check, Proceed, Reporting, environment, TypeOK
    <2>3. QED
      BY <1>4, <2>2 DEF Check, Proceed, Reporting, environment, TypeOK, GoTo, PCs
  <1>5. CASE Get(n)
    <2>1. cloud' \in Clouds
      <3>1. obj[n].spec.name \in Buckets
        BY <1>1 DEF Objects, Versions, Specs
      <3>2. QED
        BY <1>5, <3>1, CloudTypes DEF Get
    <2>2. plan' \in [Resources -> Plans]
      <3>1. [reason |-> "EnsureError", retry |-> TRUE] \in Plans
        BY DEF Plans, Reasons
      <3>2. QED
        BY <1>5, <3>1 DEF Get, Proceed, Reporting, TypeOK
    <2>3. pc' \in [Resources -> PCs]
      BY <1>5 DEF Get, Proceed, Reporting, TypeOK, GoTo, PCs
    <2>4. UNCHANGED <<api, cache, watch, queue, obj, referenced, provider, budget>>
      BY <1>5 DEF Get, Proceed, Reporting
    <2>5. QED
      BY <2>1, <2>2, <2>3, <2>4 DEF TypeOK, Clouds, States
  <1>6. CASE CreateBucket(n)
    BY <1>1, <1>6, CloudTypes DEF CreateBucket, Proceed, TypeOK, GoTo, PCs, Clouds, States
  <1>7. CASE UpdateBucket(n)
    BY <1>1, <1>7, CloudTypes DEF UpdateBucket, Proceed, TypeOK, GoTo, PCs, Clouds, States
  <1>8. CASE PatchReady(n)
    <2>1. {Want(obj[n])} \in RecordSets /\ "Reconciled" \in Reasons
      BY <1>2 DEF RecordSets, Reasons
    <2>2. QED
      BY <1>8, <2>1, PatchStatusTypes DEF PatchReady, environment,
                                          TypeOK
  <1>9. CASE Report(n)
    <2>1. /\ cache[n].status.recorded \in RecordSets
          /\ plan[n].reason \in Reasons /\ plan[n].retry \in BOOLEAN
      BY DEF TypeOK, Objects, Versions, Statuses, RecordSets, Plans
    <2>2. QED
      BY <1>9, <2>1, PatchStatusTypes DEF Report, environment,
                                          TypeOK
  <1>10. CASE PrepareDelete(n)
    <2>1. CASE Finish(n, TRUE)
      BY <1>10, <2>1, FinishTypes
         DEF PrepareDelete, PollWhileReferenced, Proceed, Return, Reporting, environment, TypeOK
    <2>2. CASE GoTo(n, "release") \/ GoTo(n, "deleteObjects") \/ GoTo(n, "report")
      <3>1. pc' \in [Resources -> PCs]
        BY <2>2 DEF TypeOK, GoTo, PCs
      <3>2. [reason |-> "RemoveFinalizerError", retry |-> FALSE] \in Plans
        BY DEF Plans, Reasons
      <3>3. /\ plan' \in [Resources -> Plans]
            /\ queue' \subseteq Resources
            /\ obj' \in [Resources -> Objects]
        BY <1>10, <3>2, FinishTypes
           DEF PrepareDelete, PollWhileReferenced, Proceed, Return, Reporting, environment, TypeOK
      <3>4. UNCHANGED <<api, cache, watch, budget, cloud, referenced, provider>>
        BY <1>10 DEF PrepareDelete, PollWhileReferenced, Proceed, Return, Reporting, environment
      <3>5. QED
        BY <3>1, <3>3, <3>4 DEF TypeOK
    <2>3. QED
      BY <1>10, <2>1, <2>2
         DEF PrepareDelete, PollWhileReferenced, Proceed, Return, Reporting, environment
  <1>11. CASE DeleteObjects(n) \/ DeleteBucket(n)
    <2>1. cloud' \in Clouds
      BY <1>11, CloudTypes DEF DeleteObjects, DeleteBucket
    <2>2. plan' \in [Resources -> Plans]
      <3>1. [reason |-> "DeleteError", retry |-> TRUE] \in Plans
        BY DEF Plans, Reasons
      <3>2. QED
        BY <1>11, <3>1 DEF DeleteObjects, DeleteBucket, Proceed, Reporting, TypeOK
    <2>3. pc' \in [Resources -> PCs]
      BY <1>11 DEF DeleteObjects, DeleteBucket, Proceed, Reporting, TypeOK, GoTo, PCs
    <2>4. UNCHANGED <<api, cache, watch, queue, obj, referenced, provider, budget>>
      BY <1>11 DEF DeleteObjects, DeleteBucket, Proceed, Reporting
    <2>5. QED
      BY <2>1, <2>2, <2>3, <2>4 DEF TypeOK, Clouds, States
  <1>12. CASE RemoveFinalizer(n)
    <2>1. Gone(api[n]) \in Objects
      BY <1>1, NoStatusType, VersionTypes
    <2>2. CASE Accepts(api[n], obj[n])
      BY <1>12, <2>1, <2>2, CommitTypes, FinishTypes DEF RemoveFinalizer, Release,
                                                         environment, TypeOK
    <2>3. CASE ~Accepts(api[n], obj[n])
      BY <1>12, <2>3, FinishTypes DEF RemoveFinalizer, Release, environment, TypeOK
    <2>4. QED
      BY <2>2, <2>3
  <1>13. QED
    BY <1>3, <1>4, <1>5, <1>6, <1>7, <1>8, <1>9, <1>10, <1>11, <1>12 DEF Reconcile

LEMMA TypesStep == TypeOK /\ [Next]_vars => TypeOK'
  <1> SUFFICES ASSUME TypeOK, [Next]_vars PROVE TypeOK'
    OBVIOUS
  <1>1. ASSUME NEW n \in Resources, Deliver(n) PROVE TypeOK'
    BY <1>1 DEF Deliver, Inform, environment, TypeOK
  <1>2. ASSUME NEW n \in Resources, Start(n) PROVE TypeOK'
    <2>1. pc' \in [Resources -> PCs]
      BY <1>2 DEF Start, Begin, environment, FirstStep, GoTo, TypeOK, PCs
    <2>2. obj' \in [Resources -> Objects]
      BY <1>2 DEF Start, Begin, environment, TypeOK
    <2>3. QED
      BY <1>2, <2>1, <2>2 DEF Start, Begin, environment, TypeOK
  <1>3. CASE Crash
    <2>1. CASE Resources = {}
      BY <1>3, <2>1, BudgetTypes DEF Crash, Restart, environment, TypeOK
    <2>2. CASE Resources # {}
      BY <1>3, <2>2, TypesFailures
    <2>3. QED
      BY <2>1, <2>2
  <1>4. CASE UNCHANGED vars
    BY <1>4 DEF vars, environment, TypeOK
  <1>5. QED
    BY <1>1, <1>2, <1>3, <1>4, TypesUser, TypesEnvironment, TypesFailures,
       TypesReconcile DEF Next

\* Every variable keeps its type: in particular a status merged by the API
\* server from two that patchStatus never saw together is a status still.
THEOREM TypeCorrect == Spec => []TypeOK
  <1>1. Init => TypeOK
    BY TypesInit
  <1>2. TypeOK /\ [Next]_vars => TypeOK'
    BY TypesStep
  <1>3. QED
    BY <1>1, <1>2, PTL DEF Spec

-------------------------------------------------------------------------------
(* The inductive invariant. *)

\* The versions of a resource the reconciler may read, now or later.
Known(n) == {cache[n]} \union watch[n]

Alive(v) == v.exists /\ v.finalizer /\ ~v.deleting

InEnsure(n) == pc[n] \in {"check", "get", "create", "update", "patchReady"}

InDelete(n) == pc[n] \in {"prepareDelete", "deleteObjects", "deleteBucket", "release"}

\* A version number identifies the version, and the informer is behind.
KnownIsPast ==
    \A n \in Resources : \A v \in Known(n) :
      v.rv <= api[n].rv /\ (v.rv = api[n].rv => v = api[n])

DeliveredInOrder ==
    \A n \in Resources : \A v \in watch[n] : cache[n].rv <= v.rv

\* While the cache can still show a resource with its finalizer and no deletion
\* request, the finalizer is there: nobody took it off in between.
AliveMeansClaimed ==
    \A n \in Resources : \A v \in Known(n) :
      Alive(v) => api[n].exists /\ api[n].finalizer

EnsureMeansClaimed ==
    \A n \in Resources : InEnsure(n) => api[n].exists /\ api[n].finalizer

\* A deletion works on a version the cache held, marked for deletion.
DeleteReadsCache ==
    \A n \in Resources :
      InDelete(n) =>
        /\ obj[n].deleting
        /\ obj[n].rv <= cache[n].rv
        /\ obj[n].rv = api[n].rv => obj[n] = api[n]

UnclaimedMeansUnrecorded ==
    \A n \in Resources :
      api[n].exists /\ ~api[n].finalizer => api[n].status.recorded = {}

\* A resource asks for and records the names of its users only.
OwnNames(n, v) == v.spec.name \in NamesOf(n) /\ RecordedNames(v) \subseteq NamesOf(n)

KeepsToNames ==
    \A n \in Resources :
      /\ \A v \in Known(n) \union {api[n]} : OwnNames(n, v)
      /\ pc[n] # "idle" => OwnNames(n, obj[n])

\* None of these buckets is in the cloud.
Left(xs) == \A x \in xs : cloud[x] = {}

DeletedBeforeRelease ==
    \A n \in Resources :
      pc[n] = "release" /\ ShouldBeDeleted(obj[n]) => Left(RecordedNames(obj[n]))

Inv ==
    /\ TypeOK
    /\ KnownIsPast
    /\ DeliveredInOrder
    /\ AliveMeansClaimed
    /\ EnsureMeansClaimed
    /\ DeleteReadsCache
    /\ UnclaimedMeansUnrecorded
    /\ KeepsToNames
    /\ DeletedBeforeRelease
    /\ ReleasedMeansDeleted

\* Two resources with one name adopt each other's bucket, and the deletion of one
\* takes it from the other; what follows is about resources with names of their own.
DistinctNames ==
    \A n, m \in Resources : NamesOf(n) \intersect NamesOf(m) # {} => n = m

\* The part of Inv about the API server and the informer only.
ServerInv ==
    KnownIsPast /\ DeliveredInOrder /\ AliveMeansClaimed /\ UnclaimedMeansUnrecorded

\* The part about the worker and the cloud.
WorkerInv ==
    /\ EnsureMeansClaimed
    /\ DeleteReadsCache
    /\ KeepsToNames
    /\ DeletedBeforeRelease
    /\ ReleasedMeansDeleted

LEMMA InvParts == Inv <=> TypeOK /\ ServerInv /\ WorkerInv
  BY DEF Inv, ServerInv, WorkerInv

LEMMA ObjectFields ==
    ASSUME NEW o \in Objects
    PROVE  /\ o.rv \in Nat
           /\ o.exists \in BOOLEAN /\ o.deleting \in BOOLEAN
           /\ o.finalizer \in BOOLEAN
           /\ o.spec \in Specs /\ o.status \in Statuses
           /\ o.status.recorded \in RecordSets
  BY DEF Objects, Versions, Statuses, RecordSets

LEMMA KnownTypes ==
    ASSUME TypeOK, NEW n \in Resources
    PROVE  /\ api[n] \in Objects /\ cache[n] \in Objects /\ obj[n] \in Objects
           /\ Known(n) \subseteq Objects
  BY DEF TypeOK, Known

LEMMA InvInit == Init => Inv
  <1> SUFFICES ASSUME Init PROVE Inv
    OBVIOUS
  <1>1. TypeOK
    BY TypesInit
  <1>2. PICK s \in [Resources -> Specs] :
          /\ \A n \in Resources : s[n] \in SpecsOf[n]
          /\ api = [n \in Resources |-> Created(NoObject, s[n], NoStatus)]
    BY DEF Init
  <1>3. \A n \in Resources :
          /\ cache[n] = api[n] /\ Known(n) = {api[n]}
          /\ api[n].exists /\ ~api[n].finalizer
          /\ api[n].status.recorded = {} /\ api[n].spec.name \in NamesOf(n)
          /\ pc[n] = "idle"
    BY <1>2 DEF Init, Known, Created, NoStatus, NamesOf
  <1>4. \A n \in Resources : api[n].rv \in Nat
    BY <1>1, KnownTypes, ObjectFields
  <1>5. ServerInv
    <2>1. KnownIsPast
      BY <1>3, <1>4 DEF KnownIsPast
    <2>2. DeliveredInOrder
      BY DEF Init, DeliveredInOrder
    <2>3. AliveMeansClaimed /\ UnclaimedMeansUnrecorded
      BY <1>3 DEF AliveMeansClaimed, Alive, UnclaimedMeansUnrecorded
    <2>4. QED
      BY <2>1, <2>2, <2>3 DEF ServerInv
  <1>6. WorkerInv
    BY <1>3 DEF WorkerInv, EnsureMeansClaimed, InEnsure, DeleteReadsCache, InDelete,
                KeepsToNames, OwnNames, RecordedNames, DeletedBeforeRelease,
                ReleasedMeansDeleted, There
  <1>7. QED
    BY <1>1, <1>5, <1>6, InvParts

-------------------------------------------------------------------------------
(* The API server and the informer. *)

LEMMA ServerUntouched ==
    ASSUME ServerInv, UNCHANGED <<api, cache, watch>>
    PROVE  ServerInv'
  BY DEF ServerInv, KnownIsPast, DeliveredInOrder, AliveMeansClaimed,
         UnclaimedMeansUnrecorded, Known

\* A write that does not take the finalizer from under a version that shows it.
LEMMA ServerCommits ==
    ASSUME TypeOK, ServerInv, NEW n \in Resources, NEW o \in Objects,
           Commit(n, o), UNCHANGED cache,
           o.rv = api[n].rv + 1,
           (\E v \in Known(n) : Alive(v)) => o.exists /\ o.finalizer,
           o.exists /\ ~o.finalizer => o.status.recorded = {}
    PROVE  ServerInv'
  <1>1. /\ api' = [api EXCEPT ![n] = o] /\ api'[n] = o
        /\ \A m \in Resources \ {n} : api'[m] = api[m] /\ watch'[m] = watch[m]
        /\ watch'[n] = watch[n] \union {o}
    BY DEF Commit, TypeOK
  <1>2. /\ Known(n)' = Known(n) \union {o}
        /\ \A m \in Resources \ {n} : Known(m)' = Known(m)
    BY <1>1 DEF Known
  <1>3. \A v \in Known(n) : v.rv \in Nat /\ v.rv <= api[n].rv /\ v.rv < o.rv
    BY KnownTypes, ObjectFields DEF ServerInv, KnownIsPast
  <1>4. api[n].rv \in Nat /\ o.rv \in Nat
    BY KnownTypes, ObjectFields
  <1>5. KnownIsPast'
    <2> SUFFICES ASSUME NEW m \in Resources, NEW v \in Known(m)'
                 PROVE  v.rv <= api'[m].rv /\ (v.rv = api'[m].rv => v = api'[m])
      BY DEF KnownIsPast
    <2>1. CASE m = n /\ v = o
      BY <1>1, <1>4, <2>1
    <2>2. CASE m = n /\ v # o
      BY <1>1, <1>2, <1>3, <1>4, <2>2
    <2>3. CASE m # n
      BY <1>1, <1>2, <2>3 DEF ServerInv, KnownIsPast
    <2>4. QED
      BY <2>1, <2>2, <2>3
  <1>6. DeliveredInOrder'
    <2>1. cache[n].rv <= o.rv
      BY <1>3, <1>4 DEF Known
    <2>2. QED
      BY <1>1, <2>1 DEF ServerInv, DeliveredInOrder
  <1>7. AliveMeansClaimed'
    BY <1>1, <1>2 DEF ServerInv, AliveMeansClaimed, Alive
  <1>8. UnclaimedMeansUnrecorded'
    BY <1>1 DEF ServerInv, UnclaimedMeansUnrecorded
  <1>9. QED
    BY <1>5, <1>6, <1>7, <1>8 DEF ServerInv

LEMMA ServerDelivers ==
    ASSUME TypeOK, ServerInv, NEW n \in Resources, Deliver(n)
    PROVE  ServerInv'
  <1>1. PICK v \in watch[n] : /\ Earliest(watch[n], v)
                              /\ cache' = [cache EXCEPT ![n] = v]
                              /\ watch' = [watch EXCEPT ![n] = @ \ {v}]
    BY DEF Deliver, Inform, environment
  <1>2. UNCHANGED api
    BY DEF Deliver, Inform, environment
  <1>3. \A m \in Resources : Known(m)' \subseteq Known(m)
    BY <1>1 DEF Known, TypeOK
  <1>4. KnownIsPast' /\ AliveMeansClaimed' /\ UnclaimedMeansUnrecorded'
    BY <1>2, <1>3 DEF ServerInv, KnownIsPast, AliveMeansClaimed, UnclaimedMeansUnrecorded
  <1>5. DeliveredInOrder'
    BY <1>1 DEF ServerInv, DeliveredInOrder, Earliest, TypeOK
  <1>6. QED
    BY <1>4, <1>5 DEF ServerInv

LEMMA ServerRelists ==
    ASSUME TypeOK, ServerInv, Crash
    PROVE  ServerInv'
  <1>1. /\ UNCHANGED api
        /\ \A m \in Resources : Known(m)' = {api[m]} /\ watch'[m] = {}
    BY DEF Crash, Restart, environment, Known
  <1>2. \A m \in Resources : api[m].rv \in Nat
    BY KnownTypes, ObjectFields
  <1>3. QED
    BY <1>1, <1>2 DEF ServerInv, KnownIsPast, DeliveredInOrder, AliveMeansClaimed,
                      Alive, UnclaimedMeansUnrecorded

-------------------------------------------------------------------------------
(* The worker and the cloud: what kinds of step it takes. *)

\* Nothing appears in the cloud.
NothingNew == \A x \in Buckets : cloud[x] = {} => cloud'[x] = {}

LEMMA NamesAreBuckets ==
    ASSUME NEW o \in Objects
    PROVE  RecordedNames(o) \in SUBSET Buckets
  BY ObjectFields DEF RecordedNames, RecordSets, Records

LEMMA ReleasedStays ==
    ASSUME TypeOK, ReleasedMeansDeleted, UNCHANGED api, NothingNew
    PROVE  ReleasedMeansDeleted'
  <1> SUFFICES ASSUME NEW n \in Resources, ~api[n].exists, ShouldBeDeleted(api[n])
               PROVE  Left(RecordedNames(api[n]))'
    BY DEF ReleasedMeansDeleted, There, Left, ShouldBeDeleted, RecordedNames
  <1>1. RecordedNames(api[n]) \in SUBSET Buckets
    BY NamesAreBuckets, KnownTypes
  <1>2. Left(RecordedNames(api[n]))
    BY DEF ReleasedMeansDeleted, There, Left
  <1>3. QED
    BY <1>1, <1>2 DEF Left, NothingNew, RecordedNames

\* The reconcile goes on, or reports; nothing appears in the cloud.
LEMMA Moves ==
    ASSUME Inv, NEW n \in Resources, NEW step, GoTo(n, step), pc[n] # "idle",
           UNCHANGED <<api, cache, watch, obj>>, NothingNew,
           step \in {"check", "get", "create", "update", "patchReady"} => InEnsure(n),
           step \in {"prepareDelete", "deleteObjects", "deleteBucket", "release"}
             => InDelete(n),
           step = "release" /\ ShouldBeDeleted(obj[n])
             => \A x \in RecordedNames(obj[n]) : cloud'[x] = {}
    PROVE  ServerInv' /\ WorkerInv'
  <1>1. pc'[n] = step /\ \A m \in Resources \ {n} : pc'[m] = pc[m]
    BY InvParts DEF GoTo, TypeOK
  <1>2. ServerInv'
    BY ServerUntouched, InvParts
  <1>3. EnsureMeansClaimed'
    BY <1>1, InvParts DEF WorkerInv, EnsureMeansClaimed, InEnsure
  <1>4. DeleteReadsCache'
    BY <1>1, InvParts DEF WorkerInv, DeleteReadsCache, InDelete
  <1>5. KeepsToNames'
    BY <1>1, InvParts DEF WorkerInv, KeepsToNames, OwnNames, RecordedNames, Known
  <1>6. DeletedBeforeRelease'
    <2> SUFFICES ASSUME NEW m \in Resources, pc'[m] = "release",
                        ShouldBeDeleted(obj[m]), NEW x \in RecordedNames(obj[m])
                 PROVE  cloud'[x] = {}
      BY DEF DeletedBeforeRelease, ShouldBeDeleted, Left, RecordedNames
    <2>1. CASE m = n
      BY <1>1, <2>1
    <2>2. CASE m # n
      <3>1. cloud[x] = {}
        BY <1>1, <2>2, InvParts DEF WorkerInv, DeletedBeforeRelease, Left
      <3>2. x \in Buckets
        BY NamesAreBuckets, KnownTypes, InvParts
      <3>3. QED
        BY <3>1, <3>2 DEF NothingNew
    <2>3. QED
      BY <2>1, <2>2
  <1>7. ReleasedMeansDeleted'
    BY ReleasedStays, InvParts DEF WorkerInv
  <1>8. QED
    BY <1>2, <1>3, <1>4, <1>5, <1>6, <1>7 DEF WorkerInv

\* The reconcile ends without a write.
LEMMA Returns ==
    ASSUME Inv, NEW n \in Resources, NEW retry \in BOOLEAN, Finish(n, retry),
           UNCHANGED <<api, cache, watch, cloud>>
    PROVE  ServerInv' /\ WorkerInv'
  <1>1. /\ pc'[n] = "idle"
        /\ \A m \in Resources \ {n} : pc'[m] = pc[m] /\ obj'[m] = obj[m]
    BY InvParts DEF Finish, TypeOK
  <1>2. ServerInv'
    BY ServerUntouched, InvParts
  <1>3. EnsureMeansClaimed' /\ DeleteReadsCache'
    BY <1>1, InvParts DEF WorkerInv, EnsureMeansClaimed, DeleteReadsCache, InEnsure, InDelete
  <1>4. KeepsToNames'
    BY <1>1, InvParts DEF WorkerInv, KeepsToNames, OwnNames, RecordedNames, Known
  <1>5. DeletedBeforeRelease' /\ ReleasedMeansDeleted'
    BY <1>1, InvParts DEF WorkerInv, DeletedBeforeRelease, ReleasedMeansDeleted, There, Left,
                          ShouldBeDeleted, RecordedNames
  <1>6. QED
    BY <1>2, <1>3, <1>4, <1>5 DEF WorkerInv

\* A write to a resource that takes neither a claim nor a record away from it.
Harmless(n, o) ==
    /\ o.rv = api[n].rv + 1
    /\ api[n].exists /\ api[n].finalizer => o.exists /\ o.finalizer
    /\ o.exists /\ ~o.finalizer => o.status.recorded = {}
    /\ o.exists \/ o.status.recorded = {}
    /\ OwnNames(n, o)

LEMMA Writes ==
    ASSUME Inv, NEW n \in Resources, NEW o \in Objects, Harmless(n, o), Commit(n, o),
           UNCHANGED <<cache, cloud>>,
           \/ UNCHANGED <<pc, obj>>
           \/ \E retry \in BOOLEAN : Finish(n, retry)
           \/ /\ GoTo(n, "check")
              /\ obj' = [obj EXCEPT ![n] = o]
              /\ o.exists /\ o.finalizer
    PROVE  ServerInv' /\ WorkerInv'
  <1>1. /\ api'[n] = o /\ Known(n)' = Known(n) \union {o}
        /\ \A m \in Resources \ {n} : api'[m] = api[m] /\ Known(m)' = Known(m)
    BY InvParts DEF Commit, TypeOK, Known
  <1>2. \A m \in Resources : \A v \in Known(m) : OwnNames(m, v)
    BY InvParts DEF WorkerInv, KeepsToNames
  <1>3. /\ \A m \in Resources \ {n} : pc'[m] = pc[m] /\ obj'[m] = obj[m]
        /\ \/ pc'[n] = pc[n] /\ obj'[n] = obj[n]
           \/ pc'[n] = "idle"
           \/ pc'[n] = "check" /\ obj'[n] = o /\ o.exists /\ o.finalizer
    BY InvParts DEF Finish, GoTo, TypeOK
  <1>4. ServerInv'
    <2>1. (\E v \in Known(n) : Alive(v)) => o.exists /\ o.finalizer
      BY InvParts DEF ServerInv, AliveMeansClaimed, Harmless
    <2>2. QED
      BY <2>1, ServerCommits, InvParts DEF Harmless
  <1>5. EnsureMeansClaimed'
    BY <1>1, <1>3, InvParts DEF WorkerInv, EnsureMeansClaimed, InEnsure, Harmless
  <1>6. DeleteReadsCache'
    <2> SUFFICES ASSUME NEW m \in Resources, InDelete(m)'
                 PROVE  /\ obj'[m].deleting
                        /\ obj'[m].rv <= cache[m].rv
                        /\ obj'[m].rv = api'[m].rv => obj'[m] = api'[m]
      BY DEF DeleteReadsCache
    <2>1. InDelete(m) /\ obj'[m] = obj[m]
      BY <1>3 DEF InDelete
    <2>2. obj[m].deleting /\ obj[m].rv <= cache[m].rv
      BY <2>1, InvParts DEF WorkerInv, DeleteReadsCache
    <2>3. CASE m = n
      <3>1. cache[n].rv <= api[n].rv
        BY InvParts DEF ServerInv, KnownIsPast, Known
      <3>2. cache[n].rv \in Nat /\ api[n].rv \in Nat /\ obj[n].rv \in Nat
        BY KnownTypes, ObjectFields, InvParts
      <3>3. obj[n].rv # o.rv
        BY <2>2, <2>3, <3>1, <3>2 DEF Harmless
      <3>4. QED
        BY <1>1, <2>1, <2>2, <2>3, <3>3
    <2>4. CASE m # n
      BY <1>1, <2>1, <2>4, InvParts DEF WorkerInv, DeleteReadsCache
    <2>5. QED
      BY <2>3, <2>4
  <1>7. KeepsToNames'
    <2>1. \A m \in Resources : \A v \in Known(m)' \union {api'[m]} : OwnNames(m, v)
      BY <1>1, <1>2, InvParts DEF WorkerInv, KeepsToNames, Harmless
    <2>2. \A m \in Resources : pc'[m] # "idle" => OwnNames(m, obj'[m])
      BY <1>3, InvParts DEF WorkerInv, KeepsToNames, Harmless
    <2>3. QED
      BY <2>1, <2>2 DEF KeepsToNames, OwnNames, RecordedNames
  <1>8. DeletedBeforeRelease'
    BY <1>3, InvParts DEF WorkerInv, DeletedBeforeRelease, Left, ShouldBeDeleted,
                          RecordedNames
  <1>9. ReleasedMeansDeleted'
    BY <1>1, InvParts DEF WorkerInv, ReleasedMeansDeleted, There, Harmless, ShouldBeDeleted,
                          RecordedNames
  <1>10. QED
    BY <1>4, <1>5, <1>6, <1>7, <1>8, <1>9 DEF WorkerInv

\* The cloud gains the bucket of a resource that is claimed and not released.
LEMMA NewBucket ==
    ASSUME Inv, DistinctNames, NEW n \in Resources, NEW step, pc[n] = "create",
           GoTo(n, step), step \in {"patchReady", "report"},
           UNCHANGED <<api, cache, watch, obj>>,
           cloud' = WithBucketFor(obj[n])
    PROVE  ServerInv' /\ WorkerInv'
  <1>1. pc'[n] = step /\ \A m \in Resources \ {n} : pc'[m] = pc[m]
    BY InvParts DEF GoTo, TypeOK
  <1>2. ServerInv'
    BY ServerUntouched, InvParts
  <1>3. EnsureMeansClaimed' /\ DeleteReadsCache'
    BY <1>1, InvParts DEF WorkerInv, EnsureMeansClaimed, DeleteReadsCache, InEnsure, InDelete
  <1>4. KeepsToNames'
    BY <1>1, InvParts DEF WorkerInv, KeepsToNames, OwnNames, RecordedNames, Known
  <1>5. obj[n].spec.name \in NamesOf(n)
    BY InvParts DEF WorkerInv, KeepsToNames, OwnNames
  <1>6. \A m \in Resources \ {n} : \A x \in NamesOf(m) : cloud'[x] = cloud[x]
    BY <1>5, InvParts DEF DistinctNames, WithBucketFor, TypeOK
  <1>7. DeletedBeforeRelease'
    <2> SUFFICES ASSUME NEW m \in Resources, pc'[m] = "release",
                        ShouldBeDeleted(obj[m]), NEW x \in RecordedNames(obj[m])
                 PROVE  cloud'[x] = {}
      BY DEF DeletedBeforeRelease, ShouldBeDeleted, Left, RecordedNames
    <2>1. m # n /\ pc[m] = "release"
      BY <1>1
    <2>2. cloud[x] = {} /\ x \in NamesOf(m)
      BY <2>1, InvParts
         DEF WorkerInv, DeletedBeforeRelease, Left, KeepsToNames, OwnNames
    <2>3. QED
      BY <1>6, <2>1, <2>2
  <1>8. ReleasedMeansDeleted'
    <2> SUFFICES ASSUME NEW m \in Resources, ~api[m].exists,
                        ShouldBeDeleted(api[m]), NEW x \in RecordedNames(api[m])
                 PROVE  cloud'[x] = {}
      BY DEF ReleasedMeansDeleted, There, ShouldBeDeleted, RecordedNames
    <2>1. m # n
      BY InvParts DEF WorkerInv, EnsureMeansClaimed, InEnsure
    <2>2. cloud[x] = {} /\ x \in NamesOf(m)
      BY InvParts DEF WorkerInv, ReleasedMeansDeleted, There, KeepsToNames, OwnNames
    <2>3. QED
      BY <1>6, <2>1, <2>2
  <1>9. QED
    BY <1>2, <1>3, <1>4, <1>7, <1>8 DEF WorkerInv

-------------------------------------------------------------------------------
(* Each action preserves the invariant. *)

\* Users create, edit and delete: none of it takes a claim away, and they keep to
\* the names of the resource.
LEMMA InvUser ==
    ASSUME Inv, NEW n \in Resources, User(n)
    PROVE  ServerInv' /\ WorkerInv'
  <1>1. /\ api[n] \in Objects
        /\ api[n].spec \in Specs /\ api[n].status \in Statuses
        /\ api[n].exists /\ ~api[n].finalizer => api[n].status.recorded = {}
        /\ OwnNames(n, api[n])
    BY KnownTypes, ObjectFields, InvParts
       DEF ServerInv, WorkerInv, UnclaimedMeansUnrecorded, KeepsToNames
  <1>2. \E o \in Objects : Harmless(n, o) /\ Commit(n, o)
    <2>1. CASE Create(n)
      <3>1. PICK s \in Specs : /\ Commit(n, Created(api[n], s, NoStatus)) /\ ~api[n].exists
                              /\ s \in SpecsOf[n] /\ s.name \in NamesOf(n)
        BY <2>1, DataAssumption DEF Create, Post, environment, NamesOf
      <3>2. Created(api[n], s, NoStatus) \in Objects
        BY <1>1, NoStatusType, VersionTypes
      <3>3. Harmless(n, Created(api[n], s, NoStatus))
        BY <3>1 DEF Harmless, Created, NoStatus, OwnNames, RecordedNames
      <3>4. QED
        BY <3>1, <3>2, <3>3
    <2>2. CASE EditSpec(n)
      <3>1. PICK s \in Specs : /\ Commit(n, SpecEdited(api[n], s)) /\ api[n].exists
                              /\ s \in SpecsOf[n] /\ s.name \in NamesOf(n)
        BY <2>2, DataAssumption DEF EditSpec, Put, environment, NamesOf
      <3>2. SpecEdited(api[n], s) \in Objects
        BY <1>1, VersionTypes
      <3>3. Harmless(n, SpecEdited(api[n], s))
        BY <1>1, <3>1 DEF Harmless, SpecEdited, Objects, Versions, OwnNames, RecordedNames
      <3>4. QED
        BY <3>1, <3>2, <3>3
    <2>3. CASE RequestDeletion(n)
      <3>1. Commit(n, DeletionRequested(api[n])) /\ api[n].exists
        BY <2>3 DEF RequestDeletion, Delete, environment
      <3>2. DeletionRequested(api[n]) \in Objects
        BY <1>1, VersionTypes
      <3>3. Harmless(n, DeletionRequested(api[n]))
        BY <1>1, <3>1 DEF Harmless, DeletionRequested, Gone, Objects, Versions, OwnNames,
                        RecordedNames
      <3>4. QED
        BY <3>1, <3>2, <3>3
    <2>4. QED
      BY <2>1, <2>2, <2>3 DEF User
  <1>3. UNCHANGED <<cache, cloud, pc, obj>>
    BY DEF User, Create, Post, environment, EditSpec, Put, RequestDeletion, Delete
  <1>4. QED
    BY <1>2, <1>3, Writes

LEMMA InvQuiet ==
    ASSUME Inv, UNCHANGED <<api, cache, watch, cloud, pc, obj>>
    PROVE  ServerInv' /\ WorkerInv'
  <1>1. ServerInv'
    BY ServerUntouched, InvParts
  <1>2. WorkerInv'
    BY InvParts DEF WorkerInv, EnsureMeansClaimed, InEnsure, DeleteReadsCache, InDelete,
       KeepsToNames, Known, OwnNames, DeletedBeforeRelease, ReleasedMeansDeleted, There, Left,
       ShouldBeDeleted, RecordedNames
  <1>3. QED
    BY <1>1, <1>2

LEMMA InvDeliver ==
    ASSUME Inv, NEW n \in Resources, Deliver(n)
    PROVE  ServerInv' /\ WorkerInv'
  <1>1. ServerInv'
    BY ServerDelivers, InvParts
  <1>2. PICK v \in watch[n] : /\ Earliest(watch[n], v)
                              /\ cache' = [cache EXCEPT ![n] = v]
                              /\ watch' = [watch EXCEPT ![n] = @ \ {v}]
    BY DEF Deliver, Inform, environment
  <1>3. UNCHANGED <<api, pc, obj, cloud>>
    BY DEF Deliver, Inform, environment
  <1>4. /\ cache[n].rv <= v.rv /\ cache'[n] = v
        /\ \A m \in Resources \ {n} : cache'[m] = cache[m]
        /\ \A m \in Resources : Known(m)' \subseteq Known(m)
    BY <1>2, InvParts DEF ServerInv, DeliveredInOrder, TypeOK, Known
  <1>5. EnsureMeansClaimed' /\ DeletedBeforeRelease' /\ ReleasedMeansDeleted'
    BY <1>3, InvParts DEF WorkerInv, EnsureMeansClaimed, InEnsure,
       DeletedBeforeRelease, ReleasedMeansDeleted, There, Left, ShouldBeDeleted,
       RecordedNames
  <1>6. DeleteReadsCache'
    <2>1. \A m \in Resources : /\ obj[m].rv \in Nat /\ cache[m].rv \in Nat
                            /\ cache'[m].rv \in Nat /\ cache[m].rv <= cache'[m].rv
      <3>1. \A m \in Resources : obj[m].rv \in Nat /\ cache[m].rv \in Nat
        BY KnownTypes, ObjectFields, InvParts
      <3>2. v.rv \in Nat
        BY KnownTypes, ObjectFields, InvParts DEF Known
      <3>3. QED
        BY <1>4, <3>1, <3>2
    <2>2. QED
      BY <1>3, <2>1, InvParts DEF WorkerInv, DeleteReadsCache, InDelete
  <1>7. KeepsToNames'
    BY <1>3, <1>4, InvParts DEF WorkerInv, KeepsToNames, OwnNames, RecordedNames
  <1>8. QED
    BY <1>1, <1>5, <1>6, <1>7 DEF WorkerInv

\* The worker takes what the cache holds: a claimed resource to ensure, or one
\* marked for deletion.
LEMMA InvStart ==
    ASSUME Inv, NEW n \in Resources, Start(n)
    PROVE  ServerInv' /\ WorkerInv'
  <1>1. CASE UNCHANGED <<pc, obj>>
    BY <1>1, InvQuiet DEF Start, Begin, environment
  <1>2. CASE /\ cache[n].exists
             /\ cache[n].deleting => cache[n].finalizer
             /\ obj' = [obj EXCEPT ![n] = cache[n]]
             /\ GoTo(n, FirstStep(cache[n]))
    <2>1. UNCHANGED <<api, cache, watch, cloud>>
      BY DEF Start, Begin, environment
    <2>2. /\ pc'[n] = FirstStep(cache[n]) /\ obj'[n] = cache[n]
          /\ \A m \in Resources \ {n} : pc'[m] = pc[m] /\ obj'[m] = obj[m]
      BY <1>2, InvParts DEF GoTo, TypeOK
    <2>3. ServerInv'
      BY <2>1, ServerUntouched, InvParts
    <2>4. EnsureMeansClaimed'
      <3>1. InEnsure(n)' => Alive(cache[n])
        BY <1>2, <2>2 DEF InEnsure, FirstStep, Alive
      <3>2. QED
        BY <2>1, <2>2, <3>1, InvParts
           DEF WorkerInv, ServerInv, EnsureMeansClaimed, InEnsure, AliveMeansClaimed, Known
    <2>5. DeleteReadsCache'
      <3>1. InDelete(n)' => cache[n].deleting
        BY <2>2 DEF InDelete, FirstStep
      <3>2. cache[n].rv \in Nat /\ (cache[n].rv = api[n].rv => cache[n] = api[n])
        BY KnownTypes, ObjectFields, InvParts DEF ServerInv, KnownIsPast, Known
      <3>3. QED
        BY <2>1, <2>2, <3>1, <3>2, InvParts DEF WorkerInv, DeleteReadsCache, InDelete
    <2>6. KeepsToNames'
      BY <2>1, <2>2, InvParts DEF WorkerInv, KeepsToNames, Known, OwnNames, RecordedNames
    <2>7. DeletedBeforeRelease' /\ ReleasedMeansDeleted'
      BY <2>1, <2>2, InvParts
         DEF WorkerInv, DeletedBeforeRelease, ReleasedMeansDeleted, There, FirstStep, Left,
             ShouldBeDeleted, RecordedNames
    <2>8. QED
      BY <2>3, <2>4, <2>5, <2>6, <2>7 DEF WorkerInv
  <1>3. QED
    BY <1>1, <1>2 DEF Start, Begin, environment

LEMMA InvCrash ==
    ASSUME Inv, Crash
    PROVE  ServerInv' /\ WorkerInv'
  <1>1. ServerInv'
    BY ServerRelists, InvParts
  <1>2. \A m \in Resources : Known(m)' = {api[m]} /\ pc'[m] = "idle"
    BY DEF Crash, Restart, environment, Known
  <1>3. UNCHANGED <<api, cloud>>
    BY DEF Crash, Restart, environment
  <1>4. EnsureMeansClaimed' /\ DeleteReadsCache' /\ DeletedBeforeRelease'
    BY <1>2 DEF EnsureMeansClaimed, InEnsure, DeleteReadsCache, InDelete, DeletedBeforeRelease
  <1>5. KeepsToNames' /\ ReleasedMeansDeleted'
    BY <1>2, <1>3, InvParts DEF WorkerInv, KeepsToNames, OwnNames, ReleasedMeansDeleted, There,
                                Left, ShouldBeDeleted, RecordedNames
  <1>6. QED
    BY <1>1, <1>4, <1>5 DEF WorkerInv

\* A status patch changes no claim.  It records something only for a resource
\* whose finalizer is on, or sends back what the cached copy records already.
LEMMA InvPatchStatus ==
    ASSUME Inv, NEW n \in Resources, NEW recorded \in RecordSets,
           NEW reason \in Reasons, NEW retry \in BOOLEAN,
           Patch(n, Outcome(n, recorded, reason), retry),
           UNCHANGED cloud,
           \/ recorded = cache[n].status.recorded
           \/ /\ api[n].exists /\ api[n].finalizer
              /\ Names(recorded) \subseteq NamesOf(n)
    PROVE  ServerInv' /\ WorkerInv'
  <1> DEFINE new == [recorded |-> recorded, reason |-> reason, gen |-> obj[n].gen]
             merged == Merged(cache[n].status, new, api[n].status)
             o == StatusWritten(api[n], merged)
             sent == cache[n].exists /\ new # cache[n].status
             again == retry \/ (~cache[n].exists \/ (sent /\ ~api[n].exists))
  <1>1. again \in BOOLEAN /\ Finish(n, again) /\ UNCHANGED cache
    BY DEF Patch, PatchStatus, SendPatch, PatchRefused,
           Differs, Outcome
  <1>2. CASE UNCHANGED <<api, watch>>
    BY <1>1, <1>2, Returns
  <1>3. CASE api[n].exists /\ Commit(n, o)
    <2>1. /\ api[n] \in Objects /\ api[n].spec \in Specs /\ api[n].rv \in Nat
          /\ api[n].status \in Statuses /\ api[n].status.recorded \in RecordSets
          /\ cache[n].status \in Statuses /\ cache[n].status.recorded \in RecordSets
          /\ obj[n].gen \in Nat
      BY KnownTypes, ObjectFields, InvParts DEF TypeOK, Objects, Versions
    <2>2. new \in Statuses
      BY <2>1 DEF Statuses, RecordSets
    <2>3. /\ merged \in Statuses
          /\ merged.recorded
               = MergedRecorded(cache[n].status.recorded, recorded, api[n].status.recorded)
      BY <2>1, <2>2, MergedType
    <2>4. o \in Objects
      BY <2>1, <2>3, VersionTypes
    <2>5. /\ o.rv = api[n].rv + 1 /\ o.exists = api[n].exists
          /\ o.finalizer = api[n].finalizer /\ o.status = merged
      BY <2>1 DEF StatusWritten, Objects, Versions
    <2>6. ~api[n].finalizer => o.status.recorded = {}
      <3>1. SUFFICES ASSUME ~api[n].finalizer PROVE merged.recorded = {}
        BY <2>5
      <3>2. recorded = cache[n].status.recorded
        BY <3>1
      <3>3. merged.recorded = api[n].status.recorded
        BY <2>3, <3>2 DEF MergedRecorded
      <3>4. QED
        BY <1>3, <3>1, <3>3, InvParts DEF ServerInv, UnclaimedMeansUnrecorded
    <2>7. OwnNames(n, o)
      <3>1. /\ Names(recorded) \subseteq NamesOf(n)
            /\ Names(api[n].status.recorded) \subseteq NamesOf(n)
            /\ api[n].spec.name \in NamesOf(n)
        BY InvParts DEF WorkerInv, KeepsToNames, OwnNames, RecordedNames, Names, Known
      <3>2. Names(merged.recorded)
              \subseteq Names(recorded) \union Names(api[n].status.recorded)
        BY <2>1, <2>3, MergedRecordedType
      <3>3. o.spec = api[n].spec
        BY <2>1 DEF StatusWritten, Objects, Versions
      <3>4. QED
        BY <2>5, <3>1, <3>2, <3>3 DEF OwnNames, RecordedNames, Names
    <2>8. Harmless(n, o)
      BY <1>3, <2>5, <2>6, <2>7 DEF Harmless
    <2>9. QED
      BY <1>1, <1>3, <2>4, <2>8, Writes
  <1>4. QED
    BY <1>2, <1>3 DEF Patch, PatchStatus, SendPatch, PatchRefused,
           Differs, Outcome

\* The finalizer goes with the version whose bucket has been deleted: that the
\* Update is accepted means nothing was recorded since.
LEMMA InvRemoveFinalizer ==
    ASSUME Inv, NEW n \in Resources, RemoveFinalizer(n)
    PROVE  ServerInv' /\ WorkerInv'
  <1>1. CASE ~Accepts(api[n], obj[n])
    BY <1>1, Returns DEF RemoveFinalizer, Release, environment
  <1>2. CASE Accepts(api[n], obj[n])
    <2>1. /\ Commit(n, Gone(api[n])) /\ Finish(n, FALSE)
          /\ UNCHANGED <<cache, cloud>> /\ pc[n] = "release"
      BY <1>2 DEF RemoveFinalizer, Release, environment
    <2>2. obj[n] = api[n] /\ api[n].deleting /\ api[n].rv <= cache[n].rv
      BY <1>2, <2>1, InvParts DEF WorkerInv, DeleteReadsCache, InDelete, Accepts
    <2>3. /\ api[n] \in Objects /\ api[n].rv \in Nat /\ cache[n].rv \in Nat
          /\ api[n].spec \in Specs /\ api[n].status \in Statuses
          /\ \A v \in Known(n) : v.rv \in Nat
      BY KnownTypes, ObjectFields, InvParts
    <2>4. Gone(api[n]) \in Objects
      BY <2>3, VersionTypes
    <2>5. /\ Gone(api[n]).rv = api[n].rv + 1 /\ ~Gone(api[n]).exists
          /\ Gone(api[n]).spec = api[n].spec /\ Gone(api[n]).status = api[n].status
      BY <2>3 DEF Gone, Objects, Versions
    <2>6. \A v \in Known(n) : v = api[n]
      <3> SUFFICES ASSUME NEW v \in Known(n) PROVE v = api[n]
        OBVIOUS
      <3>1. cache[n].rv <= v.rv /\ v.rv <= api[n].rv
        BY <2>3, InvParts DEF ServerInv, KnownIsPast, DeliveredInOrder, Known
      <3>2. v.rv = api[n].rv
        BY <2>2, <2>3, <3>1
      <3>3. QED
        BY <3>2, InvParts DEF ServerInv, KnownIsPast
    <2>7. ServerInv'
      <3>1. ~\E v \in Known(n) : Alive(v)
        BY <2>2, <2>6 DEF Alive
      <3>2. QED
        BY <2>1, <2>4, <2>5, <3>1, ServerCommits, InvParts
    <2>8. /\ api'[n] = Gone(api[n]) /\ pc'[n] = "idle"
          /\ Known(n)' = Known(n) \union {api'[n]}
          /\ \A m \in Resources \ {n} : /\ api'[m] = api[m] /\ pc'[m] = pc[m]
                                     /\ obj'[m] = obj[m] /\ Known(m)' = Known(m)
      BY <2>1, InvParts DEF Commit, Finish, TypeOK, Known
    <2>9. EnsureMeansClaimed' /\ DeleteReadsCache' /\ DeletedBeforeRelease'
      BY <2>1, <2>8, InvParts DEF WorkerInv, EnsureMeansClaimed, InEnsure,
         DeleteReadsCache, InDelete, DeletedBeforeRelease, Left, ShouldBeDeleted,
         RecordedNames
    <2>10. KeepsToNames'
      <3>1. OwnNames(n, Gone(api[n]))
        BY <2>5, InvParts DEF WorkerInv, KeepsToNames, OwnNames, RecordedNames
      <3>2. \A m \in Resources : \A v \in Known(m)' \union {api'[m]} : OwnNames(m, v)
        BY <2>8, <3>1, InvParts DEF WorkerInv, KeepsToNames
      <3>3. \A m \in Resources : pc'[m] # "idle" => OwnNames(m, obj'[m])
        BY <2>8, InvParts DEF WorkerInv, KeepsToNames
      <3>4. QED
        BY <3>2, <3>3 DEF KeepsToNames, OwnNames, RecordedNames
    <2>11. ReleasedMeansDeleted'
      <3> SUFFICES ASSUME NEW m \in Resources, ~api'[m].exists, ShouldBeDeleted(api'[m]),
                          NEW x \in RecordedNames(api'[m])
                   PROVE  cloud[x] = {}
        BY <2>1 DEF ReleasedMeansDeleted, There, ShouldBeDeleted, RecordedNames
      <3>1. CASE m = n
        <4>1. ShouldBeDeleted(obj[n]) /\ x \in RecordedNames(obj[n])
          BY <2>2, <2>5, <2>8, <3>1 DEF ShouldBeDeleted, RecordedNames
        <4>2. QED
          BY <2>1, <4>1, InvParts DEF WorkerInv, DeletedBeforeRelease, Left
      <3>2. CASE m # n
        BY <2>8, <3>2, InvParts DEF WorkerInv, ReleasedMeansDeleted, There
      <3>3. QED
        BY <3>1, <3>2
    <2>12. QED
      BY <2>7, <2>9, <2>10, <2>11 DEF WorkerInv
  <1>3. QED
    BY <1>1, <1>2

\* A status records one name at the most.
LEMMA RecordedNameIsForDelete ==
    ASSUME NEW o \in Objects, NEW x \in RecordedNames(o)
    PROVE  x \in Buckets /\ x = NameForDelete(o)
  <1>1. o.status.recorded \in RecordSets
    BY ObjectFields
  <1>2. PICK c \in Records : o.status.recorded = {c}
    BY <1>1 DEF RecordSets, RecordedNames
  <1>3. RecordedNames(o) = {c.name} /\ c.name \in Buckets
    BY <1>2 DEF RecordedNames, Records
  <1>4. QED
    BY <1>2, <1>3 DEF NameForDelete

LEMMA InvReconcile ==
    ASSUME Inv, DistinctNames, NEW n \in Resources, Reconcile(n)
    PROVE  ServerInv' /\ WorkerInv'
  <1>1. /\ api[n] \in Objects /\ obj[n] \in Objects
        /\ api[n].spec \in Specs /\ api[n].status \in Statuses
        /\ OwnNames(n, api[n])
        /\ api[n].exists /\ ~api[n].finalizer => api[n].status.recorded = {}
    BY KnownTypes, ObjectFields, InvParts
       DEF WorkerInv, ServerInv, KeepsToNames, UnclaimedMeansUnrecorded
  <1>2. Want(obj[n]) \in Records /\ Names({Want(obj[n])}) = {obj[n].spec.name}
    BY <1>1, WantType DEF Names
  <1>3. CASE AddFinalizer(n)
    <2>1. CASE ~Accepts(api[n], obj[n])
      BY <1>3, <2>1, Returns DEF AddFinalizer, Claim, environment
    <2>2. CASE Accepts(api[n], obj[n])
      <3>1. /\ Commit(n, FinalizerAdded(api[n])) /\ GoTo(n, "check")
            /\ obj' = [obj EXCEPT ![n] = FinalizerAdded(api[n])]
            /\ UNCHANGED <<cache, cloud>> /\ api[n].exists
        BY <1>3, <2>2 DEF AddFinalizer, Claim, environment, Accepts
      <3>2. FinalizerAdded(api[n]) \in Objects
        BY <1>1, VersionTypes
      <3>3. /\ FinalizerAdded(api[n]).finalizer /\ FinalizerAdded(api[n]).exists
            /\ Harmless(n, FinalizerAdded(api[n]))
        BY <1>1, <3>1 DEF Harmless, FinalizerAdded, Objects, Versions, OwnNames,
                          RecordedNames
      <3>4. QED
        BY <3>1, <3>2, <3>3, Writes
    <2>3. QED
      BY <2>1, <2>2
  <1>4. CASE Check(n)
    <2>1. InEnsure(n) /\ UNCHANGED <<api, cache, watch, obj, cloud>>
      BY <1>4 DEF Check, Proceed, Reporting, environment, InEnsure
    <2>2. GoTo(n, "get") \/ GoTo(n, "report")
      BY <1>4 DEF Check, Proceed, Reporting, environment
    <2>3. QED
      BY <2>1, <2>2, Moves DEF NothingNew, InEnsure
  <1>5. CASE Get(n)
    <2>1. /\ pc[n] = "get" /\ InEnsure(n)
          /\ UNCHANGED <<api, cache, watch, obj>>
          /\ \/ GoTo(n, "patchReady") \/ GoTo(n, "update")
             \/ GoTo(n, "create") \/ GoTo(n, "report")
      BY <1>5 DEF Get, Proceed, Reporting, InEnsure
    <2>2. NothingNew
      BY <1>5, InvParts DEF Get, NothingNew, TypeOK
    <2>3. QED
      BY <2>1, <2>2, Moves
  <1>6. CASE CreateBucket(n)
    BY <1>6, NewBucket DEF CreateBucket, Proceed
  <1>7. CASE UpdateBucket(n)
    <2>1. /\ pc[n] = "update" /\ InEnsure(n) /\ GoTo(n, "patchReady")
          /\ cloud' = WithPropertiesOf(obj[n])
          /\ UNCHANGED <<api, cache, watch, obj>>
      BY <1>7 DEF UpdateBucket, Proceed, InEnsure
    <2>2. NothingNew
      BY <2>1, InvParts DEF NothingNew, WithPropertiesOf, TypeOK
    <2>3. QED
      BY <2>1, <2>2, Moves
  <1>8. CASE PatchReady(n)
    <2>1. {Want(obj[n])} \in RecordSets /\ "Reconciled" \in Reasons
      BY <1>2 DEF RecordSets, Reasons
    <2>2. api[n].exists /\ api[n].finalizer
      BY <1>8, InvParts DEF PatchReady, environment, WorkerInv,
                            EnsureMeansClaimed, InEnsure
    <2>3. Names({Want(obj[n])}) \subseteq NamesOf(n)
      BY <1>2, <1>8, InvParts DEF PatchReady, WorkerInv, KeepsToNames, OwnNames
    <2>4. QED
      BY <1>8, <2>1, <2>2, <2>3, InvPatchStatus DEF PatchReady, environment
  <1>9. CASE Report(n)
    <2>1. /\ cache[n].status.recorded \in RecordSets
          /\ plan[n].reason \in Reasons /\ plan[n].retry \in BOOLEAN
      BY KnownTypes, ObjectFields, InvParts DEF TypeOK, Plans
    <2>2. QED
      BY <1>9, <2>1, InvPatchStatus DEF Report, environment
  <1>10. CASE PrepareDelete(n)
    <2>1. /\ pc[n] = "prepareDelete" /\ InDelete(n) /\ NothingNew
          /\ UNCHANGED <<api, cache, watch, cloud>>
      BY <1>10 DEF PrepareDelete, PollWhileReferenced, Proceed, Return, Reporting,
                   environment, InDelete, NothingNew
    <2>2. CASE Finish(n, TRUE)
      BY <2>1, <2>2, Returns
    <2>3. CASE (GoTo(n, "deleteObjects") \/ GoTo(n, "report")) /\ UNCHANGED obj
      BY <2>1, <2>3, Moves
    <2>4. CASE /\ ~ShouldBeDeleted(obj[n]) \/ RecordedNames(obj[n]) = {}
               /\ GoTo(n, "release") /\ UNCHANGED obj
      BY <2>1, <2>4, Moves
    <2>5. QED
      <3>1. obj[n].status.recorded = {} => RecordedNames(obj[n]) = {}
        BY DEF RecordedNames
      <3>2. QED
        BY <1>10, <2>2, <2>3, <2>4, <3>1
           DEF PrepareDelete, PollWhileReferenced, Proceed, Return, Reporting
  <1>11. CASE DeleteObjects(n) \/ DeleteBucket(n)
    <2>1. /\ pc[n] \in {"deleteObjects", "deleteBucket"} /\ InDelete(n)
          /\ UNCHANGED <<api, cache, watch, obj>>
      BY <1>11 DEF DeleteObjects, DeleteBucket, Proceed, Reporting, InDelete
    <2>2. NothingNew
      <3>1. \A x \in Buckets : {[b EXCEPT !.objects = FALSE] : b \in cloud[x]} = {}
                               <=> cloud[x] = {}
        OBVIOUS
      <3>2. CASE DeleteObjects(n)
        BY <3>1, <3>2, InvParts DEF DeleteObjects, NothingNew, TypeOK
      <3>3. CASE DeleteBucket(n)
        BY <3>3, InvParts DEF DeleteBucket, NothingNew, TypeOK
      <3>4. QED
        BY <1>11, <3>2, <3>3
    <2>3. CASE GoTo(n, "deleteBucket") \/ GoTo(n, "report")
      BY <2>1, <2>2, <2>3, Moves
    <2>4. CASE GoTo(n, "release") /\ cloud' = [cloud EXCEPT ![NameForDelete(obj[n])] = {}]
      <3>1. \A x \in RecordedNames(obj[n]) : x \in Buckets /\ x = NameForDelete(obj[n])
        BY <1>1, RecordedNameIsForDelete
      <3>2. \A x \in RecordedNames(obj[n]) : cloud'[x] = {}
        BY <2>4, <3>1, InvParts DEF TypeOK
      <3>3. QED
        BY <2>1, <2>2, <2>4, <3>2, Moves
    <2>5. QED
      BY <1>11, <2>3, <2>4 DEF DeleteObjects, DeleteBucket, Proceed, Reporting
  <1>12. CASE RemoveFinalizer(n)
    BY <1>12, InvRemoveFinalizer
  <1>13. QED
    BY <1>3, <1>4, <1>5, <1>6, <1>7, <1>8, <1>9, <1>10, <1>11, <1>12 DEF Reconcile

LEMMA InvCloudCallFails ==
    ASSUME Inv, DistinctNames, NEW n \in Resources, CloudCallFails(n)
    PROVE  ServerInv' /\ WorkerInv'
  <1>1. GoTo(n, "report") /\ UNCHANGED <<api, cache, watch, obj>> /\ pc[n] # "idle"
    BY DEF CloudCallFails, Reporting
  <1>2. CASE NothingNew
    BY <1>1, <1>2, Moves
  <1>3. CASE pc[n] = "create" /\ cloud' = WithBucketFor(obj[n])
    BY <1>1, <1>3, NewBucket
  <1>4. CASE ~(pc[n] = "create" /\ cloud' = WithBucketFor(obj[n]))
    <2> DEFINE x == NameForDelete(obj[n])
    <2>1. CASE UNCHANGED cloud
      BY <1>2, <2>1 DEF NothingNew
    <2>2. CASE cloud' = WithPropertiesOf(obj[n])
      BY <1>2, <2>2, InvParts DEF NothingNew, WithPropertiesOf, TypeOK
    <2>3. CASE cloud' = [cloud EXCEPT ![x] = {[b EXCEPT !.objects = FALSE] : b \in @}]
      <3> HIDE DEF x
      <3>1. QED
        BY <1>2, <2>3, InvParts DEF NothingNew, TypeOK
    <2>4. CASE cloud' = [cloud EXCEPT ![x] = {b \in @ : b.objects}]
      <3> HIDE DEF x
      <3>1. QED
        BY <1>2, <2>4, InvParts DEF NothingNew, TypeOK
    <2>5. QED
      <3>1. CASE pc[n] \in {"get", "create", "update"}
        BY <1>4, <2>1, <2>2, <3>1 DEF CloudCallFails
      <3>2. CASE pc[n] \in {"deleteObjects", "deleteBucket"}
        BY <2>1, <2>3, <2>4, <3>2 DEF CloudCallFails
      <3>3. QED
        BY <3>1, <3>2 DEF CloudCallFails
  <1>5. QED
    BY <1>3, <1>4

\* An application writes into what is there.
LEMMA InvWrite ==
    ASSUME Inv, NEW x \in Buckets, WriteObject(x)
    PROVE  ServerInv' /\ WorkerInv'
  <1>1. UNCHANGED <<api, cache, watch, pc, obj>>
    BY DEF WriteObject, Wake
  <1>2. NothingNew
    BY InvParts DEF WriteObject, NothingNew, TypeOK
  <1>3. ServerInv'
    BY <1>1, ServerUntouched, InvParts
  <1>4. EnsureMeansClaimed' /\ DeleteReadsCache' /\ KeepsToNames'
    BY <1>1, InvParts DEF WorkerInv, EnsureMeansClaimed, InEnsure, DeleteReadsCache, InDelete,
                          KeepsToNames, Known, OwnNames, RecordedNames
  <1>5. DeletedBeforeRelease'
    <2> SUFFICES ASSUME NEW n \in Resources, pc[n] = "release",
                        ShouldBeDeleted(obj[n]), NEW y \in RecordedNames(obj[n])
                 PROVE  cloud'[y] = {}
      BY <1>1 DEF DeletedBeforeRelease, ShouldBeDeleted, Left, RecordedNames
    <2>1. cloud[y] = {} /\ y \in Buckets
      BY NamesAreBuckets, KnownTypes, InvParts DEF WorkerInv, DeletedBeforeRelease, Left
    <2>2. QED
      BY <1>2, <2>1 DEF NothingNew
  <1>6. ReleasedMeansDeleted'
    BY <1>1, <1>2, ReleasedStays, InvParts DEF WorkerInv
  <1>7. QED
    BY <1>3, <1>4, <1>5, <1>6 DEF WorkerInv

LEMMA InvStep == Inv /\ DistinctNames /\ [Next]_vars => Inv'
  <1> SUFFICES ASSUME Inv, DistinctNames, [Next]_vars PROVE Inv'
    OBVIOUS
  <1>1. ASSUME NEW n \in Resources, ApiCallFails(n) PROVE ServerInv' /\ WorkerInv'
    BY <1>1, Returns DEF ApiCallFails, Return, environment
  <1>2. ASSUME NEW n \in Resources, ReferencesChange(n) PROVE ServerInv' /\ WorkerInv'
    BY <1>2, InvQuiet DEF ReferencesChange, Wake
  <1>3. ASSUME ProviderChanges PROVE ServerInv' /\ WorkerInv'
    BY <1>3, InvQuiet DEF ProviderChanges, Wake
  <1>4. ASSUME UNCHANGED vars PROVE ServerInv' /\ WorkerInv'
    BY <1>4, InvQuiet DEF vars, environment
  <1>5. ASSUME NEW x \in Buckets, WriteObject(x) PROVE ServerInv' /\ WorkerInv'
    BY <1>5, InvWrite
  <1>6. ServerInv' /\ WorkerInv'
    BY <1>1, <1>2, <1>3, <1>4, <1>5, InvUser, InvDeliver, InvStart, InvReconcile,
       InvCloudCallFails, InvCrash DEF Next
  <1>7. TypeOK'
    BY TypesStep, InvParts
  <1>8. QED
    BY <1>6, <1>7 DEF Inv, ServerInv, WorkerInv

-------------------------------------------------------------------------------
(* What follows for every behaviour. *)

\* The invariant holds: what the worker believes of a resource, from however old
\* a cached copy, is good enough for what it goes on to do.
THEOREM Invariance == DistinctNames => (Spec => []Inv)
  <1> SUFFICES ASSUME DistinctNames PROVE Spec => []Inv
    OBVIOUS
  <1>1. Init => Inv
    BY InvInit
  <1>2. Inv /\ [Next]_vars => Inv'
    BY InvStep
  <1>3. QED
    BY <1>1, <1>2, PTL DEF Spec

\* A Bucket deleted under deletionPolicy Delete leaves no bucket that it recorded, for
\* resources with names of their own: the Update that removes the finalizer is
\* refused whenever anything was recorded after the version that deleteBucket worked
\* on, whatever its spec was edited to meanwhile.
THEOREM ReleaseDeletes == DistinctNames => (Spec => []ReleasedMeansDeleted)
  <1> SUFFICES ASSUME DistinctNames PROVE Spec => []ReleasedMeansDeleted
    OBVIOUS
  <1>1. Spec => []Inv
    BY Invariance
  <1>2. Inv => ReleasedMeansDeleted
    BY DEF Inv
  <1>3. QED
    BY <1>1, <1>2, PTL
-------------------------------------------------------------------------------
(* The controller implements FinalizerProtocol. *)

\* The variables of the protocol.
claimed == {n \in Resources : api[n].exists /\ api[n].finalizer}
owned == [n \in Resources |-> BucketsOf(n)]
recorded == [n \in Resources |-> RecordedNames(api[n])]
kept == {n \in Resources : ~ShouldBeDeleted(api[n])}

\* The bucket of that name was made or adopted.
Taken(x) == \E b \in cloud[x] : b.taken

LEMMA BucketsAreTaken ==
    ASSUME NEW n \in Resources
    PROVE  /\ NamesOf(n) \subseteq Buckets
           /\ BucketsOf(n) = {x \in NamesOf(n) : Taken(x)}
           /\ BucketsOf(n)' = {x \in NamesOf(n) : Taken(x)'}
  BY DataAssumption DEF NamesOf, BucketsOf, Taken, Specs

\* Nothing is taken or deleted, and the resources are left alone.
LEMMA Quiet ==
    ASSUME UNCHANGED api, \A x \in Buckets : Taken(x)' <=> Taken(x)
    PROVE  UNCHANGED Protocol!vars
  <1>1. \A n \in Resources : BucketsOf(n)' = BucketsOf(n)
    BY BucketsAreTaken
  <1>2. QED
    BY <1>1 DEF Protocol!vars, RecordedNames, ShouldBeDeleted

LEMMA SameCloud == UNCHANGED cloud => \A x \in Buckets : Taken(x)' <=> Taken(x)
  BY DEF Taken

LEMMA ProtocolInit == Init => Protocol!Init
  <1> SUFFICES ASSUME Init PROVE Protocol!Init
    OBVIOUS
  <1>1. \A n \in Resources : ~api[n].finalizer /\ api[n].status.recorded = {}
    BY DEF Init, Created, NoStatus
  <1>2. \A x \in Buckets : ~Taken(x)
    BY DataAssumption DEF Init, Taken
  <1>3. \A n \in Resources : BucketsOf(n) = {}
    BY <1>2, BucketsAreTaken
  <1>4. QED
    BY <1>1, <1>3 DEF Protocol!Init, RecordedNames

LEMMA ProtocolUser ==
    ASSUME Inv, NEW n \in Resources, User(n)
    PROVE  [Protocol!Next]_(Protocol!vars)
  <1>1. UNCHANGED cloud
    BY DEF User, Create, Post, environment, EditSpec, Put, RequestDeletion, Delete
  <1>2. /\ api[n] \in Objects
        /\ api[n].exists /\ ~api[n].finalizer => api[n].status.recorded = {}
    BY KnownTypes, InvParts DEF ServerInv, UnclaimedMeansUnrecorded
  <1>3. ASSUME NEW o, Commit(n, o)
        PROVE  /\ api'[n] = o
               /\ \A m \in Resources \ {n} : api'[m] = api[m]
    BY <1>3, InvParts DEF Commit, TypeOK
  <1>4. CASE Create(n)
    <2>1. PICK s \in Specs : Commit(n, Created(api[n], s, NoStatus)) /\ ~api[n].exists
      BY <1>4, DataAssumption DEF Create, Post, environment
    <2>2. /\ ~api'[n].finalizer /\ api'[n].status.recorded = {}
          /\ \A m \in Resources \ {n} : api'[m] = api[m]
      BY <1>3, <2>1 DEF Created, NoStatus
    <2>3. n \notin claimed /\ UNCHANGED <<claimed, owned>>
      BY <1>1, <2>1, <2>2 DEF claimed, owned, BucketsOf
    <2>4. recorded' = [recorded EXCEPT ![n] = {}]
      BY <2>2 DEF recorded, RecordedNames
    <2>5. kept' \in {kept \union {n}, kept \ {n}}
      BY <2>2 DEF kept, ShouldBeDeleted
    <2>6. Protocol!Renew(n)
      BY <2>3, <2>4, <2>5 DEF Protocol!Renew, claimed, owned, recorded, kept
    <2>7. QED
      BY <2>6 DEF Protocol!Next
  <1>5. CASE EditSpec(n)
    <2>1. PICK s \in Specs : Commit(n, SpecEdited(api[n], s)) /\ api[n].exists
      BY <1>5, DataAssumption DEF EditSpec, Put, environment
    <2>2. /\ SpecEdited(api[n], s).exists /\ SpecEdited(api[n], s).spec = s
          /\ SpecEdited(api[n], s).finalizer = api[n].finalizer
          /\ SpecEdited(api[n], s).status = api[n].status
      BY <1>2, <2>1 DEF SpecEdited, Objects, Versions
    <2>3. /\ UNCHANGED <<claimed, owned, recorded>>
          /\ kept' \in {kept \union {n}, kept \ {n}}
      BY <1>1, <1>3, <2>1, <2>2 DEF claimed, owned, recorded, kept, BucketsOf,
                                      RecordedNames, ShouldBeDeleted
    <2>4. CASE api[n].finalizer
      <3>1. Protocol!ChangePolicy(n)
        BY <2>1, <2>3, <2>4 DEF Protocol!ChangePolicy, claimed, owned, recorded, kept
      <3>2. QED
        BY <3>1 DEF Protocol!Next
    <2>5. CASE ~api[n].finalizer
      <3>1. recorded = [recorded EXCEPT ![n] = {}]
        BY <1>2, <2>1, <2>5 DEF recorded, RecordedNames
      <3>2. Protocol!Renew(n)
        BY <2>3, <2>5, <3>1 DEF Protocol!Renew, claimed, owned, recorded, kept
      <3>3. QED
        BY <3>2 DEF Protocol!Next
    <2>6. QED
      BY <2>4, <2>5
  <1>6. CASE RequestDeletion(n)
    <2>1. Commit(n, DeletionRequested(api[n])) /\ api[n].exists
      BY <1>6 DEF RequestDeletion, Delete, environment
    <2>2. /\ DeletionRequested(api[n]).spec = api[n].spec
          /\ DeletionRequested(api[n]).status = api[n].status
          /\ (DeletionRequested(api[n]).exists /\ DeletionRequested(api[n]).finalizer)
               = (api[n].exists /\ api[n].finalizer)
      BY <1>2, <2>1 DEF DeletionRequested, Gone, Objects, Versions
    <2>3. UNCHANGED <<claimed, owned, recorded, kept>>
      BY <1>1, <1>3, <2>1, <2>2 DEF claimed, owned, recorded, kept, BucketsOf,
                                      RecordedNames, ShouldBeDeleted
    <2>4. QED
      BY <2>3 DEF Protocol!vars, claimed, owned, recorded, kept
  <1>7. QED
    BY <1>4, <1>5, <1>6 DEF User

\* What is deleted is deleted from the resource's own names.
LEMMA ProtocolUnmake ==
    ASSUME Inv, DistinctNames, NEW n \in Resources, UNCHANGED api,
           \A x \in Buckets : (Taken(x)' <=> Taken(x)) \/ (x \in NamesOf(n) /\ ~Taken(x)')
    PROVE  [Protocol!Next]_(Protocol!vars)
  <1>1. \A m \in Resources \ {n} : BucketsOf(m)' = BucketsOf(m)
    BY BucketsAreTaken DEF DistinctNames
  <1>2. BucketsOf(n)' \in SUBSET BucketsOf(n)
    BY BucketsAreTaken
  <1>3. /\ owned' = [owned EXCEPT ![n] = BucketsOf(n)']
        /\ BucketsOf(n)' \in SUBSET owned[n]
    BY <1>1, <1>2 DEF owned
  <1>4. UNCHANGED <<claimed, recorded, kept>>
    BY DEF claimed, recorded, kept, RecordedNames, ShouldBeDeleted
  <1>5. Protocol!Unmake(n)
    BY <1>3, <1>4 DEF Protocol!Unmake, claimed, recorded, kept, owned
  <1>6. QED
    BY <1>5 DEF Protocol!Next

\* A bucket made, or adopted, is the one of the resource's own name.
LEMMA ProtocolMake ==
    ASSUME Inv, DistinctNames, NEW n \in Resources, UNCHANGED api, InEnsure(n),
           \E b \in cloud'[obj[n].spec.name] : b.taken,
           \A x \in Buckets \ {obj[n].spec.name} : Taken(x)' <=> Taken(x)
    PROVE  [Protocol!Next]_(Protocol!vars)
  <1> DEFINE name == obj[n].spec.name
  <1>1. name \in NamesOf(n) /\ n \in claimed /\ name \in Buckets
    BY BucketsAreTaken, InvParts
       DEF claimed, WorkerInv, EnsureMeansClaimed, InEnsure, KeepsToNames, OwnNames
  <1>2. \A m \in Resources \ {n} : BucketsOf(m)' = BucketsOf(m)
    BY <1>1, BucketsAreTaken DEF DistinctNames
  <1>3. BucketsOf(n)' = BucketsOf(n) \union {name}
    <2>1. \A x \in NamesOf(n) : Taken(x)' <=> Taken(x) \/ x = name
      BY <1>1, BucketsAreTaken DEF Taken
    <2>2. QED
      <3> HIDE DEF name
      <3>1. QED
        BY <1>1, <2>1, BucketsAreTaken
  <1>4. owned' = [owned EXCEPT ![n] = @ \union {name}]
    BY <1>2, <1>3 DEF owned
  <1>5. UNCHANGED <<claimed, recorded, kept>>
    BY DEF claimed, recorded, kept, RecordedNames, ShouldBeDeleted
  <1>6. Protocol!Make(n)
    BY <1>1, <1>4, <1>5 DEF Protocol!Make, claimed, recorded, kept, owned
  <1>7. QED
    BY <1>6 DEF Protocol!Next

\* patchStatus records for a claimed resource and changes nothing of another.
LEMMA ProtocolRecord ==
    ASSUME Inv, NEW n \in Resources, NEW records \in RecordSets,
           NEW reason \in Reasons, NEW retry,
           Patch(n, Outcome(n, records, reason), retry), UNCHANGED cloud,
           \/ records = cache[n].status.recorded
           \/ api[n].exists /\ api[n].finalizer
    PROVE  [Protocol!Next]_(Protocol!vars)
  <1> DEFINE new == [recorded |-> records, reason |-> reason, gen |-> obj[n].gen]
             merged == Merged(cache[n].status, new, api[n].status)
             o == StatusWritten(api[n], merged)
  <1>1. CASE UNCHANGED <<api, watch>>
    BY <1>1, Quiet, SameCloud
  <1>2. CASE api[n].exists /\ Commit(n, o)
    <2>1. /\ api[n] \in Objects /\ api[n].status \in Statuses
          /\ cache[n].status \in Statuses
          /\ cache[n].status.recorded \in RecordSets /\ obj[n].gen \in Nat
      BY KnownTypes, ObjectFields, InvParts DEF TypeOK, Objects, Versions
    <2>2. new \in Statuses
      BY <2>1 DEF Statuses, RecordSets
    <2>3. /\ merged \in Statuses
          /\ merged.recorded
               = MergedRecorded(cache[n].status.recorded, records, api[n].status.recorded)
      BY <2>1, <2>2, MergedType
    <2>4. Names(merged.recorded) \subseteq Buckets
      BY <2>3 DEF Statuses, Names, Records
    <2>5. /\ o.exists = api[n].exists /\ o.finalizer = api[n].finalizer
          /\ o.spec = api[n].spec /\ o.status = merged
      BY <2>1 DEF StatusWritten, Objects, Versions
    <2>6. /\ api'[n] = o
          /\ \A m \in Resources \ {n} : api'[m] = api[m]
      BY <1>2, InvParts DEF Commit, TypeOK
    <2>7. /\ UNCHANGED <<claimed, owned, kept>>
          /\ recorded' = [recorded EXCEPT ![n] = Names(merged.recorded)]
      BY <2>5, <2>6 DEF claimed, owned, recorded, kept, BucketsOf, RecordedNames, Names,
                        ShouldBeDeleted
    <2>8. CASE api[n].finalizer
      <3>1. n \in claimed
        BY <1>2, <2>8 DEF claimed
      <3>2. Protocol!Record(n)
        BY <2>4, <2>7, <3>1 DEF Protocol!Record, claimed, owned, recorded, kept
      <3>3. QED
        BY <3>2 DEF Protocol!Next
    <2>9. CASE ~api[n].finalizer
      <3>1. merged.recorded = api[n].status.recorded
        BY <2>3, <2>9 DEF MergedRecorded
      <3>2. recorded' = recorded
        BY <2>7, <3>1 DEF recorded, RecordedNames, Names
      <3>3. QED
        BY <2>7, <3>2 DEF Protocol!vars, claimed, owned, recorded, kept
    <2>10. QED
      BY <2>8, <2>9
  <1>3. QED
    BY <1>1, <1>2 DEF Patch, PatchStatus, SendPatch, PatchRefused,
           Differs, Outcome

\* The finalizer is taken off the version whose recorded bucket is gone.
LEMMA ProtocolRelease ==
    ASSUME Inv, NEW n \in Resources, RemoveFinalizer(n)
    PROVE  [Protocol!Next]_(Protocol!vars)
  <1>1. CASE ~Accepts(api[n], obj[n])
    BY <1>1, Quiet, SameCloud DEF RemoveFinalizer, Release, environment
  <1>2. CASE Accepts(api[n], obj[n])
    <2>1. /\ api[n].exists /\ obj[n] = api[n]
          /\ pc[n] = "release" /\ Commit(n, Gone(api[n])) /\ UNCHANGED cloud
      BY <1>2, InvParts DEF RemoveFinalizer, Release, environment, WorkerInv,
                            DeleteReadsCache, InDelete, Accepts
    <2>2. /\ api[n] \in Objects /\ api[n].spec \in Specs
      BY KnownTypes, ObjectFields, InvParts
    <2>3. /\ ~api'[n].exists /\ api'[n].spec = api[n].spec
          /\ api'[n].status = api[n].status
          /\ \A m \in Resources \ {n} : api'[m] = api[m]
      BY <2>1, <2>2, InvParts DEF Commit, Gone, Objects, Versions, TypeOK
    <2>4. /\ claimed' = claimed \ {n}
          /\ UNCHANGED <<owned, recorded, kept>>
      BY <2>1, <2>3 DEF claimed, owned, recorded, kept, BucketsOf, RecordedNames,
                        ShouldBeDeleted
    <2>5. CASE ~api[n].finalizer
      <3>1. UNCHANGED claimed
        BY <2>4, <2>5 DEF claimed
      <3>2. QED
        BY <2>4, <3>1 DEF Protocol!vars, claimed, owned, recorded, kept
    <2>6. CASE api[n].finalizer
      <3>1. n \in claimed
        BY <2>1, <2>6 DEF claimed
      <3>2. n \in kept \/ recorded[n] \intersect owned[n] = {}
        <4>1. ShouldBeDeleted(api[n]) => Left(RecordedNames(api[n]))
          BY <2>1, InvParts DEF WorkerInv, DeletedBeforeRelease
        <4>2. QED
          BY <4>1, BucketsAreTaken DEF kept, recorded, owned, Taken, Left
      <3>3. Protocol!Release(n)
        BY <2>4, <3>1, <3>2 DEF Protocol!Release, claimed, owned, recorded, kept
      <3>4. QED
        BY <3>3 DEF Protocol!Next
    <2>7. QED
      BY <2>5, <2>6
  <1>3. QED
    BY <1>1, <1>2

\* What a call does to a bucket that is there, other than taking or deleting it.
LEMMA CallsThatOnlyWrite ==
    ASSUME Inv, NEW y,
           \/ \E o \in Objects : cloud' = WithPropertiesOf(o)
           \/ cloud' = [cloud EXCEPT ![y] = {[b EXCEPT !.objects = FALSE] : b \in @}]
    PROVE  \A x \in Buckets : Taken(x)' <=> Taken(x)
  <1> TAKE x \in Buckets
  <1>1. cloud \in Clouds /\ \A b \in cloud[x] : b \in Contents
    BY CloudTypes, InvParts DEF Clouds, States
  <1>2. CASE \E o \in Objects : cloud' = WithPropertiesOf(o)
    <2>1. PICK o \in Objects : cloud' = WithPropertiesOf(o)
      BY <1>2
    <2>2. CASE o.spec.name = x
      <3>1. cloud'[x] = {[b EXCEPT !.properties = o.spec.properties] : b \in cloud[x]}
        BY <1>1, <2>1, <2>2 DEF WithPropertiesOf, Clouds
      <3>2. \A b \in cloud[x] : [b EXCEPT !.properties = o.spec.properties].taken = b.taken
        BY <1>1 DEF Contents
      <3>3. QED
        BY <3>1, <3>2 DEF Taken
    <2>3. CASE o.spec.name # x
      BY <1>1, <2>1, <2>3 DEF WithPropertiesOf, Clouds, Taken
    <2>4. QED
      BY <2>2, <2>3
  <1>3. CASE cloud' = [cloud EXCEPT ![y] = {[b EXCEPT !.objects = FALSE] : b \in @}]
    <2>1. CASE y = x
      <3>1. cloud'[x] = {[b EXCEPT !.objects = FALSE] : b \in cloud[x]}
        BY <1>1, <1>3, <2>1 DEF Clouds
      <3>2. \A b \in cloud[x] : [b EXCEPT !.objects = FALSE].taken = b.taken
        BY <1>1 DEF Contents
      <3>3. QED
        BY <3>1, <3>2 DEF Taken
    <2>2. CASE y # x
      BY <1>1, <1>3, <2>2 DEF Clouds, Taken
    <2>3. QED
      BY <2>1, <2>2
  <1>4. QED
    BY <1>2, <1>3

\* What a deletion removes is named by the resource.
LEMMA NameForDeleteIsOwn ==
    ASSUME Inv, NEW n \in Resources, pc[n] \in {"deleteObjects", "deleteBucket"}
    PROVE  NameForDelete(obj[n]) \in NamesOf(n) /\ NameForDelete(obj[n]) \in Buckets
  <1>1. OwnNames(n, obj[n]) /\ obj[n] \in Objects
    BY KnownTypes, InvParts DEF WorkerInv, KeepsToNames
  <1>2. CASE obj[n].status.recorded = {}
    BY <1>1, <1>2, BucketsAreTaken DEF OwnNames, NameForDelete
  <1>3. CASE obj[n].status.recorded # {}
    <2>1. PICK x \in RecordedNames(obj[n]) : TRUE
      BY <1>3 DEF RecordedNames
    <2>2. x = NameForDelete(obj[n])
      BY <1>1, <2>1, RecordedNameIsForDelete
    <2>3. QED
      BY <1>1, <2>1, <2>2, BucketsAreTaken DEF OwnNames
  <1>4. QED
    BY <1>2, <1>3

LEMMA ProtocolCreate ==
    ASSUME Inv, DistinctNames, NEW n \in Resources, UNCHANGED api, pc[n] = "create",
           cloud' = WithBucketFor(obj[n])
    PROVE  [Protocol!Next]_(Protocol!vars)
  <1>1. InEnsure(n) /\ obj[n].spec.name \in Buckets
    BY BucketsAreTaken, InvParts DEF InEnsure, WorkerInv, KeepsToNames, OwnNames
  <1>2. /\ \E b \in cloud'[obj[n].spec.name] : b.taken
        /\ \A x \in Buckets \ {obj[n].spec.name} : Taken(x)' <=> Taken(x)
    <2> DEFINE name == obj[n].spec.name
               made == [taken |-> TRUE, location |-> obj[n].spec.location,
                        properties |-> obj[n].spec.properties, objects |-> FALSE]
    <2>1. cloud'[name] = {made} /\ made.taken
      BY <1>1, InvParts DEF WithBucketFor, TypeOK
    <2>2. \A x \in Buckets \ {name} : cloud'[x] = cloud[x]
      BY <1>1, InvParts DEF WithBucketFor, TypeOK
    <2>3. QED
      BY <2>1, <2>2 DEF Taken
  <1>3. QED
    BY <1>1, <1>2, ProtocolMake

LEMMA ProtocolReconcile ==
    ASSUME Inv, DistinctNames, NEW n \in Resources, Reconcile(n)
    PROVE  [Protocol!Next]_(Protocol!vars)
  <1>1. /\ api[n] \in Objects /\ obj[n] \in Objects
        /\ api[n].exists /\ ~api[n].finalizer => api[n].status.recorded = {}
    BY KnownTypes, InvParts DEF ServerInv, UnclaimedMeansUnrecorded
  <1>2. Want(obj[n]) \in Records
    BY <1>1, WantType
  <1>3. CASE AddFinalizer(n)
    <2>1. CASE ~Accepts(api[n], obj[n])
      BY <1>3, <2>1, Quiet, SameCloud DEF AddFinalizer, Claim, environment
    <2>2. CASE Accepts(api[n], obj[n])
      <3>1. /\ Commit(n, FinalizerAdded(api[n])) /\ api[n].exists /\ UNCHANGED cloud
        BY <1>3, <2>2 DEF AddFinalizer, Claim, environment, Accepts
      <3>2. /\ api'[n].exists /\ api'[n].finalizer /\ api'[n].spec = api[n].spec
            /\ api'[n].status = api[n].status
            /\ \A m \in Resources \ {n} : api'[m] = api[m]
        BY <1>1, <3>1, InvParts DEF Commit, FinalizerAdded, Objects, Versions, TypeOK
      <3>3. /\ claimed' = claimed \union {n}
            /\ UNCHANGED <<owned, recorded, kept>>
        BY <3>1, <3>2 DEF claimed, owned, recorded, kept, BucketsOf, RecordedNames,
                          ShouldBeDeleted
      <3>4. CASE api[n].finalizer
        <4>1. UNCHANGED claimed
          BY <3>1, <3>3, <3>4 DEF claimed
        <4>2. QED
          BY <3>3, <4>1 DEF Protocol!vars, claimed, owned, recorded, kept
      <3>5. CASE ~api[n].finalizer
        <4>1. n \notin claimed /\ recorded[n] = {}
          BY <1>1, <3>1, <3>5 DEF claimed, recorded, RecordedNames
        <4>2. Protocol!Claim(n)
          BY <3>3, <4>1 DEF Protocol!Claim, claimed, owned, recorded, kept
        <4>3. QED
          BY <4>2 DEF Protocol!Next
      <3>6. QED
        BY <3>4, <3>5
    <2>3. QED
      BY <2>1, <2>2
  <1>4. CASE Check(n) \/ PrepareDelete(n)
    BY <1>4, Quiet, SameCloud DEF Check, Proceed, Reporting, environment, PrepareDelete,
                       PollWhileReferenced, Return
  <1>5. CASE Get(n)
    <2>1. UNCHANGED api /\ InEnsure(n)
      BY <1>5 DEF Get, Proceed, Reporting, InEnsure
    <2>2. CASE UNCHANGED cloud
      BY <2>1, <2>2, Quiet, SameCloud
    <2>3. CASE \E b \in cloud[obj[n].spec.name] :
                 cloud' = [cloud EXCEPT ![obj[n].spec.name] = {[b EXCEPT !.taken = TRUE]}]
      <3>1. PICK b \in cloud[obj[n].spec.name] :
              cloud' = [cloud EXCEPT ![obj[n].spec.name] = {[b EXCEPT !.taken = TRUE]}]
        BY <2>3
      <3>2. obj[n].spec.name \in Buckets
        BY <1>1 DEF Objects, Versions, Specs
      <3>3. /\ cloud \in Clouds /\ b \in Contents
        BY <3>2, CloudTypes, InvParts DEF Clouds, States
      <3>4. /\ \E c \in cloud'[obj[n].spec.name] : c.taken
            /\ \A x \in Buckets \ {obj[n].spec.name} : Taken(x)' <=> Taken(x)
        <4> DEFINE name == obj[n].spec.name
        <4>1. cloud'[name] = {[b EXCEPT !.taken = TRUE]} /\ [b EXCEPT !.taken = TRUE].taken
          BY <3>1, <3>2, <3>3 DEF Clouds, Contents
        <4>2. \A x \in Buckets \ {name} : cloud'[x] = cloud[x]
          BY <3>1, <3>2, <3>3 DEF Clouds
        <4>3. QED
          BY <4>1, <4>2 DEF Taken
      <3>5. QED
        BY <2>1, <3>4, ProtocolMake
    <2>4. QED
      BY <1>5, <2>2, <2>3 DEF Get
  <1>6. CASE CreateBucket(n)
    BY <1>6, ProtocolCreate DEF CreateBucket, Proceed
  <1>7. CASE UpdateBucket(n)
    BY <1>1, <1>7, CallsThatOnlyWrite, Quiet DEF UpdateBucket, Proceed
  <1>8. CASE PatchReady(n)
    <2>1. {Want(obj[n])} \in RecordSets /\ "Reconciled" \in Reasons
      BY <1>2 DEF RecordSets, Reasons
    <2>2. api[n].exists /\ api[n].finalizer
      BY <1>8, InvParts DEF PatchReady, environment, WorkerInv,
                            EnsureMeansClaimed, InEnsure
    <2>3. QED
      BY <1>8, <2>1, <2>2, ProtocolRecord DEF PatchReady, environment
  <1>9. CASE Report(n)
    <2>1. cache[n].status.recorded \in RecordSets /\ plan[n].reason \in Reasons
      BY KnownTypes, ObjectFields, InvParts DEF TypeOK, Plans
    <2>2. QED
      BY <1>9, <2>1, ProtocolRecord DEF Report, environment
  <1>10. CASE DeleteObjects(n)
    <2>1. UNCHANGED api
      BY <1>10 DEF DeleteObjects, Proceed, Reporting
    <2>2. CASE UNCHANGED cloud
      BY <2>1, <2>2, Quiet, SameCloud
    <2>3. CASE cloud' = [cloud EXCEPT ![NameForDelete(obj[n])] =
                           {[b EXCEPT !.objects = FALSE] : b \in @}]
      <3>1. \A x \in Buckets : Taken(x)' <=> Taken(x)
        BY <2>3, CallsThatOnlyWrite
      <3>2. QED
        BY <2>1, <3>1, Quiet
    <2>4. QED
      BY <1>10, <2>2, <2>3 DEF DeleteObjects
  <1>11. CASE DeleteBucket(n)
    <2>1. UNCHANGED api
      BY <1>11 DEF DeleteBucket, Proceed, Reporting
    <2>2. CASE UNCHANGED cloud
      BY <2>1, <2>2, Quiet, SameCloud
    <2>3. CASE cloud' = [cloud EXCEPT ![NameForDelete(obj[n])] = {}]
      <3>1. NameForDelete(obj[n]) \in NamesOf(n)
        BY <1>11, NameForDeleteIsOwn DEF DeleteBucket
      <3>2. \A x \in Buckets : (Taken(x)' <=> Taken(x)) \/ (x \in NamesOf(n) /\ ~Taken(x)')
        BY <2>3, <3>1, InvParts DEF Taken, TypeOK
      <3>3. QED
        BY <2>1, <3>2, ProtocolUnmake
    <2>4. QED
      BY <1>11, <2>2, <2>3 DEF DeleteBucket
  <1>12. CASE RemoveFinalizer(n)
    BY <1>12, ProtocolRelease
  <1>13. QED
    BY <1>3, <1>4, <1>5, <1>6, <1>7, <1>8, <1>9, <1>10, <1>11, <1>12 DEF Reconcile

LEMMA ProtocolCloudCallFails ==
    ASSUME Inv, DistinctNames, NEW n \in Resources, CloudCallFails(n)
    PROVE  [Protocol!Next]_(Protocol!vars)
  <1> DEFINE x == NameForDelete(obj[n])
  <1>1. UNCHANGED api /\ obj[n] \in Objects
    BY KnownTypes, InvParts DEF CloudCallFails, Reporting
  <1>2. CASE UNCHANGED cloud
    BY <1>1, <1>2, Quiet, SameCloud
  <1>3. CASE pc[n] = "create" /\ cloud' = WithBucketFor(obj[n])
    BY <1>1, <1>3, ProtocolCreate
  <1>4. CASE cloud' = WithPropertiesOf(obj[n])
    BY <1>1, <1>4, CallsThatOnlyWrite, Quiet
  <1>5. CASE cloud' = [cloud EXCEPT ![x] = {[b EXCEPT !.objects = FALSE] : b \in @}]
    <2>1. \A y \in Buckets : Taken(y)' <=> Taken(y)
      BY <1>5, CallsThatOnlyWrite
    <2>2. QED
      BY <1>1, <2>1, Quiet
  <1>6. CASE /\ pc[n] = "deleteBucket"
             /\ cloud' = [cloud EXCEPT ![x] = {b \in @ : b.objects}]
    <2>1. x \in NamesOf(n) /\ x \in Buckets
      BY <1>6, NameForDeleteIsOwn
    <2>2. /\ cloud'[x] = {} \/ cloud'[x] = cloud[x]
          /\ \A y \in Buckets \ {x} : cloud'[y] = cloud[y]
      <3> HIDE DEF x
      <3>1. cloud'[x] = {b \in cloud[x] : b.objects}
        BY <1>6, <2>1, InvParts DEF TypeOK
      <3>2. cloud[x] \in States
        BY <2>1, CloudTypes, InvParts DEF Clouds
      <3>3. QED
        BY <1>6, <2>1, <3>1, <3>2, InvParts DEF TypeOK, States
    <2>3. \A y \in Buckets : (Taken(y)' <=> Taken(y)) \/ (y \in NamesOf(n) /\ ~Taken(y)')
      BY <2>1, <2>2 DEF Taken
    <2>4. QED
      BY <1>1, <2>3, ProtocolUnmake
  <1>7. QED
    <2>1. CASE pc[n] \in {"get", "create", "update"}
      BY <1>2, <1>3, <1>4, <2>1 DEF CloudCallFails
    <2>2. CASE pc[n] \in {"deleteObjects", "deleteBucket"}
      BY <1>2, <1>5, <1>6, <2>2 DEF CloudCallFails
    <2>3. QED
      BY <2>1, <2>2 DEF CloudCallFails

\* Applications take and delete nothing.
LEMMA ProtocolWrite ==
    ASSUME Inv, NEW y \in Buckets, WriteObject(y)
    PROVE  [Protocol!Next]_(Protocol!vars)
  <1>1. PICK b \in cloud[y] : cloud' = [cloud EXCEPT ![y] = {[b EXCEPT !.objects = TRUE]}]
    BY DEF WriteObject
  <1>2. cloud \in Clouds /\ b \in Contents /\ cloud[y] = {b}
    BY <1>1, CloudTypes, InvParts DEF Clouds, States
  <1>3. \A x \in Buckets : Taken(x)' <=> Taken(x)
    BY <1>1, <1>2 DEF Clouds, Contents, Taken
  <1>4. UNCHANGED api
    BY DEF WriteObject, Wake
  <1>5. QED
    BY <1>3, <1>4, Quiet

LEMMA ProtocolStep ==
    ASSUME Inv, DistinctNames, [Next]_vars
    PROVE  [Protocol!Next]_(Protocol!vars)
  <1>1. ASSUME UNCHANGED <<api, cloud>> PROVE [Protocol!Next]_(Protocol!vars)
    BY <1>1, Quiet, SameCloud
  <1>2. ASSUME NEW n \in Resources, Deliver(n) \/ Start(n) \/ ApiCallFails(n)
        PROVE  [Protocol!Next]_(Protocol!vars)
    BY <1>1, <1>2 DEF Deliver, Inform, environment, Start, Begin, ApiCallFails,
                      Return
  <1>3. ASSUME NEW n \in Resources, ReferencesChange(n)
        PROVE  [Protocol!Next]_(Protocol!vars)
    BY <1>1, <1>3 DEF ReferencesChange, Wake
  <1>4. CASE ProviderChanges \/ Crash \/ UNCHANGED vars
    BY <1>1, <1>4 DEF ProviderChanges, Wake, Crash, Restart, environment, vars
  <1>5. QED
    BY <1>2, <1>3, <1>4, ProtocolUser, ProtocolReconcile, ProtocolCloudCallFails,
       ProtocolWrite DEF Next

\* Every step of users, applications, informer, worker and failures is a step of the
\* protocol or changes nothing of it: no bucket is made or adopted for a resource
\* without the finalizer, and the finalizer goes only when the bucket recorded at
\* that moment is gone or the deletionPolicy keeps it.
THEOREM ImplementsProtocol == DistinctNames => (Spec => KeepsFinalizerProtocol)
  <1> SUFFICES ASSUME DistinctNames PROVE Spec => KeepsFinalizerProtocol
    OBVIOUS
  <1>1. Init => Protocol!Init
    BY ProtocolInit
  <1>2. Inv /\ [Next]_vars => [Protocol!Next]_(Protocol!vars)
    BY ProtocolStep
  <1>3. Spec => []Inv
    BY Invariance
  <1>4. QED
    BY <1>1, <1>2, <1>3, PTL DEF Spec, KeepsFinalizerProtocol, Protocol!Spec

-------------------------------------------------------------------------------
(* Ready means configured. *)

\* The bucket that o asks for is the operator's and where o asks.
Located(o) ==
    \E b \in cloud[o.spec.name] : b.taken /\ b.location = o.spec.location

\* A version that is Ready for what it is.
Obliging(v) ==
    /\ v.exists /\ ~v.deleting
    /\ v.status.reason = "Reconciled"
    /\ v.status.gen = v.gen

VersionsFollow(n) == Followed(api[n], cache[n], watch[n])

\* The worker claims what the informer shows, works for what is asked for, deletes
\* what is marked, and reports a failure as one.
WorkerFollows(n) ==
    /\ pc[n] = "addFinalizer" => obj[n].rv <= cache[n].rv
    /\ InEnsure(n) => Current(api[n], cache[n], obj[n])
    /\ InDelete(n) /\ Claimed(api[n]) => api[n].deleting
    /\ pc[n] = "report" => plan[n].reason # "Reconciled"

BucketFollows(n) ==
    /\ pc[n] = "update" => Located(obj[n])
    /\ pc[n] = "patchReady" => AsAsked(obj[n])
    /\ Obliging(api[n]) => AsAsked(api[n])

Readiness(n) == VersionsFollow(n) /\ WorkerFollows(n) /\ BucketFollows(n)

LEMMA ReadyFacts ==
    ASSUME Inv, NEW n \in Resources
    PROVE  /\ api[n] \in Versions(Specs, Statuses)
           /\ cache[n] \in Versions(Specs, Statuses)
           /\ obj[n] \in Versions(Specs, Statuses)
           /\ watch[n] \in SUBSET Versions(Specs, Statuses)
           /\ Past(api[n], cache[n], watch[n])
           /\ \A v \in watch[n] : cache[n].rv <= v.rv
           /\ InEnsure(n) => Claimed(api[n])
           /\ \A s \in Statuses : s.gen \in Nat
  <1>1. Past(api[n], cache[n], watch[n])
    BY InvParts DEF ServerInv, KnownIsPast, Known, Past
  <1>2. InEnsure(n) => Claimed(api[n])
    BY InvParts DEF WorkerInv, EnsureMeansClaimed, Claimed
  <1>3. \A v \in watch[n] : cache[n].rv <= v.rv
    BY InvParts DEF ServerInv, DeliveredInOrder
  <1>4. /\ api[n] \in Objects /\ cache[n] \in Objects /\ obj[n] \in Objects
        /\ watch[n] \in SUBSET Objects
    BY InvParts DEF TypeOK
  <1>5. QED
    BY <1>1, <1>2, <1>3, <1>4 DEF Objects, Statuses

\* A resource that is Ready for what it is is claimed, and a reconcile of it works
\* for what it is.
LEMMA ReadyForWhatItIs ==
    ASSUME Inv, NEW n \in Resources, Readiness(n), Obliging(api[n])
    PROVE  /\ Claimed(api[n]) /\ ~InDelete(n)
           /\ InEnsure(n) => obj[n].spec = api[n].spec
  <1>1. Claimed(api[n])
    BY DEF Readiness, VersionsFollow, Followed, Obliging, Claimed, Reported
  <1>2. ~InDelete(n)
    BY <1>1 DEF Readiness, WorkerFollows, Obliging
  <1>3. ASSUME InEnsure(n) PROVE obj[n].spec = api[n].spec
    <2>1. cache[n].gen <= api[n].gen
      BY <1>1, ReadyFacts, CachedPrecedes DEF Readiness, VersionsFollow, Precedes
    <2>2. Current(api[n], cache[n], obj[n]) /\ Reported(api[n])
      BY <1>3 DEF Readiness, WorkerFollows, Obliging, Reported
    <2>3. api[n].gen \in Nat /\ cache[n].gen \in Nat /\ obj[n].gen \in Nat
      BY ReadyFacts, VersionFields
    <2>4. QED
      BY <2>1, <2>2, <2>3 DEF Current, Obliging
  <1>4. QED
    BY <1>1, <1>2, <1>3

\* A bucket of the operator's stays as it is, what is in it excepted.
Stays(x) ==
    \A b \in cloud[x] :
      b.taken => \E d \in cloud'[x] :
                   /\ d.taken
                   /\ d.location = b.location /\ d.properties = b.properties

Untouched(n) ==
    /\ api'[n] = api[n] /\ cache'[n] = cache[n] /\ watch'[n] = watch[n]
    /\ pc'[n] = pc[n] /\ obj'[n] = obj[n] /\ plan'[n] = plan[n]

\* Somebody else's step.
LEMMA ReadyUntouched ==
    ASSUME Inv, NEW n \in Resources, Readiness(n), Untouched(n),
           \A x \in NamesOf(n) : Stays(x)
    PROVE  Readiness(n)'
  <1>1. VersionsFollow(n)'
    BY DEF Readiness, VersionsFollow, Untouched
  <1>2. WorkerFollows(n)'
    BY DEF Readiness, WorkerFollows, Untouched, InEnsure, InDelete
  <1>3. /\ api[n].spec.name \in NamesOf(n)
        /\ pc[n] # "idle" => obj[n].spec.name \in NamesOf(n)
    BY InvParts DEF WorkerInv, KeepsToNames, OwnNames
  <1>4. BucketFollows(n)'
    BY <1>3 DEF Readiness, BucketFollows, Untouched, Stays, Located, AsAsked, Obliging
  <1>5. QED
    BY <1>1, <1>2, <1>4 DEF Readiness

\* A step of the reconcile between two writes to the API server.
LEMMA ReadyMoves ==
    ASSUME Inv, NEW n \in Resources, Readiness(n),
           UNCHANGED <<api, cache, watch, obj>>,
           pc'[n] = "report" => plan'[n].reason # "Reconciled",
           InEnsure(n)' => InEnsure(n), InDelete(n)' => InDelete(n),
           pc'[n] # "addFinalizer",
           pc'[n] = "update" => Located(obj[n])',
           pc'[n] = "patchReady" => AsAsked(obj[n])',
           Obliging(api[n]) => AsAsked(api[n])'
    PROVE  Readiness(n)'
  <1>1. VersionsFollow(n)'
    BY DEF Readiness, VersionsFollow
  <1>2. WorkerFollows(n)'
    BY DEF Readiness, WorkerFollows
  <1>3. BucketFollows(n)'
    BY DEF Readiness, BucketFollows, Obliging
  <1>4. QED
    BY <1>1, <1>2, <1>3 DEF Readiness

LEMMA ReadyReturns ==
    ASSUME Inv, NEW n \in Resources, Readiness(n), NEW retry \in BOOLEAN,
           Finish(n, retry), UNCHANGED <<api, cache, watch, cloud>>
    PROVE  Readiness(n)'
  <1>1. pc'[n] = "idle"
    BY InvParts DEF Finish, TypeOK
  <1>2. VersionsFollow(n)'
    BY DEF Readiness, VersionsFollow
  <1>3. WorkerFollows(n)'
    BY <1>1 DEF WorkerFollows, InEnsure, InDelete
  <1>4. BucketFollows(n)'
    BY <1>1 DEF Readiness, BucketFollows, Obliging, AsAsked
  <1>5. QED
    BY <1>2, <1>3, <1>4 DEF Readiness

LEMMA ReadyInit == Init => \A n \in Resources : Readiness(n)
  <1> SUFFICES ASSUME Init, NEW n \in Resources PROVE Readiness(n)
    OBVIOUS
  <1>1. PICK s \in [Resources -> Specs] :
          api = [m \in Resources |-> Created(NoObject, s[m], NoStatus)]
    BY DEF Init
  <1>2. /\ cache[n] = api[n] /\ watch[n] = {} /\ pc[n] = "idle"
        /\ api[n].status.reason = "None" /\ ~api[n].finalizer
        /\ api[n].uid = api[n].rv /\ api[n].gen = 1
        /\ api[n].rv = NoObject.rv + 1 /\ NoObject.rv = 0
    BY <1>1 DEF Init, Created, NoStatus, NoObject, NeverCreated
  <1>3. VersionsFollow(n)
    BY <1>2 DEF VersionsFollow, Followed, Orderly, Precedes, Claimed, Reported
  <1>4. WorkerFollows(n) /\ BucketFollows(n)
    BY <1>2 DEF WorkerFollows, BucketFollows, InEnsure, InDelete, Obliging
  <1>5. QED
    BY <1>3, <1>4 DEF Readiness

\* A write to the API server that claims nothing new and reports no more than what the
\* worker is at.
LEMMA ReadyWrites ==
    ASSUME Inv, NEW n \in Resources, Readiness(n), NEW o \in Objects,
           Commit(n, o), UNCHANGED <<cache, cloud>>, Succeeds(o, api[n]),
           Claimed(o) => /\ Claimed(api[n]) /\ o.uid = api[n].uid
                         /\ api[n].deleting => o.deleting,
           Claimed(api[n]) /\ o.exists => Claimed(o),
           \/ o.gen = api[n].gen /\ o.spec = api[n].spec
           \/ o.gen = api[n].gen + 1
           \/ ~Claimed(api[n]),
           \/ ~Reported(o)
           \/ Reported(api[n]) /\ o.status.gen = api[n].status.gen
           \/ InEnsure(n) /\ o.status.reason = "Reconciled" /\ o.status.gen = obj[n].gen,
           Obliging(o) => AsAsked(o),
           \/ UNCHANGED <<pc, obj, plan>>
           \/ \E retry \in BOOLEAN : Finish(n, retry)
    PROVE  Readiness(n)'
  <1>1. api'[n] = o /\ watch'[n] = watch[n] \union {o}
    BY InvParts DEF Commit, TypeOK
  <1>2. /\ Followed(api[n], cache[n], watch[n])
        /\ InEnsure(n) => Current(api[n], cache[n], obj[n])
    BY DEF Readiness, VersionsFollow, WorkerFollows
  <1>3. o \in Versions(Specs, Statuses)
    BY DEF Objects
  <1>4. Reported(o) => o.finalizer /\ o.status.gen <= cache[n].gen
    <2>1. CASE Reported(api[n]) /\ o.status.gen = api[n].status.gen /\ o.exists
      <3>1. Claimed(api[n]) /\ api[n].status.gen <= cache[n].gen
        BY <1>2, <2>1 DEF Followed, Claimed, Reported
      <3>2. QED
        BY <2>1, <3>1 DEF Claimed
    <2>2. CASE o.exists /\ InEnsure(n) /\ o.status.gen = obj[n].gen
      BY <1>2, <2>2, ReadyFacts DEF Current, Claimed
    <2>3. QED
      BY <2>1, <2>2 DEF Reported
  <1>5. VersionsFollow(n)'
    <2>1. Claimed(o) => cache[n].uid = o.uid
      BY <1>2 DEF Followed
    <2>2. Followed(o, cache[n], watch[n] \union {o})
      BY <1>2, <1>3, <1>4, <2>1, ReadyFacts, FollowedWrites
    <2>3. QED
      BY <1>1, <2>2 DEF VersionsFollow
  <1>6. ASSUME InEnsure(n) PROVE Current(o, cache[n], obj[n])
    <2>1. Claimed(api[n]) /\ Current(api[n], cache[n], obj[n])
      BY <1>2, <1>6, ReadyFacts
    <2>2. obj[n].gen \in Nat
      BY ReadyFacts, VersionFields
    <2>3. Reported(o) => o.status.gen <= obj[n].gen
      BY <2>1, <2>2 DEF Current
    <2>4. QED
      BY <1>2, <1>3, <2>1, <2>3, ReadyFacts, CurrentWrites
  <1>7. CASE UNCHANGED <<pc, obj, plan>>
    <2>1. WorkerFollows(n)'
      BY <1>1, <1>6, <1>7 DEF Readiness, WorkerFollows, InEnsure, InDelete
    <2>2. BucketFollows(n)'
      BY <1>1, <1>7 DEF Readiness, BucketFollows, Obliging, Located, AsAsked
    <2>3. QED
      BY <1>5, <2>1, <2>2 DEF Readiness
  <1>8. CASE \E retry \in BOOLEAN : Finish(n, retry)
    <2>1. pc'[n] = "idle"
      BY <1>8, InvParts DEF Finish, TypeOK
    <2>2. WorkerFollows(n)'
      BY <2>1 DEF WorkerFollows, InEnsure, InDelete
    <2>3. BucketFollows(n)'
      BY <1>1, <2>1 DEF BucketFollows, Obliging, AsAsked
    <2>4. QED
      BY <1>5, <2>2, <2>3 DEF Readiness
  <1>9. QED
    BY <1>7, <1>8

LEMMA ReadyUser ==
    ASSUME Inv, NEW n \in Resources, Readiness(n), User(n)
    PROVE  Readiness(n)'
  <1>1. UNCHANGED <<cache, cloud, pc, obj, plan>>
    BY DEF User, Create, Post, environment, EditSpec, Put, RequestDeletion, Delete
  <1>2. /\ api[n] \in Objects /\ api[n].spec \in Specs /\ api[n].status \in Statuses
        /\ api[n] \in Versions(Specs, Statuses)
        /\ api[n].gen \in Nat /\ api[n].status.gen \in Nat
    BY KnownTypes, ObjectFields, ReadyFacts, VersionFields, InvParts
  <1>3. Reported(api[n]) => api[n].status.gen <= api[n].gen
    <2>1. Followed(api[n], api[n], {})
      BY ReadyFacts, FollowedRelists DEF Readiness, VersionsFollow
    <2>2. QED
      BY <2>1 DEF Followed
  <1>4. CASE Create(n)
    <2>1. PICK s \in Specs : Commit(n, Created(api[n], s, NoStatus)) /\ ~api[n].exists
      BY <1>4, DataAssumption DEF Create, Post
    <2> DEFINE o == Created(api[n], s, NoStatus)
    <2>2. o \in Objects /\ Succeeds(o, api[n])
      BY <1>2, NoStatusType, VersionTypes, WritesSucceed
    <2>3. ~Claimed(o) /\ ~Claimed(api[n]) /\ ~Reported(o) /\ ~Obliging(o)
      BY <2>1 DEF Claimed, Reported, Obliging, Created, NoStatus
    <2> HIDE DEF o
    <2>4. QED
      BY <1>1, <2>1, <2>2, <2>3, ReadyWrites DEF o
  <1>5. CASE EditSpec(n)
    <2>1. PICK s \in Specs : Commit(n, SpecEdited(api[n], s)) /\ api[n].exists
      BY <1>5, DataAssumption DEF EditSpec, Put
    <2> DEFINE o == SpecEdited(api[n], s)
    <2>2. o \in Objects /\ Succeeds(o, api[n])
      BY <1>2, NoStatusType, VersionTypes, WritesSucceed
    <2>3. /\ o.uid = api[n].uid /\ o.gen = api[n].gen + 1 /\ o.status = api[n].status
          /\ o.exists = api[n].exists /\ o.finalizer = api[n].finalizer
          /\ o.deleting = api[n].deleting
      BY <1>2 DEF SpecEdited, Versions
    <2>4. /\ Claimed(o) <=> Claimed(api[n])
          /\ Reported(o) => Reported(api[n])
      BY <2>3 DEF Claimed, Reported
    <2>5. ~Obliging(o)
      BY <1>2, <1>3, <2>3, <2>4 DEF Reported, Obliging
    <2> HIDE DEF o
    <2>6. QED
      BY <1>1, <2>1, <2>2, <2>3, <2>4, <2>5, ReadyWrites DEF o
  <1>6. CASE RequestDeletion(n)
    <2>1. Commit(n, DeletionRequested(api[n])) /\ api[n].exists /\ ~api[n].deleting
      BY <1>6 DEF RequestDeletion, Delete
    <2> DEFINE o == DeletionRequested(api[n])
    <2>2. o \in Objects /\ Succeeds(o, api[n])
      BY <1>2, NoStatusType, VersionTypes, WritesSucceed
    <2>3. CASE api[n].finalizer
      <3>1. /\ o.uid = api[n].uid /\ o.gen = api[n].gen + 1 /\ o.status = api[n].status
            /\ o.exists /\ o.finalizer /\ o.deleting
        BY <1>2, <2>1, <2>3 DEF DeletionRequested, Versions
      <3>2. /\ Claimed(o) /\ Claimed(api[n]) /\ ~Obliging(o)
            /\ Reported(o) => Reported(api[n])
        BY <2>1, <2>3, <3>1 DEF Claimed, Reported, Obliging
      <3> HIDE DEF o
      <3>3. QED
        BY <1>1, <2>1, <2>2, <3>1, <3>2, ReadyWrites DEF o
    <2>4. CASE ~api[n].finalizer
      <3>1. ~o.exists
        BY <1>2, <2>4 DEF DeletionRequested, Gone, Versions
      <3>2. ~Claimed(o) /\ ~Claimed(api[n]) /\ ~Reported(o) /\ ~Obliging(o)
        BY <2>4, <3>1 DEF Claimed, Reported, Obliging
      <3> HIDE DEF o
      <3>3. QED
        BY <1>1, <2>1, <2>2, <3>2, ReadyWrites DEF o
    <2>5. QED
      BY <2>3, <2>4
  <1>7. QED
    BY <1>4, <1>5, <1>6 DEF User

LEMMA ReadyDeliver ==
    ASSUME Inv, NEW n \in Resources, Readiness(n), Deliver(n)
    PROVE  Readiness(n)'
  <1>1. PICK v \in watch[n] : /\ Earliest(watch[n], v)
                              /\ cache' = [cache EXCEPT ![n] = v]
                              /\ watch' = [watch EXCEPT ![n] = @ \ {v}]
    BY DEF Deliver, Inform
  <1>2. cache'[n] = v /\ watch'[n] = watch[n] \ {v} /\ UNCHANGED <<api, pc, obj, plan, cloud>>
    BY <1>1, InvParts DEF Deliver, Inform, environment, TypeOK
  <1>3. /\ Followed(api[n], v, watch[n] \ {v})
        /\ Claimed(api[n]) => cache[n].gen <= v.gen
    BY <1>1, ReadyFacts, FollowedDelivers DEF Readiness, VersionsFollow
  <1>4. VersionsFollow(n)'
    BY <1>2, <1>3 DEF VersionsFollow
  <1>5. WorkerFollows(n)'
    <2>1. /\ v.rv \in Nat /\ v.gen \in Nat /\ cache[n].rv \in Nat /\ cache[n].gen \in Nat
          /\ obj[n].rv \in Nat /\ obj[n].gen \in Nat /\ cache[n].rv <= v.rv
      BY ReadyFacts, VersionFields
    <2>2. pc[n] = "addFinalizer" => obj[n].rv <= v.rv
      BY <2>1 DEF Readiness, WorkerFollows
    <2>3. InEnsure(n) => Current(api[n], v, obj[n])
      BY <1>3, <2>1, ReadyFacts DEF Readiness, WorkerFollows, Current
    <2>4. QED
      BY <1>2, <2>2, <2>3 DEF Readiness, WorkerFollows, InEnsure, InDelete
  <1>6. BucketFollows(n)'
    BY <1>2 DEF Readiness, BucketFollows, Obliging, Located, AsAsked
  <1>7. QED
    BY <1>4, <1>5, <1>6 DEF Readiness

LEMMA ReadyStart ==
    ASSUME Inv, NEW n \in Resources, Readiness(n), Start(n)
    PROVE  Readiness(n)'
  <1>1. UNCHANGED <<api, cache, watch, plan, cloud>>
    BY DEF Start, Begin, environment
  <1>2. CASE UNCHANGED <<pc, obj>>
    BY <1>1, <1>2, ReadyUntouched DEF Untouched, Stays
  <1>3. CASE /\ obj' = [obj EXCEPT ![n] = cache[n]]
             /\ GoTo(n, FirstStep(cache[n]))
             /\ cache[n].exists
    <2>1. pc'[n] = FirstStep(cache[n]) /\ obj'[n] = cache[n]
      BY <1>3, InvParts DEF GoTo, TypeOK
    <2>2. VersionsFollow(n)'
      BY <1>1 DEF Readiness, VersionsFollow
    <2>3. Claimed(api[n])
            => Current(api[n], cache[n], cache[n]) /\ (cache[n].deleting => api[n].deleting)
      BY ReadyFacts, CurrentStarts DEF Readiness, VersionsFollow
    <2>4. WorkerFollows(n)'
      <3>1. InEnsure(n)' => Alive(cache[n])
        BY <1>3, <2>1 DEF InEnsure, FirstStep, Alive
      <3>2. Alive(cache[n]) => Claimed(api[n])
        BY InvParts DEF ServerInv, AliveMeansClaimed, Known, Claimed
      <3>3. InDelete(n)' => cache[n].deleting
        BY <2>1 DEF InDelete, FirstStep
      <3>4. cache[n].rv \in Nat /\ pc'[n] # "report"
        BY <2>1, ReadyFacts, VersionFields DEF FirstStep
      <3>5. QED
        BY <1>1, <2>1, <2>3, <3>1, <3>2, <3>3, <3>4 DEF WorkerFollows
    <2>5. BucketFollows(n)'
      BY <1>1, <2>1 DEF Readiness, BucketFollows, FirstStep, Obliging, AsAsked
    <2>6. QED
      BY <2>2, <2>4, <2>5 DEF Readiness
  <1>4. QED
    BY <1>2, <1>3 DEF Start, Begin

LEMMA ReadyCrash ==
    ASSUME Inv, NEW n \in Resources, Readiness(n), Crash
    PROVE  Readiness(n)'
  <1>1. /\ api'[n] = api[n] /\ cache'[n] = api[n] /\ watch'[n] = {}
        /\ pc'[n] = "idle" /\ UNCHANGED cloud
    BY DEF Crash, Restart, environment
  <1>2. Followed(api[n], api[n], {})
    BY ReadyFacts, FollowedRelists DEF Readiness, VersionsFollow
  <1>3. VersionsFollow(n)'
    BY <1>1, <1>2 DEF VersionsFollow
  <1>4. WorkerFollows(n)' /\ BucketFollows(n)'
    BY <1>1 DEF Readiness, WorkerFollows, BucketFollows, InEnsure, InDelete, Obliging,
                AsAsked
  <1>5. QED
    BY <1>3, <1>4 DEF Readiness

\* The finalizer is added to the version that was read, which the informer shows.
LEMMA ReadyAddFinalizer ==
    ASSUME Inv, NEW n \in Resources, Readiness(n), AddFinalizer(n)
    PROVE  Readiness(n)'
  <1>1. CASE ~Accepts(api[n], obj[n])
    BY <1>1, ReadyReturns DEF AddFinalizer, Claim, environment
  <1>2. CASE Accepts(api[n], obj[n])
    <2> DEFINE o == FinalizerAdded(api[n])
    <2>1. /\ Commit(n, o) /\ GoTo(n, "check") /\ obj' = [obj EXCEPT ![n] = o]
          /\ UNCHANGED <<cache, cloud>> /\ pc[n] = "addFinalizer"
      BY <1>2 DEF AddFinalizer, Claim, environment
    <2>2. /\ api'[n] = o /\ watch'[n] = watch[n] \union {o}
          /\ pc'[n] = "check" /\ obj'[n] = o
      BY <2>1, InvParts DEF Commit, GoTo, TypeOK
    <2>3. o \in Versions(Specs, Statuses) /\ Succeeds(o, api[n])
      BY KnownTypes, VersionTypes, ReadyFacts, WritesSucceed, InvParts, NoStatusType,
         ObjectFields DEF Objects
    <2>4. /\ o.uid = api[n].uid /\ o.gen = api[n].gen /\ o.spec = api[n].spec
          /\ o.status = api[n].status /\ o.deleting = api[n].deleting
          /\ o.exists /\ api[n].exists /\ o.finalizer
      BY <1>2, ReadyFacts DEF Accepts, FinalizerAdded, Versions
    <2>5. cache[n] = api[n]
      <3>1. obj[n].rv = api[n].rv /\ obj[n].rv <= cache[n].rv /\ cache[n].rv <= api[n].rv
        BY <1>2, <2>1, ReadyFacts DEF Accepts, Readiness, WorkerFollows, Past
      <3>2. cache[n].rv = api[n].rv
        BY <3>1, ReadyFacts, VersionFields
      <3>3. QED
        BY <3>2, InvParts DEF ServerInv, KnownIsPast, Known
    <2>6. Reported(o) => o.finalizer /\ o.status.gen <= cache[n].gen
      BY <2>4 DEF Readiness, VersionsFollow, Followed, Reported
    <2>7. VersionsFollow(n)'
      <3>1. Claimed(o) => cache[n].uid = o.uid
        BY <2>4, <2>5
      <3> HIDE DEF o
      <3>2. Followed(o, cache[n], watch[n] \union {o})
        BY <2>3, <2>6, <3>1, ReadyFacts, FollowedWrites DEF Readiness, VersionsFollow
      <3>3. QED
        BY <2>1, <2>2, <3>2 DEF VersionsFollow
    <2>8. WorkerFollows(n)'
      <3>1. o.gen <= cache[n].gen
        BY <2>4, <2>5, ReadyFacts, VersionFields
      <3>2. Current(o, cache[n], o)
        BY <2>4, <2>5, <2>6, <3>1 DEF Current
      <3> HIDE DEF o
      <3>3. QED
        BY <2>1, <2>2, <3>2 DEF WorkerFollows, InDelete
    <2>9. BucketFollows(n)'
      <3>1. Obliging(o) => Obliging(api[n])
        BY <2>4 DEF Obliging
      <3> HIDE DEF o
      <3>2. QED
        BY <2>1, <2>2, <2>4, <3>1 DEF Readiness, BucketFollows, Obliging, AsAsked
    <2>10. QED
      BY <2>7, <2>8, <2>9 DEF Readiness
  <1>3. QED
    BY <1>1, <1>2

\* A status patch reports Ready for what the worker has made, or keeps what is reported.
LEMMA ReadyPatchStatus ==
    ASSUME Inv, NEW n \in Resources, Readiness(n), NEW rs \in RecordSets,
           NEW reason \in Reasons, NEW retry \in BOOLEAN,
           Patch(n, Outcome(n, rs, reason), retry), UNCHANGED cloud,
           reason = "Reconciled" => pc[n] = "patchReady"
    PROVE  Readiness(n)'
  <1> DEFINE new == [recorded |-> rs, reason |-> reason, gen |-> obj[n].gen]
             merged == Merged(cache[n].status, new, api[n].status)
             o == StatusWritten(api[n], merged)
             sent == cache[n].exists /\ new # cache[n].status
             again == retry \/ (~cache[n].exists \/ (sent /\ ~api[n].exists))
  <1>1. again \in BOOLEAN /\ Finish(n, again) /\ UNCHANGED cache
    BY DEF Patch, PatchStatus, SendPatch, PatchRefused, Differs, Outcome
  <1>2. CASE UNCHANGED <<api, watch>>
    BY <1>1, <1>2, ReadyReturns
  <1>3. CASE api[n].exists /\ Commit(n, o)
    <2>1. /\ api[n] \in Objects /\ api[n].spec \in Specs
          /\ api[n].status \in Statuses /\ cache[n].status \in Statuses
          /\ obj[n].gen \in Nat
      BY KnownTypes, ObjectFields, InvParts DEF TypeOK, Objects, Versions
    <2>2. merged \in Statuses
      <3>1. new \in Statuses
        BY <2>1 DEF Statuses, RecordSets
      <3>2. QED
        BY <2>1, <3>1, MergedType
    <2>3. o \in Objects /\ Succeeds(o, api[n])
      BY <2>1, <2>2, VersionTypes, ReadyFacts, WritesSucceed
    <2>4. /\ o.uid = api[n].uid /\ o.gen = api[n].gen /\ o.spec = api[n].spec
          /\ o.exists = api[n].exists /\ o.finalizer = api[n].finalizer
          /\ o.deleting = api[n].deleting /\ o.status = merged
      BY <2>1 DEF StatusWritten, Objects, Versions
    <2>5. \/ merged.reason = reason /\ merged.gen = obj[n].gen
          \/ merged.reason = api[n].status.reason /\ merged.gen = api[n].status.gen
      BY DEF Merged
    <2> HIDE DEF merged
    <2>6. Claimed(o) <=> Claimed(api[n])
      BY <2>4 DEF Claimed
    <2>7. \/ ~Reported(o)
          \/ Reported(api[n]) /\ o.status.gen = api[n].status.gen
          \/ InEnsure(n) /\ o.status.reason = "Reconciled" /\ o.status.gen = obj[n].gen
      BY <2>4, <2>5 DEF Reported, InEnsure
    <2>8. ASSUME Obliging(o) PROVE AsAsked(o)
      <3>1. CASE merged.reason = api[n].status.reason /\ merged.gen = api[n].status.gen
        <4>1. Obliging(api[n])
          BY <2>4, <2>8, <3>1 DEF Obliging
        <4>2. QED
          BY <2>4, <4>1 DEF Readiness, BucketFollows, AsAsked
      <3>2. CASE merged.reason = reason /\ merged.gen = obj[n].gen
        <4>1. pc[n] = "patchReady" /\ obj[n].gen = api[n].gen
          BY <2>4, <2>8, <3>2 DEF Obliging
        <4>2. obj[n].spec = api[n].spec /\ AsAsked(obj[n])
          BY <4>1 DEF Readiness, WorkerFollows, BucketFollows, InEnsure, Current
        <4>3. QED
          BY <2>4, <4>2 DEF AsAsked
      <3>3. QED
        BY <2>5, <3>1, <3>2
    <2> HIDE DEF o, again
    <2>9. QED
      BY <1>1, <1>3, <2>3, <2>4, <2>6, <2>7, <2>8, ReadyWrites
  <1>4. QED
    BY <1>2, <1>3 DEF Patch, PatchStatus, SendPatch, PatchRefused, Differs, Outcome

LEMMA ReadyRemoveFinalizer ==
    ASSUME Inv, NEW n \in Resources, Readiness(n), RemoveFinalizer(n)
    PROVE  Readiness(n)'
  <1>1. CASE ~Accepts(api[n], obj[n])
    BY <1>1, ReadyReturns DEF RemoveFinalizer, Release, environment
  <1>2. CASE Accepts(api[n], obj[n])
    <2> DEFINE o == Gone(api[n])
    <2>1. Commit(n, o) /\ Finish(n, FALSE) /\ UNCHANGED <<cache, cloud>>
      BY <1>2 DEF RemoveFinalizer, Release, environment
    <2>2. o \in Objects /\ Succeeds(o, api[n])
      BY KnownTypes, ObjectFields, VersionTypes, ReadyFacts, WritesSucceed, InvParts
    <2>3. ~o.exists /\ o.gen = api[n].gen /\ o.spec = api[n].spec
      BY ReadyFacts DEF Gone, Versions
    <2>4. ~Claimed(o) /\ ~Reported(o) /\ ~Obliging(o)
      BY <2>3 DEF Claimed, Reported, Obliging
    <2> HIDE DEF o
    <2>5. QED
      BY <2>1, <2>2, <2>3, <2>4, ReadyWrites
  <1>3. QED
    BY <1>1, <1>2

\* The steps of EnsureBucket leave a bucket that is as the worker asks as it is; the
\* others are not taken while the resource is Ready for what it is.
LEMMA ReadyEnsures ==
    ASSUME Inv, NEW n \in Resources, Readiness(n),
           UNCHANGED <<api, cache, watch, obj>>, InEnsure(n) \/ InDelete(n),
           pc'[n] = "report" => plan'[n].reason # "Reconciled",
           InEnsure(n)' => InEnsure(n), InDelete(n)' => InDelete(n),
           pc'[n] # "addFinalizer",
           pc'[n] = "update" => Located(obj[n])',
           pc'[n] = "patchReady" => AsAsked(obj[n])',
           InEnsure(n) /\ AsAsked(obj[n]) => AsAsked(obj[n])'
    PROVE  Readiness(n)'
  <1>1. ASSUME Obliging(api[n]) PROVE AsAsked(api[n])'
    <2>1. InEnsure(n) /\ obj[n].spec = api[n].spec
      BY <1>1, ReadyForWhatItIs
    <2>2. AsAsked(obj[n])
      BY <1>1, <2>1 DEF Readiness, BucketFollows, AsAsked
    <2>3. QED
      BY <2>1, <2>2 DEF AsAsked
  <1>2. QED
    BY <1>1, ReadyMoves

LEMMA UpdateSuffices ==
    ASSUME Inv, NEW n \in Resources, UNCHANGED obj, Located(obj[n]),
           cloud' = WithPropertiesOf(obj[n])
    PROVE  AsAsked(obj[n])'
  <1> DEFINE x == obj[n].spec.name
  <1>1. x \in Buckets
    BY KnownTypes, ObjectFields, InvParts DEF Specs
  <1>2. PICK b \in cloud[x] : b.taken /\ b.location = obj[n].spec.location
    BY DEF Located
  <1>3. b \in Contents
    BY <1>1, <1>2, InvParts DEF TypeOK
  <1> DEFINE d == [b EXCEPT !.properties = obj[n].spec.properties]
  <1>4. d \in cloud'[x]
    BY <1>1, <1>2, InvParts DEF WithPropertiesOf, TypeOK
  <1>5. d.taken /\ d.location = b.location /\ d.properties = obj[n].spec.properties
    BY <1>2, <1>3 DEF Contents
  <1>6. QED
    BY <1>2, <1>4, <1>5 DEF AsAsked

LEMMA ReadyReconcile ==
    ASSUME Inv, NEW n \in Resources, Readiness(n), Reconcile(n)
    PROVE  Readiness(n)'
  <1>1. CASE AddFinalizer(n)
    BY <1>1, ReadyAddFinalizer
  <1>2. CASE Check(n)
    <2>1. /\ InEnsure(n) /\ UNCHANGED <<api, cache, watch, obj, cloud>>
          /\ pc'[n] \in {"get", "report"}
      BY <1>2, InvParts DEF Check, Proceed, Reporting, GoTo, environment, InEnsure, TypeOK
    <2>2. pc'[n] = "report" => plan'[n].reason # "Reconciled"
      <3>1. Obstacle(obj[n]) # "Reconciled"
        BY DEF Obstacle
      <3>2. QED
        BY <1>2, <3>1, InvParts DEF Check, Proceed, Reporting, GoTo, TypeOK
    <2>3. QED
      BY <2>1, <2>2, ReadyEnsures DEF AsAsked, InEnsure, InDelete
  <1>3. CASE Get(n)
    <2>1. /\ InEnsure(n) /\ UNCHANGED <<api, cache, watch, obj>>
          /\ pc'[n] \in {"create", "update", "patchReady", "report"}
          /\ pc'[n] = "report" => plan'[n].reason = "EnsureError"
          /\ pc'[n] \in {"create", "report"} => UNCHANGED cloud
      BY <1>3, InvParts DEF Get, Proceed, Reporting, GoTo, InEnsure, TypeOK
    <2>2. CASE UNCHANGED cloud /\ pc'[n] \in {"create", "report"}
      BY <2>1, <2>2, ReadyEnsures DEF AsAsked, InEnsure, InDelete
    <2>3. CASE pc'[n] \in {"update", "patchReady"}
      <3> DEFINE x == obj[n].spec.name
      <3>1. PICK b \in cloud[x] :
              /\ b.location = obj[n].spec.location
              /\ pc'[n] = (IF b.properties = obj[n].spec.properties THEN "patchReady" ELSE "update")
              /\ cloud' = [cloud EXCEPT ![x] = {[b EXCEPT !.taken = TRUE]}]
        BY <1>3, <2>3, InvParts DEF Get, Proceed, Reporting, GoTo, TypeOK
      <3>2. x \in Buckets
        BY KnownTypes, ObjectFields, InvParts DEF Specs
      <3>3. b \in Contents /\ cloud[x] = {b}
        BY <3>1, <3>2, InvParts DEF TypeOK
      <3> DEFINE d == [b EXCEPT !.taken = TRUE]
      <3>4. /\ cloud'[x] = {d} /\ d.taken
            /\ d.location = b.location /\ d.properties = b.properties
        BY <3>1, <3>2, <3>3, InvParts DEF TypeOK, Contents
      <3> HIDE DEF d
      <3>5. Located(obj[n])'
        BY <2>1, <3>1, <3>4 DEF Located
      <3>6. b.properties = obj[n].spec.properties => AsAsked(obj[n])'
        BY <2>1, <3>1, <3>4 DEF AsAsked
      <3>7. AsAsked(obj[n]) => b.properties = obj[n].spec.properties
        BY <3>3 DEF AsAsked
      <3>8. pc'[n] = "patchReady" => b.properties = obj[n].spec.properties
        BY <3>1
      <3>9. QED
        BY <2>1, <2>3, <3>5, <3>6, <3>7, <3>8, ReadyEnsures DEF InEnsure, InDelete
    <2>4. QED
      BY <2>1, <2>2, <2>3
  <1>4. CASE CreateBucket(n)
    <2>1. /\ InEnsure(n) /\ UNCHANGED <<api, cache, watch, obj>>
          /\ pc'[n] = "patchReady" /\ cloud' = WithBucketFor(obj[n])
      BY <1>4, InvParts DEF CreateBucket, Proceed, GoTo, InEnsure, TypeOK
    <2>2. obj[n].spec.name \in Buckets
      BY KnownTypes, ObjectFields, InvParts DEF Specs
    <2>3. AsAsked(obj[n])'
      BY <2>1, <2>2, InvParts DEF AsAsked, WithBucketFor, TypeOK
    <2>4. QED
      BY <2>1, <2>3, ReadyEnsures DEF InEnsure, InDelete
  <1>5. CASE UpdateBucket(n)
    <2>1. /\ InEnsure(n) /\ UNCHANGED <<api, cache, watch, obj>> /\ pc[n] = "update"
          /\ pc'[n] = "patchReady" /\ cloud' = WithPropertiesOf(obj[n])
      BY <1>5, InvParts DEF UpdateBucket, Proceed, GoTo, InEnsure, TypeOK
    <2>2. Located(obj[n])
      BY <2>1 DEF Readiness, BucketFollows
    <2>3. AsAsked(obj[n])'
      BY <2>1, <2>2, UpdateSuffices
    <2>4. QED
      BY <2>1, <2>3, ReadyEnsures DEF InEnsure, InDelete
  <1>6. CASE PatchReady(n)
    <2>1. {Want(obj[n])} \in RecordSets
      BY KnownTypes, WantType, InvParts DEF RecordSets
    <2>2. QED
      BY <1>6, <2>1, ReadyPatchStatus DEF PatchReady, environment, Reasons
  <1>7. CASE Report(n)
    <2>1. /\ plan[n].reason # "Reconciled"
          /\ plan[n].reason \in Reasons /\ plan[n].retry \in BOOLEAN
          /\ cache[n].status.recorded \in RecordSets
      BY <1>7, KnownTypes, ObjectFields, InvParts
         DEF Report, Readiness, WorkerFollows, TypeOK, Plans
    <2>2. QED
      BY <1>7, <2>1, ReadyPatchStatus DEF Report, environment
  <1>8. CASE PrepareDelete(n)
    <2>1. CASE \E retry \in BOOLEAN : Return(n, retry)
      BY <1>8, <2>1, ReadyReturns DEF Return, PrepareDelete, environment
    <2>2. CASE ~\E retry \in BOOLEAN : Return(n, retry)
      <3>1. \/ Proceed(n, "release") \/ Proceed(n, "deleteObjects")
            \/ Reporting(n, "RemoveFinalizerError", FALSE)
        BY <1>8, <2>2 DEF PrepareDelete, PollWhileReferenced
      <3>2. /\ UNCHANGED <<api, cache, watch, obj>>
            /\ pc'[n] \in {"release", "deleteObjects", "report"}
            /\ pc'[n] = "report" => plan'[n].reason = "RemoveFinalizerError"
        BY <3>1, InvParts DEF Proceed, Reporting, GoTo, TypeOK
      <3>3. InDelete(n)
        BY <1>8 DEF PrepareDelete, InDelete
      <3>4. QED
        BY <3>2, <3>3, ReadyEnsures DEF InEnsure, InDelete
    <2>3. QED
      BY <2>1, <2>2
  <1>9. CASE DeleteObjects(n) \/ DeleteBucket(n)
    <2>1. /\ InDelete(n) /\ UNCHANGED <<api, cache, watch, obj>>
          /\ pc'[n] \in {"deleteBucket", "release", "report"}
          /\ pc'[n] = "report" => plan'[n].reason = "DeleteError"
      BY <1>9, InvParts
         DEF DeleteObjects, DeleteBucket, Proceed, Reporting, GoTo, InDelete, TypeOK
    <2>2. QED
      BY <2>1, ReadyEnsures DEF InEnsure, InDelete
  <1>10. CASE RemoveFinalizer(n)
    BY <1>10, ReadyRemoveFinalizer
  <1>11. QED
    BY <1>1, <1>2, <1>3, <1>4, <1>5, <1>6, <1>7, <1>8, <1>9, <1>10 DEF Reconcile

LEMMA ReadyCloudCallFails ==
    ASSUME Inv, NEW n \in Resources, Readiness(n), CloudCallFails(n)
    PROVE  Readiness(n)'
  <1>1. /\ UNCHANGED <<api, cache, watch, obj>>
        /\ pc'[n] = "report" /\ plan'[n].reason \in {"EnsureError", "DeleteError"}
        /\ InEnsure(n) \/ InDelete(n)
    BY InvParts DEF CloudCallFails, Reporting, GoTo, InEnsure, InDelete, TypeOK
  <1>2. ASSUME InEnsure(n), AsAsked(obj[n]) PROVE AsAsked(obj[n])'
    <2>1. pc[n] \in {"get", "create", "update"}
      BY <1>2 DEF CloudCallFails, InEnsure
    <2>2. \/ UNCHANGED cloud
          \/ cloud' = WithBucketFor(obj[n])
          \/ cloud' = WithPropertiesOf(obj[n])
      BY <2>1 DEF CloudCallFails
    <2>3. obj[n].spec.name \in Buckets
      BY KnownTypes, ObjectFields, InvParts DEF Specs
    <2>4. CASE UNCHANGED cloud
      BY <1>1, <1>2, <2>4 DEF AsAsked
    <2>5. CASE cloud' = WithBucketFor(obj[n])
      BY <1>1, <2>3, <2>5, InvParts DEF AsAsked, WithBucketFor, TypeOK
    <2>6. CASE cloud' = WithPropertiesOf(obj[n])
      BY <1>1, <1>2, <2>6, UpdateSuffices DEF AsAsked, Located
    <2>7. QED
      BY <2>2, <2>4, <2>5, <2>6
  <1>3. QED
    BY <1>1, <1>2, ReadyEnsures DEF InEnsure, InDelete

-------------------------------------------------------------------------------
(* The steps for other resources. *)

\* What a step for m leaves of n's variables.
LEMMA OthersKeep ==
    ASSUME TypeOK, NEW n \in Resources, NEW m \in Resources, m # n,
           \/ User(m) \/ ReferencesChange(m) \/ Deliver(m) \/ Start(m) \/ Reconcile(m)
           \/ ApiCallFails(m) \/ CloudCallFails(m)
    PROVE  Untouched(n)
  <1> USE DEF Untouched, TypeOK, Commit, Finish, GoTo, environment
  <1>1. CASE User(m)
    BY <1>1 DEF User, Create, Post, EditSpec, Put, RequestDeletion, Delete
  <1>2. CASE ReferencesChange(m)
    BY <1>2 DEF ReferencesChange, Wake
  <1>3. CASE Deliver(m)
    BY <1>3 DEF Deliver, Inform
  <1>4. CASE Start(m)
    BY <1>4 DEF Start, Begin
  <1>5. CASE Reconcile(m)
    <2>1. CASE AddFinalizer(m)
      BY <2>1 DEF AddFinalizer, Claim
    <2>2. CASE Check(m)
      BY <2>2 DEF Check, Proceed, Reporting
    <2>3. CASE Get(m) \/ CreateBucket(m) \/ UpdateBucket(m)
      BY <2>3 DEF Get, CreateBucket, UpdateBucket, Proceed, Reporting
    <2>4. CASE PatchReady(m) \/ Report(m)
      BY <2>4 DEF PatchReady, Report, Patch, PatchStatus, SendPatch
    <2>5. CASE PrepareDelete(m)
      BY <2>5 DEF PrepareDelete, PollWhileReferenced, Return, Proceed, Reporting
    <2>6. CASE DeleteObjects(m) \/ DeleteBucket(m)
      BY <2>6 DEF DeleteObjects, DeleteBucket, Proceed, Reporting
    <2>7. CASE RemoveFinalizer(m)
      BY <2>7 DEF RemoveFinalizer, Release
    <2>8. QED
      BY <1>5, <2>1, <2>2, <2>3, <2>4, <2>5, <2>6, <2>7 DEF Reconcile
  <1>6. CASE ApiCallFails(m)
    BY <1>6 DEF ApiCallFails, Return
  <1>7. CASE CloudCallFails(m)
    BY <1>7 DEF CloudCallFails, Reporting
  <1>8. QED
    BY <1>1, <1>2, <1>3, <1>4, <1>5, <1>6, <1>7

LEMMA OthersStay ==
    ASSUME Inv, DistinctNames, NEW n \in Resources, NEW m \in Resources, m # n,
           \/ User(m) \/ ReferencesChange(m) \/ Deliver(m) \/ Start(m) \/ Reconcile(m)
           \/ ApiCallFails(m) \/ CloudCallFails(m),
           NEW x \in NamesOf(n)
    PROVE  cloud'[x] = cloud[x]
  <1>1. x \in Buckets /\ cloud \in [Buckets -> {{}} \union {{b} : b \in Contents}]
    BY BucketsAreTaken, InvParts DEF TypeOK
  <1>2. \A y \in NamesOf(m) : y # x
    BY DEF DistinctNames
  <1>3. pc[m] # "idle" => obj[m].spec.name # x
    BY <1>2, InvParts DEF WorkerInv, KeepsToNames, OwnNames
  <1>4. pc[m] \in {"deleteObjects", "deleteBucket"} => NameForDelete(obj[m]) # x
    BY <1>2, NameForDeleteIsOwn
  <1>5. CASE UNCHANGED cloud
    BY <1>5
  <1>6. CASE Reconcile(m) /\ cloud' # cloud
    <2>1. CASE Get(m) \/ CreateBucket(m) \/ UpdateBucket(m)
      BY <1>1, <1>3, <2>1 DEF Get, CreateBucket, UpdateBucket, WithBucketFor, WithPropertiesOf
    <2>2. CASE DeleteObjects(m) \/ DeleteBucket(m)
      BY <1>1, <1>4, <2>2 DEF DeleteObjects, DeleteBucket
    <2>3. QED
      BY <1>6, <2>1, <2>2
         DEF Reconcile, AddFinalizer, Check, PatchReady, Report, PrepareDelete,
             RemoveFinalizer, environment
  <1>7. CASE CloudCallFails(m)
    <2>1. CASE pc[m] \in {"get", "create", "update"}
      <3>1. cloud' = cloud \/ cloud' = WithBucketFor(obj[m]) \/ cloud' = WithPropertiesOf(obj[m])
        BY <1>7, <2>1 DEF CloudCallFails
      <3>2. QED
        BY <1>1, <1>3, <2>1, <3>1 DEF WithBucketFor, WithPropertiesOf
    <2>2. CASE pc[m] \in {"deleteObjects", "deleteBucket"}
      <3> DEFINE y == NameForDelete(obj[m])
      <3>1. \/ cloud' = cloud
            \/ cloud' = [cloud EXCEPT ![y] = {[b EXCEPT !.objects = FALSE] : b \in @}]
            \/ cloud' = [cloud EXCEPT ![y] = {b \in @ : b.objects}]
        BY <1>7, <2>2 DEF CloudCallFails
      <3>2. y # x
        BY <1>4, <2>2
      <3> HIDE DEF y
      <3>3. QED
        BY <1>1, <3>1, <3>2
    <2>3. QED
      BY <1>7, <2>1, <2>2 DEF CloudCallFails
  <1>8. QED
    BY <1>5, <1>6, <1>7
       DEF User, Create, EditSpec, RequestDeletion, ReferencesChange, Deliver, Start,
           ApiCallFails, environment

LEMMA ReadyStep ==
    ASSUME Inv, DistinctNames, NEW n \in Resources, Readiness(n), [Next]_vars
    PROVE  Readiness(n)'
  <1>1. CASE UNCHANGED <<api, cache, watch, pc, obj, plan, cloud>>
    BY <1>1, ReadyUntouched DEF Untouched, Stays
  <1>2. CASE ReferencesChange(n) \/ ProviderChanges \/ UNCHANGED vars
    BY <1>1, <1>2 DEF ReferencesChange, ProviderChanges, Wake, vars
  <1>3. ASSUME NEW x \in Buckets, WriteObject(x) PROVE Readiness(n)'
    <2>1. Untouched(n)
      BY <1>3 DEF WriteObject, Wake, Untouched
    <2>2. PICK b \in cloud[x] : cloud' = [cloud EXCEPT ![x] = {[b EXCEPT !.objects = TRUE]}]
      BY <1>3 DEF WriteObject
    <2>3. cloud[x] = {b} /\ b \in Contents
      BY <2>2, InvParts DEF TypeOK
    <2> DEFINE d == [b EXCEPT !.objects = TRUE]
    <2>4. d.taken = b.taken /\ d.location = b.location /\ d.properties = b.properties
      BY <2>3 DEF Contents
    <2> HIDE DEF d
    <2>5. \A y \in Buckets : Stays(y)
      BY <2>2, <2>3, <2>4, InvParts DEF Stays, TypeOK, d
    <2>6. QED
      BY <2>1, <2>5, BucketsAreTaken, ReadyUntouched
  <1>4. CASE ApiCallFails(n)
    BY <1>4, ReadyReturns DEF ApiCallFails, Return, environment
  <1>5. ASSUME NEW m \in Resources, m # n,
               \/ User(m) \/ ReferencesChange(m) \/ Deliver(m) \/ Start(m) \/ Reconcile(m)
               \/ ApiCallFails(m) \/ CloudCallFails(m)
        PROVE  Readiness(n)'
    <2>1. Untouched(n)
      BY <1>5, OthersKeep, InvParts
    <2>2. \A x \in NamesOf(n) : Stays(x)
      BY <1>5, OthersStay DEF Stays
    <2>3. QED
      BY <2>1, <2>2, ReadyUntouched
  <1>6. QED
    BY <1>2, <1>3, <1>4, <1>5, ReadyUser, ReadyDeliver, ReadyStart, ReadyReconcile,
       ReadyCloudCallFails, ReadyCrash DEF Next

\* A bucket whose resource is Ready for its current generation is in the cloud, where
\* and as the spec asks: what reconciles, users and failures do in between, on however
\* old a cached copy, does not take it away, for resources with names of their own.
THEOREM ReadyConfigures == DistinctNames => (Spec => []ReadyMeansConfigured)
  <1> DEFINE AllReady == \A n \in Resources : Readiness(n)
  <1> SUFFICES ASSUME DistinctNames PROVE Spec => []ReadyMeansConfigured
    OBVIOUS
  <1>1. Init => Inv /\ AllReady
    BY InvInit, ReadyInit
  <1>2. (Inv /\ AllReady) /\ [Next]_vars => (Inv /\ AllReady)'
    BY InvStep, ReadyStep
  <1>3. AllReady => ReadyMeansConfigured
    BY DEF Readiness, BucketFollows, Obliging, ReadyMeansConfigured
  <1> HIDE DEF AllReady
  <1>4. QED
    BY <1>1, <1>2, <1>3, PTL DEF Spec
===============================================================================
