------------------------- MODULE BucketProvider_proofs -------------------------
(***************************************************************************)
(* Proofs about EnsureBucket and about the deletion of a bucket by a       *)
(* provider: for every set of objects, size of the pool, capacity of the   *)
(* semaphore, number of faults and set of specs.                           *)
(***************************************************************************)
EXTENDS BucketProvider, FiniteSetTheorems, TLAPS

PCs == DeletionPCs \union {"idle", "get", "create", "update"}

\* Tasks are of objects that were shown, each in one place; there are none before
\* the listing and none after the pool has stopped.
TasksInv ==
    /\ waiting \union running \subseteq shown
    /\ waiting \intersect running = {} /\ unlisted \intersect shown = {}
    /\ pc \notin {"list", "stopWait"} => waiting = {} /\ running = {}
    /\ SemaphoreCounts

\* As long as nothing failed, what was shown and is still there has a task.
ListingInv ==
    /\ pc = "open" => shown = {}
    /\ pc \in {"list", "stopWait"} /\ ~failed =>
         shown \intersect objects \subseteq waiting \union running
    /\ ListedAreDeleted

\* The session has a live key from its opening to the Cleanup, and at no other time.
KeyInv ==
    /\ pc \in PCs \ {"list", "stopWait", "deleteBucket", "cleanup"} => key = "none"
    /\ pc = "list" /\ cloud = "yc" => key = "live"
    /\ TasksEndWithTheCall
    /\ faults <= MaxFaults /\ lost <= MaxFaults - faults

Inv == DeletionTypeOK /\ pc \in PCs /\ TasksInv /\ ListingInv /\ KeyInv

-------------------------------------------------------------------------------
(* The pool is finite, and what a step does to the number of its tasks. *)

LEMMA TasksAreFinite ==
    ASSUME NEW T \in SUBSET Objects
    PROVE  IsFiniteSet(T) /\ Cardinality(T) \in Nat
  BY DeletionAssumption, FS_Subset, FS_CardinalityType

LEMMA OneMore ==
    ASSUME NEW T \in SUBSET Objects, NEW o \in Objects, o \notin T
    PROVE  Cardinality(T \union {o}) = Cardinality(T) + 1
  BY TasksAreFinite, FS_AddElement

LEMMA OneLess ==
    ASSUME NEW T \in SUBSET Objects, NEW o \in T
    PROVE  Cardinality(T \ {o}) = Cardinality(T) - 1
  BY TasksAreFinite, FS_RemoveElement

-------------------------------------------------------------------------------

LEMMA InitInv == Init => Inv
  <1> SUFFICES ASSUME Init PROVE Inv
    OBVIOUS
  <1> USE DEF Init, DeletionInit
  <1>1. Cardinality({}) = 0
    BY FS_EmptySet
  <1>2. cloud \in {"gcp", "yc"} /\ failed \in BOOLEAN
    BY ProviderAssumption
  <1>3. DeletionTypeOK /\ pc \in PCs
    BY <1>2, DeletionAssumption DEF DeletionTypeOK, PCs, DeletionPCs
  <1>4. TasksInv
    BY <1>1, DeletionAssumption DEF TasksInv, SemaphoreCounts
  <1>5. ListingInv
    BY DEF ListingInv, ListedAreDeleted
  <1>6. KeyInv
    BY DeletionAssumption DEF KeyInv, PCs, DeletionPCs, TasksEndWithTheCall
  <1>7. QED
    BY <1>3, <1>4, <1>5, <1>6 DEF Inv

\* EnsureBucket and the user leave objects, tasks and session alone.
Elsewhere ==
    /\ UNCHANGED <<cloud, objects, session, listing, pool, failed, result, writes>>
    /\ pc \in PCs \ DeletionPCs /\ pc' \in PCs \ DeletionPCs
    /\ bucket' \in {bucket, "there"}
    /\ faults' = faults \/ SpendFault

LEMMA EnsureIsElsewhere ==
    Inv /\ (EditSpec \/ RequestDeletion \/ Ensure \/ EnsureFails) => Elsewhere
  <1> SUFFICES ASSUME Inv, EditSpec \/ RequestDeletion \/ Ensure \/ EnsureFails
               PROVE  Elsewhere
    OBVIOUS
  <1> USE DEF Inv, PCs, DeletionPCs, Elsewhere, Goto, Outcome, session, listing, pool
  <1>1. CASE EditSpec \/ RequestDeletion
    BY <1>1 DEF EditSpec, RequestDeletion, deletionVars
  <1>2. CASE Ensure
    BY <1>2 DEF Ensure, Admit, Get, Create, Update
  <1>3. CASE EnsureFails
    BY <1>3 DEF EnsureFails, SpendFault
  <1>4. QED
    BY <1>1, <1>2, <1>3

LEMMA ElsewhereKeepsInv == Inv /\ Elsewhere => Inv'
  BY DeletionAssumption
  DEF Inv, PCs, DeletionPCs, Elsewhere, SpendFault, session, listing, pool, TasksInv, ListingInv,
      KeyInv, DeletionTypeOK, SemaphoreCounts, TasksEndWithTheCall, ListedAreDeleted

-------------------------------------------------------------------------------
(* The goroutine, the pool and the faults. *)

LEMMA TypesKept == Inv /\ (BeginDeletion \/ DeletionNext) => DeletionTypeOK' /\ pc' \in PCs
  <1> SUFFICES ASSUME Inv, BeginDeletion \/ DeletionNext
               PROVE  DeletionTypeOK' /\ pc' \in PCs
    OBVIOUS
  <1> USE DeletionAssumption
      DEF Inv, DeletionTypeOK, PCs, DeletionPCs, SpendFault, session, listing, pool
  <1>0. failed' \in BOOLEAN
    BY DEF BeginDeletion, DeletionNext, WriteObject, Goroutine, Pool, Failure, Crash, OpenSession,
           ListNext, ListEnds, StopWait, DeleteEmptyBucket, Cleanup, StartTask, DeleteObject,
           OpenFails, ListFails, DeleteBucketFails, CleanupFails, DeleteObjectFails
  <1>1. CASE BeginDeletion
    BY <1>1 DEF BeginDeletion, Listing
  <1>2. CASE WriteObject
    BY <1>2 DEF WriteObject
  <1>3. CASE Goroutine
    <2>0. CASE ListNext
      BY <2>0 DEF ListNext
    <2>1. CASE OpenSession \/ ListEnds
      BY <1>0, <2>1 DEF OpenSession, Listing, ListEnds
    <2>2. CASE StopWait \/ DeleteEmptyBucket \/ Cleanup
      BY <2>2 DEF StopWait, AfterPool, DeleteEmptyBucket, Cleanup
    <2>3. QED
      BY <1>3, <2>0, <2>1, <2>2 DEF Goroutine
  <1>4. sem > 0 \/ running = {}
    <2>1. ASSUME NEW o \in running PROVE Cardinality(running) > 0
      <3>1. Cardinality(running \ {o}) = Cardinality(running) - 1
        BY OneLess
      <3>2. Cardinality(running \ {o}) \in Nat /\ Cardinality(running) \in Nat
        BY TasksAreFinite
      <3>3. QED
        BY <3>1, <3>2
    <2>2. Cardinality(waiting) \in Nat /\ Cardinality(running) \in Nat
      BY TasksAreFinite
    <2>3. QED
      BY <2>1, <2>2 DEF TasksInv, SemaphoreCounts
  <1>5. CASE Pool
    BY <1>4, <1>5 DEF Pool, StartTask, DeleteObject
  <1>6. CASE Failure
    <2>1. CASE OpenFails \/ ListFails \/ DeleteBucketFails \/ CleanupFails
      BY <1>0, <2>1 DEF OpenFails, ListFails, DeleteBucketFails, CleanupFails
    <2>2. CASE DeleteObjectFails
      BY <1>4, <2>2 DEF DeleteObjectFails
    <2>3. QED
      BY <1>6, <2>1, <2>2 DEF Failure
  <1>7. CASE Crash
    BY <1>7, <1>0 DEF Crash
  <1>8. QED
    BY <1>1, <1>2, <1>3, <1>5, <1>6, <1>7 DEF DeletionNext

LEMMA TasksKept == Inv /\ (BeginDeletion \/ DeletionNext) => TasksInv'
  <1> SUFFICES ASSUME Inv, BeginDeletion \/ DeletionNext
               PROVE  TasksInv'
    OBVIOUS
  <1> USE DEF Inv, DeletionTypeOK, TasksInv, SemaphoreCounts, session, listing, pool
  <1>1. Cardinality({}) = 0 /\ Capacity \in Nat \ {0} /\ Workers \in Nat \ {0}
    BY FS_EmptySet, DeletionAssumption
  <1>2. Cardinality(waiting) \in Nat /\ Cardinality(running) \in Nat
    BY TasksAreFinite
  <1>3. CASE ListNext
    <2>1. PICK o \in unlisted : /\ waiting' = waiting \union {o} /\ unlisted' = unlisted \ {o}
                                /\ shown' = shown \union {o}
      BY <1>3 DEF ListNext
    <2>2. Cardinality(waiting') = Cardinality(waiting) + 1
      BY <2>1, OneMore
    <2>3. QED
      BY <1>1, <1>2, <1>3, <2>1, <2>2 DEF ListNext
  <1>4. CASE StartTask
    <2>1. PICK o \in waiting : running' = running \union {o} /\ waiting' = waiting \ {o}
      BY <1>4 DEF StartTask
    <2>2. Cardinality(running') = Cardinality(running) + 1
      BY <2>1, OneMore
    <2>3. Cardinality(waiting') = Cardinality(waiting) - 1
      BY <2>1, OneLess
    <2>4. QED
      BY <1>1, <1>2, <1>4, <2>1, <2>2, <2>3 DEF StartTask
  <1>5. CASE DeleteObject \/ DeleteObjectFails
    <2>1. PICK o \in running : running' = running \ {o}
      BY <1>5 DEF DeleteObject, DeleteObjectFails
    <2>2. Cardinality(running') = Cardinality(running) - 1
      BY <2>1, OneLess
    <2>3. QED
      BY <1>1, <1>2, <1>5, <2>1, <2>2 DEF DeleteObject, DeleteObjectFails
  <1>6. CASE WriteObject
    BY <1>6 DEF WriteObject
  <1>7. CASE BeginDeletion
    BY <1>7 DEF BeginDeletion, Listing
  <1>8. CASE OpenSession \/ ListEnds \/ StopWait \/ DeleteEmptyBucket \/ Cleanup
    BY <1>8
    DEF OpenSession, Listing, ListEnds, StopWait, AfterPool, DeleteEmptyBucket, Cleanup,
        ListingInv
  <1>9. CASE OpenFails \/ ListFails \/ DeleteBucketFails \/ CleanupFails
    BY <1>9 DEF OpenFails, ListFails, DeleteBucketFails, CleanupFails
  <1>10. CASE Crash
    BY <1>1, <1>10 DEF Crash
  <1>11. QED
    BY <1>3, <1>4, <1>5, <1>6, <1>7, <1>8, <1>9, <1>10 DEF DeletionNext, Goroutine, Pool, Failure

LEMMA ListingKept == Inv /\ (BeginDeletion \/ DeletionNext) => ListingInv'
  <1> SUFFICES ASSUME Inv, BeginDeletion \/ DeletionNext
               PROVE  ListingInv'
    OBVIOUS
  <1> USE DEF Inv, DeletionTypeOK, ListingInv, ListedAreDeleted, TasksInv, session, listing, pool
  <1>1. CASE BeginDeletion
    BY <1>1 DEF BeginDeletion, Listing
  <1>2. CASE WriteObject
    BY <1>2 DEF WriteObject
  <1>3. CASE OpenSession \/ ListNext \/ ListEnds
    BY <1>3 DEF OpenSession, Listing, ListNext, ListEnds
  <1>4. CASE StopWait \/ DeleteEmptyBucket \/ Cleanup
    BY <1>4 DEF StopWait, AfterPool, DeleteEmptyBucket, Cleanup
  <1>5. CASE Pool
    BY <1>5 DEF Pool, StartTask, DeleteObject
  <1>6. CASE Failure
    BY <1>6
    DEF Failure, OpenFails, ListFails, DeleteBucketFails, CleanupFails, DeleteObjectFails
  <1>7. CASE Crash
    BY <1>7 DEF Crash
  <1>8. QED
    BY <1>1, <1>2, <1>3, <1>4, <1>5, <1>6, <1>7 DEF DeletionNext, Goroutine

LEMMA KeyKept == Inv /\ (BeginDeletion \/ DeletionNext) => KeyInv'
  <1> SUFFICES ASSUME Inv, BeginDeletion \/ DeletionNext
               PROVE  KeyInv'
    OBVIOUS
  <1> USE DeletionAssumption
      DEF Inv, PCs, DeletionPCs, DeletionTypeOK, KeyInv, TasksEndWithTheCall, TasksInv,
          SpendFault, session, listing, pool
  <1>1. CASE BeginDeletion
    BY <1>1 DEF BeginDeletion, Listing
  <1>2. CASE WriteObject
    BY <1>2 DEF WriteObject
  <1>3. CASE OpenSession \/ ListNext \/ ListEnds
    BY <1>3 DEF OpenSession, Listing, ListNext, ListEnds
  <1>4. CASE StopWait \/ DeleteEmptyBucket \/ Cleanup
    BY <1>4 DEF StopWait, AfterPool, DeleteEmptyBucket, Cleanup
  <1>5. CASE Pool
    BY <1>5 DEF Pool, StartTask, DeleteObject
  <1>6. CASE OpenFails \/ ListFails \/ DeleteObjectFails
    BY <1>6 DEF OpenFails, ListFails, DeleteObjectFails
  <1>7. CASE DeleteBucketFails \/ CleanupFails
    BY <1>7 DEF DeleteBucketFails, CleanupFails
  <1>8. CASE Crash
    BY <1>8 DEF Crash
  <1>9. QED
    BY <1>1, <1>2, <1>3, <1>4, <1>5, <1>6, <1>7, <1>8 DEF DeletionNext, Goroutine, Failure

-------------------------------------------------------------------------------

LEMMA NextKeepsInv == Inv /\ [Next]_vars => Inv'
  <1> SUFFICES ASSUME Inv, [Next]_vars
               PROVE  Inv'
    OBVIOUS
  <1>1. CASE EditSpec \/ RequestDeletion \/ Ensure \/ EnsureFails
    BY <1>1, EnsureIsElsewhere, ElsewhereKeepsInv
  <1>2. CASE Delete \/ DeletionNext
    <2>1. BeginDeletion \/ DeletionNext
      BY <1>2 DEF Delete
    <2>2. QED
      BY <2>1, TypesKept, TasksKept, ListingKept, KeyKept DEF Inv
  <1>3. CASE UNCHANGED vars
    BY <1>3
    DEF vars, deletionVars, session, listing, pool, Inv, TasksInv, ListingInv, KeyInv,
        DeletionTypeOK, SemaphoreCounts, TasksEndWithTheCall, ListedAreDeleted
  <1>4. QED
    BY <1>1, <1>2, <1>3 DEF Next

LEMMA InvAlways == Spec => []Inv
  BY InitInv, NextKeepsInv, PTL DEF Spec

\* The state of a deletion has its types, and a bucket that is gone holds nothing.
THEOREM DeletionTypes == Spec => []DeletionTypeOK
  <1>1. Inv => DeletionTypeOK
    BY DEF Inv
  <1>2. QED
    BY <1>1, InvAlways, PTL

\* The slots that are taken are the tasks that are not done, however tasks end, and
\* the semaphore and the pool stay within their limits.
THEOREM SlotsAreTasks == Spec => []SemaphoreCounts
  <1>1. Inv => SemaphoreCounts
    BY DEF Inv, TasksInv
  <1>2. QED
    BY <1>1, InvAlways, PTL

\* StopWait leaves no task behind, and tasks on yc have their key.
THEOREM NoTaskOutlivesItsCall == Spec => []TasksEndWithTheCall
  <1>1. Inv => TasksEndWithTheCall
    BY DEF Inv, KeyInv
  <1>2. QED
    BY <1>1, InvAlways, PTL

\* No error of a worker gets lost: the bucket is only deleted when every object that
\* was listed is.
THEOREM BucketGoesLast == Spec => []ListedAreDeleted
  <1>1. Inv => ListedAreDeleted
    BY DEF Inv, ListingInv
  <1>2. QED
    BY <1>1, InvAlways, PTL

\* Temporary keys stay behind through faults only, one for each.
THEOREM KeysLeakByFaultsOnly == Spec => []KeysAreAccountedFor
  <1>1. Inv => KeysAreAccountedFor
    BY DEF Inv, KeyInv, PCs, DeletionPCs, KeysAreAccountedFor
  <1>2. QED
    BY <1>1, InvAlways, PTL
-------------------------------------------------------------------------------
(* Specs and settings: the conversions field by field. *)

Fields == {"location", "class", "labels", "versioning", "pap", "lifecycle", "soft"}

Classes == {"Standard", "Cold", "Ice", "Warm"}

Softs == {"unset", "default", "other", "ycBlock"}

LEMMA FieldsOfSpecs ==
    ASSUME NEW s \in BucketSpecs
    PROVE  /\ DOMAIN s = Fields
           /\ s.location \in Locations /\ s.class \in Classes /\ s.labels \in {"none", "some"}
           /\ s.versioning \in Switch /\ s.pap \in Switch /\ s.soft \in Softs
           /\ s.lifecycle \in Lifecycles
  BY DEF BucketSpecs, Fields, Classes, Softs

LEMMA PartsOfLifecycles ==
    ASSUME NEW l \in Lifecycles
    PROVE  /\ DOMAIN l = {"set", "rules"}
           /\ l.set \in BOOLEAN /\ l.rules \in SUBSET Rules
           /\ ~l.set => l.rules = {}
  <1>1. CASE l = [set |-> FALSE, rules |-> {}]
    BY <1>1
  <1>2. CASE l \in [set: {TRUE}, rules: SUBSET Rules]
    BY <1>2
  <1>3. QED
    BY <1>1, <1>2 DEF Lifecycles

LEMMA SomeLifecycles ==
    ASSUME NEW R \in SUBSET Rules
    PROVE  [set |-> TRUE, rules |-> R] \in Lifecycles
  BY DEF Lifecycles

LEMMA SameLifecycle ==
    ASSUME NEW l \in Lifecycles, NEW m \in Lifecycles, l.set <=> m.set, l.rules = m.rules
    PROVE  l = m
  <1>1. ASSUME NEW n \in Lifecycles PROVE n = [set |-> n.set, rules |-> n.rules]
    <2>1. CASE n = [set |-> FALSE, rules |-> {}]
      BY <2>1
    <2>2. CASE n \in [set: {TRUE}, rules: SUBSET Rules]
      BY <2>2
    <2>3. QED
      BY <2>1, <2>2 DEF Lifecycles
  <1>2. l.set = m.set
    BY PartsOfLifecycles
  <1>3. l = [set |-> l.set, rules |-> l.rules] /\ m = [set |-> m.set, rules |-> m.rules]
    BY <1>1
  <1>4. QED
    BY <1>2, <1>3

\* What the spec asks for, in the form the provider compares.
LEMMA DesiredFields ==
    ASSUME NEW s \in BucketSpecs
    PROVE  /\ Desired(s) \in BucketSpecs
           /\ Desired(s).location = s.location /\ Desired(s).class = s.class
           /\ Desired(s).labels = s.labels
           /\ cloud = "yc" => Desired(s) = s
           /\ cloud = "gcp" =>
                /\ Desired(s).versioning = IF s.versioning = "unset" THEN "off" ELSE s.versioning
                /\ Desired(s).pap = IF s.pap = "unset" THEN "off" ELSE s.pap
                /\ Desired(s).soft = IF s.soft = "unset" THEN "default" ELSE s.soft
                /\ Desired(s).lifecycle.set
                /\ Desired(s).lifecycle.rules = {r \in s.lifecycle.rules : r.enabled}
  <1> DEFINE R == {r \in s.lifecycle.rules : r.enabled}
  <1>1. R \in SUBSET Rules
    BY FieldsOfSpecs, PartsOfLifecycles
  <1>2. [set |-> TRUE, rules |-> R] \in Lifecycles
    BY <1>1, SomeLifecycles
  <1>3. Normalized(s) \in BucketSpecs
    BY <1>2, FieldsOfSpecs DEF Normalized, BucketSpecs, Switch
  <1>4. QED
    BY <1>3, FieldsOfSpecs DEF Desired, Normalized, Fields

\* And what a bucket that is made from it has.
LEMMA ToCloudFields ==
    ASSUME NEW s \in BucketSpecs
    PROVE  /\ ToCloud(s) \in BucketSpecs
           /\ ToCloud(s).class = s.class /\ ToCloud(s).labels = s.labels
           /\ ToCloud(s).versioning = s.versioning /\ ToCloud(s).pap = s.pap
           /\ ToCloud(s).soft = IF cloud = "yc" THEN "unset" ELSE s.soft
           /\ ToCloud(s).lifecycle.set
           /\ ToCloud(s).lifecycle.rules =
                {r \in s.lifecycle.rules : IF cloud = "yc" THEN r.aged ELSE Active(r)}
  <1> DEFINE R == {r \in s.lifecycle.rules : IF cloud = "yc" THEN r.aged ELSE Active(r)}
  <1>1. R \in SUBSET Rules
    BY FieldsOfSpecs, PartsOfLifecycles
  <1>2. [set |-> TRUE, rules |-> R] \in Lifecycles
    BY <1>1, SomeLifecycles
  <1>3. ToCloudLifecycle(s.lifecycle) = [set |-> TRUE, rules |-> R]
    BY DEF ToCloudLifecycle
  <1>4. ToCloud(s) \in BucketSpecs
    BY <1>2, <1>3, FieldsOfSpecs, ProviderAssumption DEF ToCloud, BucketSpecs
  <1>5. QED
    BY <1>3, <1>4, FieldsOfSpecs DEF ToCloud, Fields

\* What the provider reads back.
LEMMA FromCloudFields ==
    ASSUME NEW c \in BucketSpecs
    PROVE  /\ DOMAIN FromCloud(c) = Fields
           /\ \A f \in Fields \ {"lifecycle"} : FromCloud(c)[f] = c[f]
           /\ FromCloud(c).lifecycle \in Lifecycles
           /\ FromCloud(c).lifecycle.set = (cloud = "gcp" \/ c.lifecycle.rules # {})
           /\ FromCloud(c).lifecycle.rules = c.lifecycle.rules
  <1> DEFINE on == cloud = "gcp" \/ c.lifecycle.rules # {}
             l == [c.lifecycle EXCEPT !.set = on]
  <1>1. FromCloud(c) = [c EXCEPT !.lifecycle = l]
    BY FieldsOfSpecs DEF FromCloud, Fields
  <1>2. l = [set |-> on, rules |-> c.lifecycle.rules]
    BY FieldsOfSpecs, PartsOfLifecycles
  <1>3. l \in Lifecycles
    <2>1. CASE on
      <3>1. l = [set |-> TRUE, rules |-> c.lifecycle.rules]
        BY <1>2, <2>1
      <3>2. QED
        BY <3>1, FieldsOfSpecs, PartsOfLifecycles, SomeLifecycles
    <2>2. CASE ~on
      BY <1>2, <2>2 DEF Lifecycles
    <2>3. QED
      BY <2>1, <2>2
  <1>4. QED
    BY <1>1, <1>2, <1>3, FieldsOfSpecs DEF Fields

-------------------------------------------------------------------------------
(* What a field of the bucket shows of the spec. *)

\* Field f of the settings c is what the spec s asks for: as it is read back, or as it
\* was sent; versioning that was on is suspended on yc.
Shows(c, s, f) ==
    \/ FromCloud(c)[f] = Desired(s)[f]
    \/ c[f] = ToCloud(Desired(s))[f]
    \/ /\ cloud = "yc" /\ f = "versioning"
       /\ s.versioning = "unset" /\ c.versioning = "off"

\* Yandex knows neither public access prevention nor soft delete.
OfItsCloud(c) == cloud = "yc" => c.pap = "unset" /\ c.soft = "unset"

LEMMA PatchedFields ==
    ASSUME NEW s \in BucketSpecs, settings \in BucketSpecs
    PROVE  /\ Patched(s) \in BucketSpecs
           /\ \A f \in Compared : Shows(Patched(s), s, f)
           /\ \A f \in Fields \ Compared : Patched(s)[f] = settings[f]
  <1> DEFINE new == ToCloud(Desired(s))
             F(f) == CASE f \notin Differing(s) -> settings[f]
                       [] f \in Differing(s) /\ f = "versioning" /\ cloud = "yc"
                                             /\ new.versioning = "unset" -> "off"
                       [] OTHER -> new[f]
  <1>1. new \in BucketSpecs
    BY DesiredFields, ToCloudFields
  <1>2. Patched(s) = [f \in Fields |-> F(f)]
    BY FieldsOfSpecs DEF Patched
  <1>3. \A f \in Fields : F(f) \in {settings[f], new[f]} \/ (f = "versioning" /\ F(f) = "off")
    OBVIOUS
  <1>4. Patched(s) \in BucketSpecs
    <2> DEFINE p == Patched(s)
    <2> HIDE DEF F, new
    <2>1. p.location \in Locations /\ p.class \in Classes /\ p.labels \in {"none", "some"}
      BY <1>1, <1>2, <1>3, FieldsOfSpecs DEF Fields
    <2>2. p.versioning \in Switch /\ p.pap \in Switch /\ p.soft \in Softs
      BY <1>1, <1>2, <1>3, FieldsOfSpecs DEF Fields, Switch
    <2>3. p.lifecycle \in Lifecycles
      BY <1>1, <1>2, <1>3, FieldsOfSpecs DEF Fields
    <2>4. p = [location |-> p.location, class |-> p.class, labels |-> p.labels,
               versioning |-> p.versioning, pap |-> p.pap, lifecycle |-> p.lifecycle,
               soft |-> p.soft]
      BY <1>2 DEF Fields
    <2>5. QED
      BY <2>1, <2>2, <2>3, <2>4 DEF BucketSpecs, Classes, Softs
  <1>5. \A f \in Fields \ Compared : Patched(s)[f] = settings[f]
    BY <1>2 DEF Differing
  <1>6. ASSUME NEW f \in Compared PROVE Shows(Patched(s), s, f)
    <2>0. f \in Fields
      BY DEF Compared, Fields
    <2>1. CASE f \notin Differing(s)
      <3>1. FromCloud(settings)[f] = Desired(s)[f]
        BY <2>1 DEF Differing
      <3>2. Patched(s)[f] = settings[f]
        BY <1>2, <2>0, <2>1
      <3>3. FromCloud(Patched(s))[f] = FromCloud(settings)[f]
        <4>1. CASE f = "lifecycle"
          BY <1>4, <3>2, <4>1, FromCloudFields, SameLifecycle
        <4>2. CASE f # "lifecycle"
          BY <1>4, <2>0, <3>2, <4>2, FromCloudFields
        <4>3. QED
          BY <4>1, <4>2
      <3>4. QED
        BY <3>1, <3>3 DEF Shows
    <2>2. CASE f \in Differing(s) /\ f = "versioning" /\ cloud = "yc" /\ new.versioning = "unset"
      <3>1. s.versioning = "unset"
        BY <2>2, DesiredFields, ToCloudFields
      <3>2. Patched(s).versioning = "off"
        BY <1>2, <2>0, <2>2
      <3>3. QED
        BY <2>2, <3>1, <3>2 DEF Shows
    <2>3. CASE f \in Differing(s) /\ ~(f = "versioning" /\ cloud = "yc" /\ new.versioning = "unset")
      <3>1. Patched(s)[f] = new[f]
        BY <1>2, <2>0, <2>3
      <3>2. QED
        BY <3>1 DEF Shows
    <2>4. QED
      BY <2>1, <2>2, <2>3
  <1>7. QED
    BY <1>4, <1>5, <1>6
\* A bucket whose every field shows the spec is as the spec says...
LEMMA ShownIsInForce ==
    ASSUME NEW s \in BucketSpecs, NEW c \in BucketSpecs, cloud \in {"gcp", "yc"},
           OfItsCloud(c), ~Unsupported(s), ~Invalid(s),
           \A f \in Compared : Shows(c, s, f)
    PROVE  /\ c.class = s.class /\ c.labels = s.labels
           /\ c.versioning = "on" <=> s.versioning = "on"
           /\ c.pap = "on" <=> s.pap = "on"
           /\ c.soft = "other" <=> s.soft = "other"
           /\ Effect(c.lifecycle) = Effect(s.lifecycle)
  <1> DEFINE d == Desired(s)
  <1>0. d \in BucketSpecs /\ "lifecycle" \in Compared
    BY DesiredFields DEF Compared
  <1>1. \A f \in Compared \ {"lifecycle"} :
          \/ c[f] = d[f] \/ c[f] = ToCloud(d)[f]
          \/ cloud = "yc" /\ f = "versioning" /\ s.versioning = "unset" /\ c.versioning = "off"
    BY FromCloudFields DEF Shows, Compared, Fields
  <1>2. c.lifecycle.rules \in {d.lifecycle.rules, ToCloud(d).lifecycle.rules}
    BY <1>0, FromCloudFields DEF Shows
  <1>3. c.class = s.class /\ c.labels = s.labels
    BY <1>0, <1>1, DesiredFields, ToCloudFields DEF Compared
  <1>4. c.versioning = "on" <=> s.versioning = "on"
    BY <1>0, <1>1, DesiredFields, ToCloudFields DEF Compared
  <1>5. c.pap = "on" <=> s.pap = "on"
    BY <1>0, <1>1, DesiredFields, ToCloudFields DEF Compared, OfItsCloud, Unsupported
  <1>6. c.soft = "other" <=> s.soft = "other"
    BY <1>0, <1>1, DesiredFields, ToCloudFields DEF Compared, OfItsCloud, Invalid
  <1>7. Effect(c.lifecycle) = Effect(s.lifecycle)
    <2>1. CASE cloud = "gcp"
      <3>1. d.lifecycle.rules = {r \in s.lifecycle.rules : r.enabled}
        BY <2>1, DesiredFields
      <3>2. ToCloud(d).lifecycle.rules = {r \in d.lifecycle.rules : Active(r)}
        BY <1>0, <2>1, ToCloudFields
      <3>3. QED
        BY <1>2, <3>1, <3>2 DEF Effect, Active
    <2>2. CASE cloud = "yc"
      <3>1. d.lifecycle.rules = s.lifecycle.rules
        BY <2>2, DesiredFields
      <3>2. ToCloud(d).lifecycle.rules = {r \in d.lifecycle.rules : r.aged}
        BY <1>0, <2>2, ToCloudFields
      <3>3. QED
        BY <1>2, <3>1, <3>2 DEF Effect, Active
    <2>3. QED
      BY <2>1, <2>2
  <1>8. QED
    BY <1>3, <1>4, <1>5, <1>6, <1>7

\* ... and when the cloud can give the spec back, the provider finds no difference.
LEMMA ShownDoesNotDiffer ==
    ASSUME NEW s \in BucketSpecs, settings \in BucketSpecs, cloud \in {"gcp", "yc"},
           Expressible(s), \A f \in Compared : Shows(settings, s, f)
    PROVE  Differing(s) = {}
  <1> DEFINE d == Desired(s)
             c == settings
  <1>0. d \in BucketSpecs
    BY DesiredFields
  <1>1. ASSUME NEW f \in Compared, f # "lifecycle" PROVE FromCloud(c)[f] = d[f]
    <2>1. FromCloud(c)[f] = c[f]
      BY <1>1, FromCloudFields DEF Compared, Fields
    <2>2. ToCloud(d)[f] = d[f]
      BY <1>0, <1>1, ToCloudFields DEF Compared
    <2>3. ~(cloud = "yc" /\ f = "versioning" /\ s.versioning = "unset" /\ c.versioning = "off")
      BY DEF Expressible
    <2>4. QED
      BY <2>1, <2>2, <2>3 DEF Shows
  <1>2. ASSUME c.lifecycle = ToCloud(d).lifecycle PROVE FromCloud(c).lifecycle = d.lifecycle
    <2>0. /\ FromCloud(c).lifecycle \in Lifecycles /\ d.lifecycle \in Lifecycles
          /\ s.lifecycle \in Lifecycles
      BY <1>0, FromCloudFields, FieldsOfSpecs
    <2>1. CASE cloud = "gcp"
      <3>1. /\ d.lifecycle.rules = {r \in s.lifecycle.rules : r.enabled} /\ d.lifecycle.set
            /\ c.lifecycle.rules = {r \in d.lifecycle.rules : Active(r)}
        BY <1>0, <1>2, <2>1, DesiredFields, ToCloudFields
      <3>2. c.lifecycle.rules = d.lifecycle.rules
        BY <3>1 DEF Expressible, Active
      <3>3. FromCloud(c).lifecycle.set /\ FromCloud(c).lifecycle.rules = d.lifecycle.rules
        BY <2>1, <3>2, FromCloudFields
      <3>4. QED
        BY <2>0, <3>1, <3>3, SameLifecycle
    <2>2. CASE cloud = "yc"
      <3>1. d = s /\ c.lifecycle.rules = {r \in s.lifecycle.rules : r.aged}
        BY <1>0, <1>2, <2>2, DesiredFields, ToCloudFields
      <3>2. c.lifecycle.rules = s.lifecycle.rules
        BY <3>1 DEF Expressible
      <3>3. s.lifecycle.set <=> s.lifecycle.rules # {}
        BY <2>0, <2>2, PartsOfLifecycles DEF Expressible
      <3>4. /\ FromCloud(c).lifecycle.rules = s.lifecycle.rules
            /\ FromCloud(c).lifecycle.set <=> s.lifecycle.rules # {}
        BY <2>2, <3>2, FromCloudFields
      <3>5. QED
        BY <2>0, <3>1, <3>3, <3>4, SameLifecycle
    <2>3. QED
      BY <2>1, <2>2
  <1>3. \A f \in Compared : FromCloud(c)[f] = d[f]
    <2>1. ASSUME NEW f \in Compared PROVE FromCloud(c)[f] = d[f]
      BY <1>1, <1>2 DEF Shows
    <2>2. QED
      BY <2>1
  <1>4. QED
    BY <1>3 DEF Differing
-------------------------------------------------------------------------------
(* EnsureBucket: what a reconcile has established when it ends. *)

\* Every setting of the bucket shows the spec.
InForce == \A f \in Compared : Shows(settings, spec, f)

\* Where EnsureBucket stands, and what holds there.
EnsureInv ==
    /\ pc \in {"get", "create", "update"} => ~deleting /\ spec \in Admitted
    /\ pc \in DeletionPCs => deleting
    /\ pc = "create" => bucket = "absent"
    /\ pc = "update" => bucket = "there" /\ Differing(spec) # {}

SettingsInv ==
    /\ cloud \in Clouds
    /\ TypeOK
    /\ OfItsCloud(settings)
    /\ EnsureInv
    /\ outcome = "ready" /\ ~deleting => spec \in Admitted /\ bucket = "there" /\ InForce

LEMMA AskedAreSpecs ==
    ASSUME cloud \in Clouds
    PROVE  Asked[cloud] \subseteq BucketSpecs /\ Admitted \subseteq Asked[cloud]
  BY ProviderAssumption DEF Admitted

\* The settings of a bucket that is made for a spec that was admitted.
LEMMA CreatedFields ==
    ASSUME NEW s \in BucketSpecs, ~Unsupported(s), cloud \in {"gcp", "yc"}
    PROVE  /\ ToCloud(Desired(s)) \in BucketSpecs
           /\ OfItsCloud(ToCloud(Desired(s)))
           /\ \A f \in Compared : Shows(ToCloud(Desired(s)), s, f)
  <1>1. Desired(s) \in BucketSpecs
    BY DesiredFields
  <1>2. OfItsCloud(ToCloud(Desired(s)))
    BY <1>1, DesiredFields, ToCloudFields DEF OfItsCloud, Unsupported
  <1>3. QED
    BY <1>1, <1>2, ToCloudFields DEF Shows

\* What the definitions mean after a step that leaves the cloud as it is.
LEMMA SameCloud ==
    ASSUME cloud' = cloud
    PROVE  /\ Admitted' = Admitted
           /\ OfItsCloud(settings)' <=> OfItsCloud(settings')
           /\ InForce' <=> \A f \in Compared : Shows(settings', spec', f)
           /\ settings' = settings => Differing(spec)' = Differing(spec')
  <1>1. Admitted' = Admitted
    BY DEF Admitted, Unsupported, Invalid
  <1>2. OfItsCloud(settings)' <=> OfItsCloud(settings')
    BY DEF OfItsCloud
  <1>3. InForce' <=> \A f \in Compared : Shows(settings', spec', f)
    BY DEF InForce, Compared, Shows, FromCloud, Desired, Normalized, ToCloud, ToCloudLifecycle
  <1>4. settings' = settings => Differing(spec)' = Differing(spec')
    BY DEF Differing, Compared, FromCloud, Desired, Normalized
  <1>5. QED
    BY <1>1, <1>2, <1>3, <1>4

LEMMA InitSettings == Init => SettingsInv
  <1> SUFFICES ASSUME Init PROVE SettingsInv
    OBVIOUS
  <1>0. DeletionTypeOK /\ cloud \in Clouds /\ cloud \in {"gcp", "yc"} /\ pc = "idle"
    BY InitInv DEF Inv, DeletionTypeOK, Init, DeletionInit
  <1>1. PICK s \in Admitted : settings = ToCloud(Desired(s))
    BY DEF Init
  <1>2. s \in BucketSpecs /\ ~Unsupported(s)
    BY <1>0, AskedAreSpecs DEF Admitted
  <1>3. settings \in BucketSpecs /\ OfItsCloud(settings)
    BY <1>0, <1>1, <1>2, CreatedFields
  <1>4. TypeOK
    BY <1>0, <1>3, ProviderAssumption DEF TypeOK, Init
  <1>5. QED
    BY <1>0, <1>3, <1>4 DEF SettingsInv, EnsureInv, Init, DeletionPCs

\* The steps of a deletion, and what they leave to it.
DeletionStep ==
    /\ UNCHANGED <<cloud, providerVars>>
    /\ pc' = pc \/ pc' = "idle" \/ (pc' \in DeletionPCs /\ deleting)
    /\ bucket' = bucket \/ (deleting /\ pc' = "cleanup")

LEMMA DeletionSteps ==
    Inv /\ SettingsInv /\ (Delete \/ (DeletionNext /\ UNCHANGED providerVars)) => DeletionStep
  <1> SUFFICES ASSUME Inv, SettingsInv, Delete \/ (DeletionNext /\ UNCHANGED providerVars)
               PROVE  DeletionStep
    OBVIOUS
  <1> USE DEF DeletionStep, DeletionPCs, session, listing, pool
  <1>0. UNCHANGED providerVars /\ (pc \in DeletionPCs => deleting)
    BY DEF Delete, SettingsInv, EnsureInv
  <1>1. CASE Delete
    BY <1>0, <1>1 DEF Delete, BeginDeletion, Listing
  <1>2. CASE WriteObject \/ Pool \/ Crash \/ DeleteObjectFails
    BY <1>0, <1>2 DEF WriteObject, Pool, StartTask, DeleteObject, Crash, DeleteObjectFails
  <1>3. CASE OpenSession \/ ListNext \/ ListEnds \/ StopWait
    BY <1>0, <1>3 DEF OpenSession, Listing, ListNext, ListEnds, StopWait, AfterPool
  <1>4. CASE DeleteEmptyBucket \/ Cleanup
    BY <1>0, <1>4 DEF DeleteEmptyBucket, Cleanup
  <1>5. CASE OpenFails \/ ListFails \/ DeleteBucketFails \/ CleanupFails
    BY <1>0, <1>5 DEF OpenFails, ListFails, DeleteBucketFails, CleanupFails
  <1>6. QED
    BY <1>1, <1>2, <1>3, <1>4, <1>5 DEF DeletionNext, Goroutine, Failure
LEMMA TypesStay == Inv /\ SettingsInv /\ [Next]_vars => TypeOK' /\ cloud' = cloud
  <1> SUFFICES ASSUME Inv, SettingsInv, [Next]_vars
               PROVE  TypeOK' /\ cloud' = cloud
    OBVIOUS
  <1>0. /\ DeletionTypeOK' /\ pc' \in DeletionPCs \union {"idle", "get", "create", "update"}
        /\ cloud \in Clouds /\ cloud \in {"gcp", "yc"} /\ TypeOK
        /\ spec \in BucketSpecs /\ settings \in BucketSpecs
    BY NextKeepsInv, AskedAreSpecs DEF Inv, PCs, SettingsInv, TypeOK, DeletionTypeOK
  <1> USE <1>0 DEF TypeOK
  <1>1. CASE EditSpec \/ RequestDeletion
    <2>1. cloud' = cloud
      BY <1>1 DEF EditSpec, RequestDeletion, deletionVars
    <2>2. spec' \in Asked[cloud] /\ UNCHANGED settings
      BY <1>1 DEF EditSpec, RequestDeletion
    <2>3. outcome' \in {"none", outcome} /\ deleting' \in {deleting, TRUE}
      BY <1>1 DEF EditSpec, RequestDeletion
    <2>4. edits' \in Nat
      BY <1>1 DEF EditSpec, RequestDeletion
    <2>5. QED
      BY <2>1, <2>2, <2>3, <2>4
  <1>2. CASE Admit \/ Get
    BY <1>2 DEF Admit, Get, Outcome, Goto
  <1>3. CASE Create \/ Update \/ EnsureFails
    <2>1. spec \in Admitted \/ pc = "get"
      BY <1>3 DEF Create, Update, EnsureFails, SettingsInv, EnsureInv
    <2>2. pc # "get" => ToCloud(Desired(spec)) \in BucketSpecs
      BY <2>1, CreatedFields DEF Admitted
    <2>3. Patched(spec) \in BucketSpecs
      BY PatchedFields
    <2>4. QED
      BY <1>3, <2>2, <2>3 DEF Create, Update, EnsureFails, Outcome, Goto
  <1>4. CASE Delete \/ (DeletionNext /\ UNCHANGED providerVars)
    BY <1>4, DeletionSteps DEF DeletionStep, providerVars
  <1>5. CASE UNCHANGED vars
    BY <1>5 DEF vars, deletionVars, providerVars
  <1>6. QED
    BY <1>1, <1>2, <1>3, <1>4, <1>5 DEF Next, Ensure

\* The four things that can become of a bucket's settings.
LEMMA SettingsSteps ==
    Inv /\ SettingsInv /\ [Next]_vars =>
      \/ UNCHANGED settings
      \/ /\ pc = "create" /\ settings' = ToCloud(Desired(spec))
      \/ /\ pc = "update" /\ settings' = Patched(spec)
  BY DeletionSteps
  DEF Next, EditSpec, RequestDeletion, Ensure, Admit, Get, Create, Update, EnsureFails,
      DeletionStep, vars, providerVars

LEMMA OfItsCloudStays == Inv /\ SettingsInv /\ [Next]_vars => OfItsCloud(settings)'
  <1> SUFFICES ASSUME Inv, SettingsInv, [Next]_vars
               PROVE  OfItsCloud(settings)'
    OBVIOUS
  <1>0. /\ cloud' = cloud /\ OfItsCloud(settings) /\ cloud \in {"gcp", "yc"}
        /\ spec \in BucketSpecs /\ settings \in BucketSpecs
    BY TypesStay, AskedAreSpecs DEF SettingsInv, TypeOK, DeletionTypeOK
  <1>1. CASE UNCHANGED settings
    BY <1>0, <1>1, SameCloud
  <1>2. CASE pc = "create" /\ settings' = ToCloud(Desired(spec))
    <2>1. ~Unsupported(spec)
      BY <1>2 DEF SettingsInv, EnsureInv, Admitted
    <2>2. QED
      BY <1>0, <1>2, <2>1, CreatedFields, SameCloud
  <1>3. CASE pc = "update" /\ settings' = Patched(spec)
    <2>1. OfItsCloud(Patched(spec))
      BY <1>0, PatchedFields DEF OfItsCloud, Compared, Fields
    <2>2. QED
      BY <1>0, <1>3, <2>1, SameCloud
  <1>4. QED
    BY <1>1, <1>2, <1>3, SettingsSteps

LEMMA EnsureStays == Inv /\ SettingsInv /\ [Next]_vars => EnsureInv'
  <1> SUFFICES ASSUME Inv, SettingsInv, [Next]_vars
               PROVE  EnsureInv'
    OBVIOUS
  <1>0. cloud' = cloud /\ EnsureInv
    BY TypesStay DEF SettingsInv
  <1>1. UNCHANGED spec => Admitted' = Admitted /\ (UNCHANGED settings => Differing(spec)' = Differing(spec))
    BY <1>0, SameCloud
  <1> USE <1>0, <1>1 DEF EnsureInv, DeletionPCs
  <1>2. CASE EditSpec \/ RequestDeletion
    BY <1>2 DEF EditSpec, RequestDeletion, deletionVars
  <1>3. CASE Admit \/ Get
    BY <1>3 DEF Admit, Get, Outcome, Goto
  <1>4. CASE Create \/ Update \/ EnsureFails
    BY <1>4 DEF Create, Update, EnsureFails, Outcome, Goto
  <1>5. CASE Delete \/ (DeletionNext /\ UNCHANGED providerVars)
    BY <1>5, DeletionSteps DEF DeletionStep, providerVars
  <1>6. CASE UNCHANGED vars
    BY <1>6 DEF vars, deletionVars, providerVars
  <1>7. QED
    BY <1>2, <1>3, <1>4, <1>5, <1>6 DEF Next, Ensure

LEMMA ReadyStays ==
    Inv /\ SettingsInv /\ [Next]_vars =>
      (outcome = "ready" /\ ~deleting => spec \in Admitted /\ bucket = "there" /\ InForce)'
  <1> SUFFICES ASSUME Inv, SettingsInv, [Next]_vars, outcome' = "ready", ~deleting'
               PROVE  spec' \in Admitted' /\ bucket' = "there" /\ InForce'
    OBVIOUS
  <1>0. /\ cloud' = cloud /\ cloud \in {"gcp", "yc"} /\ deleting \in BOOLEAN
        /\ spec \in BucketSpecs /\ settings \in BucketSpecs
    BY TypesStay, AskedAreSpecs DEF SettingsInv, TypeOK, DeletionTypeOK
  <1>1. SUFFICES /\ spec' = spec /\ spec \in Admitted /\ bucket' = "there"
                 /\ \A f \in Compared : Shows(settings', spec, f)
    BY <1>0, SameCloud
  <1>2. CASE EditSpec \/ RequestDeletion \/ EnsureFails
    BY <1>2 DEF EditSpec, RequestDeletion, EnsureFails, Outcome
  <1>3. ASSUME outcome = "ready", ~deleting, UNCHANGED <<spec, settings, bucket>>
        PROVE  /\ spec' = spec /\ spec \in Admitted /\ bucket' = "there"
               /\ \A f \in Compared : Shows(settings', spec, f)
    BY <1>3 DEF SettingsInv, InForce
  <1>4. CASE Admit
    BY <1>3, <1>4 DEF Admit, Outcome, Goto
  <1>5. CASE Get
    <2>1. CASE outcome = "ready"
      BY <1>3, <1>5, <2>1 DEF Get, Outcome, Goto
    <2>2. CASE outcome # "ready"
      <3>1. Differing(spec) = {} /\ bucket = "there" /\ UNCHANGED <<spec, settings, bucket>>
        BY <1>5, <2>2 DEF Get, Outcome, Goto
      <3>2. spec \in Admitted
        BY <1>5 DEF Get, SettingsInv, EnsureInv
      <3>3. \A f \in Compared : Shows(settings, spec, f)
        BY <3>1 DEF Differing, Shows
      <3>4. QED
        BY <3>1, <3>2, <3>3
    <2>3. QED
      BY <2>1, <2>2
  <1>6. CASE Create
    <2>1. spec \in Admitted
      BY <1>6 DEF Create, SettingsInv, EnsureInv
    <2>2. \A f \in Compared : Shows(ToCloud(Desired(spec)), spec, f)
      BY <1>0, <2>1, CreatedFields DEF Admitted
    <2>3. QED
      BY <1>6, <2>1, <2>2 DEF Create, Outcome, Goto
  <1>7. CASE Update
    <2>1. spec \in Admitted /\ bucket = "there"
      BY <1>7 DEF Update, SettingsInv, EnsureInv
    <2>2. \A f \in Compared : Shows(Patched(spec), spec, f)
      BY <1>0, PatchedFields
    <2>3. QED
      BY <1>7, <2>1, <2>2 DEF Update, Outcome, Goto
  <1>8. CASE Delete \/ (DeletionNext /\ UNCHANGED providerVars)
    BY <1>3, <1>8, DeletionSteps DEF DeletionStep, providerVars
  <1>9. CASE UNCHANGED vars
    BY <1>3, <1>9 DEF vars, deletionVars, providerVars
  <1>10. QED
    BY <1>2, <1>4, <1>5, <1>6, <1>7, <1>8, <1>9 DEF Next, Ensure

LEMMA NextKeepsSettings == Inv /\ SettingsInv /\ [Next]_vars => SettingsInv'
  <1> SUFFICES ASSUME Inv, SettingsInv, [Next]_vars
               PROVE  SettingsInv'
    OBVIOUS
  <1>1. TypeOK' /\ cloud' \in Clouds
    BY TypesStay DEF SettingsInv
  <1>2. QED
    BY <1>1, OfItsCloudStays, EnsureStays, ReadyStays DEF SettingsInv

LEMMA SettingsAlways == Spec => []SettingsInv
  BY InitSettings, NextKeepsSettings, InvAlways, PTL DEF Spec

\* Every variable has its type: no conversion makes a setting that is none.
THEOREM Types == Spec => []TypeOK
  <1>1. SettingsInv => TypeOK
    BY DEF SettingsInv
  <1>2. QED
    BY <1>1, SettingsAlways, PTL

\* A reconcile that ends ready leaves a bucket as its spec says, whatever it was like
\* before, whichever calls failed on the way and whatever the user left out.
THEOREM ReadyIsInForce == Spec => []ReadyMeansInForce
  <1>1. SettingsInv => ReadyMeansInForce
    <2> SUFFICES ASSUME SettingsInv, outcome = "ready", ~deleting
                 PROVE  ReadyMeansInForce
      BY DEF ReadyMeansInForce
    <2>1. /\ spec \in BucketSpecs /\ settings \in BucketSpecs /\ cloud \in {"gcp", "yc"}
          /\ OfItsCloud(settings) /\ ~Unsupported(spec) /\ ~Invalid(spec) /\ bucket = "there"
          /\ \A f \in Compared : Shows(settings, spec, f)
      BY AskedAreSpecs DEF SettingsInv, TypeOK, DeletionTypeOK, Admitted, InForce
    <2>2. QED
      BY <2>1, ShownIsInForce DEF ReadyMeansInForce
  <1>2. QED
    BY <1>1, SettingsAlways, PTL

\* The reconcile of a spec that is in force, and that the cloud can give back, sends no
\* update: what EnsureBucket reads it compares equal.
THEOREM InForceIsLeftAlone == Spec => LeavesAloneWhatIsInForce
  <1>1. SettingsInv /\ outcome = "ready" /\ ~deleting /\ Expressible(spec) => Differing(spec) = {}
    BY AskedAreSpecs, ShownDoesNotDiffer DEF SettingsInv, TypeOK, DeletionTypeOK, InForce
  <1>2. Inv /\ SettingsInv /\ [Next]_vars =>
          [outcome = "ready" /\ Expressible(spec) => pc' # "update"]_vars
    <2> SUFFICES ASSUME Inv, SettingsInv, Next, outcome = "ready", Expressible(spec)
                 PROVE  pc' # "update"
      OBVIOUS
    <2>1. pc # "update"
      BY <1>1 DEF SettingsInv, EnsureInv
    <2>2. CASE EditSpec \/ RequestDeletion \/ Admit \/ Create \/ Update \/ EnsureFails
      BY <2>1, <2>2
      DEF EditSpec, RequestDeletion, deletionVars, Admit, Create, Update, EnsureFails, Outcome, Goto
    <2>3. CASE Get
      <3>1. ~deleting
        BY <2>3 DEF Get, SettingsInv, EnsureInv
      <3>2. QED
        BY <1>1, <2>3, <3>1 DEF Get, Outcome, Goto
    <2>4. CASE Delete \/ (DeletionNext /\ UNCHANGED providerVars)
      BY <2>1, <2>4, DeletionSteps DEF DeletionStep, DeletionPCs
    <2>5. QED
      BY <2>2, <2>3, <2>4 DEF Next, Ensure
  <1>3. QED
    BY <1>2, InvAlways, SettingsAlways, PTL DEF Spec, LeavesAloneWhatIsInForce
===============================================================================
