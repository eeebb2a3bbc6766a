-------------------------- MODULE DeletionOrder_proofs --------------------------
(***************************************************************************)
(* Proofs about DeletionOrder, for every set of ProviderConfigs, Buckets,  *)
(* CloudPrincipals and BucketAccesses, every way they refer to each other, *)
(* and every bound on edits and failures.                                  *)
(***************************************************************************)
EXTENDS DeletionOrder, KubeObject_proofs, TLAPS

Plans == [reason: Reasons, retry: BOOLEAN]

-------------------------------------------------------------------------------
(* Types of what concerns the ProviderConfigs. *)

ServerTypes ==
    /\ api \in [Configs -> Objects]
    /\ cache \in [Configs -> Objects]
    /\ watch \in [Configs -> SUBSET Objects]

WorkerTypes ==
    /\ queue \subseteq Configs
    /\ pc \in [Configs -> PCs]
    /\ obj \in [Configs -> Objects]
    /\ plan \in [Configs -> Plans]

\* What the API server makes of a version is a version, and a later one.
LEMMA VersionTypes ==
    ASSUME NEW o \in Objects, NEW s \in Specs, NEW t \in Statuses
    PROVE  /\ Created(o, s, t) \in Objects /\ Created(o, s, t).rv = o.rv + 1
           /\ SpecEdited(o, s) \in Objects /\ SpecEdited(o, s).rv = o.rv + 1
           /\ StatusWritten(o, t) \in Objects /\ StatusWritten(o, t).rv = o.rv + 1
           /\ FinalizerAdded(o) \in Objects /\ FinalizerAdded(o).rv = o.rv + 1
           /\ Gone(o) \in Objects /\ Gone(o).rv = o.rv + 1
           /\ DeletionRequested(o) \in Objects /\ DeletionRequested(o).rv = o.rv + 1
  <1> USE DEF Objects, Versions
  <1>1. o.rv + 1 \in Nat /\ o.gen + 1 \in Nat
    OBVIOUS
  <1>2. Created(o, s, t) \in Objects /\ Created(o, s, t).rv = o.rv + 1
    BY <1>1 DEF Created
  <1>3. SpecEdited(o, s) \in Objects /\ SpecEdited(o, s).rv = o.rv + 1
    BY <1>1 DEF SpecEdited
  <1>4. StatusWritten(o, t) \in Objects /\ StatusWritten(o, t).rv = o.rv + 1
    BY <1>1 DEF StatusWritten
  <1>5. FinalizerAdded(o) \in Objects /\ FinalizerAdded(o).rv = o.rv + 1
    BY <1>1 DEF FinalizerAdded
  <1>6. Gone(o) \in Objects /\ Gone(o).rv = o.rv + 1
    BY <1>1 DEF Gone
  <1>7. DeletionRequested(o) \in Objects /\ DeletionRequested(o).rv = o.rv + 1
    BY <1>1, <1>6 DEF DeletionRequested
  <1>8. QED
    BY <1>2, <1>3, <1>4, <1>5, <1>6, <1>7

LEMMA NoStatusType == NoStatus \in Statuses
  BY DEF NoStatus, Statuses, Reasons

LEMMA NoObjectType == NoObject \in Objects /\ NoObject.rv = 0 /\ ~NoObject.exists
  BY NoStatusType DEF NoObject, NeverCreated, Objects, Versions, Specs

LEMMA NoPlanType == NoPlan \in Plans
  BY DEF NoPlan, Plans, Reasons

LEMMA Fields ==
    ASSUME NEW o \in Objects
    PROVE  /\ o.rv \in Nat /\ o.gen \in Nat
           /\ o.spec \in Specs /\ o.status \in Statuses
  BY DEF Objects, Versions

-------------------------------------------------------------------------------
(* What each piece of Reconciler does to the worker, and to the server: there,  *)
(* a step commits at most one version, which is later than the last.            *)

\* One more version of c, made from its last.
Commits(c) ==
    \E o \in Objects :
      /\ o.rv = api[c].rv + 1
      /\ Commit(c, o)

LEMMA CommitTypes ==
    ASSUME ServerTypes, NEW c \in Configs, Commits(c), UNCHANGED cache
    PROVE  ServerTypes'
  BY DEF ServerTypes, Commits, Commit

LEMMA FinishTypes ==
    ASSUME WorkerTypes, NEW c \in Configs, NEW retry, Finish(c, retry)
    PROVE  WorkerTypes'
  <1>1. queue' \subseteq Configs
    BY DEF WorkerTypes, Finish
  <1>2. QED
    BY <1>1, NoObjectType, NoPlanType DEF WorkerTypes, Finish, PCs

LEMMA ReportingTypes ==
    ASSUME WorkerTypes, NEW c \in Configs, NEW reason \in Reasons, NEW retry \in BOOLEAN,
           Reporting(c, reason, retry)
    PROVE  WorkerTypes'
  <1>1. [reason |-> reason, retry |-> retry] \in Plans
    BY DEF Plans
  <1>2. QED
    BY <1>1 DEF WorkerTypes, Reporting, GoTo, PCs

LEMMA UserCommits ==
    ASSUME ServerTypes, NEW c \in Configs, CreateConfig(c) \/ EditConfig(c) \/ DeleteConfig(c)
    PROVE  Commits(c) /\ SpendEdit /\ UNCHANGED <<cache, queue, pc, obj, plan>>
  <1>1. api[c] \in Objects
    BY DEF ServerTypes
  <1>2. CASE CreateConfig(c)
    BY <1>1, <1>2, VersionTypes, NoStatusType, ConfigsAssumption
    DEF CreateConfig, Post, Commits
  <1>3. CASE EditConfig(c)
    <2>1. PICK s \in ConfigSpecs : Put(c, s)
      BY <1>3 DEF EditConfig
    <2>2. SpecEdited(api[c], s) \in Objects /\ SpecEdited(api[c], s).rv = api[c].rv + 1
      BY <1>1, VersionTypes, NoStatusType, ConfigsAssumption
    <2>3. QED
      BY <2>1, <2>2 DEF Put, Commits
  <1>4. CASE DeleteConfig(c)
    <2>1. /\ DeletionRequested(api[c]) \in Objects
          /\ DeletionRequested(api[c]).rv = api[c].rv + 1
      BY <1>1, VersionTypes, NoStatusType, Fields
    <2>2. QED
      BY <1>4, <2>1 DEF DeleteConfig, Delete, Commits
  <1>5. QED
    BY <1>2, <1>3, <1>4

\* The status patch at the end of a reconcile.
LEMMA PatchEffect ==
    ASSUME ServerTypes, WorkerTypes, NEW c \in Configs, PatchReady(c) \/ Report(c)
    PROVE  /\ \E retry : Finish(c, retry)
           /\ UNCHANGED cache
           /\ \/ UNCHANGED <<api, watch>>
              \/ \E t \in Statuses : Commit(c, StatusWritten(api[c], t))
  <1>1. PICK reason \in Reasons, retry \in BOOLEAN : Patch(c, reason, retry)
    <2>1. plan[c].reason \in Reasons /\ plan[c].retry \in BOOLEAN
      BY DEF WorkerTypes, Plans
    <2>2. "Reconciled" \in Reasons
      BY DEF Reasons
    <2>3. QED
      BY <2>1, <2>2 DEF PatchReady, Report
  <1> DEFINE new == [reason |-> reason, gen |-> obj[c].gen]
             merged == IF Differs(c, new) THEN new ELSE api[c].status
  <1>2. PatchStatus(c, new, merged, retry)
    BY <1>1 DEF Patch
  <1>3. merged \in Statuses
    <2>1. new \in Statuses
      BY Fields DEF WorkerTypes, Statuses
    <2>2. api[c].status \in Statuses
      BY Fields DEF ServerTypes
    <2>3. QED
      BY <2>1, <2>2
  <1>4. UNCHANGED <<api, watch>> \/ Commit(c, StatusWritten(api[c], merged))
    BY <1>2 DEF PatchStatus, SendPatch
  <1>5. Finish(c, retry \/ PatchRefused(c, new)) /\ UNCHANGED cache
    BY <1>2 DEF PatchStatus
  <1>6. QED
    BY <1>3, <1>4, <1>5

\* One step of a reconcile: what becomes of the server and of the worker.
LEMMA ReconcileTypes ==
    ASSUME ServerTypes, WorkerTypes, NEW c \in Configs,
           ReconcileConfig(c) \/ ConfigCallFails(c)
    PROVE  ServerTypes' /\ WorkerTypes'
  <1>1. /\ api[c] \in Objects /\ FinalizerAdded(api[c]) \in Objects /\ Gone(api[c]) \in Objects
        /\ FinalizerAdded(api[c]).rv = api[c].rv + 1 /\ Gone(api[c]).rv = api[c].rv + 1
        /\ \A t \in Statuses : /\ StatusWritten(api[c], t) \in Objects
                               /\ StatusWritten(api[c], t).rv = api[c].rv + 1
    <2>1. api[c] \in Objects /\ api[c].spec \in Specs
      BY Fields DEF ServerTypes
    <2>2. QED
      BY <2>1, VersionTypes, NoStatusType
  <1>2. {"ProviderConfigError", "InvalidSpec"} \subseteq Reasons
    BY DEF Reasons
  <1>3. CASE Claim(c)
    <2>1. CASE Accepts(api[c], obj[c])
      <3>1. Commits(c) /\ UNCHANGED cache
        BY <1>1, <1>3, <2>1 DEF Claim, Commits
      <3>2. WorkerTypes'
        BY <1>1, <1>3, <2>1 DEF Claim, WorkerTypes, GoTo, PCs
      <3>3. QED
        BY <3>1, <3>2, CommitTypes
    <2>2. CASE ~Accepts(api[c], obj[c])
      BY <1>3, <2>2, FinishTypes DEF Claim, ServerTypes
    <2>3. QED
      BY <2>1, <2>2
  <1>4. CASE Check(c)
    <2>1. CASE \E reason \in Reasons, retry \in BOOLEAN : Reporting(c, reason, retry)
      BY <2>1, ReportingTypes DEF Reporting, ServerTypes
    <2>2. CASE Proceed(c, "patchReady")
      BY <2>2 DEF Proceed, GoTo, ServerTypes, WorkerTypes, PCs
    <2>3. QED
      BY <1>2, <1>4, <2>1, <2>2 DEF Check
  <1>5. CASE PatchReady(c) \/ Report(c)
    <2>1. Commits(c) \/ UNCHANGED <<api, watch>>
      BY <1>1, <1>5, PatchEffect DEF Commits
    <2>2. UNCHANGED cache /\ \E retry : Finish(c, retry)
      BY <1>5, PatchEffect
    <2>3. ServerTypes'
      BY <2>1, <2>2, CommitTypes DEF ServerTypes
    <2>4. QED
      BY <2>2, <2>3, FinishTypes
  <1>6. CASE PrepareDelete(c) \/ ListPrincipals(c)
    <2>1. CASE Return(c, TRUE)
      BY <2>1, FinishTypes DEF Return, ServerTypes
    <2>2. CASE Proceed(c, "listPrincipals") \/ Proceed(c, "release")
      BY <2>2 DEF Proceed, GoTo, ServerTypes, WorkerTypes, PCs
    <2>3. QED
      BY <1>6, <2>1, <2>2 DEF PrepareDelete, ListPrincipals
  <1>7. CASE Release(c)
    <2>1. /\ Commits(c) \/ UNCHANGED <<api, watch>>
          /\ UNCHANGED cache
      BY <1>1, <1>7 DEF Release, Commits
    <2>2. \E retry : Finish(c, retry)
      BY <1>7 DEF Release
    <2>3. ServerTypes'
      BY <2>1, CommitTypes DEF ServerTypes
    <2>4. QED
      BY <2>2, <2>3, FinishTypes
  <1>8. CASE ConfigCallFails(c)
    <2>1. CASE Return(c, TRUE)
      BY <2>1, FinishTypes DEF Return, ServerTypes
    <2>2. CASE Reporting(c, "ProviderConfigError", TRUE)
      BY <1>2, <2>2, ReportingTypes DEF Reporting, ServerTypes
    <2>3. QED
      BY <1>8, <2>1, <2>2 DEF ConfigCallFails
  <1>9. QED
    BY <1>3, <1>4, <1>5, <1>6, <1>7, <1>8 DEF ReconcileConfig

\* The informer, the start of a reconcile, the watch on Secrets, and a restart.
LEMMA QueueTypes ==
    ASSUME ServerTypes, WorkerTypes,
           \/ \E c \in Configs : Inform(c) \/ Begin(c, cache[c])
           \/ Wake(ConfigsOfSecret)
           \/ Restart
    PROVE  ServerTypes' /\ WorkerTypes'
  <1>1. CASE \E c \in Configs : Inform(c)
    BY <1>1 DEF Inform, ServerTypes, WorkerTypes
  <1>2. CASE \E c \in Configs : Begin(c, cache[c])
    BY <1>2 DEF Begin, FirstStep, GoTo, ServerTypes, WorkerTypes, PCs
  <1>3. CASE Wake(ConfigsOfSecret)
    BY <1>3 DEF Wake, ConfigsOfSecret, ServerTypes, WorkerTypes
  <1>4. CASE Restart
    <2>1. queue' \subseteq Configs
      BY <1>4 DEF Restart
    <2>2. QED
      BY <1>4, <2>1, NoObjectType, NoPlanType DEF Restart, ServerTypes, WorkerTypes, PCs
  <1>5. QED
    BY <1>1, <1>2, <1>3, <1>4

-------------------------------------------------------------------------------
(* Versions in the informer and in the worker's memory are no later than the    *)
(* server's.                                                                    *)

VersionsInv ==
    \A c \in Configs :
      /\ cache[c].rv <= api[c].rv
      /\ obj[c].rv <= api[c].rv
      /\ \A v \in watch[c] : v.rv <= api[c].rv

ConfigsInv == ServerTypes /\ WorkerTypes /\ VersionsInv

LEMMA Rvs ==
    ASSUME ServerTypes, WorkerTypes, NEW c \in Configs
    PROVE  /\ api[c].rv \in Nat /\ cache[c].rv \in Nat /\ obj[c].rv \in Nat
           /\ \A v \in watch[c] : v.rv \in Nat
  BY Fields DEF ServerTypes, WorkerTypes

LEMMA CommitVersions ==
    ASSUME ConfigsInv, NEW c \in Configs, Commits(c), UNCHANGED cache,
           \A d \in Configs : obj'[d] \in {obj[d], NoObject, api'[d]}
    PROVE  VersionsInv'
  <1>1. PICK o \in Objects : /\ o.rv = api[c].rv + 1
                            /\ api' = [api EXCEPT ![c] = o]
                            /\ watch' = [watch EXCEPT ![c] = @ \union {o}]
    BY DEF Commits, Commit
  <1>2. \A d \in Configs : api[d].rv <= api'[d].rv /\ api'[d].rv \in Nat
    BY <1>1, Rvs DEF ConfigsInv, ServerTypes
  <1>3. \A d \in Configs : /\ cache'[d].rv <= api'[d].rv /\ obj'[d].rv <= api'[d].rv
    BY <1>2, Rvs, NoObjectType DEF ConfigsInv, VersionsInv
  <1>4. \A d \in Configs : \A v \in watch'[d] : v.rv <= api'[d].rv
    BY <1>1, <1>2, Rvs DEF ConfigsInv, VersionsInv, ServerTypes
  <1>5. QED
    BY <1>3, <1>4 DEF VersionsInv

LEMMA QuietVersions ==
    ASSUME ConfigsInv, UNCHANGED <<api, watch, cache>>,
           \A d \in Configs : obj'[d] \in {obj[d], NoObject, cache[d]}
    PROVE  VersionsInv'
  BY Rvs, NoObjectType DEF ConfigsInv, VersionsInv

-------------------------------------------------------------------------------
(* The steps of a ProviderConfig's reconcile, as far as its deletion goes. *)

\* A step of c's reconcile: the finalizer goes after both lists showed nothing, and
\* only from the version the reconcile was at.
StepOf(c) ==
    /\ UNCHANGED cache
    /\ \A d \in Configs \ {c} : api'[d] = api[d] /\ obj'[d] = obj[d] /\ pc'[d] = pc[d]
    /\ Commits(c) \/ UNCHANGED <<api, watch>>
    /\ obj'[c] \in {obj[c], NoObject, api'[c]}
    /\ pc'[c] = "listPrincipals" => UNCHANGED <<api, obj>> /\ ~Listed(c, Buckets)
    /\ pc'[c] = "release" =>
         UNCHANGED <<api, obj>> /\ pc[c] = "listPrincipals" /\ ~Listed(c, Principals)
    /\ \/ api'[c].exists = api[c].exists /\ api'[c].deleting = api[c].deleting
       \/ /\ pc[c] = "release" /\ api[c].exists /\ obj[c].rv = api[c].rv
          /\ ~api'[c].exists

LEMMA FinishEffect ==
    ASSUME WorkerTypes, NEW c \in Configs, NEW retry, Finish(c, retry)
    PROVE  /\ pc'[c] = "idle" /\ obj'[c] = NoObject
           /\ \A d \in Configs \ {c} : obj'[d] = obj[d] /\ pc'[d] = pc[d]
  BY DEF WorkerTypes, Finish

LEMMA CommitEffect ==
    ASSUME ServerTypes, NEW c \in Configs, NEW o, Commit(c, o)
    PROVE  api'[c] = o /\ \A d \in Configs \ {c} : api'[d] = api[d]
  BY DEF ServerTypes, Commit

LEMMA ReconcileEffect ==
    ASSUME ServerTypes, WorkerTypes, NEW c \in Configs,
           ReconcileConfig(c) \/ ConfigCallFails(c)
    PROVE  StepOf(c)
  <1>1. /\ api[c] \in Objects
        /\ FinalizerAdded(api[c]) \in Objects /\ FinalizerAdded(api[c]).rv = api[c].rv + 1
        /\ Gone(api[c]) \in Objects /\ Gone(api[c]).rv = api[c].rv + 1
        /\ \A t \in Statuses : /\ StatusWritten(api[c], t) \in Objects
                               /\ StatusWritten(api[c], t).rv = api[c].rv + 1
    <2>1. api[c] \in Objects /\ api[c].spec \in Specs
      BY Fields DEF ServerTypes
    <2>2. QED
      BY <2>1, VersionTypes, NoStatusType
  <1>2. /\ FinalizerAdded(api[c]).exists = api[c].exists
        /\ FinalizerAdded(api[c]).deleting = api[c].deleting
        /\ \A t : /\ StatusWritten(api[c], t).exists = api[c].exists
                  /\ StatusWritten(api[c], t).deleting = api[c].deleting
    BY <1>1 DEF FinalizerAdded, StatusWritten, Objects, Versions
  <1>3. CASE Claim(c)
    <2>1. CASE Accepts(api[c], obj[c])
      <3>1. Commit(c, FinalizerAdded(api[c])) /\ Commits(c) /\ UNCHANGED cache
        BY <1>1, <1>3, <2>1 DEF Claim, Commits
      <3>2. /\ obj'[c] = FinalizerAdded(api[c]) /\ pc'[c] = "check"
            /\ \A d \in Configs \ {c} : obj'[d] = obj[d] /\ pc'[d] = pc[d]
        BY <1>3, <2>1 DEF Claim, GoTo, WorkerTypes
      <3>3. QED
        BY <1>2, <3>1, <3>2, CommitEffect DEF StepOf
    <2>2. CASE ~Accepts(api[c], obj[c])
      BY <1>3, <2>2, FinishEffect DEF Claim, StepOf
    <2>3. QED
      BY <2>1, <2>2
  <1>4. CASE Check(c)
    <2>1. /\ UNCHANGED <<api, cache, watch, obj>> /\ pc'[c] \in {"report", "patchReady"}
          /\ \A d \in Configs \ {c} : pc'[d] = pc[d]
      BY <1>4 DEF Check, Reporting, Proceed, GoTo, WorkerTypes
    <2>2. QED
      BY <2>1 DEF StepOf
  <1>5. CASE PatchReady(c) \/ Report(c)
    <2>1. /\ \E retry : Finish(c, retry)
          /\ UNCHANGED cache
      BY <1>5, PatchEffect
    <2>2. CASE UNCHANGED <<api, watch>>
      BY <2>1, <2>2, FinishEffect DEF StepOf
    <2>3. CASE \E t \in Statuses : Commit(c, StatusWritten(api[c], t))
      <3>1. Commits(c) /\ api'[c].exists = api[c].exists /\ api'[c].deleting = api[c].deleting
        BY <1>1, <1>2, <2>3, CommitEffect DEF Commits
      <3>2. QED
        BY <2>1, <2>3, <3>1, FinishEffect, CommitEffect DEF StepOf
    <2>4. QED
      BY <1>5, <2>2, <2>3, PatchEffect
  <1>6. CASE PrepareDelete(c) \/ ListPrincipals(c)
    <2>1. CASE Return(c, TRUE)
      BY <2>1, FinishEffect DEF Return, StepOf
    <2>2. CASE ~Return(c, TRUE)
      BY <1>6, <2>2 DEF PrepareDelete, ListPrincipals, Proceed, GoTo, WorkerTypes, StepOf
    <2>3. QED
      BY <2>1, <2>2
  <1>7. CASE Release(c)
    <2>1. UNCHANGED cache /\ pc[c] = "release" /\ \E retry : Finish(c, retry)
      BY <1>7 DEF Release
    <2>2. CASE Accepts(api[c], obj[c])
      <3>1. /\ Commit(c, Gone(api[c])) /\ Commits(c)
            /\ obj[c].rv = api[c].rv /\ api[c].exists /\ ~Gone(api[c]).exists
        BY <1>1, <1>7, <2>2 DEF Release, Commits, Accepts, Gone, Objects, Versions
      <3>2. QED
        BY <2>1, <3>1, FinishEffect, CommitEffect DEF StepOf
    <2>3. CASE ~Accepts(api[c], obj[c])
      BY <1>7, <2>1, <2>3, FinishEffect DEF Release, StepOf
    <2>4. QED
      BY <2>2, <2>3
  <1>8. CASE ConfigCallFails(c)
    <2>1. CASE Return(c, TRUE)
      BY <2>1, FinishEffect DEF Return, StepOf
    <2>2. CASE Reporting(c, "ProviderConfigError", TRUE)
      BY <2>2 DEF Reporting, GoTo, WorkerTypes, StepOf
    <2>3. QED
      BY <1>8, <2>1, <2>2 DEF ConfigCallFails
  <1>9. QED
    BY <1>3, <1>4, <1>5, <1>6, <1>7, <1>8 DEF ReconcileConfig

\* Users and the informer, the start of a reconcile and a restart.
LEMMA ConfigsStep ==
    ASSUME ConfigsInv,
           \/ \E c \in Configs :
                \/ CreateConfig(c) \/ EditConfig(c) \/ DeleteConfig(c)
                \/ Inform(c) \/ Begin(c, cache[c])
                \/ ReconcileConfig(c) \/ ConfigCallFails(c)
           \/ Wake(ConfigsOfSecret)
           \/ Restart
           \/ UNCHANGED configVars
    PROVE  ConfigsInv'
  <1> USE DEF ConfigsInv
  <1>1. CASE \E c \in Configs : CreateConfig(c) \/ EditConfig(c) \/ DeleteConfig(c)
    <2>1. PICK c \in Configs : CreateConfig(c) \/ EditConfig(c) \/ DeleteConfig(c)
      BY <1>1
    <2>2. Commits(c) /\ UNCHANGED <<cache, queue, pc, obj, plan>>
      BY <2>1, UserCommits
    <2>3. ServerTypes' /\ VersionsInv'
      BY <2>2, CommitTypes, CommitVersions
    <2>4. QED
      BY <2>2, <2>3 DEF WorkerTypes
  <1>2. CASE \E c \in Configs : Inform(c)
    <2>1. PICK c \in Configs : Inform(c)
      BY <1>2
    <2>2. PICK v \in watch[c] : /\ cache' = [cache EXCEPT ![c] = v]
                                /\ watch' = [watch EXCEPT ![c] = @ \ {v}]
      BY <2>1 DEF Inform
    <2>3. VersionsInv'
      BY <2>1, <2>2 DEF Inform, VersionsInv, ServerTypes
    <2>4. QED
      BY <1>2, <2>3, QueueTypes
  <1>3. CASE \E c \in Configs : Begin(c, cache[c])
    <2>1. /\ UNCHANGED <<api, watch, cache>>
          /\ \A d \in Configs : obj'[d] \in {obj[d], NoObject, cache[d]}
      BY <1>3 DEF Begin, WorkerTypes
    <2>2. QED
      BY <1>3, <2>1, QueueTypes, QuietVersions
  <1>4. CASE \E c \in Configs : ReconcileConfig(c) \/ ConfigCallFails(c)
    <2>1. PICK c \in Configs : ReconcileConfig(c) \/ ConfigCallFails(c)
      BY <1>4
    <2>2. StepOf(c) /\ ServerTypes' /\ WorkerTypes'
      BY <2>1, ReconcileEffect, ReconcileTypes
    <2>3. VersionsInv'
      <3>1. \A d \in Configs : obj'[d] \in {obj[d], NoObject, api'[d]}
        BY <2>2 DEF StepOf
      <3>2. CASE Commits(c)
        BY <2>2, <3>1, <3>2, CommitVersions DEF StepOf
      <3>3. CASE UNCHANGED <<api, watch>>
        <4>1. \A d \in Configs : obj'[d].rv <= api[d].rv
          BY <3>1, <3>3, Rvs, NoObjectType DEF VersionsInv
        <4>2. QED
          BY <2>2, <3>3, <4>1 DEF StepOf, VersionsInv
      <3>4. QED
        BY <2>2, <3>2, <3>3 DEF StepOf
    <2>4. QED
      BY <2>2, <2>3
  <1>5. CASE Wake(ConfigsOfSecret)
    BY <1>5, QueueTypes, QuietVersions DEF Wake
  <1>6. CASE Restart
    <2>1. VersionsInv'
      BY <1>6, Rvs, NoObjectType DEF Restart, VersionsInv
    <2>2. QED
      BY <1>6, <2>1, QueueTypes
  <1>7. CASE UNCHANGED configVars
    BY <1>7 DEF configVars, ServerTypes, WorkerTypes, VersionsInv
  <1>8. QED
    BY <1>1, <1>2, <1>3, <1>4, <1>5, <1>6, <1>7

-------------------------------------------------------------------------------
(* The resources. *)

\* Of one resource: the informer shows it as it was, or the last of its name; the
\* controller at work for it, and what it made, keep the server's and the
\* informer's the same resource.
ResourceInv ==
    \A r \in Resources :
      /\ seen[r].uid <= res[r].uid
      /\ at[r] # "idle" =>
           seen[r].uid = res[r].uid /\ seen[r].phase # "absent" /\ res[r].phase # "absent"
      /\ at[r] = "destroy" => seen[r].phase = "deleting" /\ res[r].phase = "deleting"
      /\ seen[r].uid = res[r].uid /\ seen[r].phase = "deleting" => res[r].phase # "live"
      /\ res[r].made => seen[r].uid = res[r].uid /\ seen[r].phase # "absent"
      /\ seen[r].made /\ seen[r].phase = "live" => res[r].made

\* An access is made, or being made, of what was made, and nothing deletes that.
HoldsInv ==
    \A q \in Accesses : at[q] = "ensure" \/ res[q].made =>
      \A t \in TargetsOf[q] : res[t].made /\ at[t] # "destroy"

ResourceTypes ==
    /\ res \in [Resources -> Copies]
    /\ seen \in [Resources -> Copies]
    /\ at \in [Resources -> {"idle", "ensure", "destroy"}]

ResourcesInv == ResourceTypes /\ ResourceInv /\ HoldsInv

LEMMA CopyFields ==
    ASSUME NEW v \in Copies
    PROVE  /\ v.uid \in Nat /\ v.phase \in {"absent", "live", "deleting"}
           /\ v.made => v.phase # "absent"
           /\ v.made \in BOOLEAN
  BY DEF Copies

\* What becomes of a version is one.
LEMMA CopyTypes ==
    ASSUME NEW v \in Copies
    PROVE  /\ [uid |-> v.uid + 1, phase |-> "live", made |-> FALSE] \in Copies
           /\ v.phase # "absent" => [v EXCEPT !.phase = "deleting"] \in Copies
           /\ v.phase # "absent" => [v EXCEPT !.made = TRUE] \in Copies
           /\ [v EXCEPT !.phase = "absent", !.made = FALSE] \in Copies
  <1>1. v \in [uid: Nat, phase: {"absent", "live", "deleting"}, made: BOOLEAN]
    BY DEF Copies
  <1> DEFINE left == [v EXCEPT !.phase = "absent", !.made = FALSE]
             busy == [v EXCEPT !.phase = "deleting"]
             done == [v EXCEPT !.made = TRUE]
  <1>2. /\ left \in [uid: Nat, phase: {"absent", "live", "deleting"}, made: BOOLEAN]
        /\ left.phase = "absent" /\ ~left.made
    BY <1>1
  <1>3. left \in Copies
    BY <1>2 DEF Copies
  <1>4. busy \in Copies
    BY <1>1 DEF Copies
  <1>5. v.phase # "absent" => done \in Copies
    BY <1>1 DEF Copies
  <1>6. [uid |-> v.uid + 1, phase |-> "live", made |-> FALSE] \in Copies
    BY <1>1 DEF Copies
  <1>7. QED
    BY <1>3, <1>4, <1>5, <1>6

LEMMA RootsAndAccesses ==
    /\ \A q \in Accesses : /\ TargetsOf[q] \subseteq Roots /\ TargetsOf[q] # {}
                           /\ \A t \in TargetsOf[q] : ConfigOf[t] = ConfigOf[q]
    /\ Roots \intersect Accesses = {} /\ Resources = Roots \union Accesses
    /\ \A r \in Resources : ConfigOf[r] \in Configs
  BY ConfigsAssumption, TargetsAssumption DEF Resources

ResourceStep(r) ==
    \/ Create(r) \/ RequestDeletion(r) \/ InformOfResource(r)
    \/ Work(r) \/ WorkFails(r)

LEMMA ResourceTypesKept ==
    ASSUME ResourcesInv, NEW r \in Resources, ResourceStep(r)
    PROVE  ResourceTypes'
  <1>1. res[r] \in Copies /\ seen[r] \in Copies
    BY DEF ResourcesInv, ResourceTypes
  <1> USE <1>1, CopyTypes DEF ResourcesInv, ResourceTypes
  <1>2. CASE Create(r)
    BY <1>2 DEF Create
  <1>3. CASE RequestDeletion(r)
    BY <1>3 DEF RequestDeletion, Left
  <1>4. CASE InformOfResource(r)
    BY <1>4 DEF InformOfResource
  <1>5. CASE Work(r)
    <2>1. CASE DeleteSelf(r)
      BY <2>1 DEF DeleteSelf
    <2>2. CASE StartEnsure(r) \/ StartDestroy(r)
      BY <2>2 DEF StartEnsure, StartDestroy
    <2>3. CASE FinishEnsure(r)
      BY <2>3 DEF FinishEnsure, ResourceInv
    <2>4. CASE ReleaseUnmade(r)
      BY <2>4 DEF ReleaseUnmade, Left
    <2>5. CASE FinishDestroy(r)
      BY <2>5 DEF FinishDestroy, Left
    <2>6. QED
      BY <1>5, <2>1, <2>2, <2>3, <2>4, <2>5 DEF Work
  <1>6. CASE WorkFails(r)
    BY <1>6 DEF WorkFails
  <1>7. QED
    BY <1>2, <1>3, <1>4, <1>5, <1>6 DEF ResourceStep

LEMMA ResourceInvKept ==
    ASSUME ResourcesInv, NEW r \in Resources, ResourceStep(r)
    PROVE  ResourceInv'
  <1>1. \A q \in Resources : res[q] \in Copies /\ seen[q] \in Copies
    BY DEF ResourcesInv, ResourceTypes
  <1>2. \A q \in Resources : /\ res[q].uid \in Nat /\ seen[q].uid \in Nat
                            /\ res[q].made => res[q].phase # "absent"
    BY <1>1, CopyFields
  <1> USE <1>1, <1>2 DEF ResourcesInv, ResourceTypes, ResourceInv, Copies
  <1>3. CASE Create(r)
    BY <1>3 DEF Create
  <1>4. CASE RequestDeletion(r)
    <2>1. CASE res' = [res EXCEPT ![r].phase = "deleting"]
      BY <1>4, <2>1 DEF RequestDeletion
    <2>2. CASE ~res[r].made /\ at[r] = "idle" /\ res' = [res EXCEPT ![r] = Left(r)]
      BY <1>4, <2>2 DEF RequestDeletion, Left
    <2>3. QED
      BY <1>4, <2>1, <2>2 DEF RequestDeletion
  <1>5. CASE InformOfResource(r)
    BY <1>5 DEF InformOfResource
  <1>6. CASE Work(r)
    <2>1. CASE DeleteSelf(r)
      BY <2>1 DEF DeleteSelf
    <2>2. CASE StartEnsure(r)
      BY <2>2 DEF StartEnsure, StillThis, Read
    <2>3. CASE FinishEnsure(r)
      BY <2>3 DEF FinishEnsure
    <2>4. CASE ReleaseUnmade(r)
      BY <2>4 DEF ReleaseUnmade, Left, StillThis, Read
    <2>5. CASE StartDestroy(r)
      BY <2>5 DEF StartDestroy, StillThis, Read
    <2>6. CASE FinishDestroy(r)
      BY <2>6 DEF FinishDestroy, Left
    <2>7. QED
      BY <1>6, <2>1, <2>2, <2>3, <2>4, <2>5, <2>6 DEF Work
  <1>7. CASE WorkFails(r)
    BY <1>7 DEF WorkFails
  <1>8. QED
    BY <1>3, <1>4, <1>5, <1>6, <1>7 DEF ResourceStep

LEMMA HoldsInvKept ==
    ASSUME ResourcesInv, NEW r \in Resources, ResourceStep(r)
    PROVE  HoldsInv'
  <1>1. \A q \in Resources : res[q] \in Copies /\ seen[q] \in Copies
    BY DEF ResourcesInv, ResourceTypes
  <1>2. \A q \in Resources : res[q].made => res[q].phase # "absent"
    BY <1>1, CopyFields
  <1> USE <1>1, <1>2, RootsAndAccesses DEF ResourcesInv, ResourceTypes, HoldsInv, Copies
  <1>3. CASE Create(r)
    BY <1>3 DEF Create
  <1>4. CASE RequestDeletion(r)
    <2>1. CASE res' = [res EXCEPT ![r].phase = "deleting"]
      BY <1>4, <2>1 DEF RequestDeletion
    <2>2. CASE ~res[r].made /\ at[r] = "idle" /\ res' = [res EXCEPT ![r] = Left(r)]
      BY <1>4, <2>2 DEF RequestDeletion, Left
    <2>3. QED
      BY <1>4, <2>1, <2>2 DEF RequestDeletion
  <1>5. CASE InformOfResource(r)
    BY <1>5 DEF InformOfResource
  <1>6. CASE Work(r)
    <2>1. CASE DeleteSelf(r)
      BY <2>1 DEF DeleteSelf
    <2>2. CASE StartEnsure(r)
      \* Its targets are seen ready, and none that is seen so is being destroyed.
      BY <2>2 DEF StartEnsure, TargetsReady, ResourceInv
    <2>3. CASE FinishEnsure(r)
      BY <2>3 DEF FinishEnsure
    <2>4. CASE ReleaseUnmade(r)
      BY <2>4 DEF ReleaseUnmade, Left
    <2>5. CASE StartDestroy(r)
      \* No access of it is seen, and one at work or made would be.
      BY <2>5 DEF StartDestroy, Referenced, ResourceInv
    <2>6. CASE FinishDestroy(r)
      BY <2>6 DEF FinishDestroy, Left
    <2>7. QED
      BY <1>6, <2>1, <2>2, <2>3, <2>4, <2>5, <2>6 DEF Work
  <1>7. CASE WorkFails(r)
    BY <1>7 DEF WorkFails
  <1>8. QED
    BY <1>3, <1>4, <1>5, <1>6, <1>7 DEF ResourceStep

-------------------------------------------------------------------------------
(* What a ProviderConfig under deletion waits for. *)

\* Promised are resources that are still made, with what they refer to, and their
\* ProviderConfig is under deletion.
PromiseInv ==
    \A r \in promised :
      /\ r \in Resources /\ res[r].made
      /\ api[ConfigOf[r]].exists /\ api[ConfigOf[r]].deleting
      /\ r \in Accesses => TargetsOf[r] \subseteq promised

\* A reconcile that is past a list, and may still release, has nothing promised that
\* the list would have shown.
PastTheLists(c) ==
    /\ pc[c] = "listPrincipals" => \A r \in promised \intersect Buckets : ConfigOf[r] # c
    /\ pc[c] = "release" => \A r \in promised \intersect Roots : ConfigOf[r] # c

ReleaseInv ==
    \A c \in Configs : api[c].exists /\ obj[c].rv = api[c].rv => PastTheLists(c)

OtherTypes ==
    /\ budget \in [edits: Nat, faults: Nat]
    /\ secret \in {"good", "bad"}

Inv == ConfigsInv /\ ResourcesInv /\ PromiseInv /\ ReleaseInv /\ OtherTypes

\* What is promised is shown by the informer: the lists miss none of it.
LEMMA PromisedAreListed ==
    ASSUME Inv, NEW c \in Configs, NEW r \in promised, r \in Roots, ConfigOf[r] = c
    PROVE  /\ Listed(c, Roots)
           /\ r \in Buckets => Listed(c, Buckets)
           /\ r \in Principals => Listed(c, Principals)
  <1>1. seen[r].phase # "absent"
    BY DEF Inv, PromiseInv, ResourcesInv, ResourceInv
  <1>2. QED
    BY <1>1 DEF Listed

\* A release that the server accepts leaves nothing that was promised.
LEMMA NothingPromisedAtRelease ==
    ASSUME Inv, NEW c \in Configs, pc[c] = "release", obj[c].rv = api[c].rv, api[c].exists,
           NEW r \in promised, ConfigOf[r] = c
    PROVE  FALSE
  <1>1. \A q \in promised \intersect Roots : ConfigOf[q] # c
    BY DEF Inv, ReleaseInv, PastTheLists
  <1>2. CASE r \in Accesses
    <2>1. PICK t \in TargetsOf[r] : ConfigOf[t] = c /\ t \in Roots /\ t \in promised
      BY <1>2, RootsAndAccesses DEF Inv, PromiseInv
    <2>2. QED
      BY <1>1, <2>1
  <1>3. QED
    BY <1>1, <1>2, RootsAndAccesses DEF Inv, PromiseInv

\* A step of the reconcile of one ProviderConfig.
LEMMA PromisesAtReconcile ==
    ASSUME Inv, NEW c \in Configs, ReconcileConfig(c) \/ ConfigCallFails(c),
           UNCHANGED <<res, seen, at, promised>>
    PROVE  PromiseInv' /\ ReleaseInv'
  <1>1. StepOf(c)
    BY ReconcileEffect DEF Inv, ConfigsInv
  <1>2. PromiseInv'
    <2> SUFFICES ASSUME NEW r \in promised
                 PROVE  api'[ConfigOf[r]].exists /\ api'[ConfigOf[r]].deleting
      BY DEF Inv, PromiseInv
    <2>1. api[ConfigOf[r]].exists /\ api[ConfigOf[r]].deleting /\ ConfigOf[r] \in Configs
      BY RootsAndAccesses DEF Inv, PromiseInv
    <2>2. CASE ConfigOf[r] # c
      BY <1>1, <2>1, <2>2 DEF StepOf
    <2>3. CASE ConfigOf[r] = c
      BY <1>1, <2>1, <2>3, NothingPromisedAtRelease DEF StepOf
    <2>4. QED
      BY <2>2, <2>3
  <1>3. ReleaseInv'
    <2> SUFFICES ASSUME NEW d \in Configs, api'[d].exists, obj'[d].rv = api'[d].rv
                 PROVE  PastTheLists(d)'
      BY DEF ReleaseInv
    <2>1. CASE d # c
      BY <1>1, <2>1 DEF StepOf, Inv, ReleaseInv, PastTheLists
    <2>2. CASE d = c /\ pc'[c] = "listPrincipals"
      <3>1. \A r \in promised \intersect Buckets : ConfigOf[r] # c
        BY <1>1, <2>2, PromisedAreListed DEF StepOf, Roots
      <3>2. QED
        BY <2>2, <3>1 DEF PastTheLists
    <2>3. CASE d = c /\ pc'[c] = "release"
      <3>1. \A r \in promised \intersect Principals : ConfigOf[r] # c
        BY <1>1, <2>3, PromisedAreListed DEF StepOf, Roots
      <3>2. \A r \in promised \intersect Buckets : ConfigOf[r] # c
        BY <1>1, <2>3 DEF StepOf, Inv, ReleaseInv, PastTheLists
      <3>3. QED
        BY <2>3, <3>1, <3>2 DEF PastTheLists, Roots
    <2>4. CASE d = c /\ pc'[c] \notin {"listPrincipals", "release"}
      BY <2>4 DEF PastTheLists
    <2>5. QED
      BY <2>1, <2>2, <2>3, <2>4
  <1>4. QED
    BY <1>2, <1>3

\* A version that a reconcile was at is not the last any more.
LEMMA PromisesAtCommit ==
    ASSUME Inv, NEW c \in Configs, Commits(c), UNCHANGED <<obj, pc>>,
           \A r \in promised' \ promised : ConfigOf[r] = c
    PROVE  ReleaseInv'
  <1>1. PICK o \in Objects : o.rv = api[c].rv + 1 /\ api' = [api EXCEPT ![c] = o]
    BY DEF Commits, Commit
  <1>2. obj'[c].rv # api'[c].rv
    BY <1>1, Rvs DEF Inv, ConfigsInv, ServerTypes, VersionsInv
  <1>3. \A d \in Configs \ {c} : api'[d] = api[d]
    BY <1>1 DEF Inv, ConfigsInv, ServerTypes
  <1>4. QED
    BY <1>2, <1>3 DEF Inv, ReleaseInv, PastTheLists

LEMMA PromisesAtUser ==
    ASSUME Inv, NEW c \in Configs, UserOfConfig(c)
    PROVE  PromiseInv' /\ ReleaseInv' /\ promised' \subseteq Resources
  <1>1. CASE (CreateConfig(c) \/ EditConfig(c)) /\ UNCHANGED <<secret, resourceVars>>
    <2>1. Commits(c) /\ UNCHANGED <<obj, pc>>
      BY <1>1, UserCommits DEF Inv, ConfigsInv
    <2>2. UNCHANGED <<res, promised>>
      BY <1>1 DEF resourceVars
    <2>3. ~api[c].exists \/ (api'[c].exists = api[c].exists /\ api'[c].deleting = api[c].deleting)
      <3>1. CASE CreateConfig(c)
        BY <3>1 DEF CreateConfig, Post
      <3>2. CASE EditConfig(c)
        <4>1. PICK s : Commit(c, SpecEdited(api[c], s))
          BY <3>2 DEF EditConfig, Put
        <4>2. api'[c] = SpecEdited(api[c], s) /\ api[c] \in Objects
          BY <4>1, CommitEffect DEF Inv, ConfigsInv, ServerTypes
        <4>3. QED
          BY <4>2 DEF SpecEdited, Objects, Versions
      <3>3. QED
        BY <1>1, <3>1, <3>2
    <2>4. \A d \in Configs \ {c} : api'[d] = api[d]
      BY <2>1, CommitEffect DEF Commits, Inv, ConfigsInv
    <2>5. QED
      BY <2>1, <2>2, <2>3, <2>4, PromisesAtCommit, RootsAndAccesses DEF Inv, PromiseInv
  <1> DEFINE made == {r \in Resources : ConfigOf[r] = c /\ res[r].made}
  <1>2. CASE /\ DeleteConfig(c) /\ UNCHANGED res
             /\ promised' = IF api[c].finalizer THEN promised \union made ELSE promised
    <2>1. Commits(c) /\ UNCHANGED <<obj, pc>>
      BY <1>2, UserCommits DEF Inv, ConfigsInv
    <2>2. /\ api[c].exists /\ ~api[c].deleting
          /\ api'[c] = DeletionRequested(api[c])
          /\ \A d \in Configs \ {c} : api'[d] = api[d]
      BY <1>2, CommitEffect DEF DeleteConfig, Delete, Inv, ConfigsInv
    <2>3. \A r \in promised : ConfigOf[r] # c
      BY <2>2 DEF Inv, PromiseInv
    <2>4. UNCHANGED res /\ promised' = IF api[c].finalizer THEN promised \union made ELSE promised
      BY <1>2
    <2>5. api[c].finalizer => api'[c].exists /\ api'[c].deleting
      <3>1. api[c] \in Objects
        BY DEF Inv, ConfigsInv, ServerTypes
      <3>2. QED
        BY <2>2, <3>1 DEF DeletionRequested, Objects, Versions
    <2>6. \A r \in made \intersect Accesses : TargetsOf[r] \subseteq made
      BY RootsAndAccesses DEF Inv, ResourcesInv, HoldsInv
    <2>7. PromiseInv'
      BY <2>2, <2>3, <2>4, <2>5, <2>6, RootsAndAccesses DEF Inv, PromiseInv
    <2>8. ReleaseInv'
      BY <2>1, <2>4, PromisesAtCommit
    <2>9. QED
      BY <2>4, <2>7, <2>8 DEF Inv, PromiseInv
  <1>3. QED
    BY <1>1, <1>2 DEF UserOfConfig

\* The other steps of the ProviderConfigs.
LEMMA PromisesAtQueue ==
    ASSUME Inv, UNCHANGED <<res, seen, at, promised>>,
           \/ \E c \in Configs : Inform(c) \/ Begin(c, cache[c])
           \/ Wake(ConfigsOfSecret)
           \/ UNCHANGED configVars
    PROVE  PromiseInv' /\ ReleaseInv'
  <1>1. UNCHANGED api
    BY DEF Inform, Begin, Wake, configVars
  <1>2. PromiseInv'
    BY <1>1 DEF Inv, PromiseInv
  <1>3. CASE \E c \in Configs : Begin(c, cache[c])
    <2>1. \A d \in Configs : \/ obj'[d] = obj[d] /\ pc'[d] = pc[d]
                            \/ pc'[d] \in {"prepareDelete", "check", "addFinalizer"}
      BY <1>3 DEF Begin, GoTo, FirstStep, Inv, ConfigsInv, WorkerTypes
    <2>2. QED
      BY <1>1, <1>2, <2>1 DEF Inv, ReleaseInv, PastTheLists
  <1>4. CASE ~\E c \in Configs : Begin(c, cache[c])
    <2>1. UNCHANGED <<obj, pc>>
      BY <1>4 DEF Inform, Wake, configVars
    <2>2. QED
      BY <1>1, <1>2, <2>1 DEF Inv, ReleaseInv, PastTheLists
  <1>5. QED
    BY <1>3, <1>4

LEMMA PromisesAtRestart ==
    ASSUME Inv, Crash
    PROVE  PromiseInv' /\ ReleaseInv'
  <1>1. UNCHANGED <<api, res, promised>> /\ \A c \in Configs : pc'[c] = "idle"
    BY DEF Crash, Restart
  <1>2. QED
    BY <1>1 DEF Inv, PromiseInv, ReleaseInv, PastTheLists

LEMMA PromisesAtResource ==
    ASSUME Inv, NEW r \in Resources, ResourceStep(r)
    PROVE  PromiseInv' /\ ReleaseInv'
  <1>1. UNCHANGED <<api, obj, pc>> /\ promised' \subseteq promised
    BY DEF ResourceStep, Create, RequestDeletion, InformOfResource, Work, WorkFails, configVars,
           DeleteSelf, StartEnsure, FinishEnsure, ReleaseUnmade, StartDestroy, FinishDestroy
  <1>2. ReleaseInv'
    BY <1>1 DEF Inv, ReleaseInv, PastTheLists
  <1>3. /\ \A q \in promised' : res[q].made => res'[q].made
        /\ promised' = promised \/ promised' = promised \ {r}
        /\ promised' # promised =>
             \A q \in Accesses : res[q].made => r \notin TargetsOf[q]
    <2> USE RootsAndAccesses DEF Inv, ResourcesInv, ResourceTypes, Copies
    <2>1. CASE Create(r)
      BY <2>1 DEF Create
    <2>0. \A q \in promised : q \in Resources /\ res[q] \in Copies
      BY DEF PromiseInv
    <2>2. CASE RequestDeletion(r)
      <3>1. CASE res' = [res EXCEPT ![r].phase = "deleting"]
        BY <2>0, <2>2, <3>1 DEF RequestDeletion
      <3>2. CASE ~res[r].made /\ res' = [res EXCEPT ![r] = Left(r)]
        BY <2>0, <2>2, <3>2 DEF RequestDeletion
      <3>3. QED
        BY <2>2, <3>1, <3>2 DEF RequestDeletion
    <2>3. CASE InformOfResource(r) \/ WorkFails(r)
      BY <2>3 DEF InformOfResource, WorkFails
    <2>8. CASE DeleteSelf(r)
      BY <2>0, <2>8 DEF DeleteSelf
    <2>4. CASE StartEnsure(r) \/ FinishEnsure(r) \/ StartDestroy(r)
      BY <2>0, <2>4 DEF StartEnsure, FinishEnsure, StartDestroy
    <2>5. CASE ReleaseUnmade(r)
      BY <2>5 DEF ReleaseUnmade, Left
    <2>6. CASE FinishDestroy(r)
      BY <2>6 DEF FinishDestroy, Left, HoldsInv
    <2>7. QED
      BY <2>1, <2>2, <2>3, <2>4, <2>5, <2>6, <2>8 DEF ResourceStep, Work
  <1>4. PromiseInv'
    BY <1>1, <1>3 DEF Inv, PromiseInv
  <1>5. QED
    BY <1>2, <1>4

-------------------------------------------------------------------------------

LEMMA BudgetTypes ==
    ASSUME budget \in [edits: Nat, faults: Nat], SpendEdit \/ SpendFault
    PROVE  budget' \in [edits: Nat, faults: Nat]
  <1>1. budget.edits \in Nat /\ budget.faults \in Nat
    OBVIOUS
  <1>2. CASE SpendEdit
    BY <1>1, <1>2 DEF SpendEdit
  <1>3. CASE SpendFault
    BY <1>1, <1>3 DEF SpendFault
  <1>4. QED
    BY <1>2, <1>3

LEMMA InitInv == Init => Inv
  <1> SUFFICES ASSUME Init PROVE Inv
    OBVIOUS
  <1> USE DEF Init, ConfigInit
  <1>1. ServerTypes
    <2>1. PICK s \in [Configs -> {t \in ConfigSpecs : t.valid}] :
            api = [c \in Configs |-> Created(NoObject, s[c], NoStatus)]
      OBVIOUS
    <2>2. \A c \in Configs : Created(NoObject, s[c], NoStatus) \in Objects
      BY <2>1, NoObjectType, NoStatusType, VersionTypes, ConfigsAssumption
    <2>3. QED
      BY <2>1, <2>2 DEF ServerTypes
  <1>2. WorkerTypes
    BY NoObjectType, NoPlanType DEF WorkerTypes, PCs
  <1>3. VersionsInv
    BY <1>1, Fields, NoObjectType DEF ServerTypes, VersionsInv
  <1>4. ResourceTypes
    <2>1. /\ [uid |-> 0, phase |-> "absent", made |-> FALSE] \in Copies
          /\ [uid |-> 1, phase |-> "live", made |-> FALSE] \in Copies
      BY DEF Copies
    <2>2. res \in [Resources -> Copies] /\ seen \in [Resources -> Copies]
      BY <2>1
    <2>3. QED
      BY <2>2 DEF ResourceTypes
  <1>5. ResourceInv /\ HoldsInv
    BY <1>4, RootsAndAccesses, CopyFields DEF ResourceTypes, ResourceInv, HoldsInv
  <1>6. PromiseInv /\ ReleaseInv
    BY DEF PromiseInv, ReleaseInv, PastTheLists
  <1>7. OtherTypes
    BY ConfigsAssumption DEF OtherTypes
  <1>8. QED
    BY <1>1, <1>2, <1>3, <1>4, <1>5, <1>6, <1>7 DEF Inv, ConfigsInv, ResourcesInv

LEMMA OtherTypesKept == Inv /\ Next => OtherTypes'
  <1> SUFFICES ASSUME Inv, Next
               PROVE  OtherTypes'
    OBVIOUS
  <1>1. UNCHANGED budget \/ SpendEdit \/ SpendFault
    <2>1. ASSUME NEW c \in Configs, UserOfConfig(c) PROVE SpendEdit
      BY <2>1 DEF UserOfConfig, CreateConfig, EditConfig, DeleteConfig, Post, Put, Delete
    <2>2. ASSUME NEW c \in Configs, Deliver(c) \/ Start(c) \/ Reconcile(c) PROVE UNCHANGED budget
      BY <2>2 DEF Deliver, Start, Reconcile
    <2>3. ASSUME NEW c \in Configs, ConfigCallFails(c) PROVE SpendFault
      BY <2>3 DEF ConfigCallFails
    <2>4. ASSUME NEW r \in Resources, ResourceStep(r)
          PROVE  UNCHANGED budget \/ SpendEdit \/ SpendFault
      BY <2>4 DEF ResourceStep, Create, RequestDeletion, InformOfResource, Work, WorkFails
    <2>5. QED
      BY <2>1, <2>2, <2>3, <2>4 DEF Next, SecretChanges, Crash, ResourceStep
  <1>2. secret' \in {"good", "bad"}
    <2>1. ASSUME NEW c \in Configs, UserOfConfig(c) \/ Deliver(c) \/ Start(c) \/ Reconcile(c)
          PROVE  UNCHANGED secret
      BY <2>1 DEF UserOfConfig, Deliver, Start, Reconcile
    <2>2. ASSUME NEW r \in Resources, ResourceStep(r) PROVE UNCHANGED secret
      BY <2>2 DEF ResourceStep, Create, RequestDeletion, InformOfResource, Work, WorkFails
    <2>3. QED
      BY <2>1, <2>2 DEF Next, SecretChanges, Crash, ResourceStep, Inv, OtherTypes
  <1>3. QED
    BY <1>1, <1>2, BudgetTypes DEF Inv, OtherTypes

LEMMA ResourcesInvAtRestart ==
    ASSUME ResourcesInv, Crash
    PROVE  ResourcesInv'
  <1>1. /\ UNCHANGED res /\ seen' = res
        /\ at' = [r \in Resources |-> "idle"]
    BY DEF Crash
  <1>2. \A r \in Resources : res[r].uid \in Nat /\ (res[r].made => res[r].phase # "absent")
    BY CopyFields DEF ResourcesInv, ResourceTypes
  <1>3. QED
    BY <1>1, <1>2, RootsAndAccesses DEF ResourcesInv, ResourceTypes, ResourceInv, HoldsInv

LEMMA ResourcesInvUntouched ==
    ASSUME ResourcesInv, UNCHANGED <<res, seen, at>>
    PROVE  ResourcesInv'
  BY DEF ResourcesInv, ResourceTypes, ResourceInv, HoldsInv

LEMMA NextKeepsInv == Inv /\ [Next]_vars => Inv'
  <1> SUFFICES ASSUME Inv, [Next]_vars
               PROVE  Inv'
    OBVIOUS
  <1> USE DEF Inv
  <1>1. OtherTypes'
    BY OtherTypesKept DEF vars, OtherTypes
  <1>2. ASSUME NEW c \in Configs, UserOfConfig(c)
        PROVE  Inv'
    <2>1. UNCHANGED <<res, seen, at>>
      BY <1>2 DEF UserOfConfig, resourceVars
    <2>2. CreateConfig(c) \/ EditConfig(c) \/ DeleteConfig(c)
      BY <1>2 DEF UserOfConfig
    <2>3. QED
      BY <1>1, <1>2, <2>1, <2>2, ConfigsStep, ResourcesInvUntouched, PromisesAtUser
  <1>3. ASSUME NEW c \in Configs, Deliver(c) \/ Start(c) PROVE Inv'
    <2>1. UNCHANGED <<res, seen, at, promised>> /\ (Inform(c) \/ Begin(c, cache[c]))
      BY <1>3 DEF Deliver, Start, resourceVars
    <2>2. QED
      BY <1>1, <2>1, ConfigsStep, ResourcesInvUntouched, PromisesAtQueue
  <1>4. ASSUME NEW c \in Configs,
               Reconcile(c) \/ (ConfigCallFails(c) /\ UNCHANGED <<secret, resourceVars>>)
        PROVE  Inv'
    <2>1. UNCHANGED <<res, seen, at, promised>> /\ (ReconcileConfig(c) \/ ConfigCallFails(c))
      BY <1>4 DEF Reconcile, resourceVars
    <2>2. QED
      BY <1>1, <2>1, ConfigsStep, ResourcesInvUntouched, PromisesAtReconcile
  <1>5. CASE SecretChanges /\ UNCHANGED resourceVars
    <2>1. UNCHANGED <<res, seen, at, promised>> /\ Wake(ConfigsOfSecret)
      BY <1>5 DEF SecretChanges, resourceVars
    <2>2. QED
      BY <1>1, <2>1, ConfigsStep, ResourcesInvUntouched, PromisesAtQueue
  <1>6. ASSUME NEW r \in Resources, ResourceStep(r) PROVE Inv'
    <2>1. UNCHANGED configVars
      BY <1>6 DEF ResourceStep, Create, RequestDeletion, InformOfResource, Work, WorkFails
    <2>2. ResourcesInv'
      BY <1>6, ResourceTypesKept, ResourceInvKept, HoldsInvKept DEF ResourcesInv
    <2>3. QED
      BY <1>1, <1>6, <2>1, <2>2, ConfigsStep, PromisesAtResource
  <1>7. CASE Crash
    <2>1. Restart
      BY <1>7 DEF Crash
    <2>2. QED
      BY <1>1, <1>7, <2>1, ConfigsStep, ResourcesInvAtRestart, PromisesAtRestart
  <1>8. CASE UNCHANGED vars
    <2>1. UNCHANGED <<res, seen, at, promised>> /\ UNCHANGED configVars
      BY <1>8 DEF vars, resourceVars
    <2>2. QED
      BY <1>1, <2>1, ConfigsStep, ResourcesInvUntouched, PromisesAtQueue
  <1>9. QED
    BY <1>2, <1>3, <1>4, <1>5, <1>6, <1>7, <1>8 DEF Next, ResourceStep

LEMMA InvAlways == Spec => []Inv
  BY InitInv, NextKeepsInv, PTL DEF Spec

\* Every state has its types: nothing is made of a resource that is gone.
THEOREM TypeCorrect == Spec => []TypeOK
  <1>1. Inv => TypeOK
    BY DEF Inv, ConfigsInv, ServerTypes, WorkerTypes, Plans, ResourcesInv, ResourceTypes,
           PromiseInv, OtherTypes, TypeOK, ConfigTypeOK
  <1>2. QED
    BY <1>1, InvAlways, PTL

\* No access outlives the Bucket or the CloudPrincipal it is for, however late the
\* informer is.
THEOREM TargetsOutliveAccesses == Spec => []AccessesHaveTargets
  <1>1. Inv => AccessesHaveTargets
    BY RootsAndAccesses, CopyFields
    DEF Inv, ResourcesInv, ResourceTypes, HoldsInv, AccessesHaveTargets
  <1>2. QED
    BY <1>1, InvAlways, PTL

\* A ProviderConfig outlives all that was made with it when its deletion was asked.
THEOREM ConfigsGoLast == Spec => []NothingStranded
  <1>1. Inv => NothingStranded
    BY DEF Inv, PromiseInv, NothingStranded
  <1>2. QED
    BY <1>1, InvAlways, PTL
-------------------------------------------------------------------------------
(* The controllers together implement DeletionProtocol. *)

\* The variables of the protocol.
opened == {c \in Configs : api[c].exists}
asked == {c \in Configs : api[c].exists /\ api[c].deleting}
held == {r \in Resources : res[r].made}

LEMMA ProtocolInit == Init => Protocol!Init
  <1> SUFFICES ASSUME Init PROVE Protocol!Init
    OBVIOUS
  <1>1. \A c \in Configs : api[c].exists /\ ~api[c].deleting
    BY DEF Init, ConfigInit, Created
  <1>2. \A r \in Resources : ~res[r].made
    BY DEF Init
  <1>3. QED
    BY <1>1, <1>2 DEF Init, Protocol!Init

\* A step that leaves every ProviderConfig there, or under deletion, and every
\* resource made, as it was.
LEMMA ProtocolStutters ==
    ASSUME \A c \in Configs : /\ api'[c].exists = api[c].exists
                              /\ api'[c].deleting = api[c].deleting,
           \A r \in Resources : res'[r].made = res[r].made,
           UNCHANGED promised
    PROVE  UNCHANGED Protocol!vars
  <1>1. opened' = opened /\ asked' = asked
    BY DEF opened, asked
  <1>2. held' = held
    BY DEF held
  <1>3. QED
    BY <1>1, <1>2 DEF Protocol!vars, opened, asked, held

\* One ProviderConfig goes: nothing that was promised is left of it.
LEMMA ProtocolLeave ==
    ASSUME NEW c \in Configs, api[c].exists, ~api'[c].exists,
           \A d \in Configs \ {c} : api'[d] = api[d],
           \A r \in promised : ConfigOf[r] # c,
           UNCHANGED <<res, promised>>
    PROVE  Protocol!Next
  <1>1. c \in opened /\ opened' = opened \ {c} /\ asked' = asked \ {c} /\ held' = held
    BY DEF opened, asked, held
  <1>2. Protocol!Leave(c)
    BY <1>1 DEF Protocol!Leave, opened, asked, held
  <1>3. QED
    BY <1>2 DEF Protocol!Next

LEMMA ProtocolUser ==
    ASSUME Inv, NEW c \in Configs, UserOfConfig(c)
    PROVE  [Protocol!Next]_(Protocol!vars)
  <1>1. api[c] \in Objects
    BY DEF Inv, ConfigsInv, ServerTypes
  <1>2. UNCHANGED res
    BY DEF UserOfConfig, resourceVars
  <1>3. CASE CreateConfig(c) /\ UNCHANGED resourceVars
    <2>1. PICK s : ~api[c].exists /\ Commit(c, Created(api[c], s, NoStatus))
      BY <1>3 DEF CreateConfig, Post
    <2>2. /\ api'[c].exists /\ ~api'[c].deleting
          /\ \A d \in Configs \ {c} : api'[d] = api[d]
      BY <2>1, CommitEffect DEF Created, Inv, ConfigsInv
    <2>3. /\ c \notin opened /\ opened' = opened \union {c}
          /\ asked' = asked /\ held' = held /\ promised' = promised
      BY <1>2, <1>3, <2>1, <2>2 DEF opened, asked, held, resourceVars
    <2>4. Protocol!Open(c)
      BY <2>3 DEF Protocol!Open, opened, asked, held
    <2>5. QED
      BY <2>4 DEF Protocol!Next
  <1>4. CASE EditConfig(c) /\ UNCHANGED resourceVars
    <2>1. PICK s : Commit(c, SpecEdited(api[c], s))
      BY <1>4 DEF EditConfig, Put
    <2>2. /\ api'[c] = SpecEdited(api[c], s)
          /\ \A d \in Configs \ {c} : api'[d] = api[d]
      BY <2>1, CommitEffect DEF Inv, ConfigsInv
    <2>3. api'[c].exists = api[c].exists /\ api'[c].deleting = api[c].deleting
      BY <1>1, <2>2 DEF SpecEdited, Objects, Versions
    <2>4. UNCHANGED Protocol!vars
      BY <1>2, <1>4, <2>2, <2>3, ProtocolStutters DEF resourceVars
    <2>5. QED
      BY <2>4
  <1> DEFINE made == {r \in Resources : ConfigOf[r] = c /\ res[r].made}
  <1>5. CASE DeleteConfig(c) /\ promised' = IF api[c].finalizer THEN promised \union made
                                                              ELSE promised
    <2>1. /\ api[c].exists /\ ~api[c].deleting
          /\ api'[c] = DeletionRequested(api[c])
          /\ \A d \in Configs \ {c} : api'[d] = api[d]
      BY <1>5, CommitEffect DEF DeleteConfig, Delete, Inv, ConfigsInv
    <2>2. CASE api[c].finalizer
      <3>1. api'[c].exists /\ api'[c].deleting
        BY <1>1, <2>1, <2>2 DEF DeletionRequested, Objects, Versions
      <3>2. /\ c \in opened \ asked /\ opened' = opened /\ asked' = asked \union {c}
            /\ held' = held
        BY <1>2, <2>1, <3>1 DEF opened, asked, held
      <3>3. promised' = promised \union {r \in held : ConfigOf[r] = c}
        BY <1>5, <2>2 DEF held
      <3>4. Protocol!Close(c)
        BY <3>2, <3>3 DEF Protocol!Close, opened, asked, held
      <3>5. QED
        BY <3>4 DEF Protocol!Next
    <2>3. CASE ~api[c].finalizer
      <3>1. ~api'[c].exists
        BY <1>1, <2>1, <2>3 DEF DeletionRequested, Gone, Objects, Versions
      <3>2. \A r \in promised : ConfigOf[r] # c
        BY <2>1 DEF Inv, PromiseInv
      <3>3. UNCHANGED <<res, promised>>
        BY <1>2, <1>5, <2>3
      <3>4. QED
        BY <2>1, <3>1, <3>2, <3>3, ProtocolLeave
    <2>4. QED
      BY <2>2, <2>3
  <1>6. QED
    BY <1>3, <1>4, <1>5 DEF UserOfConfig

LEMMA ProtocolReconcile ==
    ASSUME Inv, NEW c \in Configs, ReconcileConfig(c) \/ ConfigCallFails(c),
           UNCHANGED <<res, promised>>
    PROVE  [Protocol!Next]_(Protocol!vars)
  <1>1. StepOf(c)
    BY ReconcileEffect DEF Inv, ConfigsInv
  <1>2. CASE api'[c].exists = api[c].exists /\ api'[c].deleting = api[c].deleting
    <2>1. UNCHANGED Protocol!vars
      BY <1>1, <1>2, ProtocolStutters DEF StepOf
    <2>2. QED
      BY <2>1
  <1>3. CASE /\ pc[c] = "release" /\ api[c].exists /\ obj[c].rv = api[c].rv
             /\ ~api'[c].exists
    <2>1. \A r \in promised : ConfigOf[r] # c
      BY <1>3, NothingPromisedAtRelease
    <2>2. QED
      BY <1>1, <1>3, <2>1, ProtocolLeave DEF StepOf
  <1>4. QED
    BY <1>1, <1>2, <1>3 DEF StepOf

LEMMA ProtocolResource ==
    ASSUME Inv, NEW r \in Resources, ResourceStep(r)
    PROVE  [Protocol!Next]_(Protocol!vars)
  <1>1. UNCHANGED api
    BY DEF ResourceStep, Create, RequestDeletion, InformOfResource, Work, WorkFails, configVars
  <1>2. opened' = opened /\ asked' = asked
    BY <1>1 DEF opened, asked
  <1>3. /\ res \in [Resources -> Copies] /\ seen \in [Resources -> Copies]
        /\ \A q \in Resources : res[q].phase = "absent" => ~res[q].made
        /\ \A q \in Resources : res[q].made \in BOOLEAN
    BY CopyFields DEF Inv, ResourcesInv, ResourceTypes
  <1>4. ASSUME UNCHANGED promised, \A q \in Resources : res'[q].made = res[q].made
        PROVE  UNCHANGED Protocol!vars
    BY <1>1, <1>4, ProtocolStutters
  <1>5. CASE Create(r)
    <2>1. \A q \in Resources : res'[q].made = res[q].made
      BY <1>3, <1>5 DEF Create, Copies
    <2>2. QED
      BY <1>4, <1>5, <2>1 DEF Create
  <1>6. CASE RequestDeletion(r) \/ DeleteSelf(r)
    <2>1. \A q \in Resources : res'[q].made = res[q].made
      BY <1>3, <1>6 DEF RequestDeletion, DeleteSelf, Left, Copies
    <2>2. QED
      BY <1>4, <1>6, <2>1 DEF RequestDeletion, DeleteSelf
  <1>7. CASE InformOfResource(r) \/ WorkFails(r) \/ StartEnsure(r) \/ StartDestroy(r)
    BY <1>4, <1>7 DEF InformOfResource, WorkFails, StartEnsure, StartDestroy
  <1>8. CASE FinishEnsure(r)
    <2>1. /\ \A q \in Resources \ {r} : res'[q].made = res[q].made
          /\ res'[r].made
      BY <1>3, <1>8 DEF FinishEnsure, Copies
    <2>2. held' = held \union {r}
      BY <2>1 DEF held
    <2>3. TargetsOf[r] \subseteq held
      <3>1. CASE r \in Accesses
        BY <1>8, <3>1, RootsAndAccesses
        DEF FinishEnsure, Inv, ResourcesInv, HoldsInv, held
      <3>2. CASE r \in Roots
        BY <3>2, TargetsAssumption
      <3>3. QED
        BY <3>1, <3>2, RootsAndAccesses
    <2>4. Protocol!Make(r)
      BY <1>2, <1>8, <2>2, <2>3 DEF FinishEnsure, Protocol!Make, opened, asked, held
    <2>5. QED
      BY <2>4 DEF Protocol!Next
  <1>9. CASE ReleaseUnmade(r)
    \* What was never made is not promised either.
    <2>1. ~res[r].made /\ res' = [res EXCEPT ![r] = Left(r)] /\ promised' = promised \ {r}
      BY <1>3, <1>9 DEF ReleaseUnmade
    <2>2. \A q \in Resources : res'[q].made = res[q].made
      BY <1>3, <2>1 DEF Left, Copies
    <2>3. promised' = promised
      BY <2>1 DEF Inv, PromiseInv
    <2>4. QED
      BY <1>4, <2>2, <2>3
  <1>10. CASE FinishDestroy(r)
    <2>1. /\ \A q \in Resources \ {r} : res'[q].made = res[q].made
          /\ ~res'[r].made
      BY <1>3, <1>10 DEF FinishDestroy, Left, Copies
    <2>2. held' = held \ {r}
      BY <2>1 DEF held
    <2>3. \A q \in held : r \notin TargetsOf[q]
      <3> SUFFICES ASSUME NEW q \in Resources, res[q].made, r \in TargetsOf[q]
                   PROVE  FALSE
        BY DEF held
      <3>1. q \in Accesses
        BY RootsAndAccesses, TargetsAssumption
      <3>2. QED
        BY <1>10, <3>1 DEF FinishDestroy, Inv, ResourcesInv, HoldsInv
    <2>4. Protocol!Unmake(r)
      BY <1>2, <1>10, <2>2, <2>3 DEF FinishDestroy, Protocol!Unmake, opened, asked, held
    <2>5. QED
      BY <2>4 DEF Protocol!Next
  <1>11. QED
    BY <1>5, <1>6, <1>7, <1>8, <1>9, <1>10 DEF ResourceStep, Work

LEMMA ProtocolStep ==
    ASSUME Inv, [Next]_vars
    PROVE  [Protocol!Next]_(Protocol!vars)
  <1>1. ASSUME UNCHANGED <<api, res, promised>> PROVE [Protocol!Next]_(Protocol!vars)
    BY <1>1, ProtocolStutters
  <1>2. ASSUME NEW c \in Configs, Deliver(c) \/ Start(c)
        PROVE  [Protocol!Next]_(Protocol!vars)
    BY <1>1, <1>2 DEF Deliver, Inform, Start, Begin, resourceVars
  <1>3. ASSUME NEW c \in Configs,
               Reconcile(c) \/ (ConfigCallFails(c) /\ UNCHANGED <<secret, resourceVars>>)
        PROVE  [Protocol!Next]_(Protocol!vars)
    BY <1>3, ProtocolReconcile DEF Reconcile, resourceVars
  <1>4. CASE SecretChanges /\ UNCHANGED resourceVars
    BY <1>1, <1>4 DEF SecretChanges, Wake, resourceVars
  <1>5. CASE Crash \/ UNCHANGED vars
    BY <1>1, <1>5 DEF Crash, Restart, vars, configVars, resourceVars
  <1>6. QED
    BY <1>2, <1>3, <1>4, <1>5, ProtocolUser, ProtocolResource DEF Next, ResourceStep

\* Whatever the informers show and whenever the operator dies: a Bucket or a
\* CloudPrincipal is made before what is granted on it and unmade after it, and a
\* ProviderConfig stays, once its deletion is asked for, until all that was made
\* with it then is unmade.
THEOREM ImplementsProtocol == Spec => KeepsDeletionProtocol
  <1>1. Init => Protocol!Init
    BY ProtocolInit
  <1>2. Inv /\ [Next]_vars => [Protocol!Next]_(Protocol!vars)
    BY ProtocolStep
  <1>3. QED
    BY <1>1, <1>2, InvAlways, PTL DEF Spec, KeepsDeletionProtocol, Protocol!Spec
-------------------------------------------------------------------------------
(* A ProviderConfig that counts as Ready is fit to be used.  The informer may   *)
(* show an older version, or one of an older ProviderConfig of the name, and    *)
(* every report is made of such a version.                                      *)

\* The versions the informer shows, or has still to show.
Known(c) == {cache[c]} \union watch[c]

Alive(v) == v.exists /\ v.finalizer /\ ~v.deleting

InEnsure(c) == pc[c] \in {"check", "patchReady"}

InDelete(c) == pc[c] \in {"prepareDelete", "listPrincipals", "release"}

\* A version number identifies the version, the informer is behind and shows them in
\* order, and a claim is given up only when nothing older is under way.
InformerFollows(c) ==
    /\ Followed(api[c], cache[c], watch[c])
    /\ \A v \in Known(c) : v.rv = api[c].rv => v = api[c]
    /\ \A v \in watch[c] : cache[c].rv <= v.rv
    /\ \A v \in Known(c) : Alive(v) => Claimed(api[c])

\* The worker claims and deletes what the informer shows, checks what is asked for, or
\* what has been edited since, and reports a failure as one.
WorkerFollows(c) ==
    /\ pc[c] # "idle" /\ obj[c].rv = api[c].rv => obj[c] = api[c]
    /\ pc[c] = "addFinalizer" => obj[c].rv <= cache[c].rv /\ ~obj[c].deleting
    /\ InEnsure(c) => /\ Claimed(api[c])
                      /\ Current(api[c], cache[c], obj[c])
                      /\ obj[c].gen = api[c].gen => ~api[c].deleting
    /\ InDelete(c) => obj[c].deleting /\ obj[c].rv <= cache[c].rv
    /\ pc[c] = "patchReady" => obj[c].spec.valid
    /\ pc[c] = "report" => plan[c].reason # "Reconciled"

Fit(v) == Reported(v) /\ v.status.gen = v.gen => v.spec.valid /\ ~v.deleting

Fitness(c) == InformerFollows(c) /\ WorkerFollows(c) /\ Fit(api[c])

LEMMA FitFacts ==
    ASSUME ConfigsInv, NEW c \in Configs
    PROVE  /\ api[c] \in Versions(Specs, Statuses)
           /\ cache[c] \in Versions(Specs, Statuses)
           /\ obj[c] \in Versions(Specs, Statuses)
           /\ watch[c] \in SUBSET Versions(Specs, Statuses)
           /\ Past(api[c], cache[c], watch[c])
           /\ obj[c].rv <= api[c].rv
           /\ \A s \in Statuses : s.gen \in Nat
  <1>1. Past(api[c], cache[c], watch[c]) /\ obj[c].rv <= api[c].rv
    BY DEF ConfigsInv, VersionsInv, Past
  <1>2. /\ api[c] \in Objects /\ cache[c] \in Objects /\ obj[c] \in Objects
        /\ watch[c] \in SUBSET Objects
    BY DEF ConfigsInv, ServerTypes, WorkerTypes
  <1>3. QED
    BY <1>1, <1>2 DEF Objects, Statuses

LEMMA FitNumbers ==
    ASSUME ConfigsInv, NEW c \in Configs
    PROVE  /\ api[c].rv \in Nat /\ cache[c].rv \in Nat /\ obj[c].rv \in Nat
           /\ api[c].gen \in Nat /\ cache[c].gen \in Nat /\ obj[c].gen \in Nat
           /\ api[c].status.gen \in Nat
           /\ \A v \in watch[c] : v.rv \in Nat /\ v.gen \in Nat
  BY FitFacts, VersionFields

SameVersions(c) == api'[c] = api[c] /\ cache'[c] = cache[c] /\ watch'[c] = watch[c]

Untouched(c) ==
    /\ SameVersions(c)
    /\ pc'[c] = pc[c] /\ obj'[c] = obj[c] /\ plan'[c] = plan[c]

LEMMA FitUntouched ==
    ASSUME NEW c \in Configs, Fitness(c), Untouched(c)
    PROVE  Fitness(c)'
  <1>1. InformerFollows(c)' /\ Fit(api[c])'
    BY DEF Fitness, InformerFollows, Known, Untouched, SameVersions
  <1>2. WorkerFollows(c)'
    BY DEF Fitness, WorkerFollows, InEnsure, InDelete, Untouched, SameVersions
  <1>3. QED
    BY <1>1, <1>2 DEF Fitness

\* A step of the reconcile between two writes to the API server.
LEMMA FitMoves ==
    ASSUME NEW c \in Configs, Fitness(c), SameVersions(c), obj'[c] = obj[c], pc[c] # "idle",
           pc'[c] # "addFinalizer",
           InEnsure(c)' => InEnsure(c), InDelete(c)' => InDelete(c),
           pc'[c] = "patchReady" => obj[c].spec.valid,
           pc'[c] = "report" => plan'[c].reason # "Reconciled"
    PROVE  Fitness(c)'
  <1>1. InformerFollows(c)' /\ Fit(api[c])'
    BY DEF Fitness, InformerFollows, Known, SameVersions
  <1>2. WorkerFollows(c)'
    BY DEF Fitness, WorkerFollows, SameVersions
  <1>3. QED
    BY <1>1, <1>2 DEF Fitness

LEMMA FitReturns ==
    ASSUME NEW c \in Configs, Fitness(c), SameVersions(c), pc'[c] = "idle"
    PROVE  Fitness(c)'
  <1>1. InformerFollows(c)' /\ Fit(api[c])'
    BY DEF Fitness, InformerFollows, Known, SameVersions
  <1>2. WorkerFollows(c)'
    BY DEF WorkerFollows, InEnsure, InDelete
  <1>3. QED
    BY <1>1, <1>2 DEF Fitness

LEMMA FitInit == Init => \A c \in Configs : Fitness(c)
  <1> SUFFICES ASSUME Init, NEW c \in Configs PROVE Fitness(c)
    OBVIOUS
  <1>1. PICK s \in [Configs -> {t \in ConfigSpecs : t.valid}] :
          api = [d \in Configs |-> Created(NoObject, s[d], NoStatus)]
    BY DEF Init, ConfigInit
  <1>2. /\ cache[c] = api[c] /\ watch[c] = {} /\ pc[c] = "idle"
        /\ api[c].status.reason = "None" /\ ~api[c].finalizer
        /\ api[c].uid = api[c].rv /\ api[c].rv = 1 /\ api[c].gen = 1
    BY <1>1, NoObjectType DEF Init, ConfigInit, Created, NoStatus
  <1>3. InformerFollows(c)
    BY <1>2 DEF InformerFollows, Known, Alive, Followed, Orderly, Precedes, Claimed, Reported
  <1>4. WorkerFollows(c) /\ Fit(api[c])
    BY <1>2 DEF WorkerFollows, Fit, InEnsure, InDelete, Reported
  <1>5. QED
    BY <1>3, <1>4 DEF Fitness

\* What of the informer a write that claims nothing new leaves true.
LEMMA InformerAtWrite ==
    ASSUME ConfigsInv, NEW c \in Configs, InformerFollows(c),
           NEW o \in Objects, Succeeds(o, api[c]),
           api'[c] = o, watch'[c] = watch[c] \union {o}, cache'[c] = cache[c],
           Claimed(o) => cache[c].uid = o.uid,
           (\E v \in Known(c) : Alive(v)) => Claimed(o),
           Reported(o) => o.finalizer /\ o.status.gen <= cache[c].gen
    PROVE  InformerFollows(c)'
  <1>1. o \in Versions(Specs, Statuses) /\ o.rv \in Nat
    BY VersionFields DEF Objects
  <1>2. Followed(o, cache[c], watch[c] \union {o})
    BY <1>1, FitFacts, FollowedWrites DEF InformerFollows
  <1>3. \A v \in Known(c) : v.rv < o.rv
    BY FitFacts, FitNumbers DEF Known, Past, Succeeds
  <1>4. Known(c)' = Known(c) \union {o}
    BY DEF Known
  <1>5. \A v \in Known(c)' : v.rv = o.rv => v = o
    BY <1>1, <1>3, <1>4, FitNumbers DEF Known
  <1>6. \A v \in watch[c] \union {o} : cache[c].rv <= v.rv
    BY <1>1, <1>3, FitNumbers DEF InformerFollows, Known
  <1>7. \A v \in Known(c)' : Alive(v) => Claimed(o)
    BY <1>4 DEF Alive, Claimed
  <1>8. QED
    BY <1>2, <1>5, <1>6, <1>7 DEF InformerFollows

\* A write that claims nothing new and reports no more than what the worker is at.
LEMMA FitWrites ==
    ASSUME ConfigsInv, NEW c \in Configs, Fitness(c),
           NEW o \in Objects, Succeeds(o, api[c]),
           api'[c] = o, watch'[c] = watch[c] \union {o}, cache'[c] = cache[c],
           Claimed(o) => Claimed(api[c]) /\ o.uid = api[c].uid,
           (\E v \in Known(c) : Alive(v)) => Claimed(o),
           InEnsure(c)' => Claimed(o),
           \/ o.gen = api[c].gen /\ o.spec = api[c].spec /\ o.deleting = api[c].deleting
           \/ o.gen = api[c].gen + 1
           \/ ~Claimed(api[c]),
           Reported(o) => \/ Reported(api[c]) /\ o.status.gen = api[c].status.gen
                             /\ o.finalizer = api[c].finalizer
                          \/ InEnsure(c) /\ o.status.gen = obj[c].gen
                             /\ o.finalizer = api[c].finalizer,
           Fit(o),
           \/ pc'[c] = pc[c] /\ obj'[c] = obj[c] /\ plan'[c] = plan[c]
           \/ pc'[c] = "idle"
    PROVE  Fitness(c)'
  <1>1. /\ InformerFollows(c) /\ WorkerFollows(c)
        /\ Followed(api[c], cache[c], watch[c])
    BY DEF Fitness, InformerFollows
  <1>2. o \in Versions(Specs, Statuses) /\ o.rv \in Nat /\ o.gen \in Nat
    BY VersionFields DEF Objects
  <1>3. Reported(o) => o.finalizer /\ o.status.gen <= cache[c].gen
    <2>1. ASSUME Reported(api[c]), o.status.gen = api[c].status.gen,
                 o.finalizer = api[c].finalizer
          PROVE  o.finalizer /\ o.status.gen <= cache[c].gen
      BY <1>1, <2>1 DEF Followed
    <2>2. ASSUME InEnsure(c), o.status.gen = obj[c].gen, o.finalizer = api[c].finalizer
          PROVE  o.finalizer /\ o.status.gen <= cache[c].gen
      BY <1>1, <2>2 DEF WorkerFollows, Claimed, Current
    <2>3. QED
      BY <2>1, <2>2
  <1>4. InformerFollows(c)'
    <2>1. Claimed(o) => cache[c].uid = o.uid
      BY <1>1 DEF Followed
    <2>2. QED
      BY <1>1, <1>3, <2>1, InformerAtWrite
  <1>5. WorkerFollows(c)'
    <2>1. CASE pc'[c] = "idle"
      BY <2>1 DEF WorkerFollows, InEnsure, InDelete
    <2>2. CASE pc'[c] = pc[c] /\ obj'[c] = obj[c] /\ plan'[c] = plan[c]
      <3>1. obj[c].rv # o.rv
        BY FitFacts, FitNumbers DEF Succeeds
      <3>2. ASSUME InEnsure(c)
            PROVE  /\ Claimed(o) /\ Current(o, cache[c], obj[c])
                   /\ obj[c].gen = o.gen => ~o.deleting
        <4>1. /\ Claimed(api[c]) /\ Current(api[c], cache[c], obj[c])
              /\ obj[c].gen = api[c].gen => ~api[c].deleting
          BY <1>1, <3>2 DEF WorkerFollows
        <4>2. Reported(o) => o.status.gen <= obj[c].gen
          BY <4>1, FitNumbers DEF Current
        <4>3. Current(o, cache[c], obj[c])
          BY <1>1, <1>2, <4>1, <4>2, FitFacts, CurrentWrites
        <4>4. obj[c].gen <= api[c].gen
          <5>1. cache[c].gen <= api[c].gen
            BY <1>1, <4>1, FitFacts, CachedPrecedes DEF Precedes
          <5>2. QED
            BY <4>1, <5>1, FitNumbers DEF Current
        <4>5. obj[c].gen = o.gen => ~o.deleting
          BY <4>1, <4>4, FitNumbers
        <4>6. Claimed(o)
          BY <2>2, <3>2 DEF InEnsure
        <4>7. QED
          BY <4>3, <4>5, <4>6
      <3>3. QED
        BY <1>1, <2>2, <3>1, <3>2 DEF WorkerFollows, InEnsure, InDelete
    <2>3. QED
      BY <2>1, <2>2
  <1>6. QED
    BY <1>4, <1>5 DEF Fitness

\* The effect of a write on one ProviderConfig.
LEMMA CommitVersionsOf ==
    ASSUME ServerTypes, NEW c \in Configs, NEW o, Commit(c, o)
    PROVE  api'[c] = o /\ watch'[c] = watch[c] \union {o}
  BY DEF ServerTypes, Commit

\* Nothing newer is reported than there is.
LEMMA ReportsArePast ==
    ASSUME ConfigsInv, NEW c \in Configs, Fitness(c), Reported(api[c])
    PROVE  api[c].finalizer /\ api[c].status.gen <= api[c].gen
  <1>1. Followed(api[c], api[c], {})
    BY FitFacts, FollowedRelists DEF Fitness, InformerFollows
  <1>2. QED
    BY <1>1 DEF Followed

LEMMA FitUser ==
    ASSUME ConfigsInv, NEW c \in Configs, Fitness(c),
           CreateConfig(c) \/ EditConfig(c) \/ DeleteConfig(c)
    PROVE  Fitness(c)'
  <1>1. /\ cache'[c] = cache[c] /\ pc'[c] = pc[c] /\ obj'[c] = obj[c] /\ plan'[c] = plan[c]
        /\ InEnsure(c)' = InEnsure(c)
    BY UserCommits DEF ConfigsInv, InEnsure
  <1>2. /\ api[c] \in Objects /\ api[c].spec \in Specs /\ api[c].status \in Statuses
        /\ api[c] \in Versions(Specs, Statuses)
        /\ api[c].gen \in Nat /\ api[c].status.gen \in Nat
        /\ ServerTypes
    BY FitFacts, FitNumbers, Fields DEF ConfigsInv, ServerTypes
  <1>3. /\ (\E v \in Known(c) : Alive(v)) => Claimed(api[c])
        /\ InEnsure(c) => Claimed(api[c])
    BY DEF Fitness, InformerFollows, WorkerFollows
  <1>4. CASE CreateConfig(c)
    <2>1. PICK s \in ConfigSpecs : Commit(c, Created(api[c], s, NoStatus)) /\ ~api[c].exists
      BY <1>4 DEF CreateConfig, Post
    <2> DEFINE o == Created(api[c], s, NoStatus)
    <2>2. o \in Objects /\ Succeeds(o, api[c])
      BY <1>2, NoStatusType, VersionTypes, WritesSucceed, ConfigsAssumption
    <2>3. ~Claimed(o) /\ ~Claimed(api[c]) /\ ~Reported(o) /\ Fit(o)
      BY <2>1 DEF Claimed, Reported, Fit, Created, NoStatus
    <2>4. api'[c] = o /\ watch'[c] = watch[c] \union {o}
      BY <1>2, <2>1, CommitVersionsOf
    <2> HIDE DEF o
    <2>5. QED
      BY <1>1, <1>3, <2>2, <2>3, <2>4, FitWrites
  <1>5. CASE EditConfig(c)
    <2>1. PICK s \in ConfigSpecs : Commit(c, SpecEdited(api[c], s)) /\ api[c].exists
      BY <1>5 DEF EditConfig, Put
    <2> DEFINE o == SpecEdited(api[c], s)
    <2>2. o \in Objects /\ Succeeds(o, api[c])
      BY <1>2, NoStatusType, VersionTypes, WritesSucceed, ConfigsAssumption
    <2>3. /\ o.uid = api[c].uid /\ o.gen = api[c].gen + 1 /\ o.status = api[c].status
          /\ o.exists = api[c].exists /\ o.finalizer = api[c].finalizer
      BY <1>2 DEF SpecEdited, Versions
    <2>4. api'[c] = o /\ watch'[c] = watch[c] \union {o}
      BY <1>2, <2>1, CommitVersionsOf
    <2> HIDE DEF o
    <2>5. /\ Claimed(o) <=> Claimed(api[c])
          /\ Reported(o) => Reported(api[c])
      BY <2>3 DEF Claimed, Reported
    <2>6. Fit(o)
      BY <1>2, <2>3, <2>5, ReportsArePast DEF Fit
    <2>7. QED
      BY <1>1, <1>3, <2>2, <2>3, <2>4, <2>5, <2>6, FitWrites
  <1>6. CASE DeleteConfig(c)
    <2>1. Commit(c, DeletionRequested(api[c])) /\ api[c].exists
      BY <1>6 DEF DeleteConfig, Delete
    <2> DEFINE o == DeletionRequested(api[c])
    <2>2. o \in Objects /\ Succeeds(o, api[c])
      BY <1>2, NoStatusType, VersionTypes, WritesSucceed
    <2>3. api'[c] = o /\ watch'[c] = watch[c] \union {o}
      BY <1>2, <2>1, CommitVersionsOf
    <2>4. CASE api[c].finalizer
      <3>1. /\ o.uid = api[c].uid /\ o.gen = api[c].gen + 1 /\ o.status = api[c].status
            /\ o.exists /\ o.finalizer
        BY <1>2, <2>1, <2>4 DEF DeletionRequested, Versions
      <3> HIDE DEF o
      <3>2. /\ Claimed(o) /\ Claimed(api[c])
            /\ Reported(o) => Reported(api[c])
        BY <2>1, <2>4, <3>1 DEF Claimed, Reported
      <3>3. Fit(o)
        BY <1>2, <3>1, <3>2, ReportsArePast DEF Fit
      <3>4. o.finalizer = api[c].finalizer
        BY <1>2, <2>4, <3>1, <2>2, VersionFields DEF Objects
      <3>5. QED
        BY <1>1, <2>2, <2>3, <3>1, <3>2, <3>3, <3>4, FitWrites
    <2>5. CASE ~api[c].finalizer
      <3>1. ~o.exists /\ o.gen = api[c].gen /\ o.spec = api[c].spec
        BY <1>2, <2>5 DEF DeletionRequested, Gone, Versions
      <3>2. ~Claimed(o) /\ ~Claimed(api[c]) /\ ~Reported(o) /\ Fit(o)
        BY <2>5, <3>1 DEF Claimed, Reported, Fit
      <3> HIDE DEF o
      <3>3. QED
        BY <1>1, <1>3, <2>2, <2>3, <3>2, FitWrites
    <2>6. QED
      BY <2>4, <2>5
  <1>7. QED
    BY <1>4, <1>5, <1>6

LEMMA FitDeliver ==
    ASSUME ConfigsInv, NEW c \in Configs, Fitness(c), Inform(c)
    PROVE  Fitness(c)'
  <1>1. PICK v \in watch[c] : /\ Earliest(watch[c], v)
                              /\ cache' = [cache EXCEPT ![c] = v]
                              /\ watch' = [watch EXCEPT ![c] = @ \ {v}]
    BY DEF Inform
  <1>2. /\ cache'[c] = v /\ watch'[c] = watch[c] \ {v}
        /\ UNCHANGED <<api, pc, obj, plan>>
    BY <1>1 DEF Inform, ConfigsInv, ServerTypes
  <1>3. /\ Followed(api[c], v, watch[c] \ {v})
        /\ Claimed(api[c]) => cache[c].gen <= v.gen
    BY <1>1, FitFacts, FollowedDelivers DEF Fitness, InformerFollows
  <1>4. InformerFollows(c)'
    <2>1. Known(c)' \subseteq Known(c)
      BY <1>2 DEF Known
    <2>2. \A u \in watch[c] \ {v} : v.rv <= u.rv
      BY <1>1 DEF Earliest
    <2>3. QED
      BY <1>2, <1>3, <2>1, <2>2 DEF Fitness, InformerFollows
  <1>5. WorkerFollows(c)'
    <2>1. cache[c].rv <= v.rv /\ v.rv \in Nat /\ v.gen \in Nat
      BY FitNumbers DEF Fitness, InformerFollows
    <2>2. pc[c] = "addFinalizer" => obj[c].rv <= v.rv
      BY <2>1, FitNumbers DEF Fitness, WorkerFollows
    <2>3. InDelete(c) => obj[c].rv <= v.rv
      BY <2>1, FitNumbers DEF Fitness, WorkerFollows
    <2>4. InEnsure(c) => Current(api[c], v, obj[c])
      BY <1>3, <2>1, FitNumbers DEF Fitness, WorkerFollows, Current
    <2>5. QED
      BY <1>2, <2>2, <2>3, <2>4 DEF Fitness, WorkerFollows, InEnsure, InDelete
  <1>6. QED
    BY <1>2, <1>4, <1>5 DEF Fitness

LEMMA FitStart ==
    ASSUME ConfigsInv, NEW c \in Configs, Fitness(c), Begin(c, cache[c])
    PROVE  Fitness(c)'
  <1>1. UNCHANGED <<api, cache, watch, plan>>
    BY DEF Begin
  <1>2. CASE UNCHANGED <<pc, obj>>
    BY <1>1, <1>2, FitUntouched DEF Untouched, SameVersions
  <1>3. CASE /\ obj' = [obj EXCEPT ![c] = cache[c]]
             /\ GoTo(c, FirstStep(cache[c]))
             /\ cache[c].exists
    <2>1. pc'[c] = FirstStep(cache[c]) /\ obj'[c] = cache[c]
      BY <1>3 DEF GoTo, ConfigsInv, WorkerTypes
    <2>2. InformerFollows(c)' /\ Fit(api[c])'
      BY <1>1 DEF Fitness, InformerFollows, Known
    <2>3. cache[c].rv = api[c].rv => cache[c] = api[c]
      BY DEF Fitness, InformerFollows, Known
    <2>4. ASSUME InEnsure(c)'
          PROVE  /\ Claimed(api[c]) /\ Current(api[c], cache[c], cache[c])
                 /\ cache[c].gen = api[c].gen => ~api[c].deleting
      <3>1. Alive(cache[c])
        BY <1>3, <2>1, <2>4 DEF InEnsure, FirstStep, Alive
      <3>2. Claimed(api[c])
        BY <3>1 DEF Fitness, InformerFollows, Known
      <3>3. /\ Current(api[c], cache[c], cache[c])
            /\ cache[c].gen = api[c].gen => cache[c].deleting = api[c].deleting
        BY <3>2, FitFacts, CurrentStarts DEF Fitness, InformerFollows
      <3>4. QED
        BY <3>1, <3>2, <3>3 DEF Alive
    <2>5. InDelete(c)' => cache[c].deleting
      BY <2>1 DEF InDelete, FirstStep
    <2>6. /\ pc'[c] \notin {"patchReady", "report"}
          /\ pc'[c] = "addFinalizer" => ~cache[c].deleting
          /\ cache[c].rv <= cache[c].rv
      BY <2>1, FitNumbers DEF FirstStep
    <2>7. WorkerFollows(c)'
      <3>1. api'[c] = api[c] /\ cache'[c] = cache[c]
        BY <1>1
      <3>2. InDelete(c)' => obj'[c].deleting /\ obj'[c].rv <= cache'[c].rv
        BY <2>1, <2>5, <2>6, <3>1
      <3>3. InEnsure(c)' => /\ Claimed(api'[c])
                            /\ Current(api'[c], cache'[c], obj'[c])
                            /\ obj'[c].gen = api'[c].gen => ~api'[c].deleting
        BY <2>1, <2>4, <3>1
      <3>4. obj'[c].rv = api'[c].rv => obj'[c] = api'[c]
        BY <2>1, <2>3, <3>1
      <3>5. pc'[c] = "addFinalizer" => obj'[c].rv <= cache'[c].rv /\ ~obj'[c].deleting
        BY <2>1, <2>6, <3>1
      <3>6. QED
        BY <2>6, <3>2, <3>3, <3>4, <3>5 DEF WorkerFollows
    <2>8. QED
      BY <2>2, <2>7 DEF Fitness
  <1>4. QED
    BY <1>2, <1>3 DEF Begin

LEMMA FitCrash ==
    ASSUME ConfigsInv, NEW c \in Configs, Fitness(c), Restart
    PROVE  Fitness(c)'
  <1>1. api'[c] = api[c] /\ cache'[c] = api[c] /\ watch'[c] = {} /\ pc'[c] = "idle"
    BY DEF Restart
  <1>2. Followed(api[c], api[c], {})
    BY FitFacts, FollowedRelists DEF Fitness, InformerFollows
  <1>3. InformerFollows(c)'
    BY <1>1, <1>2 DEF InformerFollows, Known, Alive, Claimed
  <1>4. WorkerFollows(c)'
    BY <1>1 DEF WorkerFollows, InEnsure, InDelete
  <1>5. QED
    BY <1>1, <1>3, <1>4 DEF Fitness

\* The finalizer is added to the version that was read, which the informer shows.
LEMMA FitClaim ==
    ASSUME ConfigsInv, NEW c \in Configs, Fitness(c), Claim(c)
    PROVE  Fitness(c)'
  <1>1. CASE ~Accepts(api[c], obj[c])
    <2>1. pc'[c] = "idle" /\ SameVersions(c)
      BY <1>1, FinishEffect DEF Claim, ConfigsInv, SameVersions
    <2>2. QED
      BY <2>1, FitReturns
  <1>2. CASE Accepts(api[c], obj[c])
    <2> DEFINE o == FinalizerAdded(api[c])
    <2>1. /\ Commit(c, o) /\ cache'[c] = cache[c]
          /\ pc[c] = "addFinalizer" /\ pc'[c] = "check" /\ obj'[c] = o
      BY <1>2 DEF Claim, GoTo, ConfigsInv, WorkerTypes
    <2>2. api'[c] = o /\ watch'[c] = watch[c] \union {o}
      BY <2>1, CommitVersionsOf DEF ConfigsInv
    <2>3. o \in Objects /\ Succeeds(o, api[c])
      <3>1. api[c] \in Objects /\ api[c].spec \in Specs
        BY Fields DEF ConfigsInv, ServerTypes
      <3>2. QED
        BY <3>1, NoStatusType, VersionTypes, FitFacts, WritesSucceed
    <2>4. /\ o.uid = api[c].uid /\ o.gen = api[c].gen /\ o.spec = api[c].spec
          /\ o.status = api[c].status /\ o.deleting = api[c].deleting
          /\ o.exists /\ api[c].exists /\ o.finalizer
      BY <1>2, FitFacts DEF Accepts, FinalizerAdded, Versions
    <2>5. cache[c] = api[c] /\ ~api[c].deleting
      <3>1. /\ obj[c].rv = api[c].rv /\ obj[c].rv <= cache[c].rv /\ cache[c].rv <= api[c].rv
            /\ ~obj[c].deleting /\ obj[c] = api[c]
        BY <1>2, <2>1, FitFacts DEF Accepts, Fitness, WorkerFollows, Past
      <3>2. cache[c].rv = api[c].rv
        BY <3>1, FitNumbers
      <3>3. QED
        BY <3>1, <3>2 DEF Fitness, InformerFollows, Known
    <2> HIDE DEF o
    <2>6. Reported(o) => o.finalizer /\ o.status.gen <= cache[c].gen
      BY <2>4 DEF Fitness, InformerFollows, Followed, Reported
    <2>7. Claimed(o)
      BY <2>4 DEF Claimed
    <2>8. InformerFollows(c)'
      BY <2>1, <2>2, <2>3, <2>4, <2>5, <2>6, <2>7, InformerAtWrite DEF Fitness
    <2>9. WorkerFollows(c)'
      <3>1. Current(o, cache[c], o)
        <4>1. o.gen <= cache[c].gen
          BY <2>4, <2>5, FitNumbers
        <4>2. QED
          BY <2>4, <2>5, <2>6, <4>1 DEF Current
      <3>2. QED
        BY <2>1, <2>2, <2>4, <2>5, <2>7, <3>1 DEF WorkerFollows, InDelete
    <2>10. Fit(o)
      BY <2>4 DEF Fitness, Fit, Reported
    <2>11. QED
      BY <2>2, <2>8, <2>9, <2>10 DEF Fitness
  <1>3. QED
    BY <1>1, <1>2

\* A status patch reports Ready what the worker has checked.
LEMMA FitPatch ==
    ASSUME ConfigsInv, NEW c \in Configs, Fitness(c),
           NEW reason \in Reasons, NEW retry, Patch(c, reason, retry),
           reason = "Reconciled" => pc[c] = "patchReady"
    PROVE  Fitness(c)'
  <1> DEFINE new == [reason |-> reason, gen |-> obj[c].gen]
             o == StatusWritten(api[c], new)
  <1>1. /\ pc'[c] = "idle" /\ cache'[c] = cache[c]
        /\ UNCHANGED <<api, watch>> \/ (api[c].exists /\ Commit(c, o))
    <2>1. PatchStatus(c, new, IF Differs(c, new) THEN new ELSE api[c].status, retry)
      BY DEF Patch
    <2>2. pc'[c] = "idle" /\ cache'[c] = cache[c]
      BY <2>1, FinishEffect DEF PatchStatus, ConfigsInv
    <2>3. UNCHANGED <<api, watch>> \/ (api[c].exists /\ Commit(c, o))
      BY <2>1 DEF PatchStatus, SendPatch
    <2>4. QED
      BY <2>2, <2>3
  <1>2. CASE UNCHANGED <<api, watch>>
    BY <1>1, <1>2, FitReturns DEF SameVersions
  <1>3. CASE api[c].exists /\ Commit(c, o)
    <2>1. /\ api[c] \in Objects /\ api[c].spec \in Specs /\ new \in Statuses
      BY FitNumbers, Fields DEF Statuses, ConfigsInv, ServerTypes
    <2> HIDE DEF new
    <2>2. o \in Objects /\ Succeeds(o, api[c])
      BY <2>1, VersionTypes, FitFacts, WritesSucceed
    <2>3. /\ o.uid = api[c].uid /\ o.gen = api[c].gen /\ o.spec = api[c].spec
          /\ o.exists = api[c].exists /\ o.finalizer = api[c].finalizer
          /\ o.deleting = api[c].deleting /\ o.status = new
      BY <2>1 DEF StatusWritten, Objects, Versions
    <2>4. api'[c] = o /\ watch'[c] = watch[c] \union {o}
      BY <1>3, CommitVersionsOf DEF ConfigsInv
    <2> HIDE DEF o
    <2>5. Claimed(o) <=> Claimed(api[c])
      BY <2>3 DEF Claimed
    <2>6. ASSUME Reported(o)
          PROVE  /\ pc[c] = "patchReady" /\ InEnsure(c)
                 /\ o.status.gen = obj[c].gen /\ o.finalizer = api[c].finalizer
      BY <2>3, <2>6 DEF Reported, InEnsure, new
    <2>7. Fit(o)
      <3> SUFFICES ASSUME Reported(o), o.status.gen = o.gen
                   PROVE  o.spec.valid /\ ~o.deleting
        BY DEF Fit
      <3>1. /\ obj[c].gen = api[c].gen /\ Current(api[c], cache[c], obj[c])
            /\ obj[c].spec.valid /\ ~api[c].deleting
        BY <2>3, <2>6 DEF Fitness, WorkerFollows
      <3>2. QED
        BY <2>3, <3>1 DEF Current
    <2>8. /\ (\E v \in Known(c) : Alive(v)) => Claimed(o)
          /\ ~InEnsure(c)'
      BY <1>1, <2>5 DEF Fitness, InformerFollows, InEnsure
    <2>9. QED
      BY <1>1, <2>2, <2>3, <2>4, <2>5, <2>6, <2>7, <2>8, FitWrites
  <1>4. QED
    BY <1>1, <1>2, <1>3

\* A release leaves nothing under way that is not under deletion.
LEMMA FitRelease ==
    ASSUME ConfigsInv, NEW c \in Configs, Fitness(c), Release(c)
    PROVE  Fitness(c)'
  <1>1. pc'[c] = "idle" /\ cache'[c] = cache[c] /\ pc[c] = "release"
    BY FinishEffect DEF Release, ConfigsInv
  <1>2. CASE ~Accepts(api[c], obj[c])
    BY <1>1, <1>2, FitReturns DEF Release, SameVersions
  <1>3. CASE Accepts(api[c], obj[c])
    <2> DEFINE o == Gone(api[c])
    <2>1. Commit(c, o)
      BY <1>3 DEF Release
    <2>2. o \in Objects /\ Succeeds(o, api[c])
      <3>1. api[c] \in Objects /\ api[c].spec \in Specs
        BY Fields DEF ConfigsInv, ServerTypes
      <3>2. QED
        BY <3>1, NoStatusType, VersionTypes, FitFacts, WritesSucceed
    <2>3. /\ ~o.exists /\ o.gen = api[c].gen /\ o.spec = api[c].spec
          /\ o.deleting = api[c].deleting
      BY FitFacts DEF Gone, Versions
    <2>4. api'[c] = o /\ watch'[c] = watch[c] \union {o}
      BY <2>1, CommitVersionsOf DEF ConfigsInv
    <2> HIDE DEF o
    <2>5. ~Claimed(o) /\ ~Reported(o) /\ Fit(o)
      BY <2>3 DEF Claimed, Reported, Fit
    <2>6. ASSUME NEW v \in Known(c) PROVE ~Alive(v)
      <3>1. /\ obj[c].rv = api[c].rv /\ obj[c].rv <= cache[c].rv
            /\ obj[c].deleting /\ obj[c] = api[c]
        BY <1>1, <1>3 DEF Accepts, Fitness, WorkerFollows, InDelete
      <3>2. cache[c].rv <= v.rv /\ v.rv <= api[c].rv /\ v.rv \in Nat
        BY FitFacts, FitNumbers DEF Fitness, InformerFollows, Known, Past
      <3>3. v.rv = api[c].rv
        BY <3>1, <3>2, FitNumbers
      <3>4. QED
        BY <3>1, <3>3 DEF Fitness, InformerFollows, Alive
    <2>7. ~InEnsure(c)'
      BY <1>1 DEF InEnsure
    <2>8. QED
      BY <1>1, <2>2, <2>3, <2>4, <2>5, <2>6, <2>7, FitWrites
  <1>4. QED
    BY <1>2, <1>3

LEMMA FitReconcile ==
    ASSUME ConfigsInv, NEW c \in Configs, Fitness(c), ReconcileConfig(c) \/ ConfigCallFails(c)
    PROVE  Fitness(c)'
  <1>1. pc \in [Configs -> PCs] /\ plan \in [Configs -> Plans] /\ WorkerTypes
    BY DEF ConfigsInv, WorkerTypes
  <1>2. ASSUME NEW retry, Return(c, retry) PROVE Fitness(c)'
    BY <1>1, <1>2, FinishEffect, FitReturns DEF Return, SameVersions
  <1>3. ASSUME NEW reason \in Reasons, NEW retry, Reporting(c, reason, retry),
               reason # "Reconciled", pc[c] # "idle"
        PROVE  Fitness(c)'
    <2>1. /\ SameVersions(c) /\ obj'[c] = obj[c] /\ pc'[c] = "report"
          /\ plan'[c].reason = reason
      BY <1>1, <1>3 DEF Reporting, GoTo, SameVersions
    <2>2. QED
      BY <1>3, <2>1, FitMoves DEF InEnsure, InDelete
  <1>4. {"ProviderConfigError", "InvalidSpec"} \subseteq Reasons
    BY DEF Reasons
  <1>5. CASE Check(c)
    <2>1. CASE obj[c].spec.valid /\ Proceed(c, "patchReady")
      <3>1. SameVersions(c) /\ obj'[c] = obj[c] /\ pc'[c] = "patchReady" /\ pc[c] = "check"
        BY <1>1, <1>5, <2>1 DEF Check, Proceed, GoTo, SameVersions
      <3>2. QED
        BY <2>1, <3>1, FitMoves DEF InEnsure, InDelete
    <2>2. CASE \/ Reporting(c, "ProviderConfigError", TRUE)
               \/ Reporting(c, "InvalidSpec", FALSE)
      BY <1>3, <1>4, <1>5, <2>2 DEF Check
    <2>3. QED
      BY <1>5, <2>1, <2>2 DEF Check
  <1>6. CASE PatchReady(c)
    BY <1>6, FitPatch DEF PatchReady, Reasons
  <1>7. CASE Report(c)
    <2>1. plan[c].reason \in Reasons /\ plan[c].reason # "Reconciled"
      BY <1>1, <1>7 DEF Report, Plans, Fitness, WorkerFollows
    <2>2. QED
      BY <1>7, <2>1, FitPatch DEF Report
  <1>8. CASE PrepareDelete(c) \/ ListPrincipals(c)
    <2>1. CASE Return(c, TRUE)
      BY <1>2, <2>1
    <2>2. CASE Proceed(c, "listPrincipals") \/ Proceed(c, "release")
      <3>1. /\ SameVersions(c) /\ obj'[c] = obj[c] /\ pc'[c] \in {"listPrincipals", "release"}
            /\ pc[c] # "idle" /\ InDelete(c)
        BY <1>1, <1>8, <2>2 DEF PrepareDelete, ListPrincipals, Proceed, GoTo, SameVersions, InDelete
      <3>2. QED
        BY <3>1, FitMoves DEF InEnsure
    <2>3. QED
      BY <1>8, <2>1, <2>2 DEF PrepareDelete, ListPrincipals
  <1>9. CASE ConfigCallFails(c)
    BY <1>2, <1>3, <1>4, <1>9 DEF ConfigCallFails
  <1>10. QED
    BY <1>5, <1>6, <1>7, <1>8, <1>9, FitClaim, FitRelease DEF ReconcileConfig

\* What a step for d leaves of c's variables.
LEMMA OthersKeep ==
    ASSUME ConfigsInv, NEW c \in Configs, NEW d \in Configs, d # c,
           \/ CreateConfig(d) \/ EditConfig(d) \/ DeleteConfig(d)
           \/ Inform(d) \/ Begin(d, cache[d])
           \/ ReconcileConfig(d) \/ ConfigCallFails(d)
    PROVE  Untouched(c)
  <1> USE DEF Untouched, SameVersions, ConfigsInv, ServerTypes, WorkerTypes, Commit, Finish, GoTo
  <1>1. CASE CreateConfig(d) \/ EditConfig(d) \/ DeleteConfig(d)
    BY <1>1 DEF CreateConfig, Post, EditConfig, Put, DeleteConfig, Delete
  <1>2. CASE Inform(d)
    BY <1>2 DEF Inform
  <1>3. CASE Begin(d, cache[d])
    BY <1>3 DEF Begin
  <1>4. CASE Claim(d)
    BY <1>4 DEF Claim
  <1>5. CASE Check(d)
    BY <1>5 DEF Check, Proceed, Reporting
  <1>6. CASE PatchReady(d) \/ Report(d)
    BY <1>6 DEF PatchReady, Report, Patch, PatchStatus, SendPatch
  <1>7. CASE PrepareDelete(d) \/ ListPrincipals(d)
    BY <1>7 DEF PrepareDelete, ListPrincipals, Return, Proceed
  <1>8. CASE Release(d)
    BY <1>8 DEF Release
  <1>9. CASE ConfigCallFails(d)
    BY <1>9 DEF ConfigCallFails, Return, Reporting
  <1>10. QED
    BY <1>1, <1>2, <1>3, <1>4, <1>5, <1>6, <1>7, <1>8, <1>9 DEF ReconcileConfig

LEMMA FitStep ==
    ASSUME ConfigsInv, NEW c \in Configs, Fitness(c), [Next]_vars
    PROVE  Fitness(c)'
  <1>1. CASE UNCHANGED <<api, cache, watch, pc, obj, plan>>
    BY <1>1, FitUntouched DEF Untouched, SameVersions
  <1>2. ASSUME NEW d \in Configs,
               \/ CreateConfig(d) \/ EditConfig(d) \/ DeleteConfig(d)
               \/ Inform(d) \/ Begin(d, cache[d])
               \/ ReconcileConfig(d) \/ ConfigCallFails(d)
        PROVE  Fitness(c)'
    <2>1. CASE d = c
      BY <1>2, <2>1, FitUser, FitDeliver, FitStart, FitReconcile
    <2>2. CASE d # c
      BY <1>2, <2>2, OthersKeep, FitUntouched
    <2>3. QED
      BY <2>1, <2>2
  <1>3. ASSUME NEW d \in Configs, UserOfConfig(d) \/ Deliver(d) \/ Start(d) \/ Reconcile(d)
        PROVE  Fitness(c)'
    BY <1>2, <1>3 DEF UserOfConfig, Deliver, Start, Reconcile
  <1>4. CASE SecretChanges \/ UNCHANGED vars
    BY <1>1, <1>4 DEF SecretChanges, Wake, vars, configVars
  <1>5. ASSUME NEW r \in Resources, ResourceStep(r) PROVE Fitness(c)'
    <2>1. UNCHANGED configVars
      BY <1>5 DEF ResourceStep, Create, RequestDeletion, InformOfResource, Work, WorkFails
    <2>2. QED
      BY <1>1, <2>1 DEF configVars
  <1>6. CASE Crash
    BY <1>6, FitCrash DEF Crash
  <1>7. QED
    BY <1>2, <1>3, <1>4, <1>5, <1>6 DEF Next, ResourceStep

\* Whatever is edited, asked to go, or created anew under the name while a reconcile is
\* under way on an older copy: a ProviderConfig that counts as Ready was checked for what
\* it is now, holds its finalizer and is not going.
THEOREM ReadyIsFit == Spec => []ReadyMeansFit
  <1> DEFINE AllFit == \A c \in Configs : Fitness(c)
  <1>1. Init => AllFit
    BY FitInit
  <1>2. Inv /\ AllFit /\ [Next]_vars => AllFit'
    BY FitStep DEF Inv
  <1>3. AllFit => ReadyMeansFit
    BY DEF Fitness, Fit, InformerFollows, Followed, Reported, IsReady, ReadyMeansFit
  <1> HIDE DEF AllFit
  <1>4. QED
    BY <1>1, <1>2, <1>3, InvAlways, PTL DEF Spec
===============================================================================
