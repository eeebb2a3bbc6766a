----------------------- MODULE CloudPrincipalAuth_proofs -----------------------
(***************************************************************************)
(* Proofs about CloudPrincipalAuth, for every set of resources, for either *)
(* cloud and method and for every bound on edits, failures, late reads and *)
(* keys.                                                                   *)
(***************************************************************************)
EXTENDS CloudPrincipalAuth, TLAPS

-------------------------------------------------------------------------------
(* Types. *)

\* What the API server makes of a version is a version.
LEMMA VersionTypes ==
    ASSUME NEW o \in Objects, NEW s \in Specs, NEW t \in Statuses
    PROVE  /\ Created(o, s, t) \in Objects
           /\ SpecEdited(o, s) \in Objects
           /\ StatusWritten(o, t) \in Objects
           /\ FinalizerAdded(o) \in Objects
           /\ Gone(o) \in Objects
           /\ DeletionRequested(o) \in Objects
  <1> USE DEF Objects, Versions
  <1>1. o.rv + 1 \in Nat /\ o.gen + 1 \in Nat
    OBVIOUS
  <1>2. Created(o, s, t) \in Objects
    BY <1>1 DEF Created
  <1>3. SpecEdited(o, s) \in Objects
    BY <1>1 DEF SpecEdited
  <1>4. StatusWritten(o, t) \in Objects
    BY <1>1 DEF StatusWritten
  <1>5. FinalizerAdded(o) \in Objects
    BY <1>1 DEF FinalizerAdded
  <1>6. Gone(o) \in Objects
    BY <1>1 DEF Gone
  <1>7. DeletionRequested(o) \in Objects
    BY <1>1, <1>6 DEF DeletionRequested
  <1>8. QED
    BY <1>2, <1>3, <1>4, <1>5, <1>6, <1>7

LEMMA NoStatusType == NoStatus \in Statuses
  BY DEF NoStatus, Statuses, Reasons

LEMMA NoObjectType == NoObject \in Objects
  <1>1. \E s \in Specs : TRUE
    <2>1. [method |-> "StaticCredentials", policy |-> "Delete"] \in Specs
      BY DEF Specs
    <2>2. QED
      BY <2>1
  <1>2. (CHOOSE s \in Specs : TRUE) \in Specs
    BY <1>1
  <1>3. QED
    BY <1>2, NoStatusType DEF NoObject, NeverCreated, Objects, Versions

RecordSets == {{}} \union {{r} : r \in Applieds}

\* The ids in status.applied.
IdsOf(rs) == {r.id : r \in rs}

LEMMA ObjectFields ==
    ASSUME NEW o \in Objects
    PROVE  /\ o.rv \in Nat /\ o.uid \in Nat /\ o.gen \in Nat
           /\ o.exists \in BOOLEAN /\ o.deleting \in BOOLEAN
           /\ o.finalizer \in BOOLEAN
           /\ o.spec \in Specs /\ o.status \in Statuses
           /\ o.status.applied \in RecordSets
           /\ RecordedIds(o) = IdsOf(o.status.applied)
           /\ RecordedIds(o) \subseteq Ids
  <1>1. /\ o.rv \in Nat /\ o.uid \in Nat /\ o.gen \in Nat
        /\ o.exists \in BOOLEAN /\ o.deleting \in BOOLEAN
        /\ o.finalizer \in BOOLEAN
        /\ o.spec \in Specs /\ o.status \in Statuses
    BY DEF Objects, Versions
  <1>2. o.status.applied \in RecordSets
    BY <1>1 DEF Statuses, RecordSets
  <1>3. RecordedIds(o) = IdsOf(o.status.applied)
    BY DEF RecordedIds, IdsOf
  <1>4. RecordedIds(o) \subseteq Ids
    BY <1>2, <1>3 DEF RecordSets, IdsOf, Applieds
  <1>5. QED
    BY <1>1, <1>2, <1>3, <1>4

\* Merging two records into a third gives at most one.  What is recorded in the status
\* that is sent and on the server stays; what is sent and is not in the cached status
\* is recorded then; and a patch that says nothing of it changes nothing.
LEMMA MergedAppliedType ==
    ASSUME NEW base \in RecordSets, NEW new \in RecordSets, NEW current \in RecordSets
    PROVE  /\ MergedApplied(base, new, current) \in RecordSets
           /\ IdsOf(MergedApplied(base, new, current)) \subseteq IdsOf(new) \union IdsOf(current)
           /\ IdsOf(new) = IdsOf(current)
              => IdsOf(MergedApplied(base, new, current)) = IdsOf(current)
           /\ new # {} /\ IdsOf(new) \intersect IdsOf(base) = {}
              => IdsOf(MergedApplied(base, new, current)) = IdsOf(new)
           /\ new = base => MergedApplied(base, new, current) = current
  <1> DEFINE m == MergedApplied(base, new, current)
  <1>1. CASE new = base
    BY <1>1 DEF MergedApplied, IdsOf
  <1>2. CASE new # base /\ current = {}
    BY <1>2 DEF MergedApplied, IdsOf
  <1>3. CASE new # base /\ new = {}
    <2>1. m = {}
      BY <1>3 DEF MergedApplied
    <2>2. QED
      <3>1. IdsOf(m) = {} /\ m \in RecordSets
        BY <2>1 DEF IdsOf, RecordSets
      <3>2. QED
        BY <1>3, <3>1 DEF IdsOf
  <1>4. CASE new # base /\ new # {} /\ current # {} /\ base = {}
    <2>1. PICK r \in Applieds : new = {r}
      BY <1>4 DEF RecordSets
    <2>2. PICK c \in Applieds : current = {c}
      BY <1>4 DEF RecordSets
    <2> DEFINE g == [id |-> r.id, ref |-> r.ref \/ c.ref]
    <2>3. m = {g}
      BY <1>4, <2>1, <2>2 DEF MergedApplied
    <2>4. g \in Applieds /\ g.id = r.id
      BY DEF Applieds
    <2>5. IdsOf(m) = {r.id} /\ IdsOf(new) = {r.id} /\ m \in RecordSets
      BY <2>1, <2>3, <2>4 DEF IdsOf, RecordSets
    <2>6. QED
      BY <1>4, <2>5
  <1>5. CASE new # base /\ new # {} /\ current # {} /\ base # {}
    <2>1. PICK r \in Applieds : new = {r}
      BY <1>5 DEF RecordSets
    <2>2. PICK c \in Applieds : current = {c}
      BY <1>5 DEF RecordSets
    <2>3. PICK b \in Applieds : base = {b}
      BY <1>5 DEF RecordSets
    <2> DEFINE g == [id |-> MergedField(b.id, r.id, c.id), ref |-> MergedField(b.ref, r.ref, c.ref)]
    <2>4. m = {g}
      BY <1>5, <2>1, <2>2, <2>3 DEF MergedApplied
    <2>5. g \in Applieds /\ g.id \in {r.id, c.id} /\ (r.id # b.id => g.id = r.id)
      BY DEF Applieds, MergedField
    <2>6. /\ IdsOf(m) = {g.id} /\ IdsOf(new) = {r.id} /\ IdsOf(current) = {c.id}
          /\ IdsOf(base) = {b.id} /\ m \in RecordSets
      BY <2>1, <2>2, <2>3, <2>4, <2>5 DEF IdsOf, RecordSets
    <2>7. QED
      BY <1>5, <2>5, <2>6
  <1>6. QED
    BY <1>1, <1>2, <1>3, <1>4, <1>5

LEMMA MergedType ==
    ASSUME NEW base \in Statuses, NEW new \in Statuses, NEW current \in Statuses
    PROVE  /\ Merged(base, new, current) \in Statuses
           /\ Merged(base, new, current).applied
                = MergedApplied(base.applied, new.applied, current.applied)
  <1>1. /\ base.applied \in RecordSets /\ new.applied \in RecordSets
        /\ current.applied \in RecordSets
    BY DEF Statuses, RecordSets
  <1>2. MergedApplied(base.applied, new.applied, current.applied) \in RecordSets
    BY <1>1, MergedAppliedType
  <1>3. QED
    BY <1>2 DEF Merged, Statuses, RecordSets

-------------------------------------------------------------------------------
(* What types rest on: keys are numbered in the order they are made, and a     *)
(* step that handles a key has one.                                            *)

\* The steps that handle credentials.
Handling == {"secret", "emptySecret", "settle", "dropKey", "patchKey",
             "serviceAccount", "annotate", "patch",
             "disown", "deleteKey", "unannotate", "noteAbsent", "noteFailure"}

KeyInHand ==
    \A n \in CloudPrincipalAuths :
      pc[n] \in Handling => obj[n].status.applied # {}

\* The numbers of the keys made so far.
Numbers == 1 .. (setting.keys - budget.keys)

Credentials == {Binding} \union Numbers

\* The versions of a resource that somebody has or will have.
Seen(n) == {api[n], cache[n], obj[n]} \union watch[n]

KeysNumbered ==
    /\ budget.keys <= setting.keys
    /\ \A n \in CloudPrincipalAuths :
         /\ live[n] \subseteq Credentials
         /\ young[n] \subseteq Numbers
         /\ lost[n] \subseteq Numbers
         /\ \A v \in Seen(n) : RecordedIds(v) \subseteq Credentials

Base == TypeOK /\ KeyInHand /\ KeysNumbered

\* The parts of TypeOK.
ReconcilerTypes ==
    /\ api \in [CloudPrincipalAuths -> Objects]
    /\ cache \in [CloudPrincipalAuths -> Objects]
    /\ watch \in [CloudPrincipalAuths -> SUBSET Objects]
    /\ queue \subseteq CloudPrincipalAuths
    /\ pc \in [CloudPrincipalAuths -> PCs]
    /\ obj \in [CloudPrincipalAuths -> Objects]
    /\ plan \in [CloudPrincipalAuths -> Plans]

BudgetTypes ==
    budget \in [edits: Nat, faults: Nat, lags: Nat, keys: Nat]

EnvironmentTypes ==
    /\ setting \in Settings
    /\ principal \in {"ready", "notReady", "absent", "deleting", "reference"}
    /\ provider \in {"ok", "absent", "notReady", "factoryError", "restricted"}

KeysTypes ==
    /\ live \in [CloudPrincipalAuths -> SUBSET Ids]
    /\ young \in [CloudPrincipalAuths -> SUBSET Ids]
    /\ lost \in [CloudPrincipalAuths -> SUBSET Ids]
    /\ inherited \in [CloudPrincipalAuths -> SUBSET Ids]

SecretsTypes ==
    /\ secret \in [CloudPrincipalAuths -> Secrets]
    /\ cachedSecret \in [CloudPrincipalAuths -> Secrets]
    /\ secretNews \in [CloudPrincipalAuths -> {"none", "quiet", "wakes"}]

AccountTypes ==
    serviceAccount \in [CloudPrincipalAuths -> {"absent", "plain", "annotated"}]

LEMMA TypeParts ==
    TypeOK <=> /\ ReconcilerTypes /\ BudgetTypes /\ EnvironmentTypes
               /\ KeysTypes /\ SecretsTypes /\ AccountTypes
  BY DEF TypeOK, ReconcilerTypes, BudgetTypes, EnvironmentTypes, KeysTypes, SecretsTypes,
         AccountTypes

LEMMA TypePartsNext ==
    TypeOK' <=> /\ ReconcilerTypes' /\ BudgetTypes' /\ EnvironmentTypes'
                /\ KeysTypes' /\ SecretsTypes' /\ AccountTypes'
  BY DEF TypeOK, ReconcilerTypes, BudgetTypes, EnvironmentTypes, KeysTypes, SecretsTypes,
         AccountTypes

LEMMA SettingFacts ==
    ASSUME EnvironmentTypes
    PROVE  /\ setting.edits \in Nat /\ setting.faults \in Nat
           /\ setting.lags \in Nat /\ setting.keys \in Nat
           /\ setting.cloud \in {"gcp", "yc"}
           /\ setting.method \in {"StaticCredentials", "WorkloadIdentity"}
           /\ 1 .. setting.keys \subseteq Ids
           /\ Binding \in Ids
  BY ConstantsAssumption DEF EnvironmentTypes, Ids

LEMMA KnownTypes ==
    ASSUME ReconcilerTypes, NEW n \in CloudPrincipalAuths
    PROVE  /\ api[n] \in Objects /\ cache[n] \in Objects /\ obj[n] \in Objects
           /\ Seen(n) \subseteq Objects
           /\ plan[n].reason \in Reasons /\ plan[n].retry \in BOOLEAN
  BY DEF ReconcilerTypes, Seen, Plans

\* The credentials in hand are what the in-memory object records.
LEMMA InHand ==
    ASSUME ReconcilerTypes, KeyInHand, NEW n \in CloudPrincipalAuths,
           \/ pc[n] \in Handling
           \/ obj[n].status.applied # {}
    PROVE  RecordedIds(obj[n]) = {Id(n)} /\ Id(n) \in Ids
  <1>1. obj[n].status.applied # {}
    BY DEF KeyInHand
  <1>2. PICK r \in Applieds : obj[n].status.applied = {r}
    BY <1>1, KnownTypes, ObjectFields DEF RecordSets
  <1>3. RecordedIds(obj[n]) = {r.id} /\ r.id \in Ids
    BY <1>2 DEF RecordedIds, Applieds
  <1>4. QED
    BY <1>3 DEF Id

-------------------------------------------------------------------------------
(* Types, piece by piece. *)

LEMMA FinishTypes ==
    ASSUME ReconcilerTypes, NEW n \in CloudPrincipalAuths, NEW retry, Finish(n, retry)
    PROVE  /\ pc' \in [CloudPrincipalAuths -> PCs]
           /\ obj' \in [CloudPrincipalAuths -> Objects]
           /\ plan' \in [CloudPrincipalAuths -> Plans]
           /\ queue' \subseteq CloudPrincipalAuths
           /\ pc' = [pc EXCEPT ![n] = "idle"] /\ obj' = [obj EXCEPT ![n] = NoObject]
  <1>1. NoPlan \in Plans
    BY DEF NoPlan, Plans, Reasons
  <1>2. QED
    BY <1>1, NoObjectType DEF ReconcilerTypes, Finish, PCs

LEMMA ReturnTypes ==
    ASSUME ReconcilerTypes, NEW n \in CloudPrincipalAuths, NEW retry, Return(n, retry)
    PROVE  ReconcilerTypes'
  BY FinishTypes DEF Return, ReconcilerTypes

LEMMA CommitTypes ==
    ASSUME ReconcilerTypes, NEW n \in CloudPrincipalAuths, NEW o \in Objects, Commit(n, o)
    PROVE  /\ api' \in [CloudPrincipalAuths -> Objects]
           /\ watch' \in [CloudPrincipalAuths -> SUBSET Objects]
  BY DEF ReconcilerTypes, Commit

LEMMA ProceedTypes ==
    ASSUME ReconcilerTypes, NEW n \in CloudPrincipalAuths, NEW step \in PCs,
           Proceed(n, step)
    PROVE  ReconcilerTypes'
  BY DEF Proceed, GoTo, ReconcilerTypes

LEMMA ProceedWithTypes ==
    ASSUME ReconcilerTypes, NEW n \in CloudPrincipalAuths, NEW o \in Objects,
           NEW step \in PCs, ProceedWith(n, o, step)
    PROVE  ReconcilerTypes'
  BY DEF ProceedWith, GoTo, ReconcilerTypes

LEMMA ReportingTypes ==
    ASSUME ReconcilerTypes, NEW n \in CloudPrincipalAuths, NEW reason \in Reasons,
           NEW retry \in BOOLEAN, Reporting(n, reason, retry)
    PROVE  ReconcilerTypes'
  <1>1. [reason |-> reason, retry |-> retry] \in Plans
    BY DEF Plans
  <1>2. plan' \in [CloudPrincipalAuths -> Plans]
    BY <1>1 DEF Reporting, ReconcilerTypes
  <1>3. pc' \in [CloudPrincipalAuths -> PCs]
    BY DEF Reporting, ReconcilerTypes, GoTo, PCs
  <1>4. QED
    BY <1>2, <1>3 DEF Reporting, ReconcilerTypes

LEMMA ConcludeTypes ==
    ASSUME ReconcilerTypes, NEW n \in CloudPrincipalAuths, NEW o \in Objects,
           NEW retry \in BOOLEAN, NEW step \in PCs, Conclude(n, o, retry, step)
    PROVE  ReconcilerTypes'
  <1>1. plan' \in [CloudPrincipalAuths -> Plans]
    BY DEF Conclude, ReconcilerTypes, Plans
  <1>2. QED
    BY <1>1 DEF Conclude, ReconcilerTypes, GoTo

\* The outcome of a reconcile is of the same credentials.
LEMMA ConcludingFacts ==
    ASSUME ReconcilerTypes, NEW n \in CloudPrincipalAuths, NEW ref \in BOOLEAN,
           NEW configured \in {"None", "True", "False"}, NEW reason \in Reasons
    PROVE  /\ Concluding(n, ref, configured, reason) \in Objects
           /\ RecordedIds(Concluding(n, ref, configured, reason)) = RecordedIds(obj[n])
           /\ obj[n].status.applied # {}
              => Concluding(n, ref, configured, reason).status.applied # {}
           /\ Concluding(n, ref, configured, reason).spec = obj[n].spec
           /\ Concluding(n, ref, configured, reason).uid = obj[n].uid
  <1> DEFINE o == obj[n]
             rs == {[r EXCEPT !.ref = ref] : r \in o.status.applied}
             t == [applied |-> rs, configured |-> configured, reason |-> reason, gen |-> o.gen]
  <1>1. o \in Objects /\ o.status.applied \in RecordSets /\ o.gen \in Nat
    BY KnownTypes, ObjectFields
  <1>2. Concluding(n, ref, configured, reason) = [o EXCEPT !.status = t]
    BY DEF Concluding
  <1>3. rs \in RecordSets /\ IdsOf(rs) = IdsOf(o.status.applied)
        /\ (o.status.applied # {} => rs # {})
    <2>1. CASE o.status.applied = {}
      BY <2>1 DEF RecordSets, IdsOf
    <2>2. ASSUME NEW r \in Applieds, o.status.applied = {r}
          PROVE  /\ rs = {[r EXCEPT !.ref = ref]}
                 /\ [r EXCEPT !.ref = ref] \in Applieds
                 /\ [r EXCEPT !.ref = ref].id = r.id
      BY <2>2 DEF Applieds
    <2>3. QED
      BY <1>1, <2>1, <2>2 DEF RecordSets, IdsOf
  <1>4. t \in Statuses
    BY <1>1, <1>3 DEF Statuses, RecordSets
  <1> HIDE DEF t
  <1>5. t.applied = rs
    BY DEF t
  <1>6. [o EXCEPT !.status = t] \in Objects
    BY <1>1, <1>4 DEF Objects, Versions
  <1>7. /\ [o EXCEPT !.status = t].status = t
        /\ [o EXCEPT !.status = t].spec = o.spec
        /\ [o EXCEPT !.status = t].uid = o.uid
    BY <1>1 DEF Objects, Versions
  <1> DEFINE c == Concluding(n, ref, configured, reason)
  <1>8. c \in Objects /\ c.status = t /\ c.spec = o.spec /\ c.uid = o.uid
    BY <1>2, <1>6, <1>7
  <1>9. RecordedIds(c) = IdsOf(c.status.applied) /\ RecordedIds(o) = IdsOf(o.status.applied)
    BY <1>1, <1>8, ObjectFields
  <1>10. QED
    BY <1>3, <1>5, <1>8, <1>9

LEMMA ApplyingFacts ==
    ASSUME ReconcilerTypes, NEW n \in CloudPrincipalAuths, NEW k \in Ids
    PROVE  /\ Applying(n, k) \in Objects
           /\ RecordedIds(Applying(n, k)) = {k}
           /\ Applying(n, k).status.applied # {}
           /\ Applying(n, k).spec = obj[n].spec
           /\ Applying(n, k).uid = obj[n].uid
  <1> DEFINE o == obj[n]
             t == [o.status EXCEPT !.applied = {[id |-> k, ref |-> FALSE]}]
  <1>1. o \in Objects /\ o.status \in Statuses
    BY KnownTypes, ObjectFields
  <1>2. Applying(n, k) = [o EXCEPT !.status = t]
    BY <1>1 DEF Applying, Objects, Versions
  <1>3. [id |-> k, ref |-> FALSE] \in Applieds
    BY DEF Applieds
  <1>4. t \in Statuses /\ t.applied = {[id |-> k, ref |-> FALSE]}
    BY <1>1, <1>3 DEF Statuses
  <1> HIDE DEF t
  <1>5. /\ [o EXCEPT !.status = t] \in Objects
        /\ [o EXCEPT !.status = t].status = t
        /\ [o EXCEPT !.status = t].spec = o.spec
        /\ [o EXCEPT !.status = t].uid = o.uid
    BY <1>1, <1>4 DEF Objects, Versions
  <1>6. RecordedIds([o EXCEPT !.status = t]) = {k}
    <2> DEFINE r == [id |-> k, ref |-> FALSE]
    <2>1. RecordedIds([o EXCEPT !.status = t]) = {x.id : x \in {r}}
      BY <1>4, <1>5 DEF RecordedIds
    <2>2. {x.id : x \in {r}} = {r.id} /\ r.id = k
      OBVIOUS
    <2>3. QED
      BY <2>1, <2>2
  <1>7. QED
    BY <1>2, <1>4, <1>5, <1>6

\* What a status patch leaves in the API server, and what the reconcile that sent it.
LEMMA SendPatchTypes ==
    ASSUME ReconcilerTypes, NEW n \in CloudPrincipalAuths, NEW new \in Statuses,
           SendPatch(n, new, Merged(cache[n].status, new, api[n].status))
    PROVE  /\ api' \in [CloudPrincipalAuths -> Objects]
           /\ watch' \in [CloudPrincipalAuths -> SUBSET Objects]
  <1> DEFINE merged == Merged(cache[n].status, new, api[n].status)
  <1>1. /\ api[n] \in Objects /\ api[n].status \in Statuses /\ api[n].spec \in Specs
        /\ cache[n].status \in Statuses
    BY KnownTypes, ObjectFields
  <1>2. merged \in Statuses
    BY <1>1, MergedType
  <1>3. StatusWritten(api[n], merged) \in Objects
    BY <1>1, <1>2, VersionTypes
  <1>4. \/ UNCHANGED <<api, watch>>
        \/ Commit(n, StatusWritten(api[n], merged))
    BY DEF SendPatch
  <1>5. QED
    BY <1>3, <1>4, CommitTypes DEF ReconcilerTypes

LEMMA PatchTypes ==
    ASSUME ReconcilerTypes, NEW n \in CloudPrincipalAuths, NEW new \in Statuses,
           NEW retry, Patch(n, new, retry)
    PROVE  ReconcilerTypes'
  <1>1. CASE Invalid(n, new)
    BY <1>1, ReturnTypes DEF Patch
  <1>2. CASE ~Invalid(n, new)
    <2>1. /\ SendPatch(n, new, Merged(cache[n].status, new, api[n].status))
          /\ \E r : Finish(n, r)
          /\ UNCHANGED cache
      BY <1>2 DEF Patch, PatchStatus
    <2>2. QED
      BY <2>1, SendPatchTypes, FinishTypes DEF ReconcilerTypes
  <1>3. QED
    BY <1>1, <1>2

LEMMA WriteSecretTypes ==
    ASSUME SecretsTypes, NEW n \in CloudPrincipalAuths, NEW s \in Secrets,
           WriteSecret(n, s)
    PROVE  SecretsTypes'
  BY DEF SecretsTypes, WriteSecret

LEMMA ForgetTypes ==
    ASSUME KeysTypes, NEW n \in CloudPrincipalAuths, NEW k, Forget(n, k)
    PROVE  KeysTypes'
  BY DEF KeysTypes, Forget

LEMMA ReadSecretTypes ==
    ASSUME BudgetTypes, NEW n \in CloudPrincipalAuths, ReadSecret(n)
    PROVE  /\ BudgetTypes'
           /\ budget'.keys = budget.keys
           /\ budget'.lags <= budget.lags
           /\ cachedSecret[n] # secret[n] => budget'.lags < budget.lags
  BY DEF BudgetTypes, ReadSecret

LEMMA SpendTypes ==
    ASSUME BudgetTypes, SpendEdit \/ SpendFault
    PROVE  BudgetTypes' /\ budget'.keys = budget.keys /\ budget'.lags = budget.lags
  <1>1. budget.edits \in Nat /\ budget.faults \in Nat
    BY DEF BudgetTypes
  <1>2. CASE SpendEdit
    BY <1>1, <1>2 DEF BudgetTypes, SpendEdit
  <1>3. CASE SpendFault
    BY <1>1, <1>3 DEF BudgetTypes, SpendFault
  <1>4. QED
    BY <1>2, <1>3

LEMMA TypesInit == Init => TypeOK
  <1> SUFFICES ASSUME Init PROVE TypeOK
    OBVIOUS
  <1>1. PICK s \in [CloudPrincipalAuths -> SpecsOfSetting] :
          api = [n \in CloudPrincipalAuths |-> Created(NoObject, s[n], NoStatus)]
    BY DEF Init
  <1>2. api \in [CloudPrincipalAuths -> Objects]
    <2>1. \A n \in CloudPrincipalAuths : Created(NoObject, s[n], NoStatus) \in Objects
      BY NoObjectType, NoStatusType, VersionTypes DEF SpecsOfSetting
    <2>2. QED
      BY <1>1, <2>1
  <1>3. NoPlan \in Plans
    BY DEF NoPlan, Plans, Reasons
  <1>4. ReconcilerTypes
    BY <1>2, <1>3, NoObjectType DEF Init, ReconcilerTypes, PCs
  <1>5. EnvironmentTypes
    BY DEF Init, EnvironmentTypes
  <1>6. BudgetTypes
    BY <1>5, SettingFacts DEF Init, BudgetTypes
  <1>7. KeysTypes /\ AccountTypes
    BY DEF Init, KeysTypes, AccountTypes
  <1>8. SecretsTypes
    <2>1. NoSecret \in Secrets /\ ForeignSecret \in Secrets
      BY <1>5, SettingFacts DEF NoSecret, ForeignSecret, Secrets, Binding
    <2>2. QED
      BY <2>1 DEF Init, SecretsTypes
  <1>9. QED
    BY <1>4, <1>5, <1>6, <1>7, <1>8, TypeParts

LEMMA NoSecretType ==
    ASSUME EnvironmentTypes
    PROVE  NoSecret \in Secrets
  BY SettingFacts DEF NoSecret, Secrets, Binding

LEMMA TypesUser ==
    ASSUME TypeOK, NEW n \in CloudPrincipalAuths, User(n)
    PROVE  TypeOK' /\ budget'.keys = budget.keys /\ UNCHANGED setting
  <1>1. SpendEdit /\ UNCHANGED environment
    BY DEF User, Create, Post, EditSpec, Put, RequestDeletion, Delete, TamperWithSecret,
           ServiceAccountChanges
  <1>2. BudgetTypes' /\ EnvironmentTypes' /\ budget'.keys = budget.keys /\ UNCHANGED setting
    BY <1>1, TypeParts, TypePartsNext, SpendTypes DEF environment, EnvironmentTypes
  <1>3. CASE Create(n) \/ EditSpec(n) \/ RequestDeletion(n)
    <2>1. \E o \in Objects : Commit(n, o)
      <3>1. api[n] \in Objects /\ api[n].spec \in Specs /\ SpecsOfSetting \subseteq Specs
        BY TypeParts, KnownTypes, ObjectFields DEF SpecsOfSetting
      <3>2. CASE Create(n)
        BY <3>1, <3>2, NoStatusType, VersionTypes DEF Create, Post
      <3>3. CASE EditSpec(n)
        BY <3>1, <3>3, NoStatusType, VersionTypes DEF EditSpec, Put
      <3>4. CASE RequestDeletion(n)
        BY <3>1, <3>4, NoStatusType, VersionTypes DEF RequestDeletion, Delete
      <3>5. QED
        BY <1>3, <3>2, <3>3, <3>4
    <2>2. UNCHANGED <<cache, queue, pc, obj, plan, secrets, serviceAccount, live, young, lost>>
      BY <1>3 DEF Create, Post, EditSpec, Put, RequestDeletion, Delete, worker, keys
    <2>3. KeysTypes'
      BY <1>3, <2>2, TypeParts, TypePartsNext DEF Create, EditSpec, RequestDeletion, worker, keys, KeysTypes
    <2>4. ReconcilerTypes'
      BY <2>1, <2>2, TypeParts, TypePartsNext, CommitTypes DEF ReconcilerTypes
    <2>5. QED
      BY <1>2, <2>2, <2>3, <2>4, TypeParts, TypePartsNext DEF secrets, SecretsTypes, AccountTypes
  <1>4. CASE TamperWithSecret(n)
    <2>1. \E s \in Secrets : WriteSecret(n, s)
      <3>1. secret[n] \in Secrets
        BY TypeParts, TypePartsNext DEF SecretsTypes
      <3>2. [secret[n] EXCEPT !.key = 0] \in Secrets
        BY <3>1, TypeParts, TypePartsNext, SettingFacts DEF Secrets, Binding
      <3>3. QED
        BY <1>4, <3>2, TypeParts, TypePartsNext, NoSecretType DEF TamperWithSecret
    <2>2. SecretsTypes'
      BY <2>1, TypeParts, TypePartsNext, WriteSecretTypes
    <2>3. QED
      BY <1>2, <1>4, <2>2, TypeParts, TypePartsNext DEF TamperWithSecret, Wake, keys, ReconcilerTypes,
                                         KeysTypes, AccountTypes
  <1>5. CASE ServiceAccountChanges(n)
    <2>1. AccountTypes' /\ ReconcilerTypes'
      BY <1>5, TypeParts, TypePartsNext DEF ServiceAccountChanges, Wake, DependantsOfServiceAccount,
                             AccountTypes, ReconcilerTypes
    <2>2. QED
      BY <1>2, <1>5, <2>1, TypeParts, TypePartsNext DEF ServiceAccountChanges, keys, secrets, KeysTypes,
                                         SecretsTypes
  <1>6. QED
    BY <1>3, <1>4, <1>5 DEF User

LEMMA TypesEnvironment ==
    ASSUME TypeOK, PrincipalChanges \/ ProviderChanges
    PROVE  TypeOK' /\ budget'.keys = budget.keys /\ UNCHANGED setting
  <1>1. SpendEdit
    BY DEF PrincipalChanges, ProviderChanges
  <1>2. BudgetTypes' /\ budget'.keys = budget.keys
    BY <1>1, TypeParts, TypePartsNext, SpendTypes
  <1>3. EnvironmentTypes' /\ UNCHANGED setting
    BY TypeParts, TypePartsNext, ConstantsAssumption DEF PrincipalChanges, ProviderChanges, EnvironmentTypes
  <1>4. ReconcilerTypes' /\ UNCHANGED worker
    BY TypeParts, TypePartsNext DEF PrincipalChanges, ProviderChanges, Wake, DependantsOfPrincipal,
                     DependantsOfProvider, ReconcilerTypes
  <1>5. QED
    BY <1>2, <1>3, <1>4, TypeParts, TypePartsNext DEF worker, keys, secrets, KeysTypes, SecretsTypes,
                                       AccountTypes

\* What happens by itself: time, the informers, the garbage collector.
LEMMA TypesNature ==
    ASSUME TypeOK, NEW n \in CloudPrincipalAuths,
           Age(n) \/ Deliver(n) \/ DeliverSecret(n) \/ CollectGarbage(n)
    PROVE  TypeOK' /\ UNCHANGED <<budget, environment>>
  <1>1. UNCHANGED <<budget, environment>>
    BY DEF Age, Deliver, DeliverSecret, CollectGarbage
  <1>2. BudgetTypes' /\ EnvironmentTypes'
    BY <1>1, TypeParts, TypePartsNext DEF environment, BudgetTypes, EnvironmentTypes
  <1>3. CASE Age(n)
    BY <1>2, <1>3, TypeParts, TypePartsNext DEF Age, Wake, ReconcilerTypes, KeysTypes, secrets, SecretsTypes,
                                 AccountTypes
  <1>4. CASE Deliver(n)
    <2>1. ReconcilerTypes'
      BY <1>4, TypeParts, TypePartsNext DEF Deliver, Inform, ReconcilerTypes
    <2>2. QED
      BY <1>2, <1>4, <2>1, TypeParts, TypePartsNext DEF Deliver, worker, keys, secrets, KeysTypes,
                                         SecretsTypes, AccountTypes
  <1>5. CASE DeliverSecret(n)
    BY <1>2, <1>5, TypeParts, TypePartsNext DEF DeliverSecret, Wake, ReconcilerTypes, keys, KeysTypes,
                                 SecretsTypes, AccountTypes
  <1>6. CASE CollectGarbage(n)
    <2>1. SecretsTypes'
      BY <1>6, TypeParts, TypePartsNext, NoSecretType, WriteSecretTypes DEF CollectGarbage
    <2>2. QED
      BY <1>2, <1>6, <2>1, TypeParts, TypePartsNext DEF CollectGarbage, Wake, ReconcilerTypes, keys,
                                         KeysTypes, AccountTypes
  <1>7. QED
    BY <1>3, <1>4, <1>5, <1>6

LEMMA TypesStart ==
    ASSUME TypeOK, NEW n \in CloudPrincipalAuths, Start(n)
    PROVE  TypeOK' /\ UNCHANGED <<budget, environment>>
  <1>1. pc' \in [CloudPrincipalAuths -> PCs]
    BY TypeParts, TypePartsNext DEF Start, Begin, FirstStep, GoTo, ReconcilerTypes, PCs
  <1>2. obj' \in [CloudPrincipalAuths -> Objects]
    BY TypeParts, TypePartsNext DEF Start, Begin, ReconcilerTypes
  <1>3. ReconcilerTypes'
    BY <1>1, <1>2, TypeParts, TypePartsNext DEF Start, Begin, ReconcilerTypes
  <1>4. UNCHANGED <<budget, worker, environment>>
    BY DEF Start
  <1>5. QED
    BY <1>3, <1>4, TypeParts, TypePartsNext DEF worker, keys, secrets, environment, KeysTypes, SecretsTypes,
                                 AccountTypes, EnvironmentTypes, BudgetTypes

LEMMA TypesCrash ==
    ASSUME TypeOK, CloudPrincipalAuths # {}, Crash
    PROVE  TypeOK' /\ budget'.keys = budget.keys /\ UNCHANGED environment
  <1>1. BudgetTypes' /\ EnvironmentTypes' /\ budget'.keys = budget.keys
    BY TypeParts, TypePartsNext, SpendTypes DEF Crash, environment, EnvironmentTypes
  <1>2. NoPlan \in Plans
    BY DEF NoPlan, Plans, Reasons
  <1>3. ReconcilerTypes'
    BY <1>2, TypeParts, TypePartsNext, NoObjectType DEF Crash, Restart, ReconcilerTypes, PCs
  <1>4. KeysTypes'
    BY TypeParts, TypePartsNext DEF Crash, KeysTypes, Unrecorded
  <1>5. SecretsTypes' /\ AccountTypes'
    BY TypeParts, TypePartsNext DEF Crash, SecretsTypes, AccountTypes
  <1>6. QED
    BY <1>1, <1>3, <1>4, <1>5, TypeParts, TypePartsNext DEF Crash

\* The data a reconcile writes into the Secret.
LEMMA SecretWithType ==
    ASSUME Base, NEW n \in CloudPrincipalAuths, pc[n] \in {"secret", "emptySecret"}
    PROVE  /\ SecretWith(n, DataInHand(n)) \in Secrets
           /\ SecretWith(n, DataInHand(n)).owner = obj[n].uid
           /\ SecretWith(n, DataInHand(n)).exists
  <1>1. Id(n) \in Ids
    BY TypeParts, InHand DEF Base, Handling
  <1>2. DataInHand(n) \in Ids
    BY <1>1, TypeParts, SettingFacts DEF DataInHand, Base, Binding
  <1>3. obj[n].uid \in Nat /\ secret[n] \in Secrets /\ cachedSecret[n] \in Secrets
    BY TypeParts, KnownTypes, ObjectFields DEF Base, SecretsTypes
  <1>4. QED
    BY <1>2, <1>3 DEF SecretWith, Secrets

LEMMA TypesApiCallFails ==
    ASSUME Base, NEW n \in CloudPrincipalAuths, ApiCallFails(n)
    PROVE  TypeOK' /\ budget'.keys = budget.keys /\ UNCHANGED environment
  <1> USE TypeParts, TypePartsNext DEF Base
  <1>1. /\ BudgetTypes' /\ EnvironmentTypes' /\ budget'.keys = budget.keys
        /\ UNCHANGED environment
    BY SpendTypes DEF ApiCallFails, environment, EnvironmentTypes
  <1>2. ASSUME UNCHANGED worker
        PROVE  KeysTypes' /\ SecretsTypes' /\ AccountTypes'
    BY <1>2 DEF worker, keys, secrets, KeysTypes, SecretsTypes, AccountTypes
  <1>3. /\ HasRef(obj[n]) \in BOOLEAN /\ "CredentialsError" \in Reasons
        /\ {"patch", "patchKey", "noteFailure", "dropKey"} \subseteq PCs
    BY DEF HasRef, Reasons, PCs
  <1>4. CASE Return(n, TRUE) /\ UNCHANGED worker
    BY <1>1, <1>2, <1>4, ReturnTypes
  <1>5. CASE /\ Return(n, TRUE)
             /\ lost' = [lost EXCEPT ![n] = @ \union Unrecorded(n)]
             /\ UNCHANGED <<live, young, inherited, secrets, serviceAccount>>
    <2>1. KeysTypes'
      BY <1>5 DEF KeysTypes, Unrecorded
    <2>2. QED
      BY <1>1, <1>5, <2>1, ReturnTypes DEF secrets, SecretsTypes, AccountTypes
  <1>6. CASE /\ \/ UNCHANGED <<api, watch>>
                \/ SendPatch(n, obj[n].status, Merged(cache[n].status, obj[n].status, api[n].status))
             /\ GoTo(n, "dropKey")
             /\ UNCHANGED <<cache, queue, obj, plan, worker>>
    <2>1. obj[n].status \in Statuses
      BY KnownTypes, ObjectFields
    <2>2. api' \in [CloudPrincipalAuths -> Objects] /\ watch' \in [CloudPrincipalAuths -> SUBSET Objects]
      BY <1>6, <2>1, SendPatchTypes DEF ReconcilerTypes
    <2>3. ReconcilerTypes'
      BY <1>3, <1>6, <2>2 DEF ReconcilerTypes, GoTo
    <2>4. QED
      BY <1>1, <1>2, <1>6, <2>3
  <1>7. CASE /\ pc[n] \in {"secret", "emptySecret"}
             /\ \/ UNCHANGED secrets
                \/ SecretAccepts(n) /\ WriteSecret(n, SecretWith(n, DataInHand(n)))
             /\ Conclude(n, Concluding(n, FALSE, "False", "CredentialsError"), TRUE, "patchKey")
             /\ UNCHANGED <<keys, serviceAccount>>
    <2>1. SecretsTypes'
      <3>1. CASE UNCHANGED secrets
        BY <3>1 DEF secrets, SecretsTypes
      <3>2. CASE WriteSecret(n, SecretWith(n, DataInHand(n)))
        BY <1>7, <3>2, SecretWithType, WriteSecretTypes
      <3>3. QED
        BY <1>7, <3>1, <3>2
    <2>2. Concluding(n, FALSE, "False", "CredentialsError") \in Objects
      BY <1>3, ConcludingFacts
    <2>3. ReconcilerTypes'
      BY <1>3, <1>7, <2>2, ConcludeTypes
    <2>4. QED
      BY <1>1, <1>7, <2>1, <2>3 DEF keys, KeysTypes, AccountTypes
  <1>8. CASE /\ Conclude(n, Concluding(n, HasRef(obj[n]), "False", "CredentialsError"), TRUE, "patch")
             /\ UNCHANGED worker
    <2>1. Concluding(n, HasRef(obj[n]), "False", "CredentialsError") \in Objects
      BY <1>3, ConcludingFacts
    <2>2. ReconcilerTypes'
      BY <1>3, <1>8, <2>1, ConcludeTypes
    <2>3. QED
      BY <1>1, <1>2, <1>8, <2>2
  <1>9. CASE Proceed(n, "noteFailure") /\ UNCHANGED worker
    BY <1>1, <1>2, <1>3, <1>9, ProceedTypes
  <1>10. QED
    BY <1>4, <1>5, <1>6, <1>7, <1>8, <1>9 DEF ApiCallFails

LEMMA NextKeyType ==
    ASSUME Base
    PROVE  /\ budget.keys \in Nat /\ NextKey \notin Credentials
           /\ budget.keys > 0 => NextKey \in Ids /\ NextKey \in 1 .. setting.keys
  <1>1. budget.keys \in Nat /\ setting.keys \in Nat /\ budget.keys <= setting.keys
    BY TypeParts, SettingFacts DEF Base, BudgetTypes, KeysNumbered
  <1>2. NextKey \notin Credentials
    BY <1>1 DEF NextKey, Credentials, Numbers, Binding
  <1>3. budget.keys > 0 => NextKey \in 1 .. setting.keys
    BY <1>1 DEF NextKey
  <1>4. QED
    BY <1>1, <1>2, <1>3, TypeParts, SettingFacts DEF Base

\* A failed call creates a key or it does not, and the quota follows.
LEMMA TypesCloudCallFails ==
    ASSUME Base, NEW n \in CloudPrincipalAuths, CloudCallFails(n)
    PROVE  /\ TypeOK' /\ UNCHANGED environment
           /\ \/ /\ live' = [live EXCEPT ![n] = @ \union {NextKey}]
                 /\ lost' = [lost EXCEPT ![n] = @ \union {NextKey}]
                 /\ budget.keys > 0 /\ budget'.keys = budget.keys - 1
                 /\ UNCHANGED <<young, inherited>>
              \/ live' = [live EXCEPT ![n] = @ \union {Binding}]
                 /\ budget'.keys = budget.keys
                 /\ UNCHANGED <<young, lost, inherited>>
              \/ budget'.keys = budget.keys /\ (UNCHANGED keys \/ Forget(n, Id(n)))
  <1> USE TypeParts, TypePartsNext DEF Base
  <1> DEFINE made == /\ live' = [live EXCEPT ![n] = @ \union {NextKey}]
                     /\ lost' = [lost EXCEPT ![n] = @ \union {NextKey}]
                     /\ UNCHANGED <<young, inherited>>
             bound == /\ live' = [live EXCEPT ![n] = @ \union {Binding}]
                      /\ UNCHANGED <<young, lost, inherited>>
             other == UNCHANGED keys \/ Forget(n, Id(n))
  <1>1. /\ UNCHANGED <<secrets, serviceAccount, environment>>
        /\ SecretsTypes' /\ AccountTypes' /\ EnvironmentTypes'
    BY DEF CloudCallFails, secrets, environment, SecretsTypes, AccountTypes, EnvironmentTypes
  <1>2. (made /\ budget.keys > 0) \/ bound \/ other
    BY DEF CloudCallFails
  <1>3. KeysTypes'
    <2>1. CASE made /\ budget.keys > 0
      BY <2>1, NextKeyType DEF KeysTypes
    <2>2. CASE bound
      BY <2>2, SettingFacts DEF KeysTypes
    <2>3. CASE other
      BY <2>3, ForgetTypes DEF keys, KeysTypes
    <2>4. QED
      BY <1>2, <2>1, <2>2, <2>3
  <1>4. NextKey \notin live[n] /\ NextKey # Binding
    BY NextKeyType DEF KeysNumbered, Credentials
  <1>5. /\ made => NextKey \in live'[n]
        /\ bound \/ other => NextKey \notin live'[n]
    BY <1>4 DEF keys, Forget, KeysTypes
  <1>6. /\ budget.faults > 0
        /\ budget' = [budget EXCEPT !.faults = @ - 1,
                                    !.keys = IF NextKey \in live'[n] THEN @ - 1 ELSE @]
    BY DEF CloudCallFails
  <1>7. /\ BudgetTypes'
        /\ made => budget'.keys = budget.keys - 1
        /\ bound \/ other => budget'.keys = budget.keys
    <2> HIDE DEF made, bound, other
    <2>1. /\ budget \in [edits: Nat, faults: Nat, lags: Nat, keys: Nat]
          /\ budget.faults - 1 \in Nat
      BY <1>6 DEF BudgetTypes
    <2>2. CASE made
      <3>1. budget.keys - 1 \in Nat /\ NextKey \in live'[n]
        BY <1>2, <1>5, <2>1, <2>2
      <3>2. budget' = [budget EXCEPT !.faults = @ - 1, !.keys = @ - 1]
        BY <1>6, <3>1
      <3>3. QED
        BY <1>5, <2>1, <2>2, <3>1, <3>2 DEF BudgetTypes
    <2>3. CASE bound \/ other
      <3>1. budget' = [budget EXCEPT !.faults = @ - 1]
        BY <1>5, <1>6, <2>1, <2>3
      <3>2. QED
        BY <1>5, <2>1, <2>3, <3>1 DEF BudgetTypes
    <2>4. QED
      BY <1>2, <2>2, <2>3
  <1>8. ReconcilerTypes'
    <2>1. {"EnsureError", "DeleteError"} \subseteq Reasons /\ "patch" \in PCs
      BY DEF Reasons, PCs
    <2>2. CASE Reporting(n, "EnsureError", TRUE) \/ Reporting(n, "DeleteError", TRUE)
      BY <2>1, <2>2, ReportingTypes
    <2>3. CASE Conclude(n, [obj[n] EXCEPT !.status.reason = "DeleteError"], TRUE, "patch")
      <3>1. obj[n] \in Objects /\ obj[n].status \in Statuses
        BY KnownTypes, ObjectFields
      <3>2. [obj[n].status EXCEPT !.reason = "DeleteError"] \in Statuses
        BY <2>1, <3>1 DEF Statuses
      <3>3. [obj[n] EXCEPT !.status.reason = "DeleteError"] \in Objects
        BY <3>1, <3>2 DEF Objects, Versions
      <3>4. QED
        BY <2>1, <2>3, <3>3, ConcludeTypes
    <2>4. QED
      BY <2>2, <2>3 DEF CloudCallFails
  <1>9. TypeOK'
    BY <1>1, <1>3, <1>7, <1>8
  <1>10. QED
    BY <1>1, <1>2, <1>7, <1>9

LEMMA ObstacleType ==
    ASSUME NEW o
    PROVE  Obstacle(o) \in Reasons
  BY DEF Obstacle, Reasons

LEMMA WorkerTypes ==
    ASSUME KeysTypes, SecretsTypes, AccountTypes, UNCHANGED worker
    PROVE  KeysTypes' /\ SecretsTypes' /\ AccountTypes'
  BY DEF worker, keys, secrets, KeysTypes, SecretsTypes, AccountTypes

\* A step that leaves the cloud, the Secret and the bounds alone.
LEMMA TypesQuiet ==
    ASSUME TypeOK, ReconcilerTypes', UNCHANGED <<budget, worker, environment>>
    PROVE  TypeOK'
  <1>1. KeysTypes' /\ SecretsTypes' /\ AccountTypes'
    BY TypeParts, WorkerTypes
  <1>2. BudgetTypes' /\ EnvironmentTypes'
    BY TypeParts DEF BudgetTypes, EnvironmentTypes, environment
  <1>3. QED
    BY <1>1, <1>2, TypePartsNext

LEMMA TypesEnsure ==
    ASSUME Base, NEW n \in CloudPrincipalAuths,
           \/ AddFinalizer(n) \/ Check(n) \/ DeleteSelf(n) \/ Get(n)
           \/ CreateKey(n) \/ ReachQuota(n) \/ Bind(n)
    PROVE  TypeOK'
  <1> USE TypeParts DEF Base
  <1>1. /\ api[n] \in Objects /\ obj[n] \in Objects /\ api[n].spec \in Specs
        /\ api[n].status \in Statuses
    BY KnownTypes, ObjectFields
  <1>2. "EnsureError" \in Reasons
    BY DEF Reasons
  <1>3. CASE AddFinalizer(n)
    <2>1. FinalizerAdded(api[n]) \in Objects
      BY <1>1, VersionTypes
    <2>2. CASE Accepts(api[n], obj[n])
      <3>1. /\ api' \in [CloudPrincipalAuths -> Objects]
            /\ watch' \in [CloudPrincipalAuths -> SUBSET Objects]
        BY <1>3, <2>1, <2>2, CommitTypes DEF AddFinalizer, Claim
      <3>2. /\ obj' \in [CloudPrincipalAuths -> Objects]
            /\ pc' \in [CloudPrincipalAuths -> PCs]
        BY <1>3, <2>1, <2>2 DEF AddFinalizer, Claim, ReconcilerTypes, GoTo, PCs
      <3>3. ReconcilerTypes'
        BY <1>3, <2>2, <3>1, <3>2 DEF AddFinalizer, Claim, ReconcilerTypes
      <3>4. QED
        BY <1>3, <3>3, TypesQuiet DEF AddFinalizer
    <2>3. CASE ~Accepts(api[n], obj[n])
      <3>1. ReconcilerTypes'
        BY <1>3, <2>3, FinishTypes DEF AddFinalizer, Claim, ReconcilerTypes
      <3>2. QED
        BY <1>3, <3>1, TypesQuiet DEF AddFinalizer
    <2>4. QED
      BY <2>2, <2>3
  <1>4. CASE Check(n)
    <2>1. ReconcilerTypes'
      <3>1. CASE Proceed(n, "get")
        BY <3>1, ProceedTypes DEF PCs
      <3>2. CASE Reporting(n, Obstacle(obj[n]),
                           Obstacle(obj[n]) = "ProviderIssue" /\ provider = "factoryError")
        BY <3>2, ObstacleType, ReportingTypes
      <3>3. QED
        BY <1>4, <3>1, <3>2 DEF Check
    <2>2. QED
      BY <1>4, <2>1, TypesQuiet DEF Check
  <1>5. CASE DeleteSelf(n)
    <2>1. DeletionRequested(api[n]) \in Objects
      BY <1>1, VersionTypes
    <2>2. /\ api' \in [CloudPrincipalAuths -> Objects]
          /\ watch' \in [CloudPrincipalAuths -> SUBSET Objects]
      BY <1>5, <2>1, CommitTypes DEF DeleteSelf, ReconcilerTypes
    <2>3. ReconcilerTypes'
      BY <1>5, <2>2, FinishTypes DEF DeleteSelf, ReconcilerTypes
    <2>4. QED
      BY <1>5, <2>3, TypesQuiet DEF DeleteSelf
  <1>6. CASE Get(n)
    <2>1. ReconcilerTypes'
      <3>1. CASE \E step \in {"create", "settle", "serviceAccount"} : Proceed(n, step)
        BY <3>1, ProceedTypes DEF PCs
      <3>2. CASE \E step \in {"create", "settle", "serviceAccount"} : ProceedWith(n, obj[n], step)
        BY <1>1, <3>2, ProceedWithTypes DEF PCs
      <3>3. CASE obj[n].status.applied # {} /\ ProceedWith(n, Applying(n, Id(n)), "emptySecret")
        <4>1. Applying(n, Id(n)) \in Objects
          BY <3>3, InHand, ApplyingFacts
        <4>2. QED
          BY <3>3, <4>1, ProceedWithTypes DEF PCs
      <3>4. QED
        BY <1>6, <3>1, <3>2, <3>3 DEF Get, WithEnsured, Applying
    <2>2. QED
      BY <1>6, <2>1, TypesQuiet DEF Get
  <1>7. CASE CreateKey(n)
    <2>1. NextKey \in Ids /\ budget.keys > 0
      BY <1>7, NextKeyType DEF CreateKey
    <2>2. ReconcilerTypes'
      <3>1. Applying(n, NextKey) \in Objects
        BY <2>1, ApplyingFacts
      <3>2. QED
        BY <1>7, <3>1, ProceedWithTypes DEF CreateKey, PCs
    <2>3. KeysTypes'
      BY <1>7, <2>1 DEF CreateKey, KeysTypes
    <2>4. BudgetTypes'
      BY <1>7, <2>1 DEF CreateKey, BudgetTypes
    <2>5. UNCHANGED <<secrets, serviceAccount, environment>>
      BY <1>7 DEF CreateKey
    <2>6. QED
      BY <2>2, <2>3, <2>4, <2>5, TypePartsNext
         DEF secrets, environment, SecretsTypes, AccountTypes, EnvironmentTypes
  <1>8. CASE ReachQuota(n)
    BY <1>2, <1>8, ReportingTypes, TypesQuiet DEF ReachQuota
  <1>9. CASE Bind(n)
    <2>1. Binding \in Ids
      BY SettingFacts
    <2>2. ReconcilerTypes'
      <3>1. Applying(n, Binding) \in Objects
        BY <2>1, ApplyingFacts
      <3>2. QED
        BY <1>1, <1>9, <3>1, ProceedWithTypes DEF Bind, PCs
    <2>3. KeysTypes'
      BY <1>9, <2>1 DEF Bind, KeysTypes
    <2>4. UNCHANGED <<budget, secrets, serviceAccount, environment>>
      BY <1>9 DEF Bind
    <2>5. QED
      BY <2>2, <2>3, <2>4, TypePartsNext
         DEF secrets, environment, SecretsTypes, AccountTypes, EnvironmentTypes, BudgetTypes
  <1>10. QED
    BY <1>3, <1>4, <1>5, <1>6, <1>7, <1>8, <1>9

LEMMA TypesPublish ==
    ASSUME Base, NEW n \in CloudPrincipalAuths,
           \/ FindServiceAccount(n) \/ Annotate(n)
           \/ StoreKey(n) \/ Settle(n) \/ DropKey(n)
           \/ PatchConclusion(n) \/ RecordKey(n) \/ Report(n)
    PROVE  TypeOK'
  <1> USE TypeParts DEF Base
  <1>1. /\ obj[n] \in Objects /\ obj[n].status \in Statuses
        /\ cache[n] \in Objects /\ cache[n].status \in Statuses
        /\ obj[n].status.configured \in {"None", "True", "False"}
        /\ obj[n].gen \in Nat
        /\ plan[n].reason \in Reasons
    BY KnownTypes, ObjectFields DEF Statuses
  <1>2. /\ HasRef(obj[n]) \in BOOLEAN
        /\ {"CredentialsError", "Reconciled"} \subseteq Reasons
        /\ {"patch", "patchKey", "dropKey", "annotate"} \subseteq PCs
    BY DEF HasRef, Reasons, PCs
  <1>3. ASSUME NEW ref \in BOOLEAN, NEW configured \in {"None", "True", "False"},
               NEW reason \in {"CredentialsError", "Reconciled"}, NEW retry \in BOOLEAN,
               NEW step \in {"patch", "patchKey"},
               Conclude(n, Concluding(n, ref, configured, reason), retry, step)
        PROVE  ReconcilerTypes'
    <2>1. Concluding(n, ref, configured, reason) \in Objects
      BY <1>2, ConcludingFacts
    <2>2. QED
      BY <1>2, <1>3, <2>1, ConcludeTypes
  <1>4. CASE FindServiceAccount(n)
    BY <1>2, <1>3, <1>4, ProceedTypes, TypesQuiet DEF FindServiceAccount
  <1>5. CASE Annotate(n)
    <2>1. ReconcilerTypes'
      BY <1>2, <1>3, <1>5 DEF Annotate
    <2>2. AccountTypes'
      BY <1>5 DEF Annotate, AccountTypes
    <2>3. UNCHANGED <<budget, keys, secrets, environment>>
      BY <1>5 DEF Annotate
    <2>4. QED
      BY <2>1, <2>2, <2>3, TypePartsNext
         DEF keys, secrets, environment, KeysTypes, SecretsTypes, EnvironmentTypes, BudgetTypes
  <1>6. CASE StoreKey(n)
    <2>1. ReconcilerTypes'
      BY <1>2, <1>3, <1>6 DEF StoreKey
    <2>2. SecretsTypes'
      <3>1. CASE UNCHANGED secrets
        BY <3>1 DEF secrets, SecretsTypes
      <3>2. CASE WriteSecret(n, SecretWith(n, DataInHand(n)))
        BY <1>6, <3>2, SecretWithType, WriteSecretTypes DEF StoreKey
      <3>3. QED
        BY <1>6, <3>1, <3>2 DEF StoreKey
    <2>3. BudgetTypes'
      BY <1>6, ReadSecretTypes DEF StoreKey
    <2>4. UNCHANGED <<keys, serviceAccount, environment>>
      BY <1>6 DEF StoreKey
    <2>5. QED
      BY <2>1, <2>2, <2>3, <2>4, TypePartsNext
         DEF keys, environment, KeysTypes, AccountTypes, EnvironmentTypes
  <1>7. CASE Settle(n)
    <2>1. ReconcilerTypes'
      BY <1>1, <1>2, <1>3, <1>7, ProceedTypes DEF Settle
    <2>2. BudgetTypes'
      BY <1>7, ReadSecretTypes DEF Settle, BudgetTypes
    <2>3. UNCHANGED <<worker, environment>>
      BY <1>7 DEF Settle
    <2>4. QED
      BY <2>1, <2>2, <2>3, WorkerTypes, TypePartsNext DEF environment, EnvironmentTypes
  <1>8. CASE DropKey(n)
    <2>1. ReconcilerTypes' /\ KeysTypes'
      BY <1>8, ReturnTypes, ForgetTypes DEF DropKey
    <2>2. UNCHANGED <<budget, secrets, serviceAccount, environment>>
      BY <1>8 DEF DropKey
    <2>3. QED
      BY <2>1, <2>2, TypePartsNext
         DEF secrets, environment, SecretsTypes, AccountTypes, EnvironmentTypes, BudgetTypes
  <1>9. CASE PatchConclusion(n)
    <2>1. ReconcilerTypes'
      BY <1>1, <1>9, PatchTypes DEF PatchConclusion
    <2>2. KeysTypes'
      BY <1>9 DEF PatchConclusion, KeysTypes, Unrecorded
    <2>3. UNCHANGED <<budget, secrets, serviceAccount, environment>>
      BY <1>9 DEF PatchConclusion
    <2>4. QED
      BY <2>1, <2>2, <2>3, TypePartsNext
         DEF secrets, environment, SecretsTypes, AccountTypes, EnvironmentTypes, BudgetTypes
  <1>10. CASE RecordKey(n)
    <2>1. ReconcilerTypes'
      BY <1>1, <1>2, <1>10, PatchTypes, ProceedTypes DEF RecordKey
    <2>2. QED
      BY <1>10, <2>1, TypesQuiet DEF RecordKey
  <1>11. CASE Report(n)
    <2>1. [cache[n].status EXCEPT !.reason = plan[n].reason, !.gen = obj[n].gen] \in Statuses
      BY <1>1 DEF Statuses
    <2>2. ReconcilerTypes'
      BY <1>11, <2>1, PatchTypes DEF Report
    <2>3. QED
      BY <1>11, <2>2, TypesQuiet DEF Report
  <1>12. QED
    BY <1>4, <1>5, <1>6, <1>7, <1>8, <1>9, <1>10, <1>11

\* The status that Note sends.
FailureNote(n) ==
    [cache[n].status EXCEPT !.configured = "False",
                            !.reason = "CredentialsError", !.gen = obj[n].gen]

LEMMA TypesDelete ==
    ASSUME Base, NEW n \in CloudPrincipalAuths,
           \/ PrepareDelete(n) \/ Disown(n) \/ DeleteKey(n) \/ Unannotate(n) \/ Note(n)
           \/ RemoveFinalizer(n)
    PROVE  TypeOK'
  <1> USE TypeParts DEF Base
  <1>1. /\ api[n] \in Objects /\ api[n].spec \in Specs /\ api[n].status \in Statuses
        /\ cache[n].status \in Statuses /\ obj[n].gen \in Nat
    BY KnownTypes, ObjectFields
  <1>2. {"release", "unannotate", "noteAbsent", "deleteKey", "disown"} \subseteq PCs
    BY DEF PCs
  <1>3. CASE PrepareDelete(n)
    <2>1. FirstDeletionStep(obj[n]) \in {"release", "deleteKey", "disown"}
      BY DEF FirstDeletionStep
    <2>2. ReconcilerTypes'
      <3>1. CASE Reporting(n, "RemoveFinalizerError", FALSE)
        BY <3>1, ReportingTypes DEF Reasons
      <3>2. CASE Return(n, TRUE)
        BY <3>2, ReturnTypes
      <3>3. CASE Proceed(n, FirstDeletionStep(obj[n]))
        BY <1>2, <2>1, <3>3, ProceedTypes
      <3>4. QED
        BY <1>3, <3>1, <3>2, <3>3 DEF PrepareDelete
    <2>3. QED
      BY <1>3, <2>2, TypesQuiet DEF PrepareDelete
  <1>4. CASE Disown(n)
    <2>1. ReconcilerTypes'
      BY <1>2, <1>4, ProceedTypes, ReturnTypes DEF Disown
    <2>2. SecretsTypes'
      <3>1. [secret[n] EXCEPT !.owner = 0] \in Secrets
        BY DEF SecretsTypes, Secrets
      <3>2. QED
        BY <1>4, <3>1, WriteSecretTypes DEF Disown, secrets, SecretsTypes
    <2>3. BudgetTypes'
      BY <1>4, ReadSecretTypes DEF Disown
    <2>4. UNCHANGED <<keys, serviceAccount, environment>>
      BY <1>4 DEF Disown
    <2>5. QED
      BY <2>1, <2>2, <2>3, <2>4, TypePartsNext
         DEF keys, environment, KeysTypes, AccountTypes, EnvironmentTypes
  <1>5. CASE DeleteKey(n)
    <2>1. ReconcilerTypes' /\ KeysTypes'
      BY <1>2, <1>5, ProceedTypes, ForgetTypes DEF DeleteKey
    <2>2. UNCHANGED <<budget, secrets, serviceAccount, environment>>
      BY <1>5 DEF DeleteKey
    <2>3. QED
      BY <2>1, <2>2, TypePartsNext
         DEF secrets, environment, SecretsTypes, AccountTypes, EnvironmentTypes, BudgetTypes
  <1>6. CASE Unannotate(n)
    <2>1. ReconcilerTypes' /\ AccountTypes'
      BY <1>2, <1>6, ProceedTypes DEF Unannotate, AccountTypes
    <2>2. UNCHANGED <<budget, keys, secrets, environment>>
      BY <1>6 DEF Unannotate
    <2>3. QED
      BY <2>1, <2>2, TypePartsNext
         DEF keys, secrets, environment, KeysTypes, SecretsTypes, EnvironmentTypes, BudgetTypes
  <1>7. CASE Note(n)
    <2>1. FailureNote(n) \in Statuses
      BY <1>1 DEF FailureNote, Statuses, Reasons
    <2>2. ReconcilerTypes'
      <3>1. CASE Patch(n, FailureNote(n), TRUE)
        BY <2>1, <3>1, PatchTypes
      <3>2. CASE Return(n, TRUE)
        BY <3>2, ReturnTypes
      <3>3. CASE /\ SendPatch(n, FailureNote(n), Merged(cache[n].status, FailureNote(n), api[n].status))
                 /\ GoTo(n, "release")
                 /\ UNCHANGED <<cache, queue, obj, plan>>
        BY <1>2, <2>1, <3>3, SendPatchTypes DEF GoTo, ReconcilerTypes
      <3>4. QED
        BY <1>7, <3>1, <3>2, <3>3 DEF Note, FailureNote
    <2>3. QED
      BY <1>7, <2>2, TypesQuiet DEF Note
  <1>8. CASE RemoveFinalizer(n)
    <2>1. Gone(api[n]) \in Objects
      BY <1>1, VersionTypes
    <2>2. /\ api' \in [CloudPrincipalAuths -> Objects]
          /\ watch' \in [CloudPrincipalAuths -> SUBSET Objects]
      BY <1>8, <2>1, CommitTypes DEF RemoveFinalizer, Release, ReconcilerTypes
    <2>3. ReconcilerTypes'
      BY <1>8, <2>2, FinishTypes DEF RemoveFinalizer, Release, ReconcilerTypes
    <2>4. QED
      BY <1>8, <2>3, TypesQuiet DEF RemoveFinalizer
  <1>9. QED
    BY <1>3, <1>4, <1>5, <1>6, <1>7, <1>8

-------------------------------------------------------------------------------
(* What the API server makes of a version, and of a status patch. *)

LEMMA VersionFields ==
    ASSUME NEW o \in Objects, NEW s \in Specs, NEW t \in Statuses
    PROVE  /\ LET c == Created(o, s, t)
              IN  /\ c.rv = o.rv + 1 /\ c.uid = c.rv /\ c.exists /\ ~c.finalizer
                  /\ c.spec = s /\ c.status = t
           /\ LET c == SpecEdited(o, s)
              IN  /\ c.rv = o.rv + 1 /\ c.uid = o.uid
                  /\ c.exists = o.exists /\ c.finalizer = o.finalizer
                  /\ c.spec = s /\ c.status = o.status
           /\ LET c == StatusWritten(o, t)
              IN  /\ c.rv = o.rv + 1 /\ c.uid = o.uid
                  /\ c.exists = o.exists /\ c.finalizer = o.finalizer
                  /\ c.spec = o.spec /\ c.status = t
           /\ LET c == FinalizerAdded(o)
              IN  /\ c.rv = o.rv + 1 /\ c.uid = o.uid
                  /\ c.exists = o.exists /\ c.finalizer
                  /\ c.spec = o.spec /\ c.status = o.status
           /\ LET c == Gone(o)
              IN  /\ c.rv = o.rv + 1 /\ c.uid = o.uid /\ ~c.exists
                  /\ c.spec = o.spec /\ c.status = o.status
           /\ LET c == DeletionRequested(o)
              IN  /\ c.rv = o.rv + 1 /\ c.uid = o.uid
                  /\ o.finalizer => c.exists = o.exists /\ c.finalizer
                  /\ ~o.finalizer => ~c.exists
                  /\ c.spec = o.spec /\ c.status = o.status
  BY DEF Created, SpecEdited, StatusWritten, FinalizerAdded, Gone, DeletionRequested,
         Objects, Versions

\* A step of the API server on resource n.
LEMMA CommitFacts ==
    ASSUME ReconcilerTypes, NEW n \in CloudPrincipalAuths, NEW o, Commit(n, o)
    PROVE  api'[n] = o /\ watch'[n] = watch[n] \union {o}
  BY DEF ReconcilerTypes, Commit

\* What a patch to the status new does to the resource in the API server.
Patched(n, new) ==
    /\ api'[n].exists = api[n].exists /\ api'[n].finalizer = api[n].finalizer
    /\ api'[n].spec = api[n].spec /\ api'[n].uid = api[n].uid
    /\ api'[n] = api[n] \/ api'[n].rv = api[n].rv + 1
    /\ watch'[n] \subseteq watch[n] \union {api'[n]}
    /\ Refused(n, new) => api'[n] = api[n]
    /\ new.applied = cache[n].status.applied
       => api'[n].status.applied = api[n].status.applied
    /\ RecordedIds(api'[n]) \subseteq IdsOf(new.applied) \union RecordedIds(api[n])
    /\ IdsOf(new.applied) = RecordedIds(api[n]) => RecordedIds(api'[n]) = RecordedIds(api[n])
    /\ /\ ~Refused(n, new) /\ new.applied # {}
       /\ IdsOf(new.applied) \intersect RecordedIds(cache[n]) = {}
       => RecordedIds(api'[n]) = IdsOf(new.applied)

LEMMA NotSent ==
    ASSUME ReconcilerTypes, NEW n \in CloudPrincipalAuths, NEW new \in Statuses,
           UNCHANGED <<api, watch>>,
           Refused(n, new) \/ new.applied = cache[n].status.applied
    PROVE  Patched(n, new)
  <1>1. cache[n] \in Objects /\ api[n] \in Objects /\ new.applied \in RecordSets
    BY KnownTypes DEF Statuses, RecordSets
  <1>2. new.applied = cache[n].status.applied => IdsOf(new.applied) = RecordedIds(cache[n])
    BY <1>1, ObjectFields
  <1>3. new.applied # {} => IdsOf(new.applied) # {}
    BY <1>1 DEF RecordSets, IdsOf
  <1>4. QED
    BY <1>2, <1>3 DEF Patched

LEMMA SendPatchFacts ==
    ASSUME ReconcilerTypes, NEW n \in CloudPrincipalAuths, NEW new \in Statuses,
           SendPatch(n, new, Merged(cache[n].status, new, api[n].status)),
           ~Invalid(n, new)
    PROVE  Patched(n, new)
  <1> DEFINE merged == Merged(cache[n].status, new, api[n].status)
  <1>1. /\ api[n] \in Objects /\ cache[n] \in Objects
        /\ api[n].status \in Statuses /\ cache[n].status \in Statuses /\ api[n].spec \in Specs
        /\ api[n].status.applied \in RecordSets /\ cache[n].status.applied \in RecordSets
        /\ RecordedIds(api[n]) = IdsOf(api[n].status.applied)
        /\ RecordedIds(cache[n]) = IdsOf(cache[n].status.applied)
        /\ new.applied \in RecordSets
    BY KnownTypes, ObjectFields DEF Statuses, RecordSets
  <1>2. /\ merged \in Statuses
        /\ merged.applied
             = MergedApplied(cache[n].status.applied, new.applied, api[n].status.applied)
    BY <1>1, MergedType
  <1>3. /\ IdsOf(merged.applied) \subseteq IdsOf(new.applied) \union RecordedIds(api[n])
        /\ IdsOf(new.applied) = RecordedIds(api[n]) => IdsOf(merged.applied) = RecordedIds(api[n])
        /\ new.applied # {} /\ IdsOf(new.applied) \intersect RecordedIds(cache[n]) = {}
           => IdsOf(merged.applied) = IdsOf(new.applied)
        /\ new.applied = cache[n].status.applied => merged.applied = api[n].status.applied
    BY <1>1, <1>2, MergedAppliedType
  <1> HIDE DEF merged
  <1>4. CASE Differs(n, new) /\ api[n].exists /\ merged # api[n].status
    <2> DEFINE o == StatusWritten(api[n], merged)
    <2>1. Commit(n, o)
      BY <1>4 DEF SendPatch, merged
    <2>2. api'[n] = o /\ watch'[n] = watch[n] \union {o}
      BY <2>1, CommitFacts
    <2>3. o \in Objects
      BY <1>1, <1>2, VersionTypes
    <2>4. /\ o.rv = api[n].rv + 1 /\ o.uid = api[n].uid
          /\ o.exists = api[n].exists /\ o.finalizer = api[n].finalizer
          /\ o.spec = api[n].spec /\ o.status = merged
      BY <1>1, <1>2, VersionFields
    <2>5. RecordedIds(o) = IdsOf(merged.applied)
      BY <2>3, <2>4, ObjectFields
    <2>6. ~Refused(n, new)
      BY <1>4 DEF Refused, PatchRefused, Differs
    <2> HIDE DEF o
    <2>7. QED
      BY <1>3, <2>2, <2>4, <2>5, <2>6 DEF Patched
  <1>5. CASE Differs(n, new) /\ api[n].exists /\ merged = api[n].status
    <2>1. UNCHANGED <<api, watch>>
      BY <1>5 DEF SendPatch, merged
    <2>2. QED
      BY <1>1, <1>3, <1>5, <2>1 DEF Patched
  <1>6. CASE ~(Differs(n, new) /\ api[n].exists)
    <2>1. UNCHANGED <<api, watch>>
      BY <1>6 DEF SendPatch, merged
    <2>2. Refused(n, new) \/ new.applied = cache[n].status.applied
      BY <1>6 DEF Refused, PatchRefused, Differs
    <2>3. QED
      BY <2>1, <2>2, NotSent
  <1>7. QED
    BY <1>4, <1>5, <1>6

\* The patch that ends a reconcile.
LEMMA PatchFacts ==
    ASSUME ReconcilerTypes, NEW n \in CloudPrincipalAuths, NEW new \in Statuses,
           NEW retry, Patch(n, new, retry)
    PROVE  /\ Patched(n, new)
           /\ pc'[n] = "idle" /\ obj'[n] = NoObject
           /\ cache' = cache
  <1>1. CASE Invalid(n, new)
    <2>1. Return(n, TRUE) /\ Refused(n, new)
      BY <1>1 DEF Patch, Refused
    <2>2. QED
      BY <2>1, NotSent DEF Return, Finish, ReconcilerTypes
  <1>2. CASE ~Invalid(n, new)
    <2>1. /\ SendPatch(n, new, Merged(cache[n].status, new, api[n].status))
          /\ \E r : Finish(n, r)
          /\ UNCHANGED cache
      BY <1>2 DEF Patch, PatchStatus
    <2>2. QED
      BY <1>2, <2>1, SendPatchFacts DEF Finish, ReconcilerTypes
  <1>3. QED
    BY <1>1, <1>2

-------------------------------------------------------------------------------
(* Who is touched by a step. *)

\* The steps that are about one resource.
StepOf(n) ==
    \/ User(n) \/ Age(n)
    \/ Deliver(n) \/ DeliverSecret(n) \/ CollectGarbage(n)
    \/ Start(n) \/ Reconcile(n)
    \/ ApiCallFails(n) \/ CloudCallFails(n)

LEMMA NextSteps ==
    Next => \/ \E n \in CloudPrincipalAuths : StepOf(n)
            \/ PrincipalChanges \/ ProviderChanges
            \/ Crash
  BY DEF Next, StepOf

Untouched(m) ==
    /\ api'[m] = api[m] /\ cache'[m] = cache[m] /\ watch'[m] = watch[m]
    /\ pc'[m] = pc[m] /\ obj'[m] = obj[m]
    /\ live'[m] = live[m] /\ young'[m] = young[m]
    /\ lost'[m] = lost[m] /\ inherited'[m] = inherited[m]
    /\ secret'[m] = secret[m] /\ cachedSecret'[m] = cachedSecret[m]
    /\ serviceAccount'[m] = serviceAccount[m]

LEMMA WorkerUntouched ==
    ASSUME UNCHANGED worker
    PROVE  UNCHANGED <<live, young, lost, inherited, secret, cachedSecret, serviceAccount>>
  BY DEF worker, keys, secrets

LEMMA ServerUntouched ==
    ASSUME ReconcilerTypes, NEW n \in CloudPrincipalAuths, NEW m \in CloudPrincipalAuths \ {n}
    PROVE  /\ \A o : Commit(n, o) => api'[m] = api[m] /\ watch'[m] = watch[m]
           /\ \A new, merged : SendPatch(n, new, merged) => api'[m] = api[m] /\ watch'[m] = watch[m]
           /\ \A retry : Finish(n, retry) => pc'[m] = pc[m] /\ obj'[m] = obj[m]
           /\ \A step : GoTo(n, step) => pc'[m] = pc[m]
  BY DEF ReconcilerTypes, Commit, SendPatch, Finish, GoTo

\* The reconciler's variables at m, of which a piece of a step of n says something.
Calm(m) ==
    /\ api'[m] = api[m] /\ cache'[m] = cache[m] /\ watch'[m] = watch[m]
    /\ pc'[m] = pc[m] /\ obj'[m] = obj[m]

LEMMA PiecesCalm ==
    ASSUME ReconcilerTypes, NEW n \in CloudPrincipalAuths, NEW m \in CloudPrincipalAuths \ {n}
    PROVE  /\ \A retry : Return(n, retry) => Calm(m)
           /\ \A step : Proceed(n, step) => Calm(m)
           /\ \A o, step : ProceedWith(n, o, step) => Calm(m)
           /\ \A reason, retry : Reporting(n, reason, retry) => Calm(m)
           /\ \A o, retry, step : Conclude(n, o, retry, step) => Calm(m)
           /\ \A new, retry : Patch(n, new, retry) => Calm(m)
           /\ \A ns : Wake(ns) => Calm(m)
           /\ Claim(n) \/ Release(n) \/ Inform(n) => Calm(m)
  <1> USE ServerUntouched DEF Calm
  <1>1. \A retry : Return(n, retry) => Calm(m)
    BY DEF Return
  <1>2. \A step : Proceed(n, step) => Calm(m)
    BY DEF Proceed
  <1>3. \A o, step : ProceedWith(n, o, step) => Calm(m)
    BY DEF ProceedWith, ReconcilerTypes
  <1>4. \A reason, retry : Reporting(n, reason, retry) => Calm(m)
    BY DEF Reporting
  <1>5. \A o, retry, step : Conclude(n, o, retry, step) => Calm(m)
    BY DEF Conclude, ReconcilerTypes
  <1>6. \A new, retry : Patch(n, new, retry) => Calm(m)
    BY <1>1 DEF Patch, PatchStatus
  <1>7. \A ns : Wake(ns) => Calm(m)
    BY DEF Wake
  <1>8. Claim(n) => Calm(m)
    BY DEF Claim, ReconcilerTypes
  <1>9. Release(n) => Calm(m)
    BY DEF Release
  <1>10. Inform(n) => Calm(m)
    BY DEF Inform, ReconcilerTypes
  <1>11. QED
    BY <1>1, <1>2, <1>3, <1>4, <1>5, <1>6, <1>7, <1>8, <1>9, <1>10

LEMMA StoresUntouched ==
    ASSUME KeysTypes, SecretsTypes, AccountTypes,
           NEW n \in CloudPrincipalAuths, NEW m \in CloudPrincipalAuths \ {n}
    PROVE  /\ \A k : Forget(n, k) => /\ live'[m] = live[m] /\ young'[m] = young[m]
                                     /\ lost'[m] = lost[m] /\ inherited'[m] = inherited[m]
           /\ \A s : WriteSecret(n, s) => /\ secret'[m] = secret[m]
                                          /\ cachedSecret'[m] = cachedSecret[m]
  BY DEF KeysTypes, SecretsTypes, AccountTypes, Forget, WriteSecret

LEMMA OthersReconcile ==
    ASSUME TypeOK, NEW n \in CloudPrincipalAuths, NEW m \in CloudPrincipalAuths \ {n},
           Reconcile(n)
    PROVE  Untouched(m)
  <1> USE TypeParts, PiecesCalm, StoresUntouched, WorkerUntouched DEF Untouched, Calm
  <1>1. CASE AddFinalizer(n) \/ Check(n) \/ Get(n) \/ ReachQuota(n) \/ FindServiceAccount(n)
             \/ RecordKey(n) \/ Report(n) \/ PrepareDelete(n) \/ RemoveFinalizer(n)
    BY <1>1 DEF AddFinalizer, Check, Get, WithEnsured, ReachQuota, FindServiceAccount,
                RecordKey, Report, PrepareDelete, RemoveFinalizer
  <1>2. CASE DeleteSelf(n)
    BY <1>2, ServerUntouched DEF DeleteSelf
  <1>3. CASE CreateKey(n) \/ Bind(n) \/ DropKey(n) \/ PatchConclusion(n) \/ DeleteKey(n)
    BY <1>3 DEF CreateKey, Bind, DropKey, PatchConclusion, DeleteKey, secrets, KeysTypes
  <1>4. CASE Annotate(n) \/ Unannotate(n)
    BY <1>4 DEF Annotate, Unannotate, keys, secrets, AccountTypes
  <1>5. CASE StoreKey(n) \/ Settle(n) \/ Disown(n)
    BY <1>5 DEF StoreKey, Settle, Disown, keys, secrets
  <1>6. CASE Note(n)
    BY <1>6, ServerUntouched DEF Note
  <1>7. QED
    BY <1>1, <1>2, <1>3, <1>4, <1>5, <1>6 DEF Reconcile

\* A resource sees nothing of the steps of another.
LEMMA OthersKeep ==
    ASSUME TypeOK, NEW n \in CloudPrincipalAuths, NEW m \in CloudPrincipalAuths \ {n},
           StepOf(n)
    PROVE  Untouched(m)
  <1> USE TypeParts, PiecesCalm, StoresUntouched, WorkerUntouched DEF Untouched, Calm
  <1>1. CASE Create(n) \/ EditSpec(n) \/ RequestDeletion(n)
    BY <1>1, ServerUntouched DEF Create, Post, EditSpec, Put, RequestDeletion, Delete, secrets,
                                 KeysTypes
  <1>2. CASE TamperWithSecret(n) \/ ServiceAccountChanges(n)
    BY <1>2 DEF TamperWithSecret, ServiceAccountChanges, keys, secrets, AccountTypes
  <1>3. CASE Age(n) \/ Deliver(n) \/ DeliverSecret(n) \/ CollectGarbage(n)
    BY <1>3 DEF Age, Deliver, DeliverSecret, CollectGarbage, keys, secrets, KeysTypes,
                SecretsTypes
  <1>4. CASE Start(n)
    BY <1>4 DEF Start, Begin, GoTo, ReconcilerTypes
  <1>5. CASE ApiCallFails(n)
    BY <1>5, ServerUntouched DEF ApiCallFails, keys, secrets, KeysTypes
  <1>6. CASE CloudCallFails(n)
    BY <1>6 DEF CloudCallFails, keys, secrets, KeysTypes
  <1>7. QED
    BY <1>1, <1>2, <1>3, <1>4, <1>5, <1>6, OthersReconcile DEF StepOf, User

\* The steps that change nothing of any resource.
LEMMA EnvironmentKeeps ==
    ASSUME PrincipalChanges \/ ProviderChanges \/ UNCHANGED vars,
           NEW m \in CloudPrincipalAuths
    PROVE  Untouched(m)
  BY WorkerUntouched DEF PrincipalChanges, ProviderChanges, Wake, vars, Untouched

LEMMA TypesStep == Base /\ [Next]_vars => TypeOK'
  <1> SUFFICES ASSUME Base, [Next]_vars PROVE TypeOK'
    OBVIOUS
  <1>1. ASSUME NEW n \in CloudPrincipalAuths, StepOf(n) PROVE TypeOK'
    BY <1>1, TypesUser, TypesNature, TypesStart, TypesEnsure, TypesPublish, TypesDelete,
       TypesApiCallFails, TypesCloudCallFails DEF StepOf, Reconcile, Base
  <1>2. CASE Crash
    <2>1. CASE CloudPrincipalAuths = {}
      <3>1. TypeOK
        BY DEF Base
      <3>2. BudgetTypes' /\ UNCHANGED environment
        BY <1>2, <3>1, TypeParts, SpendTypes DEF Crash
      <3>3. ReconcilerTypes' /\ KeysTypes' /\ SecretsTypes' /\ AccountTypes'
        BY <1>2, <2>1, <3>1, TypeParts DEF Crash, Restart, ReconcilerTypes, KeysTypes,
                                           SecretsTypes, AccountTypes
      <3>4. QED
        BY <3>1, <3>2, <3>3, TypeParts, TypePartsNext DEF environment, EnvironmentTypes
    <2>2. CASE CloudPrincipalAuths # {}
      BY <1>2, <2>2, TypesCrash DEF Base
    <2>3. QED
      BY <2>1, <2>2
  <1>3. CASE PrincipalChanges \/ ProviderChanges
    BY <1>3, TypesEnvironment DEF Base
  <1>4. CASE UNCHANGED vars
    BY <1>4 DEF Base, vars, worker, keys, secrets, environment, TypeOK
  <1>5. QED
    BY <1>1, <1>2, <1>3, <1>4, NextSteps

\* The bounds: what is made and what is late is only ever more.
LEMMA BudgetStep ==
    ASSUME Base, [Next]_vars
    PROVE  /\ setting' = setting
           /\ budget'.keys \in Nat /\ budget'.keys <= budget.keys
           /\ budget'.lags \in Nat /\ budget'.lags <= budget.lags
           /\ Numbers \subseteq Numbers'
           /\ \A n \in CloudPrincipalAuths :
                StepOf(n) /\ ~CreateKey(n) /\ ~CloudCallFails(n) => budget'.keys = budget.keys
  <1> USE TypeParts, TypePartsNext DEF Base
  <1>1. BudgetTypes /\ EnvironmentTypes /\ BudgetTypes'
    BY TypesStep
  <1>2. ASSUME NEW n \in CloudPrincipalAuths, StepOf(n)
        PROVE  /\ setting' = setting
               /\ budget'.lags <= budget.lags
               /\ budget'.keys <= budget.keys
               /\ ~CreateKey(n) /\ ~CloudCallFails(n) => budget'.keys = budget.keys
    <2>1. CASE User(n)
      BY <1>1, <2>1, TypesUser, SpendTypes
         DEF User, Create, Post, EditSpec, Put, RequestDeletion, Delete, TamperWithSecret,
             ServiceAccountChanges, BudgetTypes
    <2>2. CASE Age(n) \/ Deliver(n) \/ DeliverSecret(n) \/ CollectGarbage(n) \/ Start(n)
      BY <1>1, <2>2, TypesNature, TypesStart DEF environment, BudgetTypes
    <2>3. CASE ApiCallFails(n)
      BY <1>1, <2>3, SpendTypes DEF ApiCallFails, environment, BudgetTypes
    <2>4. CASE CloudCallFails(n)
      <3>1. setting' = setting /\ budget'.keys <= budget.keys
        BY <1>1, <2>4, TypesCloudCallFails DEF environment, BudgetTypes
      <3>2. budget'.lags = budget.lags
        BY <1>1, <2>4 DEF CloudCallFails, BudgetTypes
      <3>3. QED
        BY <1>1, <2>4, <3>1, <3>2 DEF BudgetTypes
    <2>5. CASE CreateKey(n)
      BY <1>1, <2>5 DEF CreateKey, environment, BudgetTypes
    <2>6. CASE StoreKey(n) \/ Settle(n) \/ Disown(n)
      <3>1. ReadSecret(n) \/ UNCHANGED budget
        BY <2>6 DEF StoreKey, Settle, Disown
      <3>2. UNCHANGED environment
        BY <2>6 DEF StoreKey, Settle, Disown
      <3>3. budget'.keys = budget.keys /\ budget'.lags <= budget.lags
        BY <1>1, <3>1, ReadSecretTypes DEF BudgetTypes
      <3>4. QED
        BY <1>1, <3>2, <3>3 DEF environment, BudgetTypes
    <2>7. CASE Reconcile(n) /\ ~(CreateKey(n) \/ StoreKey(n) \/ Settle(n) \/ Disown(n))
      <3>1. UNCHANGED <<budget, environment>>
        BY <2>7 DEF Reconcile, AddFinalizer, Check, DeleteSelf, Get, ReachQuota, Bind,
                    FindServiceAccount, Annotate, DropKey, PatchConclusion, RecordKey, Report,
                    PrepareDelete, DeleteKey, Unannotate, Note, RemoveFinalizer
      <3>2. QED
        BY <1>1, <3>1 DEF environment, BudgetTypes
    <2>8. QED
      BY <1>2, <2>1, <2>2, <2>3, <2>4, <2>5, <2>6, <2>7 DEF StepOf
  <1>3. CASE PrincipalChanges \/ ProviderChanges \/ Crash
    <2>1. setting' = setting /\ (SpendEdit \/ SpendFault)
      BY <1>3 DEF PrincipalChanges, ProviderChanges, Crash, environment
    <2>2. QED
      BY <1>1, <1>2, <2>1, SpendTypes, SettingFacts DEF BudgetTypes, Numbers
  <1>4. CASE UNCHANGED vars
    BY <1>1, <1>2, <1>4 DEF vars, environment, BudgetTypes, Numbers
  <1>5. CASE \E n \in CloudPrincipalAuths : StepOf(n)
    BY <1>1, <1>2, <1>5, SettingFacts DEF BudgetTypes, Numbers
  <1>6. QED
    BY <1>3, <1>4, <1>5, NextSteps

-------------------------------------------------------------------------------
(* Base is inductive. *)

SameServer(n) == api'[n] = api[n] /\ cache'[n] = cache[n] /\ watch'[n] = watch[n]

\* The pieces of a reconcile of resource n.
LEMMA Pieces ==
    ASSUME ReconcilerTypes, NEW n \in CloudPrincipalAuths
    PROVE  /\ \A retry : Return(n, retry) =>
                SameServer(n) /\ pc'[n] = "idle" /\ obj'[n] = NoObject
           /\ \A retry : Finish(n, retry) => pc'[n] = "idle" /\ obj'[n] = NoObject
           /\ \A step : Proceed(n, step) =>
                SameServer(n) /\ pc'[n] = step /\ obj'[n] = obj[n]
           /\ \A o, step : ProceedWith(n, o, step) =>
                SameServer(n) /\ pc'[n] = step /\ obj'[n] = o
           /\ \A reason, retry : Reporting(n, reason, retry) =>
                SameServer(n) /\ pc'[n] = "report" /\ obj'[n] = obj[n]
           /\ \A o, retry, step : Conclude(n, o, retry, step) =>
                SameServer(n) /\ pc'[n] = step /\ obj'[n] = o
           /\ \A step : GoTo(n, step) => pc'[n] = step
  BY DEF ReconcilerTypes, SameServer, Return, Finish, Proceed, ProceedWith, Reporting,
         Conclude, GoTo

\* The steps that are none of the worker's.
LEMMA WorkerRests ==
    ASSUME NEW n \in CloudPrincipalAuths,
           \/ User(n) \/ Age(n) \/ Deliver(n) \/ DeliverSecret(n) \/ CollectGarbage(n)
    PROVE  UNCHANGED <<pc, obj>>
  BY DEF User, Create, Post, EditSpec, Put, RequestDeletion, Delete, TamperWithSecret,
         ServiceAccountChanges, Age, Deliver, Inform, DeliverSecret, CollectGarbage, Wake

\* A reconcile begins with the last version.
LEMMA StartFacts ==
    ASSUME ReconcilerTypes, NEW n \in CloudPrincipalAuths, Start(n)
    PROVE  /\ SameServer(n) /\ pc[n] = "idle"
           /\ \A m \in CloudPrincipalAuths : pc[m] = "idle"
           /\ UNCHANGED <<budget, worker, environment>>
           /\ \/ pc'[n] = "idle" /\ obj'[n] = obj[n]
              \/ /\ obj'[n] = api[n] /\ api[n].exists
                 /\ \/ pc'[n] = "prepareDelete" /\ api[n].deleting
                    \/ pc'[n] = "check" /\ api[n].finalizer
                    \/ pc'[n] = "addFinalizer"
  BY DEF ReconcilerTypes, Start, Begin, SameServer, GoTo, FirstStep

SameCredentials(n) ==
    /\ RecordedIds(obj'[n]) = RecordedIds(obj[n])
    /\ obj[n].status.applied # {} => obj'[n].status.applied # {}
    /\ obj'[n].spec = obj[n].spec /\ obj'[n].uid = obj[n].uid

LEMMA ConcludeFacts ==
    ASSUME ReconcilerTypes, NEW n \in CloudPrincipalAuths, NEW ref \in BOOLEAN,
           NEW configured \in {"None", "True", "False"}, NEW reason \in Reasons,
           NEW retry, NEW step, Conclude(n, Concluding(n, ref, configured, reason), retry, step)
    PROVE  SameServer(n) /\ SameCredentials(n) /\ pc'[n] = step
  BY Pieces, ConcludingFacts DEF SameCredentials

\* The outcomes of the steps that publish a key.
LEMMA KeyConcludeFacts ==
    ASSUME ReconcilerTypes, NEW n \in CloudPrincipalAuths, NEW retry, NEW step,
           \/ Conclude(n, Concluding(n, TRUE, "True", "Reconciled"), retry, step)
           \/ Conclude(n, Concluding(n, FALSE, "False", "CredentialsError"), retry, step)
           \/ Conclude(n, Concluding(n, TRUE, obj[n].status.configured, "Reconciled"), retry, step)
    PROVE  SameServer(n) /\ SameCredentials(n) /\ pc'[n] = step
  <1> DEFINE configured == obj[n].status.configured
  <1>1. /\ "CredentialsError" \in Reasons /\ "Reconciled" \in Reasons
        /\ TRUE \in BOOLEAN /\ FALSE \in BOOLEAN
        /\ "True" \in {"None", "True", "False"} /\ "False" \in {"None", "True", "False"}
    BY DEF Reasons
  <1>2. configured \in {"None", "True", "False"}
    BY KnownTypes, ObjectFields DEF Statuses
  <1> HIDE DEF configured
  <1>3. CASE Conclude(n, Concluding(n, TRUE, "True", "Reconciled"), retry, step)
    BY <1>1, <1>3, ConcludeFacts
  <1>4. CASE Conclude(n, Concluding(n, FALSE, "False", "CredentialsError"), retry, step)
    BY <1>1, <1>4, ConcludeFacts
  <1>5. CASE Conclude(n, Concluding(n, TRUE, configured, "Reconciled"), retry, step)
    BY <1>1, <1>2, <1>5, ConcludeFacts
  <1>6. QED
    BY <1>3, <1>4, <1>5 DEF configured

\* The steps that publish credentials keep them in hand.
LEMMA PublishFacts ==
    ASSUME Base, NEW n \in CloudPrincipalAuths,
           FindServiceAccount(n) \/ Annotate(n) \/ StoreKey(n) \/ Settle(n)
    PROVE  /\ SameServer(n) /\ SameCredentials(n) /\ UNCHANGED keys
           /\ \/ pc[n] = "serviceAccount" /\ pc'[n] \in {"annotate", "patch"}
              \/ pc[n] = "annotate" /\ pc'[n] = "patch"
              \/ pc[n] \in {"secret", "emptySecret"} /\ pc'[n] = "patchKey"
              \/ pc[n] = "settle" /\ pc'[n] \in {"dropKey", "patch"}
  <1> USE TypeParts, Pieces DEF Base
  <1>1. /\ "CredentialsError" \in Reasons /\ "Reconciled" \in Reasons
        /\ HasRef(obj[n]) \in BOOLEAN
        /\ obj[n].status.configured \in {"None", "True", "False"}
    BY KnownTypes, ObjectFields DEF Reasons, HasRef, Statuses
  <1>2. obj'[n] = obj[n] => SameCredentials(n)
    BY DEF SameCredentials
  <1>3. CASE FindServiceAccount(n)
    <2>1. CASE Proceed(n, "annotate")
      BY <1>2, <1>3, <2>1 DEF FindServiceAccount, worker
    <2>2. CASE Conclude(n, Concluding(n, HasRef(obj[n]), "False", "CredentialsError"), FALSE, "patch")
      BY <1>1, <1>3, <2>2, ConcludeFacts DEF FindServiceAccount, worker
    <2>3. QED
      BY <1>3, <2>1, <2>2 DEF FindServiceAccount
  <1>4. CASE Annotate(n)
    <2>1. CASE Conclude(n, Concluding(n, TRUE, "True", "Reconciled"), FALSE, "patch")
      BY <1>1, <1>4, <2>1, ConcludeFacts DEF Annotate
    <2>2. CASE Conclude(n, Concluding(n, HasRef(obj[n]), "False", "CredentialsError"), TRUE, "patch")
      BY <1>1, <1>4, <2>2, ConcludeFacts DEF Annotate
    <2>3. QED
      BY <1>4, <2>1, <2>2 DEF Annotate
  <1>5. CASE StoreKey(n)
    <2>1. CASE Conclude(n, Concluding(n, TRUE, "True", "Reconciled"), FALSE, "patchKey")
      <3>1. SameServer(n) /\ SameCredentials(n) /\ pc'[n] = "patchKey"
        BY <2>1, KeyConcludeFacts
      <3>2. QED
        BY <1>5, <3>1 DEF StoreKey
    <2>2. CASE Conclude(n, Concluding(n, FALSE, "False", "CredentialsError"), TRUE, "patchKey")
      <3>1. SameServer(n) /\ SameCredentials(n) /\ pc'[n] = "patchKey"
        BY <2>2, KeyConcludeFacts
      <3>2. QED
        BY <1>5, <3>1 DEF StoreKey
    <2>3. QED
      BY <1>5, <2>1, <2>2 DEF StoreKey
  <1>6. CASE Settle(n)
    <2>1. CASE Proceed(n, "dropKey")
      BY <1>2, <1>6, <2>1 DEF Settle, worker
    <2>2. CASE Conclude(n, Concluding(n, TRUE, obj[n].status.configured, "Reconciled"), FALSE, "patch")
      <3>1. SameServer(n) /\ SameCredentials(n) /\ pc'[n] = "patch"
        BY <2>2, KeyConcludeFacts
      <3>2. QED
        BY <1>6, <3>1 DEF Settle, worker
    <2>3. QED
      BY <1>6, <2>1, <2>2 DEF Settle
  <1>7. QED
    BY <1>3, <1>4, <1>5, <1>6

\* What a failed request to the API server does to the reconcile.
LEMMA ApiCallFailsFacts ==
    ASSUME Base, NEW n \in CloudPrincipalAuths, ApiCallFails(n)
    PROVE  \/ /\ SameServer(n) /\ UNCHANGED worker
              /\ pc'[n] = "idle" /\ obj'[n] = NoObject
              /\ pc[n] \in {"addFinalizer", "report", "disown", "noteAbsent", "noteFailure",
                            "release", "check"}
           \/ /\ SameServer(n) /\ UNCHANGED <<live, young, inherited, secrets, serviceAccount>>
              /\ pc[n] = "patch" /\ pc'[n] = "idle" /\ obj'[n] = NoObject
              /\ lost'[n] = lost[n] \union Unrecorded(n)
           \/ /\ UNCHANGED <<cache, obj, worker>>
              /\ \/ api'[n] = api[n] /\ watch'[n] = watch[n]
                 \/ Patched(n, obj[n].status) /\ ~Refused(n, obj[n].status)
              /\ pc[n] = "patchKey" /\ pc'[n] = "dropKey"
           \/ /\ SameServer(n) /\ SameCredentials(n) /\ UNCHANGED keys
              /\ \/ pc[n] \in {"secret", "emptySecret"} /\ pc'[n] = "patchKey"
                    /\ (UNCHANGED secrets \/ WriteSecret(n, SecretWith(n, DataInHand(n))))
                    /\ UNCHANGED serviceAccount
                 \/ pc[n] = "annotate" /\ pc'[n] = "patch" /\ UNCHANGED worker
           \/ /\ SameServer(n) /\ obj'[n] = obj[n] /\ UNCHANGED worker
              /\ pc[n] = "unannotate" /\ pc'[n] = "noteFailure"
  <1> USE TypeParts, Pieces DEF Base
  <1>1. "CredentialsError" \in Reasons /\ HasRef(obj[n]) \in BOOLEAN
    BY DEF Reasons, HasRef
  <1>2. obj[n].status \in Statuses
    BY KnownTypes, ObjectFields
  <1>3. CASE /\ pc[n] = "patch" /\ Return(n, TRUE)
             /\ lost' = [lost EXCEPT ![n] = @ \union Unrecorded(n)]
             /\ UNCHANGED <<live, young, inherited, secrets, serviceAccount>>
    BY <1>3 DEF KeysTypes
  <1>4. CASE /\ pc[n] = "patchKey"
             /\ \/ UNCHANGED <<api, watch>>
                \/ /\ ~Refused(n, obj[n].status)
                   /\ SendPatch(n, obj[n].status,
                                Merged(cache[n].status, obj[n].status, api[n].status))
             /\ GoTo(n, "dropKey")
             /\ UNCHANGED <<cache, queue, obj, plan, worker>>
    BY <1>2, <1>4, SendPatchFacts DEF Refused
  <1>5. CASE /\ pc[n] \in {"secret", "emptySecret"}
             /\ \/ UNCHANGED secrets
                \/ SecretAccepts(n) /\ WriteSecret(n, SecretWith(n, DataInHand(n)))
             /\ Conclude(n, Concluding(n, FALSE, "False", "CredentialsError"), TRUE, "patchKey")
             /\ UNCHANGED <<keys, serviceAccount>>
    BY <1>1, <1>5, ConcludeFacts
  <1>6. CASE /\ pc[n] = "annotate"
             /\ Conclude(n, Concluding(n, HasRef(obj[n]), "False", "CredentialsError"), TRUE, "patch")
             /\ UNCHANGED worker
    <2>1. UNCHANGED keys
      BY <1>6 DEF worker
    <2>2. QED
      BY <1>1, <1>6, <2>1, ConcludeFacts
  <1>7. CASE /\ pc[n] = "unannotate" /\ Proceed(n, "noteFailure") /\ UNCHANGED worker
    BY <1>7
  <1>8. CASE /\ pc[n] \in {"addFinalizer", "report", "disown", "noteAbsent", "noteFailure",
                           "release", "check"}
             /\ Return(n, TRUE) /\ UNCHANGED worker
    BY <1>8
  <1>9. QED
    BY <1>3, <1>4, <1>5, <1>6, <1>7, <1>8 DEF ApiCallFails

\* A failed call to the cloud.
LEMMA CloudCallFailsFacts ==
    ASSUME Base, NEW n \in CloudPrincipalAuths, CloudCallFails(n)
    PROVE  /\ SameServer(n) /\ UNCHANGED <<secrets, serviceAccount>>
           /\ \/ /\ pc[n] \in {"get", "create"} /\ pc'[n] = "report" /\ obj'[n] = obj[n]
                 /\ UNCHANGED keys
              \/ /\ pc[n] = "create" /\ pc'[n] = "report" /\ obj'[n] = obj[n]
                 /\ budget.keys > 0
                 /\ live' = [live EXCEPT ![n] = @ \union {NextKey}]
                 /\ lost' = [lost EXCEPT ![n] = @ \union {NextKey}]
                 /\ UNCHANGED <<young, inherited>>
              \/ /\ pc[n] = "create" /\ pc'[n] = "report" /\ obj'[n] = obj[n]
                 /\ live' = [live EXCEPT ![n] = @ \union {Binding}]
                 /\ UNCHANGED <<young, lost, inherited>>
              \/ /\ UNCHANGED keys \/ Forget(n, Id(n))
                 /\ \/ /\ pc[n] = "dropKey" /\ pc'[n] = "patch"
                       /\ SameCredentials(n)
                    \/ pc[n] = "deleteKey" /\ pc'[n] = "report" /\ obj'[n] = obj[n]
  <1> USE TypeParts, Pieces DEF Base
  <1>1. obj[n] \in Objects /\ obj[n].status \in Statuses
    BY KnownTypes, ObjectFields
  <1> DEFINE o == [obj[n] EXCEPT !.status.reason = "DeleteError"]
  <1>2. o.status.applied = obj[n].status.applied /\ o.spec = obj[n].spec /\ o.uid = obj[n].uid
    BY <1>1 DEF Objects, Versions, Statuses
  <1>3. RecordedIds(o) = RecordedIds(obj[n])
    BY <1>2 DEF RecordedIds
  <1> HIDE DEF o
  <1>4. obj'[n] = o => SameCredentials(n)
    BY <1>2, <1>3 DEF SameCredentials
  <1>5. QED
    BY <1>4 DEF CloudCallFails, o

HandFollows(n) == pc[n] \in Handling => obj[n].status.applied # {}

LEMMA HandReconcile ==
    ASSUME Base, NEW n \in CloudPrincipalAuths, Reconcile(n)
    PROVE  HandFollows(n)'
  <1> USE TypeParts, Pieces DEF Base, Handling
  <1>1. HandFollows(n)
    BY DEF KeyInHand, HandFollows
  <1>4. CASE AddFinalizer(n)
    BY <1>4 DEF AddFinalizer, Claim, HandFollows, ReconcilerTypes, GoTo
  <1>5. CASE Check(n) \/ ReachQuota(n)
    <2>1. pc'[n] \in {"get", "report"}
      BY <1>5 DEF Check, ReachQuota
    <2>2. QED
      BY <2>1 DEF HandFollows
  <1>6. CASE DeleteSelf(n) \/ RemoveFinalizer(n)
    BY <1>6 DEF DeleteSelf, RemoveFinalizer, Release, HandFollows
  <1>7. CASE Get(n)
    <2>1. CASE pc'[n] = "create"
      BY <2>1 DEF HandFollows
    <2>2. CASE obj[n].status.applied # {} /\ WithEnsured(n)
      <3>1. obj[n].status.applied # {} => Applying(n, Id(n)).status.applied # {}
        BY InHand, ApplyingFacts
      <3>2. obj'[n] \in {obj[n], Applying(n, Id(n))}
        BY <2>2 DEF WithEnsured, Applying
      <3>3. QED
        BY <2>2, <3>1, <3>2 DEF HandFollows
    <2>3. QED
      BY <1>7, <2>1, <2>2 DEF Get
  <1>8. CASE CreateKey(n)
    BY <1>8, NextKeyType, ApplyingFacts DEF CreateKey, HandFollows
  <1>9. CASE Bind(n)
    BY <1>9, SettingFacts, ApplyingFacts DEF Bind, HandFollows
  <1>10. CASE FindServiceAccount(n) \/ Annotate(n) \/ StoreKey(n) \/ Settle(n)
    BY <1>1, <1>10, PublishFacts DEF SameCredentials, HandFollows
  <1>12. CASE DropKey(n)
    BY <1>12 DEF DropKey, HandFollows
  <1>13. CASE PatchConclusion(n) \/ RecordKey(n) \/ Report(n)
    <2>1. pc'[n] = "idle" \/ (pc'[n] = "dropKey" /\ obj'[n] = obj[n] /\ pc[n] = "patchKey")
      BY <1>13 DEF PatchConclusion, RecordKey, Report, Patch, PatchStatus
    <2>2. QED
      BY <1>1, <2>1 DEF HandFollows
  <1>14. CASE PrepareDelete(n)
    <2>1. FirstDeletionStep(obj[n]) \in {"deleteKey", "disown"} => obj[n].status.applied # {}
      BY DEF FirstDeletionStep
    <2>2. FirstDeletionStep(obj[n]) \in {"deleteKey", "disown", "release"}
      BY DEF FirstDeletionStep
    <2>3. QED
      BY <1>14, <2>1, <2>2 DEF PrepareDelete, HandFollows
  <1>15. CASE Disown(n) \/ DeleteKey(n) \/ Unannotate(n)
    BY <1>1, <1>15 DEF Disown, DeleteKey, Unannotate, HandFollows
  <1>16. CASE Note(n)
    BY <1>16 DEF Note, Patch, PatchStatus, HandFollows
  <1>17. QED
    BY <1>4, <1>5, <1>6, <1>7, <1>8, <1>9, <1>10, <1>12, <1>13, <1>14, <1>15, <1>16
       DEF Reconcile

LEMMA HandFailures ==
    ASSUME Base, NEW n \in CloudPrincipalAuths, ApiCallFails(n) \/ CloudCallFails(n)
    PROVE  HandFollows(n)'
  <1> USE TypeParts, Pieces DEF Base, Handling
  <1>1. HandFollows(n)
    BY DEF KeyInHand, HandFollows
  <1>2. CASE ApiCallFails(n)
    BY <1>1, <1>2, ApiCallFailsFacts DEF SameCredentials, HandFollows
  <1>3. CASE CloudCallFails(n)
    BY <1>1, <1>3, CloudCallFailsFacts DEF SameCredentials, HandFollows
  <1>4. QED
    BY <1>2, <1>3

LEMMA HandStep ==
    ASSUME Base, NEW n \in CloudPrincipalAuths, StepOf(n)
    PROVE  HandFollows(n)'
  <1>1. HandFollows(n)
    BY DEF Base, KeyInHand, HandFollows
  <1>2. CASE \/ User(n) \/ Age(n) \/ Deliver(n) \/ DeliverSecret(n) \/ CollectGarbage(n)
    BY <1>1, <1>2, WorkerRests DEF HandFollows
  <1>3. CASE Start(n)
    BY <1>1, <1>3, StartFacts, TypeParts DEF HandFollows, Base, Handling
  <1>4. QED
    BY <1>2, <1>3, HandReconcile, HandFailures DEF StepOf

-------------------------------------------------------------------------------
(* What the steps do to a resource. *)

\* A new version of the resource is in the API server.
Committed(n) ==
    /\ api'[n].rv = api[n].rv + 1
    /\ watch'[n] = watch[n] \union {api'[n]}

\* A version that records what the last one did.
Recommitted(n) ==
    /\ Committed(n)
    /\ api'[n].status = api[n].status /\ api'[n].uid = api[n].uid

\* ... of a resource that stays if it has the finalizer.
Marked(n) ==
    /\ Recommitted(n)
    /\ api[n].exists
    /\ api[n].finalizer => api'[n].exists /\ api'[n].finalizer
    /\ ~api[n].finalizer => (api'[n].exists => ~api'[n].finalizer)
    /\ api'[n].spec \in SpecsOfSetting \union {api[n].spec}

LEMMA UserFacts ==
    ASSUME Base, NEW n \in CloudPrincipalAuths, User(n)
    PROVE  /\ UNCHANGED <<pc, obj, cache, live, lost, young>>
           /\ serviceAccount'[n] = serviceAccount[n] \/ serviceAccount'[n] # "annotated"
           /\ \/ SameServer(n) /\ UNCHANGED inherited
              \/ /\ ~api[n].exists /\ api'[n].exists /\ ~api'[n].finalizer
                 /\ api'[n].status.applied = {} /\ Committed(n)
                 /\ api'[n].uid # 0 /\ api'[n].spec \in SpecsOfSetting
                 /\ inherited'[n] = live[n]
              \/ Marked(n) /\ UNCHANGED inherited
  <1> USE TypeParts DEF Base
  <1>1. api[n] \in Objects
    BY KnownTypes
  <1>2. CASE Create(n)
    <2>1. PICK s \in SpecsOfSetting : Post(n, s, NoStatus)
      BY <1>2 DEF Create
    <2>2. s \in Specs /\ NoStatus.applied = {}
      BY DEF SpecsOfSetting, NoStatus
    <2> DEFINE o == Created(api[n], s, NoStatus)
    <2>3. /\ o.rv = api[n].rv + 1 /\ o.exists /\ ~o.finalizer /\ o.status = NoStatus
          /\ o.spec = s /\ o.uid = o.rv /\ api[n].rv \in Nat
      BY <1>1, <2>2, NoStatusType, ObjectFields, VersionFields
    <2>8. o.uid # 0
      BY <2>3
    <2>4. Commit(n, o)
      BY <2>1 DEF Post
    <2> HIDE DEF o
    <2>5. api'[n] = o /\ watch'[n] = watch[n] \union {o}
      BY <2>4, CommitFacts
    <2>6. inherited'[n] = live[n]
      BY <1>2 DEF Create, KeysTypes
    <2>7. QED
      BY <1>2, <2>1, <2>2, <2>3, <2>5, <2>6, <2>8 DEF Create, Post, Committed
  <1>3. CASE EditSpec(n)
    <2>1. PICK s \in SpecsOfSetting : Put(n, s)
      BY <1>3 DEF EditSpec
    <2> DEFINE o == SpecEdited(api[n], s)
    <2>2. /\ o.rv = api[n].rv + 1 /\ o.status = api[n].status
          /\ o.exists = api[n].exists /\ o.finalizer = api[n].finalizer
          /\ o.uid = api[n].uid /\ o.spec = s
      BY <1>1, NoStatusType, VersionFields DEF SpecsOfSetting
    <2>3. Commit(n, o)
      BY <2>1 DEF Put
    <2> HIDE DEF o
    <2>4. api'[n] = o /\ watch'[n] = watch[n] \union {o}
      BY <2>3, CommitFacts
    <2>5. Marked(n)
      BY <2>1, <2>2, <2>4 DEF Put, Marked, Recommitted, Committed
    <2>6. QED
      BY <1>3, <2>1, <2>5, WorkerUntouched DEF EditSpec, Put
  <1>4. CASE RequestDeletion(n)
    <2> DEFINE o == DeletionRequested(api[n])
    <2>1. /\ o.rv = api[n].rv + 1 /\ o.status = api[n].status
          /\ o.uid = api[n].uid /\ o.spec = api[n].spec
          /\ api[n].finalizer => o.exists = api[n].exists /\ o.finalizer
          /\ ~api[n].finalizer => ~o.exists
      BY <1>1, NoStatusType, ObjectFields, VersionFields
    <2>2. Commit(n, o)
      BY <1>4 DEF RequestDeletion, Delete
    <2> HIDE DEF o
    <2>3. api'[n] = o /\ watch'[n] = watch[n] \union {o}
      BY <2>2, CommitFacts
    <2>4. Marked(n)
      BY <1>4, <2>1, <2>3 DEF RequestDeletion, Delete, Marked, Recommitted, Committed
    <2>5. QED
      BY <1>4, <2>4, WorkerUntouched DEF RequestDeletion, Delete
  <1>5. CASE TamperWithSecret(n) \/ ServiceAccountChanges(n)
    BY <1>5 DEF TamperWithSecret, ServiceAccountChanges, Wake, keys, SameServer, AccountTypes
  <1>6. QED
    BY <1>2, <1>3, <1>4, <1>5 DEF User

\* Time, the informer and the garbage collector.
LEMMA NatureFacts ==
    ASSUME Base, NEW n \in CloudPrincipalAuths,
           Age(n) \/ Deliver(n) \/ DeliverSecret(n) \/ CollectGarbage(n)
    PROVE  /\ UNCHANGED <<pc, obj, api, live, lost, inherited, serviceAccount>>
           /\ cache'[n] \in {cache[n]} \union watch[n]
           /\ watch'[n] \subseteq watch[n]
           /\ young'[n] \subseteq young[n]
  <1> USE TypeParts DEF Base
  <1>1. CASE Age(n)
    BY <1>1 DEF Age, Wake, KeysTypes
  <1>2. CASE Deliver(n)
    BY <1>2, WorkerUntouched DEF Deliver, Inform, ReconcilerTypes
  <1>3. CASE DeliverSecret(n) \/ CollectGarbage(n)
    BY <1>3 DEF DeliverSecret, CollectGarbage, Wake, keys
  <1>4. QED
    BY <1>1, <1>2, <1>3

LEMMA AddFinalizerFacts ==
    ASSUME Base, NEW n \in CloudPrincipalAuths, AddFinalizer(n)
    PROVE  /\ UNCHANGED <<cache, worker>> /\ pc[n] = "addFinalizer"
           /\ \/ SameServer(n) /\ pc'[n] = "idle" /\ obj'[n] = NoObject
              \/ /\ Recommitted(n) /\ api[n].exists
                 /\ api'[n].exists /\ api'[n].finalizer /\ api'[n].spec = api[n].spec
                 /\ obj'[n] = api'[n] /\ pc'[n] = "check"
  <1> USE TypeParts DEF Base
  <1> DEFINE o == FinalizerAdded(api[n])
  <1>1. /\ o.rv = api[n].rv + 1 /\ o.status = api[n].status /\ o.spec = api[n].spec
        /\ o.exists = api[n].exists /\ o.finalizer /\ o.uid = api[n].uid
    BY KnownTypes, NoStatusType, ObjectFields, VersionFields
  <1>2. CASE Accepts(api[n], obj[n])
    <2>1. Commit(n, o) /\ obj' = [obj EXCEPT ![n] = o] /\ GoTo(n, "check")
      BY <1>2 DEF AddFinalizer, Claim
    <2> HIDE DEF o
    <2>2. api'[n] = o /\ watch'[n] = watch[n] \union {o}
      BY <2>1, CommitFacts
    <2>3. obj'[n] = o /\ pc'[n] = "check"
      BY <2>1 DEF GoTo, ReconcilerTypes
    <2>4. Recommitted(n)
      BY <1>1, <2>2 DEF Recommitted, Committed
    <2>5. QED
      BY <1>1, <1>2, <2>2, <2>3, <2>4 DEF AddFinalizer, Claim, Accepts
  <1>3. CASE ~Accepts(api[n], obj[n])
    <2>1. Finish(n, TRUE) /\ UNCHANGED <<api, watch, cache>>
      BY <1>3 DEF AddFinalizer, Claim
    <2>2. QED
      BY <2>1, Pieces DEF AddFinalizer, Claim, SameServer
  <1>4. QED
    BY <1>2, <1>3

LEMMA DeleteSelfFacts ==
    ASSUME Base, NEW n \in CloudPrincipalAuths, DeleteSelf(n)
    PROVE  /\ UNCHANGED <<cache, worker>> /\ pc[n] = "check"
           /\ pc'[n] = "idle" /\ obj'[n] = NoObject
           /\ SameServer(n) \/ Marked(n)
  <1> USE TypeParts DEF Base
  <1>1. pc'[n] = "idle" /\ obj'[n] = NoObject
    BY Pieces DEF DeleteSelf
  <1>2. CASE UNCHANGED <<api, watch>>
    BY <1>1, <1>2 DEF DeleteSelf, SameServer
  <1>3. CASE api[n].exists /\ Commit(n, DeletionRequested(api[n]))
    <2> DEFINE o == DeletionRequested(api[n])
    <2>1. /\ o.rv = api[n].rv + 1 /\ o.status = api[n].status
          /\ o.uid = api[n].uid /\ o.spec = api[n].spec
          /\ api[n].finalizer => o.exists = api[n].exists /\ o.finalizer
          /\ ~api[n].finalizer => ~o.exists
      BY KnownTypes, NoStatusType, ObjectFields, VersionFields
    <2>2. Commit(n, o)
      BY <1>3
    <2> HIDE DEF o
    <2>3. api'[n] = o /\ watch'[n] = watch[n] \union {o}
      BY <2>2, CommitFacts
    <2>4. Marked(n)
      BY <1>3, <2>1, <2>3 DEF Marked, Recommitted, Committed
    <2>5. QED
      BY <1>1, <2>4 DEF DeleteSelf
  <1>4. QED
    BY <1>2, <1>3 DEF DeleteSelf

LEMMA GetFacts ==
    ASSUME Base, NEW n \in CloudPrincipalAuths, Get(n)
    PROVE  /\ SameServer(n) /\ UNCHANGED worker /\ pc[n] = "get"
           /\ \/ /\ obj'[n] = obj[n] /\ pc'[n] = "create"
                 /\ \/ obj[n].status.applied = {}
                    \/ /\ obj[n].status.applied # {}
                       /\ IsStatic(obj[n]) => Id(n) \notin live[n]
              \/ /\ SameCredentials(n) /\ obj[n].status.applied # {}
                 /\ pc'[n] \in {"serviceAccount", "settle", "emptySecret"}
  <1> USE TypeParts, Pieces DEF Base
  <1>1. CASE obj[n].status.applied = {} /\ Proceed(n, "create")
    BY <1>1 DEF Get
  <1>2. CASE obj[n].status.applied # {} /\ WithEnsured(n)
    <2>1. RecordedIds(obj[n]) = {Id(n)} /\ Id(n) \in Ids
      BY <1>2, InHand
    <2>2. /\ RecordedIds(Applying(n, Id(n))) = RecordedIds(obj[n])
          /\ Applying(n, Id(n)).status.applied # {}
          /\ Applying(n, Id(n)).spec = obj[n].spec
          /\ Applying(n, Id(n)).uid = obj[n].uid
      BY <2>1, ApplyingFacts
    <2>3. \/ obj'[n] = obj[n] /\ pc'[n] \in {"serviceAccount", "settle"}
          \/ obj'[n] = Applying(n, Id(n)) /\ pc'[n] = "emptySecret"
      BY <1>2 DEF WithEnsured, Applying
    <2>4. SameServer(n)
      BY <1>2 DEF WithEnsured
    <2>5. SameCredentials(n)
      BY <2>2, <2>3 DEF SameCredentials
    <2>6. QED
      BY <1>2, <2>3, <2>4, <2>5 DEF Get
  <1>3. CASE /\ obj[n].status.applied # {} /\ ~WithEnsured(n)
    <2>1. PICK answer \in Answers(n, Id(n)) :
             IF answer = "found" \/ Forgives(n) THEN WithEnsured(n) ELSE Proceed(n, "create")
      BY <1>3 DEF Get
    <2>2. answer # "found" /\ ~Forgives(n) /\ Proceed(n, "create")
      BY <1>3, <2>1
    <2>3. IsStatic(obj[n]) => Id(n) \notin live[n]
      BY <2>2 DEF Answers, Forgives
    <2>4. QED
      BY <1>3, <2>2, <2>3 DEF Get
  <1>4. QED
    BY <1>1, <1>2, <1>3 DEF Get

LEMMA CreateKeyFacts ==
    ASSUME Base, NEW n \in CloudPrincipalAuths, CreateKey(n)
    PROVE  /\ SameServer(n) /\ UNCHANGED <<lost, inherited, secrets, serviceAccount>>
           /\ pc[n] = "create" /\ IsStatic(obj[n]) /\ pc'[n] = "secret"
           /\ RecordedIds(obj'[n]) = {NextKey} /\ NextKey \in Ids
           /\ live'[n] = live[n] \union {NextKey}
           /\ young'[n] \subseteq {NextKey}
           /\ budget.keys > 0 /\ budget'.keys = budget.keys - 1
  <1> USE TypeParts DEF Base
  <1>1. NextKey \in Ids
    BY NextKeyType DEF CreateKey
  <1>2. obj'[n] = Applying(n, NextKey) /\ SameServer(n) /\ pc'[n] = "secret"
    BY Pieces DEF CreateKey
  <1>3. RecordedIds(obj'[n]) = {NextKey}
    BY <1>1, <1>2, ApplyingFacts
  <1>4. live'[n] = live[n] \union {NextKey} /\ young'[n] \subseteq {NextKey}
    BY DEF CreateKey, KeysTypes
  <1>5. budget'.keys = budget.keys - 1
    BY DEF CreateKey, BudgetTypes
  <1>6. QED
    BY <1>1, <1>2, <1>3, <1>4, <1>5 DEF CreateKey

LEMMA BindFacts ==
    ASSUME Base, NEW n \in CloudPrincipalAuths, Bind(n)
    PROVE  /\ SameServer(n) /\ UNCHANGED <<young, lost, inherited, secrets, serviceAccount>>
           /\ pc[n] = "create" /\ pc'[n] = "serviceAccount"
           /\ live'[n] = live[n] \union {Binding}
           /\ \/ obj'[n] = obj[n]
              \/ obj[n].status.applied = {} /\ RecordedIds(obj'[n]) = {Binding}
  <1> USE TypeParts DEF Base
  <1>1. RecordedIds(Applying(n, Binding)) = {Binding}
    BY SettingFacts, ApplyingFacts
  <1>2. /\ SameServer(n) /\ pc'[n] = "serviceAccount"
        /\ obj'[n] = (IF obj[n].status.applied = {} THEN Applying(n, Binding) ELSE obj[n])
    BY Pieces DEF Bind
  <1>3. live'[n] = live[n] \union {Binding}
    BY DEF Bind, KeysTypes
  <1>4. QED
    BY <1>1, <1>2, <1>3 DEF Bind

\* What a deletion in the cloud does to the keys of resource n.
Forgotten(n) ==
    /\ inherited' = inherited /\ young' = young
    /\ \/ live'[n] = live[n] \ {Id(n)} /\ lost' = lost
       \/ /\ lost'[n] = lost[n] \union {Id(n)} /\ live' = live
          /\ Id(n) \in young[n]

LEMMA ForgetFacts ==
    ASSUME Base, NEW n \in CloudPrincipalAuths, Forget(n, Id(n))
    PROVE  Forgotten(n)
  BY TypeParts DEF Base, KeysTypes, Forget, Forgotten

LEMMA DropKeyFacts ==
    ASSUME Base, NEW n \in CloudPrincipalAuths, DropKey(n)
    PROVE  /\ SameServer(n) /\ UNCHANGED <<secrets, serviceAccount>> /\ pc[n] = "dropKey"
           /\ pc'[n] = "idle" /\ obj'[n] = NoObject /\ Forgotten(n)
  BY TypeParts, Pieces, ForgetFacts DEF Base, DropKey

LEMMA PatchConclusionFacts ==
    ASSUME Base, NEW n \in CloudPrincipalAuths, PatchConclusion(n)
    PROVE  /\ pc[n] = "patch" /\ pc'[n] = "idle" /\ obj'[n] = NoObject
           /\ Patched(n, obj[n].status)
           /\ UNCHANGED <<cache, live, young, inherited, secrets, serviceAccount>>
           /\ lost'[n] = IF Refused(n, obj[n].status)
                           THEN lost[n] \union Unrecorded(n) ELSE lost[n]
  <1> USE TypeParts DEF Base
  <1>1. obj[n].status \in Statuses
    BY KnownTypes, ObjectFields
  <1>2. /\ Patched(n, obj[n].status) /\ pc'[n] = "idle" /\ obj'[n] = NoObject
        /\ cache' = cache
    BY <1>1, PatchFacts DEF PatchConclusion
  <1>3. lost'[n] = IF Refused(n, obj[n].status)
                     THEN lost[n] \union Unrecorded(n) ELSE lost[n]
    BY DEF PatchConclusion, KeysTypes
  <1>4. QED
    BY <1>2, <1>3 DEF PatchConclusion

LEMMA RecordKeyFacts ==
    ASSUME Base, NEW n \in CloudPrincipalAuths, RecordKey(n)
    PROVE  /\ pc[n] = "patchKey" /\ UNCHANGED worker
           /\ \/ SameServer(n) /\ obj'[n] = obj[n] /\ pc'[n] = "dropKey"
              \/ /\ pc'[n] = "idle" /\ obj'[n] = NoObject /\ cache' = cache
                 /\ ~Refused(n, obj[n].status) /\ Patched(n, obj[n].status)
  <1> USE TypeParts DEF Base
  <1>1. obj[n].status \in Statuses
    BY KnownTypes, ObjectFields
  <1>2. CASE Refused(n, obj[n].status)
    BY <1>2, Pieces DEF RecordKey
  <1>3. CASE ~Refused(n, obj[n].status)
    BY <1>1, <1>3, PatchFacts DEF RecordKey
  <1>4. QED
    BY <1>2, <1>3

\* A patch that says nothing of the credentials.
Noted(n) ==
    /\ cache' = cache
    /\ api'[n].exists = api[n].exists /\ api'[n].finalizer = api[n].finalizer
    /\ api'[n].spec = api[n].spec /\ api'[n].uid = api[n].uid
    /\ api'[n].status.applied = api[n].status.applied
    /\ api'[n] = api[n] \/ api'[n].rv = api[n].rv + 1
    /\ watch'[n] \subseteq watch[n] \union {api'[n]}

LEMMA ReportFacts ==
    ASSUME Base, NEW n \in CloudPrincipalAuths, Report(n)
    PROVE  /\ pc[n] = "report" /\ pc'[n] = "idle" /\ obj'[n] = NoObject
           /\ UNCHANGED worker /\ Noted(n)
  <1> USE TypeParts DEF Base
  <1> DEFINE new == [cache[n].status EXCEPT !.reason = plan[n].reason, !.gen = obj[n].gen]
  <1>1. cache[n].status \in Statuses /\ plan[n].reason \in Reasons /\ obj[n].gen \in Nat
    BY KnownTypes, ObjectFields
  <1>2. new \in Statuses /\ new.applied = cache[n].status.applied
    BY <1>1 DEF Statuses
  <1>3. Patch(n, new, plan[n].retry) /\ pc[n] = "report" /\ UNCHANGED worker
    BY DEF Report
  <1> HIDE DEF new
  <1>4. Patched(n, new) /\ pc'[n] = "idle" /\ obj'[n] = NoObject /\ cache' = cache
    BY <1>2, <1>3, PatchFacts
  <1>5. QED
    BY <1>2, <1>3, <1>4 DEF Patched, Noted

LEMMA NoteFacts ==
    ASSUME Base, NEW n \in CloudPrincipalAuths, Note(n)
    PROVE  /\ UNCHANGED worker /\ Noted(n)
           /\ \/ /\ pc[n] \in {"noteFailure", "noteAbsent"}
                 /\ pc'[n] = "idle" /\ obj'[n] = NoObject
              \/ pc[n] = "noteAbsent" /\ pc'[n] = "release" /\ obj'[n] = obj[n]
  <1> USE TypeParts DEF Base
  <1> DEFINE new == [cache[n].status EXCEPT !.configured = "False",
                                            !.reason = "CredentialsError", !.gen = obj[n].gen]
  <1>1. /\ cache[n].status \in Statuses /\ obj[n].gen \in Nat
        /\ cache[n].status.applied \in RecordSets
    BY KnownTypes, ObjectFields
  <1>2. new \in Statuses /\ new.applied = cache[n].status.applied
    BY <1>1 DEF Statuses, Reasons
  <1>3. /\ UNCHANGED worker
        /\ \/ pc[n] = "noteFailure" /\ Patch(n, new, TRUE)
           \/ pc[n] = "noteAbsent" /\ Refused(n, new) /\ Return(n, TRUE)
           \/ /\ pc[n] = "noteAbsent" /\ ~Refused(n, new)
              /\ SendPatch(n, new, Merged(cache[n].status, new, api[n].status))
              /\ GoTo(n, "release")
              /\ UNCHANGED <<cache, queue, obj, plan>>
    BY DEF Note
  <1> HIDE DEF new
  <1>4. Patched(n, new) /\ cache' = cache => Noted(n)
    BY <1>2 DEF Patched, Noted
  <1>5. CASE pc[n] = "noteFailure" /\ Patch(n, new, TRUE)
    BY <1>2, <1>3, <1>4, <1>5, PatchFacts
  <1>6. CASE pc[n] = "noteAbsent" /\ Return(n, TRUE)
    <2>1. Noted(n)
      BY <1>6 DEF Return, Noted
    <2>2. QED
      BY <1>3, <1>6, <2>1, Pieces
  <1>7. CASE /\ pc[n] = "noteAbsent" /\ ~Refused(n, new)
             /\ SendPatch(n, new, Merged(cache[n].status, new, api[n].status))
             /\ GoTo(n, "release")
             /\ UNCHANGED <<cache, queue, obj, plan>>
    <2>1. Patched(n, new)
      BY <1>2, <1>7, SendPatchFacts DEF Refused
    <2>2. pc'[n] = "release"
      BY <1>7, Pieces
    <2>3. QED
      BY <1>3, <1>4, <1>7, <2>1, <2>2
  <1>8. QED
    BY <1>3, <1>5, <1>6, <1>7

LEMMA PrepareDeleteFacts ==
    ASSUME Base, NEW n \in CloudPrincipalAuths, PrepareDelete(n)
    PROVE  /\ SameServer(n) /\ UNCHANGED worker /\ pc[n] = "prepareDelete"
           /\ \/ pc'[n] = "idle" /\ obj'[n] = NoObject
              \/ /\ obj'[n] = obj[n]
                 /\ \/ pc'[n] = "report"
                    \/ /\ pc'[n] = "deleteKey" /\ obj[n].status.applied # {}
                       /\ ShouldBeDeleted(obj[n])
                    \/ pc'[n] = "disown" /\ ~ShouldBeDeleted(obj[n])
                    \/ /\ pc'[n] = "release"
                       /\ ShouldBeDeleted(obj[n]) => obj[n].status.applied = {}
                       /\ ShouldBeDeleted(obj[n]) \/ ~HasRef(obj[n]) \/ ~IsStatic(obj[n])
  <1> USE TypeParts, Pieces DEF Base
  <1> DEFINE step == FirstDeletionStep(obj[n])
  <1>1. \/ step = "deleteKey" /\ obj[n].status.applied # {} /\ ShouldBeDeleted(obj[n])
        \/ step = "disown" /\ ~ShouldBeDeleted(obj[n])
        \/ /\ step = "release" /\ (ShouldBeDeleted(obj[n]) => obj[n].status.applied = {})
           /\ ShouldBeDeleted(obj[n]) \/ ~HasRef(obj[n]) \/ ~IsStatic(obj[n])
    BY DEF FirstDeletionStep, HasRef
  <1>2. /\ pc[n] = "prepareDelete" /\ UNCHANGED worker
        /\ \/ Proceed(n, step)
           \/ Reporting(n, "RemoveFinalizerError", FALSE)
           \/ Return(n, TRUE)
    BY DEF PrepareDelete
  <1> HIDE DEF step
  <1>3. QED
    BY <1>1, <1>2

LEMMA DeleteKeyFacts ==
    ASSUME Base, NEW n \in CloudPrincipalAuths, DeleteKey(n)
    PROVE  /\ SameServer(n) /\ UNCHANGED <<secrets, serviceAccount>> /\ pc[n] = "deleteKey"
           /\ obj'[n] = obj[n] /\ Forgotten(n)
           /\ \/ pc'[n] = "unannotate"
              \/ pc'[n] = "release" /\ (IsStatic(obj[n]) \/ ~HasRef(obj[n]))
  BY TypeParts, Pieces, ForgetFacts DEF Base, DeleteKey

\* The last steps of a deletion.
LEMMA UnannotateFacts ==
    ASSUME Base, NEW n \in CloudPrincipalAuths, Unannotate(n)
    PROVE  /\ SameServer(n) /\ UNCHANGED keys /\ pc[n] = "unannotate"
           /\ obj'[n] = obj[n] /\ serviceAccount'[n] # "annotated"
           /\ pc'[n] \in {"release", "noteAbsent"}
  BY TypeParts, Pieces DEF Base, Unannotate, AccountTypes

LEMMA DisownFacts ==
    ASSUME Base, NEW n \in CloudPrincipalAuths, Disown(n)
    PROVE  /\ SameServer(n) /\ UNCHANGED <<keys, serviceAccount>> /\ pc[n] = "disown"
           /\ \/ pc'[n] = "idle" /\ obj'[n] = NoObject
              \/ pc'[n] = "release" /\ obj'[n] = obj[n]
  BY TypeParts, Pieces DEF Base, Disown

LEMMA RemoveFinalizerFacts ==
    ASSUME Base, NEW n \in CloudPrincipalAuths, RemoveFinalizer(n)
    PROVE  /\ UNCHANGED <<cache, worker>> /\ pc[n] = "release"
           /\ pc'[n] = "idle" /\ obj'[n] = NoObject
           /\ \/ SameServer(n)
              \/ /\ Recommitted(n) /\ api[n].exists /\ api[n].rv = obj[n].rv
                 /\ ~api'[n].exists /\ api'[n].spec = api[n].spec
  <1> USE TypeParts DEF Base
  <1> DEFINE o == Gone(api[n])
  <1>1. /\ o.rv = api[n].rv + 1 /\ o.status = api[n].status /\ o.spec = api[n].spec
        /\ ~o.exists /\ o.uid = api[n].uid
    BY KnownTypes, NoStatusType, ObjectFields, VersionFields
  <1>2. pc'[n] = "idle" /\ obj'[n] = NoObject /\ UNCHANGED <<cache, worker>>
        /\ pc[n] = "release"
    BY Pieces DEF RemoveFinalizer, Release
  <1>3. CASE Accepts(api[n], obj[n])
    <2>1. Commit(n, o)
      BY <1>3 DEF RemoveFinalizer, Release
    <2> HIDE DEF o
    <2>2. api'[n] = o /\ watch'[n] = watch[n] \union {o}
      BY <2>1, CommitFacts
    <2>3. Recommitted(n)
      BY <1>1, <2>2 DEF Recommitted, Committed
    <2>4. QED
      BY <1>1, <1>2, <1>3, <2>2, <2>3 DEF Accepts
  <1>4. CASE ~Accepts(api[n], obj[n])
    BY <1>2, <1>4 DEF RemoveFinalizer, Release, SameServer
  <1>5. QED
    BY <1>3, <1>4

-------------------------------------------------------------------------------
(* Keys are numbered. *)

\* After a step, nobody has a version that records a key nobody made ...
Recorded(n) ==
    /\ RecordedIds(api'[n]) \subseteq Credentials
    /\ RecordedIds(cache'[n]) \subseteq Credentials
    /\ RecordedIds(obj'[n]) \subseteq Credentials
    /\ \A v \in watch'[n] : RecordedIds(v) \subseteq Credentials

\* ... and none is in the cloud.
Held(n) ==
    live'[n] \subseteq Credentials /\ young'[n] \subseteq Numbers /\ lost'[n] \subseteq Numbers

Numbered(n) ==
    /\ live[n] \subseteq Credentials
    /\ young[n] \subseteq Numbers
    /\ lost[n] \subseteq Numbers
    /\ \A v \in Seen(n) : RecordedIds(v) \subseteq Credentials

LEMMA RecordedFacts ==
    ASSUME Base, NEW n \in CloudPrincipalAuths, RecordedIds(obj'[n]) \subseteq Credentials
    PROVE  /\ SameServer(n) => Recorded(n)
           /\ cache' = cache /\ Recommitted(n) => Recorded(n)
           /\ cache' = cache /\ Noted(n) => Recorded(n)
           /\ cache' = cache /\ Patched(n, obj[n].status) => Recorded(n)
  <1>1. \A v \in Seen(n) : RecordedIds(v) \subseteq Credentials
    BY DEF Base, KeysNumbered
  <1>2. CASE SameServer(n)
    BY <1>1, <1>2 DEF SameServer, Seen, Recorded
  <1>3. CASE cache' = cache /\ Recommitted(n)
    <2>1. RecordedIds(api'[n]) = RecordedIds(api[n])
      BY <1>3 DEF Recommitted, RecordedIds
    <2>2. QED
      BY <1>1, <1>3, <2>1 DEF Recommitted, Committed, Seen, Recorded
  <1>4. CASE cache' = cache /\ Noted(n)
    <2>1. RecordedIds(api'[n]) = RecordedIds(api[n])
      BY <1>4 DEF Noted, RecordedIds
    <2>2. QED
      BY <1>1, <1>4, <2>1 DEF Noted, Seen, Recorded
  <1>5. CASE cache' = cache /\ Patched(n, obj[n].status)
    <2>1. IdsOf(obj[n].status.applied) = RecordedIds(obj[n])
      BY TypeParts, KnownTypes, ObjectFields DEF Base
    <2>2. RecordedIds(api'[n]) \subseteq RecordedIds(obj[n]) \union RecordedIds(api[n])
      BY <1>5, <2>1 DEF Patched
    <2>3. watch'[n] \subseteq watch[n] \union {api'[n]}
      BY <1>5 DEF Patched
    <2>4. QED
      BY <1>1, <1>5, <2>2, <2>3 DEF Seen, Recorded
  <1>6. QED
    BY <1>2, <1>3, <1>4, <1>5

LEMMA HeldFacts ==
    ASSUME Base, NEW n \in CloudPrincipalAuths
    PROVE  /\ UNCHANGED worker \/ UNCHANGED keys => Held(n)
           /\ Forgotten(n) => Held(n)
           /\ live' = live /\ young' = young
              /\ lost'[n] \subseteq lost[n] \union Unrecorded(n) => Held(n)
           /\ RecordedIds(NoObject) \subseteq Credentials
           /\ RecordedIds(api[n]) \subseteq Credentials
           /\ RecordedIds(obj[n]) \subseteq Credentials
           /\ SameCredentials(n) => RecordedIds(obj'[n]) \subseteq Credentials
  <1>1. /\ live[n] \subseteq Credentials /\ young[n] \subseteq Numbers
        /\ lost[n] \subseteq Numbers
        /\ \A v \in Seen(n) : RecordedIds(v) \subseteq Credentials
    BY DEF Base, KeysNumbered
  <1>2. UNCHANGED worker \/ UNCHANGED keys => Held(n)
    BY <1>1 DEF worker, keys, Held
  <1>3. Forgotten(n) => Held(n)
    BY <1>1 DEF Forgotten, Held
  <1>4. Unrecorded(n) \subseteq Numbers
    BY <1>1 DEF Unrecorded, Credentials
  <1>5. RecordedIds(NoObject) = {}
    BY DEF RecordedIds, NoObject, NeverCreated, NoStatus
  <1>6. QED
    BY <1>1, <1>2, <1>3, <1>4, <1>5 DEF Held, Seen, SameCredentials

LEMMA NumberedReconcile ==
    ASSUME Base, NEW n \in CloudPrincipalAuths, Reconcile(n), ~CreateKey(n)
    PROVE  Recorded(n) /\ Held(n)
  <1> USE RecordedFacts, HeldFacts
  <1>1. CASE AddFinalizer(n)
    <2>1. RecordedIds(obj'[n]) \subseteq Credentials
      BY <1>1, AddFinalizerFacts DEF Recommitted, RecordedIds
    <2>2. QED
      BY <1>1, <2>1, AddFinalizerFacts
  <1>2. CASE DeleteSelf(n)
    BY <1>2, DeleteSelfFacts DEF Marked
  <1>3. CASE Check(n) \/ ReachQuota(n)
    BY <1>3, TypeParts, Pieces DEF Base, Check, ReachQuota
  <1>4. CASE Get(n)
    BY <1>4, GetFacts
  <1>5. CASE Bind(n)
    <2>1. RecordedIds(obj'[n]) \subseteq Credentials
      BY <1>5, BindFacts DEF Credentials
    <2>2. live'[n] \subseteq Credentials /\ young' = young /\ lost' = lost
      BY <1>5, BindFacts DEF Credentials, Base, KeysNumbered
    <2>3. QED
      BY <1>5, <2>1, <2>2, BindFacts DEF Held, Base, KeysNumbered
  <1>6. CASE FindServiceAccount(n) \/ Annotate(n) \/ StoreKey(n) \/ Settle(n)
    BY <1>6, PublishFacts
  <1>7. CASE DropKey(n)
    BY <1>7, DropKeyFacts
  <1>8. CASE PatchConclusion(n)
    BY <1>8, PatchConclusionFacts
  <1>9. CASE RecordKey(n)
    BY <1>9, RecordKeyFacts
  <1>10. CASE Report(n)
    BY <1>10, ReportFacts DEF Noted
  <1>11. CASE Note(n)
    BY <1>11, NoteFacts DEF Noted
  <1>12. CASE PrepareDelete(n)
    BY <1>12, PrepareDeleteFacts
  <1>13. CASE DeleteKey(n)
    BY <1>13, DeleteKeyFacts
  <1>14. CASE Unannotate(n) \/ Disown(n)
    BY <1>14, UnannotateFacts, DisownFacts
  <1>15. CASE RemoveFinalizer(n)
    BY <1>15, RemoveFinalizerFacts
  <1>16. QED
    BY <1>1, <1>2, <1>3, <1>4, <1>5, <1>6, <1>7, <1>8, <1>9, <1>10, <1>11, <1>12, <1>13,
       <1>14, <1>15 DEF Reconcile

LEMMA NumberedOther ==
    ASSUME Base, NEW n \in CloudPrincipalAuths,
           \/ User(n) \/ Age(n) \/ Deliver(n) \/ DeliverSecret(n) \/ CollectGarbage(n)
           \/ Start(n) \/ ApiCallFails(n)
    PROVE  Recorded(n) /\ Held(n)
  <1> USE RecordedFacts, HeldFacts
  <1>1. /\ live[n] \subseteq Credentials /\ young[n] \subseteq Numbers
        /\ lost[n] \subseteq Numbers
        /\ \A v \in Seen(n) : RecordedIds(v) \subseteq Credentials
    BY DEF Base, KeysNumbered
  <1>2. CASE User(n)
    <2>1. Held(n)
      BY <1>1, <1>2, UserFacts DEF Held
    <2>2. CASE api'[n].status.applied = {} /\ Committed(n)
      <3>1. RecordedIds(api'[n]) = {}
        BY <2>2 DEF RecordedIds
      <3>2. QED
        BY <1>1, <1>2, <2>1, <2>2, <3>1, UserFacts DEF Committed, Seen, Recorded
    <2>3. QED
      BY <1>2, <2>1, <2>2, UserFacts DEF Marked
  <1>3. CASE Age(n) \/ Deliver(n) \/ DeliverSecret(n) \/ CollectGarbage(n)
    BY <1>1, <1>3, NatureFacts DEF Held, Seen, Recorded
  <1>4. CASE Start(n)
    BY <1>4, StartFacts, TypeParts DEF Base
  <1>5. CASE ApiCallFails(n)
    <2>1. Held(n)
      BY <1>5, ApiCallFailsFacts, WorkerUntouched DEF Held, keys
    <2>2. RecordedIds(obj'[n]) \subseteq Credentials
      BY <1>5, ApiCallFailsFacts
    <2>3. QED
      BY <1>1, <1>5, <2>1, <2>2, ApiCallFailsFacts DEF Seen, Recorded
  <1>6. QED
    BY <1>2, <1>3, <1>4, <1>5

LEMMA NumberedStep ==
    ASSUME Base, [Next]_vars, NEW n \in CloudPrincipalAuths, StepOf(n)
    PROVE  Numbered(n)'
  <1>1. /\ Numbers \subseteq Numbers' /\ Credentials \subseteq Credentials'
        /\ setting' = setting
    BY BudgetStep DEF Credentials
  <1>2. Recorded(n) /\ Held(n) => Numbered(n)'
    BY <1>1 DEF Recorded, Held, Numbered, Seen
  <1>3. /\ live[n] \subseteq Credentials /\ young[n] \subseteq Numbers
        /\ lost[n] \subseteq Numbers
        /\ \A v \in Seen(n) : RecordedIds(v) \subseteq Credentials
    BY DEF Base, KeysNumbered
  <1>4. /\ budget.keys \in Nat /\ setting.keys \in Nat /\ budget.keys <= setting.keys
        /\ budget'.keys \in Nat
    BY TypeParts, SettingFacts, BudgetStep DEF Base, BudgetTypes, KeysNumbered
  <1>5. budget'.keys = budget.keys - 1 => NextKey \in Numbers'
    BY <1>1, <1>4 DEF Numbers, NextKey
  <1>6. CASE CreateKey(n)
    <2>1. NextKey \in Numbers' /\ NextKey \in Credentials'
      BY <1>5, <1>6, CreateKeyFacts DEF Credentials
    <2>2. QED
      BY <1>1, <1>3, <1>6, <2>1, CreateKeyFacts DEF SameServer, Numbered, Seen
  <1>7. CASE CloudCallFails(n)
    <2>1. budget'.keys = IF NextKey \in live'[n] THEN budget.keys - 1 ELSE budget.keys
      BY <1>7, TypeParts DEF Base, CloudCallFails, BudgetTypes
    <2>2. RecordedIds(obj'[n]) \subseteq Credentials /\ SameServer(n)
      BY <1>7, CloudCallFailsFacts, HeldFacts
    <2>3. Recorded(n)
      BY <2>2, RecordedFacts
    <2>4. live \in [CloudPrincipalAuths -> SUBSET Ids] /\ lost \in [CloudPrincipalAuths -> SUBSET Ids]
      BY TypeParts DEF Base, KeysTypes
    <2>5. CASE /\ live' = [live EXCEPT ![n] = @ \union {NextKey}]
               /\ lost' = [lost EXCEPT ![n] = @ \union {NextKey}]
               /\ UNCHANGED <<young, inherited>>
      <3>1. live'[n] = live[n] \union {NextKey} /\ lost'[n] = lost[n] \union {NextKey}
        BY <2>4, <2>5
      <3>2. NextKey \in Numbers' /\ NextKey \in Credentials'
        BY <1>5, <2>1, <3>1 DEF Credentials
      <3>3. QED
        BY <1>1, <1>3, <2>3, <2>5, <3>1, <3>2 DEF Recorded, Numbered, Seen
    <2>6. CASE live' = [live EXCEPT ![n] = @ \union {Binding}] /\ UNCHANGED <<young, lost, inherited>>
      <3>1. Held(n)
        BY <1>3, <2>4, <2>6 DEF Held, Credentials
      <3>2. QED
        BY <1>2, <2>3, <3>1
    <2>7. CASE UNCHANGED keys \/ Forget(n, Id(n))
      BY <1>2, <2>3, <2>7, ForgetFacts, HeldFacts
    <2>8. QED
      BY <1>7, <2>5, <2>6, <2>7, CloudCallFailsFacts
  <1>8. QED
    BY <1>2, <1>6, <1>7, NumberedReconcile, NumberedOther DEF StepOf

LEMMA BaseCrash ==
    ASSUME Base, Crash, NEW n \in CloudPrincipalAuths
    PROVE  /\ api' = api /\ cache'[n] = api[n] /\ watch'[n] = {}
           /\ pc'[n] = "idle" /\ obj'[n] = NoObject
           /\ live' = live /\ young' = young /\ inherited' = inherited
           /\ lost'[n] = lost[n] \union Unrecorded(n)
           /\ secret' = secret /\ serviceAccount' = serviceAccount
  BY DEF Crash, Restart

LEMMA UntouchedKeeps ==
    ASSUME Base, [Next]_vars, NEW n \in CloudPrincipalAuths, Untouched(n)
    PROVE  HandFollows(n)' /\ Numbered(n)'
  <1>1. HandFollows(n) /\ Numbered(n)
    BY DEF Base, KeyInHand, KeysNumbered, HandFollows, Numbered
  <1>2. Numbers \subseteq Numbers' /\ Credentials \subseteq Credentials'
    BY BudgetStep DEF Credentials
  <1>3. QED
    BY <1>1, <1>2 DEF Untouched, HandFollows, Numbered, Seen

LEMMA BaseInit == Init => Base
  <1> SUFFICES ASSUME Init PROVE Base
    OBVIOUS
  <1>1. TypeOK
    BY TypesInit
  <1>2. KeyInHand
    BY DEF Init, KeyInHand, Handling
  <1>3. PICK s \in [CloudPrincipalAuths -> SpecsOfSetting] :
          api = [n \in CloudPrincipalAuths |-> Created(NoObject, s[n], NoStatus)]
    BY DEF Init
  <1>4. ASSUME NEW n \in CloudPrincipalAuths PROVE Numbered(n)
    <2>1. api[n].status = NoStatus /\ NoObject.status = NoStatus
      BY <1>3 DEF Created, NoObject, NeverCreated
    <2>2. RecordedIds(api[n]) = {} /\ RecordedIds(NoObject) = {}
      BY <2>1 DEF RecordedIds, NoStatus
    <2>3. Seen(n) = {api[n], NoObject}
      BY DEF Init, Seen
    <2>4. QED
      BY <2>2, <2>3 DEF Init, Numbered
  <1>5. budget.keys = setting.keys /\ setting.keys \in Nat
    BY <1>1, TypeParts, SettingFacts DEF Init
  <1>6. QED
    BY <1>1, <1>2, <1>4, <1>5 DEF Base, KeysNumbered, Numbered

LEMMA BaseStep == Base /\ [Next]_vars => Base'
  <1> SUFFICES ASSUME Base, [Next]_vars PROVE Base'
    OBVIOUS
  <1>1. TypeOK'
    BY TypesStep
  <1>2. budget'.keys <= setting'.keys
    <2>1. /\ budget.keys \in Nat /\ setting.keys \in Nat /\ budget.keys <= setting.keys
          /\ budget'.keys \in Nat /\ budget'.keys <= budget.keys /\ setting' = setting
      BY TypeParts, SettingFacts, BudgetStep DEF Base, BudgetTypes, KeysNumbered
    <2>2. QED
      BY <2>1
  <1>3. ASSUME NEW n \in CloudPrincipalAuths PROVE HandFollows(n)' /\ Numbered(n)'
    <2>1. CASE StepOf(n)
      BY <2>1, HandStep, NumberedStep
    <2>2. ASSUME NEW m \in CloudPrincipalAuths, m # n, StepOf(m)
          PROVE  HandFollows(n)' /\ Numbered(n)'
      BY <2>2, OthersKeep, UntouchedKeeps DEF Base
    <2>3. CASE PrincipalChanges \/ ProviderChanges \/ UNCHANGED vars
      BY <2>3, EnvironmentKeeps, UntouchedKeeps
    <2>4. CASE Crash
      <3>1. HandFollows(n)'
        BY <2>4, BaseCrash DEF HandFollows, Handling
      <3>2. Numbers \subseteq Numbers' /\ Credentials \subseteq Credentials'
        BY BudgetStep DEF Credentials
      <3>3. lost'[n] \subseteq Numbers /\ live'[n] \subseteq Credentials /\ young'[n] \subseteq Numbers
        BY <2>4, BaseCrash, HeldFacts DEF Held
      <3>4. \A v \in Seen(n)' : RecordedIds(v) \subseteq Credentials
        BY <2>4, BaseCrash, HeldFacts DEF Seen
      <3>5. QED
        BY <3>1, <3>2, <3>3, <3>4 DEF Numbered
    <2>5. QED
      BY <2>1, <2>2, <2>3, <2>4, NextSteps
  <1>4. QED
    BY <1>1, <1>2, <1>3 DEF Base, KeyInHand, KeysNumbered, HandFollows, Numbered

\* For every cloud and method, every set of resources and every bound, the state of the
\* controller and of its surroundings keeps its type: in particular there is credentials
\* in hand wherever a step handles one, which is what status.applied! is dereferenced for
\* in the code, and no key is recorded that nobody made.
THEOREM TypeCorrect == Spec => []TypeOK
  <1>1. Base => TypeOK
    BY DEF Base
  <1>2. QED
    BY <1>1, BaseInit, BaseStep, PTL DEF Spec

-------------------------------------------------------------------------------
(* The inductive invariant: Base and what a reconcile knows of its resource.   *)

Ensuring == {"check", "get", "create", "secret", "emptySecret", "settle", "dropKey",
             "patchKey", "serviceAccount", "annotate", "patch"}

Deleting == {"prepareDelete", "disown", "deleteKey", "unannotate", "noteAbsent",
             "noteFailure", "release"}

OneAtWork ==
    \A m, n \in CloudPrincipalAuths : pc[m] # "idle" /\ pc[n] # "idle" => m = n

\* The finalizer is there before anything is made in the cloud, and only this worker
\* takes it off; without it nothing is recorded.  A deletion that goes by an old version
\* cannot remove it.
Claims(n) ==
    /\ pc[n] \in Ensuring => api[n].exists /\ api[n].finalizer
    /\ pc[n] \in Deleting =>
         obj[n].rv <= api[n].rv /\ (obj[n].rv = api[n].rv => obj[n] = api[n])
    /\ api[n].exists /\ ~api[n].finalizer => api[n].status.applied = {}

\* The keys that this resource has to answer for.
Ours(n) == live[n] \ ({Binding} \union inherited[n] \union lost[n])

\* Versions that a later patch may start from.
Known(n) == {api[n], cache[n]} \union watch[n]

\* The key in hand was made by this reconcile.
Fresh(n) == \A v \in Known(n) : RecordedIds(v) \intersect RecordedIds(obj[n]) = {}

\* Steps at which a key may be in hand and nowhere else.
Pending == {"secret", "patchKey", "dropKey", "patch"}

\* There is never more than one key to answer for, and it is recorded, in hand or both.
Followed(n) ==
    /\ pc[n] \notin Pending => Ours(n) \subseteq RecordedIds(api[n])
    /\ pc[n] \in Ensuring =>
         /\ Ours(n) \subseteq RecordedIds(obj[n])
         /\ Ours(n) = {} \/ RecordedIds(api[n]) = RecordedIds(obj[n]) \/ Fresh(n)
    /\ pc[n] = "create" /\ IsStatic(obj[n]) => Ours(n) = {}

\* No key of resource o is left, or its policy is to retain it ...
Freed(n, o) == ShouldBeDeleted(o) => RecordedIds(o) \intersect live[n] \subseteq lost[n]

\* ... and no annotation.
Plain(n, o) ==
    ShouldBeDeleted(o) /\ ~IsStatic(o) /\ HasRef(o) => serviceAccount[n] # "annotated"

\* A deletion gets to its end in order.
Orderly(n) ==
    /\ ~api[n].exists => Freed(n, api[n]) /\ Plain(n, api[n])
    /\ pc[n] = "disown" => ~ShouldBeDeleted(obj[n])
    /\ pc[n] \in {"unannotate", "noteAbsent", "release"} => Freed(n, obj[n])
    /\ pc[n] \in {"noteAbsent", "release"} => Plain(n, obj[n])

Inv ==
    /\ Base /\ OneAtWork
    /\ \A n \in CloudPrincipalAuths : Claims(n) /\ Followed(n) /\ Orderly(n)

-------------------------------------------------------------------------------
(* One resource at a time. *)

LEMMA Working ==
    ASSUME Base, NEW n \in CloudPrincipalAuths,
           Reconcile(n) \/ ApiCallFails(n) \/ CloudCallFails(n)
    PROVE  pc[n] # "idle"
  BY DEF Reconcile, AddFinalizer, Claim, Check, DeleteSelf, Get, CreateKey, ReachQuota, Bind,
         FindServiceAccount, Annotate, StoreKey, Settle, DropKey, PatchConclusion, RecordKey,
         Report, PrepareDelete, Disown, DeleteKey, Unannotate, Note, RemoveFinalizer, Release,
         ApiCallFails, CloudCallFails

LEMMA WorkStep ==
    ASSUME Base, OneAtWork, NEW n \in CloudPrincipalAuths, StepOf(n)
    PROVE  OneAtWork'
  <1>1. \A m \in CloudPrincipalAuths \ {n} : pc'[m] = pc[m]
    BY OthersKeep DEF Base, Untouched
  <1>2. CASE Start(n)
    <2>1. \A m \in CloudPrincipalAuths : pc[m] = "idle"
      BY <1>2, StartFacts, TypeParts DEF Base
    <2>2. QED
      BY <1>1, <2>1 DEF OneAtWork
  <1>3. CASE pc[n] # "idle"
    BY <1>1, <1>3 DEF OneAtWork
  <1>4. CASE \/ User(n) \/ Age(n) \/ Deliver(n) \/ DeliverSecret(n) \/ CollectGarbage(n)
    BY <1>4, WorkerRests DEF OneAtWork
  <1>5. QED
    BY <1>2, <1>3, <1>4, Working DEF StepOf

-------------------------------------------------------------------------------
(* The finalizer. *)

LEMMA RevisionTypes ==
    ASSUME Base, NEW n \in CloudPrincipalAuths
    PROVE  api[n].rv \in Nat /\ obj[n].rv \in Nat
  BY TypeParts, KnownTypes, ObjectFields DEF Base

LEMMA ClaimsReconcile ==
    ASSUME Base, NEW n \in CloudPrincipalAuths, Claims(n), Reconcile(n)
    PROVE  Claims(n)'
  <1> USE RevisionTypes DEF Claims, Ensuring, Deleting
  <1>1. CASE AddFinalizer(n)
    BY <1>1, AddFinalizerFacts DEF SameServer, Recommitted
  <1>2. CASE DeleteSelf(n)
    BY <1>2, DeleteSelfFacts DEF SameServer, Marked, Recommitted
  <1>3. CASE Check(n) \/ ReachQuota(n)
    BY <1>3, TypeParts, Pieces DEF Base, Check, ReachQuota, SameServer
  <1>4. CASE Get(n)
    BY <1>4, GetFacts DEF SameServer
  <1>5. CASE CreateKey(n) \/ Bind(n)
    BY <1>5, CreateKeyFacts, BindFacts DEF SameServer
  <1>6. CASE FindServiceAccount(n) \/ Annotate(n) \/ StoreKey(n) \/ Settle(n)
    BY <1>6, PublishFacts DEF SameServer
  <1>7. CASE DropKey(n)
    BY <1>7, DropKeyFacts DEF SameServer
  <1>8. CASE PatchConclusion(n)
    BY <1>8, PatchConclusionFacts DEF Patched
  <1>9. CASE RecordKey(n)
    BY <1>9, RecordKeyFacts DEF Patched, SameServer
  <1>10. CASE Report(n)
    BY <1>10, ReportFacts DEF Noted
  <1>11. CASE Note(n)
    BY <1>11, NoteFacts DEF Noted
  <1>12. CASE PrepareDelete(n)
    BY <1>12, PrepareDeleteFacts DEF SameServer
  <1>13. CASE DeleteKey(n)
    BY <1>13, DeleteKeyFacts DEF SameServer
  <1>14. CASE Unannotate(n) \/ Disown(n)
    BY <1>14, UnannotateFacts, DisownFacts DEF SameServer
  <1>15. CASE RemoveFinalizer(n)
    BY <1>15, RemoveFinalizerFacts DEF SameServer
  <1>16. QED
    BY <1>1, <1>2, <1>3, <1>4, <1>5, <1>6, <1>7, <1>8, <1>9, <1>10, <1>11, <1>12, <1>13,
       <1>14, <1>15 DEF Reconcile

LEMMA ClaimsStep ==
    ASSUME Base, NEW n \in CloudPrincipalAuths, Claims(n), StepOf(n)
    PROVE  Claims(n)'
  <1> USE RevisionTypes DEF Claims, Ensuring, Deleting
  <1>1. CASE User(n)
    BY <1>1, UserFacts DEF SameServer, Marked, Recommitted, Committed
  <1>2. CASE Age(n) \/ Deliver(n) \/ DeliverSecret(n) \/ CollectGarbage(n)
    BY <1>2, NatureFacts
  <1>3. CASE Start(n)
    BY <1>3, StartFacts, TypeParts DEF Base, SameServer
  <1>4. CASE ApiCallFails(n)
    BY <1>4, ApiCallFailsFacts DEF SameServer, Patched
  <1>5. CASE CloudCallFails(n)
    BY <1>5, CloudCallFailsFacts DEF SameServer
  <1>6. QED
    BY <1>1, <1>2, <1>3, <1>4, <1>5, ClaimsReconcile DEF StepOf

-------------------------------------------------------------------------------
(* The keys. *)

\* Nothing that is recorded anywhere changes.
QuietServer(n) ==
    /\ RecordedIds(api'[n]) = RecordedIds(api[n])
    /\ \A v \in {api'[n], cache'[n]} \union watch'[n] :
         \E u \in Known(n) : RecordedIds(v) = RecordedIds(u)

LEMMA QuietFacts ==
    ASSUME NEW n \in CloudPrincipalAuths,
           \/ SameServer(n)
           \/ cache' = cache /\ Recommitted(n)
           \/ Noted(n)
    PROVE  QuietServer(n)
  <1>1. CASE SameServer(n)
    BY <1>1 DEF SameServer, QuietServer, Known
  <1>2. CASE cache' = cache /\ Recommitted(n)
    <2>1. RecordedIds(api'[n]) = RecordedIds(api[n])
      BY <1>2 DEF Recommitted, RecordedIds
    <2>2. QED
      BY <1>2, <2>1 DEF Recommitted, Committed, QuietServer, Known
  <1>3. CASE Noted(n)
    <2>1. RecordedIds(api'[n]) = RecordedIds(api[n])
      BY <1>3 DEF Noted, RecordedIds
    <2>2. QED
      BY <1>3, <2>1 DEF Noted, QuietServer, Known
  <1>4. QED
    BY <1>1, <1>2, <1>3

\* The resource has no more keys to answer for than before.
Fewer(n) == Ours(n)' \subseteq Ours(n)

LEMMA FewerFacts ==
    ASSUME Base, NEW n \in CloudPrincipalAuths
    PROVE  /\ UNCHANGED worker \/ UNCHANGED keys => Fewer(n)
           /\ UNCHANGED <<live, lost, inherited>> => Fewer(n)
           /\ Forgotten(n) => Ours(n)' \subseteq Ours(n) \ {Id(n)}
           /\ live' = live /\ inherited' = inherited /\ lost'[n] = lost[n] \union Unrecorded(n)
              => Ours(n)' \subseteq Ours(n) \intersect RecordedIds(api[n])
  BY DEF worker, keys, Fewer, Ours, Forgotten, Unrecorded

\* A step that neither makes nor records a key.
LEMMA FollowedKeeps ==
    ASSUME NEW n \in CloudPrincipalAuths, Followed(n), QuietServer(n), Fewer(n),
           pc'[n] \in Ensuring =>
             pc[n] \in Ensuring /\ RecordedIds(obj'[n]) = RecordedIds(obj[n]),
           pc[n] \in Pending => pc'[n] \in Pending \/ Ours(n)' = {},
           pc'[n] = "create" /\ IsStatic(obj'[n]) =>
             Ours(n)' = {} \/ (pc[n] = "create" /\ IsStatic(obj[n]))
    PROVE  Followed(n)'
  <1>1. Ours(n)' \subseteq Ours(n) /\ RecordedIds(api'[n]) = RecordedIds(api[n])
    BY DEF Fewer, QuietServer
  <1>2. pc'[n] \notin Pending => Ours(n)' \subseteq RecordedIds(api'[n])
    BY <1>1 DEF Followed
  <1>3. ASSUME pc'[n] \in Ensuring
        PROVE  /\ Ours(n)' \subseteq RecordedIds(obj'[n])
               /\ \/ Ours(n)' = {} \/ RecordedIds(api'[n]) = RecordedIds(obj'[n])
                  \/ \A v \in {api'[n], cache'[n]} \union watch'[n] :
                       RecordedIds(v) \intersect RecordedIds(obj'[n]) = {}
    BY <1>1, <1>3 DEF Followed, Fresh, QuietServer
  <1>4. pc'[n] = "create" /\ IsStatic(obj'[n]) => Ours(n)' = {}
    BY <1>1 DEF Followed
  <1>5. QED
    BY <1>2, <1>3, <1>4 DEF Followed, Fresh, Known, IsStatic, RecordedIds

\* The end of a reconcile that leaves no key behind.
LEMMA FollowedIdle ==
    ASSUME NEW n \in CloudPrincipalAuths, pc'[n] = "idle",
           Ours(n)' \subseteq RecordedIds(api'[n])
    PROVE  Followed(n)'
  BY DEF Followed, Ensuring, RecordedIds

\* A patch that is accepted records the key in hand.
LEMMA PatchRecords ==
    ASSUME Base, NEW n \in CloudPrincipalAuths, Followed(n), Fewer(n),
           pc[n] \in {"patchKey", "patch"},
           Patched(n, obj[n].status), ~Refused(n, obj[n].status)
    PROVE  /\ Ours(n)' \subseteq RecordedIds(obj[n])
           /\ Ours(n)' = {} \/ RecordedIds(api'[n]) = RecordedIds(obj[n])
  <1> DEFINE new == obj[n].status
  <1>1. IdsOf(new.applied) = RecordedIds(obj[n])
    BY TypeParts, KnownTypes, ObjectFields DEF Base
  <1>2. new.applied # {}
    BY DEF Base, KeyInHand, Handling
  <1>3. /\ Ours(n) \subseteq RecordedIds(obj[n])
        /\ Ours(n) = {} \/ RecordedIds(api[n]) = RecordedIds(obj[n]) \/ Fresh(n)
    BY DEF Followed, Ensuring
  <1>4. CASE RecordedIds(api[n]) = RecordedIds(obj[n])
    BY <1>1, <1>3, <1>4 DEF Patched, Fewer
  <1>5. CASE Fresh(n)
    BY <1>1, <1>2, <1>3, <1>5 DEF Patched, Fewer, Fresh, Known
  <1>6. QED
    BY <1>3, <1>4, <1>5 DEF Fewer

LEMMA FollowedEnsure ==
    ASSUME Base, NEW n \in CloudPrincipalAuths, Followed(n),
           \/ AddFinalizer(n) \/ Check(n) \/ DeleteSelf(n) \/ Get(n)
           \/ CreateKey(n) \/ ReachQuota(n) \/ Bind(n)
           \/ FindServiceAccount(n) \/ Annotate(n) \/ StoreKey(n) \/ Settle(n)
    PROVE  Followed(n)'
  <1>1. CASE AddFinalizer(n)
    <2>1. QuietServer(n) /\ Fewer(n)
      BY <1>1, AddFinalizerFacts, QuietFacts, FewerFacts
    <2>2. Ours(n)' \subseteq RecordedIds(api'[n])
      BY <1>1, <2>1, AddFinalizerFacts DEF QuietServer, Fewer, Followed, Pending
    <2>3. CASE obj'[n] = api'[n] /\ pc'[n] = "check"
      BY <2>2, <2>3 DEF Followed, Ensuring, Pending, RecordedIds
    <2>4. QED
      BY <1>1, <2>2, <2>3, AddFinalizerFacts, FollowedIdle
  <1>2. CASE Check(n) \/ ReachQuota(n)
    <2>1. /\ SameServer(n) /\ UNCHANGED worker /\ obj'[n] = obj[n]
          /\ pc[n] \in {"check", "create"} /\ pc'[n] \in {"get", "report"}
      BY <1>2, TypeParts, Pieces DEF Base, Check, ReachQuota
    <2>2. QED
      BY <2>1, QuietFacts, FewerFacts, FollowedKeeps DEF Ensuring, Pending
  <1>3. CASE DeleteSelf(n)
    <2>1. QuietServer(n) /\ Fewer(n)
      BY <1>3, DeleteSelfFacts, QuietFacts, FewerFacts DEF Marked
    <2>2. QED
      BY <1>3, <2>1, DeleteSelfFacts, FollowedKeeps DEF Ensuring, Pending
  <1>4. CASE Get(n)
    <2>1. QuietServer(n) /\ Fewer(n)
      BY <1>4, GetFacts, QuietFacts, FewerFacts
    <2>2. Ours(n) \subseteq RecordedIds(obj[n])
      BY <1>4, GetFacts DEF Followed, Ensuring
    <2>3. obj[n].status.applied = {} => Ours(n) = {}
      BY <2>2 DEF RecordedIds
    <2>4. obj[n].status.applied # {} /\ Id(n) \notin live[n] => Ours(n) = {}
      BY <2>2, InHand, TypeParts DEF Base, Ours
    <2>5. pc'[n] = "create" /\ IsStatic(obj'[n]) => Ours(n)' = {}
      BY <1>4, <2>1, <2>3, <2>4, GetFacts DEF Fewer
    <2>6. QED
      BY <1>4, <2>1, <2>5, GetFacts, FollowedKeeps DEF Ensuring, Pending, SameCredentials
  <1>5. CASE CreateKey(n)
    <2>1. Ours(n) = {}
      BY <1>5, CreateKeyFacts DEF Followed
    <2>2. Ours(n)' \subseteq {NextKey}
      BY <1>5, <2>1, CreateKeyFacts DEF Ours
    <2>3. RecordedIds(obj'[n]) = {NextKey} /\ SameServer(n) /\ pc'[n] = "secret"
      BY <1>5, CreateKeyFacts
    <2>4. \A v \in Known(n) : NextKey \notin RecordedIds(v)
      BY NextKeyType DEF Base, KeysNumbered, Known, Seen
    <2>5. \A v \in {api'[n], cache'[n]} \union watch'[n] :
            RecordedIds(v) \intersect RecordedIds(obj'[n]) = {}
      BY <2>3, <2>4 DEF SameServer, Known
    <2>6. QED
      BY <2>2, <2>3, <2>5 DEF Followed, Fresh, Known, Pending, RecordedIds
  <1>6. CASE Bind(n)
    <2>1. QuietServer(n)
      BY <1>6, BindFacts, QuietFacts
    <2>2. Fewer(n)
      BY <1>6, BindFacts DEF Fewer, Ours
    <2>3. CASE obj'[n] = obj[n]
      BY <1>6, <2>1, <2>2, <2>3, BindFacts, FollowedKeeps DEF Ensuring, Pending
    <2>4. CASE obj[n].status.applied = {}
      <3>1. Ours(n) = {}
        BY <1>6, <2>4, BindFacts DEF Followed, Ensuring, RecordedIds
      <3>2. Ours(n)' = {}
        BY <2>2, <3>1 DEF Fewer
      <3>3. QED
        BY <1>6, <3>2, BindFacts DEF Followed, Pending
    <2>5. QED
      BY <1>6, <2>3, <2>4, BindFacts
  <1>7. CASE FindServiceAccount(n) \/ Annotate(n) \/ StoreKey(n) \/ Settle(n)
    <2>1. QuietServer(n) /\ Fewer(n)
      BY <1>7, PublishFacts, QuietFacts, FewerFacts
    <2>2. QED
      BY <1>7, <2>1, PublishFacts, FollowedKeeps DEF Ensuring, Pending, SameCredentials
  <1>8. QED
    BY <1>1, <1>2, <1>3, <1>4, <1>5, <1>6, <1>7

LEMMA FollowedConclude ==
    ASSUME Base, NEW n \in CloudPrincipalAuths, Followed(n),
           \/ DropKey(n) \/ PatchConclusion(n) \/ RecordKey(n) \/ Report(n)
           \/ PrepareDelete(n) \/ Disown(n) \/ DeleteKey(n) \/ Unannotate(n) \/ Note(n)
           \/ RemoveFinalizer(n)
    PROVE  Followed(n)'
  <1>1. CASE DropKey(n)
    <2>1. Ours(n) \subseteq RecordedIds(obj[n]) /\ RecordedIds(obj[n]) = {Id(n)}
      BY <1>1, DropKeyFacts, InHand, TypeParts DEF Base, Followed, Ensuring, Handling
    <2>2. Ours(n)' = {}
      BY <1>1, <2>1, DropKeyFacts, FewerFacts
    <2>3. QED
      BY <1>1, <2>2, DropKeyFacts, FollowedIdle
  <1>2. CASE PatchConclusion(n)
    <2>1. CASE Refused(n, obj[n].status)
      <3>1. Ours(n)' \subseteq RecordedIds(api[n]) /\ api'[n] = api[n]
        BY <1>2, <2>1, PatchConclusionFacts, FewerFacts DEF Patched
      <3>2. QED
        BY <1>2, <3>1, PatchConclusionFacts, FollowedIdle
    <2>2. CASE ~Refused(n, obj[n].status)
      <3>1. Fewer(n)
        BY <1>2, <2>2, PatchConclusionFacts DEF Fewer, Ours
      <3>2. /\ Ours(n)' \subseteq RecordedIds(obj[n])
            /\ Ours(n)' = {} \/ RecordedIds(api'[n]) = RecordedIds(obj[n])
        BY <1>2, <2>2, <3>1, PatchConclusionFacts, PatchRecords
      <3>3. QED
        BY <1>2, <3>2, PatchConclusionFacts, FollowedIdle
    <2>3. QED
      BY <2>1, <2>2
  <1>3. CASE RecordKey(n)
    <2>1. Fewer(n)
      BY <1>3, RecordKeyFacts, FewerFacts
    <2>2. CASE SameServer(n) /\ obj'[n] = obj[n] /\ pc'[n] = "dropKey"
      BY <1>3, <2>1, <2>2, RecordKeyFacts, QuietFacts, FollowedKeeps DEF Ensuring, Pending
    <2>3. CASE /\ pc'[n] = "idle" /\ ~Refused(n, obj[n].status)
               /\ Patched(n, obj[n].status)
      <3>1. /\ Ours(n)' \subseteq RecordedIds(obj[n])
            /\ Ours(n)' = {} \/ RecordedIds(api'[n]) = RecordedIds(obj[n])
        BY <1>3, <2>1, <2>3, RecordKeyFacts, PatchRecords
      <3>2. QED
        BY <2>3, <3>1, FollowedIdle
    <2>4. QED
      BY <1>3, <2>2, <2>3, RecordKeyFacts
  <1>4. CASE Report(n) \/ Note(n)
    <2>1. /\ QuietServer(n) /\ Fewer(n) /\ pc[n] \in {"report", "noteFailure", "noteAbsent"}
          /\ pc'[n] \in {"idle", "release"}
      BY <1>4, ReportFacts, NoteFacts, QuietFacts, FewerFacts
    <2>2. QED
      BY <2>1, FollowedKeeps DEF Ensuring, Pending
  <1>5. CASE PrepareDelete(n) \/ Unannotate(n) \/ Disown(n)
    <2>1. /\ QuietServer(n) /\ Fewer(n) /\ pc[n] \in {"prepareDelete", "unannotate", "disown"}
          /\ pc'[n] \in {"idle", "report", "deleteKey", "disown", "release", "noteAbsent"}
      BY <1>5, PrepareDeleteFacts, UnannotateFacts, DisownFacts, QuietFacts, FewerFacts
    <2>2. QED
      BY <2>1, FollowedKeeps DEF Ensuring, Pending
  <1>6. CASE DeleteKey(n)
    <2>1. /\ QuietServer(n) /\ Fewer(n) /\ pc[n] = "deleteKey"
          /\ pc'[n] \in {"unannotate", "release"}
      BY <1>6, DeleteKeyFacts, QuietFacts, FewerFacts DEF Fewer
    <2>2. QED
      BY <2>1, FollowedKeeps DEF Ensuring, Pending
  <1>7. CASE RemoveFinalizer(n)
    <2>1. /\ QuietServer(n) /\ Fewer(n) /\ pc[n] = "release" /\ pc'[n] = "idle"
      BY <1>7, RemoveFinalizerFacts, QuietFacts, FewerFacts
    <2>2. QED
      BY <2>1, FollowedKeeps DEF Ensuring, Pending
  <1>8. QED
    BY <1>1, <1>2, <1>3, <1>4, <1>5, <1>6, <1>7

LEMMA FollowedApiFailure ==
    ASSUME Base, NEW n \in CloudPrincipalAuths, Followed(n), ApiCallFails(n)
    PROVE  Followed(n)'
  <1>1. CASE /\ SameServer(n) /\ UNCHANGED worker
             /\ pc'[n] = "idle"
             /\ pc[n] \in {"addFinalizer", "report", "disown", "noteAbsent", "noteFailure",
                           "release", "check"}
    BY <1>1, QuietFacts, FewerFacts, FollowedKeeps DEF Ensuring, Pending
  <1>2. CASE /\ SameServer(n) /\ UNCHANGED <<live, young, inherited, secrets, serviceAccount>>
             /\ pc[n] = "patch" /\ pc'[n] = "idle"
             /\ lost'[n] = lost[n] \union Unrecorded(n)
    <2>1. Ours(n)' \subseteq RecordedIds(api'[n])
      BY <1>2, FewerFacts DEF SameServer
    <2>2. QED
      BY <1>2, <2>1, FollowedIdle
  <1>3. CASE /\ UNCHANGED <<cache, obj, worker>>
             /\ pc[n] = "patchKey" /\ pc'[n] = "dropKey"
             /\ \/ api'[n] = api[n] /\ watch'[n] = watch[n]
                \/ Patched(n, obj[n].status) /\ ~Refused(n, obj[n].status)
    <2>1. Fewer(n)
      BY <1>3, FewerFacts
    <2>2. CASE api'[n] = api[n] /\ watch'[n] = watch[n]
      <3>1. SameServer(n)
        BY <1>3, <2>2 DEF SameServer
      <3>2. QED
        BY <1>3, <2>1, <3>1, QuietFacts, FollowedKeeps DEF Ensuring, Pending
    <2>3. CASE Patched(n, obj[n].status) /\ ~Refused(n, obj[n].status)
      <3>1. /\ Ours(n)' \subseteq RecordedIds(obj[n])
            /\ Ours(n)' = {} \/ RecordedIds(api'[n]) = RecordedIds(obj[n])
        BY <1>3, <2>1, <2>3, PatchRecords
      <3>2. /\ Ours(n)' \subseteq RecordedIds(obj'[n])
            /\ Ours(n)' = {} \/ RecordedIds(api'[n]) = RecordedIds(obj'[n])
        BY <1>3, <3>1
      <3>3. QED
        BY <1>3, <3>2 DEF Followed, Pending, RecordedIds
    <2>4. QED
      BY <1>3, <2>2, <2>3
  <1>4. CASE /\ SameServer(n) /\ SameCredentials(n) /\ UNCHANGED keys
             /\ \/ pc[n] \in {"secret", "emptySecret"} /\ pc'[n] = "patchKey"
                \/ pc[n] = "annotate" /\ pc'[n] = "patch"
    BY <1>4, QuietFacts, FewerFacts, FollowedKeeps DEF Ensuring, Pending, SameCredentials
  <1>5. CASE /\ SameServer(n) /\ obj'[n] = obj[n] /\ UNCHANGED worker
             /\ pc[n] = "unannotate" /\ pc'[n] = "noteFailure"
    BY <1>5, QuietFacts, FewerFacts, FollowedKeeps DEF Ensuring, Pending
  <1>6. QED
    BY <1>1, <1>2, <1>3, <1>4, <1>5, ApiCallFailsFacts

LEMMA CloudCallFailsKeys ==
    ASSUME Base, NEW n \in CloudPrincipalAuths, CloudCallFails(n)
    PROVE  /\ Fewer(n)
           /\ pc[n] \in {"dropKey", "deleteKey"} => UNCHANGED keys \/ Forgotten(n)
           /\ lost[n] \subseteq lost'[n]
  <1>1. live \in [CloudPrincipalAuths -> SUBSET Ids] /\ lost \in [CloudPrincipalAuths -> SUBSET Ids]
    BY TypeParts DEF Base, KeysTypes
  <1>2. CASE UNCHANGED keys \/ Forget(n, Id(n))
    <2>1. UNCHANGED keys \/ Forgotten(n)
      BY <1>2, ForgetFacts
    <2>2. QED
      BY <2>1, FewerFacts DEF Fewer, Forgotten, keys
  <1>3. CASE /\ pc[n] = "create"
             /\ live' = [live EXCEPT ![n] = @ \union {NextKey}]
             /\ lost' = [lost EXCEPT ![n] = @ \union {NextKey}]
             /\ UNCHANGED <<young, inherited>>
    <2>1. live'[n] = live[n] \union {NextKey} /\ lost'[n] = lost[n] \union {NextKey}
      BY <1>1, <1>3
    <2>2. QED
      BY <1>3, <2>1 DEF Fewer, Ours
  <1>4. CASE /\ pc[n] = "create"
             /\ live' = [live EXCEPT ![n] = @ \union {Binding}]
             /\ UNCHANGED <<young, lost, inherited>>
    <2>1. live'[n] = live[n] \union {Binding}
      BY <1>1, <1>4
    <2>2. QED
      BY <1>4, <2>1 DEF Fewer, Ours
  <1>5. QED
    BY <1>2, <1>3, <1>4, CloudCallFailsFacts

LEMMA FollowedStep ==
    ASSUME Base, NEW n \in CloudPrincipalAuths, Claims(n), Followed(n), StepOf(n)
    PROVE  Followed(n)'
  <1>1. CASE User(n)
    <2>1. CASE SameServer(n) /\ UNCHANGED inherited
      BY <1>1, <2>1, UserFacts, QuietFacts, FewerFacts, FollowedKeeps DEF Ensuring, Pending
    <2>2. CASE Marked(n) /\ UNCHANGED inherited
      BY <1>1, <2>2, UserFacts, QuietFacts, FewerFacts, FollowedKeeps
         DEF Marked, Ensuring, Pending
    <2>3. CASE ~api[n].exists /\ inherited'[n] = live[n]
      <3>1. Ours(n)' = {}
        BY <1>1, <2>3, UserFacts DEF Ours
      <3>2. pc'[n] \notin Ensuring
        BY <1>1, <2>3, UserFacts DEF Claims
      <3>3. QED
        BY <3>1, <3>2 DEF Followed, Ensuring
    <2>4. QED
      BY <1>1, <2>1, <2>2, <2>3, UserFacts
  <1>2. CASE Age(n) \/ Deliver(n) \/ DeliverSecret(n) \/ CollectGarbage(n)
    <2>1. QuietServer(n)
      BY <1>2, NatureFacts DEF QuietServer, Known
    <2>2. QED
      BY <1>2, <2>1, NatureFacts, FewerFacts, FollowedKeeps DEF Ensuring, Pending
  <1>3. CASE Start(n)
    <2>1. /\ SameServer(n) /\ pc[n] = "idle" /\ UNCHANGED worker
          /\ \/ pc'[n] = "idle"
             \/ obj'[n] = api[n] /\ pc'[n] \in {"prepareDelete", "check", "addFinalizer"}
      BY <1>3, StartFacts, TypeParts DEF Base
    <2>2. QuietServer(n) /\ Fewer(n)
      BY <2>1, QuietFacts, FewerFacts
    <2>3. Ours(n)' \subseteq RecordedIds(api'[n])
      BY <2>1, <2>2 DEF QuietServer, Fewer, Followed, Pending
    <2>4. CASE pc'[n] = "idle"
      BY <2>3, <2>4, FollowedIdle
    <2>5. CASE obj'[n] = api[n] /\ pc'[n] \in {"prepareDelete", "check", "addFinalizer"}
      <3>1. obj'[n] = api'[n]
        BY <2>1, <2>5 DEF SameServer
      <3>2. QED
        BY <2>3, <2>5, <3>1 DEF Followed, Ensuring, Pending, RecordedIds
    <2>6. QED
      BY <2>1, <2>4, <2>5
  <1>4. CASE CloudCallFails(n)
    <2>1. QuietServer(n) /\ Fewer(n)
      BY <1>4, CloudCallFailsFacts, CloudCallFailsKeys, QuietFacts
    <2>2. QED
      BY <1>4, <2>1, CloudCallFailsFacts, FollowedKeeps DEF Ensuring, Pending, SameCredentials
  <1>5. QED
    BY <1>1, <1>2, <1>3, <1>4, FollowedApiFailure, FollowedEnsure, FollowedConclude
       DEF StepOf, Reconcile

-------------------------------------------------------------------------------
(* The deletion. *)

\* What is gone in the cloud stays gone.
Less(n) == live'[n] \subseteq live[n] /\ lost[n] \subseteq lost'[n]

\* A resource without a record has nothing to delete.
LEMMA NothingRecorded ==
    ASSUME NEW n, NEW o, o.status.applied = {}
    PROVE  Freed(n, o) /\ Plain(n, o)
  BY DEF Freed, Plain, RecordedIds, HasRef

\* Freed and Plain for what they say after a step.
FreedThen(n, o) == ShouldBeDeleted(o) => RecordedIds(o) \intersect live'[n] \subseteq lost'[n]

PlainThen(n, o) ==
    ShouldBeDeleted(o) /\ ~IsStatic(o) /\ HasRef(o) => serviceAccount'[n] # "annotated"

\* The same of a step.
LEMMA ThenFacts ==
    ASSUME NEW n \in CloudPrincipalAuths, NEW o
    PROVE  /\ Less(n) /\ Freed(n, o) => FreedThen(n, o)
           /\ serviceAccount'[n] # "annotated" => PlainThen(n, o)
           /\ serviceAccount'[n] = serviceAccount[n] /\ Plain(n, o) => PlainThen(n, o)
           /\ ~ShouldBeDeleted(o) => FreedThen(n, o) /\ PlainThen(n, o)
           /\ o.status.applied = {} => FreedThen(n, o) /\ PlainThen(n, o)
           /\ IsStatic(o) \/ ~HasRef(o) => PlainThen(n, o)
           /\ UNCHANGED worker \/ UNCHANGED keys => Less(n)
           /\ Forgotten(n) => Less(n)
  BY DEF Less, Freed, Plain, FreedThen, PlainThen, RecordedIds, HasRef, worker, keys, Forgotten

LEMMA OrderlyThen ==
    ASSUME NEW n \in CloudPrincipalAuths,
           ~api'[n].exists => FreedThen(n, api'[n]) /\ PlainThen(n, api'[n]),
           pc'[n] = "disown" => ~ShouldBeDeleted(obj'[n]),
           pc'[n] \in {"unannotate", "noteAbsent", "release"} => FreedThen(n, obj'[n]),
           pc'[n] \in {"noteAbsent", "release"} => PlainThen(n, obj'[n])
    PROVE  Orderly(n)'
  BY DEF Orderly, FreedThen, PlainThen, Freed, Plain, ShouldBeDeleted, RecordedIds, IsStatic,
         HasRef

\* The records of a resource that is gone.
LEMMA GoneFacts ==
    ASSUME Base, NEW n \in CloudPrincipalAuths, Claims(n), Orderly(n), Less(n),
           serviceAccount'[n] = serviceAccount[n] \/ serviceAccount'[n] # "annotated",
           SameServer(n) \/ Marked(n) \/ Noted(n),
           ~api'[n].exists
    PROVE  FreedThen(n, api'[n]) /\ PlainThen(n, api'[n])
  <1>1. CASE ~api[n].exists /\ api'[n] = api[n]
    BY <1>1, ThenFacts DEF Orderly
  <1>2. CASE Marked(n)
    <2>1. api'[n].status.applied = {}
      BY <1>2 DEF Marked, Recommitted, Claims
    <2>2. QED
      BY <2>1, ThenFacts
  <1>3. CASE Noted(n)
    <2>1. /\ ~api[n].exists /\ api'[n].spec = api[n].spec
          /\ api'[n].status.applied = api[n].status.applied
      BY <1>3 DEF Noted
    <2>2. FreedThen(n, api[n]) /\ PlainThen(n, api[n])
      BY <2>1, ThenFacts DEF Orderly
    <2>3. QED
      BY <2>1, <2>2 DEF FreedThen, PlainThen, ShouldBeDeleted, RecordedIds, IsStatic, HasRef
  <1>4. QED
    BY <1>1, <1>2, <1>3 DEF SameServer

\* The steps that do not get on with a deletion.
LEMMA OrderlyKeeps ==
    ASSUME Base, NEW n \in CloudPrincipalAuths, Claims(n), Orderly(n), Less(n),
           serviceAccount'[n] = serviceAccount[n] \/ serviceAccount'[n] # "annotated",
           SameServer(n) \/ Marked(n) \/ Noted(n) \/ api'[n].exists,
           \/ pc'[n] \notin {"disown", "unannotate", "noteAbsent", "release"}
           \/ pc'[n] = pc[n] /\ obj'[n] = obj[n]
    PROVE  Orderly(n)'
  <1>1. ~api'[n].exists => FreedThen(n, api'[n]) /\ PlainThen(n, api'[n])
    BY GoneFacts
  <1>2. CASE pc'[n] \notin {"disown", "unannotate", "noteAbsent", "release"}
    BY <1>1, <1>2, OrderlyThen
  <1>3. CASE pc'[n] = pc[n] /\ obj'[n] = obj[n]
    BY <1>1, <1>3, ThenFacts, OrderlyThen DEF Orderly
  <1>4. QED
    BY <1>2, <1>3

\* While credentials are made and published, the resource is there.
LEMMA OrderlyEnsure ==
    ASSUME Base, NEW n \in CloudPrincipalAuths, Claims(n), pc[n] \in Ensuring,
           api'[n].exists = api[n].exists,
           pc'[n] \in Ensuring \union {"idle", "report"}
    PROVE  Orderly(n)'
  BY OrderlyThen DEF Claims, Ensuring

LEMMA OrderlyReconcile ==
    ASSUME Base, NEW n \in CloudPrincipalAuths, Claims(n), Orderly(n), Reconcile(n)
    PROVE  Orderly(n)'
  <1> USE ThenFacts
  <1>1. CASE AddFinalizer(n)
    <2>1. Less(n) /\ serviceAccount' = serviceAccount
      BY <1>1, AddFinalizerFacts, WorkerUntouched
    <2>2. QED
      BY <1>1, <2>1, AddFinalizerFacts, OrderlyKeeps
  <1>2. CASE DeleteSelf(n)
    <2>1. Less(n) /\ serviceAccount' = serviceAccount
      BY <1>2, DeleteSelfFacts, WorkerUntouched
    <2>2. QED
      BY <1>2, <2>1, DeleteSelfFacts, OrderlyKeeps
  <1>3. CASE \/ Check(n) \/ ReachQuota(n) \/ Get(n) \/ CreateKey(n) \/ Bind(n)
             \/ FindServiceAccount(n) \/ Annotate(n) \/ StoreKey(n) \/ Settle(n) \/ DropKey(n)
    <2>1. CASE Check(n) \/ ReachQuota(n)
      BY <2>1, TypeParts, Pieces, OrderlyEnsure DEF Base, Check, ReachQuota, SameServer, Ensuring
    <2>2. CASE Get(n) \/ CreateKey(n) \/ Bind(n)
      BY <2>2, GetFacts, CreateKeyFacts, BindFacts, OrderlyEnsure DEF SameServer, Ensuring
    <2>3. CASE FindServiceAccount(n) \/ Annotate(n) \/ StoreKey(n) \/ Settle(n) \/ DropKey(n)
      BY <2>3, PublishFacts, DropKeyFacts, OrderlyEnsure DEF SameServer, Ensuring
    <2>4. QED
      BY <1>3, <2>1, <2>2, <2>3
  <1>4. CASE PatchConclusion(n) \/ RecordKey(n)
    BY <1>4, PatchConclusionFacts, RecordKeyFacts, OrderlyEnsure
       DEF Patched, SameServer, Ensuring
  <1>5. CASE Report(n)
    <2>1. Less(n) /\ serviceAccount' = serviceAccount
      BY <1>5, ReportFacts, WorkerUntouched
    <2>2. QED
      BY <1>5, <2>1, ReportFacts, OrderlyKeeps
  <1>6. CASE Note(n)
    <2>1. Less(n) /\ serviceAccount' = serviceAccount
      BY <1>6, NoteFacts, WorkerUntouched
    <2>2. CASE pc'[n] = "idle"
      BY <1>6, <2>1, <2>2, NoteFacts, OrderlyKeeps
    <2>3. CASE pc[n] = "noteAbsent" /\ pc'[n] = "release" /\ obj'[n] = obj[n]
      <3>1. ~api'[n].exists => FreedThen(n, api'[n]) /\ PlainThen(n, api'[n])
        BY <1>6, <2>1, NoteFacts, GoneFacts
      <3>2. FreedThen(n, obj'[n]) /\ PlainThen(n, obj'[n])
        BY <2>1, <2>3 DEF Orderly
      <3>3. QED
        BY <2>3, <3>1, <3>2, OrderlyThen
    <2>4. QED
      BY <1>6, <2>2, <2>3, NoteFacts
  <1>7. CASE PrepareDelete(n)
    <2>1. Less(n) /\ serviceAccount' = serviceAccount
      BY <1>7, PrepareDeleteFacts, WorkerUntouched
    <2>2. ~api'[n].exists => FreedThen(n, api'[n]) /\ PlainThen(n, api'[n])
      BY <1>7, <2>1, PrepareDeleteFacts, GoneFacts
    <2>3. pc'[n] = "release" => FreedThen(n, obj'[n]) /\ PlainThen(n, obj'[n])
      BY <1>7, PrepareDeleteFacts
    <2>4. QED
      BY <1>7, <2>2, <2>3, PrepareDeleteFacts, OrderlyThen
  <1>8. CASE DeleteKey(n)
    <2>1. Less(n)
      BY <1>8, DeleteKeyFacts
    <2>2. ~api'[n].exists => FreedThen(n, api'[n]) /\ PlainThen(n, api'[n])
      BY <1>8, <2>1, DeleteKeyFacts, GoneFacts
    <2>3. RecordedIds(obj[n]) = {Id(n)}
      BY <1>8, DeleteKeyFacts, InHand, TypeParts DEF Base, Handling
    <2>4. FreedThen(n, obj'[n])
      BY <1>8, <2>3, DeleteKeyFacts DEF Forgotten, FreedThen
    <2>5. QED
      BY <1>8, <2>2, <2>4, DeleteKeyFacts, OrderlyThen
  <1>9. CASE Unannotate(n)
    <2>1. Less(n)
      BY <1>9, UnannotateFacts
    <2>2. ~api'[n].exists => FreedThen(n, api'[n]) /\ PlainThen(n, api'[n])
      BY <1>9, <2>1, UnannotateFacts, GoneFacts
    <2>3. FreedThen(n, obj'[n]) /\ PlainThen(n, obj'[n])
      BY <1>9, <2>1, UnannotateFacts DEF Orderly
    <2>4. QED
      BY <1>9, <2>2, <2>3, UnannotateFacts, OrderlyThen
  <1>10. CASE Disown(n)
    <2>1. Less(n)
      BY <1>10, DisownFacts
    <2>2. ~api'[n].exists => FreedThen(n, api'[n]) /\ PlainThen(n, api'[n])
      BY <1>10, <2>1, DisownFacts, GoneFacts
    <2>3. ~ShouldBeDeleted(obj[n])
      BY <1>10, DisownFacts DEF Orderly
    <2>4. QED
      BY <1>10, <2>2, <2>3, DisownFacts, OrderlyThen
  <1>11. CASE RemoveFinalizer(n)
    <2>1. Less(n) /\ serviceAccount' = serviceAccount
      BY <1>11, RemoveFinalizerFacts, WorkerUntouched
    <2>2. CASE SameServer(n)
      BY <1>11, <2>1, <2>2, RemoveFinalizerFacts, OrderlyKeeps
    <2>3. CASE Recommitted(n) /\ api[n].rv = obj[n].rv /\ api'[n].spec = api[n].spec
      <3>1. obj[n] = api[n]
        BY <1>11, <2>3, RemoveFinalizerFacts DEF Claims, Deleting
      <3>2. Freed(n, api[n]) /\ Plain(n, api[n])
        BY <1>11, <3>1, RemoveFinalizerFacts DEF Orderly
      <3>3. FreedThen(n, api[n]) /\ PlainThen(n, api[n])
        BY <2>1, <3>2
      <3>4. FreedThen(n, api'[n]) /\ PlainThen(n, api'[n])
        BY <2>3, <3>3 DEF Recommitted, FreedThen, PlainThen, ShouldBeDeleted, RecordedIds,
                          IsStatic, HasRef
      <3>5. QED
        BY <1>11, <3>4, RemoveFinalizerFacts, OrderlyThen
    <2>4. QED
      BY <1>11, <2>2, <2>3, RemoveFinalizerFacts
  <1>12. QED
    BY <1>1, <1>2, <1>3, <1>4, <1>5, <1>6, <1>7, <1>8, <1>9, <1>10, <1>11 DEF Reconcile

LEMMA OrderlyStep ==
    ASSUME Base, NEW n \in CloudPrincipalAuths, Claims(n), Orderly(n), StepOf(n)
    PROVE  Orderly(n)'
  <1> USE ThenFacts
  <1>1. CASE User(n)
    <2>1. Less(n)
      BY <1>1, UserFacts DEF Less
    <2>2. QED
      BY <1>1, <2>1, UserFacts, OrderlyKeeps
  <1>2. CASE Age(n) \/ Deliver(n) \/ DeliverSecret(n) \/ CollectGarbage(n)
    <2>1. Less(n)
      BY <1>2, NatureFacts DEF Less
    <2>2. ~api'[n].exists => FreedThen(n, api'[n]) /\ PlainThen(n, api'[n])
      BY <1>2, <2>1, NatureFacts DEF Orderly
    <2>3. QED
      BY <1>2, <2>1, <2>2, NatureFacts, OrderlyThen DEF Orderly
  <1>3. CASE Start(n)
    <2>1. /\ SameServer(n) /\ UNCHANGED worker
          /\ pc'[n] \in {"idle", "prepareDelete", "check", "addFinalizer"}
      BY <1>3, StartFacts, TypeParts DEF Base
    <2>2. Less(n) /\ serviceAccount' = serviceAccount
      BY <2>1, WorkerUntouched
    <2>3. QED
      BY <2>1, <2>2, OrderlyKeeps
  <1>4. CASE ApiCallFails(n)
    <2>1. CASE pc[n] \in Ensuring
      BY <1>4, <2>1, ApiCallFailsFacts, OrderlyEnsure DEF SameServer, Patched, Ensuring
    <2>2. CASE pc[n] \notin Ensuring
      <3>1. /\ SameServer(n) /\ UNCHANGED worker /\ pc'[n] \in {"idle", "noteFailure"}
        BY <1>4, <2>2, ApiCallFailsFacts DEF Ensuring
      <3>2. Less(n) /\ serviceAccount' = serviceAccount
        BY <3>1, WorkerUntouched
      <3>3. QED
        BY <3>1, <3>2, OrderlyKeeps
    <2>3. QED
      BY <2>1, <2>2
  <1>5. CASE CloudCallFails(n)
    <2>1. CASE pc[n] \in Ensuring
      BY <1>5, <2>1, CloudCallFailsFacts, OrderlyEnsure DEF SameServer, Ensuring
    <2>2. CASE pc[n] \notin Ensuring
      <3>1. /\ pc[n] = "deleteKey" /\ pc'[n] = "report" /\ SameServer(n)
            /\ serviceAccount' = serviceAccount
        BY <1>5, <2>2, CloudCallFailsFacts DEF Ensuring
      <3>2. Less(n)
        BY <1>5, <3>1, CloudCallFailsKeys
      <3>3. QED
        BY <3>1, <3>2, OrderlyKeeps
    <2>3. QED
      BY <2>1, <2>2
  <1>6. QED
    BY <1>1, <1>2, <1>3, <1>4, <1>5, OrderlyReconcile DEF StepOf

-------------------------------------------------------------------------------
(* The invariant holds. *)

Sound(n) == Claims(n) /\ Followed(n) /\ Orderly(n)

LEMMA InvInit == Init => Inv
  <1> SUFFICES ASSUME Init PROVE Inv
    OBVIOUS
  <1>1. Base
    BY BaseInit
  <1>2. OneAtWork
    BY DEF Init, OneAtWork
  <1>3. ASSUME NEW n \in CloudPrincipalAuths PROVE Sound(n)
    <2>1. pc[n] = "idle" /\ live[n] = {}
      BY DEF Init
    <2>2. api[n].exists /\ api[n].status.applied = {}
      BY DEF Init, Created, NoStatus
    <2>3. Claims(n) /\ Orderly(n)
      BY <2>1, <2>2 DEF Claims, Orderly, Ensuring, Deleting
    <2>4. Followed(n)
      BY <2>1 DEF Followed, Ours, Ensuring
    <2>5. QED
      BY <2>3, <2>4 DEF Sound
  <1>4. QED
    BY <1>1, <1>2, <1>3 DEF Inv, Sound

LEMMA SoundUntouched ==
    ASSUME NEW n \in CloudPrincipalAuths, Sound(n), Untouched(n)
    PROVE  Sound(n)'
  <1>1. Claims(n)'
    BY DEF Sound, Untouched, Claims
  <1>2. Followed(n)'
    BY DEF Sound, Untouched, Followed, Ours, Fresh, Known, RecordedIds, IsStatic
  <1>3. Orderly(n)'
    BY DEF Sound, Untouched, Orderly, Freed, Plain, ShouldBeDeleted, RecordedIds, IsStatic,
           HasRef
  <1>4. QED
    BY <1>1, <1>2, <1>3 DEF Sound

LEMMA SoundCrash ==
    ASSUME Base, NEW n \in CloudPrincipalAuths, Sound(n), Crash
    PROVE  Sound(n)'
  <1>1. Claims(n)'
    BY BaseCrash DEF Sound, Claims, Ensuring, Deleting
  <1>2. Followed(n)'
    BY BaseCrash, FewerFacts, FollowedIdle
  <1>3. Orderly(n)'
    <2>1. Less(n)
      BY BaseCrash DEF Less
    <2>2. ~api'[n].exists => FreedThen(n, api'[n]) /\ PlainThen(n, api'[n])
      BY <2>1, BaseCrash, ThenFacts DEF Sound, Orderly
    <2>3. QED
      BY <2>2, BaseCrash, OrderlyThen
  <1>4. QED
    BY <1>1, <1>2, <1>3 DEF Sound

LEMMA InvStep == Inv /\ [Next]_vars => Inv'
  <1> SUFFICES ASSUME Inv, [Next]_vars PROVE Inv'
    OBVIOUS
  <1>1. Base /\ OneAtWork /\ Base' /\ \A n \in CloudPrincipalAuths : Sound(n)
    BY BaseStep DEF Inv, Sound
  <1>2. ASSUME NEW n \in CloudPrincipalAuths, StepOf(n)
        PROVE  Inv'
    <2>1. OneAtWork'
      BY <1>1, <1>2, WorkStep
    <2>2. Sound(n)'
      BY <1>1, <1>2, ClaimsStep, FollowedStep, OrderlyStep DEF Sound
    <2>3. ASSUME NEW m \in CloudPrincipalAuths \ {n} PROVE Sound(m)'
      BY <1>1, <1>2, OthersKeep, SoundUntouched DEF Base
    <2>4. QED
      BY <1>1, <2>1, <2>2, <2>3 DEF Inv, Sound
  <1>3. CASE PrincipalChanges \/ ProviderChanges \/ UNCHANGED vars
    <2>1. \A m \in CloudPrincipalAuths : Untouched(m)
      BY <1>3, EnvironmentKeeps
    <2>2. OneAtWork'
      BY <1>1, <2>1 DEF Untouched, OneAtWork
    <2>3. ASSUME NEW m \in CloudPrincipalAuths PROVE Sound(m)'
      BY <1>1, <2>1, SoundUntouched
    <2>4. QED
      BY <1>1, <2>2, <2>3 DEF Inv, Sound
  <1>4. CASE Crash
    <2>1. OneAtWork'
      BY <1>1, <1>4, BaseCrash DEF OneAtWork
    <2>2. ASSUME NEW m \in CloudPrincipalAuths PROVE Sound(m)'
      BY <1>1, <1>4, SoundCrash
    <2>3. QED
      BY <1>1, <2>1, <2>2 DEF Inv, Sound
  <1>5. QED
    BY <1>2, <1>3, <1>4, NextSteps

\* The inductive invariant: the resource at work has its finalizer on while keys are made
\* for it, each key it has to answer for is in its status or in the hands of the worker,
\* and its deletion goes by the last version and in order.
THEOREM Invariance == Spec => []Inv
  BY InvInit, InvStep, PTL DEF Spec

\* No reconcile forgets a key: whoever interferes, a key made for a resource that is in the
\* cloud and not in the status is in the hands of the worker, or one that a crash or a
\* failed call is to blame for.
THEOREM KeysAreTracked == Spec => []KeysTracked
  <1>1. Inv => KeysTracked
    <2> SUFFICES ASSUME Inv, NEW n \in CloudPrincipalAuths
                 PROVE  Unrecorded(n) \subseteq lost[n] \union RecordedIds(obj[n])
      BY DEF KeysTracked
    <2>1. Followed(n)
      BY DEF Inv
    <2>2. Ours(n) \subseteq RecordedIds(api[n]) \/ Ours(n) \subseteq RecordedIds(obj[n])
      BY <2>1 DEF Followed, Ensuring, Pending
    <2>3. QED
      BY <2>2 DEF Ours, Unrecorded
  <1>2. QED
    BY <1>1, Invariance, PTL

\* A resource that left the API server under deletionPolicy Delete left no key or binding
\* it recorded, unless the cloud denied having it, and no annotation.
THEOREM ReleaseDeletes == Spec => []ReleasedMeansDeleted
  <1>1. Inv => ReleasedMeansDeleted
    BY DEF Inv, Orderly, Freed, Plain, ReleasedMeansDeleted
  <1>2. QED
    BY <1>1, Invariance, PTL

-------------------------------------------------------------------------------
(* The controller implements FinalizerProtocol. *)

\* The variables of the protocol.
claimed == {n \in CloudPrincipalAuths : api[n].exists /\ api[n].finalizer}
owned == [n \in CloudPrincipalAuths |-> live[n] \ lost[n]]
recorded == [n \in CloudPrincipalAuths |-> RecordedIds(api[n])]
kept == {n \in CloudPrincipalAuths : ~ShouldBeDeleted(api[n])}

\* What the protocol sees of resource n, before a step and after it.
IsClaimed(o) == o.exists /\ o.finalizer
OwnedThen(n) == live'[n] \ lost'[n]

\* Others see nothing of the step.
Alone(n) ==
    \A m \in CloudPrincipalAuths \ {n} :
      api'[m] = api[m] /\ live'[m] = live[m] /\ lost'[m] = lost[m]

LEMMA MappedFacts ==
    ASSUME NEW n \in CloudPrincipalAuths, Alone(n)
    PROVE  /\ claimed' = IF IsClaimed(api'[n]) THEN claimed \union {n} ELSE claimed \ {n}
           /\ n \in claimed <=> IsClaimed(api[n])
           /\ owned' = [owned EXCEPT ![n] = OwnedThen(n)]
           /\ owned[n] = live[n] \ lost[n]
           /\ recorded' = [recorded EXCEPT ![n] = RecordedIds(api'[n])]
           /\ recorded[n] = RecordedIds(api[n])
           /\ kept' \in {kept \union {n}, kept \ {n}}
           /\ api'[n].spec = api[n].spec => kept' = kept
           /\ n \in kept <=> ~ShouldBeDeleted(api[n])
  <1>1. /\ claimed' = IF IsClaimed(api'[n]) THEN claimed \union {n} ELSE claimed \ {n}
        /\ n \in claimed <=> IsClaimed(api[n])
    BY DEF Alone, claimed, IsClaimed
  <1>2. owned' = [owned EXCEPT ![n] = OwnedThen(n)] /\ owned[n] = live[n] \ lost[n]
    BY DEF Alone, owned, OwnedThen
  <1>3. /\ recorded' = [recorded EXCEPT ![n] = RecordedIds(api'[n])]
        /\ recorded[n] = RecordedIds(api[n])
    BY DEF Alone, recorded, RecordedIds
  <1>4. /\ kept' \in {kept \union {n}, kept \ {n}}
        /\ api'[n].spec = api[n].spec => kept' = kept
        /\ n \in kept <=> ~ShouldBeDeleted(api[n])
    BY DEF Alone, kept, ShouldBeDeleted
  <1>5. QED
    BY <1>1, <1>2, <1>3, <1>4

\* A step that is none of the protocol's.
Quiet(n) ==
    /\ IsClaimed(api'[n]) <=> IsClaimed(api[n])
    /\ RecordedIds(api'[n]) = RecordedIds(api[n])
    /\ api'[n].spec = api[n].spec

\* What a step of resource n may be to the protocol: Unmake, Make, Renew, Claim,
\* ChangePolicy, Record, Release.
Mapped(n) ==
    \/ Quiet(n) /\ OwnedThen(n) \subseteq live[n] \ lost[n]
    \/ /\ Quiet(n) /\ IsClaimed(api[n])
       /\ \E k \in Ids : OwnedThen(n) = (live[n] \ lost[n]) \union {k}
    \/ /\ ~IsClaimed(api[n]) /\ ~IsClaimed(api'[n]) /\ RecordedIds(api'[n]) = {}
       /\ OwnedThen(n) = live[n] \ lost[n]
    \/ /\ ~IsClaimed(api[n]) /\ IsClaimed(api'[n])
       /\ RecordedIds(api[n]) = {} /\ RecordedIds(api'[n]) = {}
       /\ api'[n].spec = api[n].spec
       /\ OwnedThen(n) = live[n] \ lost[n]
    \/ /\ IsClaimed(api[n]) /\ IsClaimed(api'[n])
       /\ RecordedIds(api'[n]) = RecordedIds(api[n])
       /\ OwnedThen(n) = live[n] \ lost[n]
    \/ /\ IsClaimed(api[n]) /\ IsClaimed(api'[n])
       /\ RecordedIds(api'[n]) \subseteq Ids
       /\ api'[n].spec = api[n].spec
       /\ OwnedThen(n) = live[n] \ lost[n]
    \/ /\ IsClaimed(api[n]) /\ ~IsClaimed(api'[n])
       /\ RecordedIds(api'[n]) = RecordedIds(api[n])
       /\ api'[n].spec = api[n].spec
       /\ OwnedThen(n) = live[n] \ lost[n]
       /\ ShouldBeDeleted(api[n]) => RecordedIds(api[n]) \intersect live[n] \subseteq lost[n]

LEMMA ProtocolSteps ==
    ASSUME NEW n \in CloudPrincipalAuths, Alone(n), Mapped(n)
    PROVE  [Protocol!Next]_(Protocol!vars)
  <1>a. /\ IsClaimed(api[n]) /\ IsClaimed(api'[n]) => n \in claimed /\ claimed' = claimed
        /\ ~IsClaimed(api[n]) /\ ~IsClaimed(api'[n]) => n \notin claimed /\ claimed' = claimed
        /\ ~IsClaimed(api[n]) /\ IsClaimed(api'[n])
           => n \notin claimed /\ claimed' = claimed \union {n}
        /\ IsClaimed(api[n]) /\ ~IsClaimed(api'[n])
           => n \in claimed /\ claimed' = claimed \ {n}
    BY MappedFacts
  <1>b. /\ owned' = [owned EXCEPT ![n] = OwnedThen(n)] /\ owned[n] = live[n] \ lost[n]
        /\ OwnedThen(n) = live[n] \ lost[n] => owned' = owned
    BY MappedFacts DEF owned
  <1>c. /\ recorded' = [recorded EXCEPT ![n] = RecordedIds(api'[n])]
        /\ recorded[n] = RecordedIds(api[n])
        /\ RecordedIds(api'[n]) = RecordedIds(api[n]) => recorded' = recorded
    BY MappedFacts DEF recorded
  <1>d. /\ kept' \in {kept \union {n}, kept \ {n}}
        /\ api'[n].spec = api[n].spec => kept' = kept
        /\ n \in kept <=> ~ShouldBeDeleted(api[n])
    BY MappedFacts
  <1>1. CASE Quiet(n) /\ OwnedThen(n) \subseteq live[n] \ lost[n]
    <2>1. UNCHANGED <<claimed, recorded, kept>>
      BY <1>a, <1>b, <1>c, <1>d, <1>1 DEF Quiet
    <2>2. \E s \in SUBSET owned[n] : owned' = [owned EXCEPT ![n] = s]
      BY <1>b, <1>1
    <2>3. Protocol!Unmake(n)
      BY <2>1, <2>2 DEF Protocol!Unmake, claimed, owned, recorded, kept
    <2>4. QED
      BY <2>3 DEF Protocol!Next
  <1>2. CASE /\ Quiet(n) /\ IsClaimed(api[n])
             /\ \E k \in Ids : OwnedThen(n) = (live[n] \ lost[n]) \union {k}
    <2>1. UNCHANGED <<claimed, recorded, kept>> /\ n \in claimed
      BY <1>a, <1>b, <1>c, <1>d, <1>2 DEF Quiet
    <2>2. \E k \in Ids : owned' = [owned EXCEPT ![n] = @ \union {k}]
      BY <1>a, <1>b, <1>c, <1>d, <1>2
    <2>3. Protocol!Make(n)
      BY <2>1, <2>2 DEF Protocol!Make, claimed, owned, recorded, kept
    <2>4. QED
      BY <2>3 DEF Protocol!Next
  <1>3. CASE /\ ~IsClaimed(api[n]) /\ ~IsClaimed(api'[n]) /\ RecordedIds(api'[n]) = {}
             /\ OwnedThen(n) = live[n] \ lost[n]
    <2>1. /\ n \notin claimed /\ UNCHANGED <<claimed, owned>>
          /\ recorded' = [recorded EXCEPT ![n] = {}]
          /\ kept' \in {kept \union {n}, kept \ {n}}
      BY <1>a, <1>b, <1>c, <1>d, <1>3
    <2>2. Protocol!Renew(n)
      BY <2>1 DEF Protocol!Renew, claimed, owned, recorded, kept
    <2>3. QED
      BY <2>2 DEF Protocol!Next
  <1>4. CASE /\ ~IsClaimed(api[n]) /\ IsClaimed(api'[n])
             /\ RecordedIds(api[n]) = {} /\ RecordedIds(api'[n]) = {}
             /\ api'[n].spec = api[n].spec
             /\ OwnedThen(n) = live[n] \ lost[n]
    <2>1. /\ n \notin claimed /\ claimed' = claimed \union {n} /\ recorded[n] = {}
          /\ UNCHANGED <<owned, recorded, kept>>
      BY <1>a, <1>b, <1>c, <1>d, <1>4
    <2>2. Protocol!Claim(n)
      BY <2>1 DEF Protocol!Claim, claimed, owned, recorded, kept
    <2>3. QED
      BY <2>2 DEF Protocol!Next
  <1>5. CASE /\ IsClaimed(api[n]) /\ IsClaimed(api'[n])
             /\ RecordedIds(api'[n]) = RecordedIds(api[n])
             /\ OwnedThen(n) = live[n] \ lost[n]
    <2>1. /\ n \in claimed /\ UNCHANGED <<claimed, owned, recorded>>
          /\ kept' \in {kept \union {n}, kept \ {n}}
      BY <1>a, <1>b, <1>c, <1>d, <1>5
    <2>2. Protocol!ChangePolicy(n)
      BY <2>1 DEF Protocol!ChangePolicy, claimed, owned, recorded, kept
    <2>3. QED
      BY <2>2 DEF Protocol!Next
  <1>6. CASE /\ IsClaimed(api[n]) /\ IsClaimed(api'[n])
             /\ RecordedIds(api'[n]) \subseteq Ids
             /\ api'[n].spec = api[n].spec
             /\ OwnedThen(n) = live[n] \ lost[n]
    <2>1. /\ n \in claimed /\ UNCHANGED <<claimed, owned, kept>>
          /\ \E s \in SUBSET Ids : recorded' = [recorded EXCEPT ![n] = s]
      BY <1>a, <1>b, <1>c, <1>d, <1>6
    <2>2. Protocol!Record(n)
      BY <2>1 DEF Protocol!Record, claimed, owned, recorded, kept
    <2>3. QED
      BY <2>2 DEF Protocol!Next
  <1>7. CASE /\ IsClaimed(api[n]) /\ ~IsClaimed(api'[n])
             /\ RecordedIds(api'[n]) = RecordedIds(api[n])
             /\ api'[n].spec = api[n].spec
             /\ OwnedThen(n) = live[n] \ lost[n]
             /\ ShouldBeDeleted(api[n])
                => RecordedIds(api[n]) \intersect live[n] \subseteq lost[n]
    <2>1. /\ n \in claimed /\ claimed' = claimed \ {n}
          /\ UNCHANGED <<owned, recorded, kept>>
          /\ n \in kept \/ recorded[n] \intersect owned[n] = {}
      BY <1>a, <1>b, <1>c, <1>d, <1>7
    <2>2. Protocol!Release(n)
      BY <2>1 DEF Protocol!Release, claimed, owned, recorded, kept
    <2>3. QED
      BY <2>2 DEF Protocol!Next
  <1>8. QED
    BY <1>1, <1>2, <1>3, <1>4, <1>5, <1>6, <1>7 DEF Mapped

LEMMA MappedPieces ==
    ASSUME Base, NEW n \in CloudPrincipalAuths
    PROVE  /\ SameServer(n) => Quiet(n)
           /\ Noted(n) => Quiet(n)
           /\ UNCHANGED worker \/ UNCHANGED keys \/ UNCHANGED <<live, lost>>
              => OwnedThen(n) = live[n] \ lost[n]
           /\ Less(n) => OwnedThen(n) \subseteq live[n] \ lost[n]
           /\ Quiet(n) /\ OwnedThen(n) \subseteq live[n] \ lost[n] => Mapped(n)
  <1>1. SameServer(n) => Quiet(n)
    BY DEF SameServer, Quiet
  <1>2. Noted(n) => Quiet(n)
    BY DEF Noted, Quiet, IsClaimed, RecordedIds
  <1>3. UNCHANGED worker \/ UNCHANGED keys \/ UNCHANGED <<live, lost>>
        => OwnedThen(n) = live[n] \ lost[n]
    BY DEF worker, keys, OwnedThen
  <1>4. Less(n) => OwnedThen(n) \subseteq live[n] \ lost[n]
    BY DEF Less, OwnedThen
  <1>5. Quiet(n) /\ OwnedThen(n) \subseteq live[n] \ lost[n] => Mapped(n)
    BY DEF Mapped
  <1>6. QED
    BY <1>1, <1>2, <1>3, <1>4, <1>5

\* A user's edit or deletion request, or the deletion with the CloudPrincipal.
LEMMA MappedMarked ==
    ASSUME NEW n \in CloudPrincipalAuths, Claims(n), Marked(n),
           OwnedThen(n) = live[n] \ lost[n]
    PROVE  Mapped(n)
  <1>1. RecordedIds(api'[n]) = RecordedIds(api[n])
    BY DEF Marked, Recommitted, RecordedIds
  <1>2. CASE IsClaimed(api[n])
    <2>1. IsClaimed(api'[n])
      BY <1>2 DEF Marked, IsClaimed
    <2>2. QED
      BY <1>1, <1>2, <2>1 DEF Mapped
  <1>3. CASE ~IsClaimed(api[n])
    <2>1. ~IsClaimed(api'[n]) /\ api[n].status.applied = {}
      BY <1>3 DEF Marked, IsClaimed, Claims
    <2>2. RecordedIds(api'[n]) = {}
      BY <1>1, <2>1 DEF RecordedIds
    <2>3. QED
      BY <1>3, <2>1, <2>2 DEF Mapped
  <1>4. QED
    BY <1>2, <1>3

\* A patch of the status of a resource whose credentials are being made.
LEMMA MappedPatch ==
    ASSUME Base, Base', NEW n \in CloudPrincipalAuths, Claims(n), pc[n] \in Ensuring,
           Patched(n, obj[n].status), OwnedThen(n) = live[n] \ lost[n]
    PROVE  Mapped(n)
  <1>1. IsClaimed(api[n]) /\ IsClaimed(api'[n]) /\ api'[n].spec = api[n].spec
    BY DEF Claims, Patched, IsClaimed
  <1>2. RecordedIds(api'[n]) \subseteq Ids
    <2>1. RecordedIds(obj[n]) \subseteq Ids /\ RecordedIds(api[n]) \subseteq Ids
          /\ IdsOf(obj[n].status.applied) = RecordedIds(obj[n])
      BY TypeParts, KnownTypes, ObjectFields DEF Base
    <2>2. QED
      BY <2>1 DEF Patched
  <1>3. QED
    BY <1>1, <1>2 DEF Mapped

LEMMA MappedMake ==
    ASSUME Base, NEW n \in CloudPrincipalAuths, Claims(n), pc[n] = "create", SameServer(n),
           lost' = lost, NEW k \in Ids, k \notin Numbers, live'[n] = live[n] \union {k}
    PROVE  Mapped(n)
  <1>1. IsClaimed(api[n]) /\ Quiet(n)
    BY MappedPieces DEF Claims, Ensuring, IsClaimed
  <1>2. k \notin lost[n]
    BY DEF Base, KeysNumbered
  <1>3. OwnedThen(n) = (live[n] \ lost[n]) \union {k}
    BY <1>2 DEF OwnedThen
  <1>4. QED
    BY <1>1, <1>3 DEF Mapped

LEMMA BindingIsNoKey ==
    ASSUME Base
    PROVE  Binding \in Ids /\ Binding \notin Numbers
  <1>1. budget.keys \in Nat /\ setting.keys \in Nat /\ Binding \in Ids
    BY TypeParts, SettingFacts DEF Base, BudgetTypes
  <1>2. QED
    BY <1>1 DEF Binding, Numbers

LEMMA MappedReconcile ==
    ASSUME Inv, Base', NEW n \in CloudPrincipalAuths, Reconcile(n)
    PROVE  Mapped(n)
  <1> USE MappedPieces, ThenFacts
  <1>0. Base /\ Claims(n) /\ Orderly(n)
    BY DEF Inv
  <1>1. CASE AddFinalizer(n)
    <2>1. UNCHANGED worker
      BY <1>0, <1>1, AddFinalizerFacts
    <2>2. OwnedThen(n) = live[n] \ lost[n]
      BY <1>0, <2>1
    <2>3. CASE SameServer(n)
      BY <1>0, <2>2, <2>3
    <2>4. CASE /\ Recommitted(n) /\ api[n].exists
               /\ api'[n].exists /\ api'[n].finalizer /\ api'[n].spec = api[n].spec
      <3>1. RecordedIds(api'[n]) = RecordedIds(api[n]) /\ IsClaimed(api'[n])
        BY <2>4 DEF Recommitted, RecordedIds, IsClaimed
      <3>2. CASE IsClaimed(api[n])
        BY <2>2, <3>1, <3>2 DEF Mapped
      <3>3. CASE ~IsClaimed(api[n])
        <4>1. RecordedIds(api[n]) = {}
          BY <1>0, <2>4, <3>3 DEF Claims, IsClaimed, RecordedIds
        <4>2. QED
          BY <2>2, <2>4, <3>1, <3>3, <4>1 DEF Mapped
      <3>4. QED
        BY <3>2, <3>3
    <2>5. QED
      BY <1>0, <1>1, <2>3, <2>4, AddFinalizerFacts
  <1>2. CASE DeleteSelf(n)
    <2>1. OwnedThen(n) = live[n] \ lost[n]
      BY <1>0, <1>2, DeleteSelfFacts
    <2>2. QED
      BY <1>0, <1>2, <2>1, DeleteSelfFacts, MappedMarked
  <1>3. CASE Check(n) \/ ReachQuota(n)
    BY <1>0, <1>3, TypeParts, Pieces DEF Base, Check, ReachQuota
  <1>4. CASE Get(n)
    BY <1>0, <1>4, GetFacts
  <1>5. CASE CreateKey(n)
    <2>1. NextKey \notin Numbers
      BY <1>0, NextKeyType DEF Credentials
    <2>2. QED
      BY <1>0, <1>5, <2>1, CreateKeyFacts, MappedMake
  <1>6. CASE Bind(n)
    BY <1>0, <1>6, BindFacts, BindingIsNoKey, MappedMake
  <1>7. CASE FindServiceAccount(n) \/ Annotate(n) \/ StoreKey(n) \/ Settle(n)
    BY <1>0, <1>7, PublishFacts
  <1>8. CASE DropKey(n) \/ DeleteKey(n)
    BY <1>0, <1>8, DropKeyFacts, DeleteKeyFacts
  <1>9. CASE PatchConclusion(n)
    <2>1. pc[n] \in Ensuring /\ Patched(n, obj[n].status)
      BY <1>0, <1>9, PatchConclusionFacts DEF Ensuring
    <2>2. CASE Refused(n, obj[n].status)
      <3>1. Quiet(n)
        BY <2>1, <2>2 DEF Patched, Quiet
      <3>2. Less(n)
        BY <1>0, <1>9, PatchConclusionFacts DEF Less
      <3>3. QED
        BY <1>0, <3>1, <3>2
    <2>3. CASE ~Refused(n, obj[n].status)
      <3>1. OwnedThen(n) = live[n] \ lost[n]
        BY <1>0, <1>9, <2>3, PatchConclusionFacts DEF OwnedThen
      <3>2. QED
        BY <1>0, <2>1, <3>1, MappedPatch
    <2>4. QED
      BY <2>2, <2>3
  <1>10. CASE RecordKey(n)
    <2>1. pc[n] \in Ensuring /\ OwnedThen(n) = live[n] \ lost[n]
      BY <1>0, <1>10, RecordKeyFacts DEF Ensuring
    <2>2. QED
      BY <1>0, <1>10, <2>1, RecordKeyFacts, MappedPatch
  <1>11. CASE Report(n) \/ Note(n)
    BY <1>0, <1>11, ReportFacts, NoteFacts
  <1>12. CASE PrepareDelete(n) \/ Unannotate(n) \/ Disown(n)
    BY <1>0, <1>12, PrepareDeleteFacts, UnannotateFacts, DisownFacts
  <1>13. CASE RemoveFinalizer(n)
    <2>1. OwnedThen(n) = live[n] \ lost[n]
      BY <1>0, <1>13, RemoveFinalizerFacts
    <2>2. CASE SameServer(n)
      BY <1>0, <2>1, <2>2
    <2>3. CASE /\ Recommitted(n) /\ api[n].exists /\ api[n].rv = obj[n].rv
               /\ ~api'[n].exists /\ api'[n].spec = api[n].spec
      <3>1. obj[n] = api[n]
        BY <1>0, <1>13, <2>3, RemoveFinalizerFacts DEF Claims, Deleting
      <3>2. ShouldBeDeleted(api[n]) => RecordedIds(api[n]) \intersect live[n] \subseteq lost[n]
        BY <1>0, <1>13, <3>1, RemoveFinalizerFacts DEF Orderly, Freed
      <3>3. RecordedIds(api'[n]) = RecordedIds(api[n]) /\ ~IsClaimed(api'[n])
        BY <2>3 DEF Recommitted, RecordedIds, IsClaimed
      <3>4. CASE IsClaimed(api[n])
        BY <2>1, <2>3, <3>2, <3>3, <3>4 DEF Mapped
      <3>5. CASE ~IsClaimed(api[n])
        BY <2>1, <2>3, <3>3, <3>5 DEF Mapped, Quiet
      <3>6. QED
        BY <3>4, <3>5
    <2>4. QED
      BY <1>0, <1>13, <2>2, <2>3, RemoveFinalizerFacts
  <1>14. QED
    BY <1>1, <1>2, <1>3, <1>4, <1>5, <1>6, <1>7, <1>8, <1>9, <1>10, <1>11, <1>12, <1>13
       DEF Reconcile

LEMMA MappedStep ==
    ASSUME Inv, Base', NEW n \in CloudPrincipalAuths, StepOf(n)
    PROVE  Mapped(n)
  <1> USE MappedPieces, ThenFacts
  <1>0. Base /\ Claims(n)
    BY DEF Inv
  <1>1. CASE User(n)
    <2>1. OwnedThen(n) = live[n] \ lost[n]
      BY <1>0, <1>1, UserFacts
    <2>2. CASE ~api[n].exists /\ api'[n].exists /\ ~api'[n].finalizer
               /\ api'[n].status.applied = {}
      <3>1. ~IsClaimed(api[n]) /\ ~IsClaimed(api'[n]) /\ RecordedIds(api'[n]) = {}
        BY <2>2 DEF IsClaimed, RecordedIds
      <3>2. QED
        BY <2>1, <3>1 DEF Mapped
    <2>3. QED
      BY <1>0, <1>1, <2>1, <2>2, UserFacts, MappedMarked
  <1>2. CASE Age(n) \/ Deliver(n) \/ DeliverSecret(n) \/ CollectGarbage(n)
    <2>1. Quiet(n)
      BY <1>0, <1>2, NatureFacts DEF Quiet
    <2>2. QED
      BY <1>0, <1>2, <2>1, NatureFacts
  <1>3. CASE Start(n)
    BY <1>0, <1>3, StartFacts, TypeParts DEF Base
  <1>4. CASE ApiCallFails(n)
    <2>1. CASE SameServer(n) /\ (UNCHANGED worker \/ UNCHANGED keys)
      BY <1>0, <2>1
    <2>2. CASE SameServer(n) /\ live' = live /\ lost'[n] = lost[n] \union Unrecorded(n)
      <3>1. Less(n)
        BY <2>2 DEF Less
      <3>2. QED
        BY <1>0, <2>2, <3>1
    <2>3. CASE /\ UNCHANGED <<cache, obj, worker>> /\ pc[n] = "patchKey"
               /\ \/ api'[n] = api[n] /\ watch'[n] = watch[n]
                  \/ Patched(n, obj[n].status)
      <3>1. OwnedThen(n) = live[n] \ lost[n] /\ pc[n] \in Ensuring
        BY <1>0, <2>3 DEF Ensuring
      <3>2. CASE api'[n] = api[n]
        BY <1>0, <3>1, <3>2 DEF Quiet
      <3>3. CASE Patched(n, obj[n].status)
        BY <1>0, <3>1, <3>3, MappedPatch
      <3>4. QED
        BY <2>3, <3>2, <3>3
    <2>4. QED
      BY <1>0, <1>4, <2>1, <2>2, <2>3, ApiCallFailsFacts
  <1>5. CASE CloudCallFails(n)
    <2>1. SameServer(n) /\ live \in [CloudPrincipalAuths -> SUBSET Ids]
          /\ lost \in [CloudPrincipalAuths -> SUBSET Ids]
      BY <1>0, <1>5, CloudCallFailsFacts, TypeParts DEF Base, KeysTypes
    <2>2. CASE UNCHANGED keys \/ Forget(n, Id(n))
      BY <1>0, <2>1, <2>2, ForgetFacts
    <2>3. CASE /\ live' = [live EXCEPT ![n] = @ \union {NextKey}]
               /\ lost' = [lost EXCEPT ![n] = @ \union {NextKey}]
      <3>1. OwnedThen(n) \subseteq live[n] \ lost[n]
        BY <2>1, <2>3 DEF OwnedThen
      <3>2. QED
        BY <1>0, <2>1, <3>1
    <2>4. CASE /\ pc[n] = "create" /\ lost' = lost
               /\ live' = [live EXCEPT ![n] = @ \union {Binding}]
      <3>1. live'[n] = live[n] \union {Binding}
        BY <2>1, <2>4
      <3>2. QED
        BY <1>0, <2>1, <2>4, <3>1, BindingIsNoKey, MappedMake
    <2>5. QED
      BY <1>0, <1>5, <2>2, <2>3, <2>4, CloudCallFailsFacts
  <1>6. QED
    BY <1>1, <1>2, <1>3, <1>4, <1>5, MappedReconcile DEF StepOf

LEMMA ProtocolInit == Init => Protocol!Init
  <1> SUFFICES ASSUME Init PROVE Protocol!Init
    OBVIOUS
  <1>1. \A n \in CloudPrincipalAuths :
          /\ ~api[n].finalizer /\ RecordedIds(api[n]) = {}
          /\ live[n] = {}
    BY DEF Init, Created, NoStatus, RecordedIds
  <1>2. claimed = {} /\ owned = [n \in CloudPrincipalAuths |-> {}]
        /\ recorded = [n \in CloudPrincipalAuths |-> {}]
    BY <1>1 DEF claimed, owned, recorded
  <1>3. QED
    BY <1>2 DEF Protocol!Init, claimed, owned, recorded

LEMMA ProtocolStep == Inv /\ [Next]_vars => [Protocol!Next]_(Protocol!vars)
  <1> SUFFICES ASSUME Inv, [Next]_vars PROVE [Protocol!Next]_(Protocol!vars)
    OBVIOUS
  <1>1. Base /\ Base'
    BY BaseStep DEF Inv
  <1>2. ASSUME NEW n \in CloudPrincipalAuths, StepOf(n)
        PROVE  [Protocol!Next]_(Protocol!vars)
    <2>1. Alone(n)
      BY <1>1, <1>2, OthersKeep DEF Base, Untouched, Alone
    <2>2. QED
      BY <1>1, <1>2, <2>1, MappedStep, ProtocolSteps
  <1>3. ASSUME \A n \in CloudPrincipalAuths :
                 api'[n] = api[n] /\ live'[n] = live[n] /\ lost'[n] = lost[n]
        PROVE  [Protocol!Next]_(Protocol!vars)
    <2>1. UNCHANGED <<claimed, owned, recorded, kept>>
      BY <1>3 DEF claimed, owned, recorded, kept, RecordedIds, ShouldBeDeleted
    <2>2. QED
      BY <2>1 DEF Protocol!vars, claimed, owned, recorded, kept
  <1>4. CASE PrincipalChanges \/ ProviderChanges \/ UNCHANGED vars
    BY <1>3, <1>4, EnvironmentKeeps DEF Untouched
  <1>5. CASE Crash
    <2>1. ASSUME NEW m \in CloudPrincipalAuths, pc[m] = "idle"
          PROVE  api'[m] = api[m] /\ live'[m] = live[m] /\ lost'[m] = lost[m]
      <3>1. Ours(m) \subseteq RecordedIds(api[m])
        BY <2>1 DEF Inv, Followed, Pending
      <3>2. Unrecorded(m) \subseteq lost[m]
        BY <3>1 DEF Ours, Unrecorded
      <3>3. QED
        BY <1>1, <1>5, <3>2, BaseCrash
    <2>2. CASE \A m \in CloudPrincipalAuths : pc[m] = "idle"
      BY <1>3, <2>1, <2>2
    <2>3. ASSUME NEW n \in CloudPrincipalAuths, pc[n] # "idle"
          PROVE  [Protocol!Next]_(Protocol!vars)
      <3>1. \A m \in CloudPrincipalAuths \ {n} : pc[m] = "idle"
        BY <2>3 DEF Inv, OneAtWork
      <3>2. Alone(n)
        BY <2>1, <3>1 DEF Alone
      <3>3. Quiet(n) /\ OwnedThen(n) \subseteq live[n] \ lost[n]
        BY <1>1, <1>5, BaseCrash DEF Quiet, OwnedThen
      <3>4. QED
        BY <3>2, <3>3, ProtocolSteps DEF Mapped
    <2>4. QED
      BY <2>2, <2>3
  <1>6. QED
    BY <1>2, <1>4, <1>5, NextSteps

\* Every step of users, time, informers, worker and failures is a step of the protocol or
\* changes nothing of it: no key or binding is made for a resource without the finalizer,
\* and the finalizer goes only when what is recorded at that moment is gone, was denied by
\* the cloud, or is to be retained.
THEOREM ImplementsProtocol == Spec => KeepsFinalizerProtocol
  BY Invariance, ProtocolInit, ProtocolStep, PTL DEF Spec, KeepsFinalizerProtocol, Protocol!Spec

-------------------------------------------------------------------------------
(* The Secret of a resource that is retained. *)

\* What a reconcile works on is of the method of the run, and a step that is for one
\* method or one policy only has a resource of it.
Kind(n) ==
    /\ api[n].uid # 0 /\ api[n].spec.method = setting.method
    /\ pc[n] # "idle" => obj[n].uid # 0 /\ obj[n].spec.method = setting.method
    /\ pc[n] \in {"secret", "emptySecret"} => IsStatic(obj[n])
    /\ pc[n] \in {"deleteKey", "unannotate", "noteAbsent"} => ShouldBeDeleted(obj[n])

\* No Secret, no owner, and none without a controller that makes Secrets.
Ownable(n) ==
    \/ secret[n].owner = 0
    \/ secret[n].exists /\ setting.method = "StaticCredentials"

\* The informer was never late with a Secret.
Prompt == budget.lags = setting.lags

\* When resource o is retained, nobody owns its Secret on behalf of it.
Disowned(n, o) ==
    Prompt /\ ~ShouldBeDeleted(o) /\ HasRef(o) => secret[n].owner # o.uid

Retained(n) ==
    /\ Kind(n) /\ Ownable(n)
    /\ ~api[n].exists => Disowned(n, api[n])
    /\ pc[n] = "release" => Disowned(n, obj[n])

\* The steps for either method and policy.
Common == PCs \ {"secret", "emptySecret", "deleteKey", "unannotate", "noteAbsent"}

\* Steps that keep the resource what it is.
LEMMA KindKeeps ==
    ASSUME NEW n \in CloudPrincipalAuths, Kind(n), setting' = setting,
           api'[n].uid # 0, api'[n].spec.method = setting.method,
           \/ pc'[n] = "idle"
           \/ pc'[n] = pc[n] /\ obj'[n] = obj[n]
           \/ /\ pc[n] # "idle" /\ pc'[n] \in Common
              /\ obj'[n].uid = obj[n].uid /\ obj'[n].spec = obj[n].spec
    PROVE  Kind(n)'
  BY DEF Kind, Common, IsStatic, ShouldBeDeleted

\* A patch or a version of the server keeps its uid and its method.
LEMMA SameKind ==
    ASSUME NEW n \in CloudPrincipalAuths, Kind(n),
           \/ SameServer(n) \/ Noted(n) \/ Patched(n, obj[n].status)
           \/ Marked(n)
           \/ Recommitted(n) /\ api'[n].spec = api[n].spec
    PROVE  api'[n].uid # 0 /\ api'[n].spec.method = setting.method
  BY DEF Kind, SameServer, Noted, Patched, Marked, Recommitted, SpecsOfSetting

LEMMA KindReconcile ==
    ASSUME Base, NEW n \in CloudPrincipalAuths, Kind(n), setting' = setting, Reconcile(n)
    PROVE  Kind(n)'
  <1> USE TypeParts, SameKind DEF Base
  <1>0. pc[n] # "idle"
    BY Working
  <1>1. CASE AddFinalizer(n)
    BY <1>0, <1>1, AddFinalizerFacts, KindKeeps DEF Kind, Recommitted
  <1>2. CASE DeleteSelf(n)
    <2>1. pc'[n] = "idle" /\ (SameServer(n) \/ Marked(n))
      BY <1>2, DeleteSelfFacts
    <2>2. QED
      BY <2>1, KindKeeps
  <1>3. CASE Check(n) \/ ReachQuota(n)
    <2>1. SameServer(n) /\ obj'[n] = obj[n] /\ pc'[n] \in {"get", "report"}
      BY <1>3, Pieces DEF Check, ReachQuota
    <2>2. QED
      BY <1>0, <2>1, KindKeeps DEF Common, PCs
  <1>4. CASE Get(n)
    <2>1. SameServer(n) /\ pc[n] = "get"
      BY <1>4, GetFacts
    <2>2. /\ obj'[n].uid = obj[n].uid /\ obj'[n].spec = obj[n].spec
          /\ \/ pc'[n] \in Common
             \/ pc'[n] = "emptySecret" /\ IsStatic(obj[n])
      <3>1. CASE Proceed(n, "create")
        BY <3>1, Pieces DEF Common, PCs
      <3>2. CASE WithEnsured(n)
        <4>1. CASE ~IsStatic(obj[n])
          BY <3>2, <4>1, Pieces DEF WithEnsured, Common, PCs
        <4>2. CASE IsStatic(obj[n]) /\ obj[n].status.configured # "None"
          BY <3>2, <4>2, Pieces DEF WithEnsured, Common, PCs
        <4>3. CASE IsStatic(obj[n]) /\ obj[n].status.configured = "None"
          <5>1. obj[n] \in Objects
            BY KnownTypes
          <5>2. /\ pc'[n] = "emptySecret"
                /\ obj'[n] = [obj[n] EXCEPT !.status.applied = {[id |-> Id(n), ref |-> FALSE]}]
            BY <3>2, <4>3, Pieces DEF WithEnsured
          <5>3. obj'[n].uid = obj[n].uid /\ obj'[n].spec = obj[n].spec
            BY <5>1, <5>2 DEF Objects, Versions
          <5>4. QED
            BY <4>3, <5>2, <5>3
        <4>4. QED
          BY <4>1, <4>2, <4>3
      <3>3. QED
        BY <1>4, <3>1, <3>2 DEF Get
    <2>3. QED
      BY <1>0, <2>1, <2>2 DEF Kind, Common, IsStatic, SameServer
  <1>5. CASE CreateKey(n)
    <2>1. NextKey \in Ids /\ SameServer(n) /\ pc'[n] = "secret" /\ IsStatic(obj[n])
      BY <1>5, CreateKeyFacts
    <2>2. obj'[n] = Applying(n, NextKey)
      BY <1>5, Pieces DEF CreateKey
    <2>3. QED
      BY <1>0, <2>1, <2>2, ApplyingFacts DEF Kind, IsStatic, SameServer
  <1>6. CASE Bind(n)
    <2>1. SameServer(n) /\ pc'[n] = "serviceAccount" /\ Binding \in Ids
      BY <1>6, BindFacts, SettingFacts
    <2>2. obj'[n] \in {obj[n], Applying(n, Binding)}
      BY <1>6, Pieces DEF Bind
    <2>3. obj'[n].uid = obj[n].uid /\ obj'[n].spec = obj[n].spec
      BY <2>1, <2>2, ApplyingFacts
    <2>4. QED
      BY <1>0, <2>1, <2>3, KindKeeps DEF Common, PCs
  <1>7. CASE FindServiceAccount(n) \/ Annotate(n) \/ StoreKey(n) \/ Settle(n)
    BY <1>0, <1>7, PublishFacts, KindKeeps DEF SameCredentials, Common, PCs
  <1>8. CASE DropKey(n) \/ PatchConclusion(n) \/ RecordKey(n) \/ Report(n)
    BY <1>0, <1>8, DropKeyFacts, PatchConclusionFacts, RecordKeyFacts, ReportFacts, KindKeeps
       DEF Common, PCs
  <1>9. CASE PrepareDelete(n)
    BY <1>0, <1>9, PrepareDeleteFacts DEF Kind, IsStatic, ShouldBeDeleted, SameServer
  <1>10. CASE DeleteKey(n) \/ Unannotate(n)
    BY <1>0, <1>10, DeleteKeyFacts, UnannotateFacts DEF Kind, IsStatic, ShouldBeDeleted, SameServer
  <1>11. CASE Disown(n) \/ Note(n) \/ RemoveFinalizer(n)
    BY <1>0, <1>11, DisownFacts, NoteFacts, RemoveFinalizerFacts, KindKeeps DEF Common, PCs
  <1>12. QED
    BY <1>1, <1>2, <1>3, <1>4, <1>5, <1>6, <1>7, <1>8, <1>9, <1>10, <1>11 DEF Reconcile

LEMMA KindStep ==
    ASSUME Base, NEW n \in CloudPrincipalAuths, Kind(n), setting' = setting, StepOf(n)
    PROVE  Kind(n)'
  <1> USE TypeParts, SameKind DEF Base
  <1>1. CASE User(n)
    <2>1. UNCHANGED <<pc, obj>>
      BY <1>1, WorkerRests
    <2>2. CASE SameServer(n) \/ Marked(n)
      BY <2>1, <2>2, KindKeeps
    <2>3. CASE api'[n].uid # 0 /\ api'[n].spec \in SpecsOfSetting
      BY <2>1, <2>3, KindKeeps DEF SpecsOfSetting
    <2>4. QED
      BY <1>1, <2>2, <2>3, UserFacts
  <1>2. CASE Age(n) \/ Deliver(n) \/ DeliverSecret(n) \/ CollectGarbage(n)
    BY <1>2, NatureFacts DEF Kind, IsStatic, ShouldBeDeleted
  <1>3. CASE Start(n)
    BY <1>3, StartFacts DEF Kind, SameServer, IsStatic, ShouldBeDeleted
  <1>4. CASE ApiCallFails(n)
    <2>1. pc[n] # "idle"
      BY <1>4, Working
    <2>2. api'[n].uid # 0 /\ api'[n].spec.method = setting.method
      BY <1>4, ApiCallFailsFacts DEF Kind
    <2>3. \/ pc'[n] = "idle"
          \/ /\ pc'[n] \in Common
             /\ obj'[n].uid = obj[n].uid /\ obj'[n].spec = obj[n].spec
      BY <1>4, ApiCallFailsFacts DEF SameCredentials, Common, PCs
    <2>4. QED
      BY <2>1, <2>2, <2>3, KindKeeps
  <1>5. CASE CloudCallFails(n)
    <2>1. pc[n] # "idle"
      BY <1>5, Working
    <2>2. SameServer(n) /\ pc'[n] \in Common
          /\ obj'[n].uid = obj[n].uid /\ obj'[n].spec = obj[n].spec
      BY <1>5, CloudCallFailsFacts DEF SameCredentials, Common, PCs
    <2>3. QED
      BY <2>1, <2>2, KindKeeps
  <1>6. QED
    BY <1>1, <1>2, <1>3, <1>4, <1>5, KindReconcile DEF StepOf

\* The Secret stays as it is, but for its data, or loses its owner.
SecretKeeps(n) ==
    \/ secret'[n].owner = 0
    \/ secret'[n].owner = secret[n].owner /\ secret'[n].exists = secret[n].exists

\* Nobody but the worker makes anybody the owner.
LEMMA SecretQuiet ==
    ASSUME Base, NEW n \in CloudPrincipalAuths,
           \/ User(n) \/ Age(n)
           \/ Deliver(n) \/ DeliverSecret(n) \/ CollectGarbage(n)
    PROVE  SecretKeeps(n)
  <1> USE TypeParts DEF Base
  <1>1. /\ UNCHANGED secrets \/ UNCHANGED worker => SecretKeeps(n)
        /\ \A s : WriteSecret(n, s) => secret'[n] = s
    BY DEF secrets, worker, SecretKeeps, WriteSecret, SecretsTypes
  <1>2. secret[n] \in Secrets
    BY DEF SecretsTypes
  <1>3. /\ WriteSecret(n, NoSecret) => SecretKeeps(n)
        /\ WriteSecret(n, [secret[n] EXCEPT !.key = 0]) => SecretKeeps(n)
    BY <1>1, <1>2 DEF SecretKeeps, NoSecret, Secrets
  <1>4. CASE User(n)
    BY <1>1, <1>3, <1>4 DEF User, Create, EditSpec, RequestDeletion, TamperWithSecret,
                            ServiceAccountChanges
  <1>5. CASE DeliverSecret(n)
    BY <1>5 DEF DeliverSecret, SecretKeeps
  <1>6. CASE Age(n) \/ Deliver(n) \/ CollectGarbage(n)
    BY <1>1, <1>3, <1>6 DEF Age, Deliver, CollectGarbage
  <1>7. QED
    BY <1>4, <1>5, <1>6

\* Only the reconcile of a key makes anybody the owner of the Secret.
LEMMA SecretStep ==
    ASSUME Base, NEW n \in CloudPrincipalAuths, StepOf(n)
    PROVE  \/ SecretKeeps(n)
           \/ pc[n] \in {"secret", "emptySecret"} /\ secret'[n].exists
  <1> USE TypeParts DEF Base
  <1>1. /\ UNCHANGED secrets \/ UNCHANGED worker => SecretKeeps(n)
        /\ \A s : WriteSecret(n, s) => secret'[n] = s
    BY DEF secrets, worker, SecretKeeps, WriteSecret, SecretsTypes
  <1>2. secret[n] \in Secrets
    BY DEF SecretsTypes
  <1>3. WriteSecret(n, [secret[n] EXCEPT !.owner = 0]) => SecretKeeps(n)
    BY <1>1, <1>2 DEF SecretKeeps, Secrets
  <1>4. WriteSecret(n, SecretWith(n, DataInHand(n))) => secret'[n].exists
    <2>1. SecretWith(n, DataInHand(n)).exists
      BY <1>2 DEF SecretWith, Secrets
    <2>2. QED
      BY <1>1, <2>1
  <1>5. CASE User(n) \/ Age(n) \/ Deliver(n) \/ DeliverSecret(n) \/ CollectGarbage(n)
    BY <1>5, SecretQuiet
  <1>6. CASE Start(n)
    BY <1>1, <1>6 DEF Start
  <1>7. CASE StoreKey(n)
    BY <1>1, <1>4, <1>7 DEF StoreKey
  <1>8. CASE Disown(n)
    BY <1>1, <1>3, <1>8 DEF Disown
  <1>9. CASE Reconcile(n) /\ ~StoreKey(n) /\ ~Disown(n)
    BY <1>1, <1>9 DEF Reconcile, AddFinalizer, Check, DeleteSelf, Get, CreateKey, ReachQuota,
                      Bind, FindServiceAccount, Annotate, Settle, DropKey, PatchConclusion,
                      RecordKey, Report, PrepareDelete, DeleteKey, Unannotate, Note,
                      RemoveFinalizer
  <1>10. CASE ApiCallFails(n)
    BY <1>1, <1>4, <1>10, ApiCallFailsFacts
  <1>11. CASE CloudCallFails(n)
    BY <1>1, <1>11, CloudCallFailsFacts
  <1>12. QED
    BY <1>5, <1>6, <1>7, <1>8, <1>9, <1>10, <1>11 DEF StepOf

LEMMA OwnableStep ==
    ASSUME Base, NEW n \in CloudPrincipalAuths, Kind(n), Ownable(n), setting' = setting,
           StepOf(n)
    PROVE  Ownable(n)'
  <1>1. CASE SecretKeeps(n)
    BY <1>1 DEF SecretKeeps, Ownable
  <1>2. CASE pc[n] \in {"secret", "emptySecret"} /\ secret'[n].exists
    BY <1>2 DEF Kind, IsStatic, Ownable
  <1>3. QED
    BY <1>1, <1>2, SecretStep

\* Disowned for what it says after a step.
DisownedThen(n, o) ==
    Prompt' /\ ~ShouldBeDeleted(o) /\ HasRef(o) => secret'[n].owner # o.uid

LEMMA DisownedFacts ==
    ASSUME NEW n \in CloudPrincipalAuths, NEW o, Prompt' => Prompt
    PROVE  /\ SecretKeeps(n) /\ o.uid # 0 /\ Disowned(n, o) => DisownedThen(n, o)
           /\ secret'[n].owner = 0 /\ o.uid # 0 => DisownedThen(n, o)
           /\ ShouldBeDeleted(o) \/ ~HasRef(o) => DisownedThen(n, o)
           /\ o.status.applied = {} => DisownedThen(n, o)
  BY DEF SecretKeeps, Disowned, DisownedThen, HasRef

LEMMA RetainedThen ==
    ASSUME NEW n \in CloudPrincipalAuths, Kind(n)', Ownable(n)',
           ~api'[n].exists => DisownedThen(n, api'[n]),
           pc'[n] = "release" => DisownedThen(n, obj'[n])
    PROVE  Retained(n)'
  BY DEF Retained, DisownedThen, Disowned, ShouldBeDeleted, HasRef, Prompt

\* A resource that is gone, or goes without having had anything, is disowned.
LEMMA GoneDisowned ==
    ASSUME Base, NEW n \in CloudPrincipalAuths, Claims(n), Retained(n), SecretKeeps(n),
           Prompt' => Prompt,
           SameServer(n) \/ Marked(n) \/ Noted(n),
           ~api'[n].exists
    PROVE  DisownedThen(n, api'[n])
  <1>1. CASE ~api[n].exists /\ api'[n] = api[n]
    BY <1>1, DisownedFacts DEF Retained, Kind
  <1>2. CASE Marked(n)
    <2>1. api'[n].status.applied = {}
      BY <1>2 DEF Marked, Recommitted, Claims
    <2>2. QED
      BY <2>1, DisownedFacts
  <1>3. CASE Noted(n)
    <2>1. /\ ~api[n].exists /\ api'[n].spec = api[n].spec /\ api'[n].uid = api[n].uid
          /\ api'[n].status.applied = api[n].status.applied
      BY <1>3 DEF Noted
    <2>2. DisownedThen(n, api[n])
      BY <2>1, DisownedFacts DEF Retained, Kind
    <2>3. QED
      BY <2>1, <2>2 DEF DisownedThen, ShouldBeDeleted, HasRef
  <1>4. QED
    BY <1>1, <1>2, <1>3 DEF SameServer

\* The steps after which the finalizer is not about to go, or was so before.
LEMMA RetainedKeeps ==
    ASSUME Base, NEW n \in CloudPrincipalAuths, Claims(n), Retained(n),
           Kind(n)', Ownable(n)', SecretKeeps(n), Prompt' => Prompt,
           SameServer(n) \/ Marked(n) \/ Noted(n) \/ api'[n].exists,
           \/ pc'[n] # "release"
           \/ pc'[n] = pc[n] /\ obj'[n] = obj[n]
    PROVE  Retained(n)'
  <1>1. ~api'[n].exists => DisownedThen(n, api'[n])
    BY GoneDisowned
  <1>2. CASE pc'[n] # "release"
    BY <1>1, <1>2, RetainedThen
  <1>3. CASE pc'[n] = "release" /\ pc'[n] = pc[n] /\ obj'[n] = obj[n]
    <2>1. DisownedThen(n, obj'[n])
      BY <1>3, DisownedFacts DEF Retained, Kind
    <2>2. QED
      BY <1>1, <2>1, RetainedThen
  <1>4. QED
    BY <1>2, <1>3

\* The informer was never late: what Disown read is what there is.
LEMMA DisownReads ==
    ASSUME Base, NEW n \in CloudPrincipalAuths, Retained(n), Disown(n), pc'[n] = "release",
           Prompt', setting' = setting, budget.lags <= setting.lags
    PROVE  secret'[n].owner = 0
  <1> USE TypeParts DEF Base
  <1>1. cachedSecret[n] = secret[n]
    <2>1. ReadSecret(n)
      BY DEF Disown
    <2>2. cachedSecret[n] # secret[n] => budget'.lags < budget.lags
      BY <2>1, ReadSecretTypes
    <2>3. /\ budget'.lags = setting.lags /\ budget.lags \in Nat /\ setting.lags \in Nat
      BY SettingFacts DEF Prompt, BudgetTypes
    <2>4. QED
      BY <2>2, <2>3
  <1>2. secret[n] \in Secrets
    BY DEF SecretsTypes
  <1>3. CASE ~cachedSecret[n].exists /\ UNCHANGED secrets
    BY <1>1, <1>3 DEF secrets, Retained, Ownable
  <1>4. CASE WriteSecret(n, [secret[n] EXCEPT !.owner = 0])
    BY <1>2, <1>4 DEF WriteSecret, SecretsTypes, Secrets
  <1>5. CASE Return(n, TRUE)
    BY <1>5, Pieces
  <1>6. QED
    BY <1>3, <1>4, <1>5 DEF Disown

LEMMA RetainedReconcile ==
    ASSUME Base, NEW n \in CloudPrincipalAuths, Claims(n), Retained(n),
           Kind(n)', Ownable(n)', Prompt' => Prompt, setting' = setting,
           budget.lags <= setting.lags, Reconcile(n)
    PROVE  Retained(n)'
  <1>0. pc[n] # "idle"
    BY Working
  <1>1. /\ \/ SecretKeeps(n)
           \/ pc[n] \in {"secret", "emptySecret"} /\ secret'[n].exists
        /\ obj[n].uid # 0
    BY <1>0, SecretStep DEF StepOf, Retained, Kind
  <1>2. CASE AddFinalizer(n) \/ DeleteSelf(n) \/ Report(n)
    BY <1>1, <1>2, AddFinalizerFacts, DeleteSelfFacts, ReportFacts, RetainedKeeps
  <1>3. CASE pc[n] \in Ensuring /\ ~DeleteSelf(n)
    <2>1. /\ api[n].exists /\ api'[n].exists = api[n].exists
          /\ pc'[n] # "release"
      <3>1. api[n].exists
        BY <1>3 DEF Claims
      <3>2. CASE Check(n) \/ ReachQuota(n)
        <4>1. SameServer(n) /\ pc'[n] \in {"get", "report"}
          BY <3>2, TypeParts, Pieces DEF Base, Check, ReachQuota
        <4>2. QED
          BY <3>1, <4>1 DEF SameServer
      <3>3. CASE Get(n) \/ CreateKey(n) \/ Bind(n)
        BY <3>1, <3>3, GetFacts, CreateKeyFacts, BindFacts DEF SameServer
      <3>4. CASE FindServiceAccount(n) \/ Annotate(n) \/ StoreKey(n) \/ Settle(n) \/ DropKey(n)
        BY <3>1, <3>4, PublishFacts, DropKeyFacts DEF SameServer
      <3>5. CASE PatchConclusion(n) \/ RecordKey(n)
        BY <3>1, <3>5, PatchConclusionFacts, RecordKeyFacts DEF SameServer, Patched
      <3>6. CASE AddFinalizer(n) \/ Report(n)
        BY <1>3, <3>6, AddFinalizerFacts, ReportFacts DEF Ensuring
      <3>7. CASE PrepareDelete(n) \/ Disown(n) \/ DeleteKey(n) \/ Unannotate(n)
        BY <1>3, <3>7, PrepareDeleteFacts, DisownFacts, DeleteKeyFacts, UnannotateFacts
           DEF Ensuring
      <3>8. CASE Note(n) \/ RemoveFinalizer(n)
        BY <1>3, <3>8, NoteFacts, RemoveFinalizerFacts DEF Ensuring
      <3>9. QED
        BY <1>3, <3>1, <3>2, <3>3, <3>4, <3>5, <3>6, <3>7, <3>8 DEF Reconcile
    <2>2. QED
      BY <2>1, RetainedThen
  <1>4. CASE PrepareDelete(n)
    <2>1. SecretKeeps(n) /\ SameServer(n)
      BY <1>1, <1>4, PrepareDeleteFacts
    <2>2. CASE pc'[n] # "release"
      BY <2>1, <2>2, RetainedKeeps
    <2>3. CASE pc'[n] = "release"
      <3>1. /\ obj'[n] = obj[n]
            /\ ShouldBeDeleted(obj[n]) \/ ~HasRef(obj[n]) \/ ~IsStatic(obj[n])
        BY <1>4, <2>3, PrepareDeleteFacts
      <3>2. ShouldBeDeleted(obj[n]) \/ ~HasRef(obj[n]) => DisownedThen(n, obj[n])
        BY DisownedFacts
      <3>3. ~IsStatic(obj[n]) => DisownedThen(n, obj[n])
        <4> SUFFICES ASSUME ~IsStatic(obj[n]) PROVE DisownedThen(n, obj[n])
          OBVIOUS
        <4>1. secret[n].owner = 0
          BY <1>0 DEF Retained, Kind, Ownable, IsStatic
        <4>2. secret'[n].owner = 0
          BY <2>1, <4>1 DEF SecretKeeps
        <4>3. QED
          BY <1>1, <4>2, DisownedFacts
      <3>4. DisownedThen(n, obj'[n])
        BY <3>1, <3>2, <3>3
      <3>5. QED
        BY <2>1, <2>3, <3>4, GoneDisowned, RetainedThen
    <2>4. QED
      BY <2>2, <2>3
  <1>5. CASE DeleteKey(n) \/ Unannotate(n) \/ Note(n)
    <2>1. SecretKeeps(n) /\ (SameServer(n) \/ Noted(n))
      BY <1>1, <1>5, DeleteKeyFacts, UnannotateFacts, NoteFacts
    <2>2. CASE pc'[n] # "release"
      BY <2>1, <2>2, RetainedKeeps
    <2>3. CASE pc'[n] = "release"
      <3>1. obj'[n] = obj[n] /\ ShouldBeDeleted(obj[n])
        BY <1>5, <2>3, DeleteKeyFacts, UnannotateFacts, NoteFacts DEF Retained, Kind
      <3>2. QED
        BY <2>1, <2>3, <3>1, DisownedFacts, GoneDisowned, RetainedThen
    <2>4. QED
      BY <2>2, <2>3
  <1>6. CASE Disown(n)
    <2>1. SecretKeeps(n) /\ SameServer(n)
      BY <1>1, <1>6, DisownFacts
    <2>2. CASE pc'[n] # "release"
      BY <2>1, <2>2, RetainedKeeps
    <2>3. CASE pc'[n] = "release"
      <3>1. obj'[n] = obj[n]
        BY <1>6, <2>3, DisownFacts
      <3>2. Prompt' => secret'[n].owner = 0
        BY <1>6, <2>3, DisownReads
      <3>3. DisownedThen(n, obj'[n])
        BY <1>1, <3>1, <3>2 DEF DisownedThen
      <3>4. QED
        BY <2>1, <2>3, <3>3, GoneDisowned, RetainedThen
    <2>4. QED
      BY <2>2, <2>3
  <1>7. CASE RemoveFinalizer(n)
    <2>1. SecretKeeps(n) /\ pc'[n] = "idle"
      BY <1>1, <1>7, RemoveFinalizerFacts
    <2>2. CASE SameServer(n)
      BY <2>1, <2>2, RetainedKeeps
    <2>3. CASE Recommitted(n) /\ api[n].rv = obj[n].rv /\ api'[n].spec = api[n].spec
      <3>1. pc[n] = "release" /\ obj[n] = api[n]
        BY <1>7, <2>3, RemoveFinalizerFacts DEF Claims, Deleting
      <3>2. DisownedThen(n, api[n])
        BY <1>1, <2>1, <3>1, DisownedFacts DEF Retained
      <3>3. DisownedThen(n, api'[n])
        BY <2>3, <3>2 DEF Recommitted, DisownedThen, ShouldBeDeleted, HasRef
      <3>4. QED
        BY <2>1, <3>3, RetainedThen
    <2>4. QED
      BY <1>7, <2>2, <2>3, RemoveFinalizerFacts
  <1>8. QED
    <2>1. \/ pc[n] \in Ensuring
          \/ AddFinalizer(n) \/ DeleteSelf(n) \/ Report(n) \/ PrepareDelete(n) \/ DeleteKey(n)
          \/ Unannotate(n) \/ Note(n) \/ Disown(n) \/ RemoveFinalizer(n)
      BY DEF Reconcile, Ensuring, Check, Get, CreateKey, ReachQuota, Bind, FindServiceAccount,
             Annotate, StoreKey, Settle, DropKey, PatchConclusion, RecordKey
    <2>2. QED
      BY <1>2, <1>3, <1>4, <1>5, <1>6, <1>7, <2>1

LEMMA RetainedStep ==
    ASSUME Base, NEW n \in CloudPrincipalAuths, Claims(n), Retained(n), Prompt' => Prompt,
           setting' = setting, budget.lags <= setting.lags, StepOf(n)
    PROVE  Retained(n)'
  <1> USE TypeParts DEF Base
  <1>1. Kind(n)' /\ Ownable(n)'
    BY KindStep, OwnableStep DEF Retained
  <1>2. \/ SecretKeeps(n)
        \/ pc[n] \in {"secret", "emptySecret"} /\ secret'[n].exists
    BY SecretStep
  <1>3. CASE User(n)
    <2>1. SecretKeeps(n) /\ UNCHANGED <<pc, obj>>
      <3>1. UNCHANGED <<pc, obj>>
        BY <1>3, WorkerRests
      <3>2. SecretKeeps(n)
        BY <1>3, SecretQuiet
      <3>3. QED
        BY <3>1, <3>2
    <2>2. SameServer(n) \/ Marked(n) \/ api'[n].exists
      BY <1>3, UserFacts
    <2>3. QED
      BY <1>1, <2>1, <2>2, RetainedKeeps
  <1>4. CASE Age(n) \/ Deliver(n) \/ DeliverSecret(n) \/ CollectGarbage(n)
    <2>1. SecretKeeps(n) /\ UNCHANGED <<pc, obj, api>>
      BY <1>4, SecretQuiet, NatureFacts
    <2>2. ~api'[n].exists => DisownedThen(n, api[n])
      BY <2>1, DisownedFacts DEF Retained, Kind
    <2>3. pc'[n] = "release" => DisownedThen(n, obj[n])
      BY <2>1, DisownedFacts DEF Retained, Kind
    <2>4. QED
      BY <1>1, <2>1, <2>2, <2>3, RetainedThen
  <1>5. CASE Start(n)
    <2>1. SameServer(n) /\ pc'[n] # "release"
      BY <1>5, StartFacts
    <2>2. SecretKeeps(n)
      BY <1>2, <1>5, StartFacts
    <2>3. QED
      BY <1>1, <2>1, <2>2, RetainedKeeps
  <1>6. CASE ApiCallFails(n)
    <2>1. CASE pc[n] \in Ensuring
      <3>1. api'[n].exists /\ pc'[n] # "release"
        BY <1>6, <2>1, ApiCallFailsFacts DEF Claims, SameServer, Patched
      <3>2. QED
        BY <1>1, <3>1, RetainedThen
    <2>2. CASE pc[n] \notin Ensuring
      <3>1. SameServer(n) /\ pc'[n] \in {"idle", "noteFailure"}
        BY <1>6, <2>2, ApiCallFailsFacts DEF Ensuring
      <3>2. SecretKeeps(n)
        BY <1>2, <2>2 DEF Ensuring
      <3>3. QED
        BY <1>1, <3>1, <3>2, RetainedKeeps
    <2>3. QED
      BY <2>1, <2>2
  <1>7. CASE CloudCallFails(n)
    <2>1. SameServer(n) /\ pc'[n] # "release" /\ pc[n] \notin {"secret", "emptySecret"}
      BY <1>7, CloudCallFailsFacts
    <2>2. QED
      BY <1>1, <1>2, <2>1, RetainedKeeps
  <1>8. CASE Reconcile(n)
    BY <1>1, <1>8, RetainedReconcile
  <1>9. QED
    BY <1>3, <1>4, <1>5, <1>6, <1>7, <1>8 DEF StepOf

\* The invariant beside Inv.
Retention ==
    /\ budget.lags <= setting.lags
    /\ \A n \in CloudPrincipalAuths : Retained(n)

LEMMA RetentionInit == Init => Retention
  <1> SUFFICES ASSUME Init PROVE Retention
    OBVIOUS
  <1>1. budget.lags = setting.lags /\ setting.lags \in Nat
    BY ConstantsAssumption DEF Init
  <1>2. ASSUME NEW n \in CloudPrincipalAuths PROVE Retained(n)
    <2>1. PICK s \in [CloudPrincipalAuths -> SpecsOfSetting] :
            api = [m \in CloudPrincipalAuths |-> Created(NoObject, s[m], NoStatus)]
      BY DEF Init
    <2>2. /\ api[n].uid = 1 /\ api[n].exists /\ api[n].spec = s[n]
          /\ s[n] \in SpecsOfSetting
      BY <2>1 DEF Created, NoObject, NeverCreated
    <2>3. Kind(n)
      BY <2>2 DEF Init, Kind, SpecsOfSetting
    <2>4. Ownable(n)
      BY DEF Init, Ownable, NoSecret, ForeignSecret
    <2>5. pc[n] = "idle"
      BY DEF Init
    <2>6. QED
      BY <2>2, <2>3, <2>4, <2>5 DEF Retained
  <1>3. QED
    BY <1>1, <1>2 DEF Retention

LEMMA RetainedUntouched ==
    ASSUME NEW n \in CloudPrincipalAuths, Retained(n), setting' = setting, Prompt' => Prompt,
           Untouched(n)
    PROVE  Retained(n)'
  BY DEF Untouched, Retained, Kind, Ownable, Disowned, IsStatic, ShouldBeDeleted, HasRef

LEMMA RetentionStep == Inv /\ Retention /\ [Next]_vars => Retention'
  <1> SUFFICES ASSUME Inv, Retention, [Next]_vars PROVE Retention'
    OBVIOUS
  <1>1. Base /\ \A n \in CloudPrincipalAuths : Claims(n) /\ Retained(n)
    BY DEF Inv, Retention
  <1>2. /\ setting' = setting /\ budget'.lags \in Nat /\ budget'.lags <= budget.lags
        /\ budget.lags <= setting.lags /\ budget.lags \in Nat /\ setting.lags \in Nat
    BY <1>1, BudgetStep, TypeParts, SettingFacts DEF Base, Retention, BudgetTypes
  <1>3. Prompt' => Prompt
    BY <1>2 DEF Prompt
  <1>4. budget'.lags <= setting'.lags
    BY <1>2
  <1>5. ASSUME NEW m \in CloudPrincipalAuths PROVE Retained(m)'
    <2>1. CASE Untouched(m)
      BY <1>1, <1>2, <1>3, <2>1, RetainedUntouched
    <2>2. ASSUME NEW n \in CloudPrincipalAuths, StepOf(n) PROVE Retained(m)'
      <3>1. CASE m = n
        BY <1>1, <1>2, <1>3, <2>2, <3>1, RetainedStep
      <3>2. CASE m # n
        BY <1>1, <2>1, <2>2, <3>2, OthersKeep DEF Base
      <3>3. QED
        BY <3>1, <3>2
    <2>3. CASE PrincipalChanges \/ ProviderChanges \/ UNCHANGED vars
      BY <2>1, <2>3, EnvironmentKeeps
    <2>4. CASE Crash
      <3>1. api' = api /\ secret' = secret /\ pc'[m] = "idle"
        BY <1>1, <2>4, BaseCrash
      <3>2. QED
        BY <1>1, <1>2, <1>3, <3>1 DEF Retained, Kind, Ownable, Disowned, IsStatic,
                                      ShouldBeDeleted, HasRef
    <2>5. QED
      BY <2>2, <2>3, <2>4, NextSteps
  <1>6. QED
    BY <1>4, <1>5 DEF Retention

\* A resource that was retained left its Secret without an owner, or with another one, so
\* that the garbage collector lets it be: provided that no reconcile read a Secret that the
\* informer was late with.
THEOREM RetainDisowns == Spec => []RetainedMeansDisowned
  <1>1. Retention => RetainedMeansDisowned
    BY DEF Retention, Retained, Disowned, Prompt, RetainedMeansDisowned
  <1>2. QED
    BY <1>1, RetentionInit, RetentionStep, Invariance, PTL DEF Spec

-------------------------------------------------------------------------------
(* The Secret of a static key: the data in it, the record in the status, and   *)
(* the key in the cloud.                                                       *)

\* The steps of a reconcile of static credentials.
StaticSteps == PCs \ {"serviceAccount", "annotate", "unannotate", "noteAbsent", "noteFailure"}

Alive(o) == o.exists /\ ~o.deleting

\* A status that a Secret stands behind.
Works(o) == HasRef(o) \/ o.status.reason = "Reconciled"

RefIn(rs) == \E r \in rs : r.ref

\* The Secret is the resource's own, if there is one.
Backed(n) == ~secret[n].exists \/ secret[n].owner = api[n].uid

\* The key whose secret half the Secret of the resource holds.
KeysKept(n) == IF secret[n].owner = api[n].uid THEN {secret[n].key} \ {0} ELSE {}

\* Every key the cloud could show the resource.
Shown(n) == live[n] \union young[n]

\* No key that the status records is shown by the cloud.
Dead(n) == RecordedIds(api[n]) \intersect Shown(n) = {}

\* The Secret holds a key that the status does not record.
Mismatch(n) == Alive(api[n]) /\ ~(KeysKept(n) \subseteq RecordedIds(api[n]))

\* A reconcile is due, or on its way to make a key or to report that it could not.
Due(n) ==
    \/ n \in queue \/ watch[n] # {}
    \/ pc[n] \in {"addFinalizer", "check", "get", "create", "secret", "patchKey", "dropKey",
                  "report"}

\* The steps at which the object in hand records what the server's does.
Reading == {"check", "get", "create", "emptySecret", "settle", "patch"}

\* The informer has the last version, or is going to have it last.
Current(n) ==
    /\ \/ watch[n] = {} /\ cache[n] = api[n]
       \/ api[n] \in watch[n]
    /\ \A v \in watch[n] : v = api[n] \/ v.rv < api[n].rv

\* What a reconcile has in hand agrees with the server.
InTouch(n) ==
    /\ Current(n)
    /\ pc[n] \in StaticSteps
    /\ pc[n] \in Deleting => api[n].exists /\ api[n].finalizer /\ api[n].deleting
    /\ pc[n] \in Ensuring => obj[n].uid = api[n].uid
    /\ pc[n] \in Reading => RecordedIds(obj[n]) = RecordedIds(api[n])
    /\ pc[n] = "report" => plan[n].reason # "Reconciled"

\* A key that is about to be recorded was never recorded before.
Numberless(n) ==
    /\ pc[n] \in {"secret", "patchKey"} => RecordedIds(obj[n]) = RecordedIds(api[n]) \/ Fresh(n)
    /\ pc[n] = "secret" => Binding \notin RecordedIds(obj[n])

\* A status that works has a Secret behind it, and so has one about to be written.
Behind(n) ==
    /\ ~secret[n].exists => secret[n].key = 0
    /\ Alive(api[n]) /\ Works(api[n]) => Backed(n)
    /\ pc[n] \in Ensuring /\ Alive(api[n]) /\ Works(obj[n]) => Backed(n)

\* The Secret holds another key than the recorded one only when the recorded one is
\* gone from the cloud, and then a reconcile makes a new one.
Matching(n) ==
    /\ Mismatch(n) => Dead(n)
    /\ pc[n] \in {"create", "secret"} => Dead(n)
    /\ pc[n] \in {"settle", "emptySecret", "patch", "patchKey"} /\ Alive(api[n]) =>
         KeysKept(n) \subseteq RecordedIds(obj[n])
    /\ Mismatch(n) /\ api[n].status.reason = "Reconciled" => Due(n)

Agreed(n) == InTouch(n) /\ Numberless(n) /\ Behind(n) /\ Matching(n)

-------------------------------------------------------------------------------
(* What a patch of the status can do to the record and to the condition. *)

LEMMA MergedRefs ==
    ASSUME NEW base \in RecordSets, NEW new \in RecordSets, NEW current \in RecordSets,
           RefIn(MergedApplied(base, new, current))
    PROVE  RefIn(new) \/ RefIn(current)
  <1> DEFINE m == MergedApplied(base, new, current)
  <1>1. CASE new = base \/ current = {}
    BY <1>1 DEF MergedApplied
  <1>2. CASE new # base /\ current # {} /\ new = {}
    BY <1>2 DEF MergedApplied, RefIn
  <1>3. CASE new # base /\ current # {} /\ new # {}
    <2>1. PICK r \in Applieds : new = {r}
      BY <1>3 DEF RecordSets
    <2>2. PICK c \in Applieds : current = {c}
      BY <1>3 DEF RecordSets
    <2>3. r.ref \in BOOLEAN /\ c.ref \in BOOLEAN
      BY DEF Applieds
    <2>4. CASE base = {}
      <3> DEFINE g == [id |-> r.id, ref |-> r.ref \/ c.ref]
      <3>1. m = {g} /\ g.ref = (r.ref \/ c.ref)
        BY <1>3, <2>1, <2>2, <2>4 DEF MergedApplied
      <3> HIDE DEF g, m
      <3>2. g.ref
        BY <3>1 DEF RefIn, m
      <3>3. QED
        BY <2>1, <2>2, <3>1, <3>2 DEF RefIn
    <2>5. CASE base # {}
      <3>1. PICK b \in Applieds : base = {b}
        BY <2>5 DEF RecordSets
      <3> DEFINE g == [id |-> MergedField(b.id, r.id, c.id),
                       ref |-> MergedField(b.ref, r.ref, c.ref)]
      <3>2. m = {g} /\ g.ref \in {r.ref, c.ref}
        BY <1>3, <2>1, <2>2, <3>1 DEF MergedApplied, MergedField
      <3> HIDE DEF g, m
      <3>3. g.ref
        BY <3>2 DEF RefIn, m
      <3>4. QED
        BY <2>1, <2>2, <3>2, <3>3 DEF RefIn
    <2>6. QED
      BY <2>4, <2>5
  <1>4. QED
    BY <1>1, <1>2, <1>3

LEMMA MergedCondition ==
    ASSUME NEW base, NEW new, NEW current
    PROVE  /\ Merged(base, new, current).reason \in {new.reason, current.reason}
           /\ new.reason # base.reason => Merged(base, new, current).reason = new.reason
  BY DEF Merged

\* What a patch leaves of the condition and of the reference to the Secret.
Noticed(n, new) ==
    /\ api'[n].deleting = api[n].deleting
    /\ api'[n].status.reason \in {new.reason, api[n].status.reason}
    /\ HasRef(api'[n]) => RefIn(new.applied) \/ HasRef(api[n])
    /\ SameServer(n) \/ (Committed(n) /\ cache'[n] = cache[n])
    /\ cache[n] = api[n] /\ api[n].exists /\ new.reason # api[n].status.reason
       => api'[n].status.reason = new.reason

LEMMA SendPatchNoticed ==
    ASSUME ReconcilerTypes, NEW n \in CloudPrincipalAuths, NEW new \in Statuses,
           SendPatch(n, new, Merged(cache[n].status, new, api[n].status)), cache' = cache
    PROVE  Noticed(n, new)
  <1> DEFINE merged == Merged(cache[n].status, new, api[n].status)
  <1>1. /\ api[n] \in Objects /\ cache[n] \in Objects
        /\ api[n].status \in Statuses /\ cache[n].status \in Statuses
        /\ api[n].status.applied \in RecordSets /\ cache[n].status.applied \in RecordSets
        /\ new.applied \in RecordSets
    BY KnownTypes, ObjectFields DEF Statuses, RecordSets
  <1>2. /\ merged.applied
             = MergedApplied(cache[n].status.applied, new.applied, api[n].status.applied)
        /\ merged \in Statuses
    BY <1>1, MergedType
  <1>3. /\ RefIn(merged.applied) => RefIn(new.applied) \/ HasRef(api[n])
        /\ merged.reason \in {new.reason, api[n].status.reason}
        /\ new.reason # cache[n].status.reason => merged.reason = new.reason
    BY <1>1, <1>2, MergedRefs, MergedCondition DEF RefIn, HasRef
  <1> HIDE DEF merged
  <1>4. CASE Differs(n, new) /\ api[n].exists /\ merged # api[n].status
    <2> DEFINE o == StatusWritten(api[n], merged)
    <2>1. Commit(n, o)
      BY <1>4 DEF SendPatch, merged
    <2>2. api'[n] = o /\ watch'[n] = watch[n] \union {o}
      BY <2>1, CommitFacts
    <2>3. o.status = merged /\ o.deleting = api[n].deleting /\ o.rv = api[n].rv + 1
      <3>1. api[n] \in [rv: Nat, uid: Nat, gen: Nat, exists: BOOLEAN, deleting: BOOLEAN,
                       finalizer: BOOLEAN, spec: Specs, status: Statuses]
        BY <1>1 DEF Objects, Versions
      <3>2. QED
        BY <3>1 DEF StatusWritten
    <2> HIDE DEF o
    <2>4. HasRef(o) = RefIn(merged.applied)
      BY <2>3 DEF HasRef, RefIn
    <2>5. QED
      BY <1>3, <2>2, <2>3, <2>4 DEF Noticed, Committed
  <1>5. CASE ~(Differs(n, new) /\ api[n].exists /\ merged # api[n].status)
    <2>1. UNCHANGED <<api, watch>>
      BY <1>5 DEF SendPatch, merged
    <2>2. cache[n] = api[n] /\ api[n].exists /\ new.reason # api[n].status.reason => FALSE
      BY <1>3, <1>5 DEF Differs
    <2>3. QED
      BY <2>1, <2>2 DEF Noticed, SameServer
  <1>6. QED
    BY <1>4, <1>5

LEMMA PatchNoticed ==
    ASSUME ReconcilerTypes, NEW n \in CloudPrincipalAuths, NEW new \in Statuses,
           NEW retry, Patch(n, new, retry)
    PROVE  /\ Refused(n, new) => SameServer(n) /\ n \in queue'
           /\ ~Refused(n, new) => Noticed(n, new)
  <1>1. CASE Invalid(n, new)
    <2>1. Return(n, TRUE) /\ Refused(n, new)
      BY <1>1 DEF Patch, Refused
    <2>2. QED
      BY <2>1, Pieces DEF Return, Finish
  <1>2. CASE ~Invalid(n, new)
    <2>1. /\ SendPatch(n, new, Merged(cache[n].status, new, api[n].status))
          /\ Finish(n, retry \/ PatchRefused(n, new))
          /\ UNCHANGED cache
      BY <1>2 DEF Patch, PatchStatus
    <2>2. CASE PatchRefused(n, new)
      <3>1. UNCHANGED <<api, watch>>
        BY <2>1, <2>2 DEF SendPatch, PatchRefused, Differs
      <3>2. Refused(n, new)
        BY <2>2 DEF Refused
      <3>3. QED
        BY <2>1, <2>2, <3>1, <3>2 DEF Finish, SameServer
    <2>3. CASE ~PatchRefused(n, new)
      BY <1>2, <2>1, <2>3, SendPatchNoticed DEF Refused
    <2>4. QED
      BY <2>2, <2>3
  <1>3. QED
    BY <1>1, <1>2

\* What a reconcile is about to write.
LEMMA ConcludingWorks ==
    ASSUME ReconcilerTypes, NEW n \in CloudPrincipalAuths, NEW ref \in BOOLEAN,
           NEW configured, NEW reason
    PROVE  LET o == Concluding(n, ref, configured, reason)
           IN  o.status.reason = reason /\ (HasRef(o) => ref)
  <1> DEFINE rs == {[r EXCEPT !.ref = ref] : r \in obj[n].status.applied}
             t == [applied |-> rs, configured |-> configured, reason |-> reason,
                   gen |-> obj[n].gen]
  <1>1. obj[n] \in Objects /\ obj[n].status.applied \in RecordSets
    BY KnownTypes, ObjectFields
  <1>2. Concluding(n, ref, configured, reason) = [obj[n] EXCEPT !.status = t]
    BY DEF Concluding
  <1>3. [obj[n] EXCEPT !.status = t].status = t
    BY <1>1 DEF Objects, Versions
  <1>4. \A r \in rs : r.ref => ref
    BY <1>1 DEF RecordSets, Applieds
  <1>5. t.applied = rs /\ t.reason = reason
    OBVIOUS
  <1> HIDE DEF t
  <1>6. QED
    BY <1>2, <1>3, <1>4, <1>5 DEF HasRef

LEMMA ApplyingWorks ==
    ASSUME ReconcilerTypes, NEW n \in CloudPrincipalAuths, NEW k \in Ids
    PROVE  Works(Applying(n, k)) => Works(obj[n])
  <1> DEFINE rs == {[id |-> k, ref |-> FALSE]}
             t == [obj[n].status EXCEPT !.applied = rs]
  <1>1. obj[n] \in Objects /\ obj[n].status \in Statuses
    BY KnownTypes, ObjectFields
  <1>2. Applying(n, k) = [obj[n] EXCEPT !.status = t]
    BY <1>1 DEF Applying, Objects, Versions
  <1>3. t.applied = rs /\ t.reason = obj[n].status.reason
    BY <1>1 DEF Statuses
  <1> HIDE DEF t
  <1>4. [obj[n] EXCEPT !.status = t].status = t
    BY <1>1 DEF Objects, Versions
  <1>5. \A r \in rs : ~r.ref
    OBVIOUS
  <1>6. QED
    BY <1>2, <1>3, <1>4, <1>5 DEF Works, HasRef

-------------------------------------------------------------------------------
(* Requests are only ever added, but for the one that the worker takes. *)

LEMMA FinishQueue ==
    ASSUME NEW n \in CloudPrincipalAuths
    PROVE  /\ \A retry : Finish(n, retry) => queue \subseteq queue' /\ (retry => n \in queue')
           /\ \A retry : Return(n, retry) => queue \subseteq queue' /\ (retry => n \in queue')
           /\ \A new, retry : Patch(n, new, retry) => queue \subseteq queue'
           /\ \A step : Proceed(n, step) => queue \subseteq queue'
           /\ \A o, step : ProceedWith(n, o, step) => queue \subseteq queue'
           /\ \A reason, retry : Reporting(n, reason, retry) => queue \subseteq queue'
           /\ \A o, retry, step : Conclude(n, o, retry, step) => queue \subseteq queue'
  BY DEF Finish, Return, Patch, PatchStatus, Proceed, ProceedWith, Reporting, Conclude

LEMMA QueueReconcile ==
    ASSUME NEW n \in CloudPrincipalAuths, Reconcile(n)
    PROVE  queue \subseteq queue'
  <1> USE FinishQueue
  <1>1. CASE AddFinalizer(n) \/ Check(n) \/ DeleteSelf(n) \/ Get(n)
    BY <1>1 DEF AddFinalizer, Claim, Check, DeleteSelf, Get, WithEnsured
  <1>2. CASE CreateKey(n) \/ ReachQuota(n) \/ Bind(n) \/ FindServiceAccount(n) \/ Annotate(n)
    BY <1>2 DEF CreateKey, ReachQuota, Bind, FindServiceAccount, Annotate
  <1>3. CASE StoreKey(n) \/ Settle(n) \/ DropKey(n) \/ PatchConclusion(n) \/ RecordKey(n)
             \/ Report(n)
    BY <1>3 DEF StoreKey, Settle, DropKey, PatchConclusion, RecordKey, Report
  <1>4. CASE PrepareDelete(n) \/ Disown(n) \/ DeleteKey(n) \/ Unannotate(n)
    BY <1>4 DEF PrepareDelete, Disown, DeleteKey, Unannotate
  <1>5. CASE Note(n) \/ RemoveFinalizer(n)
    BY <1>5 DEF Note, RemoveFinalizer, Release
  <1>6. QED
    BY <1>1, <1>2, <1>3, <1>4, <1>5 DEF Reconcile

LEMMA QueueQuiet ==
    ASSUME NEW n \in CloudPrincipalAuths,
           \/ User(n) \/ Age(n) \/ Deliver(n) \/ DeliverSecret(n) \/ CollectGarbage(n)
           \/ PrincipalChanges \/ ProviderChanges
    PROVE  queue \subseteq queue' /\ UNCHANGED plan
  BY DEF User, Create, Post, EditSpec, Put, RequestDeletion, Delete, TamperWithSecret,
         ServiceAccountChanges, Age, Deliver, Inform, DeliverSecret, CollectGarbage,
         PrincipalChanges, ProviderChanges, Wake

\* A step that is not a failure, of another resource.
LEMMA QueueOthers ==
    ASSUME ReconcilerTypes, NEW n \in CloudPrincipalAuths, NEW m \in CloudPrincipalAuths \ {n},
           StepOf(n), ~ApiCallFails(n), ~CloudCallFails(n)
    PROVE  (m \in queue => m \in queue') /\ plan'[m] = plan[m]
  <1>1. /\ \A retry : Finish(n, retry) => plan'[m] = plan[m]
        /\ \A retry : Return(n, retry) => plan'[m] = plan[m]
        /\ \A new, retry : Patch(n, new, retry) => plan'[m] = plan[m]
        /\ \A step : Proceed(n, step) => plan'[m] = plan[m]
        /\ \A o, step : ProceedWith(n, o, step) => plan'[m] = plan[m]
        /\ \A reason, retry : Reporting(n, reason, retry) => plan'[m] = plan[m]
        /\ \A o, retry, step : Conclude(n, o, retry, step) => plan'[m] = plan[m]
    BY DEF Finish, Return, Patch, PatchStatus, Proceed, ProceedWith, Reporting, Conclude,
           ReconcilerTypes
  <1>2. CASE User(n) \/ Age(n) \/ Deliver(n) \/ DeliverSecret(n) \/ CollectGarbage(n)
    BY <1>2, QueueQuiet
  <1>3. CASE Start(n)
    BY <1>3 DEF Start, Begin
  <1>4. CASE AddFinalizer(n) \/ Check(n) \/ DeleteSelf(n) \/ Get(n)
    BY <1>1, <1>4, QueueReconcile DEF Reconcile, AddFinalizer, Claim, Check, DeleteSelf, Get, WithEnsured
  <1>5. CASE CreateKey(n) \/ ReachQuota(n) \/ Bind(n) \/ FindServiceAccount(n) \/ Annotate(n)
    BY <1>1, <1>5, QueueReconcile DEF Reconcile, CreateKey, ReachQuota, Bind, FindServiceAccount, Annotate
  <1>6. CASE StoreKey(n) \/ Settle(n) \/ DropKey(n) \/ PatchConclusion(n) \/ RecordKey(n)
             \/ Report(n)
    BY <1>1, <1>6, QueueReconcile
       DEF Reconcile, StoreKey, Settle, DropKey, PatchConclusion, RecordKey, Report
  <1>7. CASE PrepareDelete(n) \/ Disown(n) \/ DeleteKey(n) \/ Unannotate(n)
    BY <1>1, <1>7, QueueReconcile DEF Reconcile, PrepareDelete, Disown, DeleteKey, Unannotate
  <1>8. CASE Note(n) \/ RemoveFinalizer(n)
    BY <1>1, <1>8, QueueReconcile DEF Reconcile, Note, RemoveFinalizer, Release
  <1>9. QED
    BY <1>2, <1>3, <1>4, <1>5, <1>6, <1>7, <1>8 DEF StepOf, Reconcile

-------------------------------------------------------------------------------
(* What users, time, the informer and the garbage collector do to the agreement. *)

\* The Secret stays, or loses its data or more.
Weaker(n) ==
    /\ secret'[n].exists => secret[n].exists /\ secret'[n].owner = secret[n].owner
    /\ secret'[n].key = 0 \/ (secret'[n].key = secret[n].key /\ secret'[n].exists)

\* The server's object stays what it is as far as the credentials are concerned.
Kept(n) ==
    /\ api'[n].status = api[n].status /\ api'[n].uid = api[n].uid
    /\ Alive(api'[n]) => Alive(api[n])
    /\ api[n].exists /\ api[n].finalizer /\ api[n].deleting
       => api'[n].exists /\ api'[n].finalizer /\ api'[n].deleting

\* The informer has the last version or will have it, and wakes the controller.
Informed(n) ==
    /\ Current(n)'
    /\ watch[n] # {} => watch'[n] # {} \/ n \in queue'
    /\ Known(n)' \subseteq Known(n) \union {api'[n]}

LEMMA WeakerFacts ==
    ASSUME NEW n \in CloudPrincipalAuths, Weaker(n), api'[n].uid = api[n].uid
    PROVE  /\ Backed(n) => Backed(n)'
           /\ KeysKept(n)' \subseteq KeysKept(n)
           /\ ~secret'[n].exists => secret'[n].key = 0
  <1>1. Backed(n) => Backed(n)'
    BY DEF Weaker, Backed
  <1>2. KeysKept(n)' \subseteq KeysKept(n)
    <2>1. KeysKept(n)' = IF secret'[n].owner = api'[n].uid THEN {secret'[n].key} \ {0} ELSE {}
      BY DEF KeysKept
    <2>2. CASE secret'[n].key = 0
      BY <2>1, <2>2
    <2>3. CASE secret'[n].key = secret[n].key /\ secret'[n].owner = secret[n].owner
      BY <2>1, <2>3 DEF KeysKept
    <2>4. QED
      BY <2>2, <2>3 DEF Weaker
  <1>3. QED
    BY <1>1, <1>2 DEF Weaker

LEMMA SecretWeaker ==
    ASSUME SecretsTypes, NEW n \in CloudPrincipalAuths, Behind(n)
    PROVE  /\ UNCHANGED secrets \/ UNCHANGED worker \/ secret' = secret => Weaker(n)
           /\ WriteSecret(n, NoSecret) => Weaker(n)
           /\ secret[n].exists /\ WriteSecret(n, [secret[n] EXCEPT !.key = 0]) => Weaker(n)
  <1>1. secret[n] \in Secrets /\ (~secret[n].exists => secret[n].key = 0)
    BY DEF SecretsTypes, Behind
  <1>2. \A s : WriteSecret(n, s) => secret'[n] = s
    BY DEF WriteSecret, SecretsTypes
  <1>3. UNCHANGED secrets \/ UNCHANGED worker \/ secret' = secret => Weaker(n)
    <2>1. UNCHANGED secrets \/ UNCHANGED worker \/ secret' = secret => secret'[n] = secret[n]
      BY DEF secrets, worker
    <2>2. secret'[n] = secret[n] => Weaker(n)
      BY <1>1 DEF Weaker, Secrets
    <2>3. QED
      BY <2>1, <2>2
  <1>4. NoSecret.key = 0 /\ ~NoSecret.exists
    BY DEF NoSecret
  <1>5. LET s == [secret[n] EXCEPT !.key = 0]
        IN  s.exists = secret[n].exists /\ s.owner = secret[n].owner /\ s.key = 0
    BY <1>1 DEF Secrets
  <1>6. QED
    BY <1>2, <1>3, <1>4, <1>5 DEF Weaker

LEMMA CurrentKeeps ==
    ASSUME ReconcilerTypes, NEW n \in CloudPrincipalAuths, Current(n),
           SameServer(n) \/ (Committed(n) /\ cache'[n] = cache[n])
    PROVE  Current(n)' /\ (watch[n] # {} => watch'[n] # {})
  <1>1. CASE SameServer(n)
    BY <1>1 DEF SameServer, Current
  <1>2. CASE Committed(n) /\ cache'[n] = cache[n]
    <2>1. api[n].rv \in Nat /\ \A v \in watch[n] : v.rv \in Nat
      BY KnownTypes, ObjectFields DEF Seen
    <2>2. \A v \in watch[n] : v.rv < api[n].rv + 1
      BY <2>1 DEF Current
    <2>3. QED
      BY <1>2, <2>2 DEF Committed, Current
  <1>3. QED
    BY <1>1, <1>2

\* Steps that leave the reconcile where it is.
LEMMA AgreedQuiet ==
    ASSUME NEW n \in CloudPrincipalAuths, Agreed(n),
           pc'[n] = pc[n] /\ obj'[n] = obj[n] /\ plan'[n] = plan[n],
           n \in queue => n \in queue',
           Weaker(n), Kept(n), Informed(n), Shown(n)' \subseteq Shown(n)
    PROVE  Agreed(n)'
  <1>1. /\ RecordedIds(api'[n]) = RecordedIds(api[n]) /\ RecordedIds(obj'[n]) = RecordedIds(obj[n])
        /\ Works(api'[n]) = Works(api[n]) /\ Works(obj'[n]) = Works(obj[n])
        /\ api'[n].uid = api[n].uid
    BY DEF Kept, RecordedIds, Works, HasRef
  <1>2. InTouch(n)'
    BY <1>1 DEF Agreed, InTouch, Kept, Informed
  <1>3. Numberless(n)'
    <2>1. Fresh(n) => Fresh(n)'
      BY <1>1 DEF Fresh, Informed, Known
    <2>2. QED
      BY <1>1, <2>1 DEF Agreed, Numberless
  <1>4. Behind(n)'
    BY <1>1, WeakerFacts DEF Agreed, Behind, Kept
  <1>5. Mismatch(n)' => Mismatch(n)
    BY <1>1, WeakerFacts DEF Mismatch, Kept
  <1>6. Dead(n) => Dead(n)'
    BY <1>1 DEF Dead
  <1>7. Due(n) => Due(n)'
    BY DEF Due, Informed
  <1>8. Matching(n)'
    BY <1>1, <1>5, <1>6, <1>7, WeakerFacts DEF Agreed, Matching, Kept
  <1>9. QED
    BY <1>2, <1>3, <1>4, <1>8 DEF Agreed

\* Users.
LEMMA UserKept ==
    ASSUME Base, NEW n \in CloudPrincipalAuths,
           \/ EditSpec(n) \/ RequestDeletion(n) \/ TamperWithSecret(n)
           \/ ServiceAccountChanges(n)
    PROVE  /\ Kept(n) /\ cache'[n] = cache[n] /\ live' = live /\ young' = young
           /\ SameServer(n) \/ Committed(n)
  <1> USE TypeParts DEF Base
  <1>1. /\ api[n] \in Objects /\ api[n].deleting \in BOOLEAN
    BY KnownTypes, ObjectFields
  <1>2. CASE EditSpec(n)
    <2>1. PICK s \in SpecsOfSetting : Commit(n, SpecEdited(api[n], s))
      BY <1>2 DEF EditSpec, Put
    <2> DEFINE o == SpecEdited(api[n], s)
    <2>2. api'[n] = o /\ watch'[n] = watch[n] \union {o}
      BY <2>1, CommitFacts
    <2>3. /\ o.uid = api[n].uid /\ o.exists = api[n].exists /\ o.finalizer = api[n].finalizer
          /\ o.rv = api[n].rv + 1
          /\ o.status = api[n].status /\ o.deleting = api[n].deleting
      BY <1>1 DEF SpecEdited, Objects, Versions
    <2> HIDE DEF o
    <2>4. QED
      BY <1>2, <2>2, <2>3 DEF EditSpec, Put, worker, keys, Kept, Alive, Committed
  <1>3. CASE RequestDeletion(n)
    <2> DEFINE o == DeletionRequested(api[n])
    <2>1. Commit(n, o) /\ ~api[n].deleting /\ cache' = cache
      BY <1>3 DEF RequestDeletion, Delete
    <2>2. /\ o.uid = api[n].uid /\ o.status = api[n].status /\ o.rv = api[n].rv + 1
          /\ ~Alive(o)
      BY <1>1 DEF DeletionRequested, Gone, Objects, Versions, Alive
    <2> HIDE DEF o
    <2>3. api'[n] = o /\ watch'[n] = watch[n] \union {o}
      BY <2>1, CommitFacts
    <2>4. QED
      BY <1>3, <2>1, <2>2, <2>3 DEF RequestDeletion, Kept, Committed, worker, keys
  <1>4. CASE TamperWithSecret(n) \/ ServiceAccountChanges(n)
    BY <1>4 DEF TamperWithSecret, ServiceAccountChanges, Wake, keys, Kept, SameServer
  <1>5. QED
    BY <1>2, <1>3, <1>4

LEMMA AgreedUser ==
    ASSUME Base, NEW n \in CloudPrincipalAuths, Claims(n), Agreed(n), User(n), ~Create(n)
    PROVE  Agreed(n)'
  <1> USE TypeParts DEF Base
  <1>1. /\ UNCHANGED <<pc, obj, plan>> /\ queue \subseteq queue'
        /\ \/ EditSpec(n) \/ RequestDeletion(n) \/ TamperWithSecret(n)
           \/ ServiceAccountChanges(n)
    BY WorkerRests, QueueQuiet DEF User
  <1>2. Kept(n) /\ Shown(n)' \subseteq Shown(n)
    BY <1>1, UserKept DEF Shown
  <1>3. Informed(n)
    BY <1>1, UserKept, CurrentKeeps DEF SameServer, Committed, Informed, Known, Agreed, InTouch
  <1>4. Weaker(n)
    <2>1. Behind(n)
      BY DEF Agreed
    <2>2. CASE EditSpec(n) \/ RequestDeletion(n) \/ ServiceAccountChanges(n)
      <3>1. UNCHANGED secrets \/ UNCHANGED worker
        BY <2>2 DEF EditSpec, RequestDeletion, ServiceAccountChanges
      <3>2. QED
        BY <2>1, <3>1, SecretWeaker
    <2>3. CASE TamperWithSecret(n)
      BY <2>1, <2>3, SecretWeaker DEF TamperWithSecret
    <2>4. QED
      BY <1>1, <2>2, <2>3
  <1>5. QED
    BY <1>1, <1>2, <1>3, <1>4, AgreedQuiet

LEMMA AgreedNature ==
    ASSUME Base, NEW n \in CloudPrincipalAuths, Agreed(n),
           Age(n) \/ Deliver(n) \/ DeliverSecret(n) \/ CollectGarbage(n)
    PROVE  Agreed(n)'
  <1> USE TypeParts DEF Base
  <1>1. /\ UNCHANGED <<pc, obj, plan, api, live>> /\ queue \subseteq queue'
        /\ young'[n] \subseteq young[n]
    BY NatureFacts, QueueQuiet
  <1>2. Kept(n) /\ Shown(n)' \subseteq Shown(n)
    BY <1>1 DEF Shown, Kept
  <1>3. Weaker(n)
    <2>1. Behind(n)
      BY DEF Agreed
    <2>2. QED
      BY <2>1, SecretWeaker DEF Age, Deliver, DeliverSecret, CollectGarbage
  <1>4. Informed(n)
    <2>1. CASE Deliver(n)
      <3>1. PICK v \in watch[n] : /\ cache' = [cache EXCEPT ![n] = v]
                                  /\ watch' = [watch EXCEPT ![n] = @ \ {v}]
                                  /\ \A u \in watch[n] : v.rv <= u.rv
        BY <2>1 DEF Deliver, Inform, Earliest
      <3>2. cache'[n] = v /\ watch'[n] = watch[n] \ {v}
        BY <3>1 DEF ReconcilerTypes
      <3>3. n \in queue'
        BY <2>1 DEF Deliver, Inform
      <3>4. Current(n)'
        <4>1. /\ api[n].rv \in Nat /\ \A u \in watch[n] : u.rv \in Nat
              /\ Current(n) /\ api'[n] = api[n]
          BY <1>1, KnownTypes, ObjectFields DEF Seen, Agreed, InTouch
        <4>2. api[n] \in watch[n]
          BY <4>1 DEF Current
        <4>3. v = api[n] => \A u \in watch[n] : u = api[n]
          BY <3>1, <4>1 DEF Current
        <4>4. QED
          BY <3>2, <4>1, <4>2, <4>3 DEF Current
      <3>5. {api'[n], cache'[n]} \union watch'[n] \subseteq Known(n) \union {api'[n]}
        BY <3>1, <3>2 DEF Known
      <3>6. QED
        BY <3>3, <3>4, <3>5 DEF Informed, Known
    <2>2. CASE Age(n) \/ DeliverSecret(n) \/ CollectGarbage(n)
      <3>1. SameServer(n)
        BY <2>2 DEF Age, DeliverSecret, CollectGarbage, Wake, SameServer
      <3>2. QED
        BY <3>1, CurrentKeeps DEF SameServer, Informed, Known, Agreed, InTouch
    <2>3. QED
      BY <2>1, <2>2
  <1>5. QED
    BY <1>1, <1>2, <1>3, <1>4, AgreedQuiet

LEMMA AgreedCreate ==
    ASSUME Base, NEW n \in CloudPrincipalAuths, Claims(n), Agreed(n), Create(n)
    PROVE  Agreed(n)'
  <1> USE TypeParts DEF Base
  <1>1. /\ UNCHANGED <<pc, obj, plan, cache, secret>> /\ ~api[n].exists
    BY DEF Create, Post, secrets
  <1>2. PICK s \in SpecsOfSetting : Commit(n, Created(api[n], s, NoStatus))
    BY DEF Create, Post
  <1> DEFINE o == Created(api[n], s, NoStatus)
  <1>3. /\ o.rv = api[n].rv + 1 /\ o.status = NoStatus
        /\ api'[n] = o /\ watch'[n] = watch[n] \union {o}
    BY <1>2, CommitFacts DEF Created
  <1> HIDE DEF o
  <1>4. Committed(n) /\ RecordedIds(api'[n]) = {} /\ ~Works(api'[n])
        /\ api'[n].status.reason # "Reconciled"
    BY <1>3 DEF Committed, RecordedIds, Works, HasRef, NoStatus
  <1>5. pc[n] \notin Ensuring /\ pc[n] \notin Deleting
    BY <1>1 DEF Claims, Agreed, InTouch
  <1>6. InTouch(n)'
    <2>1. Current(n)'
      BY <1>1, <1>4, CurrentKeeps DEF Agreed, InTouch
    <2>2. pc[n] \notin Reading
      BY <1>5 DEF Reading, Ensuring
    <2>3. QED
      BY <1>1, <1>5, <2>1, <2>2 DEF InTouch, Agreed
  <1>7. Numberless(n)'
    BY <1>1, <1>5 DEF Numberless, Ensuring
  <1>8. Behind(n)'
    BY <1>1, <1>4, <1>5 DEF Agreed, Behind
  <1>9. Matching(n)'
    <2>1. Dead(n)'
      BY <1>4 DEF Dead
    <2>2. QED
      BY <1>1, <1>4, <1>5, <2>1 DEF Matching, Ensuring
  <1>10. QED
    BY <1>6, <1>7, <1>8, <1>9 DEF Agreed

\* The server and the Secret stay as they are, and the cloud shows no more.
Still(n) ==
    /\ SameServer(n) /\ secret'[n] = secret[n]
    /\ Shown(n)' \subseteq Shown(n)

LEMMA StillFacts ==
    ASSUME ReconcilerTypes, NEW n \in CloudPrincipalAuths, Agreed(n), Still(n)
    PROVE  /\ Current(n)' /\ (watch[n] # {} => watch'[n] # {})
           /\ Mismatch(n)' = Mismatch(n) /\ KeysKept(n)' = KeysKept(n) /\ Backed(n)' = Backed(n)
           /\ Dead(n) => Dead(n)'
           /\ ~secret'[n].exists => secret'[n].key = 0
           /\ api'[n] = api[n] /\ Known(n)' = Known(n)
  <1>1. api'[n] = api[n] /\ secret'[n] = secret[n] /\ Known(n)' = Known(n)
    BY DEF Still, SameServer, Known
  <1>2. Current(n)' /\ (watch[n] # {} => watch'[n] # {})
    BY CurrentKeeps DEF Still, Agreed, InTouch
  <1>3. KeysKept(n)' = KeysKept(n) /\ Backed(n)' = Backed(n)
    BY <1>1 DEF KeysKept, Backed
  <1>4. Mismatch(n)' = Mismatch(n)
    BY <1>1, <1>3 DEF Mismatch
  <1>5. Dead(n) => Dead(n)'
    BY <1>1 DEF Dead, Still
  <1>6. QED
    BY <1>1, <1>2, <1>3, <1>4, <1>5 DEF Agreed, Behind

\* Steps of a reconcile that go on with the object in hand.
LEMMA AgreedMoves ==
    ASSUME ReconcilerTypes, NEW n \in CloudPrincipalAuths, Agreed(n), Still(n),
           obj'[n] = obj[n],
           \/ pc[n] = "check" /\ pc'[n] = "get"
           \/ pc[n] \in {"check", "create"} /\ pc'[n] = "report" /\ plan'[n].reason # "Reconciled"
           \/ pc[n] = "get" /\ pc'[n] = "create" /\ Dead(n)
           \/ pc[n] \in {"settle", "patchKey"} /\ pc'[n] = "dropKey"
    PROVE  Agreed(n)'
  <1>1. InTouch(n)'
    BY StillFacts DEF Agreed, InTouch, StaticSteps, PCs, Deleting, Ensuring, Reading
  <1>2. Numberless(n)'
    BY DEF Numberless
  <1>3. Behind(n)'
    BY StillFacts DEF Agreed, Behind, Ensuring
  <1>4. Matching(n)'
    BY StillFacts DEF Agreed, Matching, Due
  <1>5. QED
    BY <1>1, <1>2, <1>3, <1>4 DEF Agreed

\* A reconcile that ends and is queued again.
LEMMA AgreedEnds ==
    ASSUME ReconcilerTypes, NEW n \in CloudPrincipalAuths, Agreed(n), Still(n),
           pc'[n] = "idle", n \in queue'
    PROVE  Agreed(n)'
  <1>1. InTouch(n)'
    BY StillFacts DEF Agreed, InTouch, StaticSteps, PCs, Deleting, Ensuring, Reading
  <1>2. Numberless(n)'
    BY DEF Numberless
  <1>3. Behind(n)'
    BY StillFacts DEF Agreed, Behind, Ensuring
  <1>4. Matching(n)'
    BY StillFacts DEF Agreed, Matching, Due
  <1>5. QED
    BY <1>1, <1>2, <1>3, <1>4 DEF Agreed

\* A deletion is under way: nobody counts on the Secret any more.
LEMMA AgreedDeleting ==
    ASSUME ReconcilerTypes, NEW n \in CloudPrincipalAuths, Agreed(n), SameServer(n),
           pc[n] \in Deleting, ~secret'[n].exists => secret'[n].key = 0,
           \/ pc'[n] \in {"idle", "disown", "deleteKey", "release"}
           \/ pc'[n] = "report" /\ plan'[n].reason # "Reconciled"
    PROVE  Agreed(n)'
  <1>1. Current(n)' /\ api'[n] = api[n] /\ api[n].exists /\ api[n].finalizer /\ api[n].deleting
    BY CurrentKeeps DEF Agreed, InTouch, SameServer
  <1>2. ~Alive(api'[n])
    BY <1>1 DEF Alive
  <1>3. InTouch(n)'
    BY <1>1 DEF InTouch, StaticSteps, PCs, Deleting, Ensuring, Reading
  <1>4. Numberless(n)'
    BY DEF Numberless
  <1>5. Behind(n)'
    BY <1>2 DEF Behind, Ensuring
  <1>6. Matching(n)'
    BY <1>2 DEF Matching, Mismatch
  <1>7. QED
    BY <1>3, <1>4, <1>5, <1>6 DEF Agreed

LEMMA AgreedStart ==
    ASSUME Base, NEW n \in CloudPrincipalAuths, Agreed(n), Start(n)
    PROVE  Agreed(n)'
  <1> USE TypeParts DEF Base
  <1>1. /\ SameServer(n) /\ UNCHANGED <<secret, live, young, plan>> /\ pc[n] = "idle"
    BY StartFacts DEF worker, keys, secrets, Start, Begin
  <1>2. Still(n)
    BY <1>1 DEF Still, Shown
  <1>3. \/ /\ pc'[n] = "idle" /\ ~Alive(api[n])
        \/ /\ obj'[n] = api[n] /\ api[n].exists
           /\ \/ pc'[n] = "prepareDelete" /\ api[n].deleting /\ api[n].finalizer
              \/ pc'[n] \in {"check", "addFinalizer"}
    BY <1>1 DEF Start, Begin, FirstStep, GoTo, Alive, ReconcilerTypes
  <1>4. InTouch(n)'
    BY <1>2, <1>3, StillFacts DEF InTouch, StaticSteps, PCs, Deleting, Ensuring, Reading
  <1>5. Numberless(n)'
    BY <1>3 DEF Numberless
  <1>6. Behind(n)'
    BY <1>2, <1>3, StillFacts DEF Agreed, Behind, Ensuring
  <1>7. Matching(n)'
    <2>1. pc'[n] \in {"idle", "prepareDelete", "check", "addFinalizer"}
      BY <1>3
    <2>2. Mismatch(n)' => Dead(n)'
      BY <1>2, StillFacts DEF Agreed, Matching
    <2>3. Mismatch(n)' => Due(n)'
      BY <1>2, <1>3, StillFacts DEF Mismatch, Due, Alive
    <2>4. QED
      BY <2>1, <2>2, <2>3 DEF Matching
  <1>8. QED
    BY <1>4, <1>5, <1>6, <1>7 DEF Agreed

LEMMA PromptReads ==
    ASSUME Base, NEW n \in CloudPrincipalAuths, ReadSecret(n),
           Prompt', setting' = setting, budget.lags <= setting.lags
    PROVE  cachedSecret[n] = secret[n]
  <1> USE TypeParts DEF Base
  <1>1. cachedSecret[n] # secret[n] => budget'.lags < budget.lags
    BY ReadSecretTypes
  <1>2. budget'.lags = setting.lags /\ budget.lags \in Nat /\ setting.lags \in Nat
    BY SettingFacts DEF Prompt, BudgetTypes
  <1>3. QED
    BY <1>1, <1>2

-------------------------------------------------------------------------------
(* EnsureAuthentication keeps the agreement. *)

LEMMA GetStatic ==
    ASSUME Base, NEW n \in CloudPrincipalAuths, IsStatic(obj[n]), Get(n)
    PROVE  /\ SameServer(n) /\ UNCHANGED worker /\ pc[n] = "get"
           /\ \/ /\ obj'[n] = obj[n] /\ pc'[n] = "create"
                 /\ obj[n].status.applied = {} \/ Id(n) \notin Shown(n)
              \/ /\ obj'[n] \in {obj[n], Applying(n, Id(n))}
                 /\ pc'[n] \in {"settle", "emptySecret"}
                 /\ obj[n].status.applied # {} /\ Id(n) \in Shown(n)
  <1> USE TypeParts, Pieces DEF Base
  <1>1. pc[n] = "get" /\ UNCHANGED worker
    BY DEF Get
  <1>2. CASE obj[n].status.applied = {} /\ Proceed(n, "create")
    BY <1>1, <1>2
  <1>3. ASSUME obj[n].status.applied # {}, NEW answer \in Answers(n, Id(n)),
               answer = "found" \/ Forgives(n), WithEnsured(n)
        PROVE  /\ SameServer(n) /\ obj'[n] \in {obj[n], Applying(n, Id(n))}
               /\ pc'[n] \in {"settle", "emptySecret"} /\ Id(n) \in Shown(n)
    <2>1. Id(n) \in Shown(n)
      BY <1>3 DEF Answers, Forgives, Shown
    <2>2. CASE Proceed(n, "settle") \/ ProceedWith(n, obj[n], "settle")
      BY <2>1, <2>2
    <2>3. CASE ProceedWith(n, Applying(n, Id(n)), "emptySecret")
      BY <2>1, <2>3
    <2>4. QED
      BY <1>3, <2>2, <2>3 DEF WithEnsured, Applying
  <1>4. ASSUME NEW answer \in Answers(n, Id(n)),
               ~(answer = "found" \/ Forgives(n)), Proceed(n, "create")
        PROVE  /\ SameServer(n) /\ obj'[n] = obj[n] /\ pc'[n] = "create"
               /\ Id(n) \notin Shown(n)
    BY <1>4 DEF Answers, Forgives, Shown
  <1>5. QED
    BY <1>1, <1>2, <1>3, <1>4 DEF Get

LEMMA AgreedGet ==
    ASSUME Base, NEW n \in CloudPrincipalAuths, Agreed(n), IsStatic(obj[n]), Get(n)
    PROVE  Agreed(n)'
  <1> USE TypeParts DEF Base
  <1>1. Still(n) /\ pc[n] = "get"
    BY GetStatic DEF Still, worker, keys, secrets, Shown
  <1>2. RecordedIds(obj[n]) = RecordedIds(api[n])
    BY <1>1 DEF Agreed, InTouch, Reading
  <1>3. CASE /\ obj'[n] = obj[n] /\ pc'[n] = "create"
             /\ obj[n].status.applied = {} \/ Id(n) \notin Shown(n)
    <2>1. CASE obj[n].status.applied = {}
      <3>1. RecordedIds(obj[n]) = {}
        BY <2>1 DEF RecordedIds
      <3>2. QED
        BY <1>1, <1>2, <1>3, <3>1, AgreedMoves DEF Dead
    <2>2. CASE obj[n].status.applied # {}
      <3>1. RecordedIds(obj[n]) = {Id(n)}
        BY <2>2, InHand
      <3>2. Dead(n)
        BY <1>2, <1>3, <2>2, <3>1 DEF Dead
      <3>3. QED
        BY <1>1, <1>3, <3>2, AgreedMoves
    <2>3. QED
      BY <2>1, <2>2
  <1>4. CASE /\ obj'[n] \in {obj[n], Applying(n, Id(n))}
             /\ pc'[n] \in {"settle", "emptySecret"}
             /\ obj[n].status.applied # {} /\ Id(n) \in Shown(n)
    <2>1. RecordedIds(obj[n]) = {Id(n)} /\ Id(n) \in Ids
      BY <1>4, InHand
    <2>2. /\ RecordedIds(obj'[n]) = {Id(n)} /\ obj'[n].uid = obj[n].uid
          /\ Works(obj'[n]) => Works(obj[n])
      <3>1. CASE obj'[n] = obj[n]
        BY <2>1, <3>1
      <3>2. CASE obj'[n] = Applying(n, Id(n))
        BY <2>1, <3>2, ApplyingFacts, ApplyingWorks
      <3>3. QED
        BY <1>4, <3>1, <3>2
    <2>3. ~Dead(n)
      BY <1>2, <1>4, <2>1 DEF Dead
    <2>4. ~Mismatch(n)
      BY <2>3 DEF Agreed, Matching
    <2>5. InTouch(n)'
      BY <1>1, <1>2, <1>4, <2>1, <2>2, StillFacts
         DEF Agreed, InTouch, StaticSteps, PCs, Deleting, Ensuring, Reading
    <2>6. Numberless(n)'
      BY <1>4 DEF Numberless
    <2>7. Behind(n)'
      BY <1>1, <1>4, <2>2, StillFacts DEF Agreed, Behind, Ensuring
    <2>8. Matching(n)'
      <3>1. ~Mismatch(n)'
        BY <1>1, <2>4, StillFacts
      <3>2. Alive(api[n]) => KeysKept(n) \subseteq RecordedIds(api[n])
        BY <2>4 DEF Mismatch
      <3>3. QED
        BY <1>1, <1>2, <1>4, <2>1, <2>2, <3>1, <3>2, StillFacts DEF Matching
    <2>9. QED
      BY <2>5, <2>6, <2>7, <2>8 DEF Agreed
  <1>5. QED
    BY <1>3, <1>4, GetStatic

\* The number of a new key was never recorded.
LEMMA NextKeyIsNew ==
    ASSUME Base
    PROVE  NextKey # Binding /\ NextKey \notin Credentials
  <1>1. /\ budget.keys \in Nat /\ setting.keys \in Nat /\ budget.keys <= setting.keys
    BY TypeParts, SettingFacts DEF Base, BudgetTypes, KeysNumbered
  <1>2. QED
    BY <1>1 DEF NextKey, Binding, Credentials, Numbers

LEMMA AgreedCreateKey ==
    ASSUME Base, NEW n \in CloudPrincipalAuths, Agreed(n), CreateKey(n)
    PROVE  Agreed(n)'
  <1> USE TypeParts DEF Base
  <1>1. /\ SameServer(n) /\ UNCHANGED secrets
        /\ pc[n] = "create" /\ pc'[n] = "secret"
        /\ RecordedIds(obj'[n]) = {NextKey} /\ NextKey \in Ids
        /\ Shown(n)' \subseteq Shown(n) \union {NextKey}
    BY CreateKeyFacts DEF Shown
  <1>2. obj'[n] = Applying(n, NextKey)
    BY Pieces DEF CreateKey
  <1>3. obj'[n].uid = obj[n].uid /\ (Works(obj'[n]) => Works(obj[n]))
    BY <1>1, <1>2, ApplyingFacts, ApplyingWorks
  <1>4. \A v \in Known(n) \union {api[n]} : NextKey \notin RecordedIds(v)
    BY NextKeyIsNew DEF KeysNumbered, Seen, Known
  <1>5. /\ api'[n] = api[n] /\ secret'[n] = secret[n] /\ Known(n)' = Known(n)
        /\ Current(n)'
    BY <1>1, CurrentKeeps DEF SameServer, secrets, Known, Agreed, InTouch
  <1>6. Dead(n)'
    <2>1. Dead(n)
      BY <1>1 DEF Agreed, Matching
    <2>2. RecordedIds(api'[n]) = RecordedIds(api[n]) /\ NextKey \notin RecordedIds(api[n])
      BY <1>4, <1>5
    <2>3. QED
      BY <1>1, <2>1, <2>2 DEF Dead
  <1>7. InTouch(n)'
    BY <1>1, <1>3, <1>5 DEF Agreed, InTouch, StaticSteps, PCs, Deleting, Ensuring, Reading
  <1>8. Numberless(n)'
    <2>1. Fresh(n)'
      BY <1>1, <1>4, <1>5 DEF Fresh, Known
    <2>2. QED
      BY <1>1, <2>1, NextKeyIsNew DEF Numberless
  <1>9. Behind(n)'
    BY <1>1, <1>3, <1>5 DEF Agreed, Behind, Ensuring, Backed
  <1>10. Matching(n)'
    BY <1>1, <1>6 DEF Matching, Due
  <1>11. QED
    BY <1>7, <1>8, <1>9, <1>10 DEF Agreed

-------------------------------------------------------------------------------
(* The steps about the Secret keep the agreement. *)

\* What is in the Secret when the API server took what the reconcile wrote.
LEMMA SecretWritten ==
    ASSUME Base, NEW n \in CloudPrincipalAuths, Kind(n), Agreed(n),
           pc[n] \in {"secret", "emptySecret"}, cachedSecret[n] = secret[n],
           SecretAccepts(n), Alive(api[n])
    PROVE  LET s == SecretWith(n, DataInHand(n))
           IN  /\ s.key = 0 \/ s.key \in RecordedIds(obj[n])
  <1> USE TypeParts DEF Base
  <1> DEFINE s == SecretWith(n, DataInHand(n))
  <1>1. secret[n] \in Secrets /\ obj[n].uid = api[n].uid /\ obj[n].uid # 0
    BY DEF SecretsTypes, Agreed, InTouch, Ensuring, Kind
  <1>2. RecordedIds(obj[n]) = {Id(n)}
    BY InHand DEF Handling
  <1>3. CASE pc[n] = "secret"
    <2>1. Id(n) # Binding /\ DataInHand(n) = Id(n)
      BY <1>2, <1>3 DEF Agreed, Numberless, DataInHand
    <2>2. s.key = Id(n)
      BY <2>1 DEF SecretWith, Binding
    <2>3. QED
      BY <1>2, <2>2
  <1>4. CASE pc[n] = "emptySecret"
    <2>1. DataInHand(n) = 0 /\ KeysKept(n) \subseteq RecordedIds(obj[n])
      BY <1>4 DEF DataInHand, Agreed, Matching
    <2>2. s.key = 0 \/ (secret[n].exists /\ s.key = secret[n].key)
      BY <1>1, <2>1 DEF SecretWith, Secrets
    <2>3. secret[n].exists => secret[n].owner = api[n].uid
      BY <1>1 DEF SecretAccepts
    <2>4. QED
      BY <2>1, <2>2, <2>3 DEF KeysKept
  <1>5. QED
    BY <1>3, <1>4

LEMMA AgreedStoreKey ==
    ASSUME Base, NEW n \in CloudPrincipalAuths, Kind(n), Agreed(n), StoreKey(n),
           Prompt', setting' = setting, budget.lags <= setting.lags
    PROVE  Agreed(n)'
  <1> USE TypeParts DEF Base
  <1>1. cachedSecret[n] = secret[n] /\ pc[n] \in {"secret", "emptySecret"}
    BY PromptReads DEF StoreKey
  <1>2. /\ SameServer(n) /\ SameCredentials(n) /\ UNCHANGED keys /\ pc'[n] = "patchKey"
    BY <1>1, PublishFacts
  <1>3. /\ api'[n] = api[n] /\ Known(n)' = Known(n) /\ Current(n)'
        /\ RecordedIds(obj'[n]) = RecordedIds(obj[n]) /\ obj'[n].uid = obj[n].uid
        /\ Dead(n)' = Dead(n)
    BY <1>2, CurrentKeeps DEF SameServer, SameCredentials, Known, Agreed, InTouch, Dead, Shown, keys
  <1>4. InTouch(n)'
    BY <1>1, <1>2, <1>3 DEF Agreed, InTouch, StaticSteps, PCs, Deleting, Ensuring, Reading
  <1>5. Numberless(n)'
    <2>1. RecordedIds(obj[n]) = RecordedIds(api[n]) \/ Fresh(n)
      BY <1>1 DEF Agreed, Numberless, InTouch, Reading
    <2>2. Fresh(n) => Fresh(n)'
      BY <1>3 DEF Fresh
    <2>3. QED
      BY <1>2, <1>3, <2>1, <2>2 DEF Numberless
  <1>6. obj[n].uid = api[n].uid /\ obj[n].uid # 0 /\ secret[n] \in Secrets
    BY <1>1 DEF Agreed, InTouch, Ensuring, Kind, SecretsTypes
  <1>7. CASE SecretAccepts(n)
    <2> DEFINE s == SecretWith(n, DataInHand(n))
    <2>1. secret'[n] = s
      BY <1>7 DEF StoreKey, WriteSecret, SecretsTypes
    <2>2. s.exists /\ s.owner = obj[n].uid
      BY <1>6 DEF SecretWith, Secrets
    <2>3. Alive(api[n]) => s.key = 0 \/ s.key \in RecordedIds(obj[n])
      BY <1>1, <1>7, SecretWritten
    <2> HIDE DEF s
    <2>4. Behind(n)'
      BY <1>3, <1>6, <2>1, <2>2 DEF Behind, Backed
    <2>5. Alive(api[n]) => KeysKept(n)' \subseteq RecordedIds(obj'[n])
      BY <1>3, <2>1, <2>3 DEF KeysKept
    <2>6. Mismatch(n)' => Dead(n)
      <3>1. CASE pc[n] = "secret"
        BY <3>1 DEF Agreed, Matching
      <3>2. CASE pc[n] = "emptySecret"
        <4>1. RecordedIds(obj[n]) = RecordedIds(api[n])
          BY <3>2 DEF Agreed, InTouch, Reading
        <4>2. QED
          BY <1>3, <2>5, <4>1 DEF Mismatch
      <3>3. QED
        BY <1>1, <3>1, <3>2
    <2>7. Matching(n)'
      BY <1>2, <1>3, <2>5, <2>6 DEF Matching, Due
    <2>8. QED
      BY <1>4, <1>5, <2>4, <2>7 DEF Agreed
  <1>8. CASE ~SecretAccepts(n)
    <2>1. secret'[n] = secret[n]
      BY <1>8 DEF StoreKey, secrets
    <2>2. obj'[n] = Concluding(n, FALSE, "False", "CredentialsError")
      BY <1>8, Pieces DEF StoreKey
    <2>3. ~Works(obj'[n])
      <3> DEFINE o == Concluding(n, FALSE, "False", "CredentialsError")
      <3>1. o.status.reason = "CredentialsError" /\ ~HasRef(o)
        <4>1. FALSE \in BOOLEAN
          OBVIOUS
        <4>2. QED
          BY <4>1, ConcludingWorks
      <3> HIDE DEF o
      <3>2. obj'[n] = o
        BY <2>2 DEF o
      <3>3. QED
        BY <3>1, <3>2 DEF Works
    <2>4. secret[n].exists /\ secret[n].owner # api[n].uid
      BY <1>1, <1>6, <1>8 DEF SecretAccepts
    <2>5. Behind(n)'
      BY <1>3, <2>1, <2>3 DEF Agreed, Behind, Backed
    <2>6. KeysKept(n) = {} /\ KeysKept(n)' = {}
      BY <1>3, <2>1, <2>4 DEF KeysKept
    <2>7. Matching(n)'
      BY <1>2, <1>3, <2>6 DEF Matching, Mismatch
    <2>8. QED
      BY <1>4, <1>5, <2>5, <2>7 DEF Agreed
  <1>9. QED
    BY <1>7, <1>8

LEMMA AgreedSettle ==
    ASSUME Base, NEW n \in CloudPrincipalAuths, Agreed(n), Settle(n)
    PROVE  Agreed(n)'
  <1> USE TypeParts DEF Base
  <1>1. /\ SameServer(n) /\ SameCredentials(n) /\ UNCHANGED keys /\ pc[n] = "settle"
        /\ UNCHANGED worker
    BY PublishFacts DEF Settle
  <1>2. Still(n)
    BY <1>1 DEF Still, Shown, worker, keys, secrets
  <1>3. CASE Proceed(n, "dropKey")
    BY <1>1, <1>2, <1>3, Pieces, AgreedMoves
  <1>4. CASE /\ HasRef(obj[n])
             /\ Conclude(n, Concluding(n, TRUE, obj[n].status.configured, "Reconciled"),
                         FALSE, "patch")
    <2>1. pc'[n] = "patch"
      BY <1>4, Pieces
    <2>2. /\ RecordedIds(obj'[n]) = RecordedIds(obj[n]) /\ obj'[n].uid = obj[n].uid
          /\ Works(obj[n])
      BY <1>1, <1>4 DEF SameCredentials, Works
    <2>3. InTouch(n)'
      BY <1>1, <1>2, <2>1, <2>2, StillFacts
         DEF Agreed, InTouch, StaticSteps, PCs, Deleting, Ensuring, Reading
    <2>4. Numberless(n)'
      BY <2>1 DEF Numberless
    <2>5. Behind(n)'
      BY <1>1, <1>2, <2>2, StillFacts DEF Agreed, Behind, Ensuring
    <2>6. Matching(n)'
      <3>1. Alive(api[n]) => KeysKept(n) \subseteq RecordedIds(obj[n])
        BY <1>1 DEF Agreed, Matching
      <3>2. RecordedIds(obj[n]) = RecordedIds(api[n])
        BY <1>1 DEF Agreed, InTouch, Reading
      <3>3. ~Mismatch(n)'
        BY <1>2, <3>1, <3>2, StillFacts DEF Mismatch
      <3>4. QED
        BY <1>2, <2>1, <2>2, <3>1, <3>3, StillFacts DEF Matching
    <2>7. QED
      BY <2>3, <2>4, <2>5, <2>6 DEF Agreed
  <1>5. QED
    BY <1>3, <1>4 DEF Settle

-------------------------------------------------------------------------------
(* The patches keep the agreement. *)

\* The patch that records the key in hand.
LEMMA AgreedRecords ==
    ASSUME Base, NEW n \in CloudPrincipalAuths, Agreed(n), Claims(n),
           pc[n] \in {"patch", "patchKey"}, pc'[n] = "idle", secret'[n] = secret[n],
           Patched(n, obj[n].status), Noticed(n, obj[n].status),
           RecordedIds(api'[n]) = RecordedIds(obj[n])
    PROVE  Agreed(n)'
  <1> USE TypeParts DEF Base
  <1>1. /\ api'[n].exists = api[n].exists /\ api'[n].uid = api[n].uid
        /\ api'[n].deleting = api[n].deleting
        /\ api'[n].status.reason \in {obj[n].status.reason, api[n].status.reason}
        /\ HasRef(api'[n]) => RefIn(obj[n].status.applied) \/ HasRef(api[n])
    BY DEF Patched, Noticed
  <1>2. Alive(api'[n]) = Alive(api[n])
    BY <1>1 DEF Alive
  <1>3. Works(api'[n]) => Works(obj[n]) \/ Works(api[n])
    BY <1>1 DEF Works, RefIn, HasRef
  <1>4. Current(n)'
    BY CurrentKeeps DEF Noticed, Agreed, InTouch
  <1>5. Backed(n)' = Backed(n) /\ KeysKept(n)' = KeysKept(n)
    BY <1>1 DEF Backed, KeysKept
  <1>6. InTouch(n)'
    BY <1>4 DEF InTouch, StaticSteps, PCs, Deleting, Ensuring, Reading
  <1>7. Numberless(n)'
    BY DEF Numberless
  <1>8. Behind(n)'
    BY <1>2, <1>3, <1>5 DEF Agreed, Behind, Ensuring
  <1>9. ~Mismatch(n)'
    BY <1>2, <1>5 DEF Agreed, Matching, Mismatch
  <1>10. Matching(n)'
    BY <1>9 DEF Matching
  <1>11. QED
    BY <1>6, <1>7, <1>8, <1>10 DEF Agreed

LEMMA AgreedRecordKey ==
    ASSUME Base, NEW n \in CloudPrincipalAuths, Agreed(n), Claims(n), RecordKey(n)
    PROVE  Agreed(n)'
  <1> USE TypeParts DEF Base
  <1>1. pc[n] = "patchKey" /\ UNCHANGED worker
    BY RecordKeyFacts
  <1>2. secret'[n] = secret[n]
    BY <1>1 DEF worker, secrets
  <1>3. CASE Refused(n, obj[n].status)
    <2>1. Proceed(n, "dropKey")
      BY <1>3 DEF RecordKey
    <2>2. Still(n) /\ obj'[n] = obj[n] /\ pc'[n] = "dropKey"
      BY <1>1, <2>1, Pieces DEF Still, Shown, worker, keys, secrets
    <2>3. QED
      BY <1>1, <2>2, AgreedMoves
  <1>4. CASE ~Refused(n, obj[n].status)
    <2>1. obj[n].status \in Statuses /\ obj[n].status.applied # {}
          /\ IdsOf(obj[n].status.applied) = RecordedIds(obj[n])
          /\ Patch(n, obj[n].status, plan[n].retry)
      BY <1>1, <1>4, KnownTypes, ObjectFields DEF KeyInHand, Handling, RecordKey
    <2>2. Patched(n, obj[n].status) /\ Noticed(n, obj[n].status) /\ pc'[n] = "idle"
      BY <1>4, <2>1, PatchFacts, PatchNoticed
    <2>3. RecordedIds(obj[n]) = RecordedIds(api[n]) \/ Fresh(n)
      BY <1>1 DEF Agreed, Numberless
    <2>4. RecordedIds(api'[n]) = RecordedIds(obj[n])
      <3>1. CASE RecordedIds(obj[n]) = RecordedIds(api[n])
        BY <2>1, <2>2, <3>1 DEF Patched
      <3>2. CASE Fresh(n)
        <4>1. IdsOf(obj[n].status.applied) \intersect RecordedIds(cache[n]) = {}
          BY <2>1, <3>2 DEF Fresh, Known
        <4>2. QED
          BY <1>4, <2>1, <2>2, <4>1 DEF Patched
      <3>3. QED
        BY <2>3, <3>1, <3>2
    <2>5. QED
      BY <1>1, <1>2, <2>2, <2>4, AgreedRecords
  <1>5. QED
    BY <1>3, <1>4

LEMMA AgreedPatchConclusion ==
    ASSUME Base, NEW n \in CloudPrincipalAuths, Agreed(n), Claims(n), PatchConclusion(n)
    PROVE  Agreed(n)'
  <1> USE TypeParts DEF Base
  <1>1. /\ pc[n] = "patch" /\ pc'[n] = "idle" /\ Patched(n, obj[n].status)
        /\ UNCHANGED <<cache, live, young, secrets>>
    BY PatchConclusionFacts
  <1>2. obj[n].status \in Statuses /\ Patch(n, obj[n].status, plan[n].retry)
        /\ IdsOf(obj[n].status.applied) = RecordedIds(obj[n])
    BY KnownTypes, ObjectFields DEF PatchConclusion
  <1>3. CASE Refused(n, obj[n].status)
    <2>1. SameServer(n) /\ n \in queue'
      BY <1>2, <1>3, PatchNoticed
    <2>2. Still(n)
      BY <1>1, <2>1 DEF Still, Shown, secrets
    <2>3. QED
      BY <1>1, <2>1, <2>2, AgreedEnds
  <1>4. CASE ~Refused(n, obj[n].status)
    <2>1. Noticed(n, obj[n].status)
      BY <1>2, <1>4, PatchNoticed
    <2>2. RecordedIds(obj[n]) = RecordedIds(api[n])
      BY <1>1 DEF Agreed, InTouch, Reading
    <2>3. RecordedIds(api'[n]) = RecordedIds(obj[n])
      BY <1>1, <1>2, <2>2 DEF Patched
    <2>4. secret'[n] = secret[n]
      BY <1>1 DEF secrets
    <2>5. QED
      BY <1>1, <2>1, <2>3, <2>4, AgreedRecords
  <1>5. QED
    BY <1>3, <1>4

LEMMA AgreedReport ==
    ASSUME Base, NEW n \in CloudPrincipalAuths, Agreed(n), Report(n)
    PROVE  Agreed(n)'
  <1> USE TypeParts DEF Base
  <1> DEFINE new == [cache[n].status EXCEPT !.reason = plan[n].reason, !.gen = obj[n].gen]
  <1>1. /\ pc[n] = "report" /\ pc'[n] = "idle" /\ UNCHANGED worker /\ Noted(n)
    BY ReportFacts
  <1>2. /\ cache[n].status \in Statuses /\ plan[n].reason \in Reasons /\ obj[n].gen \in Nat
    BY KnownTypes, ObjectFields
  <1>3. /\ new \in Statuses /\ new.reason = plan[n].reason
        /\ new.applied = cache[n].status.applied
    BY <1>2 DEF Statuses
  <1>4. Patch(n, new, plan[n].retry)
    BY DEF Report
  <1> HIDE DEF new
  <1>5. plan[n].reason # "Reconciled"
    BY <1>1 DEF Agreed, InTouch
  <1>6. CASE Refused(n, new)
    <2>1. SameServer(n) /\ n \in queue'
      BY <1>3, <1>4, <1>6, PatchNoticed
    <2>2. Still(n)
      BY <1>1, <2>1 DEF Still, Shown, worker, keys, secrets
    <2>3. QED
      BY <1>1, <2>1, <2>2, AgreedEnds
  <1>7. CASE ~Refused(n, new)
    <2>1. Noticed(n, new)
      BY <1>3, <1>4, <1>7, PatchNoticed
    <2>2. /\ api'[n].exists = api[n].exists /\ api'[n].uid = api[n].uid
          /\ api'[n].deleting = api[n].deleting
          /\ api'[n].status.applied = api[n].status.applied
          /\ api'[n].status.reason = "Reconciled" => api[n].status.reason = "Reconciled"
      BY <1>1, <1>3, <1>5, <2>1 DEF Noted, Noticed
    <2>3. /\ RecordedIds(api'[n]) = RecordedIds(api[n])
          /\ Works(api'[n]) => Works(api[n])
          /\ Alive(api'[n]) = Alive(api[n])
      BY <2>2 DEF RecordedIds, Works, HasRef, Alive
    <2>4. secret'[n] = secret[n] /\ Shown(n)' = Shown(n)
      BY <1>1 DEF worker, keys, secrets, Shown
    <2>5. Backed(n)' = Backed(n) /\ KeysKept(n)' = KeysKept(n) /\ Dead(n)' = Dead(n)
      BY <2>2, <2>3, <2>4 DEF Backed, KeysKept, Dead
    <2>6. Current(n)' /\ (watch[n] # {} => watch'[n] # {})
      BY <2>1, CurrentKeeps DEF Noticed, Agreed, InTouch
    <2>7. InTouch(n)'
      BY <1>1, <2>6 DEF InTouch, StaticSteps, PCs, Deleting, Ensuring, Reading
    <2>8. Numberless(n)'
      BY <1>1 DEF Numberless
    <2>9. Behind(n)'
      BY <1>1, <2>3, <2>4, <2>5 DEF Agreed, Behind, Ensuring
    <2>10. Mismatch(n)' = Mismatch(n)
      BY <2>3, <2>5 DEF Mismatch
    <2>11. Mismatch(n)' /\ api'[n].status.reason = "Reconciled" => Due(n)'
      <3>1. watch[n] = {} /\ api[n].exists => api'[n].status.reason # "Reconciled"
        BY <1>3, <1>5, <2>1, <2>2 DEF Noticed, Agreed, InTouch, Current
      <3>2. QED
        BY <2>6, <2>10, <3>1 DEF Mismatch, Alive, Due
    <2>12. Matching(n)'
      BY <1>1, <2>5, <2>10, <2>11 DEF Agreed, Matching
    <2>13. QED
      BY <2>7, <2>8, <2>9, <2>12 DEF Agreed
  <1>8. QED
    BY <1>6, <1>7

-------------------------------------------------------------------------------
(* The other steps keep the agreement. *)

LEMMA AgreedAddFinalizer ==
    ASSUME Base, NEW n \in CloudPrincipalAuths, Agreed(n), AddFinalizer(n)
    PROVE  Agreed(n)'
  <1> USE TypeParts DEF Base
  <1>1. pc[n] = "addFinalizer" /\ UNCHANGED <<cache, worker>>
    BY AddFinalizerFacts
  <1>2. CASE ~Accepts(api[n], obj[n])
    <2>1. SameServer(n) /\ pc'[n] = "idle" /\ n \in queue'
      BY <1>1, <1>2, FinishQueue, Pieces DEF AddFinalizer, Claim, SameServer
    <2>2. Still(n)
      BY <1>1, <2>1 DEF Still, Shown, worker, keys, secrets
    <2>3. QED
      BY <2>1, <2>2, AgreedEnds
  <1>3. CASE Accepts(api[n], obj[n])
    <2> DEFINE o == FinalizerAdded(api[n])
    <2>1. /\ Commit(n, o) /\ pc'[n] = "check" /\ obj'[n] = o
      BY <1>3, Pieces DEF AddFinalizer, Claim, ReconcilerTypes
    <2>2. o.status = api[n].status /\ o.uid = api[n].uid /\ o.rv = api[n].rv + 1
          /\ o.exists = api[n].exists /\ o.deleting = api[n].deleting
      BY KnownTypes DEF FinalizerAdded, Objects, Versions
    <2> HIDE DEF o
    <2>3. api'[n] = o /\ watch'[n] = watch[n] \union {o}
      BY <2>1, CommitFacts
    <2>4. /\ RecordedIds(o) = RecordedIds(api[n]) /\ Works(o) = Works(api[n])
          /\ Alive(o) = Alive(api[n])
      BY <2>2 DEF RecordedIds, Works, HasRef, Alive
    <2>5. secret'[n] = secret[n] /\ Shown(n)' = Shown(n)
      BY <1>1 DEF worker, keys, secrets, Shown
    <2>6. Backed(n)' = Backed(n) /\ KeysKept(n)' = KeysKept(n) /\ Dead(n)' = Dead(n)
      BY <2>2, <2>3, <2>4, <2>5 DEF Backed, KeysKept, Dead
    <2>7. Current(n)'
      BY <1>1, <2>2, <2>3, CurrentKeeps DEF Committed, Agreed, InTouch
    <2>8. InTouch(n)'
      BY <2>1, <2>3, <2>7 DEF InTouch, StaticSteps, PCs, Deleting, Ensuring, Reading
    <2>9. Numberless(n)'
      BY <2>1 DEF Numberless
    <2>10. Behind(n)'
      BY <2>1, <2>3, <2>4, <2>5, <2>6 DEF Agreed, Behind
    <2>11. Mismatch(n)' = Mismatch(n)
      BY <2>3, <2>4, <2>6 DEF Mismatch
    <2>12. Matching(n)'
      BY <2>1, <2>6, <2>11 DEF Agreed, Matching, Due
    <2>13. QED
      BY <2>8, <2>9, <2>10, <2>12 DEF Agreed
  <1>4. QED
    BY <1>2, <1>3

LEMMA AgreedCheck ==
    ASSUME Base, NEW n \in CloudPrincipalAuths, Agreed(n), Check(n) \/ ReachQuota(n)
    PROVE  Agreed(n)'
  <1> USE TypeParts DEF Base
  <1>1. SameServer(n) /\ obj'[n] = obj[n] /\ UNCHANGED worker
    BY Pieces DEF Check, ReachQuota
  <1>2. Still(n)
    BY <1>1 DEF Still, Shown, worker, keys, secrets
  <1>3. Obstacle(obj[n]) # "Reconciled"
    BY DEF Obstacle
  <1>4. \A reason, retry : Reporting(n, reason, retry) => plan'[n].reason = reason
    BY DEF Reporting, ReconcilerTypes
  <1>5. \/ pc[n] = "check" /\ pc'[n] = "get"
        \/ pc[n] \in {"check", "create"} /\ pc'[n] = "report" /\ plan'[n].reason # "Reconciled"
    BY <1>3, <1>4, Pieces DEF Check, ReachQuota
  <1>6. QED
    BY <1>1, <1>2, <1>5, AgreedMoves

LEMMA AgreedDropKey ==
    ASSUME Base, NEW n \in CloudPrincipalAuths, Agreed(n), DropKey(n)
    PROVE  Agreed(n)'
  <1>1. /\ SameServer(n) /\ UNCHANGED secrets /\ pc'[n] = "idle" /\ Forgotten(n)
    BY DropKeyFacts
  <1>2. Still(n)
    BY <1>1 DEF Still, Shown, secrets, Forgotten
  <1>3. n \in queue'
    BY FinishQueue DEF DropKey
  <1>4. QED
    BY <1>1, <1>2, <1>3, AgreedEnds, TypeParts DEF Base

\* A resource that was marked, or is gone, is not alive.
LEMMA AgreedNotAlive ==
    ASSUME ReconcilerTypes, NEW n \in CloudPrincipalAuths, Agreed(n),
           SameServer(n) \/ (Committed(n) /\ cache'[n] = cache[n]),
           pc'[n] = "idle", secret'[n] = secret[n], ~Alive(api'[n])
    PROVE  Agreed(n)'
  <1>1. Current(n)'
    BY CurrentKeeps DEF Agreed, InTouch
  <1>2. InTouch(n)'
    BY <1>1 DEF InTouch, StaticSteps, PCs, Deleting, Ensuring, Reading
  <1>3. Numberless(n)'
    BY DEF Numberless
  <1>4. Behind(n)'
    BY DEF Agreed, Behind, Ensuring
  <1>5. Matching(n)'
    BY DEF Matching, Mismatch
  <1>6. QED
    BY <1>2, <1>3, <1>4, <1>5 DEF Agreed

LEMMA AgreedDeleteSelf ==
    ASSUME Base, NEW n \in CloudPrincipalAuths, Agreed(n), DeleteSelf(n)
    PROVE  Agreed(n)'
  <1> USE TypeParts DEF Base
  <1>1. UNCHANGED <<cache, worker>> /\ pc'[n] = "idle"
    BY DeleteSelfFacts
  <1>2. secret'[n] = secret[n]
    BY <1>1 DEF worker, secrets
  <1>3. CASE api[n].exists /\ ~api[n].deleting
    <2> DEFINE o == DeletionRequested(api[n])
    <2>1. Commit(n, o)
      BY <1>3 DEF DeleteSelf
    <2>2. ~Alive(o) /\ o.rv = api[n].rv + 1
      BY KnownTypes DEF DeletionRequested, Gone, Objects, Versions, Alive
    <2> HIDE DEF o
    <2>3. api'[n] = o /\ watch'[n] = watch[n] \union {o}
      BY <2>1, CommitFacts
    <2>4. Committed(n) /\ ~Alive(api'[n]) /\ cache'[n] = cache[n]
      BY <1>1, <2>2, <2>3 DEF Committed
    <2>5. QED
      BY <1>1, <1>2, <2>4, AgreedNotAlive
  <1>4. CASE ~(api[n].exists /\ ~api[n].deleting)
    <2>1. SameServer(n)
      BY <1>1, <1>4 DEF DeleteSelf, SameServer
    <2>2. ~Alive(api'[n])
      BY <1>4, <2>1 DEF SameServer, Alive
    <2>3. QED
      BY <1>1, <1>2, <2>1, <2>2, AgreedNotAlive
  <1>5. QED
    BY <1>3, <1>4

LEMMA AgreedDeletion ==
    ASSUME Base, NEW n \in CloudPrincipalAuths, IsStatic(obj[n]), Agreed(n),
           PrepareDelete(n) \/ Disown(n) \/ DeleteKey(n) \/ RemoveFinalizer(n)
    PROVE  Agreed(n)'
  <1> USE TypeParts DEF Base
  <1>1. ~secret[n].exists => secret[n].key = 0
    BY DEF Agreed, Behind
  <1>2. CASE PrepareDelete(n)
    <2>1. /\ SameServer(n) /\ UNCHANGED worker /\ pc[n] = "prepareDelete"
          /\ pc'[n] \in {"idle", "report", "deleteKey", "disown", "release"}
      BY <1>2, PrepareDeleteFacts
    <2>2. pc'[n] = "report" => plan'[n].reason # "Reconciled"
      <3>1. \A reason, retry : Reporting(n, reason, retry) => plan'[n].reason = reason
        BY DEF Reporting, ReconcilerTypes
      <3>2. FirstDeletionStep(obj[n]) # "report"
        BY DEF FirstDeletionStep
      <3>3. QED
        BY <1>2, <3>1, <3>2, Pieces DEF PrepareDelete
    <2>3. secret'[n] = secret[n]
      BY <2>1 DEF worker, secrets
    <2>4. QED
      BY <1>1, <2>1, <2>2, <2>3, AgreedDeleting DEF Deleting
  <1>3. CASE DeleteKey(n)
    <2>1. /\ SameServer(n) /\ UNCHANGED secrets /\ pc[n] = "deleteKey" /\ pc'[n] = "release"
      BY <1>3, DeleteKeyFacts, Pieces DEF DeleteKey
    <2>2. secret'[n] = secret[n]
      BY <2>1 DEF secrets
    <2>3. QED
      BY <1>1, <2>1, <2>2, AgreedDeleting DEF Deleting
  <1>4. CASE Disown(n)
    <2>1. SameServer(n) /\ pc[n] = "disown" /\ pc'[n] \in {"idle", "release"}
      BY <1>4, DisownFacts
    <2>2. ~secret'[n].exists => secret'[n].key = 0
      <3>1. secret[n] \in Secrets /\ (UNCHANGED secrets => secret'[n] = secret[n])
            /\ \A s : WriteSecret(n, s) => secret'[n] = s
        BY DEF SecretsTypes, secrets, WriteSecret
      <3>2. LET s == [secret[n] EXCEPT !.owner = 0]
            IN  s.exists = secret[n].exists /\ s.key = secret[n].key
        BY <3>1 DEF Secrets
      <3>3. QED
        BY <1>1, <1>4, <3>1, <3>2 DEF Disown
    <2>3. QED
      BY <2>1, <2>2, AgreedDeleting DEF Deleting
  <1>5. CASE RemoveFinalizer(n)
    <2>1. /\ UNCHANGED <<cache, worker>> /\ pc[n] = "release" /\ pc'[n] = "idle"
          /\ SameServer(n) \/ (Committed(n) /\ ~api'[n].exists)
      BY <1>5, RemoveFinalizerFacts DEF Recommitted
    <2>2. api[n].deleting
      BY <2>1 DEF Agreed, InTouch, Deleting
    <2>3. ~Alive(api'[n])
      BY <2>1, <2>2 DEF SameServer, Alive
    <2>4. secret'[n] = secret[n] /\ cache'[n] = cache[n]
      BY <2>1 DEF worker, secrets
    <2>5. QED
      BY <2>1, <2>3, <2>4, AgreedNotAlive
  <1>6. QED
    BY <1>2, <1>3, <1>4, <1>5

-------------------------------------------------------------------------------
(* The agreement is inductive as long as nothing fails and no Secret is late.  *)

LEMMA AgreedReconcile ==
    ASSUME Base, NEW n \in CloudPrincipalAuths, Kind(n), Claims(n), Agreed(n),
           setting.method = "StaticCredentials", Reconcile(n),
           Prompt', setting' = setting, budget.lags <= setting.lags
    PROVE  Agreed(n)'
  <1>1. pc[n] \in StaticSteps /\ pc[n] # "idle"
    BY Working DEF Agreed, InTouch
  <1>2. IsStatic(obj[n])
    BY <1>1 DEF Kind, IsStatic
  <1>3. CASE AddFinalizer(n) \/ Check(n) \/ ReachQuota(n) \/ DeleteSelf(n) \/ Get(n)
             \/ CreateKey(n)
    BY <1>2, <1>3, AgreedAddFinalizer, AgreedCheck, AgreedDeleteSelf, AgreedGet,
       AgreedCreateKey
  <1>4. CASE StoreKey(n) \/ Settle(n) \/ DropKey(n)
    BY <1>4, AgreedStoreKey, AgreedSettle, AgreedDropKey
  <1>5. CASE PatchConclusion(n) \/ RecordKey(n) \/ Report(n)
    BY <1>5, AgreedPatchConclusion, AgreedRecordKey, AgreedReport
  <1>6. CASE PrepareDelete(n) \/ Disown(n) \/ DeleteKey(n) \/ RemoveFinalizer(n)
    BY <1>2, <1>6, AgreedDeletion
  <1>7. ~(Bind(n) \/ FindServiceAccount(n) \/ Annotate(n) \/ Unannotate(n) \/ Note(n))
    BY <1>1, <1>2 DEF StaticSteps, Bind, FindServiceAccount, Annotate, Unannotate, Note
  <1>8. QED
    BY <1>3, <1>4, <1>5, <1>6, <1>7 DEF Reconcile

LEMMA AgreedStep ==
    ASSUME Base, NEW n \in CloudPrincipalAuths, Kind(n), Claims(n), Agreed(n),
           setting.method = "StaticCredentials", StepOf(n),
           ~ApiCallFails(n), ~CloudCallFails(n),
           Prompt', setting' = setting, budget.lags <= setting.lags
    PROVE  Agreed(n)'
  <1>1. CASE User(n)
    BY <1>1, AgreedUser, AgreedCreate
  <1>2. CASE Age(n) \/ Deliver(n) \/ DeliverSecret(n) \/ CollectGarbage(n)
    BY <1>2, AgreedNature
  <1>3. CASE Start(n)
    BY <1>3, AgreedStart
  <1>4. CASE Reconcile(n)
    BY <1>4, AgreedReconcile
  <1>5. QED
    BY <1>1, <1>2, <1>3, <1>4 DEF StepOf

LEMMA AgreedUntouched ==
    ASSUME NEW n \in CloudPrincipalAuths, Agreed(n), Untouched(n),
           n \in queue => n \in queue', plan'[n] = plan[n]
    PROVE  Agreed(n)'
  <1>1. Weaker(n)
    BY DEF Agreed, Behind, Untouched, Weaker
  <1>2. Kept(n)
    BY DEF Untouched, Kept, Alive
  <1>3. Current(n)' /\ Known(n)' = Known(n)
    BY DEF Agreed, InTouch, Current, Known, Untouched
  <1>4. Informed(n)
    BY <1>3 DEF Informed, Untouched
  <1>5. Shown(n)' \subseteq Shown(n)
    BY DEF Shown, Untouched
  <1>6. QED
    BY <1>1, <1>2, <1>4, <1>5, AgreedQuiet DEF Untouched

\* Failures are counted.
LEMMA SpendsFaults ==
    ASSUME BudgetTypes, NEW n \in CloudPrincipalAuths
    PROVE  /\ SpendEdit \/ ReadSecret(n) \/ UNCHANGED budget \/ CreateKey(n)
              => budget'.faults <= budget.faults
           /\ SpendFault => budget'.faults < budget.faults
           /\ CloudCallFails(n) => budget'.faults < budget.faults
  <1>1. /\ budget \in [edits: Nat, faults: Nat, lags: Nat, keys: Nat]
        /\ budget.faults \in Nat
    BY DEF BudgetTypes
  <1>2. SpendEdit => budget'.faults <= budget.faults
    BY <1>1 DEF SpendEdit
  <1>3. ReadSecret(n) => budget'.faults <= budget.faults
    BY <1>1 DEF ReadSecret
  <1>4. ASSUME CreateKey(n) PROVE budget'.faults <= budget.faults
    <2>1. budget'.faults = budget.faults
      BY <1>1, <1>4 DEF CreateKey, BudgetTypes
    <2>2. QED
      BY <1>1, <2>1
  <1>5. UNCHANGED budget => budget'.faults <= budget.faults
    BY <1>1
  <1>6. SpendFault => budget'.faults < budget.faults
    BY <1>1 DEF SpendFault
  <1>7. SUFFICES ASSUME CloudCallFails(n) PROVE budget'.faults < budget.faults
    BY <1>2, <1>3, <1>4, <1>5, <1>6
  <1>8. budget'.faults = budget.faults - 1
    BY <1>1, <1>7 DEF CloudCallFails, BudgetTypes
  <1>9. QED
    BY <1>1, <1>8

LEMMA FaultsStep ==
    ASSUME Base, [Next]_vars, NEW m \in CloudPrincipalAuths
    PROVE  /\ budget.faults \in Nat /\ budget'.faults \in Nat
           /\ budget'.faults <= budget.faults
           /\ ApiCallFails(m) \/ CloudCallFails(m) \/ Crash => budget'.faults < budget.faults
  <1>1. BudgetTypes /\ BudgetTypes'
    BY TypesStep, TypeParts, TypePartsNext DEF Base
  <1>2. budget.faults \in Nat /\ budget'.faults \in Nat
    BY <1>1 DEF BudgetTypes
  <1>3. ApiCallFails(m) \/ CloudCallFails(m) \/ Crash => budget'.faults < budget.faults
    BY <1>1, SpendsFaults DEF ApiCallFails, Crash
  <1>4. ASSUME NEW n \in CloudPrincipalAuths, StepOf(n)
        PROVE  budget'.faults <= budget.faults
    <2>1. CASE User(n)
      BY <1>1, <1>2, <2>1, SpendsFaults
         DEF User, Create, Post, EditSpec, Put, RequestDeletion, Delete, TamperWithSecret,
             ServiceAccountChanges
    <2>2. CASE Age(n) \/ Deliver(n) \/ DeliverSecret(n) \/ CollectGarbage(n) \/ Start(n)
      BY <1>1, <1>2, <2>2, SpendsFaults
         DEF Age, Deliver, DeliverSecret, CollectGarbage, Start
    <2>3. CASE ApiCallFails(n) \/ CloudCallFails(n)
      <3>1. budget'.faults < budget.faults
        BY <1>1, <2>3, SpendsFaults DEF ApiCallFails
      <3>2. QED
        BY <1>2, <3>1
    <2>4. CASE CreateKey(n) \/ StoreKey(n) \/ Settle(n) \/ Disown(n)
      BY <1>1, <1>2, <2>4, SpendsFaults DEF StoreKey, Settle, Disown
    <2>5. CASE Reconcile(n) /\ ~(CreateKey(n) \/ StoreKey(n) \/ Settle(n) \/ Disown(n))
      BY <1>1, <1>2, <2>5, SpendsFaults
         DEF Reconcile, AddFinalizer, Check, DeleteSelf, Get, ReachQuota, Bind,
             FindServiceAccount, Annotate, DropKey, PatchConclusion, RecordKey, Report,
             PrepareDelete, DeleteKey, Unannotate, Note, RemoveFinalizer
    <2>6. QED
      BY <1>4, <2>1, <2>2, <2>3, <2>4, <2>5 DEF StepOf
  <1>5. ASSUME PrincipalChanges \/ ProviderChanges \/ UNCHANGED vars
        PROVE  budget'.faults <= budget.faults
    <2>1. SpendEdit \/ UNCHANGED budget
      BY <1>5 DEF PrincipalChanges, ProviderChanges, vars
    <2>2. QED
      BY <1>1, <2>1, SpendsFaults
  <1>6. budget'.faults <= budget.faults
    BY <1>2, <1>3, <1>4, <1>5, NextSteps
  <1>7. QED
    BY <1>2, <1>3, <1>6

\* The invariant beside Inv and Retention.
Agreement ==
    /\ budget.faults <= setting.faults
    /\ setting.method = "StaticCredentials" /\ Undisturbed =>
         \A n \in CloudPrincipalAuths : Agreed(n)

LEMMA AgreementInit == Init => Agreement
  <1> SUFFICES ASSUME Init PROVE Agreement
    OBVIOUS
  <1>1. budget.faults = setting.faults /\ setting.faults \in Nat
    BY ConstantsAssumption DEF Init
  <1>2. ASSUME NEW n \in CloudPrincipalAuths PROVE Agreed(n)
    <2>1. PICK s \in [CloudPrincipalAuths -> SpecsOfSetting] :
            api = [m \in CloudPrincipalAuths |-> Created(NoObject, s[m], NoStatus)]
      BY DEF Init
    <2>2. api[n].uid = 1 /\ api[n].exists /\ api[n].status = NoStatus
      BY <2>1 DEF Created, NoObject, NeverCreated
    <2>3. pc[n] = "idle" /\ watch[n] = {} /\ cache[n] = api[n]
      BY DEF Init
    <2>4. secret[n].owner = 0 /\ secret[n].key = 0
      BY DEF Init, NoSecret, ForeignSecret
    <2>5. ~Works(api[n])
      BY <2>2 DEF Works, HasRef, NoStatus
    <2>6. ~Mismatch(n)
      BY <2>2, <2>4 DEF Mismatch, KeysKept
    <2>7. InTouch(n)
      BY <2>3 DEF InTouch, Current, StaticSteps, PCs, Deleting, Ensuring, Reading
    <2>8. Numberless(n)
      BY <2>3 DEF Numberless
    <2>9. Behind(n)
      BY <2>3, <2>4, <2>5 DEF Behind, Ensuring
    <2>10. Matching(n)
      BY <2>3, <2>6 DEF Matching
    <2>11. QED
      BY <2>7, <2>8, <2>9, <2>10 DEF Agreed
  <1>3. QED
    BY <1>1, <1>2 DEF Agreement

LEMMA AgreementStep == Inv /\ Retention /\ Agreement /\ [Next]_vars => Agreement'
  <1> SUFFICES ASSUME Inv, Retention, Agreement, [Next]_vars PROVE Agreement'
    OBVIOUS
  <1>1. /\ Base /\ budget.lags <= setting.lags
        /\ \A n \in CloudPrincipalAuths : Claims(n) /\ Kind(n)
    BY DEF Inv, Retention, Retained
  <1>2. /\ setting' = setting /\ budget'.lags \in Nat /\ budget'.lags <= budget.lags
        /\ budget.lags \in Nat /\ setting.lags \in Nat /\ setting.faults \in Nat
    BY <1>1, BudgetStep, TypeParts, SettingFacts DEF Base, BudgetTypes
  <1>3. CASE CloudPrincipalAuths = {}
    <2>1. budget'.faults <= budget.faults /\ budget.faults \in Nat /\ budget'.faults \in Nat
      <3>1. BudgetTypes /\ BudgetTypes'
        BY <1>1, TypesStep, TypeParts, TypePartsNext DEF Base
      <3>2. budget' = budget \/ SpendEdit \/ SpendFault
        BY <1>3, NextSteps DEF PrincipalChanges, ProviderChanges, Crash, vars
      <3>3. QED
        BY <3>1, <3>2 DEF BudgetTypes, SpendEdit, SpendFault
    <2>2. QED
      BY <1>2, <1>3, <2>1 DEF Agreement
  <1>4. CASE CloudPrincipalAuths # {}
    <2>1. PICK k \in CloudPrincipalAuths : TRUE
      BY <1>4
    <2>2. /\ budget.faults \in Nat /\ budget'.faults \in Nat
          /\ budget'.faults <= budget.faults
      BY <1>1, <2>1, FaultsStep
    <2>3. budget'.faults <= setting'.faults
      BY <1>2, <2>2 DEF Agreement
    <2>4. Undisturbed' => Undisturbed /\ Prompt' /\ budget'.faults = budget.faults
      BY <1>1, <1>2, <2>2 DEF Undisturbed, Prompt, Agreement
    <2>5. ASSUME setting.method = "StaticCredentials", Undisturbed',
                 NEW m \in CloudPrincipalAuths
          PROVE  Agreed(m)'
      <3>1. Prompt' /\ \A n \in CloudPrincipalAuths : Agreed(n)
        BY <2>4, <2>5 DEF Agreement
      <3>2. ~Crash /\ \A n \in CloudPrincipalAuths : ~ApiCallFails(n) /\ ~CloudCallFails(n)
        <4>1. ASSUME NEW n \in CloudPrincipalAuths
              PROVE  ~Crash /\ ~ApiCallFails(n) /\ ~CloudCallFails(n)
          BY <1>1, <2>2, <2>4, <2>5, FaultsStep
        <4>2. QED
          BY <2>1, <4>1
      <3>3. ASSUME NEW n \in CloudPrincipalAuths, StepOf(n) PROVE Agreed(m)'
        <4>1. CASE m = n
          BY <1>1, <1>2, <2>5, <3>1, <3>2, <3>3, <4>1, AgreedStep
        <4>2. CASE m # n
          <5>1. Untouched(m)
            BY <1>1, <3>3, <4>2, OthersKeep DEF Base
          <5>2. (m \in queue => m \in queue') /\ plan'[m] = plan[m]
            BY <1>1, <3>2, <3>3, <4>2, QueueOthers, TypeParts DEF Base
          <5>3. QED
            BY <3>1, <5>1, <5>2, AgreedUntouched
        <4>3. QED
          BY <4>1, <4>2
      <3>4. CASE PrincipalChanges \/ ProviderChanges \/ UNCHANGED vars
        <4>1. Untouched(m)
          BY <3>4, EnvironmentKeeps
        <4>2. (m \in queue => m \in queue') /\ plan' = plan
          BY <3>4, QueueQuiet DEF vars
        <4>3. QED
          BY <3>1, <4>1, <4>2, AgreedUntouched
      <3>5. QED
        BY <3>2, <3>3, <3>4, NextSteps
    <2>6. QED
      BY <1>2, <2>3, <2>5 DEF Agreement
  <1>5. QED
    BY <1>3, <1>4

LEMMA AgreedAtRest ==
    ASSUME NEW n \in CloudPrincipalAuths, Agreed(n), Ready(n), AtRest(n), secret[n].key # 0
    PROVE  secret[n].key \in RecordedIds(api[n])
  <1>1. Alive(api[n]) /\ Works(api[n])
    BY DEF Ready, Alive, Works
  <1>2. secret[n].exists /\ Backed(n)
    BY <1>1 DEF Agreed, Behind
  <1>3. KeysKept(n) = {secret[n].key}
    BY <1>2 DEF Backed, KeysKept
  <1>4. ~Due(n)
    BY DEF AtRest, Due
  <1>5. ~Mismatch(n)
    BY <1>4 DEF Agreed, Matching, Ready
  <1>6. QED
    BY <1>1, <1>3, <1>5 DEF Mismatch

\* While nothing fails and the informer of Secrets keeps up, a Ready resource that is left in
\* peace has in its Secret the data of the key that its status records: whatever users do to
\* the resource and to the Secret, however old the version of the resource is that a patch
\* starts from, and though gcp may not show a key that was made just now.
THEOREM SecretHoldsKey == Spec => []SecretHoldsRecordedKeyUndisturbed
  <1>1. Inv /\ Retention /\ Agreement => SecretHoldsRecordedKeyUndisturbed
    <2> SUFFICES ASSUME Inv, Retention, Agreement, Undisturbed,
                        NEW n \in CloudPrincipalAuths,
                        Ready(n), AtRest(n), IsStatic(api[n]), secret[n].key # 0
                 PROVE  secret[n].key \in RecordedIds(api[n])
      BY DEF SecretHoldsRecordedKeyUndisturbed, SecretHoldsRecordedKey
    <2>1. setting.method = "StaticCredentials"
      BY DEF Retention, Retained, Kind, IsStatic
    <2>2. QED
      BY <2>1, AgreedAtRest DEF Agreement
  <1>2. QED
    BY <1>1, AgreementInit, AgreementStep, RetentionInit, RetentionStep, Invariance, PTL
       DEF Spec
===============================================================================
