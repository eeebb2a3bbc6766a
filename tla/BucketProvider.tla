---------------------------- MODULE BucketProvider ----------------------------
(***************************************************************************)
(* What a provider makes of a Bucket: admission by its capabilities and    *)
(* its validation, EnsureBucket, which compares the settings of the bucket *)
(* with the spec and patches what differs, and DeleteBucket.               *)
(*                                                                         *)
(* internal/cloud/gcp/bucket.go, bucket_api.go and normalization.go,       *)
(* internal/cloud/yc/bucket.go and bucket_api.go, BucketPatch and the      *)
(* capabilities of internal/cloud/provider.go, internal/capabilities and   *)
(* internal/validation.  The module Bucket has the controller that calls   *)
(* this, with the API server between its steps; here a reconcile works on  *)
(* the spec as it is.                                                      *)
(***************************************************************************)
EXTENDS BucketDeletion

CONSTANTS
    Clouds,     \* provider types of this instance
    Locations,  \* spec.location
    Region,     \* the ProviderConfig's region
    Asked,      \* for each cloud, the specs that users write
    MaxEdits    \* bound: edits of the spec

-------------------------------------------------------------------------------
(* Data.  A rule's age, when it has one, is one value: no code computes with   *)
(* it.  "unset" is a field the user or the cloud leaves out.                   *)

Rules == [aged: BOOLEAN, enabled: BOOLEAN, named: BOOLEAN]

\* A pointer to a list of rules, nil, empty or not.  A list is the set of its rules:
\* each conversion keeps or drops every rule on its own.  Left out with the order is
\* the patch after an edit that changes nothing else.
Lifecycles ==
    {[set |-> FALSE, rules |-> {}]} \union [set: {TRUE}, rules: SUBSET Rules]

Switch == {"unset", "on", "off"}

\* soft: cloudSpecificConfig with the gcp block, for the default or another
\* retention of deleted objects, or with the yc block, which is empty.
BucketSpecs ==
    [location: Locations, class: {"Standard", "Cold", "Ice", "Warm"},
     labels: {"none", "some"}, versioning: Switch, pap: Switch,
     lifecycle: Lifecycles, soft: {"unset", "default", "other", "ycBlock"}]

ASSUME ProviderAssumption ==
    /\ Clouds \subseteq {"gcp", "yc"}
    /\ Region \in Locations
    /\ Asked \in [Clouds -> SUBSET BucketSpecs]
    /\ MaxEdits \in Nat

VARIABLES
    spec,      \* the Bucket's spec
    settings,  \* of the bucket in the cloud, as the cloud has them
    outcome,   \* of the last reconcile of this spec: none, refused, ready, error
    deleting,  \* deletion was requested
    edits      \* how many edits are left

providerVars == <<spec, settings, outcome, deleting, edits>>

vars == <<deletionVars, providerVars>>

-------------------------------------------------------------------------------
(* Admission. *)

Unsupported(s) ==
    \/ cloud = "yc" /\ (s.pap # "unset" \/ s.class = "Warm")
    \/ cloud = "gcp" /\ \E r \in s.lifecycle.rules : r.named

\* ValidateCloudSpecificConfig.  No validation compares the location with the
\* region of the ProviderConfig.
Invalid(s) == s.soft \in IF cloud = "gcp" THEN {"ycBlock"} ELSE {"default", "other"}

Admitted == {s \in Asked[cloud] : ~Unsupported(s) /\ ~Invalid(s)}

-------------------------------------------------------------------------------
(* Conversions: what the user asks for, what the cloud has, and the form in     *)
(* which EnsureBucket compares the two.                                        *)

Active(r) == r.aged /\ r.enabled

\* normalizedBucketVersioning, -PAP, -Lifecycle and -CloudSpecific of gcp.
Normalized(s) ==
    [s EXCEPT !.versioning = IF @ = "unset" THEN "off" ELSE @,
              !.pap = IF @ = "unset" THEN "off" ELSE @,
              !.lifecycle = [set |-> TRUE, rules |-> {r \in @.rules : r.enabled}],
              !.soft = IF @ = "unset" THEN "default" ELSE @]

\* A provider that compares what the user wrote, on either cloud.
AsWritten(s) == s

\* What EnsureBucket wants to find.
Desired(s) == IF cloud = "gcp" THEN Normalized(s) ELSE s

\* toGCSLifeCycle and toYcLifecycle leave out what has no age.
ToCloudLifecycle(l) ==
    [set |-> TRUE,
     rules |-> {r \in l.rules : IF cloud = "yc" THEN r.aged ELSE Active(r)}]

\* toGCSBucketAttrs and toCreateBucketRequest.  The location of a yc bucket is the
\* region of the ProviderConfig, and neither PAP nor soft delete is known there.
ToCloud(s) ==
    [s EXCEPT !.location = IF cloud = "yc" THEN Region ELSE @,
              !.lifecycle = ToCloudLifecycle(@),
              !.soft = IF cloud = "yc" THEN "unset" ELSE @]

\* fromGCSBucketAttrs and fromYcBucket: an empty list of rules reads as nil on yc.
FromCloud(c) ==
    [c EXCEPT !.lifecycle.set = cloud = "gcp" \/ c.lifecycle.rules # {}]

Compared ==
    {"class", "labels", "versioning", "lifecycle"}
    \union IF cloud = "gcp" THEN {"pap", "soft"} ELSE {}

\* A comparison that forgets the lifecycle.
DifferingButLifecycle(s) ==
    {f \in Compared \ {"lifecycle"} : FromCloud(settings)[f] # Desired(s)[f]}

\* The fields BucketPatch sets.
Differing(s) == {f \in Compared : FromCloud(settings)[f] # Desired(s)[f]}

\* An update without a field mask: what does not differ is lost.
PatchedOnly(s) == [f \in Differing(s) |-> ToCloud(Desired(s))[f]]

\* patchGCSBucketAttrs and patchYcBucketAttrs; yc cannot turn versioning off again
\* and suspends it.
Patched(s) ==
    LET new == ToCloud(Desired(s))
        suspended == cloud = "yc" /\ new.versioning = "unset"
    IN [f \in DOMAIN settings |->
          CASE f \notin Differing(s) -> settings[f]
            [] f \in Differing(s) /\ f = "versioning" /\ suspended -> "off"
            [] OTHER -> new[f]]

-------------------------------------------------------------------------------

TypeOK ==
    /\ DeletionTypeOK
    /\ pc \in DeletionPCs \union {"idle", "get", "create", "update"}
    /\ spec \in Asked[cloud]
    /\ settings \in BucketSpecs
    /\ outcome \in {"none", "refused", "ready", "error"}
    /\ deleting \in BOOLEAN
    /\ edits \in Nat

\* The bucket may be there already, as another spec would have it.
Init ==
    /\ cloud \in Clouds
    /\ spec \in Asked[cloud]
    /\ \E s \in Admitted : settings = ToCloud(Desired(s))
    /\ DeletionInit
    /\ outcome = "none" /\ deleting = FALSE /\ edits = MaxEdits

-------------------------------------------------------------------------------
(* Users.  Bucket has the edits that come in the middle of a reconcile. *)

EditSpec ==
    /\ pc = "idle" /\ ~deleting
    /\ edits > 0 /\ edits' = edits - 1
    /\ spec' \in Asked[cloud] \ {spec}
    /\ outcome' = "none"
    /\ UNCHANGED <<deletionVars, settings, deleting>>

RequestDeletion ==
    /\ pc = "idle" /\ ~deleting
    /\ deleting' = TRUE
    /\ UNCHANGED <<deletionVars, spec, settings, outcome, edits>>

-------------------------------------------------------------------------------
(* EnsureBucket. *)

Goto(step) ==
    /\ pc' = step
    /\ UNCHANGED <<cloud, objects, session, listing, pool, failed, result, writes, deleting,
                   spec, edits>>

Outcome(o) == outcome' = o /\ Goto("idle")

\* ValidateBucketCapabilities and ValidateBucketSpec come first.
Admit ==
    /\ pc = "idle" /\ ~deleting
    /\ \/ spec \notin Admitted /\ Outcome("refused")
       \/ spec \in Admitted /\ Goto("get") /\ UNCHANGED outcome
    /\ UNCHANGED <<bucket, settings, faults>>

Get ==
    /\ pc = "get"
    /\ \/ bucket = "absent" /\ Goto("create") /\ UNCHANGED outcome
       \/ /\ bucket = "there" /\ settings.location # spec.location
          /\ Outcome("error")
       \/ /\ bucket = "there" /\ settings.location = spec.location
          /\ Differing(spec) = {}
          /\ Outcome("ready")
       \/ /\ bucket = "there" /\ settings.location = spec.location
          /\ Differing(spec) # {}
          /\ Goto("update") /\ UNCHANGED outcome
    /\ UNCHANGED <<bucket, settings, faults>>

Create ==
    /\ pc = "create"
    /\ bucket' = "there" /\ settings' = ToCloud(Desired(spec))
    /\ Outcome("ready")
    /\ UNCHANGED faults

Update ==
    /\ pc = "update"
    /\ settings' = Patched(spec)
    /\ Outcome("ready")
    /\ UNCHANGED <<bucket, faults>>

\* A call fails, with or without effect.
EnsureFails ==
    /\ \/ pc = "get" /\ UNCHANGED <<bucket, settings>>
       \/ pc = "create" /\ \/ UNCHANGED <<bucket, settings>>
                           \/ bucket' = "there" /\ settings' = ToCloud(Desired(spec))
       \/ pc = "update" /\ settings' \in {settings, Patched(spec)} /\ UNCHANGED bucket
    /\ Outcome("error")
    /\ SpendFault

\* DeleteBucket, until the bucket is gone and the resource with it.
Delete ==
    /\ deleting /\ result # "ok"
    /\ BeginDeletion
    /\ UNCHANGED providerVars

Ensure == Admit \/ Get \/ Create \/ Update

Next ==
    \/ EditSpec \/ RequestDeletion
    \/ Ensure \/ EnsureFails
    \/ Delete
    \/ DeletionNext /\ UNCHANGED providerVars

Spec == Init /\ [][Next]_vars

\* The goroutine of a reconcile and the workers make progress, and a reconcile
\* that failed is tried again.
Fairness ==
    /\ WF_vars(Ensure) /\ WF_vars(Delete)
    /\ WF_vars(Goroutine /\ UNCHANGED providerVars)
    /\ WF_vars(Pool /\ UNCHANGED providerVars)

FairSpec == Spec /\ Fairness

-------------------------------------------------------------------------------
(* Properties. *)

Effect(l) == {r \in l.rules : Active(r)}

\* A spec that was reconciled is in force in the cloud: what a user left out is at
\* its default, and rules that are off or have no age have no effect.
ReadyMeansInForce ==
    outcome = "ready" /\ ~deleting =>
      /\ bucket = "there"
      /\ settings.class = spec.class /\ settings.labels = spec.labels
      /\ settings.versioning = "on" <=> spec.versioning = "on"
      /\ settings.pap = "on" <=> spec.pap = "on"
      /\ settings.soft = "other" <=> spec.soft = "other"
      /\ Effect(settings.lifecycle) = Effect(spec.lifecycle)

\* Specs each cloud can give back as they are written.
Expressible(s) ==
    /\ \A r \in s.lifecycle.rules : r.aged
    /\ cloud = "yc" => /\ s.lifecycle.set => s.lifecycle.rules # {}
                       /\ s.versioning = "unset" => settings.versioning = "unset"

\* A spec that is in force is left alone: the next reconcile of it makes no change.
LeavesAloneWhatIsInForce ==
    [][outcome = "ready" /\ Expressible(spec) => pc' # "update"]_vars

\* "Every bucket must set `location`.  The provider's `region` is not used as a
\* fallback."  So a spec that was reconciled in its location is reconciled there
\* again, whatever the region: a Ready bucket fails only when a call does.
LocationIsTheSpecs ==
    [][outcome = "ready" /\ outcome' = "error" => faults' < faults]_vars

\* Once deletion was requested the bucket goes, whatever was in it and however many
\* calls fail: nobody waits for a slot that is not given back.
DeletionEmpties == deleting ~> bucket = "absent"
===============================================================================
