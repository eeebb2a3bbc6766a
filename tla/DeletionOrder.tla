----------------------------- MODULE DeletionOrder -----------------------------
(***************************************************************************)
(* The controllers together, and the order in which the resources go: a    *)
(* ProviderConfig waits for its Buckets and CloudPrincipals, these wait    *)
(* for the BucketAccess resources that refer to them, and those delete     *)
(* themselves when what they refer to is going.                            *)
(*                                                                         *)
(* The ProviderConfig controller is ProviderConfig in full.  Of each other *)
(* controller this module keeps when it starts to work for a resource,     *)
(* with a provider made from the ProviderConfig of that moment, and when   *)
(* it is done; its own steps are in Bucket, CloudPrincipal, BucketAccess.  *)
(* All resources are under deletionPolicy Delete.                          *)
(***************************************************************************)
EXTENDS ProviderConfig

CONSTANTS
    TargetsOf,  \* the Buckets and CloudPrincipals each resource refers to
    Existing    \* resources that are there when the operator starts

ASSUME TargetsAssumption ==
    /\ TargetsOf \in [Resources -> SUBSET Roots]
    /\ \A r \in Roots : TargetsOf[r] = {}
    /\ \A r \in Accesses :
         TargetsOf[r] # {} /\ \A t \in TargetsOf[r] : ConfigOf[t] = ConfigOf[r]
    /\ Existing \subseteq Resources

VARIABLES
    res,      \* each resource in the API server
    at,       \* where its controller stands: idle, or at work with a provider
    promised  \* history: what was made when its ProviderConfig's deletion was asked

resourceVars == <<res, seen, at, promised>>

vars == <<configVars, budget, secret, resourceVars>>

TypeOK ==
    /\ ConfigTypeOK
    /\ res \in [Resources -> Copies]
    /\ at \in [Resources -> {"idle", "ensure", "destroy"}]
    /\ promised \subseteq Resources

\* The operator starts on resources some of which may exist already.
Init ==
    /\ ConfigInit
    /\ res \in [Resources -> {[uid |-> 0, phase |-> "absent", made |-> FALSE],
                              [uid |-> 1, phase |-> "live", made |-> FALSE]}]
    /\ \A r \in Existing : res[r].phase = "live"
    /\ seen = res
    /\ at = [r \in Resources |-> "idle"]
    /\ promised = {}

-------------------------------------------------------------------------------
(* Users. *)

UserOfConfig(c) ==
    \/ (CreateConfig(c) \/ EditConfig(c)) /\ UNCHANGED <<secret, resourceVars>>
    \/ /\ DeleteConfig(c)
       /\ promised' = IF api[c].finalizer
                        THEN promised \union {r \in Resources : ConfigOf[r] = c /\ res[r].made}
                        ELSE promised
       /\ UNCHANGED <<secret, res, seen, at>>

Create(r) ==
    /\ res[r].phase = "absent"
    /\ res' = [res EXCEPT ![r] = [uid |-> @.uid + 1, phase |-> "live", made |-> FALSE]]
    /\ SpendEdit
    /\ UNCHANGED <<configVars, secret, seen, at, promised>>

Left(r) == [res[r] EXCEPT !.phase = "absent", !.made = FALSE]

\* One that does not have its finalizer yet goes at once.
RequestDeletion(r) ==
    /\ res[r].phase = "live"
    /\ \/ res' = [res EXCEPT ![r].phase = "deleting"]
       \/ /\ ~res[r].made /\ at[r] = "idle"
          /\ res' = [res EXCEPT ![r] = Left(r)]
    /\ SpendEdit
    /\ UNCHANGED <<configVars, secret, seen, at, promised>>

-------------------------------------------------------------------------------
(* The informer: a resource created anew is shown after the one that went.     *)

InformOfResource(r) ==
    /\ seen[r] # res[r]
    /\ seen' = [seen EXCEPT ![r] =
                  IF res[r].uid # seen[r].uid /\ seen[r].phase # "absent"
                    THEN [@ EXCEPT !.phase = "absent", !.made = FALSE]
                    ELSE res[r]]
    /\ UNCHANGED <<configVars, budget, secret, res, at, promised>>

-------------------------------------------------------------------------------
(* The controllers of the resources. *)

\* What a controller that goes around the cache, as CloudPrincipalAuth does, reads
\* of a resource.
ReadFromServer(r) == res[r]

\* Resolve: these controllers read the cache.
Read(r) == seen[r]

\* What it read is still this resource: else its Update is refused.
StillThis(r) == Read(r).uid = res[r].uid /\ res[r].phase # "absent"

TargetGoing(r) == \E t \in TargetsOf[r] : seen[t].phase = "deleting"

TargetsReady(r) == \A t \in TargetsOf[r] : seen[t].phase = "live" /\ seen[t].made

\* prepareBucket and prepareCloudPrincipal find one going: the resource asks for
\* its own deletion.
DeleteSelf(r) ==
    /\ at[r] = "idle" /\ StillThis(r) /\ Read(r).phase = "live"
    /\ TargetGoing(r)
    /\ res[r].phase = "live"
    /\ res' = [res EXCEPT ![r].phase = "deleting"]
    /\ UNCHANGED <<seen, at, promised>>

StartEnsure(r) ==
    /\ at[r] = "idle" /\ StillThis(r) /\ Read(r).phase = "live" /\ ~res[r].made
    /\ TargetsReady(r)
    /\ Prepared(ConfigOf[r])
    /\ at' = [at EXCEPT ![r] = "ensure"]
    /\ UNCHANGED <<res, seen, promised>>

FinishEnsure(r) ==
    /\ at[r] = "ensure"
    /\ res' = [res EXCEPT ![r].made = TRUE]
    /\ at' = [at EXCEPT ![r] = "idle"]
    /\ UNCHANGED <<seen, promised>>

\* A list that counts only the accesses that are granted.
ReferencedByGranted(r) == \E q \in Accesses : r \in TargetsOf[q] /\ seen[q].made

\* IsReferenced of a Bucket or a CloudPrincipal.
Referenced(r) == \E q \in Accesses : r \in TargetsOf[q] /\ seen[q].phase # "absent"

\* An access that was never made needs no provider to go.
ReleaseUnmade(r) ==
    /\ r \in Accesses
    /\ at[r] = "idle" /\ StillThis(r) /\ Read(r).phase = "deleting" /\ ~Read(r).made
    /\ Read(r).made = res[r].made
    /\ res' = [res EXCEPT ![r] = Left(r)]
    /\ promised' = promised \ {r}
    /\ UNCHANGED <<seen, at>>

\* A Bucket or a CloudPrincipal needs one even then.
StartDestroy(r) ==
    /\ at[r] = "idle" /\ StillThis(r) /\ Read(r).phase = "deleting"
    /\ r \in Accesses => Read(r).made
    /\ ~Referenced(r)
    /\ Prepared(ConfigOf[r])
    /\ at' = [at EXCEPT ![r] = "destroy"]
    /\ UNCHANGED <<res, seen, promised>>

\* A finalizer that goes before what it guards.
FinishDestroyUndone(r) ==
    /\ at[r] = "destroy"
    /\ res' = [res EXCEPT ![r].phase = "absent"]
    /\ at' = [at EXCEPT ![r] = "idle"]
    /\ promised' = promised \ {r}
    /\ UNCHANGED seen

FinishDestroy(r) ==
    /\ at[r] = "destroy"
    /\ res' = [res EXCEPT ![r] = Left(r)]
    /\ at' = [at EXCEPT ![r] = "idle"]
    /\ promised' = promised \ {r}
    /\ UNCHANGED seen

Work(r) ==
    /\ \/ DeleteSelf(r) \/ StartEnsure(r) \/ FinishEnsure(r)
       \/ ReleaseUnmade(r) \/ StartDestroy(r) \/ FinishDestroy(r)
    /\ UNCHANGED <<configVars, budget, secret>>

\* The cloud, or the status patch, fails: another reconcile starts over.
WorkFails(r) ==
    /\ at[r] # "idle"
    /\ at' = [at EXCEPT ![r] = "idle"]
    /\ SpendFault
    /\ UNCHANGED <<configVars, secret, res, seen, promised>>

Crash ==
    /\ Restart
    /\ seen' = res
    /\ at' = [r \in Resources |-> "idle"]
    /\ SpendFault
    /\ UNCHANGED <<secret, res, promised>>

-------------------------------------------------------------------------------

Deliver(c) == Inform(c) /\ UNCHANGED <<budget, secret, resourceVars>>

Start(c) == Begin(c, cache[c]) /\ UNCHANGED <<budget, secret, resourceVars>>

Reconcile(c) == ReconcileConfig(c) /\ UNCHANGED <<budget, secret, resourceVars>>

Next ==
    \/ \E c \in Configs :
         \/ UserOfConfig(c) \/ Deliver(c) \/ Start(c) \/ Reconcile(c)
         \/ ConfigCallFails(c) /\ UNCHANGED <<secret, resourceVars>>
    \/ SecretChanges /\ UNCHANGED resourceVars
    \/ \E r \in Resources :
         \/ Create(r) \/ RequestDeletion(r) \/ InformOfResource(r)
         \/ Work(r) \/ WorkFails(r)
    \/ Crash

Spec == Init /\ [][Next]_vars

\* Informers, workers and queues make progress; the requeues and the watches that
\* make the other controllers look again are in their own modules.
Fairness ==
    /\ \A c \in Configs :
         WF_vars(Deliver(c)) /\ SF_vars(Start(c)) /\ WF_vars(Reconcile(c))
    /\ \A r \in Resources : WF_vars(InformOfResource(r)) /\ WF_vars(Work(r))

FairSpec == Spec /\ Fairness

-------------------------------------------------------------------------------
(* Properties. *)

\* No access is in the cloud for a Bucket or a CloudPrincipal that is gone: each
\* of them reads the list of accesses from the cache the access itself was read
\* from, so that either the list shows it, or it finds its target going.
AccessesHaveTargets ==
    \A r \in Accesses : res[r].made =>
        \A t \in TargetsOf[r] : res[t].phase # "absent"

\* A ProviderConfig that counts as Ready, so that things are made with it, has a
\* spec that was found valid, holds its finalizer, and is not asked to go: no late
\* report stands for a later generation or for a later object of the name.
ReadyMeansFit ==
    \A c \in Configs :
      api[c].exists /\ IsReady(api[c])
      => api[c].spec.valid /\ api[c].finalizer /\ ~api[c].deleting

\* A ProviderConfig does not go before what was made with it when its deletion
\* was requested, for nothing else could delete it.
NothingStranded ==
    \A r \in promised : api[ConfigOf[r]].exists

\* The controllers together keep the promise of DeletionProtocol: what an access
\* is for is made before it and unmade after it, and a ProviderConfig goes after
\* what was made with it when its deletion was asked for.
Protocol == INSTANCE DeletionProtocol WITH
    open <- {c \in Configs : api[c].exists},
    closing <- {c \in Configs : api[c].exists /\ api[c].deleting},
    made <- {r \in Resources : res[r].made}

KeepsDeletionProtocol == Protocol!Spec

\* Left alone, the Ready condition of a ProviderConfig says what its spec and its
\* Secret are worth.
Verdict(c) ==
    CASE ~FactoryWorks(api[c].spec) -> "ProviderConfigError"
      [] FactoryWorks(api[c].spec) /\ ~api[c].spec.valid -> "InvalidSpec"
      [] OTHER -> "Reconciled"

Converges ==
    <>[](\A c \in Configs :
           api[c].exists /\ ~api[c].deleting
           => api[c].status = [reason |-> Verdict(c), gen |-> api[c].gen])

\* Nobody waits for everybody: with a Secret that works, resources under deletion
\* all go, if their ProviderConfig is there to delete them, whatever else is going
\* too; and so does a ProviderConfig no Bucket or CloudPrincipal needs any more.
DeletionCompletes ==
    <>[](/\ \A r \in Resources :
              LET c == ConfigOf[r]
              IN  res[r].phase = "deleting" =>
                    \/ ~api[c].exists
                    \/ ~FactoryWorks(api[c].spec)
                    \/ ~api[c].deleting /\ Verdict(c) # "Reconciled"
         /\ \A c \in Configs :
              api[c].exists /\ api[c].deleting =>
                \E r \in Roots :
                  /\ ConfigOf[r] = c
                  /\ \/ res[r].phase = "live"
                     \/ res[r].phase = "deleting" /\ ~FactoryWorks(api[c].spec))
===============================================================================
