--------------------------- MODULE FinalizerProtocol ---------------------------
(***************************************************************************)
(* What every reconciler of this operator promises about the things it     *)
(* makes in the cloud: access bindings, buckets, service accounts, keys.   *)
(*                                                                         *)
(* A resource is claimed while the controller's finalizer is on it.  The   *)
(* controller makes things only for a claimed resource, records what it    *)
(* made in the status of a claimed resource, and drops the claim only when *)
(* nothing recorded is left in the cloud or the resource's deletionPolicy  *)
(* keeps it.  Making and recording are separate steps, in any order with   *)
(* failures in between: a thing made and never recorded is outside the     *)
(* promise.                                                                *)
(***************************************************************************)
CONSTANTS Names,   \* resources
          Things   \* what can be made in the cloud

VARIABLES claimed,   \* resources that carry the finalizer
          owned,     \* what is in the cloud on behalf of each resource
          recorded,  \* what the status of each resource says is there
          kept       \* resources whose deletionPolicy is Retain

vars == <<claimed, owned, recorded, kept>>

Init ==
    /\ claimed = {}
    /\ owned = [n \in Names |-> {}]
    /\ recorded = [n \in Names |-> {}]
    /\ kept \in SUBSET Names

\* The user creates the resource, again perhaps, or edits it before the
\* controller has seen it.
Renew(n) ==
    /\ n \notin claimed
    /\ recorded' = [recorded EXCEPT ![n] = {}]
    /\ kept' \in {kept \union {n}, kept \ {n}}
    /\ UNCHANGED <<claimed, owned>>

Claim(n) ==
    /\ n \notin claimed
    /\ recorded[n] = {}
    /\ claimed' = claimed \union {n}
    /\ UNCHANGED <<owned, recorded, kept>>

ChangePolicy(n) ==
    /\ n \in claimed
    /\ kept' \in {kept \union {n}, kept \ {n}}
    /\ UNCHANGED <<claimed, owned, recorded>>

Make(n) ==
    /\ n \in claimed
    /\ \E t \in Things : owned' = [owned EXCEPT ![n] = @ \union {t}]
    /\ UNCHANGED <<claimed, recorded, kept>>

Unmake(n) ==
    /\ \E s \in SUBSET owned[n] : owned' = [owned EXCEPT ![n] = s]
    /\ UNCHANGED <<claimed, recorded, kept>>

Record(n) ==
    /\ n \in claimed
    /\ \E s \in SUBSET Things : recorded' = [recorded EXCEPT ![n] = s]
    /\ UNCHANGED <<claimed, owned, kept>>

Release(n) ==
    /\ n \in claimed
    /\ n \in kept \/ recorded[n] \intersect owned[n] = {}
    /\ claimed' = claimed \ {n}
    /\ UNCHANGED <<owned, recorded, kept>>

Next ==
    \E n \in Names :
      \/ Renew(n) \/ Claim(n) \/ ChangePolicy(n) \/ Make(n)
      \/ Unmake(n) \/ Record(n) \/ Release(n)

Spec == Init /\ [][Next]_vars
===============================================================================
