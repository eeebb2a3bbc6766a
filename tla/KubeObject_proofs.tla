--------------------------- MODULE KubeObject_proofs ---------------------------
(***************************************************************************)
(* What the versions of one custom resource tell about each other, however *)
(* many of them are under way between the API server and the informer.     *)
(***************************************************************************)
EXTENDS KubeObject, TLAPS

\* Between two versions of one object.
Precedes(v, w) ==
    /\ v.gen <= w.gen
    /\ v.gen = w.gen => v.spec = w.spec /\ v.deleting = w.deleting
    /\ v.deleting => w.deleting

\* A name may be used again: the versions of the objects that had it follow each
\* other, and a uid is the resourceVersion at which its object was created.
Orderly(vs) ==
    \A v, w \in vs :
      /\ v.uid <= v.rv
      /\ v.rv <= w.rv => \/ v.uid = w.uid /\ Precedes(v, w)
                         \/ v.uid # w.uid /\ v.rv < w.uid

\* What the API server makes of the last version a.
Succeeds(o, a) ==
    /\ o.rv = a.rv + 1
    /\ \/ o.uid = o.rv
       \/ o.uid = a.uid /\ Precedes(a, o)

\* Each write of the API server makes a successor.
LEMMA WritesSucceed ==
    ASSUME NEW Specs, NEW Statuses, NEW a \in Versions(Specs, Statuses),
           NEW s, NEW t
    PROVE  /\ Succeeds(Created(a, s, t), a)
           /\ Succeeds(SpecEdited(a, s), a)
           /\ Succeeds(StatusWritten(a, t), a)
           /\ Succeeds(FinalizerAdded(a), a)
           /\ Succeeds(Gone(a), a)
           /\ Succeeds(DeletionRequested(a), a)
  <1> USE DEF Versions, Succeeds, Precedes
  <1>1. Succeeds(Created(a, s, t), a)
    BY DEF Created
  <1>2. Succeeds(SpecEdited(a, s), a)
    BY DEF SpecEdited
  <1>3. Succeeds(StatusWritten(a, t), a)
    BY DEF StatusWritten
  <1>4. Succeeds(FinalizerAdded(a), a)
    BY DEF FinalizerAdded
  <1>5. Succeeds(Gone(a), a)
    BY DEF Gone
  <1>6. Succeeds(DeletionRequested(a), a)
    <2>1. CASE a.finalizer
      <3> DEFINE o == [a EXCEPT !.rv = @ + 1, !.gen = @ + 1, !.deleting = TRUE]
      <3>1. /\ o.rv = a.rv + 1 /\ o.uid = a.uid
            /\ o.gen = a.gen + 1 /\ o.deleting
        OBVIOUS
      <3>2. a.gen \in Nat
        OBVIOUS
      <3> HIDE DEF o
      <3>3. Succeeds(o, a)
        <4>1. a.gen <= o.gen /\ a.gen # o.gen
          BY <3>1, <3>2
        <4>2. Precedes(a, o)
          BY <3>1, <4>1
        <4>3. QED
          BY <3>1, <4>2
      <3>4. QED
        BY <2>1, <3>3 DEF DeletionRequested, o
    <2>2. CASE ~a.finalizer
      BY <1>5, <2>2 DEF DeletionRequested
    <2>3. QED
      BY <2>1, <2>2
  <1>7. QED
    BY <1>1, <1>2, <1>3, <1>4, <1>5, <1>6

\* A successor of the last version keeps the order.
LEMMA OrderlyGrows ==
    ASSUME NEW Specs, NEW Statuses,
           NEW vs \in SUBSET Versions(Specs, Statuses), Orderly(vs),
           NEW a \in vs, \A v \in vs : v.rv <= a.rv,
           NEW o \in Versions(Specs, Statuses), Succeeds(o, a)
    PROVE  Orderly(vs \union {o})
  <1>1. \A v \in vs \union {o} : v.rv \in Nat /\ v.uid \in Nat /\ v.gen \in Nat
    BY DEF Versions
  <1>2. o.uid <= o.rv
    BY <1>1 DEF Orderly, Succeeds
  <1>3. ASSUME NEW v \in vs
        PROVE  /\ v.rv < o.rv
               /\ \/ v.uid = o.uid /\ Precedes(v, o)
                  \/ v.uid # o.uid /\ v.rv < o.uid
    <2>1. v.rv < o.rv /\ v.uid <= v.rv
      BY <1>1 DEF Orderly, Succeeds
    <2>2. CASE o.uid = o.rv
      BY <1>1, <2>1, <2>2
    <2>3. CASE o.uid = a.uid /\ Precedes(a, o)
      <3>1. v.rv <= a.rv
        BY <1>3
      <3>2. \/ v.uid = a.uid /\ Precedes(v, a)
            \/ v.uid # a.uid /\ v.rv < a.uid
        BY <3>1 DEF Orderly
      <3>3. CASE v.uid = a.uid /\ Precedes(v, a)
        <4>1. Precedes(v, o)
          BY <1>1, <2>3, <3>3 DEF Precedes
        <4>2. QED
          BY <2>1, <2>3, <3>3, <4>1
      <3>4. CASE v.uid # a.uid /\ v.rv < a.uid
        BY <2>1, <2>3, <3>4
      <3>5. QED
        BY <3>2, <3>3, <3>4
    <2>4. QED
      BY <2>1, <2>2, <2>3 DEF Succeeds
  <1>4. Precedes(o, o)
    BY <1>1 DEF Precedes
  <1>5. ASSUME NEW v \in vs \union {o}, NEW w \in vs \union {o}
        PROVE  /\ v.uid <= v.rv
               /\ v.rv <= w.rv => \/ v.uid = w.uid /\ Precedes(v, w)
                                  \/ v.uid # w.uid /\ v.rv < w.uid
    <2>1. CASE v \in vs /\ w \in vs
      BY <2>1 DEF Orderly
    <2>2. CASE v \in vs /\ w = o
      BY <1>3, <2>2 DEF Orderly
    <2>3. CASE v = o /\ w \in vs
      BY <1>1, <1>2, <1>3, <2>3
    <2>4. CASE v = o /\ w = o
      BY <1>2, <1>4, <2>4
    <2>5. QED
      BY <2>1, <2>2, <2>3, <2>4
  <1>6. QED
    BY <1>5 DEF Orderly

-------------------------------------------------------------------------------
(* What a reconciler may rely on, with a the server's version of its resource, *)
(* c the cached one and ws those in between.  Readiness is the condition with  *)
(* the reason "Reconciled" in the status.                                      *)

Claimed(v) == v.exists /\ v.finalizer

Reported(v) == v.exists /\ v.status.reason = "Reconciled"

\* The informer is behind, but for a claimed resource it shows the same object, and
\* of a reported one no generation before the reported.
Followed(a, c, ws) ==
    /\ Orderly({a, c} \union ws)
    /\ Claimed(a) => c.uid = a.uid
    /\ Reported(a) => a.finalizer /\ a.status.gen <= c.gen

\* A reconcile that works on o is at what is asked for, or else somebody has edited
\* the resource, and it is not reported ready for what it is now.
Current(a, c, o) ==
    /\ o.gen <= c.gen
    /\ o.gen = a.gen => o.spec = a.spec
    /\ Reported(a) => a.status.gen <= o.gen

Past(a, c, ws) ==
    \A v \in {c} \union ws : v.rv <= a.rv

\* Versions of resources with a status that has a generation.
LEMMA VersionFields ==
    ASSUME NEW Specs, NEW Statuses, NEW v \in Versions(Specs, Statuses)
    PROVE  /\ v.rv \in Nat /\ v.uid \in Nat /\ v.gen \in Nat
           /\ v.exists \in BOOLEAN /\ v.finalizer \in BOOLEAN /\ v.deleting \in BOOLEAN
           /\ v.spec \in Specs /\ v.status \in Statuses
  BY DEF Versions

LEMMA OrderlyParts ==
    ASSUME NEW vs, NEW ws \in SUBSET vs, Orderly(vs)
    PROVE  Orderly(ws)
  BY DEF Orderly

\* The cached version of a claimed resource comes before the server's.
LEMMA CachedPrecedes ==
    ASSUME NEW a, NEW c, NEW ws, Followed(a, c, ws), Past(a, c, ws), Claimed(a)
    PROVE  Precedes(c, a)
  BY DEF Followed, Past, Orderly

\* A write: it claims nothing the informer does not show, and reports nothing newer than
\* that.
LEMMA FollowedWrites ==
    ASSUME NEW Specs, NEW Statuses,
           NEW a \in Versions(Specs, Statuses), NEW c \in Versions(Specs, Statuses),
           NEW o \in Versions(Specs, Statuses),
           NEW ws \in SUBSET Versions(Specs, Statuses),
           Followed(a, c, ws), Past(a, c, ws), Succeeds(o, a),
           Claimed(o) => c.uid = o.uid,
           Reported(o) => o.finalizer /\ o.status.gen <= c.gen
    PROVE  Followed(o, c, ws \union {o})
  <1> DEFINE vs == {a, c} \union ws
  <1>1. /\ vs \in SUBSET Versions(Specs, Statuses) /\ Orderly(vs) /\ a \in vs
        /\ \A v \in vs : v.rv <= a.rv
    BY VersionFields DEF Followed, Past
  <1>2. Orderly(vs \union {o})
    <2> HIDE DEF vs
    <2> QED
      BY <1>1, OrderlyGrows
  <1>3. Orderly({o, c} \union (ws \union {o}))
    BY <1>2, OrderlyParts
  <1>4. QED
    BY <1>3 DEF Followed

\* A write that edits, marks, or reports no more than the worker is at, leaves the worker
\* current.
LEMMA CurrentWrites ==
    ASSUME NEW Specs, NEW Statuses,
           NEW a \in Versions(Specs, Statuses), NEW c \in Versions(Specs, Statuses),
           NEW b \in Versions(Specs, Statuses), NEW o \in Versions(Specs, Statuses),
           NEW ws, Followed(a, c, ws), Past(a, c, ws), Claimed(a), Current(a, c, o),
           (b.gen = a.gen /\ b.spec = a.spec) \/ b.gen = a.gen + 1,
           Reported(b) => b.status.gen <= o.gen
    PROVE  Current(b, c, o)
  <1>1. c.gen <= a.gen
    BY CachedPrecedes DEF Precedes
  <1>2. a.gen \in Nat /\ b.gen \in Nat /\ c.gen \in Nat /\ o.gen \in Nat
    BY VersionFields
  <1>3. QED
    BY <1>1, <1>2 DEF Current

\* The informer shows the next version.
LEMMA FollowedDelivers ==
    ASSUME NEW Specs, NEW Statuses,
           NEW a \in Versions(Specs, Statuses), NEW c \in Versions(Specs, Statuses),
           NEW ws \in SUBSET Versions(Specs, Statuses), NEW v \in ws,
           \A s \in Statuses : s.gen \in Nat,
           Followed(a, c, ws), Past(a, c, ws), c.rv <= v.rv
    PROVE  /\ Followed(a, v, ws \ {v})
           /\ Claimed(a) => c.gen <= v.gen
  <1>1. /\ a.rv \in Nat /\ a.uid \in Nat /\ a.gen \in Nat /\ a.status.gen \in Nat
        /\ c.rv \in Nat /\ c.uid \in Nat /\ c.gen \in Nat
        /\ v.rv \in Nat /\ v.uid \in Nat /\ v.gen \in Nat
    BY VersionFields
  <1>2. Orderly({a, v} \union (ws \ {v}))
    BY OrderlyParts DEF Followed
  <1>3. /\ c.uid <= c.rv /\ v.rv <= a.rv
        /\ v.uid = a.uid \/ v.rv < a.uid
        /\ c.uid = v.uid => c.gen <= v.gen
    BY DEF Followed, Orderly, Past, Precedes
  <1>4. Claimed(a) => v.uid = a.uid /\ c.gen <= v.gen
    BY <1>1, <1>3 DEF Followed
  <1>5. Reported(a) => a.finalizer /\ a.status.gen <= v.gen
    BY <1>1, <1>4 DEF Followed, Claimed, Reported
  <1>6. QED
    BY <1>2, <1>4, <1>5 DEF Followed

\* A new informer shows what there is.
LEMMA FollowedRelists ==
    ASSUME NEW Specs, NEW Statuses,
           NEW a \in Versions(Specs, Statuses), NEW c \in Versions(Specs, Statuses),
           NEW ws \in SUBSET Versions(Specs, Statuses),
           \A s \in Statuses : s.gen \in Nat,
           Followed(a, c, ws), Past(a, c, ws)
    PROVE  Followed(a, a, {})
  <1>1. a.gen \in Nat /\ a.status.gen \in Nat /\ c.gen \in Nat
    BY VersionFields
  <1>2. Orderly({a, a} \union {})
    BY OrderlyParts DEF Followed
  <1>3. Reported(a) => a.finalizer /\ a.status.gen <= a.gen
    <2>1. Reported(a) => Claimed(a) /\ a.status.gen <= c.gen
      BY DEF Followed, Claimed, Reported
    <2>2. Claimed(a) => c.gen <= a.gen
      BY CachedPrecedes DEF Precedes
    <2>3. QED
      BY <1>1, <2>1, <2>2 DEF Claimed
  <1>4. QED
    BY <1>2, <1>3 DEF Followed

\* A reconcile starts from what the informer shows.
LEMMA CurrentStarts ==
    ASSUME NEW Specs, NEW Statuses,
           NEW a \in Versions(Specs, Statuses), NEW c \in Versions(Specs, Statuses),
           NEW ws, Followed(a, c, ws), Past(a, c, ws), Claimed(a)
    PROVE  /\ Current(a, c, c)
           /\ c.deleting => a.deleting
           /\ c.gen = a.gen => c.deleting = a.deleting
  <1>1. Precedes(c, a)
    BY CachedPrecedes
  <1>2. c.gen \in Nat
    BY VersionFields
  <1>3. QED
    BY <1>1, <1>2 DEF Precedes, Current, Followed
===============================================================================
