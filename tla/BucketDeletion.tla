---------------------------- MODULE BucketDeletion ----------------------------
(***************************************************************************)
(* DeleteBucket: a bucket is emptied by a pool of workers and then         *)
(* deleted.                                                                *)
(*                                                                         *)
(* One goroutine lists the objects.  For each it takes a slot of a         *)
(* semaphore and submits a task to the pool; a worker that is done with    *)
(* its task gives the slot back.  After the listing the goroutine waits    *)
(* for the pool, and deletes the bucket if nothing failed.  A Yandex       *)
(* session makes a temporary S3 key before it lists, and Cleanup deletes   *)
(* that key when the reconcile returns.                                    *)
(*                                                                         *)
(* DeleteBucket of internal/cloud/gcp/bucket.go and yc/bucket.go; the      *)
(* object and session calls of gcp/bucket_api.go, yc/bucket_api.go,        *)
(* yc/helpers.go, yc/provider.go and aws/bucket_api.go.                    *)
(***************************************************************************)
EXTENDS Integers, FiniteSets

CONSTANTS
    Objects,    \* object versions
    Workers,    \* size of the pool (32 in the code)
    Capacity,   \* slots of the semaphore (2000 in the code)
    MaxWrites,  \* bound: objects that applications write
    MaxFaults   \* bound: failed calls and crashes

ASSUME DeletionAssumption ==
    /\ IsFiniteSet(Objects)
    /\ Workers \in Nat \ {0} /\ Capacity \in Nat \ {0}
    /\ MaxWrites \in Nat /\ MaxFaults \in Nat

VARIABLES
    cloud,     \* the provider's type
    bucket,    \* the bucket of the cloud
    objects,   \* the object versions in it
    key,       \* the session's temporary key: none, live, or dead in the cloud
    lost,      \* temporary keys in the cloud that no session knows of
    pc,        \* where the goroutine of the reconcile stands
    unlisted,  \* object versions the listing has still to show
    shown,     \* history: those it has shown to this call
    sem,       \* slots of the semaphore that are taken
    waiting,   \* tasks submitted and not started
    running,   \* tasks a worker is at
    failed,    \* the listing or a task of this call has failed
    result,    \* what the last DeleteBucket returned
    writes, faults  \* how many writes and faults are left

session == <<key, lost>>
listing == <<unlisted, shown>>
pool == <<sem, waiting, running>>

deletionVars ==
    <<cloud, bucket, objects, session, pc, listing, pool, failed, result, writes, faults>>

DeletionPCs == {"open", "list", "stopWait", "deleteBucket", "cleanup"}

DeletionTypeOK ==
    /\ cloud \in {"gcp", "yc"}
    /\ bucket \in {"absent", "there"}
    /\ objects \subseteq Objects /\ (bucket = "absent" => objects = {})
    /\ key \in {"none", "live", "dead"}
    /\ lost \in Nat
    /\ unlisted \subseteq Objects /\ shown \subseteq Objects
    /\ sem \in Nat
    /\ waiting \subseteq Objects /\ running \subseteq Objects
    /\ failed \in BOOLEAN
    /\ result \in {"none", "ok", "error"}
    /\ writes \in Nat /\ faults \in Nat

DeletionInit ==
    /\ bucket \in {"absent", "there"}
    /\ objects \in SUBSET Objects /\ (bucket = "absent" => objects = {})
    /\ key = "none" /\ lost = 0
    /\ pc = "idle"
    /\ unlisted = {} /\ shown = {}
    /\ sem = 0 /\ waiting = {} /\ running = {}
    /\ failed = FALSE /\ result = "none"
    /\ writes = MaxWrites /\ faults = MaxFaults

SpendFault == faults > 0 /\ faults' = faults - 1

-------------------------------------------------------------------------------
(* The bucket is in use: a listing in progress may or may not show what is     *)
(* written meanwhile.  Versions are never written twice.                       *)

WriteObject ==
    /\ writes > 0 /\ writes' = writes - 1
    /\ bucket = "there"
    /\ \E o \in Objects \ (objects \union shown) :
         /\ objects' = objects \union {o}
         /\ unlisted' \in IF pc = "list" THEN {unlisted, unlisted \union {o}} ELSE {unlisted}
    /\ UNCHANGED <<cloud, bucket, session, pc, shown, pool, failed, result, faults>>

-------------------------------------------------------------------------------
(* The goroutine that runs the reconcile. *)

Listing == pc' = "list" /\ unlisted' = objects

BeginDeletion ==
    /\ pc = "idle"
    /\ result' = "none" /\ failed' = FALSE /\ shown' = {}
    /\ \/ cloud = "gcp" /\ Listing
       \/ cloud = "yc" /\ pc' = "open" /\ UNCHANGED unlisted
    /\ UNCHANGED <<cloud, bucket, objects, session, pool, writes, faults>>

\* newAWSAPI: a key, and a client that uses it.
OpenSession ==
    /\ pc = "open"
    /\ key' = "live"
    /\ Listing
    /\ UNCHANGED <<cloud, bucket, objects, lost, shown, pool, failed, result, writes, faults>>

\* Creating the key fails, with or without effect; or making the client does, and
\* the key is deleted again.  The session forgets it if that is answered.
OpenFails ==
    /\ pc = "open"
    /\ \/ key' = "none" /\ lost' \in {lost, lost + 1}
       \/ key' \in {"live", "dead"} /\ UNCHANGED lost
    /\ failed' = TRUE
    /\ pc' = "stopWait"
    /\ SpendFault
    /\ UNCHANGED <<cloud, bucket, objects, listing, pool, result, writes>>

\* ProcessObjects shows an object: "sem <- struct{}{}" waits for a slot, Submit does
\* not wait.
ListNext ==
    /\ pc = "list" /\ bucket = "there"
    /\ sem < Capacity
    /\ \E o \in unlisted :
         /\ sem' = sem + 1
         /\ waiting' = waiting \union {o}
         /\ unlisted' = unlisted \ {o}
         /\ shown' = shown \union {o}
    /\ UNCHANGED <<cloud, bucket, objects, session, pc, running, failed, result, writes, faults>>

ListEnds ==
    /\ pc = "list"
    /\ \/ bucket = "there" /\ unlisted = {} /\ UNCHANGED failed
       \/ bucket = "absent" /\ failed' = TRUE
    /\ pc' = "stopWait"
    /\ UNCHANGED <<cloud, bucket, objects, session, listing, pool, result, writes, faults>>

ListFails ==
    /\ pc = "list"
    /\ failed' = TRUE
    /\ pc' = "stopWait"
    /\ SpendFault
    /\ UNCHANGED <<cloud, bucket, objects, session, listing, pool, result, writes>>

\* Where the call goes after the pool: the first error is its result.
AfterPool ==
    IF failed THEN pc' = "cleanup" /\ result' = "error"
              ELSE pc' = "deleteBucket" /\ UNCHANGED result

\* A pool that is told to stop and not waited for.
StopOnly ==
    /\ pc = "stopWait"
    /\ AfterPool
    /\ UNCHANGED <<cloud, bucket, objects, session, listing, pool, failed, writes, faults>>

StopWait ==
    /\ pc = "stopWait"
    /\ waiting = {} /\ running = {}
    /\ AfterPool
    /\ UNCHANGED <<cloud, bucket, objects, session, listing, pool, failed, writes, faults>>

\* The cloud refuses to delete a bucket that is not empty; one that is not there
\* counts as deleted.
DeleteEmptyBucket ==
    /\ pc = "deleteBucket"
    /\ \/ objects = {} /\ bucket' = "absent" /\ result' = "ok"
       \/ objects # {} /\ result' = "error" /\ UNCHANGED bucket
    /\ pc' = "cleanup"
    /\ UNCHANGED <<cloud, objects, session, listing, pool, failed, writes, faults>>

DeleteBucketFails ==
    /\ pc = "deleteBucket"
    /\ bucket' \in {bucket} \union {b \in {"absent"} : objects = {}}
    /\ result' = "error"
    /\ pc' = "cleanup"
    /\ SpendFault
    /\ UNCHANGED <<cloud, objects, session, listing, pool, failed, writes>>

\* A Cleanup that closes the SDK only.
CleanupOfClients ==
    /\ pc = "cleanup"
    /\ key' = "none" /\ lost' = IF key = "live" THEN lost + 1 ELSE lost
    /\ pc' = "idle"
    /\ UNCHANGED <<cloud, bucket, objects, listing, pool, failed, result, writes, faults>>

\* Cleanup, deferred by the reconcile: Close deletes the key, and one that is not
\* there counts as deleted.
Cleanup ==
    /\ pc = "cleanup"
    /\ key' = "none"
    /\ pc' = "idle"
    /\ UNCHANGED <<cloud, bucket, objects, lost, listing, pool, failed, result, writes, faults>>

\* Its error is logged, and nobody knows of the key any more.
CleanupFails ==
    /\ pc = "cleanup" /\ key = "live"
    /\ key' = "none" /\ lost' \in {lost, lost + 1}
    /\ pc' = "idle"
    /\ SpendFault
    /\ UNCHANGED <<cloud, bucket, objects, listing, pool, failed, result, writes>>

-------------------------------------------------------------------------------
(* The workers of the pool. *)

StartTask ==
    /\ Cardinality(running) < Workers
    /\ \E o \in waiting : running' = running \union {o} /\ waiting' = waiting \ {o}
    /\ UNCHANGED <<cloud, bucket, objects, session, pc, listing, sem, failed, result, writes, faults>>

\* An object that is not there any more counts as deleted.
DeleteObject ==
    /\ \E o \in running : running' = running \ {o} /\ objects' = objects \ {o}
    /\ sem' = sem - 1
    /\ UNCHANGED <<cloud, bucket, session, pc, listing, waiting, failed, result, writes, faults>>

\* A worker that gives its slot back after it looked at the error.
DeleteObjectFailsHolding ==
    /\ \E o \in running : running' = running \ {o} /\ objects' \in {objects, objects \ {o}}
    /\ failed' = TRUE
    /\ SpendFault
    /\ UNCHANGED <<cloud, bucket, session, pc, listing, sem, waiting, result, writes>>

\* The slot is given back in any case: "defer func() { <-sem }()".
DeleteObjectFails ==
    /\ \E o \in running : running' = running \ {o} /\ objects' \in {objects, objects \ {o}}
    /\ sem' = sem - 1
    /\ failed' = TRUE
    /\ SpendFault
    /\ UNCHANGED <<cloud, bucket, session, pc, listing, waiting, result, writes>>

-------------------------------------------------------------------------------

\* The process dies: a key of its session stays.
Crash ==
    /\ pc' = "idle" /\ result' = "none" /\ failed' = FALSE
    /\ unlisted' = {} /\ shown' = {}
    /\ sem' = 0 /\ waiting' = {} /\ running' = {}
    /\ key' = "none" /\ lost' = IF key = "live" THEN lost + 1 ELSE lost
    /\ SpendFault
    /\ UNCHANGED <<cloud, bucket, objects, writes>>

Goroutine ==
    \/ OpenSession \/ ListNext \/ ListEnds \/ StopWait \/ DeleteEmptyBucket \/ Cleanup

Pool == StartTask \/ DeleteObject

Failure ==
    \/ OpenFails \/ ListFails \/ DeleteBucketFails \/ CleanupFails
    \/ DeleteObjectFails

DeletionNext == WriteObject \/ Goroutine \/ Pool \/ Failure \/ Crash

-------------------------------------------------------------------------------
(* Properties. *)

\* The semaphore counts the tasks that are not done, however they end, and stays
\* within its capacity; the pool stays within its size.
SemaphoreCounts ==
    /\ sem = Cardinality(waiting) + Cardinality(running)
    /\ sem <= Capacity
    /\ Cardinality(running) <= Workers

\* No task is left when the call goes on to the bucket, returns or is cleaned up
\* after: a worker of a Yandex session has its key until it is done.
TasksEndWithTheCall ==
    waiting \union running # {} =>
      /\ pc \in {"list", "stopWait"}
      /\ cloud = "yc" => key = "live"

\* The bucket is deleted after every object that was listed, or not at all: no
\* error of a worker gets lost on the way.
ListedAreDeleted == pc = "deleteBucket" => shown \intersect objects = {}

\* Between calls there are no more temporary keys in the cloud than calls that
\* failed or died: the quota of the service account is not used up by success.
KeysAreAccountedFor == pc = "idle" => key = "none" /\ lost <= MaxFaults - faults
===============================================================================
