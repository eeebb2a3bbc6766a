---------------------------- MODULE MCBucketAccess ----------------------------
(* Instances of BucketAccess for TLC. *)
EXTENDS BucketAccess

CONSTANTS a1, a2, b1, p1

OneBucket == [a \in Access |-> b1]

AnySpec == [a \in Access |-> Specs]

Asks(level, policy) == [principal |-> p1, level |-> level, policy |-> policy]

\* On one bucket: a1 reads or administers, a2 writes.
OwnLevels == [a \in Access |->
    IF a = a1 THEN {Asks("ObjectReader", "Delete"), Asks("ObjectAdmin", "Delete"),
                    Asks("ObjectAdmin", "Retain")}
              ELSE {Asks("ObjectWriter", "Delete")}]

===============================================================================
