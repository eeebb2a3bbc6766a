--------------------------- MODULE MCBucketProvider ---------------------------
(* Instances of BucketProvider for TLC. *)
EXTENDS BucketProvider

Plain ==
    [location |-> "here", class |-> "Standard", labels |-> "none", versioning |-> "unset",
     pap |-> "unset", lifecycle |-> [set |-> FALSE, rules |-> {}], soft |-> "unset"]

With(aged, enabled, named) ==
    [set |-> TRUE, rules |-> {[aged |-> aged, enabled |-> enabled, named |-> named]}]

Full == [Plain EXCEPT !.class = "Cold", !.labels = "some", !.versioning = "on",
                      !.lifecycle = With(TRUE, TRUE, FALSE)]

\* On each cloud: nothing but what is required, everything, rules that are off or
\* have no age, and what the cloud does not support or take.
EachCloud ==
    [c \in {"gcp", "yc"} |->
       {Plain, [Full EXCEPT !.lifecycle = With(FALSE, TRUE, FALSE)]}
       \union IF c = "gcp"
              THEN {[Full EXCEPT !.pap = "on", !.soft = "other"],
                    [Plain EXCEPT !.lifecycle = With(TRUE, FALSE, FALSE), !.soft = "default"],
                    [Plain EXCEPT !.lifecycle = With(TRUE, TRUE, TRUE)]}
              ELSE {[Full EXCEPT !.lifecycle = With(TRUE, TRUE, TRUE)],
                    [Plain EXCEPT !.lifecycle = With(TRUE, FALSE, FALSE), !.soft = "ycBlock"],
                    [Plain EXCEPT !.soft = "default"]}]

\* Buckets of Yandex in a region that is not the ProviderConfig's.
Elsewhere == [c \in {"yc"} |-> {[Plain EXCEPT !.location = "elsewhere"]}]
===============================================================================
