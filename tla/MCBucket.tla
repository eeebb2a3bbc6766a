------------------------------- MODULE MCBucket -------------------------------
(* Instances of Bucket for TLC. *)
EXTENDS Bucket

CONSTANTS r1, x1, x2

A(name, location, properties, policy) ==
    [name |-> name, location |-> location, properties |-> properties,
     policy |-> policy]

\* The location and a property may change, the name, or the policy.
Edited == [n \in Resources |->
    {A(x1, "eu", "plain", "Delete"), A(x1, "us", "versioned", "Delete"),
     A(x2, "eu", "labelled", "Delete"), A(x1, "eu", "versioned", "Retain")}]

Fixed == [n \in Resources |-> {A(x1, "eu", "plain", "Delete")}]

PlainBucket ==
    {[taken |-> FALSE, location |-> "eu", properties |-> "plain", objects |-> FALSE]}

===============================================================================
