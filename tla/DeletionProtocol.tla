--------------------------- MODULE DeletionProtocol ---------------------------
(***************************************************************************)
(* What the controllers promise together about the order in which things   *)
(* come and go.                                                            *)
(*                                                                         *)
(* What a resource stands for is made while everything it refers to is     *)
(* there, and is unmade when nothing that refers to it is left.  A config, *)
(* whose credentials all this is made and unmade with, is closed at a      *)
(* user's request: from then on it stays until what was made with it up to *)
(* that moment is gone.  What is made with it later is outside the         *)
(* promise.                                                                *)
(***************************************************************************)
CONSTANTS Configs,    \* what everything is made and unmade with
          Resources,  \* what can be made
          ConfigOf,   \* the config of each resource
          TargetsOf   \* the resources that each resource refers to

VARIABLES open,      \* configs that are there
          closing,   \* those of them that are asked to go
          made,      \* resources that are made
          promised   \* resources that were made when their config was asked to go

vars == <<open, closing, made, promised>>

\* The operator starts before anything is made.
Init ==
    /\ open = Configs
    /\ closing = {}
    /\ made = {}
    /\ promised = {}

Open(c) ==
    /\ c \notin open
    /\ open' = open \union {c}
    /\ UNCHANGED <<closing, made, promised>>

Close(c) ==
    /\ c \in open \ closing
    /\ closing' = closing \union {c}
    /\ promised' = promised \union {r \in made : ConfigOf[r] = c}
    /\ UNCHANGED <<open, made>>

Leave(c) ==
    /\ c \in open
    /\ \A r \in promised : ConfigOf[r] # c
    /\ open' = open \ {c}
    /\ closing' = closing \ {c}
    /\ UNCHANGED <<made, promised>>

Make(r) ==
    /\ TargetsOf[r] \subseteq made
    /\ made' = made \union {r}
    /\ UNCHANGED <<open, closing, promised>>

Unmake(r) ==
    /\ \A q \in made : r \notin TargetsOf[q]
    /\ made' = made \ {r}
    /\ promised' = promised \ {r}
    /\ UNCHANGED <<open, closing>>

Next ==
    \/ \E c \in Configs : Open(c) \/ Close(c) \/ Leave(c)
    \/ \E r \in Resources : Make(r) \/ Unmake(r)

Spec == Init /\ [][Next]_vars
===============================================================================
