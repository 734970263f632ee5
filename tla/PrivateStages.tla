--------------------------- MODULE PrivateStages ---------------------------
(***************************************************************************)
(* What the private-match map list promises: a set of maps of bounded size *)
(* in which each call concerns one map only.  A call may also lose maps of *)
(* Shaky; no other map is ever lost.  With Shaky empty the promise is the  *)
(* one the code's comments make.                                           *)
(***************************************************************************)
EXTENDS Integers, FiniteSets

CONSTANTS Stages, Capacity, Shaky

VARIABLE have

TypeOK == have \subseteq Stages

Init == TypeOK

(* A full list drops the map silently. *)
Add(m) == \E lost \in SUBSET Shaky :
            LET kept == have \ lost
            IN  have' \in {kept \cup {m}} \cup
                            (IF Cardinality(kept) >= Capacity THEN {kept} ELSE {})

Remove(m) == \E lost \in SUBSET Shaky : have' = (have \ lost) \ {m}

Reset == have' = {}

Next == Reset \/ \E m \in Stages : Add(m) \/ Remove(m)

Spec == Init /\ [][Next]_have
=============================================================================
