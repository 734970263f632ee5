---------------------------- MODULE ReservedHits ----------------------------
(***************************************************************************)
(* What the tables of reserved hits promise, whatever their size and       *)
(* however long a hit waits: a hit is dropped only while every slot waits, *)
(* and one that has been taken is neither displaced nor applied early.     *)
(***************************************************************************)
EXTENDS Integers

CONSTANTS Bubbles, Strikers,
          Room,         \* slots of a table
          HoldFrames    \* frames a hit waits

VARIABLES hits,   \* hits[b][o]: times striker b has hit bubble o
          owed    \* owed[o][h]: hits on o that wait for h frames or more

reservedVars == <<hits, owed>>

Init ==
    /\ hits = [b \in Strikers |-> [o \in Bubbles |-> 0]]
    /\ owed = [o \in Bubbles |-> [h \in 1 .. HoldFrames |-> 0]]

(* b hits the bubbles S.  A full table drops the hit and nothing else. *)
Strike(b) ==
    \E S \in SUBSET Bubbles :
      /\ hits' = [hits EXCEPT ![b] =
                    [o \in Bubbles |-> IF o \in S THEN @[o] + 1 ELSE @[o]]]
      /\ owed' = [o \in Bubbles |->
                    IF o \in S /\ owed[o][1] < Room
                    THEN [h \in 1 .. HoldFrames |-> owed[o][h] + 1]
                    ELSE owed[o]]

(* Every hit waits one frame less; the strikers E are over. *)
Frame ==
    \E E \in SUBSET Strikers :
      /\ hits' = [b \in Strikers |-> IF b \in E THEN [o \in Bubbles |-> 0]
                                                ELSE hits[b]]
      /\ owed' = [o \in Bubbles |->
                    [h \in 1 .. HoldFrames |-> IF h = HoldFrames THEN 0
                                               ELSE owed[o][h + 1]]]

Next == Frame \/ \E b \in Strikers : Strike(b)

Spec == Init /\ [][Next]_reservedVars
=============================================================================
