---------------------------- MODULE StrikeClock -----------------------------
(***************************************************************************)
(* What becomes of an Inkstrike once it is launched: it takes the number   *)
(* of frames it was launched with, no more and no fewer.  All the strikes  *)
(* in the air go by the same frames.  None is launched again before it is  *)
(* over, and none is called off but with all the others.                   *)
(***************************************************************************)
EXTENDS Integers

CONSTANTS Strikes,
          Lengths    \* the frames a strike can take

VARIABLE left        \* the frames a strike still takes; 0: there is none

Init == left = [i \in Strikes |-> 0]

Launch(i) ==
    /\ left[i] = 0
    /\ \E n \in Lengths : left' = [left EXCEPT ![i] = n]

(* In its last frame a strike ends ... *)
Finish(i) ==
    /\ left[i] = 1
    /\ left' = [left EXCEPT ![i] = 0]

(* ... before the next frame begins for the others. *)
Frame ==
    /\ \A i \in Strikes : left[i] # 1
    /\ left' = [i \in Strikes |-> IF left[i] = 0 THEN 0 ELSE left[i] - 1]

CallOff == left' = [i \in Strikes |-> 0]

Next ==
    \/ \E i \in Strikes : Launch(i) \/ Finish(i)
    \/ Frame
    \/ CallOff

Spec == Init /\ [][Next]_left
=============================================================================
