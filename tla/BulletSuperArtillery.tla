------------------------ MODULE BulletSuperArtillery ------------------------
(***************************************************************************)
(* The Inkstrike projectile actor, source/BulletSuperArtillery.cpp: one    *)
(* bullet as a value, and one operator per member function.  The manager   *)
(* (module Inkstrike) owns the bullets and decides when each operator runs.*)
(*                                                                         *)
(* An actor is activated and put to sleep by RESERVATION: reserveActivate  *)
(* and reserveSleepAll_ only record the wish, and the engine calls         *)
(* vtOnActivate / vtOnSleep later.  The engine is not part of this         *)
(* repository; Settle models what the code relies on.                      *)
(***************************************************************************)
EXTENDS Integers

CONSTANTS FlightTime,      \* BSA_FLIGHT_TIME, 120 frames in the code
          LongFlightTime,  \* 150 frames: forced by the match end, or sender dead
          BurstDuration    \* BSA_BURST_DURATION, 100 frames in the code

ASSUME FlightAssumption ==
    /\ FlightTime \in Nat \ {0}
    /\ LongFlightTime \in Nat \ {0}
    /\ BurstDuration \in Nat \ {0}

BSAState == {"Pronounce", "Wait", "Burst", "Aim"}
Reservation == {"none", "activate", "sleep"}
BurstFrames == 0 .. BurstDuration

(* sm           mStateMachine's current state                              *)
(* flightActive mFlightActive                                              *)
(* hasBurst     mHasBurst                                                  *)
(* sender       mSender # NULL                                             *)
(* awake, resv  the engine's view of the actor                             *)
(* flightLeft   frames until mPaintGameFrame - mStartFrm >= mFlightTime    *)
(* burstFrm     mBurstFrm                                                  *)
Bullet == [sm : BSAState, flightActive : BOOLEAN, hasBurst : BOOLEAN,
           sender : BOOLEAN, awake : BOOLEAN, resv : Reservation,
           flightLeft : Nat, burstFrm : BurstFrames]

-----------------------------------------------------------------------------
(* The factory: constructed, never activated. *)
create ==
    [sm |-> "Pronounce", flightActive |-> FALSE, hasBurst |-> FALSE,
     sender |-> FALSE, awake |-> FALSE, resv |-> "none",
     flightLeft |-> 0, burstFrm |-> 0]

isActive(b) == b.flightActive \/ b.hasBurst

(* mSender is not set. *)
prepareWithoutSender(b) == [b EXCEPT !.resv = "activate"]

(* mStartFrm = 0 makes the elapsed time of a flight that is not launched   *)
(* larger than any flight time, hence flightLeft = 0.                      *)
prepare(b) ==
    [b EXCEPT !.sender = TRUE, !.flightActive = FALSE, !.hasBurst = FALSE,
              !.flightLeft = 0, !.burstFrm = 0, !.resv = "activate"]

(* The state machine is not told to fly. *)
launchWithoutPronounce(b, long) ==
    [b EXCEPT !.flightActive = TRUE,
              !.flightLeft = IF long THEN LongFlightTime ELSE FlightTime]

(* long: forcedByMatchEnd, or the sender is dead. *)
launch(b, long) ==
    [b EXCEPT !.flightActive = TRUE, !.sm = "Pronounce",
              !.flightLeft = IF long THEN LongFlightTime ELSE FlightTime]

(* mStateMachine.changeState(cState_Wait), done by the manager. *)
enterWait(b) == [b EXCEPT !.sm = "Wait"]

doSleep(b) ==
    [b EXCEPT !.flightActive = FALSE, !.hasBurst = FALSE, !.resv = "sleep"]

cancel(b) == doSleep(b)

vtOnActivate(b) == [b EXCEPT !.awake = TRUE, !.sm = "Aim", !.resv = "none"]

reset(b) ==
    [b EXCEPT !.sender = FALSE, !.flightActive = FALSE, !.hasBurst = FALSE,
              !.flightLeft = 0, !.burstFrm = 0]

vtOnSleep(b) == [reset(b) EXCEPT !.awake = FALSE, !.resv = "none"]

(* doBurst: without a sender it returns before it touches the flags.       *)
doBurst(b) ==
    IF b.sender
    THEN [b EXCEPT !.flightActive = FALSE, !.hasBurst = TRUE, !.burstFrm = 0]
    ELSE b

statePronounce(b) ==
    IF b.flightLeft = 0 THEN doBurst([b EXCEPT !.sm = "Burst"]) ELSE b

(* The burst does not end. *)
calcBurstFollowForever(b) ==
    IF b.burstFrm + 1 >= BurstDuration THEN b
    ELSE [b EXCEPT !.burstFrm = b.burstFrm + 1]

(* The last frame is missed. *)
calcBurstFollowOneMore(b) ==
    LET c == [b EXCEPT !.burstFrm = b.burstFrm + 1]
    IN  IF c.burstFrm > BurstDuration THEN doSleep(c) ELSE c

(* stateBurst: one more frame of the growing cylinder of ink.              *)
calcBurstFollow(b) ==
    LET c == [b EXCEPT !.burstFrm = b.burstFrm + 1]
    IN  IF c.burstFrm >= BurstDuration THEN doSleep(c) ELSE c

(* executeState: stateWait and stateAim have empty bodies.                 *)
vtFirstCalc(b) ==
    CASE b.sm = "Pronounce"       -> statePronounce(b)
      [] b.sm = "Burst"           -> calcBurstFollow(b)
      [] b.sm \in {"Wait", "Aim"} -> b

(* Between two frames the engine carries out the last reservation made.    *)
Settle(b) ==
    CASE b.resv = "activate" -> vtOnActivate(b)
      [] b.resv = "sleep"    -> vtOnSleep(b)
      [] OTHER               -> b

(* The frames a strike still takes, this one included unless the bullet    *)
(* has had its turn in it: flight, and one frame per step of the burst.    *)
FramesLeft(b, turned) ==
    IF b.flightActive THEN b.flightLeft + BurstDuration + 1
    ELSE IF b.hasBurst THEN BurstDuration - b.burstFrm + (IF turned THEN 1 ELSE 0)
    ELSE 0

StrikeLengths == {FlightTime + BurstDuration + 1, LongFlightTime + BurstDuration + 1}

(* mPaintGameFrame advanced by one. *)
Elapse(b) == [b EXCEPT !.flightLeft = IF @ = 0 THEN 0 ELSE @ - 1]

=============================================================================
