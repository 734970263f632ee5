------------------------------ MODULE KingSquid ------------------------------
(***************************************************************************)
(* The king squid special on one console: PlayerKingSquid::calc and        *)
(* KingSquidMgr::onCalc of source/KingSquidMgr.cpp, with the hooks of      *)
(* source/main.cpp that create and read it.  A king who has been in the    *)
(* air for some frames rushes and pushes a ball before it.                 *)
(*                                                                         *)
(* In a frame every player's calc runs once, in any order; then the engine *)
(* puts to sleep what was reserved for it.  The mod makes one ball per     *)
(* player (extraBigLaserBulletHook, source/main.cpp:2201).                 *)
(***************************************************************************)
EXTENDS Integers, FiniteSets

CONSTANTS Kings,      \* the players of the scene
          Balls,      \* the BulletSpAquaBall of the scene
          NoBall,
          RushFrames, \* 3: mIsRush from the fourth frame in the air on
          AirCap      \* 999

ASSUME KingAssumption ==
    /\ Kings # {} /\ NoBall \notin Balls
    /\ IsFiniteSet(Kings) /\ IsFiniteSet(Balls)
    /\ Balls = {} \/ Cardinality(Balls) >= Cardinality(Kings)
    /\ RushFrames \in Nat /\ AirCap \in Nat /\ RushFrames < AirCap

VARIABLES
    kingScene,  \* "none": no BulletMgr; "loading"; "loaded"
    king,       \* per player: PlayerKingSquid and what the engine says of it
    balls,      \* per ball: "asleep", "awake" or "leaving"; and its sender
    ran         \* the players whose calc ran in this frame

kingVars == <<kingScene, king, balls, ran>>

(* setUp      the models, joints and controllers of both forms are there    *)
(* body       the form the player's model, joint, animations, controller    *)
(*            and material belong to                                        *)
(* ink        mPlayerInkAction is there                                     *)
(* special    isInSpecial_KingSquid_Impl                                    *)
(* aerial     mAerialState # 0                                              *)
(* airborne   history: the calcs in a row that saw a king in the air        *)
King == [setUp : BOOLEAN, mIsRemote : BOOLEAN, body : {"squid", "king"},
         ink : BOOLEAN, special : BOOLEAN, aerial : BOOLEAN,
         mIsRush : BOOLEAN, mAerialFrm : 0 .. AirCap,
         mBullet : Balls \cup {NoBall}, airborne : 0 .. AirCap]

Ball == [state : {"asleep", "awake", "leaving"}, sender : Kings]

CapAir(x) == IF x > AirCap THEN AirCap ELSE x

-----------------------------------------------------------------------------
(* reserveSleepAll_, carried out at the end of the frame *)
reserveSleepAll(b) ==
    IF b = NoBall THEN balls ELSE [balls EXCEPT ![b].state = "leaving"]

(* krakenDiveHook *)
krakenDive(p) == king[p].mIsRush /\ king[p].aerial /\ king[p].special

(* The counters after a frame as a king, in the air or not. *)
AfterFrame(k) ==
    LET frm == IF k.aerial THEN CapAir(k.mAerialFrm + 1) ELSE 0
    IN  [k EXCEPT !.mAerialFrm = frm, !.mIsRush = frm > RushFrames,
                  !.airborne = IF k.aerial THEN CapAir(@ + 1) ELSE 0]

(* The frames in the air outlast the special. *)
ResetRushOnly(k) == [k EXCEPT !.mIsRush = FALSE, !.airborne = 0]

Reset(k) == [k EXCEPT !.mIsRush = FALSE, !.mAerialFrm = 0, !.airborne = 0]

Turn(p) == p \notin ran /\ ran' = ran \cup {p}

(* There is no BulletMgr: the pointer is dropped. *)
CalcNoManager(p) ==
    /\ kingScene = "none"
    /\ Turn(p)
    /\ king' = [king EXCEPT ![p] = [Reset(@) EXCEPT !.mBullet = NoBall]]
    /\ UNCHANGED <<kingScene, balls>>

(* The pointer is dropped and the ball left where it is. *)
EndRushOnly(p, k) ==
    /\ king' = [king EXCEPT ![p] = [Reset(k) EXCEPT !.mBullet = NoBall]]
    /\ UNCHANGED <<kingScene, balls>>

(* Every way to end a rush: the ball is put to sleep. *)
EndRush(p, k) ==
    /\ king' = [king EXCEPT ![p] = [Reset(k) EXCEPT !.mBullet = NoBall]]
    /\ balls' = reserveSleepAll(k.mBullet)
    /\ UNCHANGED kingScene

(* The scene is not there, or the forms are not set up.                    *)
CalcNotReady(p) ==
    /\ kingScene = "loading" \/ (kingScene = "loaded" /\ ~king[p].setUp)
    /\ Turn(p)
    /\ EndRush(p, king[p])

CalcSquid(p) ==
    /\ kingScene = "loaded" /\ king[p].setUp /\ ~king[p].special
    /\ Turn(p)
    /\ EndRush(p, [king[p] EXCEPT !.body = "squid"])

CalcNoInk(p) ==
    /\ kingScene = "loaded" /\ king[p].setUp /\ king[p].special /\ ~king[p].ink
    /\ Turn(p)
    /\ EndRush(p, [king[p] EXCEPT !.body = "king"])

(* activateOneCancelUnnecessary: a sleeping ball, or one in use when none  *)
(* sleeps, or NULL in the modes without balls.                             *)
Free == {b \in Balls : balls[b].state = "asleep"}
Offered ==
    IF Free # {} THEN Free ELSE IF Balls # {} THEN Balls ELSE {NoBall}

RushesInAir(k) == k.mIsRush /\ k.aerial

CalcKing(p) ==
    LET k == [king[p] EXCEPT !.body = "king"]
    IN  /\ kingScene = "loaded" /\ k.setUp /\ k.special /\ k.ink
        /\ Turn(p)
        /\ \/ /\ RushesInAir(k) /\ k.mBullet = NoBall /\ ~k.mIsRemote
              /\ \E b \in Offered :
                   /\ balls' = [balls EXCEPT ![b] = [state |-> "awake", sender |-> p]]
                   /\ king' = [king EXCEPT ![p] = AfterFrame([k EXCEPT !.mBullet = b])]
           \/ /\ RushesInAir(k) /\ (k.mBullet # NoBall \/ k.mIsRemote)
              /\ king' = [king EXCEPT ![p] = AfterFrame(k)]
              /\ UNCHANGED balls
           \/ /\ ~RushesInAir(k)
              /\ king' = [king EXCEPT ![p] = AfterFrame([k EXCEPT !.mBullet = NoBall])]
              /\ balls' = reserveSleepAll(k.mBullet)
        /\ UNCHANGED kingScene

(* playerKingSquidCalcHook *)
calc(p) ==
    \/ CalcNoManager(p) \/ CalcNotReady(p) \/ CalcSquid(p) \/ CalcNoInk(p)
    \/ CalcKing(p)

-----------------------------------------------------------------------------
(* The engine between two frames: it carries out the reserved sleeps and   *)
(* moves the players.                                                      *)
EndFrame ==
    /\ ran = Kings
    /\ ran' = {}
    /\ balls' = [b \in Balls |->
                   IF balls[b].state = "leaving"
                   THEN [balls[b] EXCEPT !.state = "asleep"] ELSE balls[b]]
    /\ UNCHANGED <<kingScene, king>>

Engine(p) ==
    /\ ran = {}
    /\ \/ king' = [king EXCEPT ![p].aerial = ~@]
       \/ king' = [king EXCEPT ![p].special = ~@]
       \/ king' = [king EXCEPT ![p].ink = ~@]
    /\ UNCHANGED <<kingScene, balls, ran>>

(* kingSquidAnimSetControllerHook, the last of the hooks that set up the   *)
(* forms: both controllers are stored.                                     *)
kingSquidAnimSetControllerHook(p) ==
    /\ ran = {} /\ kingScene = "loading" /\ ~king[p].setUp
    /\ king' = [king EXCEPT ![p].setUp = TRUE]
    /\ UNCHANGED <<kingScene, balls, ran>>

NewKing(remote) ==
    [setUp |-> FALSE, mIsRemote |-> remote, body |-> "squid", ink |-> TRUE,
     special |-> FALSE, aerial |-> FALSE, mIsRush |-> FALSE, mAerialFrm |-> 0,
     mBullet |-> NoBall, airborne |-> 0]

Asleep == [b \in Balls |-> [state |-> "asleep", sender |-> CHOOSE p \in Kings : TRUE]]

(* playerModelSetupHook makes a new PlayerKingSquid for every player of a  *)
(* scene; the balls are the scene's.                                       *)
SceneStep ==
    /\ ran = {}
    /\ \/ /\ kingScene = "none" /\ kingScene' = "loading"
          /\ \E remote \in SUBSET Kings :
               king' = [p \in Kings |-> NewKing(p \in remote)]
          /\ balls' = Asleep
       \/ /\ kingScene = "loading" /\ kingScene' = "loaded"
          /\ UNCHANGED <<king, balls>>
       \/ /\ kingScene = "loaded" /\ kingScene' \in {"loading", "none"}
          /\ balls' = IF kingScene' = "none" THEN Asleep ELSE balls
          /\ UNCHANGED king
    /\ UNCHANGED ran

KingInit ==
    /\ kingScene = "none"
    /\ king = [p \in Kings |-> NewKing(FALSE)]
    /\ balls = Asleep
    /\ ran = {}

KingNext ==
    \/ \E p \in Kings : calc(p) \/ Engine(p) \/ kingSquidAnimSetControllerHook(p)
    \/ EndFrame \/ SceneStep

KingSpec == KingInit /\ [][KingNext]_kingVars

-----------------------------------------------------------------------------
KingTypeOK ==
    /\ kingScene \in {"none", "loading", "loaded"}
    /\ king \in [Kings -> King]
    /\ balls \in [Balls -> Ball]
    /\ ran \subseteq Kings

(* In a scene every ball in use belongs to the king it was activated for,  *)
(* and no king holds a ball that sleeps, or that the engine has given to   *)
(* somebody else: mBullet is kept over frames and moved, coloured and put  *)
(* to sleep unseen (source/KingSquidMgr.cpp:163-181).  One ball per player *)
(* is enough although a sleep takes until the end of the frame.            *)
BallHasOneOwner ==
    kingScene # "none" =>
      /\ \A p \in Kings : king[p].mBullet # NoBall =>
           balls[king[p].mBullet] = [state |-> "awake", sender |-> p]
      /\ \A b \in Balls : balls[b].state = "awake" =>
           king[balls[b].sender].mBullet = b

(* A dive is earned: the king's form is on, and the last calcs, more than  *)
(* RushFrames of them, all saw it in the air as a king, whatever happened  *)
(* to the special, the scene or the player before (97-191).                *)
DiveEarned ==
    \A p \in Kings : krakenDive(p) =>
      king[p].body = "king" /\ king[p].airborne > RushFrames
=============================================================================
