----------------------------- MODULE EnemyBall ------------------------------
(***************************************************************************)
(* The ball-shaped enemy of source/EnemyBall.cpp, registered by the actor  *)
(* factory under the name "EnemyBall" and driven by the engine.            *)
(*                                                                         *)
(* In every frame the engine runs firstCalc_ once and the state machine    *)
(* once, and reports collisions in between; the order is the engine's, so  *)
(* the model takes any.  What the components of the engine report (ground, *)
(* walls, the ink the ball sinks in, the player it sees, the ends of its   *)
(* animations) is an input.  Speeds, directions and angles are left out;   *)
(* where an angle decides something, the decision is an input.             *)
(* mHitKeepOutTimer is not modelled: the code only ever sets it to zero.   *)
(***************************************************************************)
EXTENDS Integers

CONSTANTS
    Players,
    MaxHealth,
    WallWait,       \* 30 frames of contact without a new reflection
    PlayerHitWait,  \* mPlayerHitTimer, 10 frames
    ChanceLen,      \* frames of the "Chance" animation
    MaxContact,     \* bound: the longest contact with a wall
    mMuteki, mMutekiBulletIgnore,
    mIsMutekiChanceChanging, mIsMutekiNormalChanging  \* family parameters

ASSUME BallAssumption ==
    /\ MaxHealth \in Nat \ {0}
    /\ WallWait \in Nat \ {0} /\ PlayerHitWait \in Nat
    /\ ChanceLen \in Nat \ {0}
    /\ MaxContact \in Nat
    /\ {mMuteki, mMutekiBulletIgnore,
        mIsMutekiChanceChanging, mIsMutekiNormalChanging} \subseteq BOOLEAN

VARIABLES
    awake,          \* the actor is active
    todo,           \* what the engine has still to run in this frame
    state,          \* mStateMachine.mStateId
    mHealth,
    damaged,        \* mSinkable->mIsDamaged
    anim,           \* the current animation and whether it has ended
    mDrownState, mIsReturning,
    mMutekiState,   \* 0 .. 3
    chance,         \* mChanceAnimSetController
    color,          \* setTwoColorCompTeam
    colType,        \* of the object collision: 1 protected, 2 not
    mWasHitWall, mHitWallCounter, mPlayerHitTimer,
    contact,        \* history: frames of unbroken contact with a wall
    bounced,        \* history: the last move was reflected by a wall
    since,          \* history: frames since a player last touched the ball
    again           \* history: a player in touch was pushed once more

body == <<mWasHitWall, mHitWallCounter, contact, bounced>>
shield == <<mMutekiState, chance, color, colType>>
push == <<mPlayerHitTimer, since, again>>
look == <<anim, mDrownState, mIsReturning>>
vars == <<awake, todo, state, mHealth, damaged, body, shield, push, look>>

States == {"Wait", "Notice", "Move", "Fall", "Die"}
Moving == state \in {"Move", "Fall"}
Anims == {"Wait", "Find", "Roll", "Drown", "Return", "Back"}
start(name) == [name |-> name, ended |-> FALSE]

-----------------------------------------------------------------------------
(* The invulnerability condition, written out twice in the code: in        *)
(* setObjColMuteki_ and in interactColBullet_.                             *)
Muteki(m) ==
    /\ mMuteki
    /\ m # 0
    /\ ~mIsMutekiChanceChanging \/ m # 3
    /\ ~mIsMutekiNormalChanging \/ m # 2

setObjColMuteki_(m) == colType' = IF Muteki(m) THEN 1 ELSE 2

getPlayerDamage == Moving /\ mMutekiState \notin {1, 3}

-----------------------------------------------------------------------------
(* The "Chance" animation, frame by frame: reset stops it.                 *)
isEndCurrentAnim(c) ==
    ~c.on \/ IF c.rate < 0 THEN c.frame = 0 ELSE c.frame = ChanceLen

resetAnim == [on |-> FALSE, frame |-> 0, rate |-> 0]
AtEnd(rate) == [on |-> TRUE, frame |-> ChanceLen, rate |-> rate]
Frame(f) == IF f < 0 THEN 0 ELSE IF f > ChanceLen THEN ChanceLen ELSE f
Play(c) == IF c.on THEN [c EXCEPT !.frame = Frame(@ + c.rate)] ELSE c

(* Case 0: sunk for mChanceSinkFrame frames. *)
BeginChance(sunkLong) ==
    /\ mMutekiState = 0 /\ damaged /\ sunkLong
    /\ mMutekiState' = 3
    /\ chance' = IF isEndCurrentAnim(chance)
                 THEN [on |-> TRUE, frame |-> 0, rate |-> 1]
                 ELSE [chance EXCEPT !.rate = 1]
    /\ UNCHANGED color

(* Case 1, in the ink: the colour of the other team. *)
ShowChance(s) ==
    /\ mMutekiState = 1 /\ s \in {"Move", "Fall", "Die"} /\ damaged
    /\ isEndCurrentAnim(chance)
    /\ color' = "Alpha"
    /\ chance' = resetAnim
    /\ UNCHANGED mMutekiState

(* The colour is not given back. *)
EndChanceKeepingColor(s, dryLong) ==
    /\ mMutekiState = 1 /\ s \in {"Move", "Fall", "Die"}
    /\ ~damaged /\ dryLong
    /\ mMutekiState' = 2
    /\ chance' = IF isEndCurrentAnim(chance) THEN AtEnd(-1)
                 ELSE [chance EXCEPT !.rate = -1]
    /\ UNCHANGED color

(* Case 1, out of the ink for mMutekiRefreshFrame frames. *)
EndChance(s, dryLong) ==
    /\ mMutekiState = 1 /\ s \in {"Move", "Fall", "Die"}
    /\ ~damaged /\ dryLong
    /\ mMutekiState' = 2
    /\ IF isEndCurrentAnim(chance)
       THEN color' = "Bravo" /\ chance' = AtEnd(-1)
       ELSE chance' = [chance EXCEPT !.rate = -1] /\ UNCHANGED color

(* Cases 2 and 3: the animation has run back, or to its end. *)
Faded ==
    /\ \/ mMutekiState = 2 /\ chance.frame = 0 /\ mMutekiState' = 0
       \/ mMutekiState = 3 /\ isEndCurrentAnim(chance) /\ mMutekiState' = 1
    /\ UNCHANGED <<chance, color>>

Stays(s, sunkLong, dryLong) ==
    /\ CASE mMutekiState = 0 -> ~(damaged /\ sunkLong)
         [] mMutekiState = 1 -> \/ s \in {"Wait", "Notice"}
                                \/ damaged /\ ~isEndCurrentAnim(chance)
                                \/ ~damaged /\ ~dryLong
         [] mMutekiState = 2 -> chance.frame # 0
         [] mMutekiState = 3 -> ~isEndCurrentAnim(chance)
    /\ UNCHANGED <<mMutekiState, chance, color>>

(* calcMuteki_, in state s *)
calcMuteki_(s, sunkLong, dryLong) ==
    \/ BeginChance(sunkLong)
    \/ ShowChance(s)
    \/ EndChance(s, dryLong)
    \/ Faded
    \/ Stays(s, sunkLong, dryLong)

-----------------------------------------------------------------------------
(* A ball with no health left lives on. *)
NextStateBelowZero(lockOn, sunk, hitGnd, gndBelow) ==
    IF state = "Die" \/ mHealth < 0 THEN "Die"
    ELSE CASE state = "Wait"   -> IF lockOn THEN "Notice"
                                  ELSE IF damaged /\ sunk THEN "Move" ELSE "Wait"
           [] state = "Notice" -> IF anim.name # "Find" \/ anim.ended
                                  THEN "Move" ELSE "Notice"
           [] state = "Move"   -> IF ~hitGnd /\ ~gndBelow THEN "Fall" ELSE "Move"
           [] state = "Fall"   -> IF hitGnd THEN "Move" ELSE "Fall"

(* calcChangeState_: the state after it.  Changing the state runs its      *)
(* entry at once.                                                          *)
NextState(lockOn, sunk, hitGnd, gndBelow) ==
    IF state = "Die" \/ mHealth <= 0 THEN "Die"
    ELSE CASE state = "Wait"   -> IF lockOn THEN "Notice"
                                  ELSE IF damaged /\ sunk THEN "Move" ELSE "Wait"
           [] state = "Notice" -> IF anim.name # "Find" \/ anim.ended
                                  THEN "Move" ELSE "Notice"
           [] state = "Move"   -> IF ~hitGnd /\ ~gndBelow THEN "Fall" ELSE "Move"
           [] state = "Fall"   -> IF hitGnd THEN "Move" ELSE "Fall"

(* A ball that begins to fall is still drowned. *)
EnteredDrowned(s) ==
    [a |-> CASE s = state \/ s = "Die"                -> anim
             [] s = "Notice" /\ s # state              -> start("Find")
             [] s \in {"Move", "Fall"} /\ s # state    -> start("Roll"),
     drown |-> mDrownState]

(* What the entry of state s does to the looks: stateEnterNotice_ and      *)
(* stateEnterMove_; mIsReturning is not among the fields they set.         *)
Entered(s) ==
    [a |-> CASE s = state \/ s = "Die"                -> anim
             [] s = "Notice" /\ s # state              -> start("Find")
             [] s \in {"Move", "Fall"} /\ s # state    -> start("Roll"),
     drown |-> mDrownState /\ (s = state \/ s \notin {"Move", "Fall"})]

(* calcChangeAnim_, in state s with the looks l *)
calcChangeAnim_(s, l, dryShort) ==
    IF s = "Die"
    THEN anim' = l.a /\ mDrownState' = l.drown /\ UNCHANGED mIsReturning
    ELSE IF l.drown /\ ~mIsReturning /\ ~damaged /\ dryShort
    THEN anim' = start("Return") /\ mIsReturning' = TRUE /\ mDrownState' = l.drown
    ELSE IF s \in {"Move", "Fall"} /\ l.a.ended
    THEN anim' = start("Roll") /\ mDrownState' = FALSE /\ mIsReturning' = FALSE
    ELSE anim' = l.a /\ mDrownState' = l.drown /\ UNCHANGED mIsReturning

Later(n) == IF n < PlayerHitWait THEN n + 1 ELSE n

(* sunk, sunkLong: mDamageFrame has reached 3, mChanceSinkFrame;           *)
(* dryShort, dryLong: mEffectFrame has reached mReturnWaitFrame,           *)
(* mMutekiRefreshFrame.                                                    *)
firstCalc_ ==
    /\ awake /\ "first" \in todo
    /\ todo' = todo \ {"first"}
    /\ \E lockOn, sunk, sunkLong, dryShort, dryLong, hitGnd, gndBelow \in BOOLEAN :
         LET s == NextState(lockOn, sunk, hitGnd, gndBelow)
         IN  /\ state' = s
             /\ calcChangeAnim_(s, Entered(s), dryShort)
             /\ calcMuteki_(s, sunkLong, dryLong)
             /\ setObjColMuteki_(mMutekiState')
    /\ mPlayerHitTimer' = IF mPlayerHitTimer > 0 THEN mPlayerHitTimer - 1 ELSE 0
    /\ since' = [p \in Players |-> Later(since[p])]
    /\ UNCHANGED <<awake, mHealth, damaged, body, again>>

-----------------------------------------------------------------------------
(* One frame later than the code. *)
ReflectsLater(hitWall) == hitWall /\ ~(mWasHitWall /\ mHitWallCounter <= WallWait)

(* stateMove_, also the body of Fall.  A wall reflects the ball unless it  *)
(* was at the wall in the last frame and has not waited out the counter.   *)
Reflects(hitWall) == hitWall /\ ~(mWasHitWall /\ mHitWallCounter < WallWait)

(* The counter is not set back by a reflection. *)
CountWallWithoutReset(hitWall) ==
    mHitWallCounter' = IF hitWall /\ ~Reflects(hitWall)
                       THEN mHitWallCounter + 1 ELSE mHitWallCounter

CountWall(hitWall) ==
    mHitWallCounter' = IF Reflects(hitWall) THEN 0
                       ELSE IF hitWall THEN mHitWallCounter + 1
                       ELSE mHitWallCounter

(* onHitWall_ and onHitKeepOutWall_; mIsReturning is not set back.         *)
onHitWall_ == [a |-> start("Roll"), drown |-> FALSE]

(* calcRoll_, after a reflection or without; stops says that the angle     *)
(* lets a ball in the ink stop and drown.                                  *)
calcRoll_(l, stops) ==
    IF damaged /\ ~l.drown /\ stops
    THEN /\ anim' = start("Drown")
         /\ mDrownState' = TRUE
         /\ mIsReturning' = FALSE
    ELSE /\ anim' = l.a
         /\ mDrownState' = (l.drown /\ damaged)
         /\ UNCHANGED mIsReturning

stateMove_ ==
    \E hitWall, keepOut, stops \in BOOLEAN :
      /\ hitWall => contact < MaxContact
      /\ CountWall(hitWall)
      /\ mWasHitWall' = hitWall
      /\ calcRoll_(IF Reflects(hitWall) \/ (~hitWall /\ keepOut)
                   THEN onHitWall_ ELSE [a |-> anim, drown |-> mDrownState],
                   stops)
      /\ contact' = IF hitWall THEN contact + 1 ELSE 0
      /\ bounced' = Reflects(hitWall)

executeStateMachine_ ==
    /\ awake /\ "machine" \in todo
    /\ todo' = todo \ {"machine"}
    /\ IF Moving THEN stateMove_ ELSE UNCHANGED <<body, look>>
    /\ UNCHANGED <<awake, state, mHealth, damaged, push, shield>>

(* Only a push sets the timer. *)
interactColPlayer_RenewedByPush(p) ==
    /\ awake /\ Moving
    /\ mPlayerHitTimer' = IF mPlayerHitTimer = 0 THEN PlayerHitWait
                          ELSE mPlayerHitTimer
    /\ again' = (again \/ (mPlayerHitTimer = 0 /\ since[p] < PlayerHitWait))
    /\ since' = [since EXCEPT ![p] = 0]
    /\ UNCHANGED <<awake, todo, state, mHealth, damaged, body, shield, look>>

(* interactColPlayer_: the push, and the timer that every contact renews.  *)
interactColPlayer_(p) ==
    /\ awake /\ Moving
    /\ mPlayerHitTimer' = PlayerHitWait
    /\ again' = (again \/ (mPlayerHitTimer = 0 /\ since[p] < PlayerHitWait))
    /\ since' = [since EXCEPT ![p] = 0]
    /\ UNCHANGED <<awake, todo, state, mHealth, damaged, body, shield, look>>

(* interactColBullet_, for a bullet of the other team *)
interactColBullet_ ==
    /\ awake /\ Moving
    /\ ~mDrownState
    /\ ~(mMutekiBulletIgnore /\ Muteki(mMutekiState))
    /\ anim' = start("Back")
    /\ mIsReturning' = FALSE
    /\ UNCHANGED <<awake, todo, state, mHealth, damaged, mDrownState,
                   body, shield, push>>

-----------------------------------------------------------------------------
(* The engine: damage to what is not protected, frames, the sleep reserved *)
(* by stateEnterDie_, and the reset of a new life.                         *)
Hurt ==
    /\ awake /\ colType = 2 /\ mHealth > 0
    /\ mHealth' = mHealth - 1
    /\ UNCHANGED <<awake, todo, state, damaged, body, shield, push, look>>

NextFrame ==
    /\ awake /\ todo = {}
    /\ todo' = {"first", "machine"}
    /\ damaged' \in BOOLEAN
    /\ \E e \in {anim.ended, TRUE} : anim' = [anim EXCEPT !.ended = e]
    /\ chance' = Play(chance)
    /\ awake' = (state # "Die")
    /\ UNCHANGED <<state, mHealth, body, push, mMutekiState, color, colType,
                   mDrownState, mIsReturning>>

(* reset_, then changeFirstState_ with the entry of Wait *)
Init ==
    /\ awake = TRUE
    /\ todo = {"first", "machine"}
    /\ state = "Wait"
    /\ mHealth = MaxHealth
    /\ damaged = FALSE
    /\ anim = start("Wait")
    /\ mDrownState = FALSE /\ mIsReturning = FALSE
    /\ mMutekiState = 1 /\ chance = AtEnd(0) /\ color = "Bravo"
    /\ colType = IF Muteki(1) THEN 1 ELSE 2
    /\ mWasHitWall = FALSE /\ mHitWallCounter = 0 /\ mPlayerHitTimer = 0
    /\ contact = 0 /\ bounced = FALSE
    /\ since = [p \in Players |-> PlayerHitWait] /\ again = FALSE

reset_ ==
    /\ ~awake
    /\ awake' = TRUE
    /\ todo' = {"first", "machine"}
    /\ state' = "Wait"
    /\ mHealth' = MaxHealth
    /\ damaged' = FALSE
    /\ anim' = start("Wait")
    /\ mDrownState' = FALSE /\ mIsReturning' = FALSE
    /\ mMutekiState' = 1 /\ chance' = AtEnd(0) /\ color' = "Bravo"
    /\ colType' = IF Muteki(1) THEN 1 ELSE 2
    /\ mWasHitWall' = FALSE /\ mHitWallCounter' = 0 /\ mPlayerHitTimer' = 0
    /\ contact' = 0 /\ bounced' = FALSE
    /\ since' = [p \in Players |-> PlayerHitWait] /\ again' = FALSE

Next ==
    \/ firstCalc_ \/ executeStateMachine_
    \/ (\E p \in Players : interactColPlayer_(p)) \/ interactColBullet_
    \/ Hurt \/ NextFrame \/ reset_

Spec == Init /\ [][Next]_vars

(* The engine runs an active actor in every frame. *)
FairSpec ==
    /\ Spec
    /\ WF_vars(firstCalc_) /\ WF_vars(executeStateMachine_) /\ WF_vars(NextFrame)

-----------------------------------------------------------------------------
(* Types and ranges of the fields. *)
TypeOK ==
    /\ awake \in BOOLEAN
    /\ todo \subseteq {"first", "machine"}
    /\ state \in States
    /\ mHealth \in 0 .. MaxHealth
    /\ damaged \in BOOLEAN
    /\ anim \in [name : Anims, ended : BOOLEAN]
    /\ mDrownState \in BOOLEAN /\ mIsReturning \in BOOLEAN
    /\ mMutekiState \in 0 .. 3
    /\ chance \in [on : BOOLEAN, frame : 0 .. ChanceLen, rate : {-1, 0, 1}]
    /\ color \in {"Alpha", "Bravo"}
    /\ colType \in {1, 2}
    /\ mWasHitWall \in BOOLEAN /\ mHitWallCounter \in 0 .. WallWait
    /\ mPlayerHitTimer \in 0 .. PlayerHitWait
    /\ contact \in 0 .. MaxContact /\ bounced \in BOOLEAN
    /\ since \in [Players -> 0 .. PlayerHitWait] /\ again \in BOOLEAN

(* Against a wall the ball is reflected in the first frame of contact and  *)
(* then in one frame out of WallWait + 1, however long it stays, whatever  *)
(* states it goes through, and again at once after it has come off.        *)
WallBounce == contact > 0 => (bounced <=> contact % (WallWait + 1) = 1)

(* A drowned ball looks it: no collision, reflection, fall or bullet takes *)
(* the animation from it without ending the drowning too, and only a ball  *)
(* that has moved can drown.                                               *)
DrownShows ==
    mDrownState =>
      /\ state \in {"Move", "Fall", "Die"}
      /\ anim.name = IF mIsReturning THEN "Return" ELSE "Drown"

(* A ball that can hurt a player shows the colour of its own team.         *)
HostileLooks == getPlayerDamage => color = "Bravo"

(* A player who does not let go of the ball is pushed by it once, whatever *)
(* other players do meanwhile.                                             *)
PushedOnce == ~again

(* A ball without health falls asleep. *)
Dies == (mHealth = 0) ~> ~awake

=============================================================================
