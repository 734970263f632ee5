--------------------------- MODULE EnemyBallProofs ---------------------------
(***************************************************************************)
(* The safety properties of the ball, for any number of players, any       *)
(* length of the counters and of the animation, and contact of any length. *)
(* Each of the three properties that is not inductive gets the fact that   *)
(* makes it so: what the wall counter counts, where the colour of the      *)
(* other team can be worn, and what the push timer bounds.                 *)
(***************************************************************************)
EXTENDS EnemyBall, TLAPS

(* The counter is the remainder of the frames of contact. *)
WallCounted ==
    /\ mWasHitWall <=> contact > 0
    /\ contact > 0 => mHitWallCounter = (contact - 1) % (WallWait + 1)

(* The other team's colour is worn in state 1 only, with the animation     *)
(* stopped, so that the way back to state 2 finds it ended.                *)
ColourFits == color = "Alpha" => mMutekiState = 1 /\ ~chance.on

(* The timer runs at least until the last contact is PlayerHitWait old. *)
TimerCovers == \A p \in Players : PlayerHitWait - mPlayerHitTimer <= since[p]

(* The invariant by the variables it is about. *)
BodyInv ==
    /\ mHitWallCounter \in 0 .. WallWait
    /\ contact \in 0 .. MaxContact
    /\ WallCounted /\ WallBounce

Chance == [on : BOOLEAN, frame : 0 .. ChanceLen, rate : {-1, 0, 1}]

ShieldInv ==
    /\ mMutekiState \in 0 .. 3
    /\ chance \in Chance
    /\ color \in {"Alpha", "Bravo"}
    /\ colType \in {1, 2}
    /\ ColourFits

PushInv ==
    /\ mPlayerHitTimer \in 0 .. PlayerHitWait
    /\ since \in [Players -> 0 .. PlayerHitWait]
    /\ TimerCovers /\ PushedOnce

LookInv ==
    /\ state \in States
    /\ anim \in [name : Anims, ended : BOOLEAN]
    /\ DrownShows

LifeInv ==
    /\ todo \subseteq {"first", "machine"}
    /\ mHealth \in 0 .. MaxHealth

Flags ==
    /\ awake \in BOOLEAN /\ damaged \in BOOLEAN
    /\ mWasHitWall \in BOOLEAN /\ bounced \in BOOLEAN /\ again \in BOOLEAN
    /\ mDrownState \in BOOLEAN /\ mIsReturning \in BOOLEAN

IInv == Flags /\ BodyInv /\ ShieldInv /\ PushInv /\ LookInv /\ LifeInv

LEMMA Numbers ==
    /\ MaxHealth \in Nat \ {0} /\ WallWait \in Nat \ {0}
    /\ PlayerHitWait \in Nat /\ ChanceLen \in Nat \ {0} /\ MaxContact \in Nat
  BY BallAssumption DEF BallAssumption

-----------------------------------------------------------------------------
LEMMA Division ==
    ASSUME NEW k \in Nat, NEW M \in Nat, M > 1
    PROVE  /\ k \div M \in Int
           /\ k % M \in 0 .. M - 1
           /\ k = (M * (k \div M)) + (k % M)
  OBVIOUS

LEMMA Remainder ==
    ASSUME NEW k \in Nat, NEW M \in Nat, M > 1,
           NEW q \in Int, NEW r \in 0 .. M - 1, k = (M * q) + r
    PROVE  k % M = r
  BY Z3

(* The remainder of the next number. *)
LEMMA NextRemainder ==
    ASSUME NEW k \in Nat, NEW M \in Nat, M > 1
    PROVE  (k + 1) % M = IF k % M = M - 1 THEN 0 ELSE (k % M) + 1
<1> DEFINE q == k \div M
<1> DEFINE r == k % M
<1>1. q \in Int /\ r \in 0 .. M - 1 /\ k = (M * q) + r
  BY Division
<1> HIDE DEF q, r
<1>2. CASE r = M - 1
  <2>1. k + 1 = (M * (q + 1)) + 0
    BY <1>1, <1>2
  <2>2. (k + 1) % M = 0
    BY <1>1, <2>1, Remainder
  <2> QED
    BY <1>2, <2>2 DEF r
<1>3. CASE r # M - 1
  <2>1. k + 1 = (M * q) + (r + 1) /\ r + 1 \in 0 .. M - 1
    BY <1>1, <1>3
  <2>2. (k + 1) % M = r + 1
    BY <1>1, <2>1, Remainder
  <2> QED
    BY <1>3, <2>2 DEF r
<1> QED
  BY <1>2, <1>3

(* The animation stays in its bounds, and a stopped one stays stopped. *)
LEMMA PlayType ==
    ASSUME NEW c \in Chance
    PROVE  Play(c) \in Chance /\ (Play(c).on <=> c.on)
<1>1. c.on \in BOOLEAN /\ c.frame \in 0 .. ChanceLen /\ c.rate \in {-1, 0, 1}
  BY DEF Chance
<1>2. Frame(c.frame + c.rate) \in 0 .. ChanceLen
  BY <1>1, Numbers DEF Frame
<1>3. CASE c.on
  <2>1. Play(c) = [on |-> c.on, frame |-> Frame(c.frame + c.rate), rate |-> c.rate]
    BY <1>3 DEF Play, Chance
  <2> HIDE DEF Frame
  <2> QED
    BY <1>1, <1>2, <2>1 DEF Chance
<1> QED
  BY <1>3 DEF Play

-----------------------------------------------------------------------------
LEMMA InitOK == Init => IInv
<1> SUFFICES ASSUME Init PROVE IInv
  OBVIOUS
<1>1. BodyInv
  BY Numbers DEF Init, BodyInv, WallCounted, WallBounce
<1>2. ShieldInv
  BY Numbers DEF Init, ShieldInv, ColourFits, Chance, AtEnd
<1>3. PushInv
  BY Numbers DEF Init, PushInv, TimerCovers, PushedOnce
<1>4. LookInv
  BY DEF Init, LookInv, States, Anims, start, DrownShows
<1>5. LifeInv
  BY Numbers DEF Init, LifeInv
<1>6. Flags
  BY DEF Init, Flags
<1> QED
  BY <1>1, <1>2, <1>3, <1>4, <1>5, <1>6 DEF IInv

LEMMA ResetStep == ASSUME reset_ PROVE IInv'
<1>1. BodyInv'
  BY Numbers DEF reset_, BodyInv, WallCounted, WallBounce
<1>2. ShieldInv'
  BY Numbers DEF reset_, ShieldInv, ColourFits, Chance, AtEnd
<1>3. PushInv'
  BY Numbers DEF reset_, PushInv, TimerCovers, PushedOnce
<1>4. LookInv'
  BY DEF reset_, LookInv, States, Anims, start, DrownShows
<1>5. LifeInv'
  BY Numbers DEF reset_, LifeInv
<1>6. Flags'
  BY DEF reset_, Flags
<1> QED
  BY <1>1, <1>2, <1>3, <1>4, <1>5, <1>6 DEF IInv

(* What a step leaves alone keeps its part. *)
LEMMA BodyKept == BodyInv /\ UNCHANGED body => BodyInv'
  BY DEF BodyInv, body, WallCounted, WallBounce

LEMMA ShieldKept == ShieldInv /\ UNCHANGED shield => ShieldInv'
  BY DEF ShieldInv, shield, ColourFits

LEMMA PushKept == PushInv /\ UNCHANGED push => PushInv'
  BY DEF PushInv, push, TimerCovers, PushedOnce

LEMMA LookKept == LookInv /\ UNCHANGED <<state, look>> => LookInv'
  BY DEF LookInv, look, DrownShows

-----------------------------------------------------------------------------
(* A frame against the wall, or away from it. *)
LEMMA StateMoveBody == ASSUME Flags, BodyInv, stateMove_ PROVE BodyInv'
<1>1. PICK hitWall \in BOOLEAN :
        /\ hitWall => contact < MaxContact
        /\ CountWall(hitWall)
        /\ mWasHitWall' = hitWall
        /\ contact' = IF hitWall THEN contact + 1 ELSE 0
        /\ bounced' = Reflects(hitWall)
  BY DEF stateMove_
<1>2. CASE ~hitWall
  BY <1>1, <1>2, Numbers DEF BodyInv, WallCounted, WallBounce, CountWall, Reflects
<1>3. CASE hitWall /\ contact = 0
  <2>1. Reflects(hitWall)
    BY <1>3 DEF BodyInv, WallCounted, Reflects
  <2>2. 1 % (WallWait + 1) = 1 /\ 0 % (WallWait + 1) = 0
    <3>1. 1 = ((WallWait + 1) * 0) + 1 /\ 0 = ((WallWait + 1) * 0) + 0
      BY Numbers
    <3> QED
      BY <3>1, Remainder, Numbers
  <2>3. mHitWallCounter' = 0 /\ contact' = 1
    BY <1>1, <1>3, <2>1 DEF CountWall
  <2>4. mWasHitWall' /\ bounced'
    BY <1>1, <1>3, <2>1
  <2>5. 1 \in 0 .. MaxContact /\ contact' - 1 = 0
    BY <1>1, <1>3, <2>3, Numbers
  <2> QED
    BY <2>2, <2>3, <2>4, <2>5, Numbers DEF BodyInv, WallCounted, WallBounce
<1>4. CASE hitWall /\ contact > 0
  <2> DEFINE M == WallWait + 1
  <2> DEFINE k == contact - 1
  <2> DEFINE c == k % M
  <2>1. /\ contact \in Nat /\ k \in Nat /\ k + 1 = contact
        /\ M \in Nat /\ M > 1 /\ M - 1 = WallWait
    BY <1>4, Numbers DEF BodyInv
  <2> HIDE DEF M, k
  <2>2. c \in 0 .. WallWait
    BY <2>1, Division
  <2>3. contact % M = IF c = WallWait THEN 0 ELSE c + 1
    <3>1. (k + 1) % M = IF k % M = M - 1 THEN 0 ELSE (k % M) + 1
      BY <2>1, NextRemainder
    <3> QED
      BY <2>1, <3>1
  <2>4. (contact + 1) % M = IF contact % M = WallWait THEN 0 ELSE (contact % M) + 1
    <3>1. (contact + 1) % M = IF contact % M = M - 1 THEN 0 ELSE (contact % M) + 1
      BY <2>1, NextRemainder
    <3> QED
      BY <2>1, <3>1
  <2>5. mWasHitWall /\ mHitWallCounter = c
    BY <1>4 DEF BodyInv, WallCounted, M, k
  <2>6. Reflects(hitWall) <=> c = WallWait
    <3>1. mHitWallCounter < WallWait <=> c # WallWait
      BY <2>2, <2>5, Numbers
    <3> QED
      BY <1>4, <2>5, <3>1 DEF Reflects
  <2>7. mHitWallCounter' = contact % M
    BY <1>1, <1>4, <2>3, <2>5, <2>6 DEF CountWall
  <2>8. bounced' <=> contact' % M = 1
    <3>1. contact' = contact + 1
      BY <1>1, <1>4
    <3>2. bounced' <=> c = WallWait
      BY <1>1, <2>6
    <3> HIDE DEF c
    <3>3. (contact + 1) % M = 1 <=> c = WallWait
      BY <2>2, <2>3, <2>4, Numbers
    <3> QED
      BY <3>1, <3>2, <3>3
  <2>9. /\ contact' \in 0 .. MaxContact /\ contact' > 0
        /\ contact' - 1 = contact /\ mWasHitWall'
    BY <1>1, <1>4, <2>1, Numbers DEF BodyInv, k
  <2>10. mHitWallCounter' \in 0 .. WallWait
    BY <2>2, <2>3, <2>7, Numbers
  <2> QED
    BY <1>1, Numbers, <2>7, <2>8, <2>9, <2>10
       DEF BodyInv, WallCounted, WallBounce, Reflects, M
<1> QED
  BY <1>2, <1>3, <1>4 DEF BodyInv

(* The looks after a reflection, a roll or neither. *)
LEMMA CalcRollLook ==
    ASSUME Flags, Moving,
           NEW a \in [name : Anims, ended : BOOLEAN], NEW drown \in BOOLEAN,
           NEW stops \in BOOLEAN,
           drown => a.name = IF mIsReturning THEN "Return" ELSE "Drown",
           calcRoll_([a |-> a, drown |-> drown], stops)
    PROVE  /\ anim' \in [name : Anims, ended : BOOLEAN]
           /\ mDrownState' \in BOOLEAN /\ mIsReturning' \in BOOLEAN
           /\ mDrownState' =>
                anim'.name = IF mIsReturning' THEN "Return" ELSE "Drown"
<1>1. CASE damaged /\ ~drown /\ stops
  <2>1. anim' = start("Drown") /\ mDrownState' = TRUE /\ mIsReturning' = FALSE
    BY <1>1 DEF calcRoll_
  <2> QED
    BY <2>1 DEF start, Anims
<1>2. CASE ~(damaged /\ ~drown /\ stops)
  <2>1. anim' = a /\ mDrownState' = (drown /\ damaged)
        /\ mIsReturning' = mIsReturning
    BY <1>2 DEF calcRoll_
  <2> QED
    BY <2>1 DEF Flags
<1> QED
  BY <1>1, <1>2

LEMMA StateMoveLook ==
    ASSUME Flags, LookInv, Moving, stateMove_, state' = state
    PROVE  LookInv' /\ mDrownState' \in BOOLEAN /\ mIsReturning' \in BOOLEAN
<1>1. PICK stops \in BOOLEAN, reflected \in BOOLEAN :
        calcRoll_(IF reflected THEN onHitWall_
                  ELSE [a |-> anim, drown |-> mDrownState], stops)
  BY DEF stateMove_, Reflects
<1> DEFINE a == IF reflected THEN start("Roll") ELSE anim
<1> DEFINE drown == IF reflected THEN FALSE ELSE mDrownState
<1>2. a \in [name : Anims, ended : BOOLEAN]
  BY DEF LookInv, start, Anims
<1>3. drown \in BOOLEAN
  BY DEF Flags
<1>4. drown => a.name = IF mIsReturning THEN "Return" ELSE "Drown"
  BY DEF LookInv, DrownShows
<1>5. calcRoll_([a |-> a, drown |-> drown], stops)
  BY <1>1 DEF onHitWall_
<1> HIDE DEF a, drown
<1>6. /\ anim' \in [name : Anims, ended : BOOLEAN]
      /\ mDrownState' \in BOOLEAN /\ mIsReturning' \in BOOLEAN
      /\ mDrownState' =>
           anim'.name = IF mIsReturning' THEN "Return" ELSE "Drown"
  BY <1>2, <1>3, <1>4, <1>5, CalcRollLook
<1> QED
  BY <1>6 DEF LookInv, DrownShows, Moving

LEMMA MachineStep == ASSUME IInv, executeStateMachine_ PROVE IInv'
<1>1. awake /\ todo' = todo \ {"machine"}
      /\ UNCHANGED <<awake, state, mHealth, damaged, push, shield>>
  BY DEF executeStateMachine_
<1>2. CASE Moving
  <2>1. stateMove_
    BY <1>2 DEF executeStateMachine_
  <2>2. BodyInv' /\ LookInv' /\ mDrownState' \in BOOLEAN /\ mIsReturning' \in BOOLEAN
    BY <1>1, <1>2, <2>1, StateMoveBody, StateMoveLook DEF IInv
  <2>3. mWasHitWall' \in BOOLEAN /\ bounced' \in BOOLEAN
    BY <2>1 DEF stateMove_, Reflects
  <2> QED
    BY <1>1, <2>2, <2>3, ShieldKept, PushKept DEF IInv, Flags, LifeInv, push
<1>3. CASE ~Moving
  <2>1. UNCHANGED <<body, look>>
    BY <1>3 DEF executeStateMachine_
  <2>2. Flags'
    BY <1>1, <2>1 DEF IInv, Flags, body, look, push
  <2> QED
    BY <1>1, <2>1, <2>2, BodyKept, ShieldKept, PushKept, LookKept DEF IInv, LifeInv
<1> QED
  BY <1>2, <1>3

-----------------------------------------------------------------------------
(* firstCalc_, part by part. *)
LEMMA FirstCalcShield ==
    ASSUME ShieldInv, NEW s \in States,
           NEW sunkLong \in BOOLEAN, NEW dryLong \in BOOLEAN,
           calcMuteki_(s, sunkLong, dryLong), setObjColMuteki_(mMutekiState')
    PROVE  ShieldInv'
<1>1. colType' \in {1, 2}
  BY DEF setObjColMuteki_
<1>2. /\ mMutekiState' \in 0 .. 3 /\ chance' \in Chance
      /\ color' \in {"Alpha", "Bravo"} /\ ColourFits'
  <2>1. CASE BeginChance(sunkLong)
    <3>1. /\ mMutekiState = 0 /\ mMutekiState' = 3 /\ color' = color
          /\ chance' = IF isEndCurrentAnim(chance)
                       THEN [on |-> TRUE, frame |-> 0, rate |-> 1]
                       ELSE [chance EXCEPT !.rate = 1]
      BY <2>1 DEF BeginChance
    <3>2. chance' \in Chance
      BY <3>1, Numbers DEF ShieldInv, Chance
    <3> QED
      BY <3>1, <3>2 DEF ShieldInv, ColourFits
  <2>2. CASE ShowChance(s)
    <3>1. /\ mMutekiState' = mMutekiState /\ mMutekiState = 1
          /\ color' = "Alpha" /\ chance' = resetAnim
      BY <2>2 DEF ShowChance
    <3>2. chance' \in Chance /\ ~chance'.on
      BY <3>1, Numbers DEF Chance, resetAnim
    <3> QED
      BY <3>1, <3>2 DEF ColourFits
  <2>3. CASE EndChance(s, dryLong)
    <3>1. CASE isEndCurrentAnim(chance)
      <4>1. color' = "Bravo" /\ chance' = AtEnd(-1) /\ mMutekiState' = 2
        BY <2>3, <3>1 DEF EndChance
      <4>2. chance' \in Chance
        BY <4>1, Numbers DEF Chance, AtEnd
      <4> QED
        BY <4>1, <4>2 DEF ColourFits
    <3>2. CASE ~isEndCurrentAnim(chance)
      <4>1. /\ color' = color /\ chance' = [chance EXCEPT !.rate = -1]
            /\ mMutekiState' = 2
        BY <2>3, <3>2 DEF EndChance
      <4>2. chance' \in Chance
        BY <4>1 DEF ShieldInv, Chance
      <4>3. color # "Alpha"
        BY <3>2 DEF ShieldInv, ColourFits, isEndCurrentAnim
      <4> QED
        BY <4>1, <4>2, <4>3 DEF ShieldInv, ColourFits
    <3> QED
      BY <3>1, <3>2
  <2>4. CASE Faded
    BY <2>4 DEF Faded, ShieldInv, ColourFits
  <2>5. CASE Stays(s, sunkLong, dryLong)
    BY <2>5 DEF Stays, ShieldInv, ColourFits
  <2> QED
    BY <2>1, <2>2, <2>3, <2>4, <2>5 DEF calcMuteki_
<1> QED
  BY <1>1, <1>2 DEF ShieldInv

LEMMA FirstCalcLook ==
    ASSUME Flags, LookInv,
           NEW s \in States,
           s = state \/ s \in {"Move", "Fall", "Die"} \/ state = "Wait",
           NEW dryShort \in BOOLEAN,
           state' = s, calcChangeAnim_(s, Entered(s), dryShort)
    PROVE  LookInv' /\ mDrownState' \in BOOLEAN /\ mIsReturning' \in BOOLEAN
<1> DEFINE a == Entered(s).a
<1> DEFINE drown == Entered(s).drown
<1>1. a = CASE s = state \/ s = "Die"             -> anim
            [] s = "Notice" /\ s # state           -> start("Find")
            [] s \in {"Move", "Fall"} /\ s # state -> start("Roll")
  BY DEF Entered
<1>2. drown = (mDrownState /\ (s = state \/ s \notin {"Move", "Fall"}))
  BY DEF Entered
<1>3. a \in [name : Anims, ended : BOOLEAN]
  <2>1. start("Find") \in [name : Anims, ended : BOOLEAN]
        /\ start("Roll") \in [name : Anims, ended : BOOLEAN]
    BY DEF start, Anims
  <2> HIDE DEF a
  <2> QED
    BY <1>1, <2>1 DEF LookInv, States
<1>4. drown \in BOOLEAN
  BY <1>2 DEF Flags
<1>5. drown => /\ s \in {"Move", "Fall", "Die"}
               /\ a = anim
               /\ anim.name = IF mIsReturning THEN "Return" ELSE "Drown"
  <2> HIDE DEF a, drown
  <2> QED
    BY <1>1, <1>2 DEF LookInv, DrownShows, States
<1> DEFINE l == Entered(s)
<1> DEFINE returns == drown /\ ~mIsReturning /\ ~damaged /\ dryShort
<1> DEFINE rolls == s \in {"Move", "Fall"} /\ a.ended
<1>6. \/ s # "Die" /\ returns /\ anim' = start("Return") /\ mIsReturning' = TRUE
         /\ mDrownState' = drown
      \/ anim' = start("Roll") /\ mDrownState' = FALSE /\ mIsReturning' = FALSE
      \/ anim' = a /\ mDrownState' = drown /\ mIsReturning' = mIsReturning
  <2> HIDE DEF l
  <2> QED
    BY DEF calcChangeAnim_, l
<1> HIDE DEF a, drown
<1>7. CASE anim' = start("Return") /\ mIsReturning' = TRUE /\ mDrownState' = drown
  BY <1>4, <1>5, <1>7 DEF LookInv, DrownShows, start, Anims
<1>8. CASE anim' = start("Roll") /\ mDrownState' = FALSE /\ mIsReturning' = FALSE
  BY <1>8 DEF LookInv, DrownShows, start, Anims
<1>9. CASE anim' = a /\ mDrownState' = drown /\ mIsReturning' = mIsReturning
  BY <1>3, <1>4, <1>5, <1>9 DEF LookInv, DrownShows, Flags
<1> QED
  BY <1>6, <1>7, <1>8, <1>9

LEMMA FirstCalcPush ==
    ASSUME PushInv, again' = again,
           mPlayerHitTimer' = IF mPlayerHitTimer > 0 THEN mPlayerHitTimer - 1 ELSE 0,
           since' = [p \in Players |-> Later(since[p])]
    PROVE  PushInv'
<1>1. mPlayerHitTimer' \in 0 .. PlayerHitWait
  BY Numbers DEF PushInv
<1>2. \A p \in Players : /\ Later(since[p]) \in 0 .. PlayerHitWait
                         /\ PlayerHitWait - mPlayerHitTimer' <= Later(since[p])
  BY Numbers DEF PushInv, TimerCovers, Later
<1>3. since' \in [Players -> 0 .. PlayerHitWait] /\ TimerCovers'
  BY <1>2 DEF TimerCovers
<1> QED
  BY <1>1, <1>3 DEF PushInv, PushedOnce

LEMMA FirstCalcStep == ASSUME IInv, firstCalc_ PROVE IInv'
<1>1. PICK lockOn \in BOOLEAN, sunk \in BOOLEAN, sunkLong \in BOOLEAN,
           dryShort \in BOOLEAN, dryLong \in BOOLEAN,
           hitGnd \in BOOLEAN, gndBelow \in BOOLEAN :
        LET s == NextState(lockOn, sunk, hitGnd, gndBelow)
        IN  /\ state' = s
            /\ calcChangeAnim_(s, Entered(s), dryShort)
            /\ calcMuteki_(s, sunkLong, dryLong)
            /\ setObjColMuteki_(mMutekiState')
  BY DEF firstCalc_
<1> DEFINE s == NextState(lockOn, sunk, hitGnd, gndBelow)
<1>2. /\ state' = s
      /\ calcChangeAnim_(s, Entered(s), dryShort)
      /\ calcMuteki_(s, sunkLong, dryLong)
      /\ setObjColMuteki_(mMutekiState')
  BY <1>1
<1>3. s \in States /\ (s = state \/ s \in {"Move", "Fall", "Die"} \/ state = "Wait")
  BY DEF NextState, States, IInv, LookInv
<1> HIDE DEF s
<1>4. /\ todo' = todo \ {"first"} /\ again' = again
      /\ UNCHANGED <<awake, mHealth, damaged, body>>
      /\ mPlayerHitTimer' = IF mPlayerHitTimer > 0 THEN mPlayerHitTimer - 1 ELSE 0
      /\ since' = [p \in Players |-> Later(since[p])]
  BY DEF firstCalc_
<1>5. LookInv' /\ mDrownState' \in BOOLEAN /\ mIsReturning' \in BOOLEAN
  BY <1>2, <1>3, FirstCalcLook DEF IInv
<1>6. ShieldInv'
  BY <1>2, <1>3, FirstCalcShield DEF IInv
<1>7. PushInv'
  BY <1>4, FirstCalcPush DEF IInv
<1>8. BodyInv'
  BY <1>4, BodyKept DEF IInv
<1>9. Flags'
  BY <1>4, <1>5 DEF IInv, Flags, body
<1> QED
  BY <1>4, <1>5, <1>6, <1>7, <1>8, <1>9 DEF IInv, LifeInv

-----------------------------------------------------------------------------
LEMMA PlayerStep ==
    ASSUME IInv, NEW p \in Players, interactColPlayer_(p) PROVE IInv'
<1>1. /\ mPlayerHitTimer' = PlayerHitWait
      /\ again' = (again \/ (mPlayerHitTimer = 0 /\ since[p] < PlayerHitWait))
      /\ since' = [since EXCEPT ![p] = 0]
      /\ UNCHANGED <<awake, todo, state, mHealth, damaged, body, shield, look>>
  BY DEF interactColPlayer_
<1>2. mPlayerHitTimer = 0 => ~(since[p] < PlayerHitWait)
  BY Numbers DEF IInv, PushInv, TimerCovers
<1>3. ~again'
  BY <1>1, <1>2 DEF IInv, PushInv, PushedOnce
<1>4. since' \in [Players -> 0 .. PlayerHitWait] /\ mPlayerHitTimer' \in 0 .. PlayerHitWait
  BY <1>1, Numbers DEF IInv, PushInv
<1>5. TimerCovers'
  BY <1>1, <1>4, Numbers DEF TimerCovers
<1>6. PushInv'
  BY <1>3, <1>4, <1>5 DEF PushInv, PushedOnce
<1>7. Flags'
  BY <1>1, <1>3 DEF IInv, Flags, body, look
<1> QED
  BY <1>1, <1>6, <1>7, BodyKept, ShieldKept, LookKept DEF IInv, LifeInv

LEMMA BulletStep == ASSUME IInv, interactColBullet_ PROVE IInv'
<1>1. /\ ~mDrownState /\ anim' = start("Back") /\ mIsReturning' = FALSE
      /\ UNCHANGED <<awake, todo, state, mHealth, damaged, mDrownState,
                     body, shield, push>>
  BY DEF interactColBullet_
<1>2. LookInv'
  BY <1>1 DEF IInv, LookInv, DrownShows, start, Anims
<1>3. Flags'
  BY <1>1 DEF IInv, Flags, body, push
<1> QED
  BY <1>1, <1>2, <1>3, BodyKept, ShieldKept, PushKept DEF IInv, LifeInv

LEMMA HurtStep == ASSUME IInv, Hurt PROVE IInv'
<1>1. /\ mHealth > 0 /\ mHealth' = mHealth - 1
      /\ UNCHANGED <<awake, todo, state, damaged, body, shield, push, look>>
  BY DEF Hurt
<1>2. LifeInv'
  BY <1>1, Numbers DEF IInv, LifeInv
<1>3. Flags'
  BY <1>1 DEF IInv, Flags, body, push, look
<1> QED
  BY <1>1, <1>2, <1>3, BodyKept, ShieldKept, PushKept, LookKept DEF IInv

LEMMA FrameStep == ASSUME IInv, NextFrame PROVE IInv'
<1>1. /\ todo' = {"first", "machine"} /\ damaged' \in BOOLEAN
      /\ awake' = (state # "Die") /\ chance' = Play(chance)
      /\ UNCHANGED <<state, mHealth, body, push, mMutekiState, color, colType,
                     mDrownState, mIsReturning>>
  BY DEF NextFrame
<1>2. PICK e \in {anim.ended, TRUE} : anim' = [anim EXCEPT !.ended = e]
  BY DEF NextFrame
<1>3. LookInv'
  BY <1>1, <1>2 DEF IInv, LookInv, DrownShows
<1>4. chance' \in Chance /\ (chance'.on <=> chance.on)
  BY <1>1, PlayType DEF IInv, ShieldInv
<1>5. ShieldInv'
  BY <1>1, <1>4 DEF IInv, ShieldInv, ColourFits
<1>6. Flags'
  BY <1>1 DEF IInv, Flags, body, push
<1>7. LifeInv'
  BY <1>1 DEF IInv, LifeInv
<1> QED
  BY <1>1, <1>3, <1>5, <1>6, <1>7, BodyKept, PushKept DEF IInv

LEMMA StepOK == IInv /\ [Next]_vars => IInv'
<1> SUFFICES ASSUME IInv, [Next]_vars PROVE IInv'
  OBVIOUS
<1>1. CASE firstCalc_
  BY <1>1, FirstCalcStep
<1>2. CASE executeStateMachine_
  BY <1>2, MachineStep
<1>3. ASSUME NEW p \in Players, interactColPlayer_(p) PROVE IInv'
  BY <1>3, PlayerStep
<1>4. CASE interactColBullet_
  BY <1>4, BulletStep
<1>5. CASE Hurt
  BY <1>5, HurtStep
<1>6. CASE NextFrame
  BY <1>6, FrameStep
<1>7. CASE reset_
  BY <1>7, ResetStep
<1>8. CASE UNCHANGED vars
  <2>1. UNCHANGED <<awake, todo, state, mHealth, damaged, body, shield, push, look>>
    BY <1>8 DEF vars
  <2>2. Flags'
    BY <2>1 DEF IInv, Flags, body, push, look
  <2> QED
    BY <2>1, <2>2, BodyKept, ShieldKept, PushKept, LookKept DEF IInv, LifeInv
<1> QED
  BY <1>1, <1>2, <1>3, <1>4, <1>5, <1>6, <1>7, <1>8 DEF Next

-----------------------------------------------------------------------------
(* The parts of the invariant hold in every reachable state. *)
THEOREM Invariance == Spec => []IInv
  BY InitOK, StepOK, PTL DEF Spec

(* Every field of the ball stays in its range, the counters of the wall    *)
(* and of the pushes and the frames of the animation included.             *)
THEOREM TypeCorrect == Spec => []TypeOK
<1>1. IInv => TypeOK
  BY DEF IInv, Flags, BodyInv, ShieldInv, Chance, PushInv, LookInv, LifeInv, TypeOK
<1> QED
  BY <1>1, Invariance, PTL

(* One reflection per WallWait + 1 frames of contact, the first at once.   *)
THEOREM WallReflects == Spec => []WallBounce
<1>1. IInv => WallBounce
  BY DEF IInv, BodyInv
<1> QED
  BY <1>1, Invariance, PTL

(* A drowned ball looks drowned.                                           *)
THEOREM DrowningShows == Spec => []DrownShows
<1>1. IInv => DrownShows
  BY DEF IInv, LookInv
<1> QED
  BY <1>1, Invariance, PTL

(* A ball in the other team's colour hurts nobody.                         *)
THEOREM LooksHonest == Spec => []HostileLooks
<1>1. IInv => HostileLooks
  BY DEF IInv, ShieldInv, ColourFits, HostileLooks, getPlayerDamage
<1> QED
  BY <1>1, Invariance, PTL

(* No player is pushed again before it has let go for PlayerHitWait frames.*)
THEOREM PushesOnce == Spec => []PushedOnce
<1>1. IInv => PushedOnce
  BY DEF IInv, PushInv
<1> QED
  BY <1>1, Invariance, PTL

=============================================================================
