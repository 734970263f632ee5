----------------------------- MODULE Inkstrike ------------------------------
(***************************************************************************)
(* The Inkstrike special on one console: source/InkstrikeMgr.cpp, with the *)
(* hooks of source/main.cpp that drive it, the projectiles of module       *)
(* BulletSuperArtillery and the inhibitor of module InkTankOverride.       *)
(*                                                                         *)
(* The engine runs frames.  In a frame every player's firstCalc and every  *)
(* awake bullet's firstCalc run once, in an order the code does not        *)
(* control; then the engine carries out the reserved activations and       *)
(* sleeps and mPaintGameFrame advances.  One handler call is one step.     *)
(***************************************************************************)
EXTENDS Integers, BulletSuperArtillery, InkTankOverride

CONSTANTS Players,           \* the players of the scene
          Ctrl,              \* the one this console controls
          InkstrikeWeapons,  \* weapons whose special is TORNADO_SPECIAL_ID
          ShootingRange,     \* TRUE: offline, swaps and cleanup; FALSE: a match
          PrepareDelay,      \* startflightdelay, 40 frames in the code
          PlayerDelay,       \* playerdelay, 60 frames in the code
          StaleFrames        \* bound on how far a frame stamp can lie ahead
                             \* of mPaintGameFrame in the next scene

ASSUME PlayerAssumption ==
    /\ Ctrl \in Players
    /\ InkstrikeWeapons \subseteq Weapons
    /\ ShootingRange \in BOOLEAN
    /\ PrepareDelay \in Nat /\ PlayerDelay \in Nat /\ StaleFrames \in Nat

VARIABLES
    scene,         \* "loaded", "leaving" (onCalc has not seen it) or "reset"
    mMatchEnding,  \* set by isSleepingAllHook
    players,       \* per player: the manager's arrays and the engine's fields
    bullets,       \* bullets[id][slot]
    lock,          \* the tank-change inhibitor
    ranPlayers,    \* players whose firstCalc ran in this frame
    ranBullets     \* bullets whose firstCalc ran in this frame

vars == <<scene, mMatchEnding, players, bullets, lock, ranPlayers, ranBullets>>

Slots == {0, 1}
NoSlot == -1
TornadoState == {"cNone", "cAim", "cShootPrepare", "cShoot"}

(* What the engine says of a player in one frame: isInTrouble_AirFall;     *)
(* isInTrouble_Dying or _WaterFall; not alive; Princess Cannon picked up.  *)
Conditions == {"fine", "airfall", "dying", "dead", "cannon"}

(* state      playerState            wait     frames until the delay counted *)
(* slot       mActiveSlot                     from mShootPrepareFrm or       *)
(* wasAHeld   mWasAHeld                       mShootFrm has passed           *)
(* pending    mRemoteShotPending     weapon   mMainWeaponId                  *)
(* noControl  mNoControlPtr: null, a bullet, or read outside bullets[][]     *)
(* inSpecial  isInSpecial()                                                  *)
(* aimTank    history: the tank of the weapon held when cAim was entered     *)
Player == [state : TornadoState, slot : Slots \cup {NoSlot}, wait : Nat,
           wasAHeld : BOOLEAN, pending : BOOLEAN,
           noControl : {"null", "bullet", "stray"}, inSpecial : BOOLEAN,
           weapon : Weapons, aimTank : {TankOf[w] : w \in Weapons}]

AllBullets == Players \X Slots
loaded == scene = "loaded"
hasInkstrike(me) == me.weapon \in InkstrikeWeapons
Swapped(me) == ~me.inSpecial /\ ~hasInkstrike(me)

-----------------------------------------------------------------------------
(* A handler works on one player, that player's two bullets and the lock:  *)
(* the record w below.                                                     *)

pickFreeSlotIgnoringBusy(b) == 0
pickFreeSlot(b) == IF isActive(b[0]) /\ ~isActive(b[1]) THEN 1 ELSE 0

WaitOnSlot(w) ==
    IF w.me.slot = NoSlot THEN w.b
    ELSE [w.b EXCEPT ![w.me.slot] = enterWait(@)]

CancelOnSlot(w) ==
    IF w.me.slot = NoSlot THEN w.b
    ELSE [w.b EXCEPT ![w.me.slot] = cancel(@)]

(* Without clearing the remote shot left over from the last activation. *)
EnterAimKeepingShot(w) ==
    LET s == pickFreeSlot(w.b)
    IN  [me   |-> [w.me EXCEPT !.state = "cAim", !.slot = s,
                               !.aimTank = computeTankId(w.me.weapon)],
         b    |-> IF isActive(w.b[s]) THEN w.b
                  ELSE [w.b EXCEPT ![s] = prepare(@)],
         lock |-> lockForInkstrike(w.me.weapon)]

EnterAimWithoutLock(w) == [EnterAimKeepingShot(w) EXCEPT !.lock = w.lock]

EnterAim(w) ==
    LET s == pickFreeSlot(w.b)
    IN  [me   |-> [w.me EXCEPT !.state = "cAim", !.slot = s, !.pending = FALSE,
                               !.aimTank = computeTankId(w.me.weapon)],
         b    |-> IF isActive(w.b[s]) THEN w.b
                  ELSE [w.b EXCEPT ![s] = prepare(@)],
         lock |-> lockForInkstrike(w.me.weapon)]

TakeRemoteShot(w) ==
    [me   |-> [w.me EXCEPT !.state = "cShootPrepare", !.wait = PrepareDelay],
     b    |-> WaitOnSlot(w),
     lock |-> w.lock]

StartsAim(me) == me.inSpecial /\ hasInkstrike(me) /\ me.state = "cNone"

detectChangeState(w) ==
    LET v == IF StartsAim(w.me) THEN EnterAim(w) ELSE w
    IN  IF v.me.pending /\ v.me.state = "cAim" THEN TakeRemoteShot(v) ELSE v

(* Back to cNone out of cAim, dead, fallen, without the special or its     *)
(* weapon.  Only a flying or bursting bullet is cancelled.                 *)
CancelAimKeepingHold(w) ==
    [me   |-> [w.me EXCEPT !.state = "cNone", !.pending = FALSE, !.slot = NoSlot],
     b    |-> IF w.me.slot # NoSlot /\ isActive(w.b[w.me.slot])
              THEN CancelOnSlot(w) ELSE w.b,
     lock |-> unlock(w.lock)]

CancelAimKeepingLock(w) == [CancelAimKeepingHold(w) EXCEPT !.lock = w.lock]

CancelAim(w) ==
    [me   |-> [w.me EXCEPT !.state = "cNone", !.wasAHeld = FALSE,
                           !.pending = FALSE, !.slot = NoSlot],
     b    |-> IF w.me.slot # NoSlot /\ isActive(w.b[w.me.slot])
              THEN CancelOnSlot(w) ELSE w.b,
     lock |-> unlock(w.lock)]

(* The controlled player fires.  The Shot event goes to the other consoles *)
(* and the special's gauge is emptied.                                     *)
Commit(w) ==
    [me   |-> [w.me EXCEPT !.state = "cShootPrepare", !.wait = PrepareDelay,
                           !.wasAHeld = FALSE, !.inSpecial = FALSE,
                           !.noControl = IF w.me.slot = NoSlot
                                         THEN "stray" ELSE "bullet"],
     b    |-> WaitOnSlot(w),
     lock |-> w.lock]

(* Weapon swapped during the wind-up: everything is torn down. *)
CancelPrepare(w) ==
    [me   |-> [w.me EXCEPT !.state = "cNone", !.wasAHeld = FALSE,
                           !.pending = FALSE, !.slot = NoSlot,
                           !.noControl = "null"],
     b    |-> CancelOnSlot(w),
     lock |-> unlock(w.lock)]

informShotInkstrike(w, long) ==
    IF w.me.slot = NoSlot \/ w.b[w.me.slot].flightActive THEN w.b
    ELSE [w.b EXCEPT ![w.me.slot] = launch(@, long)]

Shoot(w, long) ==
    [me   |-> [w.me EXCEPT !.state = "cShoot", !.wait = PlayerDelay],
     b    |-> informShotInkstrike(w, long),
     lock |-> w.lock]

ReleaseWithoutControl(w, slot) ==
    [me   |-> [w.me EXCEPT !.state = "cNone", !.slot = slot],
     b    |-> w.b,
     lock |-> unlock(w.lock)]

(* The player is released and the bullet left to fly.  After a swap the    *)
(* slot is forgotten; after a clean end mActiveSlot keeps its value.       *)
Release(w, slot) ==
    [me   |-> [w.me EXCEPT !.state = "cNone", !.noControl = "null",
                           !.slot = slot],
     b    |-> w.b,
     lock |-> unlock(w.lock)]

-----------------------------------------------------------------------------
Init ==
    /\ scene = "loaded"
    /\ mMatchEnding = FALSE
    /\ \E w \in Weapons, t \in {TankOf[w] : w \in Weapons} :
         /\ players = [p \in Players |->
              [state |-> "cNone", slot |-> NoSlot, wait |-> 0,
               wasAHeld |-> FALSE, pending |-> FALSE, noControl |-> "null",
               inSpecial |-> FALSE, weapon |-> w, aimTank |-> t]]
         /\ lock = [held |-> FALSE, tank |-> t]
    /\ bullets = [p \in Players |-> [s \in Slots |-> create]]
    /\ ranPlayers = {}
    /\ ranBullets = {}

Put(p, v) ==
    /\ players' = [players EXCEPT ![p] = v.me]
    /\ bullets' = [bullets EXCEPT ![p] = v.b]
    /\ lock' = v.lock
    /\ ranPlayers' = ranPlayers \cup {p}
    /\ UNCHANGED <<scene, mMatchEnding, ranBullets>>

(* The part of the switch for each state, on the world w that              *)
(* detectChangeState left.                                                 *)
WhileNone(p, w) ==
    /\ w.me.state = "cNone"
    /\ Put(p, w)

AimLost(cond, me) == cond \in {"dying", "dead", "cannon"} \/ Swapped(me)

AimCancelled(p, cond, w) ==
    /\ w.me.state = "cAim"
    /\ AimLost(cond, w.me)
    /\ Put(p, CancelAim(w))

(* The special ran out, or the match is ending: fire anyway. *)
AutoCommit(p, cond, w) ==
    /\ w.me.state = "cAim"
    /\ ~AimLost(cond, w.me)
    /\ p = Ctrl
    /\ ~w.me.inSpecial \/ mMatchEnding
    /\ Put(p, Commit(w))

Aiming(p, cond, w) ==
    /\ w.me.state = "cAim"
    /\ ~AimLost(cond, w.me)
    /\ p = Ctrl => w.me.inSpecial /\ ~mMatchEnding

RemoteAims(p, cond, w) ==
    /\ Aiming(p, cond, w)
    /\ p # Ctrl
    /\ Put(p, w)

MapHidden(p, cond, w) ==
    /\ Aiming(p, cond, w)
    /\ p = Ctrl
    /\ Put(p, [w EXCEPT !.me = [w.me EXCEPT !.wasAHeld = FALSE]])

(* The minimap is shown but the camera has not arrived (cameraanim). *)
MapOpening(p, cond, w) ==
    /\ Aiming(p, cond, w)
    /\ p = Ctrl
    /\ Put(p, w)

(* valid: the cursor is over ground the tornado can hit. *)
MapOpen(p, cond, w) ==
    /\ Aiming(p, cond, w)
    /\ p = Ctrl
    /\ \E aHeld, valid \in BOOLEAN :
         IF ~aHeld /\ w.me.wasAHeld /\ valid
         THEN Put(p, Commit(w))
         ELSE Put(p, [w EXCEPT !.me = [w.me EXCEPT !.wasAHeld = aHeld]])

PrepareCancelled(p, w) ==
    /\ w.me.state = "cShootPrepare"
    /\ Swapped(w.me)
    /\ Put(p, CancelPrepare(w))

Preparing(p, cond, w) ==
    LET due == w.me.wait = 0 \/ cond \in {"dying", "airfall"} \/ mMatchEnding
    IN  /\ w.me.state = "cShootPrepare"
        /\ ~Swapped(w.me)
        /\ Put(p, IF due THEN Shoot(w, mMatchEnding \/ cond = "dead") ELSE w)

ShootSwapped(p, w) ==
    /\ w.me.state = "cShoot"
    /\ Swapped(w.me)
    /\ Put(p, Release(w, NoSlot))

ShootingForever(p, w) ==
    /\ w.me.state = "cShoot"
    /\ Put(p, w)

Shooting(p, w) ==
    /\ w.me.state = "cShoot"
    /\ ~Swapped(w.me)
    /\ Put(p, IF w.me.wait = 0 THEN Release(w, w.me.slot) ELSE w)

(* playerFirstCalcOg, the engine's own firstCalc, runs first: it may start *)
(* the special, and it ends the special of a player in trouble.  Two slots *)
(* suffice because the gauge takes longer to fill than a strike to end.    *)
CanBegin(p) ==
    /\ players[p].state = "cNone"
    /\ ~mMatchEnding
    /\ \E s \in Slots : ~isActive(bullets[p][s])

AfterOg(p, cond, begin) ==
    LET special == cond \notin {"dying", "dead", "cannon"}
                     /\ (players[p].inSpecial \/ begin)
    IN  [me |-> [players[p] EXCEPT !.inSpecial = special],
         b |-> bullets[p], lock |-> lock]

PlayerFirstCalc(p) ==
    /\ loaded
    /\ p \notin ranPlayers
    /\ \E cond \in Conditions, begin \in BOOLEAN :
         /\ begin => CanBegin(p)
         /\ LET w == detectChangeState(AfterOg(p, cond, begin))
            IN  \/ WhileNone(p, w)
                \/ AimCancelled(p, cond, w)
                \/ AutoCommit(p, cond, w)
                \/ RemoteAims(p, cond, w)
                \/ MapHidden(p, cond, w)
                \/ MapOpening(p, cond, w)
                \/ MapOpen(p, cond, w)
                \/ PrepareCancelled(p, w)
                \/ Preparing(p, cond, w)
                \/ ShootSwapped(p, w)
                \/ Shooting(p, w)

(* stateAim and stateWait have empty bodies: only a bullet that flies or   *)
(* bursts takes a turn of its own.                                         *)
HasTurn(b) == b.awake /\ b.sm \in {"Pronounce", "Burst"}

BulletFirstCalc(p, s) ==
    /\ loaded
    /\ HasTurn(bullets[p][s])
    /\ <<p, s>> \notin ranBullets
    /\ bullets' = [bullets EXCEPT ![p][s] = vtFirstCalc(@)]
    /\ ranBullets' = ranBullets \cup {<<p, s>>}
    /\ UNCHANGED <<scene, mMatchEnding, players, lock, ranPlayers>>

FrameDone ==
    /\ loaded
    /\ ranPlayers = Players
    /\ \A p \in Players, s \in Slots :
         HasTurn(bullets[p][s]) => <<p, s>> \in ranBullets

(* Reservations are carried out and mPaintGameFrame advances. *)
NextFrame ==
    /\ FrameDone
    /\ bullets' = [p \in Players |->
                     [s \in Slots |-> Elapse(Settle(bullets[p][s]))]]
    /\ players' = [p \in Players |->
                     [players[p] EXCEPT !.wait = IF @ = 0 THEN 0 ELSE @ - 1]]
    /\ ranPlayers' = {}
    /\ ranBullets' = {}
    /\ UNCHANGED <<scene, mMatchEnding, lock>>

-----------------------------------------------------------------------------
(* The special's time is up. *)
SpecialRunsOut(p) ==
    /\ loaded
    /\ players[p].inSpecial
    /\ players' = [players EXCEPT ![p].inSpecial = FALSE]
    /\ UNCHANGED <<scene, mMatchEnding, bullets, lock, ranPlayers, ranBullets>>

(* handleBulletCloneEventHook: the owner of player p fired.  The shot that *)
(* arrives outside cAim is kept too.  The owner's special ended with it.   *)
RemoteShot(p) ==
    /\ loaded
    /\ ~ShootingRange
    /\ p # Ctrl
    /\ ~players[p].pending
    /\ players' = [players EXCEPT ![p].pending = TRUE, ![p].inSpecial = FALSE]
    /\ UNCHANGED <<scene, mMatchEnding, bullets, lock, ranPlayers, ranBullets>>

(* The result isSleepingAllHook computes: nothing of any Inkstrike is left.*)
isSleepingAllBullets == \A p \in Players, s \in Slots : ~isActive(bullets[p][s])
isSleepingAll ==
    /\ isSleepingAllBullets
    /\ \A p \in Players : players[p].state = "cNone"

(* isSleepingAllHook, polled by the match's finish sequence. *)
IsSleepingAll ==
    /\ loaded
    /\ ~ShootingRange
    /\ ~mMatchEnding
    /\ mMatchEnding' = TRUE
    /\ UNCHANGED <<scene, players, bullets, lock, ranPlayers, ranBullets>>

(* The weapon test screen of the shooting range. *)
SwapWeapon(w) ==
    /\ loaded
    /\ ShootingRange
    /\ w # players[Ctrl].weapon
    /\ \E keep \in BOOLEAN :
         players' = [players EXCEPT ![Ctrl].weapon = w,
                                    ![Ctrl].inSpecial = @ /\ keep]
    /\ UNCHANGED <<scene, mMatchEnding, bullets, lock, ranPlayers, ranBullets>>

(* resetForCleanup, from the shooting range's ink reset.  It runs once the *)
(* actors of the frame have run.  mNoControlPtr is not among its resets.   *)
resetForCleanup ==
    /\ FrameDone
    /\ ShootingRange
    /\ bullets' = [p \in Players |-> [s \in Slots |-> cancel(bullets[p][s])]]
    /\ players' = [p \in Players |->
                     [players[p] EXCEPT !.state = "cNone", !.slot = NoSlot,
                                        !.wasAHeld = FALSE, !.pending = FALSE]]
    /\ lock' = unlock(lock)
    /\ UNCHANGED <<scene, mMatchEnding, ranPlayers, ranBullets>>

(* The fader leaves the scene; renderEntrypoint's onCalc then drops every  *)
(* bullet pointer, once, but not the players' states.                      *)
LeaveScene ==
    /\ loaded
    /\ scene' = "leaving"
    /\ UNCHANGED <<mMatchEnding, players, bullets, lock, ranPlayers, ranBullets>>

onCalc ==
    /\ scene = "leaving"
    /\ scene' = "reset"
    /\ players' = [p \in Players |-> [players[p] EXCEPT !.slot = NoSlot]]
    /\ bullets' = [p \in Players |-> [s \in Slots |-> create]]
    /\ mMatchEnding' = FALSE
    /\ UNCHANGED <<lock, ranPlayers, ranBullets>>

(* registerPlayer for everyone, then the scene runs.  Player objects are   *)
(* new, the manager's arrays are not, and the frame stamps kept from the   *)
(* last scene may lie ahead of the new mPaintGameFrame.                    *)
EnterScene ==
    /\ scene = "reset"
    /\ scene' = "loaded"
    /\ \E w \in Weapons, late \in 0 .. StaleFrames :
         players' = [p \in Players |->
                       [players[p] EXCEPT
                          !.noControl = "null", !.inSpecial = FALSE,
                          !.weapon = w,
                          !.wait = IF players[p].state = "cNone"
                                   THEN 0 ELSE late]]
    /\ bullets' = [p \in Players |-> [s \in Slots |-> create]]
    /\ ranPlayers' = {}
    /\ ranBullets' = {}
    /\ UNCHANGED <<mMatchEnding, lock>>

Next ==
    \/ \E p \in Players :
         \/ PlayerFirstCalc(p)
         \/ \E s \in Slots : BulletFirstCalc(p, s)
         \/ SpecialRunsOut(p)
         \/ RemoteShot(p)
    \/ NextFrame
    \/ IsSleepingAll
    \/ \E w \in Weapons : SwapWeapon(w)
    \/ resetForCleanup
    \/ LeaveScene
    \/ onCalc
    \/ EnterScene

Spec == Init /\ [][Next]_vars

(* The game loop runs every actor of every frame and finishes scene        *)
(* changes; a special's time runs out; the Shot event of a remote player   *)
(* who aims is delivered.                                                  *)
Fairness ==
    /\ \A p \in Players :
         /\ WF_vars(PlayerFirstCalc(p))
         /\ \A s \in Slots : WF_vars(BulletFirstCalc(p, s))
         /\ WF_vars(SpecialRunsOut(p))
         /\ WF_vars(players[p].state = "cAim" /\ RemoteShot(p))
    /\ WF_vars(NextFrame)
    /\ WF_vars(onCalc)
    /\ WF_vars(EnterScene)

FairSpec == Spec /\ Fairness

-----------------------------------------------------------------------------
(* Every variable has the type its declaration in the headers gives it,    *)
(* the frame bookkeeping names existing actors, and no burst outlasts      *)
(* BSA_BURST_DURATION.                                                     *)
TypeOK ==
    /\ scene \in {"loaded", "leaving", "reset"}
    /\ mMatchEnding \in BOOLEAN
    /\ players \in [Players -> Player]
    /\ bullets \in [Players -> [Slots -> Bullet]]
    /\ lock \in LockType
    /\ ranPlayers \subseteq Players
    /\ ranBullets \subseteq AllBullets

Driven(b, sm) == b.awake /\ b.sender /\ b.resv = "none" /\ b.sm = sm

(* A strike that counts as active is one the state machine will finish: a  *)
(* flying bullet is an awake actor in cState_Pronounce, a bursting one an  *)
(* awake actor in cState_Burst, and both know their sender, which          *)
(* calcBurstFollow dereferences unchecked.  isSleepingAllHook and          *)
(* pickFreeSlot wait for the flags, so a strike that nothing drives would  *)
(* hold the match open and occupy its slot for ever.                       *)
StrikeIsDriven ==
    \A p \in Players, s \in Slots :
        LET b == bullets[p][s]
        IN  /\ b.flightActive => Driven(b, "Pronounce") /\ ~b.hasBurst
            /\ b.hasBurst => Driven(b, "Burst")

(* Every strike takes its flight and its burst, frame by frame and in step *)
(* with all the others: a weapon swap, a cancelled aim, the next           *)
(* activation, a late Shot event or the end of the match never launches it *)
(* twice, stretches it, leaves a frame out or calls it off.  Only the      *)
(* cleanup of the range and a change of scene end all strikes at once      *)
(* (source/BulletSuperArtillery.cpp:305-420, source/InkstrikeMgr.cpp:165). *)
Clock == INSTANCE StrikeClock WITH
           Strikes <- AllBullets, Lengths <- StrikeLengths,
           left <- [i \in AllBullets |->
                      FramesLeft(bullets[i[1]][i[2]], i \in ranBullets)]
ImplementsStrikeClock == Clock!Spec

(* calcBurstFollow never runs on a bullet whose vtOnSleep cleared mSender. *)
BurstHasSender ==
    \A p \in Players, s \in Slots :
        bullets[p][s].awake /\ bullets[p][s].sm = "Burst" => bullets[p][s].sender

(* When the wind-up ends, the bullet of the activation's slot is launched  *)
(* (informShotInkstrike drops the shot when the slot's bullet still flies).*)
ShotLaunches ==
    [][\A p \in Players :
         /\ players[p].state = "cShootPrepare"
         /\ players[p].slot # NoSlot
         /\ players'[p].state = "cShoot"
         => LET s == players[p].slot
            IN  ~isActive(bullets[p][s]) /\ bullets'[p][s].flightActive]_vars

(* A remote player passes through cAim: a Shot event left over from an     *)
(* earlier activation does not fire the new one as soon as it begins.      *)
NoStaleRemoteShot ==
    [][\A p \in Players \ {Ctrl} :
         players[p].state = "cNone" => players'[p].state \in {"cNone", "cAim"}]_vars

(* mWasAHeld is only ever set while aiming, so that the release of A that  *)
(* fires always belongs to a press made in the same activation.            *)
HoldBelongsToAim ==
    \A p \in Players : players[p].wasAHeld => players[p].state = "cAim"

(* Outside an activation the player can move: mNoControlPtr is clear.      *)
ControlReturned ==
    \A p \in Players : players[p].state = "cNone" => players[p].noControl = "null"

(* "Called from InkstrikeMgr on every transition back to cNone": the       *)
(* inhibitor is never held when no Inkstrike is active.                    *)
LockNotLeaked == lock.held => \E p \in Players : players[p].state # "cNone"

(* "while Inkstrike is active for a player, the hook ignores the queried   *)
(* weaponId and returns the tank ID we locked in at cAim entry"            *)
(* (source/InkTankOverride.cpp:133).                                       *)
TankStaysLocked ==
    \A p \in Players : players[p].state # "cNone" =>
        \A w \in Weapons : searchForVersusIdHook(lock, w) = players[p].aimTank

-----------------------------------------------------------------------------
(* The inductive invariant behind the properties above.                    *)

(* The bullet of an activation that has not fired yet: prepared, its       *)
(* activation reserved or done, and nobody else's strike.                  *)
Ready(b) ==
    /\ ~isActive(b)
    /\ b.sender
    /\ b.resv # "sleep"
    /\ b.awake \/ b.resv = "activate"

(* ran: the bullet's firstCalc ran in this frame. *)
BulletOK(b, ran) ==
    /\ b.flightActive => Driven(b, "Pronounce") /\ ~b.hasBurst
    /\ b.hasBurst => Driven(b, "Burst") /\ b.burstFrm < BurstDuration
    /\ b.awake /\ b.sm = "Burst" => b.sender
    /\ HasTurn(b) /\ ~isActive(b) => ran /\ b.resv # "none"
    /\ b.resv = "activate" => b.sender

(* settled: the reservations made by the player's last firstCalc are done. *)
PlayerOK(p, me, b, settled) ==
    /\ me.state \in {"cAim", "cShootPrepare"} /\ me.slot # NoSlot
         => Ready(b[me.slot]) /\ (settled => b[me.slot].resv = "none")
    /\ me.state \in {"cShootPrepare", "cShoot"} => ~me.inSpecial
    /\ me.state = "cNone" /\ me.inSpecial => \E s \in Slots : ~isActive(b[s])
    /\ me.wasAHeld => me.state = "cAim" /\ p = Ctrl
    /\ me.pending => p # Ctrl /\ (me.state # "cNone" => ~me.inSpecial)

IInv ==
    /\ TypeOK
    /\ \A p \in Players, s \in Slots :
         BulletOK(bullets[p][s], <<p, s>> \in ranBullets)
    /\ \A p \in Players :
         PlayerOK(p, players[p], bullets[p], p \notin ranPlayers)
    /\ LockNotLeaked
    /\ scene = "reset" => \A p \in Players : players[p].slot = NoSlot

-----------------------------------------------------------------------------
(* The match can end: once isSleepingAllHook is polled, every activation   *)
(* and every strike finishes, unless the scene is left first.              *)
MatchCanEnd == mMatchEnding ~> (isSleepingAll \/ ~loaded)

(* An activation never holds its player for ever. *)
ActivationEnds ==
    \A p \in Players :
        players[p].state # "cNone" ~> (players[p].state = "cNone" \/ ~loaded)

(* A slot is never occupied for ever: an active strike comes to its end.   *)
StrikeEnds ==
    \A p \in Players, s \in Slots :
        isActive(bullets[p][s]) ~> (~isActive(bullets[p][s]) \/ ~loaded)
=============================================================================
