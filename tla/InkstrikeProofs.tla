-------------------------- MODULE InkstrikeProofs ---------------------------
(***************************************************************************)
(* Proofs about module Inkstrike, for every set of players and weapons and *)
(* every value of the delays.  The argument: IInv is inductive.  The       *)
(* operators on one bullet and on one player's world are handled first,    *)
(* each in a lemma of its own; a step of the system then changes one       *)
(* world, or all of them in the same way.                                  *)
(***************************************************************************)
EXTENDS Inkstrike, TLAPS

-----------------------------------------------------------------------------
(* One bullet. *)

(* Every member function returns a bullet. *)
LEMMA BulletOps ==
    ASSUME NEW b \in Bullet
    PROVE  /\ create \in Bullet
           /\ prepare(b) \in Bullet
           /\ \A long \in BOOLEAN : launch(b, long) \in Bullet
           /\ enterWait(b) \in Bullet
           /\ cancel(b) \in Bullet
           /\ (b.sm = "Burst" => b.burstFrm < BurstDuration)
                => vtFirstCalc(b) \in Bullet
           /\ Settle(b) \in Bullet
           /\ Elapse(b) \in Bullet
<1>0. 0 \in BurstFrames
  BY FlightAssumption DEF BurstFrames
<1>1. create \in Bullet
  BY <1>0 DEF create, Bullet, BSAState, Reservation
<1>2. prepare(b) \in Bullet /\ enterWait(b) \in Bullet /\ cancel(b) \in Bullet
  BY <1>0 DEF prepare, enterWait, cancel, doSleep, Bullet, BSAState, Reservation
<1>3. \A long \in BOOLEAN : launch(b, long) \in Bullet
  BY FlightAssumption DEF launch, Bullet, BSAState
<1>4. ASSUME b.sm = "Burst" => b.burstFrm < BurstDuration
      PROVE  vtFirstCalc(b) \in Bullet
  <2>1. CASE b.sm = "Pronounce"
    BY <1>0, <2>1 DEF vtFirstCalc, statePronounce, doBurst,
                       Bullet, BSAState
  <2>2. CASE b.sm = "Burst"
    <3> DEFINE c == [b EXCEPT !.burstFrm = b.burstFrm + 1]
    <3>1. c \in Bullet
      <4>1. b.burstFrm + 1 \in BurstFrames
        BY <1>4, <2>2, FlightAssumption DEF Bullet, BurstFrames
      <4> QED
        BY <4>1 DEF Bullet
    <3>2. doSleep(c) \in Bullet
      BY <3>1 DEF doSleep, Bullet, Reservation
    <3>3. calcBurstFollow(b) \in Bullet
      BY <3>1, <3>2 DEF calcBurstFollow
    <3> QED
      BY <2>2, <3>3 DEF vtFirstCalc
  <2>3. CASE b.sm \in {"Wait", "Aim"}
    BY <2>3 DEF vtFirstCalc
  <2> QED
    BY <2>1, <2>2, <2>3 DEF Bullet, BSAState
<1>5. Settle(b) \in Bullet
  BY <1>0 DEF Settle, vtOnActivate, vtOnSleep, reset, Bullet, BSAState, Reservation
<1>6. Elapse(b) \in Bullet
  BY DEF Elapse, Bullet
<1> QED
  BY <1>1, <1>2, <1>3, <1>4, <1>5, <1>6

(* What the manager does to a bullet keeps it in order.  The bullet it     *)
(* waits with, launches or cancels is idle, and it launches one that is    *)
(* awake with nothing reserved.                                            *)
LEMMA BulletOKOps ==
    ASSUME NEW b \in Bullet, NEW ran \in BOOLEAN, BulletOK(b, ran)
    PROVE  /\ BulletOK(create, ran)
           /\ ~isActive(b) => BulletOK(prepare(b), ran) /\ Ready(prepare(b))
           /\ ~isActive(b) => BulletOK(enterWait(b), ran)
           /\ Ready(b) => Ready(enterWait(b))
           /\ \A long \in BOOLEAN :
                Ready(b) /\ b.resv = "none" =>
                  BulletOK(launch(b, long), ran) /\ launch(b, long).flightActive
<1>1. BulletOK(create, ran)
  BY DEF BulletOK, create, HasTurn, isActive
<1>2. ~isActive(b) => BulletOK(prepare(b), ran) /\ Ready(prepare(b))
  BY DEF BulletOK, prepare, HasTurn, isActive, Ready, Bullet
<1>3. ~isActive(b) => BulletOK(enterWait(b), ran)
  BY DEF BulletOK, enterWait, HasTurn, isActive, Bullet
<1>4. Ready(b) => Ready(enterWait(b))
  BY DEF Ready, enterWait, isActive, Bullet
<1>5. \A long \in BOOLEAN :
        Ready(b) /\ b.resv = "none" =>
          BulletOK(launch(b, long), ran) /\ launch(b, long).flightActive
  BY DEF Ready, BulletOK, launch, Driven, HasTurn, isActive, Bullet
<1> QED
  BY <1>1, <1>2, <1>3, <1>4, <1>5

(* A cancelled bullet is idle; it is in order if it flew in this frame     *)
(* already, or was not flying.                                             *)
LEMMA BulletOKCancel ==
    ASSUME NEW b \in Bullet, NEW ran \in BOOLEAN, BulletOK(b, ran),
           HasTurn(b) => ran
    PROVE  BulletOK(cancel(b), ran) /\ ~isActive(cancel(b))
BY DEF BulletOK, cancel, doSleep, HasTurn, isActive, Bullet

(* A bullet that takes its turn stays in order, and only an active one     *)
(* takes a turn that changes it.                                           *)
LEMMA BulletOKTurn ==
    ASSUME NEW b \in Bullet, BulletOK(b, FALSE), HasTurn(b)
    PROVE  isActive(b) /\ BulletOK(vtFirstCalc(b), TRUE)
<1>1. isActive(b)
  BY DEF BulletOK
<1>2. CASE b.sm = "Pronounce"
  BY <1>1, <1>2, FlightAssumption
  DEF BulletOK, HasTurn, isActive, Driven, vtFirstCalc, statePronounce, doBurst,
      Bullet
<1>3. CASE b.sm = "Burst"
  <2>1. b.burstFrm \in Int /\ BurstDuration \in Int
    BY FlightAssumption DEF Bullet, BurstFrames
  <2>2. b.hasBurst /\ ~b.flightActive /\ b.sender /\ b.resv = "none" /\ b.awake
    BY <1>1, <1>3 DEF BulletOK, isActive, Driven
  <2> DEFINE c == [b EXCEPT !.burstFrm = b.burstFrm + 1]
  <2>3. CASE b.burstFrm + 1 >= BurstDuration
    <3>1. vtFirstCalc(b) = doSleep(c)
      BY <1>3, <2>3 DEF vtFirstCalc, calcBurstFollow, Bullet
    <3>2. BulletOK(doSleep(c), TRUE)
      BY <1>3, <2>2 DEF BulletOK, doSleep, HasTurn, isActive, Bullet
    <3> QED
      BY <1>1, <3>1, <3>2
  <2>4. CASE b.burstFrm + 1 < BurstDuration
    <3>1. vtFirstCalc(b) = c
      <4>1. ~(c.burstFrm >= BurstDuration)
        BY <2>1, <2>4 DEF Bullet
      <4> QED
        BY <1>3, <4>1 DEF vtFirstCalc, calcBurstFollow
    <3>2. BulletOK(c, TRUE)
      BY <1>3, <2>2, <2>4 DEF BulletOK, HasTurn, isActive, Driven, Bullet
    <3> QED
      BY <1>1, <3>1, <3>2
  <2>5. b.burstFrm + 1 >= BurstDuration \/ b.burstFrm + 1 < BurstDuration
    BY <2>1
  <2> QED
    BY <2>3, <2>4, <2>5
<1> QED
  BY <1>1, <1>2, <1>3 DEF HasTurn

(* Between two frames: order is kept with nobody having run, what was      *)
(* active stays active, and a ready bullet is ready and settled.           *)
LEMMA BulletOKSettle ==
    ASSUME NEW b \in Bullet, NEW ran \in BOOLEAN, BulletOK(b, ran)
    PROVE  LET c == Elapse(Settle(b))
           IN  /\ BulletOK(c, FALSE)
               /\ ~isActive(b) => ~isActive(c)
               /\ Ready(b) => Ready(c) /\ c.resv = "none"
<1> DEFINE c == Elapse(Settle(b))
<1>1. CASE b.resv = "activate"
  <2>1. ~isActive(b)
    BY <1>1 DEF BulletOK, Driven, isActive
  <2>2. c = Elapse(vtOnActivate(b))
    BY <1>1 DEF Settle
  <2> QED
    BY <1>1, <2>1, <2>2 DEF BulletOK, Ready, isActive, HasTurn, Elapse,
                            vtOnActivate, Bullet
<1>2. CASE b.resv = "sleep"
  <2>1. c = Elapse(vtOnSleep(b))
    BY <1>2 DEF Settle
  <2> QED
    BY <1>2, <2>1 DEF BulletOK, Ready, isActive, HasTurn, Elapse,
                      vtOnSleep, reset, Bullet
<1>3. CASE b.resv = "none"
  <2>1. c = Elapse(b)
    BY <1>3 DEF Settle
  <2> QED
    BY <1>3, <2>1 DEF BulletOK, Ready, isActive, HasTurn, Driven, Elapse, Bullet
<1> QED
  BY <1>1, <1>2, <1>3 DEF Bullet, Reservation

-----------------------------------------------------------------------------
(* One player's world: the player, the two bullets and the lock.  r says   *)
(* which of the bullets have run in this frame.                            *)

World == [me : Player, b : [Slots -> Bullet], lock : LockType]
Flags == [Slots -> BOOLEAN]

WorldOK(p, w, r, settled) ==
    /\ w \in World
    /\ \A s \in Slots : BulletOK(w.b[s], r[s])
    /\ PlayerOK(p, w.me, w.b, settled)

(* The world between detectChangeState and the switch on playerState.      *)
MidOK(p, w, r) ==
    /\ WorldOK(p, w, r, FALSE)
    /\ w.me.state = "cShootPrepare" /\ w.me.slot # NoSlot
         => w.b[w.me.slot].resv = "none"

(* A call that ends in cNone leaves the lock alone, or releases it.        *)
LockOK(w, v) ==
    v.lock.held /\ v.me.state = "cNone" => w.lock.held /\ w.me.state = "cNone"

LEMMA WorldFields ==
    ASSUME NEW w \in World
    PROVE  /\ w.me \in Player /\ w.b \in [Slots -> Bullet] /\ w.lock \in LockType
           /\ w.me.slot # NoSlot => w.me.slot \in Slots
           /\ \A s \in Slots : w.b[s] \in Bullet
BY DEF World, Player

(* changeState(cState_Wait) on the slot of an idle bullet. *)
LEMMA WaitOnSlotOK ==
    ASSUME NEW w \in World, NEW r \in Flags,
           \A s \in Slots : BulletOK(w.b[s], r[s]),
           w.me.slot # NoSlot => ~isActive(w.b[w.me.slot])
    PROVE  LET b == WaitOnSlot(w)
           IN  /\ b \in [Slots -> Bullet]
               /\ \A s \in Slots : /\ BulletOK(b[s], r[s])
                                   /\ isActive(b[s]) = isActive(w.b[s])
                                   /\ Ready(w.b[s]) => Ready(b[s])
                                   /\ b[s].resv = w.b[s].resv
<1> DEFINE b == WaitOnSlot(w)
<1>1. CASE w.me.slot = NoSlot
  BY <1>1, WorldFields DEF WaitOnSlot
<1>2. CASE w.me.slot # NoSlot
  <2>1. b = [w.b EXCEPT ![w.me.slot] = enterWait(w.b[w.me.slot])]
    BY <1>2 DEF WaitOnSlot
  <2>2. b \in [Slots -> Bullet]
    BY <1>2, <2>1, WorldFields, BulletOps
  <2>3. ASSUME NEW s \in Slots
        PROVE  /\ BulletOK(b[s], r[s])
               /\ isActive(b[s]) = isActive(w.b[s])
               /\ Ready(w.b[s]) => Ready(b[s])
               /\ b[s].resv = w.b[s].resv
    <3>1. CASE s = w.me.slot
      <4>1. b[s] = enterWait(w.b[s]) /\ w.b[s] \in Bullet /\ r[s] \in BOOLEAN
        BY <1>2, <2>1, <3>1, WorldFields DEF Flags
      <4>2. ~isActive(w.b[s])
        BY <1>2, <3>1
      <4>3. BulletOK(b[s], r[s]) /\ (Ready(w.b[s]) => Ready(b[s]))
        BY <4>1, <4>2, BulletOKOps
      <4>4. b[s].resv = w.b[s].resv /\ isActive(b[s]) = isActive(w.b[s])
        BY <4>1 DEF enterWait, isActive, Bullet
      <4> QED
        BY <4>3, <4>4
    <3>2. CASE s # w.me.slot
      BY <1>2, <2>1, <3>2, WorldFields
    <3> QED
      BY <3>1, <3>2
  <2> QED
    BY <2>2, <2>3
<1> QED
  BY <1>1, <1>2

(* Entering cAim takes a free slot and prepares its bullet. *)
LEMMA EnterAimOK ==
    ASSUME NEW p \in Players, NEW w, NEW r \in Flags,
           WorldOK(p, w, r, TRUE), StartsAim(w.me)
    PROVE  /\ MidOK(p, EnterAim(w), r)
           /\ EnterAim(w).me.state = "cAim" /\ ~EnterAim(w).me.pending
<1> DEFINE s == pickFreeSlot(w.b)
           b == [w.b EXCEPT ![s] = prepare(w.b[s])]
           me == [w.me EXCEPT !.state = "cAim", !.slot = s, !.pending = FALSE,
                              !.aimTank = computeTankId(w.me.weapon)]
           v == [me |-> me, b |-> b, lock |-> lockForInkstrike(w.me.weapon)]
<1>0. w \in World /\ w.me \in Player /\ w.b \in [Slots -> Bullet]
  BY WorldFields DEF WorldOK
<1>1. s \in Slots /\ s # NoSlot /\ ~isActive(w.b[s])
  <2>1. \E t \in Slots : ~isActive(w.b[t])
    BY DEF WorldOK, PlayerOK, StartsAim
  <2> QED
    BY <2>1 DEF pickFreeSlot, Slots, NoSlot
<1>2. EnterAim(w) = v
  BY <1>1 DEF EnterAim
<1>3. w.b[s] \in Bullet /\ r[s] \in BOOLEAN /\ BulletOK(w.b[s], r[s])
  BY <1>0, <1>1 DEF WorldOK, Flags
<1>4. BulletOK(prepare(w.b[s]), r[s]) /\ Ready(prepare(w.b[s]))
  BY <1>1, <1>3, BulletOKOps
<1>5. b \in [Slots -> Bullet]
  BY <1>0, <1>1, <1>3, BulletOps
<1>6. \A t \in Slots : BulletOK(b[t], r[t])
  BY <1>0, <1>1, <1>4 DEF WorldOK
<1>7. me \in Player
  BY <1>0, <1>1 DEF Player, TornadoState, computeTankId
<1>8. v \in World
  BY <1>0, <1>5, <1>7 DEF World, LockType, lockForInkstrike, computeTankId, Player
<1>9. ~me.wasAHeld
  BY <1>0 DEF WorldOK, PlayerOK, StartsAim, Player
<1>10. PlayerOK(p, me, b, FALSE)
  BY <1>0, <1>1, <1>4, <1>9 DEF PlayerOK, Player
<1>11. me.state = "cAim" /\ me.pending = FALSE
  BY <1>0 DEF Player
<1>12. v.me = me /\ v.b = b
  OBVIOUS
<1> HIDE DEF me, b, v
<1>13. WorldOK(p, v, r, FALSE)
  BY <1>6, <1>8, <1>10, <1>12 DEF WorldOK
<1> QED
  BY <1>2, <1>11, <1>12, <1>13 DEF MidOK

(* detectChangeState keeps the world in order; a remote player leaves      *)
(* cNone for cAim only.                                                    *)
LEMMA DetectOK ==
    ASSUME NEW p \in Players, NEW w, NEW r \in Flags, WorldOK(p, w, r, TRUE)
    PROVE  LET v == detectChangeState(w)
           IN  /\ MidOK(p, v, r)
               /\ LockOK(w, v)
               /\ w.me.state = "cNone" => v.me.state \in {"cNone", "cAim"}
               /\ v.me.inSpecial = w.me.inSpecial
               /\ w.me.state = "cShootPrepare" => v = w
<1> DEFINE v == detectChangeState(w)
<1>0. w \in World /\ w.me \in Player /\ w.b \in [Slots -> Bullet]
  BY WorldFields DEF WorldOK
<1>1. CASE StartsAim(w.me)
  <2>1. v = EnterAim(w)
    BY <1>1, EnterAimOK DEF detectChangeState
  <2>2. v.me.inSpecial = w.me.inSpecial
    <3> DEFINE me == [w.me EXCEPT !.state = "cAim", !.slot = pickFreeSlot(w.b),
                                  !.pending = FALSE,
                                  !.aimTank = computeTankId(w.me.weapon)]
    <3>1. me.inSpecial = w.me.inSpecial
      BY <1>0 DEF Player
    <3>2. EnterAim(w).me = me
      BY DEF EnterAim
    <3> QED
      BY <2>1, <3>1, <3>2
  <2>3. MidOK(p, v, r) /\ v.me.state = "cAim" /\ w.me.state = "cNone"
    BY <1>1, <2>1, EnterAimOK DEF StartsAim
  <2> HIDE DEF v
  <2>4. LockOK(w, v)
    BY <2>3 DEF LockOK
  <2> QED
    BY <2>2, <2>3, <2>4 DEF v
<1>2. CASE ~StartsAim(w.me) /\ w.me.pending /\ w.me.state = "cAim"
  <2> DEFINE me == [w.me EXCEPT !.state = "cShootPrepare", !.wait = PrepareDelay]
             b == WaitOnSlot(w)
  <2>1. v = TakeRemoteShot(w)
    BY <1>2 DEF detectChangeState
  <2>2. v = [me |-> me, b |-> b, lock |-> w.lock]
    BY <2>1 DEF TakeRemoteShot
  <2>3. me \in Player
    BY <1>0, PlayerAssumption DEF Player, TornadoState
  <2>4. w.me.slot # NoSlot => Ready(w.b[w.me.slot]) /\ w.b[w.me.slot].resv = "none"
    BY <1>2 DEF WorldOK, PlayerOK
  <2>5. w.me.slot # NoSlot => ~isActive(w.b[w.me.slot])
    BY <2>4 DEF Ready
  <2>6. /\ b \in [Slots -> Bullet]
        /\ \A s \in Slots : /\ BulletOK(b[s], r[s])
                            /\ isActive(b[s]) = isActive(w.b[s])
                            /\ Ready(w.b[s]) => Ready(b[s])
                            /\ b[s].resv = w.b[s].resv
    BY <1>0, <2>5, WaitOnSlotOK DEF WorldOK
  <2>7. v \in World
    BY <1>0, <2>2, <2>3, <2>6 DEF World
  <2>8. p # Ctrl /\ ~w.me.inSpecial /\ ~w.me.wasAHeld
    BY <1>0, <1>2 DEF WorldOK, PlayerOK, Player
  <2>9. /\ me.state = "cShootPrepare" /\ me.slot = w.me.slot
        /\ me.inSpecial = w.me.inSpecial /\ me.wasAHeld = w.me.wasAHeld
        /\ me.pending = w.me.pending
    BY <1>0 DEF Player
  <2>10. me.slot # NoSlot => Ready(b[me.slot]) /\ b[me.slot].resv = "none"
    BY <1>0, <2>4, <2>6, <2>9, WorldFields
  <2>11. PlayerOK(p, me, b, FALSE)
    BY <1>0, <2>8, <2>9, <2>10 DEF PlayerOK, Player
  <2>12. v.me = me /\ v.b = b
    BY <2>2
  <2> HIDE DEF me, b, v
  <2>13. WorldOK(p, v, r, FALSE)
    BY <2>6, <2>7, <2>11, <2>12 DEF WorldOK
  <2>14. MidOK(p, v, r)
    BY <2>10, <2>12, <2>13 DEF MidOK
  <2>15. v.me.state = "cShootPrepare" /\ v.me.inSpecial = w.me.inSpecial
    BY <2>9, <2>12
  <2>16. LockOK(w, v)
    BY <2>15 DEF LockOK
  <2> QED
    BY <1>2, <2>14, <2>15, <2>16 DEF v
<1>3. CASE ~StartsAim(w.me) /\ ~(w.me.pending /\ w.me.state = "cAim")
  <2>1. v = w
    BY <1>3 DEF detectChangeState
  <2> QED
    BY <1>0, <2>1 DEF WorldOK, MidOK, PlayerOK, LockOK
<1> QED
  BY <1>1, <1>2, <1>3

-----------------------------------------------------------------------------
(* The operators of the switch on playerState.                             *)

(* Updating only fields of the player that PlayerOK does not weigh. *)
LEMMA StayOK ==
    ASSUME NEW p \in Players, NEW w, NEW r \in Flags, MidOK(p, w, r),
           NEW hold \in BOOLEAN, hold => w.me.state = "cAim" /\ p = Ctrl
    PROVE  LET v == [w EXCEPT !.me = [w.me EXCEPT !.wasAHeld = hold]]
           IN  WorldOK(p, v, r, FALSE) /\ LockOK(w, v)
<1> DEFINE me == [w.me EXCEPT !.wasAHeld = hold]
           v == [w EXCEPT !.me = me]
<1>1. w \in World /\ w.me \in Player /\ WorldOK(p, w, r, FALSE)
  BY WorldFields DEF WorldOK, MidOK
<1>2. me \in Player /\ v \in World /\ v.me = me /\ v.b = w.b /\ v.lock = w.lock
  BY <1>1 DEF World, Player
<1>3. me.state = w.me.state
  BY <1>1 DEF Player
<1>4. PlayerOK(p, me, w.b, FALSE)
  BY <1>1 DEF WorldOK, PlayerOK, Player
<1> HIDE DEF me, v
<1>5. WorldOK(p, v, r, FALSE)
  BY <1>1, <1>2, <1>4 DEF WorldOK
<1>6. LockOK(w, v)
  BY <1>2, <1>3 DEF LockOK
<1> QED
  BY <1>5, <1>6 DEF me, v

(* The bullet of an aiming player is idle, so cancelling the aim touches   *)
(* no bullet.                                                              *)
LEMMA CancelAimOK ==
    ASSUME NEW p \in Players, NEW w, NEW r \in Flags, MidOK(p, w, r),
           w.me.state = "cAim", ~w.me.inSpecial
    PROVE  WorldOK(p, CancelAim(w), r, FALSE) /\ LockOK(w, CancelAim(w))
<1> DEFINE me == [w.me EXCEPT !.state = "cNone", !.wasAHeld = FALSE,
                              !.pending = FALSE, !.slot = NoSlot]
           v == [me |-> me, b |-> w.b, lock |-> unlock(w.lock)]
<1>1. /\ w \in World /\ w.me \in Player /\ w.b \in [Slots -> Bullet]
      /\ w.lock \in LockType /\ WorldOK(p, w, r, FALSE)
  BY WorldFields DEF WorldOK, MidOK
<1>2. w.me.slot # NoSlot => ~isActive(w.b[w.me.slot])
  BY <1>1 DEF WorldOK, PlayerOK, Ready
<1>3. CancelAim(w) = v
  BY <1>2 DEF CancelAim
<1>4. unlock(w.lock) \in LockType /\ ~unlock(w.lock).held
  BY <1>1 DEF unlock, LockType
<1>5. me \in Player /\ v \in World /\ v.me = me /\ v.b = w.b /\ v.lock = unlock(w.lock)
  BY <1>1, <1>4 DEF World, Player, TornadoState
<1>6. /\ me.state = "cNone" /\ ~me.wasAHeld /\ ~me.pending /\ me.slot = NoSlot
      /\ ~me.inSpecial
  BY <1>1 DEF Player
<1>7. PlayerOK(p, me, w.b, FALSE)
  BY <1>6 DEF PlayerOK
<1> HIDE DEF me, v
<1> QED
  BY <1>1, <1>3, <1>4, <1>5, <1>7 DEF WorldOK, LockOK

(* The controlled player fires: a controlled player has no remote shot.    *)
LEMMA CommitOK ==
    ASSUME NEW p \in Players, NEW w, NEW r \in Flags, MidOK(p, w, r),
           w.me.state = "cAim", p = Ctrl
    PROVE  WorldOK(p, Commit(w), r, FALSE) /\ LockOK(w, Commit(w))
<1> DEFINE me == [w.me EXCEPT !.state = "cShootPrepare", !.wait = PrepareDelay,
                              !.wasAHeld = FALSE, !.inSpecial = FALSE,
                              !.noControl = IF w.me.slot = NoSlot
                                            THEN "stray" ELSE "bullet"]
           b == WaitOnSlot(w)
           v == [me |-> me, b |-> b, lock |-> w.lock]
<1>1. /\ w \in World /\ w.me \in Player /\ w.b \in [Slots -> Bullet]
      /\ w.lock \in LockType /\ WorldOK(p, w, r, FALSE)
  BY WorldFields DEF WorldOK, MidOK
<1>2. Commit(w) = v
  BY DEF Commit
<1>3. w.me.slot # NoSlot => Ready(w.b[w.me.slot])
  BY <1>1 DEF WorldOK, PlayerOK
<1>4. w.me.slot # NoSlot => ~isActive(w.b[w.me.slot])
  BY <1>3 DEF Ready
<1>5. /\ b \in [Slots -> Bullet]
      /\ \A s \in Slots : /\ BulletOK(b[s], r[s])
                          /\ Ready(w.b[s]) => Ready(b[s])
  BY <1>1, <1>4, WaitOnSlotOK DEF WorldOK
<1>6. me \in Player
  BY <1>1, PlayerAssumption DEF Player, TornadoState
<1>7. v \in World /\ v.me = me /\ v.b = b /\ v.lock = w.lock
  BY <1>1, <1>5, <1>6 DEF World
<1>8. /\ me.state = "cShootPrepare" /\ ~me.inSpecial /\ ~me.wasAHeld
      /\ me.slot = w.me.slot /\ me.pending = w.me.pending
  BY <1>1 DEF Player
<1>9. ~w.me.pending
  BY <1>1 DEF WorldOK, PlayerOK
<1>10. me.slot # NoSlot => Ready(b[me.slot])
  BY <1>1, <1>3, <1>5, <1>8, WorldFields
<1>11. PlayerOK(p, me, b, FALSE)
  BY <1>8, <1>9, <1>10 DEF PlayerOK
<1> HIDE DEF me, b, v
<1> QED
  BY <1>2, <1>5, <1>7, <1>8, <1>11 DEF WorldOK, LockOK

(* The swap during the wind-up cancels a bullet that is not flying yet.    *)
LEMMA CancelPrepareOK ==
    ASSUME NEW p \in Players, NEW w, NEW r \in Flags, MidOK(p, w, r),
           w.me.state = "cShootPrepare"
    PROVE  WorldOK(p, CancelPrepare(w), r, FALSE) /\ LockOK(w, CancelPrepare(w))
<1> DEFINE me == [w.me EXCEPT !.state = "cNone", !.wasAHeld = FALSE,
                              !.pending = FALSE, !.slot = NoSlot,
                              !.noControl = "null"]
           b == CancelOnSlot(w)
           v == [me |-> me, b |-> b, lock |-> unlock(w.lock)]
<1>1. /\ w \in World /\ w.me \in Player /\ w.b \in [Slots -> Bullet]
      /\ w.lock \in LockType /\ WorldOK(p, w, r, FALSE)
      /\ w.me.slot # NoSlot => w.me.slot \in Slots
  BY WorldFields DEF WorldOK, MidOK
<1>2. CancelPrepare(w) = v
  BY DEF CancelPrepare
<1>3. b \in [Slots -> Bullet] /\ \A s \in Slots : BulletOK(b[s], r[s])
  <2>1. CASE w.me.slot = NoSlot
    BY <1>1, <2>1 DEF CancelOnSlot, WorldOK
  <2>2. CASE w.me.slot # NoSlot
    <3> DEFINE s == w.me.slot
    <3>1. s \in Slots /\ w.b[s] \in Bullet /\ r[s] \in BOOLEAN /\ BulletOK(w.b[s], r[s])
      BY <1>1, <2>2 DEF WorldOK, Flags
    <3>2. Ready(w.b[s]) /\ w.b[s].resv = "none"
      BY <1>1, <2>2 DEF MidOK, WorldOK, PlayerOK
    <3>3. ~HasTurn(w.b[s])
      BY <3>1, <3>2 DEF BulletOK, Ready
    <3>4. BulletOK(cancel(w.b[s]), r[s]) /\ cancel(w.b[s]) \in Bullet
      BY <3>1, <3>3, BulletOKCancel, BulletOps
    <3>5. b = [w.b EXCEPT ![s] = cancel(w.b[s])]
      BY <2>2 DEF CancelOnSlot
    <3> QED
      BY <1>1, <3>1, <3>4, <3>5 DEF WorldOK
  <2> QED
    BY <2>1, <2>2
<1>4. unlock(w.lock) \in LockType /\ ~unlock(w.lock).held
  BY <1>1 DEF unlock, LockType
<1>5. me \in Player /\ v \in World /\ v.me = me /\ v.b = b /\ v.lock = unlock(w.lock)
  BY <1>1, <1>3, <1>4 DEF World, Player, TornadoState
<1>6. /\ me.state = "cNone" /\ ~me.wasAHeld /\ ~me.pending /\ me.slot = NoSlot
      /\ ~me.inSpecial
  BY <1>1 DEF Player, WorldOK, PlayerOK
<1>7. PlayerOK(p, me, b, FALSE)
  BY <1>6 DEF PlayerOK
<1> HIDE DEF me, b, v
<1> QED
  BY <1>2, <1>3, <1>4, <1>5, <1>7 DEF WorldOK, LockOK

(* The end of the wind-up launches the bullet of the slot, if there is one.*)
LEMMA ShootOK ==
    ASSUME NEW p \in Players, NEW w, NEW r \in Flags, MidOK(p, w, r),
           w.me.state = "cShootPrepare", NEW long \in BOOLEAN
    PROVE  /\ WorldOK(p, Shoot(w, long), r, FALSE)
           /\ LockOK(w, Shoot(w, long))
           /\ w.me.slot # NoSlot => ~isActive(w.b[w.me.slot])
                 /\ Shoot(w, long).b[w.me.slot].flightActive
<1> DEFINE me == [w.me EXCEPT !.state = "cShoot", !.wait = PlayerDelay]
           b == informShotInkstrike(w, long)
           v == [me |-> me, b |-> b, lock |-> w.lock]
<1>1. /\ w \in World /\ w.me \in Player /\ w.b \in [Slots -> Bullet]
      /\ w.lock \in LockType /\ WorldOK(p, w, r, FALSE)
      /\ w.me.slot # NoSlot => w.me.slot \in Slots
  BY WorldFields DEF WorldOK, MidOK
<1>2. Shoot(w, long) = v
  BY DEF Shoot
<1>3. /\ b \in [Slots -> Bullet] /\ \A s \in Slots : BulletOK(b[s], r[s])
      /\ w.me.slot # NoSlot => ~isActive(w.b[w.me.slot]) /\ b[w.me.slot].flightActive
  <2>1. CASE w.me.slot = NoSlot
    BY <1>1, <2>1 DEF informShotInkstrike, WorldOK
  <2>2. CASE w.me.slot # NoSlot
    <3> DEFINE s == w.me.slot
    <3>1. s \in Slots /\ w.b[s] \in Bullet /\ r[s] \in BOOLEAN /\ BulletOK(w.b[s], r[s])
      BY <1>1, <2>2 DEF WorldOK, Flags
    <3>2. Ready(w.b[s]) /\ w.b[s].resv = "none" /\ ~isActive(w.b[s])
      BY <1>1, <2>2 DEF MidOK, WorldOK, PlayerOK, Ready
    <3>3. /\ BulletOK(launch(w.b[s], long), r[s])
          /\ launch(w.b[s], long) \in Bullet
          /\ launch(w.b[s], long).flightActive
      BY <3>1, <3>2, BulletOKOps, BulletOps
    <3>4. b = [w.b EXCEPT ![s] = launch(w.b[s], long)]
      BY <2>2, <3>2 DEF informShotInkstrike, isActive
    <3> QED
      BY <1>1, <3>1, <3>2, <3>3, <3>4 DEF WorldOK
  <2> QED
    BY <2>1, <2>2
<1>4. me \in Player /\ v \in World /\ v.me = me /\ v.b = b /\ v.lock = w.lock
  BY <1>1, <1>3, PlayerAssumption DEF World, Player, TornadoState
<1>5. /\ me.state = "cShoot" /\ me.inSpecial = w.me.inSpecial
      /\ me.wasAHeld = w.me.wasAHeld /\ me.pending = w.me.pending
  BY <1>1 DEF Player
<1>6. PlayerOK(p, me, b, FALSE)
  BY <1>1, <1>5 DEF WorldOK, PlayerOK
<1> HIDE DEF me, b, v
<1> QED
  BY <1>2, <1>3, <1>4, <1>5, <1>6 DEF WorldOK, LockOK

(* The player is released; no bullet is touched.                           *)
LEMMA ReleaseOK ==
    ASSUME NEW p \in Players, NEW w, NEW r \in Flags, MidOK(p, w, r),
           w.me.state = "cShoot", NEW slot \in {NoSlot, w.me.slot}
    PROVE  WorldOK(p, Release(w, slot), r, FALSE) /\ LockOK(w, Release(w, slot))
<1> DEFINE me == [w.me EXCEPT !.state = "cNone", !.noControl = "null", !.slot = slot]
           v == [me |-> me, b |-> w.b, lock |-> unlock(w.lock)]
<1>1. /\ w \in World /\ w.me \in Player /\ w.lock \in LockType
      /\ w.b \in [Slots -> Bullet] /\ WorldOK(p, w, r, FALSE)
  BY WorldFields DEF WorldOK, MidOK
<1>2. Release(w, slot) = v
  BY DEF Release
<1>3. unlock(w.lock) \in LockType /\ ~unlock(w.lock).held
  BY <1>1 DEF unlock, LockType
<1>4. me \in Player /\ v \in World /\ v.me = me /\ v.b = w.b /\ v.lock = unlock(w.lock)
  BY <1>1, <1>3 DEF World, Player, TornadoState
<1>5. /\ me.state = "cNone" /\ ~me.inSpecial /\ me.wasAHeld = w.me.wasAHeld
      /\ me.pending = w.me.pending
  BY <1>1 DEF Player, WorldOK, PlayerOK
<1>6. PlayerOK(p, me, w.b, FALSE)
  BY <1>1, <1>5 DEF WorldOK, PlayerOK
<1> HIDE DEF me, v
<1> QED
  BY <1>1, <1>2, <1>3, <1>4, <1>6 DEF WorldOK, LockOK

-----------------------------------------------------------------------------
(* Steps of the system. *)

RanFlags(p) == [s \in Slots |-> <<p, s>> \in ranBullets]

(* The engine's firstCalc leaves a world in order. *)
LEMMA AfterOgOK ==
    ASSUME IInv, NEW p \in Players, p \notin ranPlayers,
           NEW cond \in Conditions, NEW begin \in BOOLEAN, begin => CanBegin(p)
    PROVE  LET w == AfterOg(p, cond, begin)
           IN  /\ WorldOK(p, w, RanFlags(p), TRUE)
               /\ w.me.state = players[p].state /\ w.me.slot = players[p].slot
               /\ w.b = bullets[p] /\ w.lock = lock
               /\ cond \in {"dying", "dead", "cannon"} => ~w.me.inSpecial
<1> DEFINE special == cond \notin {"dying", "dead", "cannon"}
                        /\ (players[p].inSpecial \/ begin)
           me == [players[p] EXCEPT !.inSpecial = special]
           w == AfterOg(p, cond, begin)
<1>1. /\ players[p] \in Player /\ bullets[p] \in [Slots -> Bullet] /\ lock \in LockType
      /\ \A s \in Slots : BulletOK(bullets[p][s], <<p, s>> \in ranBullets)
      /\ PlayerOK(p, players[p], bullets[p], TRUE)
  BY DEF IInv, TypeOK
<1>2. w = [me |-> me, b |-> bullets[p], lock |-> lock]
  BY DEF AfterOg
<1>3. special \in BOOLEAN /\ me \in Player
  BY <1>1 DEF Player
<1>4. /\ me.state = players[p].state /\ me.slot = players[p].slot
      /\ me.wasAHeld = players[p].wasAHeld /\ me.pending = players[p].pending
      /\ me.inSpecial = special
  BY <1>1 DEF Player
<1>5. PlayerOK(p, me, bullets[p], TRUE)
  BY <1>1, <1>4 DEF PlayerOK, CanBegin
<1>6. \A s \in Slots : RanFlags(p)[s] = (<<p, s>> \in ranBullets)
  BY DEF RanFlags
<1>7. w.me = me /\ w.b = bullets[p] /\ w.lock = lock /\ w \in World
  BY <1>1, <1>2, <1>3 DEF World
<1> HIDE DEF me, w
<1>8. WorldOK(p, w, RanFlags(p), TRUE)
  BY <1>1, <1>5, <1>6, <1>7 DEF WorldOK
<1> QED
  BY <1>4, <1>7, <1>8 DEF w

(* Storing a world that is in order keeps the invariant. *)
LEMMA PutOK ==
    ASSUME IInv, scene = "loaded", NEW p \in Players, NEW v, Put(p, v),
           WorldOK(p, v, RanFlags(p), FALSE),
           v.lock.held /\ v.me.state = "cNone" =>
             lock.held /\ players[p].state = "cNone"
    PROVE  IInv'
<1>1. v \in World /\ v.me \in Player /\ v.b \in [Slots -> Bullet] /\ v.lock \in LockType
  BY WorldFields DEF WorldOK
<1>2. /\ players' = [players EXCEPT ![p] = v.me]
      /\ bullets' = [bullets EXCEPT ![p] = v.b]
      /\ lock' = v.lock
      /\ ranPlayers' = ranPlayers \cup {p}
      /\ scene' = scene /\ mMatchEnding' = mMatchEnding /\ ranBullets' = ranBullets
  BY DEF Put
<1>3. TypeOK'
  BY <1>1, <1>2 DEF IInv, TypeOK
<1>4. ASSUME NEW q \in Players, NEW s \in Slots
      PROVE  BulletOK(bullets'[q][s], <<q, s>> \in ranBullets')
  <2>1. CASE q = p
    <3>1. BulletOK(v.b[s], RanFlags(p)[s])
      BY DEF WorldOK
    <3>2. bullets'[q] = v.b
      BY <1>2, <2>1 DEF IInv, TypeOK
    <3>3. RanFlags(p)[s] = (<<p, s>> \in ranBullets)
      BY DEF RanFlags
    <3> QED
      BY <1>2, <2>1, <3>1, <3>2, <3>3
  <2>2. CASE q # p
    BY <1>2, <2>2 DEF IInv, TypeOK
  <2> QED
    BY <2>1, <2>2
<1>5. ASSUME NEW q \in Players
      PROVE  PlayerOK(q, players'[q], bullets'[q], q \notin ranPlayers')
  <2>1. CASE q = p
    <3>1. players'[q] = v.me /\ bullets'[q] = v.b /\ q \in ranPlayers'
      BY <1>2, <2>1 DEF IInv, TypeOK
    <3>2. PlayerOK(p, v.me, v.b, FALSE)
      BY DEF WorldOK
    <3> QED
      BY <2>1, <3>1, <3>2
  <2>2. CASE q # p
    <3>1. /\ players'[q] = players[q] /\ bullets'[q] = bullets[q]
          /\ (q \in ranPlayers') = (q \in ranPlayers)
      BY <1>2, <2>2 DEF IInv, TypeOK
    <3>2. PlayerOK(q, players[q], bullets[q], q \notin ranPlayers)
      BY DEF IInv
    <3> QED
      BY <3>1, <3>2
  <2> QED
    BY <2>1, <2>2
<1>6. LockNotLeaked'
  <2> SUFFICES ASSUME lock'.held
               PROVE  \E q \in Players : players'[q].state # "cNone"
    BY DEF LockNotLeaked
  <2>1. CASE v.me.state # "cNone"
    BY <1>2, <2>1 DEF IInv, TypeOK
  <2>2. CASE v.me.state = "cNone"
    <3>1. lock.held /\ players[p].state = "cNone"
      BY <1>2, <2>2
    <3>2. PICK q \in Players : players[q].state # "cNone"
      BY <3>1 DEF IInv, LockNotLeaked
    <3> QED
      BY <1>2, <3>1, <3>2 DEF IInv, TypeOK
  <2> QED
    BY <2>1, <2>2
<1> QED
  BY <1>2, <1>3, <1>4, <1>5, <1>6 DEF IInv

-----------------------------------------------------------------------------
(* The switch on playerState: whatever branch is taken stores a world v    *)
(* that StepOK relates to the world w it started from.                     *)
StepOK(p, w, v, r) ==
    /\ WorldOK(p, v, r, FALSE)
    /\ LockOK(w, v)
    /\ w.me.state = "cShootPrepare" /\ w.me.slot # NoSlot /\ v.me.state = "cShoot"
         => ~isActive(w.b[w.me.slot]) /\ v.b[w.me.slot].flightActive
    /\ p # Ctrl /\ w.me.state \in {"cNone", "cAim"}
         => v.me.state \in {"cNone", "cAim"}

(* The state each operator of the switch ends in. *)
LEMMA SwitchStates ==
    ASSUME NEW w \in World
    PROVE  /\ CancelAim(w).me.state = "cNone"
           /\ Commit(w).me.state = "cShootPrepare"
           /\ CancelPrepare(w).me.state = "cNone"
           /\ \A slot : Release(w, slot).me.state = "cNone"
           /\ \A hold :
                [w EXCEPT !.me = [w.me EXCEPT !.wasAHeld = hold]].me.state = w.me.state
<1>1. w.me \in Player
  BY WorldFields
<1>2. CancelAim(w).me.state = "cNone"
  BY <1>1 DEF CancelAim, Player
<1>3. Commit(w).me.state = "cShootPrepare"
  BY <1>1 DEF Commit, Player
<1>4. CancelPrepare(w).me.state = "cNone"
  BY <1>1 DEF CancelPrepare, Player
<1>5. \A slot : Release(w, slot).me.state = "cNone"
  BY <1>1 DEF Release, Player
<1>6. \A hold :
        [w EXCEPT !.me = [w.me EXCEPT !.wasAHeld = hold]].me.state = w.me.state
  BY <1>1 DEF World, Player
<1> QED
  BY <1>2, <1>3, <1>4, <1>5, <1>6

(* A branch that leaves the world alone. *)
LEMMA SameOK ==
    ASSUME NEW p, NEW w, NEW r, MidOK(p, w, r)
    PROVE  StepOK(p, w, w, r)
BY DEF MidOK, StepOK, LockOK

(* The branches of cAim. *)
LEMMA AimSwitchOK ==
    ASSUME NEW p \in Players, NEW w, NEW r \in Flags, MidOK(p, w, r),
           NEW cond, cond \in {"dying", "dead", "cannon"} => ~w.me.inSpecial,
           \/ AimCancelled(p, cond, w)
           \/ AutoCommit(p, cond, w)
           \/ RemoteAims(p, cond, w)
           \/ MapHidden(p, cond, w)
           \/ MapOpening(p, cond, w)
           \/ MapOpen(p, cond, w)
    PROVE  \E v : Put(p, v) /\ StepOK(p, w, v, r)
<1> DEFINE held(hold) == [w EXCEPT !.me = [w.me EXCEPT !.wasAHeld = hold]]
<1>1. w \in World /\ w.me.state = "cAim"
  BY DEF MidOK, WorldOK, AimCancelled, AutoCommit, RemoteAims, MapHidden,
         MapOpening, MapOpen, Aiming
<1>2. CASE AimCancelled(p, cond, w)
  <2>1. ~w.me.inSpecial /\ Put(p, CancelAim(w))
    BY <1>2 DEF AimCancelled, AimLost, Swapped
  <2>2. StepOK(p, w, CancelAim(w), r)
    BY <1>1, <2>1, CancelAimOK, SwitchStates DEF StepOK
  <2> QED
    BY <2>1, <2>2
<1>3. ASSUME p = Ctrl
      PROVE  StepOK(p, w, Commit(w), r)
  BY <1>1, <1>3, CommitOK, SwitchStates DEF StepOK
<1>4. ASSUME p = Ctrl, NEW hold \in BOOLEAN
      PROVE  StepOK(p, w, held(hold), r)
  BY <1>1, <1>4, StayOK, SwitchStates DEF StepOK
<1>5. StepOK(p, w, w, r)
  BY SameOK
<1>6. CASE AutoCommit(p, cond, w)
  BY <1>3, <1>6 DEF AutoCommit
<1>7. CASE RemoteAims(p, cond, w)
  BY <1>5, <1>7 DEF RemoteAims
<1>8. CASE MapHidden(p, cond, w)
  BY <1>4, <1>8 DEF MapHidden
<1>9. CASE MapOpening(p, cond, w)
  BY <1>5, <1>9 DEF MapOpening
<1>10. CASE MapOpen(p, cond, w)
  <2>1. p = Ctrl
    BY <1>10 DEF MapOpen
  <2>2. PICK aHeld \in BOOLEAN : Put(p, Commit(w)) \/ Put(p, held(aHeld))
    BY <1>10 DEF MapOpen
  <2> QED
    BY <1>3, <1>4, <2>1, <2>2
<1> QED
  BY <1>2, <1>6, <1>7, <1>8, <1>9, <1>10

(* All the branches of the switch. *)
LEMMA SwitchOK ==
    ASSUME NEW p \in Players, NEW w, NEW r \in Flags, MidOK(p, w, r),
           NEW cond, cond \in {"dying", "dead", "cannon"} => ~w.me.inSpecial,
           \/ WhileNone(p, w)
           \/ AimCancelled(p, cond, w)
           \/ AutoCommit(p, cond, w)
           \/ RemoteAims(p, cond, w)
           \/ MapHidden(p, cond, w)
           \/ MapOpening(p, cond, w)
           \/ MapOpen(p, cond, w)
           \/ PrepareCancelled(p, w)
           \/ Preparing(p, cond, w)
           \/ ShootSwapped(p, w)
           \/ Shooting(p, w)
    PROVE  \E v : Put(p, v) /\ StepOK(p, w, v, r)
<1>1. w \in World
  BY DEF MidOK, WorldOK
<1>2. StepOK(p, w, w, r)
  BY SameOK
<1>3. CASE WhileNone(p, w)
  BY <1>2, <1>3 DEF WhileNone
<1>4. CASE \/ AimCancelled(p, cond, w) \/ AutoCommit(p, cond, w)
           \/ RemoteAims(p, cond, w) \/ MapHidden(p, cond, w)
           \/ MapOpening(p, cond, w) \/ MapOpen(p, cond, w)
  BY <1>4, AimSwitchOK
<1>5. CASE PrepareCancelled(p, w)
  <2>1. w.me.state = "cShootPrepare" /\ Put(p, CancelPrepare(w))
    BY <1>5 DEF PrepareCancelled
  <2>2. StepOK(p, w, CancelPrepare(w), r)
    BY <1>1, <2>1, CancelPrepareOK, SwitchStates DEF StepOK
  <2> QED
    BY <2>1, <2>2
<1>6. CASE Preparing(p, cond, w)
  <2> DEFINE long == mMatchEnding \/ cond = "dead"
  <2>1. /\ w.me.state = "cShootPrepare"
        /\ Put(p, Shoot(w, long)) \/ Put(p, w)
    BY <1>6 DEF Preparing
  <2>2. StepOK(p, w, Shoot(w, long), r)
    BY <1>1, <2>1, ShootOK DEF StepOK
  <2> QED
    BY <1>2, <2>1, <2>2
<1>7. CASE ShootSwapped(p, w) \/ Shooting(p, w)
  <2>1. /\ w.me.state = "cShoot"
        /\ Put(p, w) \/ \E slot \in {NoSlot, w.me.slot} : Put(p, Release(w, slot))
    BY <1>7 DEF ShootSwapped, Shooting
  <2>2. \A slot \in {NoSlot, w.me.slot} : StepOK(p, w, Release(w, slot), r)
    BY <1>1, <2>1, ReleaseOK, SwitchStates DEF StepOK
  <2> QED
    BY <1>2, <2>1, <2>2
<1> QED
  BY <1>3, <1>4, <1>5, <1>6, <1>7

-----------------------------------------------------------------------------
(* Each action keeps the invariant. *)

(* What one player's firstCalc may do to that player. *)
TurnOK(p) ==
    /\ players[p].state = "cShootPrepare" /\ players[p].slot # NoSlot
         /\ players'[p].state = "cShoot"
       => ~isActive(bullets[p][players[p].slot])
            /\ bullets'[p][players[p].slot].flightActive
    /\ p # Ctrl /\ players[p].state = "cNone" => players'[p].state \in {"cNone", "cAim"}

LEMMA PlayerFirstCalcOK ==
    ASSUME IInv, NEW p \in Players, PlayerFirstCalc(p)
    PROVE  IInv' /\ TurnOK(p) /\ \A q \in Players \ {p} : players'[q] = players[q]
<1>1. PICK cond \in Conditions, begin \in BOOLEAN :
        /\ begin => CanBegin(p)
        /\ LET w == detectChangeState(AfterOg(p, cond, begin))
           IN  \/ WhileNone(p, w)
               \/ AimCancelled(p, cond, w)
               \/ AutoCommit(p, cond, w)
               \/ RemoteAims(p, cond, w)
               \/ MapHidden(p, cond, w)
               \/ MapOpening(p, cond, w)
               \/ MapOpen(p, cond, w)
               \/ PrepareCancelled(p, w)
               \/ Preparing(p, cond, w)
               \/ ShootSwapped(p, w)
               \/ Shooting(p, w)
  BY DEF PlayerFirstCalc
<1> DEFINE o == AfterOg(p, cond, begin)
           w == detectChangeState(o)
           r == RanFlags(p)
<1>2. scene = "loaded" /\ p \notin ranPlayers
  BY DEF PlayerFirstCalc, loaded
<1>3. r \in Flags
  BY DEF RanFlags, Flags
<1>4. /\ WorldOK(p, o, r, TRUE)
      /\ o.me.state = players[p].state /\ o.me.slot = players[p].slot
      /\ o.b = bullets[p] /\ o.lock = lock
      /\ cond \in {"dying", "dead", "cannon"} => ~o.me.inSpecial
  BY <1>1, <1>2, AfterOgOK
<1>5. /\ MidOK(p, w, r) /\ LockOK(o, w)
      /\ o.me.state = "cNone" => w.me.state \in {"cNone", "cAim"}
      /\ w.me.inSpecial = o.me.inSpecial
      /\ o.me.state = "cShootPrepare" => w = o
  <2> HIDE DEF o, r
  <2> QED
    BY <1>3, <1>4, DetectOK DEF w
<1>6. PICK v : Put(p, v) /\ StepOK(p, w, v, r)
  <2>1. cond \in {"dying", "dead", "cannon"} => ~w.me.inSpecial
    BY <1>4, <1>5
  <2> HIDE DEF r, w
  <2> QED
    BY <1>1, <1>3, <1>5, <2>1, SwitchOK DEF w
<1> HIDE DEF o, w, r
<1>7. v.lock.held /\ v.me.state = "cNone" => lock.held /\ players[p].state = "cNone"
  BY <1>4, <1>5, <1>6 DEF StepOK, LockOK
<1>8. IInv'
  BY <1>2, <1>6, <1>7, PutOK DEF StepOK, r
<1>9. /\ players'[p] = v.me /\ bullets'[p] = v.b
      /\ \A q \in Players \ {p} : players'[q] = players[q]
  BY <1>6 DEF Put, IInv, TypeOK
<1>10. TurnOK(p)
  BY <1>4, <1>5, <1>6, <1>9 DEF TurnOK, StepOK
<1> QED
  BY <1>8, <1>9, <1>10

LEMMA BulletFirstCalcOK ==
    ASSUME IInv, NEW p \in Players, NEW s \in Slots, BulletFirstCalc(p, s)
    PROVE  IInv'
<1> DEFINE b == bullets[p][s]
<1>1. /\ HasTurn(b) /\ <<p, s>> \notin ranBullets
      /\ bullets' = [bullets EXCEPT ![p][s] = vtFirstCalc(b)]
      /\ ranBullets' = ranBullets \cup {<<p, s>>}
      /\ UNCHANGED <<scene, mMatchEnding, players, lock, ranPlayers>>
  BY DEF BulletFirstCalc
<1>2. BulletOK(b, FALSE)
  <2>1. BulletOK(b, <<p, s>> \in ranBullets)
    BY DEF IInv
  <2> QED
    BY <1>1, <2>1 DEF BulletOK
<1>3. b \in Bullet /\ vtFirstCalc(b) \in Bullet
  <2>1. b \in Bullet
    BY DEF IInv, TypeOK
  <2>2. b.sm = "Burst" => b.burstFrm < BurstDuration
    BY <1>1, <1>2 DEF BulletOK, Driven, isActive
  <2> HIDE DEF b
  <2> QED
    BY <2>1, <2>2, BulletOps
<1>4. isActive(b) /\ BulletOK(vtFirstCalc(b), TRUE)
  BY <1>1, <1>3, <1>2, BulletOKTurn
<1>5. /\ \A q \in Players, t \in Slots :
           bullets'[q][t] = IF q = p /\ t = s THEN vtFirstCalc(b) ELSE bullets[q][t]
      /\ bullets' \in [Players -> [Slots -> Bullet]]
  BY <1>1, <1>3 DEF IInv, TypeOK
<1>6. TypeOK'
  BY <1>1, <1>5 DEF IInv, TypeOK, AllBullets
<1> HIDE DEF b
<1>7. ASSUME NEW q \in Players, NEW t \in Slots
      PROVE  BulletOK(bullets'[q][t], <<q, t>> \in ranBullets')
  <2>1. CASE q = p /\ t = s
    BY <1>1, <1>4, <1>5, <2>1
  <2>2. CASE ~(q = p /\ t = s)
    <3>1. (<<q, t>> \in ranBullets') = (<<q, t>> \in ranBullets)
      BY <1>1, <2>2
    <3>2. bullets'[q][t] = bullets[q][t]
      BY <1>5, <2>2
    <3> QED
      BY <3>1, <3>2 DEF IInv
  <2> QED
    BY <2>1, <2>2
<1>8. ASSUME NEW q \in Players
      PROVE  PlayerOK(q, players'[q], bullets'[q], q \notin ranPlayers')
  <2>1. PlayerOK(q, players[q], bullets[q], q \notin ranPlayers)
    BY DEF IInv
  <2>2. \A t \in Slots : ~isActive(bullets[q][t]) => bullets'[q][t] = bullets[q][t]
    BY <1>4, <1>5 DEF b
  <2>3. players[q].slot # NoSlot => players[q].slot \in Slots
    BY DEF IInv, TypeOK, Player
  <2> QED
    BY <1>1, <2>1, <2>2, <2>3 DEF PlayerOK, Ready
<1>9. LockNotLeaked'
  BY <1>1 DEF IInv, LockNotLeaked
<1> QED
  BY <1>1, <1>6, <1>7, <1>8, <1>9 DEF IInv

LEMMA NextFrameOK ==
    ASSUME IInv, NextFrame
    PROVE  IInv' /\ \A p \in Players : players'[p].state = players[p].state
<1>1. /\ bullets' = [p \in Players |->
                       [s \in Slots |-> Elapse(Settle(bullets[p][s]))]]
      /\ players' = [p \in Players |->
                       [players[p] EXCEPT !.wait = IF @ = 0 THEN 0 ELSE @ - 1]]
      /\ ranPlayers' = {} /\ ranBullets' = {}
      /\ UNCHANGED <<scene, mMatchEnding, lock>>
  BY DEF NextFrame
<1>2. ASSUME NEW p \in Players, NEW s \in Slots
      PROVE  LET b == bullets[p][s]
                 c == bullets'[p][s]
             IN  /\ c \in Bullet /\ BulletOK(c, FALSE)
                 /\ ~isActive(b) => ~isActive(c)
                 /\ Ready(b) => Ready(c) /\ c.resv = "none"
  <2> DEFINE b == bullets[p][s]
             ran == <<p, s>> \in ranBullets
  <2>1. b \in Bullet /\ BulletOK(b, ran) /\ ran \in BOOLEAN
    BY DEF IInv, TypeOK
  <2>2. bullets'[p][s] = Elapse(Settle(b))
    BY <1>1
  <2>3. Settle(b) \in Bullet
    BY <2>1, BulletOps
  <2>4. Elapse(Settle(b)) \in Bullet
    BY <2>3, BulletOps
  <2> HIDE DEF b, ran
  <2> QED
    BY <2>1, <2>2, <2>4, BulletOKSettle DEF b
<1>3. ASSUME NEW p \in Players
      PROVE  LET me == players[p]
                 you == players'[p]
             IN  /\ you \in Player
                 /\ you.state = me.state /\ you.slot = me.slot
                 /\ you.wasAHeld = me.wasAHeld /\ you.pending = me.pending
                 /\ you.inSpecial = me.inSpecial
  <2>1. players[p] \in Player
    BY DEF IInv, TypeOK
  <2>2. players'[p] = [players[p] EXCEPT !.wait = IF players[p].wait = 0 THEN 0
                                                  ELSE players[p].wait - 1]
    BY <1>1
  <2> QED
    BY <2>1, <2>2 DEF Player
<1>4. TypeOK'
  BY <1>1, <1>2, <1>3 DEF IInv, TypeOK
<1>5. \A p \in Players, s \in Slots :
        BulletOK(bullets'[p][s], <<p, s>> \in ranBullets')
  BY <1>1, <1>2 DEF BulletOK
<1>6. ASSUME NEW p \in Players
      PROVE  PlayerOK(p, players'[p], bullets'[p], p \notin ranPlayers')
  <2>1. PlayerOK(p, players[p], bullets[p], p \notin ranPlayers)
    BY DEF IInv
  <2>2. players[p].slot # NoSlot => players[p].slot \in Slots
    BY DEF IInv, TypeOK, Player
  <2> QED
    BY <1>2, <1>3, <2>1, <2>2 DEF PlayerOK
<1>7. LockNotLeaked'
  BY <1>1, <1>3 DEF IInv, LockNotLeaked
<1> QED
  BY <1>1, <1>3, <1>4, <1>5, <1>6, <1>7 DEF IInv

(* Actions that touch the special, the weapon or the remote shot of        *)
(* players, and nothing else.                                              *)
PlayersTouched ==
    /\ players' \in [Players -> Player]
    /\ \A p \in Players :
         LET me == players[p]
             you == players'[p]
         IN  /\ you.state = me.state /\ you.slot = me.slot
             /\ you.wasAHeld = me.wasAHeld
             /\ you.inSpecial => me.inSpecial
             /\ you.pending => me.pending \/ (p # Ctrl /\ ~you.inSpecial)
    /\ UNCHANGED <<bullets, lock, ranPlayers, ranBullets>>

LEMMA PlayersTouchedOK ==
    ASSUME IInv, PlayersTouched, scene' \in {"loaded", "leaving", "reset"},
           mMatchEnding' \in BOOLEAN, scene' = "reset" => scene = "reset"
    PROVE  IInv'
<1>1. TypeOK'
  BY DEF IInv, TypeOK, PlayersTouched
<1>2. \A p \in Players, s \in Slots :
        BulletOK(bullets'[p][s], <<p, s>> \in ranBullets')
  BY DEF IInv, PlayersTouched
<1>3. ASSUME NEW p \in Players
      PROVE  PlayerOK(p, players'[p], bullets'[p], p \notin ranPlayers')
  <2>1. PlayerOK(p, players[p], bullets[p], p \notin ranPlayers)
    BY DEF IInv
  <2>2. players[p] \in Player /\ players'[p] \in Player
    BY DEF IInv, TypeOK, PlayersTouched
  <2> QED
    BY <2>1, <2>2 DEF PlayerOK, PlayersTouched, Player
<1>4. LockNotLeaked'
  BY DEF IInv, LockNotLeaked, PlayersTouched
<1>5. scene' = "reset" => \A p \in Players : players'[p].slot = NoSlot
  BY DEF IInv, PlayersTouched
<1> QED
  BY <1>1, <1>2, <1>3, <1>4, <1>5 DEF IInv

LEMMA SpecialRunsOutOK ==
    ASSUME IInv, NEW p \in Players, SpecialRunsOut(p)
    PROVE  IInv' /\ \A q \in Players : players'[q].state = players[q].state
<1>1. PlayersTouched
  BY DEF SpecialRunsOut, PlayersTouched, IInv, TypeOK, Player
<1>2. scene' = scene /\ mMatchEnding' = mMatchEnding
  BY DEF SpecialRunsOut
<1> QED
  BY <1>1, <1>2, PlayersTouchedOK DEF IInv, TypeOK, PlayersTouched

LEMMA RemoteShotOK ==
    ASSUME IInv, NEW p \in Players, RemoteShot(p)
    PROVE  IInv' /\ \A q \in Players : players'[q].state = players[q].state
<1>1. PlayersTouched
  <2> DEFINE me == [players[p] EXCEPT !.pending = TRUE, !.inSpecial = FALSE]
  <2>1. /\ p # Ctrl
        /\ players' = [players EXCEPT ![p] = me]
        /\ UNCHANGED <<bullets, lock, ranPlayers, ranBullets>>
    BY DEF RemoteShot
  <2>2. players \in [Players -> Player]
    BY DEF IInv, TypeOK
  <2>3. /\ me \in Player /\ me.state = players[p].state /\ me.slot = players[p].slot
        /\ me.wasAHeld = players[p].wasAHeld /\ ~me.inSpecial
    BY <2>2 DEF Player
  <2> HIDE DEF me
  <2> QED
    BY <2>1, <2>2, <2>3 DEF PlayersTouched
<1>2. scene' = scene /\ mMatchEnding' = mMatchEnding
  BY DEF RemoteShot
<1> QED
  BY <1>1, <1>2, PlayersTouchedOK DEF IInv, TypeOK, PlayersTouched

LEMMA SwapWeaponOK ==
    ASSUME IInv, NEW w \in Weapons, SwapWeapon(w)
    PROVE  IInv' /\ \A q \in Players : players'[q].state = players[q].state
<1>1. PlayersTouched
  <2>1. PICK keep \in BOOLEAN :
          players' = [players EXCEPT ![Ctrl].weapon = w,
                                     ![Ctrl].inSpecial = @ /\ keep]
    BY DEF SwapWeapon
  <2> DEFINE me == [players[Ctrl] EXCEPT !.weapon = w,
                                         !.inSpecial = players[Ctrl].inSpecial /\ keep]
  <2>2. players \in [Players -> Player] /\ Ctrl \in Players
    BY PlayerAssumption DEF IInv, TypeOK
  <2>3. players' = [players EXCEPT ![Ctrl] = me]
    BY <2>1, <2>2 DEF Player
  <2>4. players[Ctrl].inSpecial \in BOOLEAN
    BY <2>2 DEF Player
  <2>5. /\ me \in Player
        /\ me.state = players[Ctrl].state /\ me.slot = players[Ctrl].slot
        /\ me.wasAHeld = players[Ctrl].wasAHeld
        /\ me.inSpecial => players[Ctrl].inSpecial
        /\ me.pending = players[Ctrl].pending
    BY <2>2, <2>4 DEF Player
  <2> HIDE DEF me
  <2> QED
    BY <2>2, <2>3, <2>5 DEF SwapWeapon, PlayersTouched
<1>2. scene' = scene /\ mMatchEnding' = mMatchEnding
  BY DEF SwapWeapon
<1> QED
  BY <1>1, <1>2, PlayersTouchedOK DEF IInv, TypeOK, PlayersTouched

(* IsSleepingAll, LeaveScene and stuttering touch no player. *)
LEMMA QuietOK ==
    ASSUME IInv, IsSleepingAll \/ LeaveScene \/ UNCHANGED vars
    PROVE  IInv' /\ players' = players
<1>1. PlayersTouched /\ players' = players
  BY DEF IsSleepingAll, LeaveScene, vars, PlayersTouched, IInv, TypeOK
<1>2. /\ scene' \in {"loaded", "leaving", "reset"} /\ mMatchEnding' \in BOOLEAN
      /\ scene' = "reset" => scene = "reset"
  BY DEF IsSleepingAll, LeaveScene, vars, IInv, TypeOK
<1> QED
  BY <1>1, <1>2, PlayersTouchedOK

(* The cleanup leaves no bullet active and every player in cNone. *)
LEMMA CleanupOK ==
    ASSUME IInv, resetForCleanup
    PROVE  IInv' /\ \A p \in Players : players'[p].state = "cNone"
<1>1. /\ bullets' = [p \in Players |-> [s \in Slots |-> cancel(bullets[p][s])]]
      /\ players' = [p \in Players |->
                       [players[p] EXCEPT !.state = "cNone", !.slot = NoSlot,
                                          !.wasAHeld = FALSE, !.pending = FALSE]]
      /\ lock' = unlock(lock)
      /\ UNCHANGED <<scene, mMatchEnding, ranPlayers, ranBullets>>
      /\ FrameDone
  BY DEF resetForCleanup
<1>2. ASSUME NEW p \in Players, NEW s \in Slots
      PROVE  /\ bullets'[p][s] \in Bullet /\ ~isActive(bullets'[p][s])
             /\ BulletOK(bullets'[p][s], <<p, s>> \in ranBullets')
  <2> DEFINE b == bullets[p][s]
             ran == <<p, s>> \in ranBullets
  <2>1. b \in Bullet /\ BulletOK(b, ran) /\ ran \in BOOLEAN
    BY DEF IInv, TypeOK
  <2>2. HasTurn(b) => ran
    BY <1>1 DEF FrameDone
  <2>3. bullets'[p][s] = cancel(b)
    BY <1>1
  <2>4. ranBullets' = ranBullets
    BY <1>1
  <2>5. BulletOK(cancel(b), ran) /\ ~isActive(cancel(b)) /\ cancel(b) \in Bullet
    <3> HIDE DEF b, ran
    <3> QED
      BY <2>1, <2>2, BulletOKCancel, BulletOps
  <2> QED
    BY <2>3, <2>4, <2>5
<1>3. ASSUME NEW p \in Players
      PROVE  /\ players'[p] \in Player
             /\ players'[p].state = "cNone" /\ players'[p].slot = NoSlot
             /\ ~players'[p].wasAHeld /\ ~players'[p].pending
  <2>1. players[p] \in Player
    BY DEF IInv, TypeOK
  <2>2. players'[p] = [players[p] EXCEPT !.state = "cNone", !.slot = NoSlot,
                                         !.wasAHeld = FALSE, !.pending = FALSE]
    BY <1>1
  <2> QED
    BY <2>1, <2>2 DEF Player, TornadoState
<1>4. lock' \in LockType /\ ~lock'.held
  BY <1>1 DEF unlock, LockType, IInv, TypeOK
<1>5. TypeOK'
  BY <1>1, <1>2, <1>3, <1>4 DEF IInv, TypeOK
<1>6. \A p \in Players : PlayerOK(p, players'[p], bullets'[p], p \notin ranPlayers')
  BY <1>2, <1>3 DEF PlayerOK, Slots
<1>7. LockNotLeaked'
  BY <1>4 DEF LockNotLeaked
<1>8. scene' # "reset"
  BY <1>1 DEF FrameDone, loaded
<1> QED
  BY <1>2, <1>3, <1>5, <1>6, <1>7, <1>8 DEF IInv

(* A scene change drops the bullets and the slots, and keeps the states.   *)
LEMMA onCalcOK ==
    ASSUME IInv, onCalc
    PROVE  IInv' /\ \A p \in Players : players'[p].state = players[p].state
<1>1. /\ scene' = "reset" /\ mMatchEnding' = FALSE
      /\ players' = [p \in Players |-> [players[p] EXCEPT !.slot = NoSlot]]
      /\ bullets' = [p \in Players |-> [s \in Slots |-> create]]
      /\ UNCHANGED <<lock, ranPlayers, ranBullets>>
  BY DEF onCalc
<1>2. create \in Bullet /\ ~isActive(create) /\ \A ran : BulletOK(create, ran)
  BY FlightAssumption DEF create, Bullet, BSAState, Reservation, BurstFrames, isActive, BulletOK, HasTurn
<1>3. ASSUME NEW p \in Players
      PROVE  LET me == players[p]
                 you == players'[p]
             IN  /\ me \in Player /\ you \in Player
                 /\ you.state = me.state /\ you.slot = NoSlot
                 /\ you.wasAHeld = me.wasAHeld /\ you.pending = me.pending
                 /\ you.inSpecial = me.inSpecial
  <2>1. players[p] \in Player
    BY DEF IInv, TypeOK
  <2>2. players'[p] = [players[p] EXCEPT !.slot = NoSlot]
    BY <1>1
  <2> QED
    BY <2>1, <2>2 DEF Player
<1>4. TypeOK'
  BY <1>1, <1>2, <1>3 DEF IInv, TypeOK
<1>5. \A p \in Players : PlayerOK(p, players'[p], bullets'[p], p \notin ranPlayers')
  <2> TAKE p \in Players
  <2>1. PlayerOK(p, players[p], bullets[p], p \notin ranPlayers)
    BY DEF IInv
  <2>2. \A s \in Slots : bullets'[p][s] = create
    BY <1>1
  <2> QED
    BY <1>2, <1>3, <2>1, <2>2 DEF PlayerOK, Slots
<1>6. LockNotLeaked'
  BY <1>1, <1>3 DEF IInv, LockNotLeaked
<1> QED
  BY <1>1, <1>2, <1>3, <1>4, <1>5, <1>6 DEF IInv

LEMMA EnterSceneOK ==
    ASSUME IInv, EnterScene
    PROVE  IInv' /\ \A p \in Players : players'[p].state = players[p].state
<1>1. PICK w \in Weapons, late \in 0 .. StaleFrames :
        players' = [p \in Players |->
                      [players[p] EXCEPT
                         !.noControl = "null", !.inSpecial = FALSE,
                         !.weapon = w,
                         !.wait = IF players[p].state = "cNone"
                                  THEN 0 ELSE late]]
  BY DEF EnterScene
<1>2. /\ scene = "reset" /\ scene' = "loaded"
      /\ bullets' = [p \in Players |-> [s \in Slots |-> create]]
      /\ ranPlayers' = {} /\ ranBullets' = {}
      /\ UNCHANGED <<mMatchEnding, lock>>
  BY DEF EnterScene
<1>3. create \in Bullet /\ \A ran : BulletOK(create, ran)
  BY FlightAssumption DEF create, Bullet, BSAState, Reservation, BurstFrames, BulletOK, HasTurn
<1>4. late \in Nat
  BY PlayerAssumption
<1>5. ASSUME NEW p \in Players
      PROVE  LET me == players[p]
                 you == players'[p]
             IN  /\ me \in Player /\ you \in Player
                 /\ you.state = me.state /\ you.slot = NoSlot
                 /\ you.wasAHeld = me.wasAHeld /\ you.pending = me.pending
                 /\ ~you.inSpecial
  <2>1. players[p] \in Player /\ players[p].slot = NoSlot
    BY <1>2 DEF IInv, TypeOK
  <2>2. players'[p] = [players[p] EXCEPT
                         !.noControl = "null", !.inSpecial = FALSE,
                         !.weapon = w,
                         !.wait = IF players[p].state = "cNone" THEN 0 ELSE late]
    BY <1>1
  <2> DEFINE wait == IF players[p].state = "cNone" THEN 0 ELSE late
  <2>3. wait \in Nat
    BY <1>4
  <2> HIDE DEF wait
  <2>4. players'[p] = [players[p] EXCEPT !.noControl = "null", !.inSpecial = FALSE,
                                         !.weapon = w, !.wait = wait]
    BY <2>2 DEF wait
  <2> QED
    BY <2>1, <2>3, <2>4 DEF Player
<1>6. TypeOK'
  BY <1>2, <1>3, <1>5, <1>1 DEF IInv, TypeOK
<1>7. \A p \in Players : PlayerOK(p, players'[p], bullets'[p], p \notin ranPlayers')
  <2> TAKE p \in Players
  <2>1. PlayerOK(p, players[p], bullets[p], p \notin ranPlayers)
    BY DEF IInv
  <2> QED
    BY <1>5, <2>1 DEF PlayerOK
<1>8. LockNotLeaked'
  BY <1>2, <1>5 DEF IInv, LockNotLeaked
<1> QED
  BY <1>2, <1>3, <1>5, <1>6, <1>7, <1>8 DEF IInv

-----------------------------------------------------------------------------
LEMMA InitOK == ASSUME Init PROVE IInv
<1>1. PICK w \in Weapons, t \in {TankOf[x] : x \in Weapons} :
        /\ players = [p \in Players |->
              [state |-> "cNone", slot |-> NoSlot, wait |-> 0,
               wasAHeld |-> FALSE, pending |-> FALSE, noControl |-> "null",
               inSpecial |-> FALSE, weapon |-> w, aimTank |-> t]]
        /\ lock = [held |-> FALSE, tank |-> t]
  BY DEF Init
<1>2. create \in Bullet /\ \A ran : BulletOK(create, ran)
  BY FlightAssumption DEF create, Bullet, BSAState, Reservation, BurstFrames, BulletOK, HasTurn
<1>3. TypeOK
  BY <1>1, <1>2 DEF Init, TypeOK, Player, TornadoState, LockType, NoSlot, Slots
<1>4. \A p \in Players, s \in Slots :
        BulletOK(bullets[p][s], <<p, s>> \in ranBullets)
  BY <1>2 DEF Init
<1>5. \A p \in Players : PlayerOK(p, players[p], bullets[p], p \notin ranPlayers)
  BY <1>1 DEF PlayerOK
<1>6. LockNotLeaked
  BY <1>1 DEF LockNotLeaked
<1> QED
  BY <1>3, <1>4, <1>5, <1>6 DEF IInv, Init

(* Every step keeps the invariant and, for ShotLaunches and                *)
(* NoStaleRemoteShot, turns every player the way TurnOK says.              *)
LEMMA NextOK ==
    ASSUME IInv, [Next]_vars
    PROVE  IInv' /\ \A p \in Players : TurnOK(p)
<1>1. ASSUME \A p \in Players : \/ players'[p].state = players[p].state
                                \/ players'[p].state = "cNone"
      PROVE  \A p \in Players : TurnOK(p)
  BY <1>1 DEF TurnOK
<1>2. ASSUME NEW p \in Players, PlayerFirstCalc(p)
      PROVE  IInv' /\ \A q \in Players : TurnOK(q)
  <2>1. /\ IInv' /\ TurnOK(p)
        /\ \A q \in Players \ {p} : players'[q] = players[q]
    BY <1>2, PlayerFirstCalcOK
  <2>2. \A q \in Players \ {p} : TurnOK(q)
    BY <2>1 DEF TurnOK
  <2> QED
    BY <2>1, <2>2
<1>3. ASSUME NEW p \in Players, NEW s \in Slots, BulletFirstCalc(p, s)
      PROVE  IInv' /\ \A q \in Players : TurnOK(q)
  <2>1. players' = players
    BY <1>3 DEF BulletFirstCalc
  <2> QED
    BY <1>1, <1>3, <2>1, BulletFirstCalcOK
<1>4. ASSUME NEW p \in Players, SpecialRunsOut(p) \/ RemoteShot(p)
      PROVE  IInv' /\ \A q \in Players : TurnOK(q)
  BY <1>1, <1>4, SpecialRunsOutOK, RemoteShotOK
<1>5. ASSUME NEW w \in Weapons, SwapWeapon(w)
      PROVE  IInv' /\ \A q \in Players : TurnOK(q)
  BY <1>1, <1>5, SwapWeaponOK
<1>6. CASE NextFrame
  BY <1>1, <1>6, NextFrameOK
<1>7. CASE IsSleepingAll \/ LeaveScene \/ UNCHANGED vars
  BY <1>1, <1>7, QuietOK
<1>8. CASE resetForCleanup
  BY <1>1, <1>8, CleanupOK
<1>9. CASE onCalc
  BY <1>1, <1>9, onCalcOK
<1>10. CASE EnterScene
  BY <1>1, <1>10, EnterSceneOK
<1> QED
  BY <1>2, <1>3, <1>4, <1>5, <1>6, <1>7, <1>8, <1>9, <1>10 DEF Next

(* The inductive invariant holds: the lemmas above, for every step.        *)
THEOREM Invariance == Spec => []IInv
<1>1. Init => IInv
  BY InitOK
<1>2. IInv /\ [Next]_vars => IInv'
  BY NextOK
<1> QED
  BY <1>1, <1>2, PTL DEF Spec

(* The manager's arrays, the bullets and the lock keep their types; no     *)
(* activation has a slot that is not one of its two.                       *)
THEOREM TypeCorrect == Spec => []TypeOK
<1>1. IInv => TypeOK
  BY DEF IInv
<1> QED
  BY <1>1, Invariance, PTL

(* A strike that counts as active is one the bullet's state machine        *)
(* finishes.                                                               *)
THEOREM StrikesAreDriven == Spec => []StrikeIsDriven
<1>1. IInv => StrikeIsDriven
  BY DEF IInv, BulletOK, StrikeIsDriven
<1> QED
  BY <1>1, Invariance, PTL

(* calcBurstFollow always finds mSender set. *)
THEOREM BurstsHaveSenders == Spec => []BurstHasSender
<1>1. IInv => BurstHasSender
  BY DEF IInv, BulletOK, BurstHasSender
<1> QED
  BY <1>1, Invariance, PTL

(* mWasAHeld is set only while its player aims. *)
THEOREM HoldsBelongToAims == Spec => []HoldBelongsToAim
<1>1. IInv => HoldBelongsToAim
  BY DEF IInv, PlayerOK, HoldBelongsToAim
<1> QED
  BY <1>1, Invariance, PTL

(* The tank inhibitor is released with the last activation. *)
THEOREM LockIsReleased == Spec => []LockNotLeaked
<1>1. IInv => LockNotLeaked
  BY DEF IInv
<1> QED
  BY <1>1, Invariance, PTL

(* A wind-up that ends launches the bullet of its slot, idle until then.   *)
THEOREM ShotsLaunch == Spec => ShotLaunches
<1> DEFINE A == \A p \in Players :
         /\ players[p].state = "cShootPrepare"
         /\ players[p].slot # NoSlot
         /\ players'[p].state = "cShoot"
         => LET s == players[p].slot
            IN  ~isActive(bullets[p][s]) /\ bullets'[p][s].flightActive
<1>1. IInv /\ [Next]_vars => [A]_vars
  BY NextOK DEF TurnOK
<1> HIDE DEF A
<1>2. Spec => [][A]_vars
  BY <1>1, Invariance, PTL DEF Spec
<1> QED
  BY <1>2 DEF ShotLaunches, A

(* A remote player goes from cNone to cAim, never straight to the shot.    *)
THEOREM NoStaleShots == Spec => NoStaleRemoteShot
<1> DEFINE A == \A p \in Players \ {Ctrl} :
         players[p].state = "cNone" => players'[p].state \in {"cNone", "cAim"}
<1>1. IInv /\ [Next]_vars => [A]_vars
  BY NextOK DEF TurnOK
<1> HIDE DEF A
<1>2. Spec => [][A]_vars
  BY <1>1, Invariance, PTL DEF Spec
<1> QED
  BY <1>2 DEF NoStaleRemoteShot, A

-----------------------------------------------------------------------------
(* Control and the tank.  They weigh the player and the lock only, so that *)
(* a world is followed through the same operators once more.               *)
Free(w) == w.me.state \in {"cNone", "cAim"} => w.me.noControl = "null"
Capped(w) == w.me.state # "cNone" => w.lock.held /\ w.lock.tank = w.me.aimTank

Keeps(w, v) == (Free(w) => Free(v)) /\ (Capped(w) => Capped(v))

LEMMA DetectKeeps ==
    ASSUME NEW w \in World
    PROVE  Keeps(w, detectChangeState(w))
<1>1. w.me \in Player /\ w.lock \in LockType
      BY WorldFields
<1>2. CASE StartsAim(w.me)
  <2> DEFINE v == EnterAim(w)
  <2>1. /\ v.me.state = "cAim" /\ v.me.noControl = w.me.noControl
        /\ v.me.pending = FALSE /\ v.me.aimTank = computeTankId(w.me.weapon)
        /\ v.lock = lockForInkstrike(w.me.weapon)
        BY <1>1 DEF EnterAim, Player
  <2>2. detectChangeState(w) = v
        BY <1>2, <2>1 DEF detectChangeState
  <2>3. w.me.state = "cNone"
        BY <1>2 DEF StartsAim
  <2> QED BY <2>1, <2>2, <2>3 DEF Keeps, Free, Capped, lockForInkstrike
<1>3. CASE ~StartsAim(w.me) /\ w.me.pending /\ w.me.state = "cAim"
  <2> DEFINE v == TakeRemoteShot(w)
  <2>1. /\ v.me.state = "cShootPrepare" /\ v.me.aimTank = w.me.aimTank
        /\ v.lock = w.lock
        BY <1>1 DEF TakeRemoteShot, Player
  <2>2. detectChangeState(w) = v
        BY <1>3 DEF detectChangeState
  <2> QED BY <1>3, <2>1, <2>2 DEF Keeps, Free, Capped
<1>4. CASE ~StartsAim(w.me) /\ ~(w.me.pending /\ w.me.state = "cAim")
      BY <1>4 DEF detectChangeState, Keeps
<1> QED BY <1>2, <1>3, <1>4

LEMMA SwitchKeeps ==
    ASSUME NEW p \in Players, NEW w \in World, NEW cond,
           \/ WhileNone(p, w)
           \/ AimCancelled(p, cond, w)
           \/ AutoCommit(p, cond, w)
           \/ RemoteAims(p, cond, w)
           \/ MapHidden(p, cond, w)
           \/ MapOpening(p, cond, w)
           \/ MapOpen(p, cond, w)
           \/ PrepareCancelled(p, w)
           \/ Preparing(p, cond, w)
           \/ ShootSwapped(p, w)
           \/ Shooting(p, w)
    PROVE  \E v : Put(p, v) /\ Keeps(w, v)
<1>1. w.me \in Player /\ w.lock \in LockType
      BY WorldFields
<1>2. Keeps(w, w)
      BY DEF Keeps
<1>3. CASE WhileNone(p, w) \/ RemoteAims(p, cond, w) \/ MapOpening(p, cond, w)
      BY <1>2, <1>3 DEF WhileNone, RemoteAims, MapOpening
<1>4. CASE AimCancelled(p, cond, w)
  <2>1. CancelAim(w).me.state = "cNone" /\ CancelAim(w).me.noControl = w.me.noControl
        BY <1>1 DEF CancelAim, Player
  <2>2. Keeps(w, CancelAim(w))
        BY <1>4, <2>1 DEF Keeps, Free, Capped, AimCancelled
  <2> QED BY <1>4, <2>2 DEF AimCancelled
<1>5. ASSUME w.me.state = "cAim" PROVE Keeps(w, Commit(w))
  <2>1. /\ Commit(w).me.state = "cShootPrepare"
        /\ Commit(w).me.aimTank = w.me.aimTank /\ Commit(w).lock = w.lock
        BY <1>1 DEF Commit, Player
  <2> QED BY <1>5, <2>1 DEF Keeps, Free, Capped
<1>6. ASSUME NEW hold \in BOOLEAN
      PROVE  Keeps(w, [w EXCEPT !.me = [w.me EXCEPT !.wasAHeld = hold]])
  <2> DEFINE me == [w.me EXCEPT !.wasAHeld = hold]
             v == [w EXCEPT !.me = me]
  <2>1. me.state = w.me.state /\ me.noControl = w.me.noControl /\ me.aimTank = w.me.aimTank
        BY <1>1 DEF Player
  <2> HIDE DEF me
  <2>2. v.me = me /\ v.lock = w.lock
        BY DEF World
  <2> QED BY <2>1, <2>2 DEF Keeps, Free, Capped, me
<1>7. CASE AutoCommit(p, cond, w)
      BY <1>5, <1>7 DEF AutoCommit
<1>8. CASE MapHidden(p, cond, w)
      BY <1>6, <1>8 DEF MapHidden
<1>9. CASE MapOpen(p, cond, w)
      BY <1>5, <1>6, <1>9 DEF MapOpen, Aiming
<1>10. CASE PrepareCancelled(p, w)
  <2>1. CancelPrepare(w).me.state = "cNone" /\ CancelPrepare(w).me.noControl = "null"
        BY <1>1 DEF CancelPrepare, Player
  <2> QED BY <1>10, <2>1 DEF PrepareCancelled, Keeps, Free, Capped
<1>11. CASE Preparing(p, cond, w)
  <2> DEFINE long == mMatchEnding \/ cond = "dead"
  <2>1. /\ w.me.state = "cShootPrepare"
        /\ Put(p, Shoot(w, long)) \/ Put(p, w)
        BY <1>11 DEF Preparing
  <2>2. /\ Shoot(w, long).me.state = "cShoot"
        /\ Shoot(w, long).me.aimTank = w.me.aimTank /\ Shoot(w, long).lock = w.lock
        BY <1>1 DEF Shoot, Player
  <2>3. Keeps(w, Shoot(w, long))
        BY <2>1, <2>2 DEF Keeps, Free, Capped
  <2> QED BY <1>2, <2>1, <2>3
<1>12. ASSUME NEW slot PROVE Keeps(w, Release(w, slot))
  <2>1. Release(w, slot).me.state = "cNone" /\ Release(w, slot).me.noControl = "null"
        BY <1>1 DEF Release, Player
  <2> QED BY <2>1 DEF Keeps, Free, Capped
<1>13. CASE ShootSwapped(p, w) \/ Shooting(p, w)
      BY <1>2, <1>12, <1>13 DEF ShootSwapped, Shooting
<1> QED BY <1>3, <1>4, <1>7, <1>8, <1>9, <1>10, <1>11, <1>13

Me(p) == [me |-> players[p], b |-> bullets[p], lock |-> lock]

LEMMA PlayerFirstCalcKeeps ==
    ASSUME IInv, NEW p \in Players, PlayerFirstCalc(p)
    PROVE  Keeps(Me(p), Me(p)') /\ \A q \in Players \ {p} : players'[q] = players[q]
<1>1. PICK cond \in Conditions, begin \in BOOLEAN :
        /\ begin => CanBegin(p)
        /\ LET w == detectChangeState(AfterOg(p, cond, begin))
           IN  \/ WhileNone(p, w)
               \/ AimCancelled(p, cond, w)
               \/ AutoCommit(p, cond, w)
               \/ RemoteAims(p, cond, w)
               \/ MapHidden(p, cond, w)
               \/ MapOpening(p, cond, w)
               \/ MapOpen(p, cond, w)
               \/ PrepareCancelled(p, w)
               \/ Preparing(p, cond, w)
               \/ ShootSwapped(p, w)
               \/ Shooting(p, w)
      BY DEF PlayerFirstCalc
<1> DEFINE o == AfterOg(p, cond, begin)
           w == detectChangeState(o)
           r == RanFlags(p)
<1>2. p \notin ranPlayers
      BY DEF PlayerFirstCalc
<1>3. WorldOK(p, o, r, TRUE)
      BY <1>1, <1>2, AfterOgOK
<1>4. o \in World
      BY <1>3 DEF WorldOK
<1>5. w \in World
  <2>1. r \in Flags
        BY DEF RanFlags, Flags
  <2> HIDE DEF o, r
  <2>2. MidOK(p, w, r)
        BY <1>3, <2>1, DetectOK
  <2> QED BY <2>2 DEF MidOK, WorldOK
<1>6. Keeps(Me(p), o)
  <2>1. players[p] \in Player
        BY DEF IInv, TypeOK
  <2>2. /\ o.me.state = players[p].state /\ o.me.noControl = players[p].noControl
        /\ o.me.aimTank = players[p].aimTank /\ o.lock = lock
        BY <2>1 DEF AfterOg, Player
  <2> HIDE DEF o
  <2> QED BY <2>2 DEF Keeps, Free, Capped, Me
<1>7. Keeps(o, w)
  <2> HIDE DEF o
  <2> QED BY <1>4, DetectKeeps DEF w
<1>8. PICK v : Put(p, v) /\ Keeps(w, v)
  <2> HIDE DEF w
  <2> QED BY <1>1, <1>5, SwitchKeeps DEF w
<1> HIDE DEF o, w
<1>9. /\ players'[p] = v.me /\ lock' = v.lock
      /\ \A q \in Players \ {p} : players'[q] = players[q]
      BY <1>8 DEF Put, IInv, TypeOK
<1>10. Keeps(v, Me(p)')
      BY <1>9 DEF Keeps, Free, Capped, Me
<1> QED BY <1>6, <1>7, <1>8, <1>9, <1>10 DEF Keeps

(* What the steps other than a player's firstCalc leave to Free and Capped.*)
LEMMA RestKeeps ==
    ASSUME IInv, [Next]_vars, NEW p \in Players
    PROVE  \/ \E q \in Players : PlayerFirstCalc(q)
           \/ /\ players'[p].state = players[p].state
              /\ players'[p].noControl \in {players[p].noControl, "null"}
              /\ players'[p].aimTank = players[p].aimTank
              /\ lock' = lock
           \/ ShootingRange /\ players'[p].state = "cNone"
<1>1. players \in [Players -> Player]
      BY DEF IInv, TypeOK
<1>2. CASE UNCHANGED <<players, lock>>
      BY <1>2
<1>3. ASSUME NEW q \in Players, NEW s \in Slots, BulletFirstCalc(q, s)
      PROVE  UNCHANGED <<players, lock>>
      BY <1>3 DEF BulletFirstCalc
<1>4. CASE IsSleepingAll \/ LeaveScene \/ UNCHANGED vars
      BY <1>2, <1>4 DEF IsSleepingAll, LeaveScene, vars
<1>5. ASSUME NEW q \in Players, SpecialRunsOut(q) \/ RemoteShot(q)
      PROVE  /\ players'[p].state = players[p].state /\ lock' = lock
             /\ players'[p].noControl = players[p].noControl
             /\ players'[p].aimTank = players[p].aimTank
      BY <1>1, <1>5 DEF SpecialRunsOut, RemoteShot, Player
<1>6. CASE NextFrame
      BY <1>1, <1>6 DEF NextFrame, Player
<1>7. ASSUME NEW w \in Weapons, SwapWeapon(w)
      PROVE  /\ players'[p].state = players[p].state /\ lock' = lock
             /\ players'[p].noControl = players[p].noControl
             /\ players'[p].aimTank = players[p].aimTank
  <2>1. PICK keep \in BOOLEAN :
          players' = [players EXCEPT ![Ctrl].weapon = w, ![Ctrl].inSpecial = @ /\ keep]
        BY <1>7 DEF SwapWeapon
  <2> QED BY <1>1, <1>7, <2>1, PlayerAssumption DEF SwapWeapon, Player
<1>8. CASE resetForCleanup
      BY <1>1, <1>8 DEF resetForCleanup, Player
<1>9. CASE onCalc
      BY <1>1, <1>9 DEF onCalc, Player
<1>10. CASE EnterScene
  <2>1. PICK w \in Weapons, late \in 0 .. StaleFrames :
          players' = [q \in Players |->
                        [players[q] EXCEPT
                           !.noControl = "null", !.inSpecial = FALSE,
                           !.weapon = w,
                           !.wait = IF players[q].state = "cNone" THEN 0 ELSE late]]
        BY <1>10 DEF EnterScene
  <2>2. lock' = lock
        BY <1>10 DEF EnterScene
  <2> QED BY <1>1, <2>1, <2>2 DEF Player
<1> QED BY <1>2, <1>3, <1>4, <1>5, <1>6, <1>7, <1>8, <1>9, <1>10 DEF Next

(* In a match the player can move whenever no activation runs: every way   *)
(* back to cNone clears mNoControlPtr, or starts where it is clear.        *)
THEOREM ControlIsReturned ==
    ASSUME ~ShootingRange
    PROVE  Spec => []ControlReturned
<1> DEFINE FreeInv == \A p \in Players : Free(Me(p))
<1>1. Init => FreeInv
      BY DEF Init, Free, Me
<1>2. IInv /\ FreeInv /\ [Next]_vars => FreeInv'
  <2> SUFFICES ASSUME IInv, FreeInv, [Next]_vars, NEW p \in Players
               PROVE  Free(Me(p))'
      OBVIOUS
  <2>1. ASSUME NEW q \in Players, PlayerFirstCalc(q) PROVE Free(Me(p))'
        BY <2>1, PlayerFirstCalcKeeps DEF Keeps, Free, Me
  <2> QED BY <2>1, RestKeeps DEF Free, Me
<1>3. FreeInv => ControlReturned
      BY DEF Free, Me, ControlReturned
<1> HIDE DEF FreeInv
<1> QED BY <1>1, <1>2, <1>3, Invariance, PTL DEF Spec

(* A player's own way out of a wind-up or a shot clears mNoControlPtr, in  *)
(* the range too, where a swap of the weapon ends both                     *)
(* (source/InkstrikeMgr.cpp:662, 705, 720).                                *)
InShot(me) == me.state \in {"cShootPrepare", "cShoot"}

ExitReturnsControl ==
    [][\A p \in Players :
         PlayerFirstCalc(p) /\ InShot(players[p]) /\ players'[p].state = "cNone"
         => players'[p].noControl = "null"]_vars

THEOREM ExitsReturnControl == Spec => ExitReturnsControl
<1>1. ASSUME IInv, NEW p \in Players, PlayerFirstCalc(p), InShot(players[p]),
             players'[p].state = "cNone"
      PROVE  players'[p].noControl = "null"
  <2>1. PICK cond \in Conditions, begin \in BOOLEAN :
          LET w == detectChangeState(AfterOg(p, cond, begin))
          IN  \/ WhileNone(p, w)
              \/ AimCancelled(p, cond, w)
              \/ AutoCommit(p, cond, w)
              \/ RemoteAims(p, cond, w)
              \/ MapHidden(p, cond, w)
              \/ MapOpening(p, cond, w)
              \/ MapOpen(p, cond, w)
              \/ PrepareCancelled(p, w)
              \/ Preparing(p, cond, w)
              \/ ShootSwapped(p, w)
              \/ Shooting(p, w)
        BY <1>1 DEF PlayerFirstCalc
  <2> DEFINE o == AfterOg(p, cond, begin)
             w == detectChangeState(o)
  <2>2. players[p] \in Player /\ players \in [Players -> Player]
        BY <1>1 DEF IInv, TypeOK
  <2>3. o.me \in Player /\ o.me.state = players[p].state
        BY <2>2 DEF AfterOg, Player
  <2>4. w = o
        BY <1>1, <2>3 DEF detectChangeState, StartsAim, InShot
  <2>5. w.me \in Player /\ InShot(w.me)
        BY <1>1, <2>3, <2>4 DEF InShot
  <2> HIDE DEF o, w
  <2>6. \/ PrepareCancelled(p, w) \/ Preparing(p, cond, w)
        \/ ShootSwapped(p, w) \/ Shooting(p, w)
        BY <2>1, <2>5 DEF w, o, InShot, WhileNone, AimCancelled, AutoCommit, RemoteAims,
                          MapHidden, MapOpening, MapOpen, Aiming
  <2>7. ASSUME NEW v, Put(p, v) PROVE players'[p] = v.me
        BY <2>2, <2>7 DEF Put
  <2>8. CancelPrepare(w).me.noControl = "null"
        BY <2>5 DEF CancelPrepare, Player
  <2>9. \A slot : Release(w, slot).me.noControl = "null"
        BY <2>5 DEF Release, Player
  <2>10. Shoot(w, mMatchEnding \/ cond = "dead").me.state = "cShoot"
        BY <2>5 DEF Shoot, Player
  <2>11. ~Put(p, w)
        BY <1>1, <2>5, <2>7 DEF InShot
  <2>12. CASE PrepareCancelled(p, w)
        BY <2>7, <2>8, <2>12 DEF PrepareCancelled
  <2>13. CASE ShootSwapped(p, w) \/ Shooting(p, w)
        BY <2>7, <2>9, <2>11, <2>13 DEF ShootSwapped, Shooting
  <2>14. CASE Preparing(p, cond, w)
        BY <1>1, <2>7, <2>10, <2>11, <2>14 DEF Preparing
  <2> QED BY <2>6, <2>12, <2>13, <2>14
<1>2. IInv => [\A p \in Players :
                 PlayerFirstCalc(p) /\ InShot(players[p]) /\ players'[p].state = "cNone"
                 => players'[p].noControl = "null"]_vars
      BY <1>1
<1> QED BY <1>2, Invariance, PTL DEF ExitReturnsControl

(* With one player the tank of the aim stays locked until the activation   *)
(* ends, through every swap of the weapon, cleanup and change of scene.    *)
THEOREM TankIsLocked ==
    ASSUME Players = {Ctrl}
    PROVE  Spec => []TankStaysLocked
<1> DEFINE CapInv == \A p \in Players : Capped(Me(p))
<1>1. Init => CapInv
      BY DEF Init, Capped, Me
<1>2. IInv /\ CapInv /\ [Next]_vars => CapInv'
  <2> SUFFICES ASSUME IInv, CapInv, [Next]_vars, NEW p \in Players
               PROVE  Capped(Me(p))'
      OBVIOUS
  <2>1. ASSUME NEW q \in Players, PlayerFirstCalc(q) PROVE Capped(Me(p))'
    <3>1. q = p
          OBVIOUS
    <3> QED BY <2>1, <3>1, PlayerFirstCalcKeeps DEF Keeps
  <2> QED BY <2>1, RestKeeps DEF Capped, Me
<1>3. CapInv => TankStaysLocked
      BY DEF Capped, Me, TankStaysLocked, searchForVersusIdHook
<1> HIDE DEF CapInv
<1> QED BY <1>1, <1>2, <1>3, Invariance, PTL DEF Spec

-----------------------------------------------------------------------------
(* The clock of the strikes.  A world is followed a last time, for what    *)
(* becomes of its bullets' frames.                                         *)
Alike(b, c) ==
    /\ c.flightActive = b.flightActive /\ c.hasBurst = b.hasBurst
    /\ isActive(b) => c.flightLeft = b.flightLeft /\ c.burstFrm = b.burstFrm

Launched(b, c) ==
    ~isActive(b) /\ c.flightActive /\ c.flightLeft \in {FlightTime, LongFlightTime}

(* One player's two bullets: they are left alone, or one is launched.      *)
Struck(b, c) ==
    \/ \A s \in Slots : Alike(b[s], c[s])
    \/ \E t \in Slots : /\ Launched(b[t], c[t])
                        /\ \A s \in Slots \ {t} : Alike(b[s], c[s])

(* A flight that had its turn in this frame goes on in the next.           *)
Aloft ==
    \A p \in Players, s \in Slots :
      bullets[p][s].flightActive /\ <<p, s>> \in ranBullets
        => bullets[p][s].flightLeft > 0

(* The frames of the strikes, as the clock sees them. *)
Left == [i \in AllBullets |->
           FramesLeft(bullets[i[1]][i[2]], i \in ranBullets)]

LEMMA AlikeSame ==
    ASSUME NEW b, NEW c, Alike(b, c), NEW turned
    PROVE  FramesLeft(c, turned) = FramesLeft(b, turned)
BY DEF Alike, FramesLeft, isActive

LEMMA LaunchedLength ==
    ASSUME NEW b, NEW c, Launched(b, c), NEW turned
    PROVE  FramesLeft(b, turned) = 0 /\ FramesLeft(c, turned) \in StrikeLengths
<1>1. FramesLeft(b, turned) = 0
      BY DEF Launched, FramesLeft, isActive
<1>2. FramesLeft(c, turned) = c.flightLeft + BurstDuration + 1
      BY DEF Launched, FramesLeft
<1> QED BY <1>1, <1>2 DEF Launched, StrikeLengths

(* An idle bullet that is prepared, told to wait or cancelled stays idle;  *)
(* waiting makes no difference to any.                                     *)
LEMMA AlikeOps ==
    ASSUME NEW b \in Bullet
    PROVE  /\ Alike(b, b) /\ Alike(b, enterWait(b))
           /\ ~isActive(b) => Alike(b, prepare(b)) /\ Alike(b, cancel(b))
           /\ \A long \in BOOLEAN : ~isActive(b) => Launched(b, launch(b, long))
BY DEF Alike, Launched, isActive, enterWait, prepare, cancel, doSleep, launch, Bullet

LEMMA AlikeOnSlot ==
    ASSUME NEW w \in World
    PROVE  /\ \A s \in Slots : Alike(w.b[s], w.b[s])
           /\ \A s \in Slots : Alike(w.b[s], WaitOnSlot(w)[s])
           /\ w.me.slot # NoSlot /\ ~isActive(w.b[w.me.slot])
              => \A s \in Slots : Alike(w.b[s], CancelOnSlot(w)[s])
<1>1. /\ w.b \in [Slots -> Bullet] /\ \A s \in Slots : w.b[s] \in Bullet
      /\ w.me.slot # NoSlot => w.me.slot \in Slots
      BY WorldFields
<1>2. \A s \in Slots : Alike(w.b[s], w.b[s]) /\ Alike(w.b[s], enterWait(w.b[s]))
      BY <1>1, AlikeOps
<1>3. \A s \in Slots : Alike(w.b[s], WaitOnSlot(w)[s])
      BY <1>1, <1>2 DEF WaitOnSlot
<1>4. ASSUME w.me.slot # NoSlot, ~isActive(w.b[w.me.slot])
      PROVE  \A s \in Slots : Alike(w.b[s], CancelOnSlot(w)[s])
  <2>1. Alike(w.b[w.me.slot], cancel(w.b[w.me.slot]))
        BY <1>1, <1>4, AlikeOps
  <2> QED BY <1>1, <1>2, <1>4, <2>1 DEF CancelOnSlot
<1> QED BY <1>2, <1>3, <1>4

(* The next activation starts beside a strike, never on it.                *)
LEMMA DetectClock ==
    ASSUME NEW w \in World
    PROVE  \A s \in Slots : Alike(w.b[s], detectChangeState(w).b[s])
<1>1. w.b \in [Slots -> Bullet]
      BY WorldFields
<1>2. \A s \in Slots : Alike(w.b[s], w.b[s]) /\ Alike(w.b[s], WaitOnSlot(w)[s])
      BY AlikeOnSlot
<1>3. CASE StartsAim(w.me)
  <2> DEFINE t == pickFreeSlot(w.b)
             b == IF isActive(w.b[t]) THEN w.b
                  ELSE [w.b EXCEPT ![t] = prepare(w.b[t])]
  <2>1. t \in Slots
        BY DEF pickFreeSlot, Slots
  <2>2. w.b[t] \in Bullet
        BY <1>1, <2>1
  <2>3. ~isActive(w.b[t]) => Alike(w.b[t], prepare(w.b[t]))
        BY <2>2, AlikeOps
  <2>4. \A s \in Slots : Alike(w.b[s], b[s])
        BY <1>1, <1>2, <2>1, <2>3
  <2>5. EnterAim(w).b = b /\ EnterAim(w).me.pending = FALSE
        BY WorldFields DEF EnterAim, Player
  <2>6. detectChangeState(w) = EnterAim(w)
        BY <1>3, <2>5 DEF detectChangeState
  <2> QED BY <2>4, <2>5, <2>6
<1>4. CASE ~StartsAim(w.me) /\ w.me.pending /\ w.me.state = "cAim"
  <2>1. detectChangeState(w) = TakeRemoteShot(w)
        BY <1>4 DEF detectChangeState
  <2>2. TakeRemoteShot(w).b = WaitOnSlot(w)
        BY DEF TakeRemoteShot
  <2> QED BY <1>2, <2>1, <2>2
<1>5. CASE ~StartsAim(w.me) /\ ~(w.me.pending /\ w.me.state = "cAim")
      BY <1>2, <1>5 DEF detectChangeState
<1> QED BY <1>3, <1>4, <1>5

(* Only the end of a wind-up launches, and nothing is called off.          *)
LEMMA SwitchClock ==
    ASSUME NEW p \in Players, NEW w, NEW r \in Flags, MidOK(p, w, r), NEW cond,
           \/ WhileNone(p, w)
           \/ AimCancelled(p, cond, w)
           \/ AutoCommit(p, cond, w)
           \/ RemoteAims(p, cond, w)
           \/ MapHidden(p, cond, w)
           \/ MapOpening(p, cond, w)
           \/ MapOpen(p, cond, w)
           \/ PrepareCancelled(p, w)
           \/ Preparing(p, cond, w)
           \/ ShootSwapped(p, w)
           \/ Shooting(p, w)
    PROVE  \E v : Put(p, v) /\ Struck(w.b, v.b)
<1>1. w \in World /\ WorldOK(p, w, r, FALSE)
      BY DEF MidOK, WorldOK
<1>2. /\ \A s \in Slots : Alike(w.b[s], w.b[s])
      /\ \A s \in Slots : Alike(w.b[s], WaitOnSlot(w)[s])
      BY <1>1, AlikeOnSlot
<1>3. Struck(w.b, w.b) /\ Struck(w.b, WaitOnSlot(w))
      BY <1>2 DEF Struck
<1>4. w.me.state \in {"cAim", "cShootPrepare"} /\ w.me.slot # NoSlot
        => ~isActive(w.b[w.me.slot])
      BY <1>1 DEF WorldOK, PlayerOK, Ready
<1>5. CASE WhileNone(p, w) \/ RemoteAims(p, cond, w) \/ MapOpening(p, cond, w)
      BY <1>3, <1>5 DEF WhileNone, RemoteAims, MapOpening
<1>6. CASE AimCancelled(p, cond, w)
  <2>1. w.me.state = "cAim" /\ Put(p, CancelAim(w))
        BY <1>6 DEF AimCancelled
  <2>2. CancelAim(w).b = w.b
        BY <1>4, <2>1 DEF CancelAim
  <2> QED BY <1>3, <2>1, <2>2
<1>7. Commit(w).b = WaitOnSlot(w)
      BY DEF Commit
<1>8. \A hold : [w EXCEPT !.me = [w.me EXCEPT !.wasAHeld = hold]].b = w.b
      BY <1>1 DEF World
<1>9. CASE AutoCommit(p, cond, w)
      BY <1>3, <1>7, <1>9 DEF AutoCommit
<1>10. CASE MapHidden(p, cond, w)
      BY <1>3, <1>8, <1>10 DEF MapHidden
<1>11. CASE MapOpen(p, cond, w)
  <2>1. PICK aHeld \in BOOLEAN :
          \/ Put(p, Commit(w))
          \/ Put(p, [w EXCEPT !.me = [w.me EXCEPT !.wasAHeld = aHeld]])
        BY <1>11 DEF MapOpen
  <2> QED BY <1>3, <1>7, <1>8, <2>1
<1>12. CASE PrepareCancelled(p, w)
  <2>1. w.me.state = "cShootPrepare" /\ Put(p, CancelPrepare(w))
        BY <1>12 DEF PrepareCancelled
  <2>2. CancelPrepare(w).b = CancelOnSlot(w)
        BY DEF CancelPrepare
  <2>3. \A s \in Slots : Alike(w.b[s], CancelOnSlot(w)[s])
    <3>1. CASE w.me.slot = NoSlot
          BY <1>2, <3>1 DEF CancelOnSlot
    <3>2. CASE w.me.slot # NoSlot
          BY <1>1, <1>4, <2>1, <3>2, AlikeOnSlot
    <3> QED BY <3>1, <3>2
  <2> QED BY <2>1, <2>2, <2>3 DEF Struck
<1>13. CASE Preparing(p, cond, w)
  <2> DEFINE long == mMatchEnding \/ cond = "dead"
  <2>1. /\ w.me.state = "cShootPrepare"
        /\ Put(p, Shoot(w, long)) \/ Put(p, w)
        BY <1>13 DEF Preparing
  <2>2. Shoot(w, long).b = informShotInkstrike(w, long)
        BY DEF Shoot
  <2>3. Struck(w.b, informShotInkstrike(w, long))
    <3> DEFINE t == w.me.slot
    <3>1. CASE t = NoSlot
          BY <1>3, <3>1 DEF informShotInkstrike
    <3>2. CASE t # NoSlot
      <4>1. t \in Slots /\ w.b \in [Slots -> Bullet] /\ w.b[t] \in Bullet
            BY <1>1, <3>2, WorldFields
      <4>2. ~isActive(w.b[t])
            BY <1>4, <2>1, <3>2
      <4>3. Launched(w.b[t], launch(w.b[t], long))
            BY <4>1, <4>2, AlikeOps
      <4>4. informShotInkstrike(w, long) = [w.b EXCEPT ![t] = launch(w.b[t], long)]
            BY <3>2, <4>2 DEF informShotInkstrike, isActive
      <4> QED BY <1>2, <4>1, <4>3, <4>4 DEF Struck
    <3> QED BY <3>1, <3>2
  <2> QED BY <1>3, <2>1, <2>2, <2>3
<1>14. CASE ShootSwapped(p, w) \/ Shooting(p, w)
  <2>1. \A slot : Release(w, slot).b = w.b
        BY DEF Release
  <2> QED BY <1>3, <1>14, <2>1 DEF ShootSwapped, Shooting
<1> QED BY <1>5, <1>6, <1>9, <1>10, <1>11, <1>12, <1>13, <1>14

(* A player's firstCalc leaves the clock alone, or launches one strike.    *)
LEMMA PlayerFirstCalcClock ==
    ASSUME IInv, NEW p \in Players, PlayerFirstCalc(p)
    PROVE  \E v : Put(p, v) /\ Struck(bullets[p], v.b)
<1>1. PICK cond \in Conditions, begin \in BOOLEAN :
        /\ begin => CanBegin(p)
        /\ LET w == detectChangeState(AfterOg(p, cond, begin))
           IN  \/ WhileNone(p, w)
               \/ AimCancelled(p, cond, w)
               \/ AutoCommit(p, cond, w)
               \/ RemoteAims(p, cond, w)
               \/ MapHidden(p, cond, w)
               \/ MapOpening(p, cond, w)
               \/ MapOpen(p, cond, w)
               \/ PrepareCancelled(p, w)
               \/ Preparing(p, cond, w)
               \/ ShootSwapped(p, w)
               \/ Shooting(p, w)
      BY DEF PlayerFirstCalc
<1> DEFINE o == AfterOg(p, cond, begin)
           w == detectChangeState(o)
           r == RanFlags(p)
<1>2. p \notin ranPlayers
      BY DEF PlayerFirstCalc
<1>3. WorldOK(p, o, r, TRUE) /\ o.b = bullets[p]
      BY <1>1, <1>2, AfterOgOK
<1>4. r \in Flags
      BY DEF RanFlags, Flags
<1>5. MidOK(p, w, r) /\ o \in World
  <2> HIDE DEF o, r
  <2> QED BY <1>3, <1>4, DetectOK DEF w, WorldOK
<1>6. \A s \in Slots : Alike(bullets[p][s], w.b[s])
  <2> HIDE DEF o
  <2> QED BY <1>3, <1>5, DetectClock DEF w
<1>7. PICK v : Put(p, v) /\ Struck(w.b, v.b)
  <2> HIDE DEF r, w
  <2> QED BY <1>1, <1>4, <1>5, SwitchClock DEF w
<1> HIDE DEF o, w, r
<1>8. Struck(bullets[p], v.b)
      BY <1>6, <1>7 DEF Struck, Alike, Launched, isActive
<1> QED BY <1>7, <1>8

(* A bullet's turn is paid for by the frame, or ends the strike.           *)
LEMMA TurnTakesAFrame ==
    ASSUME NEW b \in Bullet, BulletOK(b, FALSE), HasTurn(b)
    PROVE  LET c == vtFirstCalc(b)
           IN  /\ \/ FramesLeft(c, TRUE) = FramesLeft(b, FALSE)
                  \/ FramesLeft(b, FALSE) = 1 /\ FramesLeft(c, TRUE) = 0
               /\ c.flightActive => c.flightLeft > 0
<1>0. isActive(b)
      BY BulletOKTurn
<1>1. b.burstFrm \in Int /\ b.flightLeft \in Nat /\ BurstDuration \in Nat
      BY FlightAssumption DEF Bullet, BurstFrames
<1>2. CASE b.sm = "Pronounce"
  <2>1. b.flightActive /\ ~b.hasBurst /\ b.sender
        BY <1>0, <1>2 DEF BulletOK, isActive, Driven
  <2>2. CASE b.flightLeft = 0
    <3> DEFINE c == vtFirstCalc(b)
    <3>1. c.hasBurst /\ ~c.flightActive /\ c.burstFrm = 0
          BY <1>2, <2>1, <2>2 DEF vtFirstCalc, statePronounce, doBurst, Bullet
    <3> HIDE DEF c
    <3> QED BY <1>1, <2>1, <2>2, <3>1 DEF FramesLeft, c
  <2>3. CASE b.flightLeft # 0
        BY <1>1, <1>2, <2>1, <2>3 DEF vtFirstCalc, statePronounce, FramesLeft
  <2> QED BY <2>2, <2>3
<1>3. CASE b.sm = "Burst"
  <2>1. b.hasBurst /\ ~b.flightActive /\ b.burstFrm < BurstDuration
        BY <1>0, <1>3 DEF BulletOK, isActive, Driven
  <2> DEFINE d == [b EXCEPT !.burstFrm = b.burstFrm + 1]
             c == vtFirstCalc(b)
  <2>2. d.burstFrm = b.burstFrm + 1 /\ d.hasBurst /\ ~d.flightActive
        BY <2>1 DEF Bullet
  <2>3. FramesLeft(b, FALSE) = BurstDuration - b.burstFrm
        BY <1>1, <2>1 DEF FramesLeft
  <2>4. CASE b.burstFrm + 1 >= BurstDuration
    <3>1. c = doSleep(d)
          BY <1>3, <2>2, <2>4 DEF vtFirstCalc, calcBurstFollow
    <3>2. ~c.flightActive /\ ~c.hasBurst
          BY <3>1 DEF doSleep, Bullet
    <3> HIDE DEF c
    <3> QED BY <1>1, <2>1, <2>3, <2>4, <3>2 DEF FramesLeft, c
  <2>5. CASE ~(b.burstFrm + 1 >= BurstDuration)
    <3>1. c = d
          BY <1>3, <2>2, <2>5 DEF vtFirstCalc, calcBurstFollow
    <3> HIDE DEF c, d
    <3>2. FramesLeft(c, TRUE) = BurstDuration - d.burstFrm + 1
          BY <2>2, <3>1 DEF FramesLeft
    <3>3. BurstDuration - d.burstFrm + 1 = BurstDuration - b.burstFrm
          BY <1>1, <2>2
    <3>4. FramesLeft(c, TRUE) = FramesLeft(b, FALSE) /\ ~c.flightActive
          BY <2>2, <2>3, <3>1, <3>2, <3>3
    <3> QED BY <3>4 DEF c
  <2> QED BY <2>4, <2>5
<1> QED BY <1>2, <1>3 DEF HasTurn

(* The next frame is one less, for a strike that had its turn in this one. *)
LEMMA FrameTakesAFrame ==
    ASSUME NEW b \in Bullet, NEW turned \in BOOLEAN, BulletOK(b, turned),
           HasTurn(b) => turned,
           b.flightActive /\ turned => b.flightLeft > 0
    PROVE  LET n == FramesLeft(b, turned)
           IN  /\ n # 1
               /\ FramesLeft(Elapse(Settle(b)), FALSE) = IF n = 0 THEN 0 ELSE n - 1
<1> DEFINE c == Elapse(Settle(b))
           n == FramesLeft(b, turned)
           m == FramesLeft(c, FALSE)
<1>0. /\ b.burstFrm \in Int /\ b.flightLeft \in Nat
      /\ BurstDuration \in Nat /\ BurstDuration > 0
      BY FlightAssumption DEF Bullet, BurstFrames
<1>1. CASE ~isActive(b)
  <2>1. ~isActive(c)
        BY <1>1, BulletOKSettle
  <2> HIDE DEF c
  <2>2. n = 0 /\ m = 0
        BY <1>1, <2>1 DEF FramesLeft, isActive
  <2> HIDE DEF n, m
  <2>3. n # 1 /\ m = IF n = 0 THEN 0 ELSE n - 1
        BY <2>2
  <2> QED BY <2>3 DEF n, m, c
<1>2. CASE isActive(b)
  <2>1. turned /\ b.resv = "none"
        BY <1>2 DEF BulletOK, isActive, Driven, HasTurn
  <2>2. c = Elapse(b)
        BY <2>1 DEF Settle
  <2>3. n > 1 /\ m = n - 1
    <3>1. CASE b.flightActive
      <4>1. n = b.flightLeft + BurstDuration + 1
            BY <3>1 DEF FramesLeft
      <4>2. c.flightActive /\ c.flightLeft = b.flightLeft - 1
            BY <1>0, <2>1, <2>2, <3>1 DEF Elapse, Bullet
      <4>3. m = c.flightLeft + BurstDuration + 1
            BY <4>2 DEF FramesLeft
      <4> HIDE DEF n, m, c
      <4> QED BY <1>0, <2>1, <3>1, <4>1, <4>2, <4>3
    <3>2. CASE b.hasBurst /\ ~b.flightActive
      <4>1. b.burstFrm < BurstDuration
            BY <3>2 DEF BulletOK
      <4>2. n = BurstDuration - b.burstFrm + 1
            BY <2>1, <3>2 DEF FramesLeft
      <4>3. c.hasBurst /\ ~c.flightActive /\ c.burstFrm = b.burstFrm
            BY <2>2, <3>2 DEF Elapse, Bullet
      <4>4. m = BurstDuration - b.burstFrm
        <5> HIDE DEF c
        <5> QED BY <1>0, <4>3 DEF FramesLeft
      <4> HIDE DEF n, m
      <4> QED BY <1>0, <4>1, <4>2, <4>4
    <3> QED BY <1>2, <3>1, <3>2 DEF isActive
  <2>4. n \in Int
        BY <1>0 DEF FramesLeft
  <2> HIDE DEF n, m
  <2>5. n # 1 /\ m = IF n = 0 THEN 0 ELSE n - 1
        BY <2>3, <2>4
  <2> QED BY <2>5 DEF n, m
<1> QED BY <1>1, <1>2

LEMMA LeftAt ==
    ASSUME NEW p \in Players, NEW s \in Slots
    PROVE  /\ Left[<<p, s>>] = FramesLeft(bullets[p][s], <<p, s>> \in ranBullets)
           /\ Left'[<<p, s>>] = FramesLeft(bullets'[p][s], <<p, s>> \in ranBullets')
<1>1. <<p, s>> \in AllBullets
      BY DEF AllBullets
<1> DEFINE i == <<p, s>>
<1>2. i[1] = p /\ i[2] = s
      OBVIOUS
<1>3. Left[i] = FramesLeft(bullets[i[1]][i[2]], i \in ranBullets)
      BY <1>1, Zenon DEF Left
<1>4. Left'[i] = FramesLeft(bullets'[i[1]][i[2]], i \in ranBullets')
      BY <1>1, Zenon DEF Left
<1> QED BY <1>2, <1>3, <1>4, Zenon

LEMMA LeftSame ==
    ASSUME \A p \in Players, s \in Slots : Left'[<<p, s>>] = Left[<<p, s>>]
    PROVE  Left' = Left
<1>1. \A i \in AllBullets : \E p \in Players, s \in Slots : i = <<p, s>>
      BY DEF AllBullets
<1>2. \A i \in AllBullets : Left'[i] = Left[i]
      BY <1>1
<1>3. Left = [i \in AllBullets |-> Left[i]] /\ Left' = [i \in AllBullets |-> Left'[i]]
      BY Zenon DEF Left
<1> QED BY <1>2, <1>3, Zenon

(* What each kind of step does to the clock.                               *)
LEMMA PlayerFirstCalcTime ==
    ASSUME IInv, Aloft, NEW p \in Players, PlayerFirstCalc(p)
    PROVE  Aloft' /\ [Clock!Next]_Left
<1>1. PICK v : Put(p, v) /\ Struck(bullets[p], v.b)
      BY PlayerFirstCalcClock
<1>2. /\ bullets \in [Players -> [Slots -> Bullet]]
      /\ bullets' = [bullets EXCEPT ![p] = v.b] /\ ranBullets' = ranBullets
      BY <1>1 DEF Put, IInv, TypeOK
<1> DEFINE Keeps1(q, s) == Alike(bullets[q][s], bullets'[q][s])
<1>3. \A q \in Players, s \in Slots : q # p => bullets'[q][s] = bullets[q][s]
      BY <1>2
<1>4. \A s \in Slots : bullets'[p][s] = v.b[s]
      BY <1>2
<1>5. ASSUME NEW q \in Players, NEW s \in Slots,
             q = p => Alike(bullets[p][s], v.b[s])
      PROVE  /\ Left'[<<q, s>>] = Left[<<q, s>>]
             /\ bullets'[q][s].flightActive /\ <<q, s>> \in ranBullets'
                  => bullets'[q][s].flightLeft > 0
  <2>1. <<q, s>> \in AllBullets
        BY DEF AllBullets
  <2>2. Alike(bullets[q][s], bullets'[q][s])
        BY <1>3, <1>4, <1>5 DEF Alike
  <2> QED BY <1>2, <2>1, <2>2, AlikeSame DEF Left, Aloft, Alike, isActive
<1>6. CASE \A s \in Slots : Alike(bullets[p][s], v.b[s])
  <2>1. Left' = Left
        BY <1>5, <1>6, LeftSame
  <2> QED BY <1>5, <1>6, <2>1 DEF Aloft
<1>7. ASSUME NEW t \in Slots, Launched(bullets[p][t], v.b[t]),
             \A s \in Slots \ {t} : Alike(bullets[p][s], v.b[s])
      PROVE  Aloft' /\ Clock!Next
  <2> DEFINE i == <<p, t>>
             n == FramesLeft(v.b[t], i \in ranBullets)
  <2>1. i \in AllBullets
        BY DEF AllBullets
  <2>2. FramesLeft(bullets[p][t], i \in ranBullets) = 0 /\ n \in StrikeLengths
        BY <1>7, LaunchedLength
  <2>3. Left[i] = 0 /\ Left'[i] = n
        BY <1>2, <1>4, <2>1, <2>2 DEF Left
  <2>4. \A j \in AllBullets : j # i => Left'[j] = Left[j]
        BY <1>5, <1>7 DEF AllBullets
  <2>5. Left' = [Left EXCEPT ![i] = n]
    <3> HIDE DEF i, n
    <3> QED BY <2>1, <2>3, <2>4 DEF Left
  <2>6. Clock!Launch(i)
    <3> HIDE DEF n
    <3> QED BY <2>2, <2>3, <2>5 DEF Clock!Launch, Left
  <2>7. v.b[t].flightLeft > 0
        BY <1>7, FlightAssumption DEF Launched
  <2>8. Aloft'
        BY <1>4, <1>5, <1>7, <2>7 DEF Aloft
  <2> QED BY <2>1, <2>6, <2>8 DEF Clock!Next
<1> QED BY <1>1, <1>6, <1>7 DEF Struck

LEMMA BulletFirstCalcTime ==
    ASSUME IInv, Aloft, NEW p \in Players, NEW s \in Slots, BulletFirstCalc(p, s)
    PROVE  Aloft' /\ [Clock!Next]_Left
<1> DEFINE b == bullets[p][s]
           c == vtFirstCalc(b)
           i == <<p, s>>
<1>1. /\ HasTurn(b) /\ i \notin ranBullets
      /\ bullets' = [bullets EXCEPT ![p][s] = c]
      /\ ranBullets' = ranBullets \cup {i}
      BY DEF BulletFirstCalc
<1>2. bullets \in [Players -> [Slots -> Bullet]] /\ b \in Bullet /\ BulletOK(b, FALSE)
  <2>1. BulletOK(b, i \in ranBullets)
        BY DEF IInv
  <2> QED BY <1>1, <2>1 DEF IInv, TypeOK, BulletOK
<1>3. i \in AllBullets
      BY DEF AllBullets
<1>4. /\ bullets'[p][s] = c
      /\ \A q \in Players, t \in Slots : <<q, t>> # i => bullets'[q][t] = bullets[q][t]
      BY <1>1, <1>2
<1>5. \A j \in AllBullets : j # i => Left'[j] = Left[j]
      BY <1>1, <1>4 DEF Left, AllBullets
<1>6. Left[i] = FramesLeft(b, FALSE) /\ Left'[i] = FramesLeft(c, TRUE)
  <2>1. (i \in ranBullets) = FALSE /\ (i \in ranBullets') = TRUE
        BY <1>1
  <2>2. /\ Left[i] = FramesLeft(b, i \in ranBullets)
        /\ Left'[i] = FramesLeft(bullets'[p][s], i \in ranBullets')
        BY LeftAt
  <2> QED BY <1>4, <2>1, <2>2, Zenon
<1>7. /\ \/ FramesLeft(c, TRUE) = FramesLeft(b, FALSE)
         \/ FramesLeft(b, FALSE) = 1 /\ FramesLeft(c, TRUE) = 0
      /\ c.flightActive => c.flightLeft > 0
      BY <1>1, <1>2, TurnTakesAFrame
<1>8. Aloft'
      BY <1>1, <1>4, <1>7 DEF Aloft
<1> HIDE DEF b, c, i
<1>9. CASE FramesLeft(c, TRUE) = FramesLeft(b, FALSE)
  <2>1. Left' = Left
        BY <1>5, <1>6, <1>9 DEF Left
  <2> QED BY <1>8, <2>1
<1>10. CASE FramesLeft(b, FALSE) = 1 /\ FramesLeft(c, TRUE) = 0
  <2>1. Left' = [Left EXCEPT ![i] = 0]
        BY <1>3, <1>5, <1>6, <1>10 DEF Left
  <2>2. Clock!Finish(i)
        BY <1>6, <1>10, <2>1 DEF Clock!Finish, Left
  <2> QED BY <1>3, <1>8, <2>2 DEF Clock!Next
<1> QED BY <1>7, <1>9, <1>10

LEMMA NextFrameTime ==
    ASSUME IInv, Aloft, NextFrame
    PROVE  Aloft' /\ Clock!Next
<1>1. /\ FrameDone /\ ranBullets' = {}
      /\ bullets' = [p \in Players |-> [s \in Slots |-> Elapse(Settle(bullets[p][s]))]]
      BY DEF NextFrame
<1>2. ASSUME NEW i \in AllBullets
      PROVE  /\ Left[i] # 1
             /\ Left'[i] = IF Left[i] = 0 THEN 0 ELSE Left[i] - 1
  <2>1. PICK p \in Players, s \in Slots : i = <<p, s>>
        BY DEF AllBullets
  <2> DEFINE b == bullets[p][s]
             turned == i \in ranBullets
  <2>2. /\ b \in Bullet /\ BulletOK(b, turned) /\ turned \in BOOLEAN
        /\ HasTurn(b) => turned
        /\ b.flightActive /\ turned => b.flightLeft > 0
        BY <1>1, <2>1 DEF IInv, TypeOK, FrameDone, Aloft
  <2>3. Left[i] = FramesLeft(b, turned) /\ Left'[i] = FramesLeft(Elapse(Settle(b)), FALSE)
    <3>1. bullets'[p][s] = Elapse(Settle(b)) /\ (i \in ranBullets') = FALSE
          BY <1>1
    <3>2. /\ Left[i] = FramesLeft(b, i \in ranBullets)
          /\ Left'[i] = FramesLeft(bullets'[p][s], i \in ranBullets')
          BY <2>1, LeftAt
    <3> QED BY <3>1, <3>2, Zenon
  <2> HIDE DEF b, turned
  <2> QED BY <2>2, <2>3, FrameTakesAFrame
<1>3. Left' = [i \in AllBullets |-> IF Left[i] = 0 THEN 0 ELSE Left[i] - 1]
      BY <1>2 DEF Left
<1>4. Clock!Frame
      BY <1>2, <1>3 DEF Clock!Frame, Left
<1>5. Aloft'
      BY <1>1 DEF Aloft
<1> QED BY <1>4, <1>5 DEF Clock!Next

LEMMA CalledOff ==
    ASSUME IInv, resetForCleanup \/ onCalc \/ EnterScene
    PROVE  Aloft' /\ Clock!Next
<1>1. ASSUME NEW p \in Players, NEW s \in Slots
      PROVE  ~isActive(bullets'[p][s])
  <2>1. CASE resetForCleanup
    <3>1. bullets'[p][s] = cancel(bullets[p][s]) /\ bullets[p][s] \in Bullet
          BY <2>1 DEF resetForCleanup, IInv, TypeOK
    <3> QED BY <3>1 DEF isActive, cancel, doSleep, Bullet
  <2>2. CASE onCalc \/ EnterScene
    <3>1. bullets' = [q \in Players |-> [t \in Slots |-> create]]
          BY <2>2, Zenon DEF onCalc, EnterScene
    <3>2. bullets'[p][s] = create
          BY <3>1
    <3> QED BY <3>2 DEF isActive, create
  <2> QED BY <2>1, <2>2
<1>2. Left' = [i \in AllBullets |-> 0]
      BY <1>1 DEF Left, AllBullets, FramesLeft, isActive
<1>3. Clock!CallOff
      BY <1>2 DEF Clock!CallOff, Left
<1>4. Aloft'
      BY <1>1 DEF Aloft, isActive
<1> QED BY <1>3, <1>4 DEF Clock!Next

(* The strikes keep the time of the abstract clock, in every match and in  *)
(* the range, however many of them are in the air.                         *)
THEOREM StrikesKeepTime == Spec => ImplementsStrikeClock
<1>1. Init => Aloft /\ Clock!Init
  <2> SUFFICES ASSUME Init PROVE Aloft /\ Clock!Init
      OBVIOUS
  <2>1. \A p \in Players, s \in Slots : ~isActive(bullets[p][s])
        BY DEF Init, create, isActive
  <2>2. Left = [i \in AllBullets |-> 0]
        BY <2>1 DEF Left, AllBullets, FramesLeft, isActive
  <2> QED BY <2>1, <2>2 DEF Aloft, isActive, Clock!Init, Left
<1>2. IInv /\ Aloft /\ [Next]_vars => Aloft' /\ [Clock!Next]_Left
  <2> SUFFICES ASSUME IInv, Aloft, [Next]_vars
               PROVE  Aloft' /\ [Clock!Next]_Left
      OBVIOUS
  <2>1. ASSUME UNCHANGED <<bullets, ranBullets>>
        PROVE  Aloft' /\ [Clock!Next]_Left
        BY <2>1 DEF Aloft, Left
  <2>2. ASSUME NEW p \in Players, PlayerFirstCalc(p)
        PROVE  Aloft' /\ [Clock!Next]_Left
        BY <2>2, PlayerFirstCalcTime
  <2>3. ASSUME NEW p \in Players, NEW s \in Slots, BulletFirstCalc(p, s)
        PROVE  Aloft' /\ [Clock!Next]_Left
        BY <2>3, BulletFirstCalcTime
  <2>4. CASE NextFrame
        BY <2>4, NextFrameTime
  <2>5. CASE resetForCleanup \/ onCalc \/ EnterScene
        BY <2>5, CalledOff
  <2>6. ASSUME NEW p \in Players, SpecialRunsOut(p) \/ RemoteShot(p)
        PROVE  UNCHANGED <<bullets, ranBullets>>
        BY <2>6 DEF SpecialRunsOut, RemoteShot
  <2>7. ASSUME NEW w \in Weapons, SwapWeapon(w)
        PROVE  UNCHANGED <<bullets, ranBullets>>
        BY <2>7 DEF SwapWeapon
  <2>8. CASE IsSleepingAll \/ LeaveScene \/ UNCHANGED vars
        BY <2>1, <2>8 DEF IsSleepingAll, LeaveScene, vars
  <2> QED BY <2>1, <2>2, <2>3, <2>4, <2>5, <2>6, <2>7, <2>8 DEF Next
<1>3. [Clock!Next]_Left => [Clock!Next]_([i \in AllBullets |->
                             FramesLeft(bullets[i[1]][i[2]], i \in ranBullets)])
      BY DEF Left
<1> QED BY <1>1, <1>2, Invariance, PTL DEF Spec, ImplementsStrikeClock, Clock!Spec, Left
=============================================================================
