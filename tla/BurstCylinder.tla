--------------------------- MODULE BurstCylinder ----------------------------
(***************************************************************************)
(* What a bursting Inkstrike does to the stage: the damage pass            *)
(* (vtSecondCalc and its helpers) and the paint pass (calcBurstFollow) of  *)
(* source/BulletSuperArtillery.cpp, with the paint hooks of                *)
(* source/main.cpp.  The life of a projectile is module                    *)
(* BulletSuperArtillery; here its manager is reduced to three requests.    *)
(*                                                                         *)
(* A frame has two passes over the actors: every firstCalc, then every     *)
(* secondCalc.  The order inside a pass is not the code's to choose.       *)
(*                                                                         *)
(* The stage objects are engine actors.  Only what the code reads of them  *)
(* before it acts, or writes itself, is kept: the kind, the team, whether  *)
(* the object is in the state the code asks for, and a bubble's table.     *)
(* Heights and distances are small numbers: geometry is data here.         *)
(***************************************************************************)
EXTENDS Integers, SequencesExt, BulletSuperArtillery

CONSTANTS Bursts, Objects, Movers, Teams,
          SenderOf,       \* [Bursts -> players]: mSender, its mIndex
          TeamOf,         \* [Bursts -> Teams]: the projectile's team
          KindOf,         \* [Objects -> Kinds]
          FirstTeam,      \* [Objects -> Teams]
          RadiusStart, RadiusEnd,  \* 30 and 140 in vtSecondCalc
          FirstDists,     \* [Objects -> [Bursts -> Nat]]: layouts of a stage
          FullHp,         \* of a Sprinkler or a JumpFlag
          DmgStart, DmgEnd,        \* BSA_BURST_DMG_START and _END
          SpongeFrames,   \* a sponge is hit in one frame out of 20
          PaintFrames,    \* BSA_BURST_FRAMES: paint every second frame
          TableSize,      \* 80 reserved hits per bubble
          HoldFrames,     \* frames the game keeps a reserved hit, at most
          HalfHeight,     \* BSA_BURST_HEIGHT
          WaterRel,       \* [Bursts -> Int]: waterY - mTo.mY
          TiedBlocks,     \* blocks whose draw() paints the field
          BlockReports    \* what the sphere check may report, in order

(* player    an opponent's performer          sighter   a shooting target    *)
(* gear      Sprinkler, JumpFlag               bubble    SuperBubble          *)
(* rail      InkRail, GrindRail                sponge, barrel, grappler       *)
(* superball the Booyah Bomb                                                  *)
(* foe       its own code takes the hit, a friend is skipped: bombs, shots,   *)
(*           canopies, Splash Walls, Marina bombs, weak points, barriers      *)
(* neutral   its own code takes the hit, whatever the team: Rainmaker,        *)
(*           furlers, lifts, switches, geysers, air balls                     *)
Kinds == {"player", "sighter", "gear", "foe", "superball", "bubble",
          "neutral", "sponge", "rail", "barrel", "grappler"}
FriendSparing == {"player", "sighter", "gear", "foe"}

ASSUME CylinderAssumption ==
    /\ Movers \subseteq Objects
    /\ Bursts \cap {"nobody", "shot", "stage"} = {}
    /\ TeamOf \in [Bursts -> Teams]
    /\ KindOf \in [Objects -> Kinds]
    /\ FirstTeam \in [Objects -> Teams]
    /\ RadiusStart \in Nat /\ RadiusEnd \in Nat /\ RadiusStart <= RadiusEnd
    /\ FirstDists \subseteq [Objects -> [Bursts -> Nat]]
    /\ FullHp \in Nat
    /\ DmgStart \in Nat /\ DmgEnd \in Nat \ {0} /\ DmgEnd <= DmgStart
    /\ SpongeFrames \in Nat \ {0} /\ PaintFrames \in Nat \ {0}
    /\ TableSize \in Nat /\ HoldFrames \in Nat \ {0}
    /\ HalfHeight \in Nat \ {0}
    /\ WaterRel \in [Bursts -> Int]
    /\ \A reports \in BlockReports :
         /\ reports \in Seq(ToSet(reports))
         /\ \A r \in ToSet(reports) : r.info \in BOOLEAN

VARIABLES
    pass,     \* "first" or "second"
    ran,      \* bursts that took their turn in this pass
    bullet,   \* bullet[b]: the projectile
    grabbed,  \* mDidAttractGrab
    dist,     \* dist[o][b], horizontal; out of reach when too high or low
    team,     \* mTeam of an object
    ready,    \* the object is in the state the code acts on
    hp,       \* of gear
    table,    \* a bubble's reserved hits
    seaUp,    \* Surface_Down has not fired
    gSpecialWeaponPaint, gSpecialWeaponPlayerIdx,
    harm,     \* history: frames in which a burst hit an object
    grabs,    \* history: grapplers a burst has pulled
    paint     \* history: the last paint request of this pass

vars == <<pass, ran, bullet, grabbed, dist, team, ready, hp, table, seaUp,
          gSpecialWeaponPaint, gSpecialWeaponPlayerIdx,
          harm, grabs, paint>>

Hold == 0 .. HoldFrames
Slot == 1 .. TableSize
EmptySlot == [dmg |-> 0, hold |-> 0]
NoHarm == [o \in Objects |-> 0]
Cylinders == {b \in Bursts : bullet[b].awake /\ bullet[b].hasBurst}

-----------------------------------------------------------------------------
(* vtSecondCalc: the radius grows and the damage falls with mBurstFrm.  The *)
(* radius is compared times BurstDuration, so that no division is needed.   *)
Reaches(frm, d) ==
    d * BurstDuration < RadiusStart * BurstDuration
                          + (RadiusEnd - RadiusStart) * frm

Damage(frm) ==
    (DmgStart * BurstDuration - (DmgStart - DmgEnd) * frm) \div BurstDuration

InCylinder(b, o) == Reaches(bullet[b].burstFrm, dist[o][b])

SparesFriend(b, o) == KindOf[o] \in FriendSparing /\ team[o] = TeamOf[b]

Spared(b, o) ==
    \/ SparesFriend(b, o)
    \/ KindOf[o] = "player" /\ o = SenderOf[b]
    \/ KindOf[o] = "superball"

(* A waiting barrel; one exactly under the tornado has no direction.       *)
BarrelRolls(b, o) == ready[o] /\ dist[o][b] > 0
SpongeTurn(b) == bullet[b].burstFrm % SpongeFrames = 0

(* Rails that are switched on are missed. *)
HitsRestingRails(b, o) ==
    /\ InCylinder(b, o)
    /\ ~Spared(b, o)
    /\ KindOf[o] \in {"sighter", "rail"} => ready[o]
    /\ KindOf[o] = "barrel" => BarrelRolls(b, o)
    /\ KindOf[o] = "sponge" => SpongeTurn(b)
    /\ KindOf[o] # "grappler"

(* The objects a damage pass of b hits.  Grapplers are pulled, see Pull.    *)
Hits(b, o) ==
    /\ InCylinder(b, o)
    /\ ~Spared(b, o)
    /\ KindOf[o] = "sighter" => ready[o]
    /\ KindOf[o] = "barrel" => BarrelRolls(b, o)
    /\ KindOf[o] = "sponge" => SpongeTurn(b)
    /\ KindOf[o] # "grappler"

(* damageObjects_SubHP, on hit points the game keeps in thousandths. *)
SubHP(n, dmg) == IF n > 1000 * dmg THEN n - 1000 * dmg ELSE 0

(* damageBubblesInCylinder: the first slot whose damage is zero. *)
FreeSlots(o) == {i \in Slot : table[o][i].dmg = 0}

(* The last slot, free or not. *)
ReserveLast(o, dmg) ==
    [table[o] EXCEPT ![TableSize] = [dmg |-> dmg, hold |-> HoldFrames]]

Reserve(o, dmg) ==
    LET i == CHOOSE i \in FreeSlots(o) : \A j \in FreeSlots(o) : i <= j
    IN  [table[o] EXCEPT ![i] = [dmg |-> dmg, hold |-> HoldFrames]]

BubbleDamage(b, o) ==
    IF team[o] = TeamOf[b] THEN Damage(bullet[b].burstFrm)
                           ELSE -Damage(bullet[b].burstFrm)

RailsEmitted(b) ==
    {o \in Objects : Hits(b, o) /\ KindOf[o] = "rail" /\ ready[o]}

PullAlways(b) ==
    IF \E g \in Objects : KindOf[g] = "grappler" /\ InCylinder(b, g)
    THEN /\ grabbed' = [grabbed EXCEPT ![b] = TRUE]
         /\ grabs' = [grabs EXCEPT ![b] = @ + 1]
    ELSE UNCHANGED <<grabbed, grabs>>

(* attractGrapplersInCylinder: the first one found, once.  Which one it is *)
(* makes no difference to this code.                                       *)
Pull(b) ==
    IF /\ ~grabbed[b]
       /\ \E g \in Objects : KindOf[g] = "grappler" /\ InCylinder(b, g)
    THEN /\ grabbed' = [grabbed EXCEPT ![b] = TRUE]
         /\ grabs' = [grabs EXCEPT ![b] = @ + 1]
    ELSE UNCHANGED <<grabbed, grabs>>

SecondCalc(b) ==
    /\ pass = "second"
    /\ b \in Cylinders \ ran
    /\ bullet[b].sender
    /\ ran' = ran \cup {b}
    /\ harm' = [harm EXCEPT ![b] =
                  [o \in Objects |-> IF Hits(b, o) THEN @[o] + 1 ELSE @[o]]]
    /\ hp' = [o \in Objects |->
                IF KindOf[o] = "gear" /\ Hits(b, o)
                THEN SubHP(hp[o], Damage(bullet[b].burstFrm)) ELSE hp[o]]
    /\ team' = [o \in Objects |->
                  IF o \in RailsEmitted(b) THEN TeamOf[b] ELSE team[o]]
    /\ ready' = [o \in Objects |-> ready[o] /\ o \notin RailsEmitted(b)]
    /\ table' = [o \in Objects |->
                   IF KindOf[o] = "bubble" /\ Hits(b, o) /\ FreeSlots(o) # {}
                   THEN Reserve(o, BubbleDamage(b, o)) ELSE table[o]]
    /\ Pull(b)
    /\ UNCHANGED <<pass, bullet, dist, seaUp,
                   gSpecialWeaponPaint, gSpecialWeaponPlayerIdx, paint>>

-----------------------------------------------------------------------------
(* Paint.  A request carries the player credited and a command: 0 the      *)
(* player and the gauge, 1 the team only, 2 the player but not the gauge.  *)
NoPaint == [src |-> "nobody", player |-> "nobody", cmd |-> 1, blocks |-> << >>,
            reports |-> << >>, bottom |-> 0, wet |-> FALSE]

(* requestPaintImplHook, on shots and splashes *)
requestPaintImplHook(arg) ==
    IF gSpecialWeaponPaint /\ arg.cmd = 0 THEN [arg EXCEPT !.cmd = 2] ELSE arg

(* paintDrawCommandMgrRequestPaintHook, on cylinders: with the flag set *)
paintDrawCommandMgrRequestPaintHook(special, idx, arg) ==
    IF special THEN [arg EXCEPT !.player = idx, !.cmd = 2] ELSE arg

(* The bottom of the cylinder, relative to its centre and in half units:   *)
(* raised to the water while the Surface_Down event has not fired.         *)
Bottom(b) ==
    IF seaUp /\ WaterRel[b] > -1 - HalfHeight THEN WaterRel[b]
                                              ELSE -1 - HalfHeight

Submerged(b) == seaUp /\ WaterRel[b] >= HalfHeight

(* Every block is marked. *)
StampMarkingFirst(acc, r) ==
    IF r.block \in acc.seen THEN acc
    ELSE [seen |-> acc.seen \cup {r.block},
          out |-> IF r.block \in TiedBlocks \/ ~r.info THEN acc.out
                  ELSE Append(acc.out, r.block)]

(* A block without paint info is not marked as seen. *)
Stamp(acc, r) ==
    IF r.block \in acc.seen \/ ~r.info THEN acc
    ELSE [seen |-> acc.seen \cup {r.block},
          out |-> IF r.block \in TiedBlocks THEN acc.out
                  ELSE Append(acc.out, r.block)]

(* The field first, with index 0xFE; 0xFF ("none") is never painted. *)
StampedBlocks(b, reports) ==
    IF Submerged(b) THEN << >>
    ELSE FoldLeft(Stamp, [seen |-> {"field", "none"}, out |-> <<"field">>],
                  reports).out

BurstPaint(b, reports) ==
    paintDrawCommandMgrRequestPaintHook(TRUE, SenderOf[b],
        [src |-> b, player |-> "nobody", cmd |-> 1,
         blocks |-> StampedBlocks(b, reports), reports |-> reports,
         bottom |-> Bottom(b), wet |-> seaUp])

(* The flag is left set. *)
PaintPassFlagKept(b) ==
    /\ \E reports \in BlockReports : paint' = BurstPaint(b, reports)
    /\ gSpecialWeaponPaint' = TRUE
    /\ gSpecialWeaponPlayerIdx' = SenderOf[b]

(* calcBurstFollow: the flag is set, every dispatch goes through the hook, *)
(* and the flag is cleared before the function returns.                    *)
PaintPass(b) ==
    /\ \E reports \in BlockReports : paint' = BurstPaint(b, reports)
    /\ gSpecialWeaponPaint' = FALSE
    /\ gSpecialWeaponPlayerIdx' = SenderOf[b]

PaintsAt(c) == c.sm = "Burst" /\ (c.burstFrm + 1) % PaintFrames = 0

(* vtFirstCalc.  A burst that ends here goes to sleep with its latch       *)
(* cleared.                                                                *)
FirstCalc(b) ==
    LET c == bullet[b]
        d == vtFirstCalc(c)
        ends == c.sm = "Burst" /\ d.resv = "sleep"
    IN  /\ pass = "first"
        /\ b \notin ran
        /\ c.awake /\ c.sm \in {"Pronounce", "Burst"}
        /\ ran' = ran \cup {b}
        /\ bullet' = [bullet EXCEPT ![b] = d]
        /\ grabbed' = [grabbed EXCEPT ![b] = @ /\ ~ends]
        /\ IF PaintsAt(c) THEN PaintPass(b)
           ELSE UNCHANGED <<gSpecialWeaponPaint, gSpecialWeaponPlayerIdx, paint>>
        /\ UNCHANGED <<pass, dist, team, ready, hp, table, seaUp,
                       harm, grabs>>

FirstPassDone ==
    /\ pass = "first"
    /\ \A b \in Bursts :
         bullet[b].awake /\ bullet[b].sm \in {"Pronounce", "Burst"} => b \in ran
    /\ pass' = "second"
    /\ ran' = {}
    /\ paint' = NoPaint
    /\ UNCHANGED <<bullet, grabbed, dist, team, ready, hp, table, seaUp,
                   gSpecialWeaponPaint, gSpecialWeaponPlayerIdx,
                   harm, grabs>>

(* A reserved hit is applied, and its slot freed, HoldFrames later.  The   *)
(* histories of a burst end with it.                                       *)
Drain(slot) ==
    IF slot.hold <= 1 THEN EmptySlot ELSE [slot EXCEPT !.hold = @ - 1]

FrameOver == pass = "second" /\ Cylinders \subseteq ran

NextFrame ==
    /\ FrameOver
    /\ pass' = "first"
    /\ ran' = {}
    /\ bullet' = [b \in Bursts |-> Elapse(Settle(bullet[b]))]
    /\ grabbed' = [b \in Bursts |-> grabbed[b] /\ bullet[b].resv # "sleep"]
    /\ table' = [o \in Objects |-> [i \in Slot |-> Drain(table[o][i])]]
    /\ harm' = [b \in Bursts |-> IF bullet[b].hasBurst THEN harm[b] ELSE NoHarm]
    /\ grabs' = [b \in Bursts |-> IF bullet[b].hasBurst THEN grabs[b] ELSE 0]
    /\ UNCHANGED <<dist, team, ready, hp, seaUp,
                   gSpecialWeaponPaint, gSpecialWeaponPlayerIdx, paint>>

-----------------------------------------------------------------------------
(* The manager: a bullet is prepared while it is not active, launched once *)
(* awake, and cancelled by the cleanup at the end of a frame.  mDidAttract-*)
(* Grab is not among the fields prepare and launch set.                    *)
Request(b, c) ==
    /\ pass = "first" /\ ran = {}
    /\ bullet[b].resv = "none"
    /\ ~isActive(bullet[b])
    /\ bullet' = [bullet EXCEPT ![b] = c]
    /\ UNCHANGED <<pass, ran, grabbed, dist, team, ready, hp, table, seaUp,
                   gSpecialWeaponPaint, gSpecialWeaponPlayerIdx,
                   harm, grabs, paint>>

Prepare(b) == ~bullet[b].awake /\ Request(b, prepare(bullet[b]))
Launch(b) == bullet[b].awake /\ Request(b, launch(bullet[b], FALSE))

Cleanup ==
    /\ FrameOver
    /\ \E b \in Bursts : isActive(bullet[b])
    /\ bullet' = [b \in Bursts |-> cancel(bullet[b])]
    /\ grabbed' = [b \in Bursts |-> FALSE]
    /\ UNCHANGED <<pass, ran, dist, team, ready, hp, table, seaUp,
                   gSpecialWeaponPaint, gSpecialWeaponPlayerIdx,
                   harm, grabs, paint>>

(* The rest of the game, between two frames. *)
StageStep(o) ==
    /\ pass = "first" /\ ran = {}
    /\ \/ /\ o \in Movers
          /\ dist' \in {[dist EXCEPT ![o] = d[o]] : d \in FirstDists}
          /\ UNCHANGED <<ready, hp>>
       \/ /\ KindOf[o] \in {"barrel", "sighter"}
          /\ ready' = [ready EXCEPT ![o] = ~@]
          /\ UNCHANGED <<dist, hp>>
       \/ /\ KindOf[o] = "rail" /\ ~ready[o]
          /\ ready' = [ready EXCEPT ![o] = TRUE]
          /\ UNCHANGED <<dist, hp>>
       \/ /\ KindOf[o] = "gear" /\ hp[o] = 0
          /\ hp' = [hp EXCEPT ![o] = FullHp]
          /\ UNCHANGED <<dist, ready>>
    /\ UNCHANGED <<pass, ran, bullet, grabbed, team, table, seaUp,
                   gSpecialWeaponPaint, gSpecialWeaponPlayerIdx,
                   harm, grabs, paint>>

SurfaceDown ==
    /\ seaUp
    /\ pass = "first" /\ ran = {}
    /\ seaUp' = FALSE
    /\ UNCHANGED <<pass, ran, bullet, grabbed, dist, team, ready, hp, table,
                   gSpecialWeaponPaint, gSpecialWeaponPlayerIdx,
                   harm, grabs, paint>>

(* A shot of player p, or a paint gimmick of the stage, in a firstCalc. *)
ShotPaints(p) ==
    paint' = requestPaintImplHook([NoPaint EXCEPT !.src = "shot", !.player = p,
                                                  !.cmd = 0])
StagePaints ==
    paint' = paintDrawCommandMgrRequestPaintHook(
                 gSpecialWeaponPaint, gSpecialWeaponPlayerIdx,
                 [NoPaint EXCEPT !.src = "stage"])

OtherPaint ==
    /\ pass = "first"
    /\ paint = NoPaint \/ paint.src \in Bursts
    /\ StagePaints \/ \E b \in Bursts : ShotPaints(SenderOf[b])
    /\ UNCHANGED <<pass, ran, bullet, grabbed, dist, team, ready, hp, table,
                   seaUp, gSpecialWeaponPaint, gSpecialWeaponPlayerIdx,
                   harm, grabs>>

Init ==
    /\ pass = "first"
    /\ ran = {}
    /\ bullet = [b \in Bursts |-> create]
    /\ grabbed = [b \in Bursts |-> FALSE]
    /\ dist \in FirstDists
    /\ team = FirstTeam
    /\ ready = [o \in Objects |-> TRUE]
    /\ hp = [o \in Objects |-> FullHp]
    /\ table = [o \in Objects |-> [i \in Slot |-> EmptySlot]]
    /\ seaUp \in BOOLEAN
    /\ gSpecialWeaponPaint = FALSE
    /\ gSpecialWeaponPlayerIdx = SenderOf[CHOOSE b \in Bursts : TRUE]
    /\ harm = [b \in Bursts |-> NoHarm]
    /\ grabs = [b \in Bursts |-> 0]
    /\ paint = NoPaint

Next ==
    \/ \E b \in Bursts : FirstCalc(b) \/ SecondCalc(b) \/ Prepare(b) \/ Launch(b)
    \/ FirstPassDone \/ NextFrame \/ Cleanup
    \/ \E o \in Objects : StageStep(o)
    \/ SurfaceDown \/ OtherPaint

Spec == Init /\ [][Next]_vars

-----------------------------------------------------------------------------
(* Types, and what each count can reach. *)
TypeOK ==
    /\ pass \in {"first", "second"}
    /\ ran \subseteq Bursts
    /\ bullet \in [Bursts -> Bullet]
    /\ grabbed \in [Bursts -> BOOLEAN]
    /\ dist \in [Objects -> [Bursts -> Nat]]
    /\ team \in [Objects -> Teams]
    /\ ready \in [Objects -> BOOLEAN]
    /\ hp \in [Objects -> 0 .. FullHp]
    /\ table \in [Objects -> [Slot -> [dmg : Int, hold : Hold]]]
    /\ seaUp \in BOOLEAN
    /\ gSpecialWeaponPaint \in BOOLEAN
    /\ harm \in [Bursts -> [Objects -> 0 .. BurstDuration]]
    /\ grabs \in [Bursts -> Nat]

(* The bursts of this module go by the same clock as those of the manager's*)
(* module: the three requests drive a projectile as the manager does.      *)
Turned(b) == pass = "second" \/ b \in ran
Clock == INSTANCE StrikeClock WITH
           Strikes <- Bursts, Lengths <- StrikeLengths,
           left <- [b \in Bursts |-> FramesLeft(bullet[b], Turned(b))]
ImplementsStrikeClock == Clock!Spec

(* The damage pass and the clock of the burst agree: an object that stays  *)
(* where it is, and is hit without further condition, has been hit in      *)
(* every frame from the first whose radius reaches it, including the frame *)
(* in which the burst begins and excluding the one in which it goes to     *)
(* sleep; no object is hit oftener than the burst has frames.              *)
Steady(o) ==
    o \notin Movers /\ KindOf[o] \in {"player", "gear", "foe", "bubble",
                                       "neutral", "rail"}

LastDamageFrame(b) ==
    IF (pass = "second") = (b \in ran) THEN bullet[b].burstFrm
                                       ELSE bullet[b].burstFrm - 1

HitsFollowClock ==
    \A b \in Cylinders, o \in Objects :
      /\ harm[b][o] <= LastDamageFrame(b) + 1
      /\ Steady(o) /\ ~Spared(b, o) =>
           harm[b][o] = Cardinality({f \in 0 .. LastDamageFrame(b) :
                                       Reaches(f, dist[o][b])})

(* A burst pulls one grapple target at most, and the latch never carries   *)
(* over into the next strike of the same projectile: whenever a target is  *)
(* in reach after a damage pass, one has been pulled in this burst.        *)
OneGrabPerBurst ==
    \A b \in Cylinders :
      /\ grabs[b] <= 1
      /\ /\ pass = "second" /\ b \in ran
         /\ \E g \in Objects \ Movers : KindOf[g] = "grappler" /\ InCylinder(b, g)
         => grabs[b] = 1

(* Several bursts over one bubble: each frame's hit of each burst takes a  *)
(* slot of its own while one is free.  Only a full table drops a hit, as   *)
(* the code's search then finds nothing; a hit that waits is not displaced *)
(* by a later one.                                                         *)
Bubbles == {o \in Objects : KindOf[o] = "bubble"}

HitsWaiting(o, h) == Cardinality({i \in Slot : table[o][i].hold >= h})

Table == INSTANCE ReservedHits WITH
           Strikers <- Bursts, Room <- TableSize,
           hits <- [b \in Bursts |-> [o \in Bubbles |-> harm[b][o]]],
           owed <- [o \in Bubbles |->
                      [h \in 1 .. HoldFrames |-> HitsWaiting(o, h)]]
ImplementsReservedHits == Table!Spec

(* Paint of a burst is credited to the player who struck and leaves the    *)
(* gauge alone; the paint of shots and of the stage, requested in the same *)
(* frame before or after it, is passed on as it was asked for.             *)
CreditGoesHome ==
    /\ paint.src \in Bursts =>
         paint.player = SenderOf[paint.src] /\ paint.cmd = 2
    /\ paint.src = "shot" => paint.cmd = 0
    /\ paint.src = "stage" => paint.player = "nobody" /\ paint.cmd = 1

(* A burst stamps every paintable block the check reports exactly once,    *)
(* however often and in whatever order it is reported, never the blocks    *)
(* that would paint the field a second time, and nothing under the water   *)
(* before it has gone down.                                                *)
Paintable(reports) ==
    {r.block : r \in {x \in ToSet(reports) : x.info}} \ (TiedBlocks \cup {"none"})

EachBlockOnce ==
    paint.src \in Bursts =>
      /\ IsInjective(paint.blocks)
      /\ paint.blocks # << >> =>
           ToSet(paint.blocks) = {"field"} \cup Paintable(paint.reports)
      /\ paint.wet /\ paint.blocks # << >> =>
           /\ WaterRel[paint.src] <= paint.bottom
           /\ paint.bottom < HalfHeight

=============================================================================
