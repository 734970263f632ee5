----------------------------- MODULE BurstProofs ----------------------------
(***************************************************************************)
(* What a bursting Inkstrike does to the stage, for any number of bursts   *)
(* and objects, any layout and any numbers of frames.                      *)
(*                                                                         *)
(* The life of a bullet is followed through the two passes of a frame; the *)
(* histories of a burst then depend on its clock alone: in the first pass  *)
(* they belong to the last frame, and a burst that begins finds them       *)
(* empty.                                                                  *)
(***************************************************************************)
EXTENDS BurstCylinder, TLAPS, FiniteSetTheorems, SequenceTheorems,
        WellFoundedInduction

LEMMA Frames ==
    /\ BurstDuration \in Nat /\ BurstDuration > 0
    /\ FlightTime \in Nat /\ LongFlightTime \in Nat
    /\ 0 \in BurstFrames
  BY FlightAssumption DEF BurstFrames

(* One bullet.  slept: its reserved sleep may still wait for the engine.   *)
LifeOf(c, slept) ==
    /\ c.awake => c.sender
    /\ c.flightActive => /\ c.awake /\ c.sm = "Pronounce"
                         /\ ~c.hasBurst /\ c.resv = "none"
    /\ c.hasBurst => /\ c.awake /\ c.sm = "Burst"
                     /\ c.burstFrm < BurstDuration /\ c.resv = "none"
    /\ c.awake /\ c.sm = "Pronounce" => c.flightActive \/ c.resv = "sleep"
    /\ c.awake /\ c.sm = "Burst" => c.hasBurst \/ c.resv = "sleep"
    /\ c.resv = "activate" => ~c.awake /\ c.sender
    /\ c.resv = "sleep" => slept

LEMMA Requests ==
    ASSUME NEW c \in Bullet, LifeOf(c, FALSE), ~isActive(c), c.resv = "none"
    PROVE  /\ ~c.awake => /\ prepare(c) \in Bullet /\ LifeOf(prepare(c), FALSE)
                          /\ ~prepare(c).hasBurst
           /\ c.awake => /\ launch(c, FALSE) \in Bullet
                         /\ LifeOf(launch(c, FALSE), FALSE)
                         /\ ~launch(c, FALSE).hasBurst
<1>1. prepare(c) \in Bullet
      BY Frames DEF prepare, Bullet, Reservation
<1>2. ~c.awake => LifeOf(prepare(c), FALSE) /\ ~prepare(c).hasBurst
      BY DEF prepare, LifeOf, Bullet
<1>3. launch(c, FALSE) \in Bullet
      BY Frames DEF launch, Bullet, BSAState
<1>4. c.awake => LifeOf(launch(c, FALSE), FALSE) /\ ~launch(c, FALSE).hasBurst
      BY DEF launch, LifeOf, isActive, Bullet
<1> QED BY <1>1, <1>2, <1>3, <1>4

LEMMA Cancelled ==
    ASSUME NEW c \in Bullet, LifeOf(c, TRUE)
    PROVE  cancel(c) \in Bullet /\ LifeOf(cancel(c), TRUE) /\ ~cancel(c).hasBurst
<1>1. cancel(c) \in Bullet
      BY DEF cancel, doSleep, Bullet, Reservation
<1> QED BY <1>1 DEF cancel, doSleep, LifeOf, Bullet

(* A turn of the state machine: a burst begins, goes on or ends.           *)
LEMMA Turns ==
    ASSUME NEW c \in Bullet, LifeOf(c, FALSE), c.awake,
           c.sm \in {"Pronounce", "Burst"}
    PROVE  LET d == vtFirstCalc(c)
           IN  /\ d \in Bullet /\ LifeOf(d, TRUE)
               /\ c.sm = "Pronounce" =>
                    /\ ~c.hasBurst
                    /\ d.hasBurst => d.burstFrm = 0
               /\ c.sm = "Burst" =>
                    /\ c.hasBurst
                    /\ d.hasBurst => d.burstFrm = c.burstFrm + 1
                    /\ ~d.hasBurst <=> d.resv = "sleep"
<1> DEFINE d == vtFirstCalc(c)
<1>1. CASE c.sm = "Pronounce"
  <2>1. c.flightActive /\ ~c.hasBurst /\ c.resv = "none" /\ c.sender
        BY <1>1 DEF LifeOf
  <2>2. d = statePronounce(c)
        BY <1>1 DEF vtFirstCalc
  <2>3. CASE c.flightLeft = 0
    <3> DEFINE e == [c EXCEPT !.sm = "Burst"]
    <3>1. e \in Bullet /\ e.sender
          BY <2>1 DEF Bullet, BSAState
    <3>2. d = [e EXCEPT !.flightActive = FALSE, !.hasBurst = TRUE, !.burstFrm = 0]
          BY <2>2, <2>3, <3>1 DEF statePronounce, doBurst
    <3>3. d \in Bullet
          BY <3>1, <3>2, Frames DEF Bullet
    <3>4. d.burstFrm = 0 /\ d.hasBurst
          BY <3>1, <3>2 DEF Bullet
    <3>5. LifeOf(d, TRUE)
          BY <2>1, <3>2, Frames DEF LifeOf, Bullet
    <3> QED BY <1>1, <2>1, <3>3, <3>4, <3>5
  <2>4. CASE c.flightLeft # 0
    <3>1. d = c
          BY <2>2, <2>4 DEF statePronounce
    <3> QED BY <1>1, <2>1, <3>1 DEF LifeOf
  <2> QED BY <2>3, <2>4
<1>2. CASE c.sm = "Burst"
  <2>1. c.hasBurst /\ c.burstFrm < BurstDuration /\ c.resv = "none" /\ c.sender
        /\ ~c.flightActive
        BY <1>2 DEF LifeOf
  <2>2. c.burstFrm + 1 \in BurstFrames /\ c.burstFrm \in Nat
        BY <2>1, Frames DEF Bullet, BurstFrames
  <2> DEFINE e == [c EXCEPT !.burstFrm = c.burstFrm + 1]
  <2>3. e \in Bullet /\ e.burstFrm = c.burstFrm + 1
        BY <2>2 DEF Bullet
  <2>4. d = IF c.burstFrm + 1 >= BurstDuration THEN doSleep(e) ELSE e
        BY <1>2, <2>3 DEF vtFirstCalc, calcBurstFollow
  <2>5. CASE c.burstFrm + 1 >= BurstDuration
    <3>1. d = doSleep(e)
          BY <2>4, <2>5
    <3>2. d \in Bullet /\ LifeOf(d, TRUE) /\ ~d.hasBurst /\ d.resv = "sleep"
          BY <2>1, <2>3, <3>1 DEF doSleep, LifeOf, Bullet, Reservation
    <3> QED BY <1>2, <2>1, <3>2
  <2>6. CASE ~(c.burstFrm + 1 >= BurstDuration)
    <3>1. d = e
          BY <2>4, <2>6
    <3>2. e.hasBurst /\ e.resv = "none" /\ e.burstFrm < BurstDuration
          BY <2>1, <2>2, <2>3, <2>6, Frames DEF Bullet
    <3>3. LifeOf(e, TRUE)
          BY <2>1, <3>2 DEF LifeOf, Bullet
    <3> QED BY <1>2, <2>1, <2>3, <3>1, <3>2, <3>3
  <2> QED BY <2>5, <2>6
<1> QED BY <1>1, <1>2

(* Between two frames the engine carries out what is reserved.             *)
LEMMA BetweenFrames ==
    ASSUME NEW c \in Bullet, LifeOf(c, TRUE)
    PROVE  LET d == Elapse(Settle(c))
           IN  /\ d \in Bullet /\ LifeOf(d, FALSE)
               /\ d.hasBurst <=> c.hasBurst
               /\ c.hasBurst => d.burstFrm = c.burstFrm
               /\ c.resv = "sleep" => ~d.hasBurst
<1> DEFINE s == Settle(c)
           d == Elapse(s)
<1>1. CASE c.resv = "activate"
  <2>1. s = vtOnActivate(c) /\ ~c.hasBurst /\ ~c.flightActive
        BY <1>1 DEF Settle, LifeOf
  <2>2. s \in Bullet
        BY <2>1 DEF vtOnActivate, Bullet, BSAState, Reservation
  <2>3. LifeOf(s, FALSE) /\ ~s.hasBurst
        BY <1>1, <2>1 DEF vtOnActivate, LifeOf, Bullet
  <2> HIDE DEF s
  <2>4. d \in Bullet /\ LifeOf(d, FALSE) /\ ~d.hasBurst
        BY <2>2, <2>3 DEF Elapse, LifeOf, Bullet
  <2> QED BY <1>1, <2>1, <2>4 DEF s
<1>2. CASE c.resv = "sleep"
  <2>1. s = vtOnSleep(c) /\ ~c.hasBurst
        BY <1>2 DEF Settle, LifeOf
  <2>2. s \in Bullet
    <3>1. reset(c) \in Bullet
          BY Frames DEF reset, Bullet
    <3> QED BY <2>1, <3>1 DEF vtOnSleep, Bullet, Reservation
  <2>3. LifeOf(s, FALSE) /\ ~s.hasBurst
        BY <2>1 DEF vtOnSleep, reset, LifeOf, Bullet
  <2> HIDE DEF s
  <2>4. d \in Bullet /\ LifeOf(d, FALSE) /\ ~d.hasBurst
        BY <2>2, <2>3 DEF Elapse, LifeOf, Bullet
  <2> QED BY <1>2, <2>1, <2>4 DEF s
<1>3. CASE c.resv = "none"
  <2>1. s = c
        BY <1>3 DEF Settle
  <2>2. d \in Bullet /\ (d.hasBurst <=> c.hasBurst) /\ d.burstFrm = c.burstFrm
        BY <2>1 DEF Elapse, Bullet
  <2>3. LifeOf(d, FALSE)
        BY <1>3, <2>1 DEF Elapse, LifeOf, Bullet
  <2> QED BY <1>3, <2>2, <2>3
<1> QED BY <1>1, <1>2, <1>3 DEF Bullet, Reservation

-----------------------------------------------------------------------------
(* The lives of all bullets. *)
LifeInv ==
    /\ pass \in {"first", "second"} /\ ran \subseteq Bursts
    /\ bullet \in [Bursts -> Bullet]
    /\ \A b \in Bursts : LifeOf(bullet[b], Turned(b))

LEMMA LifeWeaker ==
    ASSUME NEW c, NEW x \in BOOLEAN, LifeOf(c, x)
    PROVE  LifeOf(c, TRUE) /\ (x = FALSE => LifeOf(c, FALSE))
  BY DEF LifeOf

LEMMA LifeAwake ==
    ASSUME LifeInv, NEW b \in Bursts
    PROVE  /\ LifeOf(bullet[b], TRUE) /\ bullet[b] \in Bullet
           /\ ~Turned(b) => LifeOf(bullet[b], FALSE)
  BY DEF LifeInv, LifeOf

(* What most steps leave alone. *)
LEMMA LifeRests ==
    ASSUME LifeInv, UNCHANGED <<pass, bullet>>, ran' = ran \/ (pass = "second" /\ ran' \subseteq Bursts)
    PROVE  LifeInv'
<1>1. \A b \in Bursts : Turned(b)' <=> Turned(b)
      BY DEF Turned
<1>2. \A b \in Bursts : LifeOf(bullet[b], Turned(b))'
      BY <1>1 DEF LifeInv, LifeOf
<1> QED BY <1>2 DEF LifeInv

LEMMA FirstCalcLife ==
    ASSUME LifeInv, NEW b \in Bursts, FirstCalc(b)
    PROVE  LifeInv'
<1> DEFINE c == bullet[b]
           d == vtFirstCalc(c)
<1>1. /\ pass = "first" /\ pass' = pass /\ b \notin ran /\ ran' = ran \cup {b}
      /\ c.awake /\ c.sm \in {"Pronounce", "Burst"}
      /\ bullet' = [bullet EXCEPT ![b] = d]
      BY DEF FirstCalc
<1>2. c \in Bullet /\ LifeOf(c, FALSE)
      BY <1>1, LifeAwake DEF Turned
<1> HIDE DEF c
<1>3. d \in Bullet /\ LifeOf(d, TRUE)
      BY <1>1, <1>2, Turns
<1> HIDE DEF d
<1>4. ASSUME NEW e \in Bursts PROVE LifeOf(bullet'[e], Turned(e)')
  <2>1. CASE e = b
    <3>1. bullet'[e] = d /\ Turned(e)'
          BY <1>1, <2>1 DEF LifeInv, Turned
    <3> QED BY <1>3, <3>1 DEF LifeOf
  <2>2. CASE e # b
    <3>1. bullet'[e] = bullet[e] /\ (Turned(e)' <=> Turned(e))
          BY <1>1, <2>2 DEF LifeInv, Turned
    <3> QED BY <3>1 DEF LifeInv, LifeOf
  <2> QED BY <2>1, <2>2
<1>5. bullet' \in [Bursts -> Bullet]
      BY <1>1, <1>3 DEF LifeInv
<1> QED BY <1>1, <1>4, <1>5 DEF LifeInv

LEMMA RequestLife ==
    ASSUME LifeInv, NEW b \in Bursts, Prepare(b) \/ Launch(b)
    PROVE  LifeInv' /\ ~bullet[b].hasBurst /\ ~bullet'[b].hasBurst
<1>1. /\ pass = "first" /\ ran = {} /\ UNCHANGED <<pass, ran>>
      /\ bullet[b].resv = "none" /\ ~isActive(bullet[b])
      BY DEF Prepare, Launch, Request
<1>2. bullet[b] \in Bullet /\ LifeOf(bullet[b], FALSE)
      BY <1>1, LifeAwake DEF Turned
<1>3. PICK d : /\ bullet' = [bullet EXCEPT ![b] = d]
               /\ d \in Bullet /\ LifeOf(d, FALSE) /\ ~d.hasBurst
      BY <1>1, <1>2, Requests DEF Prepare, Launch, Request
<1>4. ASSUME NEW e \in Bursts PROVE LifeOf(bullet'[e], Turned(e)')
  <2>1. ~Turned(e) /\ ~Turned(e)'
        BY <1>1 DEF Turned
  <2>2. CASE e = b
    <3>1. bullet'[e] = d
          BY <1>3, <2>2 DEF LifeInv
    <3> QED BY <1>3, <2>1, <3>1 DEF LifeOf
  <2>3. CASE e # b
    <3>1. bullet'[e] = bullet[e]
          BY <1>3, <2>3 DEF LifeInv
    <3> QED BY <2>1, <3>1 DEF LifeInv, LifeOf
  <2> QED BY <2>2, <2>3
<1>5. bullet' \in [Bursts -> Bullet] /\ bullet'[b] = d
      BY <1>3 DEF LifeInv
<1> QED BY <1>1, <1>3, <1>4, <1>5 DEF LifeInv, isActive

LEMMA CleanupLife ==
    ASSUME LifeInv, Cleanup
    PROVE  LifeInv' /\ \A b \in Bursts : ~bullet'[b].hasBurst
<1>1. /\ pass = "second" /\ UNCHANGED <<pass, ran>>
      /\ bullet' = [b \in Bursts |-> cancel(bullet[b])]
      BY DEF Cleanup, FrameOver
<1>2. ASSUME NEW b \in Bursts
      PROVE  bullet'[b] \in Bullet /\ LifeOf(bullet'[b], TRUE) /\ ~bullet'[b].hasBurst
      BY <1>1, LifeAwake, Cancelled
<1>3. \A b \in Bursts : LifeOf(bullet'[b], Turned(b)')
      BY <1>1, <1>2 DEF Turned, LifeOf
<1>4. bullet' \in [Bursts -> Bullet]
      BY <1>1, <1>2
<1> QED BY <1>1, <1>2, <1>3, <1>4 DEF LifeInv

LEMMA NextFrameLife ==
    ASSUME LifeInv, NextFrame
    PROVE  LifeInv' /\ \A b \in Bursts :
             /\ bullet'[b].hasBurst <=> bullet[b].hasBurst
             /\ bullet[b].hasBurst => bullet'[b].burstFrm = bullet[b].burstFrm
             /\ bullet[b].resv = "sleep" => ~bullet[b].hasBurst
<1>1. /\ pass' = "first" /\ ran' = {}
      /\ bullet' = [b \in Bursts |-> Elapse(Settle(bullet[b]))]
      BY DEF NextFrame
<1>2. ASSUME NEW b \in Bursts
      PROVE  /\ bullet'[b] \in Bullet /\ LifeOf(bullet'[b], FALSE)
             /\ bullet'[b].hasBurst <=> bullet[b].hasBurst
             /\ bullet[b].hasBurst => bullet'[b].burstFrm = bullet[b].burstFrm
             /\ bullet[b].resv = "sleep" => ~bullet[b].hasBurst
  <2>1. bullet[b] \in Bullet /\ LifeOf(bullet[b], TRUE)
        BY LifeAwake
  <2>2. bullet'[b] = Elapse(Settle(bullet[b]))
        BY <1>1
  <2>3. bullet[b].resv = "sleep" => ~bullet[b].hasBurst
        BY <2>1 DEF LifeOf
  <2> DEFINE c == bullet[b]
             d == Elapse(Settle(c))
  <2>4. c \in Bullet /\ LifeOf(c, TRUE) /\ bullet'[b] = d
        BY <2>1, <2>2
  <2> HIDE DEF c
  <2>5. d \in Bullet /\ LifeOf(d, FALSE) /\ (d.hasBurst <=> c.hasBurst)
        /\ (c.hasBurst => d.burstFrm = c.burstFrm)
        BY <2>4, BetweenFrames
  <2> HIDE DEF d
  <2> QED BY <2>3, <2>4, <2>5 DEF c
<1>3. \A b \in Bursts : LifeOf(bullet'[b], Turned(b)')
      BY <1>1, <1>2 DEF Turned, LifeOf
<1>4. bullet' \in [Bursts -> Bullet]
      BY <1>1, <1>2
<1> QED BY <1>1, <1>2, <1>3, <1>4 DEF LifeInv

LEMMA FirstPassDoneLife ==
    ASSUME LifeInv, FirstPassDone
    PROVE  LifeInv' /\ Cylinders \subseteq ran /\ Cylinders' = Cylinders
<1>1. pass' = "second" /\ ran' = {} /\ bullet' = bullet
      BY DEF FirstPassDone
<1>2. \A b \in Bursts : LifeOf(bullet'[b], Turned(b)')
      BY <1>1, LifeAwake DEF Turned, LifeOf
<1>3. \A b \in Cylinders : bullet[b].awake /\ bullet[b].sm = "Burst"
      BY DEF LifeInv, LifeOf, Cylinders
<1>4. Cylinders \subseteq ran /\ Cylinders' = Cylinders
      BY <1>1, <1>3 DEF FirstPassDone, Cylinders
<1> QED BY <1>1, <1>2, <1>4 DEF LifeInv

(* The life of every bullet follows the passes, whatever order the actors  *)
(* take their turns in.                                                    *)
THEOREM LifeInvariance == Spec => []LifeInv
<1>1. Init => LifeInv
  <2>1. create \in Bullet /\ LifeOf(create, FALSE)
        BY Frames DEF create, Bullet, BSAState, Reservation, LifeOf
  <2>2. Init => \A b \in Bursts : bullet[b] = create /\ ~Turned(b)
        BY DEF Init, Turned
  <2> QED BY <2>1, <2>2 DEF Init, LifeInv, LifeOf
<1>2. LifeInv /\ [Next]_vars => LifeInv'
  <2> SUFFICES ASSUME LifeInv, [Next]_vars PROVE LifeInv'
      OBVIOUS
  <2>1. ASSUME NEW b \in Bursts, FirstCalc(b) PROVE LifeInv'
        BY <2>1, FirstCalcLife
  <2>2. ASSUME NEW b \in Bursts, SecondCalc(b) PROVE LifeInv'
    <3>1. pass = "second" /\ UNCHANGED <<pass, bullet>> /\ ran' \subseteq Bursts
          BY <2>2 DEF SecondCalc, LifeInv
    <3> QED BY <3>1, LifeRests
  <2>3. ASSUME NEW b \in Bursts, Prepare(b) \/ Launch(b) PROVE LifeInv'
        BY <2>3, RequestLife
  <2>4. CASE FirstPassDone
        BY <2>4, FirstPassDoneLife
  <2>5. CASE NextFrame
        BY <2>5, NextFrameLife
  <2>6. CASE Cleanup
        BY <2>6, CleanupLife
  <2>7. CASE (\E o \in Objects : StageStep(o)) \/ SurfaceDown \/ OtherPaint \/ UNCHANGED vars
    <3>1. UNCHANGED <<pass, bullet, ran>>
          BY <2>7 DEF StageStep, SurfaceDown, OtherPaint, vars
    <3> QED BY <3>1, LifeRests
  <2> QED BY <2>1, <2>2, <2>3, <2>4, <2>5, <2>6, <2>7 DEF Next
<1> QED BY <1>1, <1>2, PTL DEF Spec

-----------------------------------------------------------------------------
(* Paint.  The flag is up inside calcBurstFollow only, so that no other    *)
(* request meets it.                                                       *)
PaintInv ==
    /\ gSpecialWeaponPaint = FALSE
    /\ CreditGoesHome

LEMMA Sources ==
    /\ NoPaint.src \notin Bursts /\ NoPaint.src = "nobody"
    /\ "shot" \notin Bursts /\ "stage" \notin Bursts
  BY CylinderAssumption DEF NoPaint

LEMMA PaintStep ==
    ASSUME PaintInv, [Next]_vars
    PROVE  PaintInv'
<1>1. ASSUME NEW b \in Bursts, PaintPass(b) PROVE PaintInv'
  <2>1. PICK reports \in BlockReports : paint' = BurstPaint(b, reports)
        BY <1>1 DEF PaintPass
  <2>2. paint'.src = b /\ paint'.player = SenderOf[b] /\ paint'.cmd = 2
        BY <2>1 DEF BurstPaint, paintDrawCommandMgrRequestPaintHook
  <2>3. b # "shot" /\ b # "stage"
        BY Sources
  <2>4. gSpecialWeaponPaint' = FALSE
        BY <1>1 DEF PaintPass
  <2> QED BY <2>2, <2>3, <2>4 DEF PaintInv, CreditGoesHome
<1>2. ASSUME NEW b \in Bursts, FirstCalc(b) PROVE PaintInv'
  <2>1. CASE PaintsAt(bullet[b])
        BY <1>1, <1>2, <2>1 DEF FirstCalc
  <2>2. CASE ~PaintsAt(bullet[b])
        BY <1>2, <2>2 DEF FirstCalc, PaintInv, CreditGoesHome
  <2> QED BY <2>1, <2>2
<1>3. CASE FirstPassDone
  <2>1. paint' = NoPaint /\ gSpecialWeaponPaint' = gSpecialWeaponPaint
        BY <1>3 DEF FirstPassDone
  <2> QED BY <2>1, Sources DEF PaintInv, CreditGoesHome
<1>4. CASE OtherPaint
  <2>0. gSpecialWeaponPaint' = FALSE
        BY <1>4 DEF OtherPaint, PaintInv
  <2>1. CASE StagePaints
    <3>1. paint' = [NoPaint EXCEPT !.src = "stage"]
          BY <2>1 DEF StagePaints, paintDrawCommandMgrRequestPaintHook, PaintInv
    <3>2. paint'.src = "stage" /\ paint'.player = "nobody" /\ paint'.cmd = 1
          BY <3>1 DEF NoPaint
    <3> QED BY <2>0, <3>2, Sources DEF PaintInv, CreditGoesHome
  <2>2. ASSUME NEW b \in Bursts, ShotPaints(SenderOf[b]) PROVE PaintInv'
    <3>1. paint' = [NoPaint EXCEPT !.src = "shot", !.player = SenderOf[b], !.cmd = 0]
          BY <2>2 DEF ShotPaints, requestPaintImplHook, PaintInv
    <3>2. paint'.src = "shot" /\ paint'.cmd = 0
          BY <3>1 DEF NoPaint
    <3> QED BY <2>0, <3>2, Sources DEF PaintInv, CreditGoesHome
  <2> QED BY <1>4, <2>1, <2>2 DEF OtherPaint
<1>5. ASSUME UNCHANGED <<gSpecialWeaponPaint, paint>> PROVE PaintInv'
      BY <1>5 DEF PaintInv, CreditGoesHome
<1>6. ASSUME NEW b \in Bursts, SecondCalc(b) \/ Prepare(b) \/ Launch(b) PROVE PaintInv'
      BY <1>5, <1>6 DEF SecondCalc, Prepare, Launch, Request
<1>7. CASE NextFrame \/ Cleanup \/ SurfaceDown \/ UNCHANGED vars
      BY <1>5, <1>7 DEF NextFrame, Cleanup, SurfaceDown, vars
<1>8. ASSUME NEW o \in Objects, StageStep(o) PROVE PaintInv'
      BY <1>5, <1>8 DEF StageStep
<1> QED BY <1>2, <1>3, <1>4, <1>6, <1>7, <1>8 DEF Next

(* The flag of calcBurstFollow is never seen set by another request. *)
THEOREM PaintInvariance == Spec => []PaintInv
<1>1. Init => PaintInv
      BY Sources DEF Init, PaintInv, CreditGoesHome
<1> QED BY <1>1, PaintStep, PTL DEF Spec

(* Paint of a burst is credited to its player and paint of others is left  *)
(* alone, in every order of the requests of a frame.                       *)
THEOREM CreditsGoHome == Spec => []CreditGoesHome
<1>1. PaintInv => CreditGoesHome
      BY DEF PaintInv
<1> QED BY <1>1, PaintInvariance, PTL

-----------------------------------------------------------------------------
(* The stamps of a burst.  calcBurstFollow goes through the reports of the *)
(* sphere check in their order; after k of them the seen blocks and the    *)
(* stamped ones are those of the first k.                                  *)
Stamps == INSTANCE Folding WITH step <- Stamp

Shown(reports, k) == {r.block : r \in {x \in {reports[i] : i \in 1 .. k} : x.info}}
Blocks(reports) == {"field"} \cup {r.block : r \in ToSet(reports)}

StampedOf(reports, k) ==
    {acc \in [seen : {{"field", "none"} \cup Shown(reports, k)}, out : Seq(Blocks(reports))] :
       /\ IsInjective(acc.out) /\ acc.out # << >>
       /\ ToSet(acc.out) = {"field"} \cup (Shown(reports, k) \ (TiedBlocks \cup {"none"}))}

(* One more block at the end. *)
LEMMA AppendNew ==
    ASSUME NEW S, NEW seq \in Seq(S), NEW e \in S, e \notin ToSet(seq), IsInjective(seq)
    PROVE  /\ IsInjective(Append(seq, e))
           /\ ToSet(Append(seq, e)) = ToSet(seq) \cup {e}
<1> DEFINE longer == Append(seq, e)
           m == Len(seq)
<1>1. /\ m \in Nat /\ DOMAIN seq = 1 .. m /\ DOMAIN longer = 1 .. (m + 1)
      /\ \A i \in 1 .. m : longer[i] = seq[i]
      /\ longer[m + 1] = e
      OBVIOUS
<1> HIDE DEF longer, m
<1>2. \A i \in 1 .. (m + 1) : i \in 1 .. m \/ i = m + 1
      BY <1>1
<1>3. \A i \in 1 .. m : seq[i] # e /\ i \in 1 .. (m + 1)
      BY <1>1 DEF ToSet
<1>4. IsInjective(longer)
      BY <1>1, <1>2, <1>3 DEF IsInjective
<1>5. m + 1 \in 1 .. (m + 1)
      BY <1>1
<1>6. ToSet(longer) = ToSet(seq) \cup {e}
      BY <1>1, <1>2, <1>3, <1>5 DEF ToSet
<1> QED BY <1>4, <1>6 DEF longer

LEMMA StampKeeps ==
    ASSUME NEW reports \in BlockReports, NEW k \in 1 .. Len(reports),
           NEW acc \in StampedOf(reports, k - 1)
    PROVE  Stamp(acc, reports[k]) \in StampedOf(reports, k)
<1> DEFINE r == reports[k]
           B == Blocks(reports)
<1>1. reports \in Seq(ToSet(reports)) /\ Len(reports) \in Nat
      BY CylinderAssumption
<1>2. r \in ToSet(reports) /\ r.info \in BOOLEAN /\ r.block \in B
  <2>1. r \in ToSet(reports)
        BY <1>1 DEF ToSet
  <2> QED BY <2>1, CylinderAssumption DEF Blocks
<1>3. Shown(reports, k) = Shown(reports, k - 1) \cup (IF r.info THEN {r.block} ELSE {})
  <2>1. \A i : i \in 1 .. k <=> i \in 1 .. (k - 1) \/ i = k
        BY <1>1
  <2> QED BY <2>1 DEF Shown
<1>4. /\ acc.seen = {"field", "none"} \cup Shown(reports, k - 1)
      /\ acc.out \in Seq(B) /\ IsInjective(acc.out) /\ acc.out # << >>
      /\ ToSet(acc.out) = {"field"} \cup (Shown(reports, k - 1) \ (TiedBlocks \cup {"none"}))
      /\ acc = [seen |-> acc.seen, out |-> acc.out]
      BY DEF StampedOf
<1> HIDE DEF r, B
<1>5. CASE r.block \in acc.seen \/ ~r.info
  <2>1. Stamp(acc, r) = acc
        BY <1>5 DEF Stamp
  <2>2. /\ {"field", "none"} \cup Shown(reports, k) = acc.seen
        /\ {"field"} \cup (Shown(reports, k) \ (TiedBlocks \cup {"none"})) = ToSet(acc.out)
        BY <1>2, <1>3, <1>4, <1>5
  <2>3. acc \in StampedOf(reports, k)
        BY <1>4, <2>2 DEF StampedOf, B
  <2> QED BY <2>1, <2>3 DEF r
<1>6. CASE ~(r.block \in acc.seen \/ ~r.info)
  <2> DEFINE after == Stamp(acc, r)
  <2>1. after = [seen |-> acc.seen \cup {r.block},
                 out |-> IF r.block \in TiedBlocks THEN acc.out ELSE Append(acc.out, r.block)]
        BY <1>6 DEF Stamp
  <2>2. after.seen = {"field", "none"} \cup Shown(reports, k)
        BY <1>3, <1>4, <1>6, <2>1
  <2>3. /\ after.out \in Seq(B) /\ IsInjective(after.out) /\ after.out # << >>
        /\ ToSet(after.out) = {"field"} \cup (Shown(reports, k) \ (TiedBlocks \cup {"none"}))
    <3>1. CASE r.block \in TiedBlocks
          BY <1>3, <1>4, <1>6, <2>1, <3>1
    <3>2. CASE r.block \notin TiedBlocks
      <4>1. after.out = Append(acc.out, r.block) /\ r.block \notin ToSet(acc.out)
            BY <1>4, <1>6, <2>1, <3>2
      <4>2. IsInjective(after.out) /\ ToSet(after.out) = ToSet(acc.out) \cup {r.block}
        <5> HIDE DEF after
        <5> QED BY <1>2, <1>4, <4>1, AppendNew
      <4>3. after.out \in Seq(B) /\ after.out # << >>
        <5> HIDE DEF after
        <5> QED BY <1>2, <1>4, <4>1, AppendProperties
      <4> HIDE DEF after
      <4> QED BY <1>3, <1>4, <1>6, <3>2, <4>2, <4>3
    <3> QED BY <3>1, <3>2
  <2>4. after = [seen |-> after.seen, out |-> after.out]
        BY <2>1
  <2> HIDE DEF after
  <2>5. after \in StampedOf(reports, k)
        BY <2>2, <2>3, <2>4 DEF StampedOf, B
  <2> QED BY <2>5 DEF r, after
<1> QED BY <1>5, <1>6

(* The whole paint pass over one list of reports. *)
LEMMA StampedReports ==
    ASSUME NEW reports \in BlockReports, NEW b, ~Submerged(b)
    PROVE  /\ IsInjective(StampedBlocks(b, reports))
           /\ ToSet(StampedBlocks(b, reports)) = {"field"} \cup Paintable(reports)
<1> DEFINE n == Len(reports)
           good == [k \in 0 .. n |-> StampedOf(reports, k)]
           base == [seen |-> {"field", "none"}, out |-> <<"field">>]
<1>1. reports \in Seq(ToSet(reports)) /\ n \in Nat /\ DOMAIN reports = 1 .. n
      BY CylinderAssumption
<1>2. base \in StampedOf(reports, 0)
  <2>1. Shown(reports, 0) = {}
        BY DEF Shown
  <2>2. <<"field">> \in Seq(Blocks(reports)) /\ IsInjective(<<"field">>)
        /\ ToSet(<<"field">>) = {"field"} /\ <<"field">> # << >>
        BY DEF Blocks, IsInjective, ToSet
  <2> QED BY <2>1, <2>2 DEF StampedOf
<1>3. \A k \in 0 .. n : good[k] = StampedOf(reports, k)
      OBVIOUS
<1> HIDE DEF good, base
<1>4. base \in good[0]
      BY <1>1, <1>2, <1>3
<1>5. ASSUME NEW k \in 1 .. n, NEW acc \in good[k - 1]
      PROVE  Stamp(acc, reports[k]) \in good[k]
  <2>1. k - 1 \in 0 .. n /\ k \in 0 .. n
        BY <1>1
  <2> QED BY <1>3, <1>5, <2>1, StampKeeps
<1>6. Stamps!Folded(base, reports) \in good[n]
      BY <1>1, <1>4, <1>5, Stamps!FoldKeeps
<1>7. Stamps!Folded(base, reports) = FoldLeft(Stamp, base, reports)
      BY DEF Stamps!Folded, Stamps!FoldLeft, FoldLeft, Stamps!MapThenFoldSet,
             MapThenFoldSet, Stamps!Max, Max
<1>8. FoldLeft(Stamp, base, reports) \in StampedOf(reports, n)
      BY <1>1, <1>3, <1>6, <1>7
<1>9. StampedBlocks(b, reports) = FoldLeft(Stamp, base, reports).out
      BY DEF StampedBlocks, base
<1>10. Shown(reports, n) \ (TiedBlocks \cup {"none"}) = Paintable(reports)
      BY <1>1 DEF Shown, Paintable, ToSet
<1> DEFINE folded == FoldLeft(Stamp, base, reports)
<1>11. folded \in StampedOf(reports, n) /\ StampedBlocks(b, reports) = folded.out
      BY <1>8, <1>9
<1> HIDE DEF folded
<1> QED BY <1>10, <1>11 DEF StampedOf

LEMMA BurstStamps ==
    ASSUME NEW b \in Bursts, NEW reports \in BlockReports,
           paint' = BurstPaint(b, reports)
    PROVE  EachBlockOnce'
<1> DEFINE blocks == StampedBlocks(b, reports)
<1>1. /\ paint'.src = b /\ paint'.blocks = blocks /\ paint'.reports = reports
      /\ paint'.bottom = Bottom(b) /\ paint'.wet = seaUp
      BY DEF BurstPaint, paintDrawCommandMgrRequestPaintHook
<1>2. CASE Submerged(b)
  <2>1. blocks = << >>
        BY <1>2 DEF StampedBlocks
  <2>2. IsInjective(blocks)
        BY <2>1 DEF IsInjective
  <2> HIDE DEF blocks
  <2> QED BY <1>1, <2>1, <2>2 DEF EachBlockOnce
<1>3. CASE ~Submerged(b)
  <2>1. IsInjective(blocks) /\ ToSet(blocks) = {"field"} \cup Paintable(reports)
        BY <1>3, StampedReports
  <2>2. seaUp => WaterRel[b] <= Bottom(b) /\ Bottom(b) < HalfHeight
    <3>1. WaterRel[b] \in Int /\ HalfHeight \in Nat \ {0}
          BY CylinderAssumption
    <3> QED BY <1>3, <3>1 DEF Submerged, Bottom
  <2> HIDE DEF blocks
  <2> QED BY <1>1, <2>1, <2>2 DEF EachBlockOnce
<1> QED BY <1>2, <1>3

LEMMA BlocksStep ==
    ASSUME EachBlockOnce, [Next]_vars
    PROVE  EachBlockOnce'
<1>1. ASSUME UNCHANGED paint PROVE EachBlockOnce'
      BY <1>1 DEF EachBlockOnce
<1>2. ASSUME paint'.src \notin Bursts PROVE EachBlockOnce'
      BY <1>2 DEF EachBlockOnce
<1>3. ASSUME NEW b \in Bursts, FirstCalc(b) PROVE EachBlockOnce'
  <2>1. CASE PaintsAt(bullet[b])
    <3>1. PICK reports \in BlockReports : paint' = BurstPaint(b, reports)
          BY <1>3, <2>1 DEF FirstCalc, PaintPass
    <3> QED BY <3>1, BurstStamps
  <2>2. CASE ~PaintsAt(bullet[b])
        BY <1>1, <1>3, <2>2 DEF FirstCalc
  <2> QED BY <2>1, <2>2
<1>4. CASE FirstPassDone
      BY <1>2, <1>4, Sources DEF FirstPassDone
<1>5. CASE OtherPaint
  <2>1. CASE StagePaints
        BY <1>2, <2>1, Sources DEF StagePaints, paintDrawCommandMgrRequestPaintHook, NoPaint
  <2>2. ASSUME NEW b \in Bursts, ShotPaints(SenderOf[b]) PROVE EachBlockOnce'
        BY <1>2, <2>2, Sources DEF ShotPaints, requestPaintImplHook, NoPaint
  <2> QED BY <1>5, <2>1, <2>2 DEF OtherPaint
<1>6. ASSUME NEW b \in Bursts, SecondCalc(b) \/ Prepare(b) \/ Launch(b) PROVE EachBlockOnce'
      BY <1>1, <1>6 DEF SecondCalc, Prepare, Launch, Request
<1>7. CASE NextFrame \/ Cleanup \/ SurfaceDown \/ UNCHANGED vars
      BY <1>1, <1>7 DEF NextFrame, Cleanup, SurfaceDown, vars
<1>8. ASSUME NEW o \in Objects, StageStep(o) PROVE EachBlockOnce'
      BY <1>1, <1>8 DEF StageStep
<1> QED BY <1>3, <1>4, <1>5, <1>6, <1>7, <1>8 DEF Next

(* calcBurstFollow stamps every block the sphere check reports with paint  *)
(* info exactly once, the field first, in whatever order and however often *)
(* the check reports it, and keeps above the water.                        *)
THEOREM BlocksStampedOnce == Spec => []EachBlockOnce
<1>1. Init => EachBlockOnce
      BY Sources DEF Init, EachBlockOnce
<1> QED BY <1>1, BlocksStep, PTL DEF Spec

-----------------------------------------------------------------------------
(* What stands on the stage. *)
StageInv ==
    /\ grabbed \in [Bursts -> BOOLEAN]
    /\ dist \in [Objects -> [Bursts -> Nat]]
    /\ team \in [Objects -> Teams]
    /\ ready \in [Objects -> BOOLEAN]
    /\ hp \in [Objects -> 0 .. FullHp]
    /\ table \in [Objects -> [Slot -> [dmg : Int, hold : Hold]]]
    /\ seaUp \in BOOLEAN
    /\ harm \in [Bursts -> [Objects -> Nat]]
    /\ grabs \in [Bursts -> Nat]

(* The damage of a burst never falls to zero, which marks a free slot.     *)
LEMMA DamageHurts ==
    ASSUME NEW frm \in BurstFrames, frm < BurstDuration
    PROVE  Damage(frm) \in Nat \ {0}
<1> DEFINE D == BurstDuration
           x == DmgStart - DmgEnd
           y == D - frm
           n == DmgStart * D - x * frm
<1>1. D \in Nat /\ D > 0 /\ x \in Nat /\ y \in Nat /\ frm \in Nat
      /\ DmgEnd \in Nat /\ DmgEnd >= 1 /\ DmgStart \in Nat
      BY CylinderAssumption, Frames DEF BurstFrames
<1>2. n = x * y + DmgEnd * D
      BY <1>1
<1>3. x * y \in Nat
      BY <1>1
<1>4. DmgEnd * D >= D /\ DmgEnd * D \in Nat
      BY <1>1
<1> HIDE DEF x, y
<1>5. n \in Nat /\ n >= D
      BY <1>1, <1>2, <1>3, <1>4
<1> HIDE DEF n
<1>6. n \div D \in Nat \ {0}
  <2> HIDE DEF D
  <2>1. n \div D \in Int /\ n % D \in 0 .. D - 1 /\ n = (D * (n \div D)) + (n % D)
        BY <1>1, <1>5
  <2> QED BY <1>1, <1>5, <2>1
<1> QED BY <1>6 DEF Damage, n, x

LEMMA HitDamage ==
    ASSUME LifeInv, NEW b \in Cylinders
    PROVE  /\ b \in Bursts
           /\ Damage(bullet[b].burstFrm) \in Nat \ {0}
           /\ \A o : BubbleDamage(b, o) \in Int \ {0}
<1>1. b \in Bursts /\ bullet[b] \in Bullet /\ bullet[b].burstFrm < BurstDuration
      BY DEF LifeInv, LifeOf, Cylinders
<1>2. bullet[b].burstFrm \in BurstFrames
      BY <1>1 DEF Bullet
<1>3. Damage(bullet[b].burstFrm) \in Nat \ {0}
      BY <1>1, <1>2, DamageHurts
<1> QED BY <1>1, <1>3 DEF BubbleDamage

LEMMA StageSecondCalc ==
    ASSUME LifeInv, StageInv, NEW b \in Bursts, SecondCalc(b)
    PROVE  StageInv'
<1>1. b \in Cylinders
      BY DEF SecondCalc
<1> DEFINE dmg == Damage(bullet[b].burstFrm)
<1>2. dmg \in Nat
      BY <1>1, HitDamage
<1>3. harm' \in [Bursts -> [Objects -> Nat]]
  <2> DEFINE h == [o \in Objects |-> IF Hits(b, o) THEN harm[b][o] + 1 ELSE harm[b][o]]
  <2>1. harm[b] \in [Objects -> Nat]
        BY DEF StageInv
  <2>2. h \in [Objects -> Nat]
        BY <2>1
  <2>3. harm' = [harm EXCEPT ![b] = h]
        BY DEF SecondCalc
  <2> HIDE DEF h
  <2> QED BY <2>2, <2>3 DEF StageInv
<1>4. hp' \in [Objects -> 0 .. FullHp]
  <2>1. \A o \in Objects : SubHP(hp[o], dmg) \in 0 .. FullHp
        BY <1>2, CylinderAssumption DEF SubHP, StageInv
  <2> HIDE DEF dmg
  <2>2. hp' = [o \in Objects |-> IF KindOf[o] = "gear" /\ Hits(b, o)
                                 THEN SubHP(hp[o], dmg) ELSE hp[o]]
        BY DEF SecondCalc, dmg
  <2> QED BY <2>1, <2>2 DEF StageInv
<1>5. team' \in [Objects -> Teams] /\ ready' \in [Objects -> BOOLEAN]
      BY CylinderAssumption DEF SecondCalc, StageInv
<1>6. table' \in [Objects -> [Slot -> [dmg : Int, hold : Hold]]]
  <2>1. \A o \in Objects :
          Reserve(o, BubbleDamage(b, o)) \in [Slot -> [dmg : Int, hold : Hold]]
    <3> SUFFICES ASSUME NEW o \in Objects
                 PROVE  Reserve(o, BubbleDamage(b, o)) \in [Slot -> [dmg : Int, hold : Hold]]
        OBVIOUS
    <3>1. BubbleDamage(b, o) \in Int /\ HoldFrames \in Hold
          BY <1>1, HitDamage, CylinderAssumption DEF Hold
    <3>2. table[o] \in [Slot -> [dmg : Int, hold : Hold]]
          BY DEF StageInv
    <3> QED BY <3>1, <3>2 DEF Reserve
  <2> QED BY <2>1 DEF SecondCalc, StageInv
<1>7. grabbed' \in [Bursts -> BOOLEAN] /\ grabs' \in [Bursts -> Nat]
  <2>1. CASE UNCHANGED <<grabbed, grabs>>
        BY <2>1 DEF StageInv
  <2>2. CASE /\ grabbed' = [grabbed EXCEPT ![b] = TRUE]
             /\ grabs' = [grabs EXCEPT ![b] = @ + 1]
        BY <2>2 DEF StageInv
  <2> QED BY <2>1, <2>2 DEF SecondCalc, Pull
<1>8. UNCHANGED <<dist, seaUp>>
      BY DEF SecondCalc, StageInv
<1> QED BY <1>3, <1>4, <1>5, <1>6, <1>7, <1>8 DEF StageInv

LEMMA StageNextFrame ==
    ASSUME StageInv, NextFrame
    PROVE  StageInv'
<1>1. EmptySlot \in [dmg : Int, hold : Hold]
      BY CylinderAssumption DEF EmptySlot, Hold
<1>2. \A s \in [dmg : Int, hold : Hold] : Drain(s) \in [dmg : Int, hold : Hold]
      BY <1>1, CylinderAssumption DEF Drain, Hold
<1>3. \A o \in Objects : \A i \in Slot : table[o][i] \in [dmg : Int, hold : Hold]
      BY DEF StageInv
<1>4. table' \in [Objects -> [Slot -> [dmg : Int, hold : Hold]]]
      BY <1>2, <1>3 DEF NextFrame
<1>5. grabbed' \in [Bursts -> BOOLEAN] /\ grabs' \in [Bursts -> Nat]
      BY DEF NextFrame, StageInv
<1>6. harm' \in [Bursts -> [Objects -> Nat]]
      BY DEF NextFrame, StageInv, NoHarm
<1>7. UNCHANGED <<dist, team, ready, hp, seaUp>>
      BY DEF NextFrame
<1> QED BY <1>4, <1>5, <1>6, <1>7 DEF StageInv

LEMMA StageMoves ==
    ASSUME StageInv, NEW o \in Objects, StageStep(o)
    PROVE  StageInv' /\ UNCHANGED team
           /\ \A p \in Objects \ Movers : dist'[p] = dist[p]
<1>1. dist' \in [Objects -> [Bursts -> Nat]]
      /\ \A p \in Objects \ Movers : dist'[p] = dist[p]
  <2>1. CASE UNCHANGED dist
        BY <2>1 DEF StageInv
  <2>2. CASE o \in Movers /\ dist' \in {[dist EXCEPT ![o] = d[o]] : d \in FirstDists}
    <3>1. PICK d \in FirstDists : dist' = [dist EXCEPT ![o] = d[o]]
          BY <2>2
    <3>2. d[o] \in [Bursts -> Nat]
          BY CylinderAssumption
    <3> QED BY <2>2, <3>1, <3>2 DEF StageInv
  <2> QED BY <2>1, <2>2 DEF StageStep
<1>2. ready' \in [Objects -> BOOLEAN]
      BY DEF StageStep, StageInv
<1>3. hp' \in [Objects -> 0 .. FullHp]
  <2>1. FullHp \in 0 .. FullHp
        BY CylinderAssumption
  <2>2. (hp' = hp) \/ hp' = [hp EXCEPT ![o] = FullHp]
        BY DEF StageStep
  <2> QED BY <2>1, <2>2 DEF StageInv
<1>4. UNCHANGED <<grabbed, team, table, seaUp, harm, grabs>>
      BY DEF StageStep
<1> QED BY <1>1, <1>2, <1>3, <1>4 DEF StageInv

(* What the bursts do to the stage keeps its types: hit points stay between *)
(* zero and full, and a slot is never counted below zero.                  *)
THEOREM StageInvariance == Spec => []StageInv
<1>1. Init => StageInv
  <2>1. EmptySlot \in [dmg : Int, hold : Hold]
        BY CylinderAssumption DEF EmptySlot, Hold
  <2> SUFFICES ASSUME Init PROVE StageInv
      OBVIOUS
  <2>2. FullHp \in 0 .. FullHp
        BY CylinderAssumption
  <2>3. dist \in [Objects -> [Bursts -> Nat]] /\ team \in [Objects -> Teams]
        BY CylinderAssumption DEF Init
  <2>4. /\ ready \in [Objects -> BOOLEAN] /\ hp \in [Objects -> 0 .. FullHp]
        /\ table \in [Objects -> [Slot -> [dmg : Int, hold : Hold]]]
        BY <2>1, <2>2 DEF Init
  <2>5. /\ grabbed \in [Bursts -> BOOLEAN] /\ grabs \in [Bursts -> Nat]
        /\ harm \in [Bursts -> [Objects -> Nat]]
        BY DEF Init, NoHarm
  <2>6. seaUp \in BOOLEAN
        BY DEF Init
  <2> QED BY <2>3, <2>4, <2>5, <2>6 DEF StageInv
<1>2. LifeInv /\ StageInv /\ [Next]_vars => StageInv'
  <2> SUFFICES ASSUME LifeInv, StageInv, [Next]_vars PROVE StageInv'
      OBVIOUS
  <2>1. ASSUME NEW b \in Bursts, FirstCalc(b) PROVE StageInv'
    <3>1. grabbed' \in [Bursts -> BOOLEAN]
      <4>1. PICK x \in BOOLEAN : grabbed' = [grabbed EXCEPT ![b] = @ /\ x]
            BY <2>1 DEF FirstCalc
      <4> QED BY <4>1 DEF StageInv
    <3>2. UNCHANGED <<dist, team, ready, hp, table, seaUp, harm, grabs>>
          BY <2>1 DEF FirstCalc
    <3> QED BY <3>1, <3>2 DEF StageInv
  <2>2. ASSUME NEW b \in Bursts, SecondCalc(b) PROVE StageInv'
        BY <2>2, StageSecondCalc
  <2>3. ASSUME NEW b \in Bursts, Prepare(b) \/ Launch(b) PROVE StageInv'
        BY <2>3 DEF Prepare, Launch, Request, StageInv
  <2>4. CASE FirstPassDone
        BY <2>4 DEF FirstPassDone, StageInv
  <2>5. CASE NextFrame
        BY <2>5, StageNextFrame
  <2>6. CASE Cleanup
        BY <2>6 DEF Cleanup, StageInv
  <2>7. CASE SurfaceDown \/ OtherPaint \/ UNCHANGED vars
        BY <2>7 DEF SurfaceDown, OtherPaint, vars, StageInv
  <2>8. ASSUME NEW o \in Objects, StageStep(o) PROVE StageInv'
        BY <2>8, StageMoves
  <2> QED BY <2>1, <2>2, <2>3, <2>4, <2>5, <2>6, <2>7, <2>8 DEF Next
<1> QED BY <1>1, <1>2, LifeInvariance, PTL DEF Spec

-----------------------------------------------------------------------------
(* The clock of a burst.  The frames whose radius has reached distance d.  *)
Reached(d, last) == {f \in 0 .. last : Reaches(f, d)}

LEMMA ReachedNext ==
    ASSUME NEW d, NEW k \in Int, k >= -1
    PROVE  Cardinality(Reached(d, k + 1)) =
             IF Reaches(k + 1, d) THEN Cardinality(Reached(d, k)) + 1
                                  ELSE Cardinality(Reached(d, k))
<1>1. IsFiniteSet(Reached(d, k))
  <2>1. IsFiniteSet(0 .. k)
        BY FS_Interval
  <2> QED BY <2>1, FS_Subset DEF Reached
<1>2. k + 1 \notin Reached(d, k)
      BY DEF Reached
<1>3. CASE Reaches(k + 1, d)
  <2>1. Reached(d, k + 1) = Reached(d, k) \cup {k + 1}
        BY <1>3 DEF Reached
  <2> QED BY <1>1, <1>2, <1>3, <2>1, FS_AddElement
<1>4. CASE ~Reaches(k + 1, d)
  <2>1. Reached(d, k + 1) = Reached(d, k)
        BY <1>4 DEF Reached
  <2> QED BY <1>4, <2>1
<1> QED BY <1>3, <1>4

LEMMA ReachedNone ==
    ASSUME NEW d
    PROVE  Cardinality(Reached(d, -1)) = 0
<1>1. Reached(d, -1) = {}
      BY DEF Reached
<1> QED BY <1>1, FS_EmptySet

(* The histories of one burst. *)
HitClock(b) ==
    \A o \in Objects :
      /\ harm[b][o] <= LastDamageFrame(b) + 1
      /\ Steady(o) /\ ~Spared(b, o) =>
           harm[b][o] = Cardinality(Reached(dist[o][b], LastDamageFrame(b)))

HooksInReach(b) ==
    \E g \in Objects \ Movers : KindOf[g] = "grappler" /\ InCylinder(b, g)

OneGrab(b) ==
    /\ grabs[b] <= 1
    /\ grabbed[b] <=> grabs[b] = 1
    /\ pass = "second" /\ b \in ran /\ HooksInReach(b) => grabs[b] = 1

History(b) ==
    /\ grabbed[b] => bullet[b].hasBurst
    /\ bullet[b].hasBurst => HitClock(b) /\ OneGrab(b)
    /\ \A o \in Objects : harm[b][o] <= BurstDuration
    /\ pass = "first" /\ b \notin ran /\ ~bullet[b].hasBurst =>
         grabs[b] = 0 /\ harm[b] = NoHarm

HistInv == \A b \in Bursts : History(b)

LEMMA Ticks ==
    ASSUME LifeInv, NEW b \in Bursts, bullet[b].hasBurst
    PROVE  /\ bullet[b].burstFrm \in Nat
           /\ bullet[b].burstFrm < BurstDuration
           /\ BurstDuration \in Nat
           /\ LastDamageFrame(b) =
                IF pass = "second" THEN IF b \in ran THEN bullet[b].burstFrm
                                                     ELSE bullet[b].burstFrm - 1
                ELSE IF b \in ran THEN bullet[b].burstFrm - 1
                                  ELSE bullet[b].burstFrm
<1>1. bullet[b] \in Bullet /\ bullet[b].burstFrm < BurstDuration
      BY DEF LifeInv, LifeOf
<1>2. bullet[b].burstFrm \in Nat
      BY <1>1, Frames DEF Bullet, BurstFrames
<1>3. (pass = "second") \in BOOLEAN /\ (b \in ran) \in BOOLEAN
      OBVIOUS
<1> QED BY <1>1, <1>2, <1>3, Frames DEF LastDamageFrame

(* Who is spared, and who stands still, does not change.                   *)
LEMMA Stands ==
    ASSUME StageInv, [Next]_vars
    PROVE  /\ \A o \in Objects \ Movers : dist'[o] = dist[o]
           /\ \A b \in Bursts, o \in Objects :
                KindOf[o] # "rail" => (Spared(b, o)' <=> Spared(b, o))
           /\ \A b \in Bursts, o \in Objects :
                KindOf[o] = "rail" => ~Spared(b, o) /\ ~Spared(b, o)'
<1>1. \A b \in Bursts, o \in Objects :
        KindOf[o] = "rail" => ~Spared(b, o) /\ ~Spared(b, o)'
      BY DEF Spared, SparesFriend, FriendSparing
<1>2. ASSUME UNCHANGED <<dist, team>> PROVE
        /\ \A o \in Objects \ Movers : dist'[o] = dist[o]
        /\ \A b \in Bursts, o \in Objects : Spared(b, o)' <=> Spared(b, o)
      BY <1>2 DEF Spared, SparesFriend
<1>3. ASSUME NEW e \in Bursts, SecondCalc(e) PROVE
        /\ \A o \in Objects \ Movers : dist'[o] = dist[o]
        /\ \A b \in Bursts, o \in Objects :
             KindOf[o] # "rail" => (Spared(b, o)' <=> Spared(b, o))
  <2>1. dist' = dist
        BY <1>3 DEF SecondCalc
  <2>2. \A o \in Objects : KindOf[o] # "rail" => team'[o] = team[o]
        BY <1>3 DEF SecondCalc, RailsEmitted
  <2> QED BY <2>1, <2>2 DEF Spared, SparesFriend
<1>4. ASSUME NEW o \in Objects, StageStep(o) PROVE
        /\ \A p \in Objects \ Movers : dist'[p] = dist[p]
        /\ \A b \in Bursts, p \in Objects : Spared(b, p)' <=> Spared(b, p)
      BY <1>4, StageMoves DEF Spared, SparesFriend
<1>5. CASE UNCHANGED <<dist, team>>
      BY <1>1, <1>2, <1>5
<1>6. ASSUME NEW b \in Bursts, FirstCalc(b) \/ Prepare(b) \/ Launch(b)
      PROVE UNCHANGED <<dist, team>>
      BY <1>6 DEF FirstCalc, Prepare, Launch, Request
<1>7. CASE FirstPassDone \/ NextFrame \/ Cleanup \/ SurfaceDown \/ OtherPaint
           \/ UNCHANGED vars
  <2>1. UNCHANGED <<dist, team>>
        BY <1>7 DEF FirstPassDone, NextFrame, Cleanup, SurfaceDown, OtherPaint, vars
  <2> QED BY <1>5, <2>1
<1> QED BY <1>1, <1>3, <1>4, <1>5, <1>6, <1>7 DEF Next

(* A burst that keeps its clock keeps its histories. *)
LEMMA GoesOn ==
    ASSUME StageInv, [Next]_vars, NEW b \in Bursts, History(b),
           bullet[b].hasBurst, bullet'[b].hasBurst,
           LastDamageFrame(b)' = LastDamageFrame(b),
           grabbed'[b] <=> grabbed[b], grabs'[b] = grabs[b], harm'[b] = harm[b],
           pass' = "second" /\ b \in ran' =>
             pass = "second" /\ b \in ran /\ bullet'[b].burstFrm = bullet[b].burstFrm
    PROVE  History(b)'
<1>1. HitClock(b)'
  <2> SUFFICES ASSUME NEW o \in Objects
               PROVE  /\ harm'[b][o] <= LastDamageFrame(b)' + 1
                      /\ Steady(o) /\ ~Spared(b, o)' =>
                           harm'[b][o] = Cardinality(Reached(dist'[o][b], LastDamageFrame(b)'))
      BY DEF HitClock
  <2>1. harm[b][o] <= LastDamageFrame(b) + 1
        /\ (Steady(o) /\ ~Spared(b, o) =>
              harm[b][o] = Cardinality(Reached(dist[o][b], LastDamageFrame(b))))
        BY DEF History, HitClock
  <2>2. Steady(o) => dist'[o] = dist[o] /\ (Spared(b, o)' <=> Spared(b, o))
        BY Stands DEF Steady
  <2> QED BY <2>1, <2>2
<1>2. OneGrab(b)'
  <2>1. CASE pass' = "second" /\ b \in ran'
    <3>1. HooksInReach(b)' => HooksInReach(b)
          BY <2>1, Stands DEF HooksInReach, InCylinder
    <3> QED BY <2>1, <3>1 DEF History, OneGrab
  <2>2. CASE ~(pass' = "second" /\ b \in ran')
        BY <2>2 DEF History, OneGrab
  <2> QED BY <2>1, <2>2
<1> QED BY <1>1, <1>2 DEF History

LEMMA Idle ==
    ASSUME NEW b \in Bursts, ~bullet'[b].hasBurst, ~grabbed'[b],
           \A o \in Objects : harm'[b][o] <= BurstDuration,
           pass' = "first" /\ b \notin ran' => grabs'[b] = 0 /\ harm'[b] = NoHarm
    PROVE  History(b)'
  BY DEF History

(* A burst that took no part in a step and keeps its place in the pass.    *)
LEMMA StandsBy ==
    ASSUME LifeInv, StageInv, [Next]_vars, NEW b \in Bursts, History(b),
           bullet'[b] = bullet[b], pass' = pass, b \in ran' <=> b \in ran,
           grabbed'[b] <=> grabbed[b], grabs'[b] = grabs[b], harm'[b] = harm[b]
    PROVE  History(b)'
<1>1. CASE bullet[b].hasBurst
  <2>1. LastDamageFrame(b)' = LastDamageFrame(b)
    <3>1. (b \in ran') = (b \in ran)
          OBVIOUS
    <3> QED BY <3>1 DEF LastDamageFrame
  <2> QED BY <1>1, <2>1, GoesOn
<1>2. CASE ~bullet[b].hasBurst
      BY <1>2, Idle DEF History
<1> QED BY <1>1, <1>2

LEMMA HistFirstCalc ==
    ASSUME LifeInv, LifeInv', StageInv, HistInv, NEW b \in Bursts, FirstCalc(b)
    PROVE  HistInv'
<1> DEFINE c == bullet[b]
           d == vtFirstCalc(c)
           ends == c.sm = "Burst" /\ d.resv = "sleep"
<1>1. /\ pass = "first" /\ pass' = "first" /\ b \notin ran /\ ran' = ran \cup {b}
      /\ c.awake /\ c.sm \in {"Pronounce", "Burst"}
      /\ bullet' = [bullet EXCEPT ![b] = d]
      /\ grabbed' = [grabbed EXCEPT ![b] = @ /\ ~ends]
      /\ UNCHANGED <<harm, grabs>>
      BY DEF FirstCalc
<1>2. c \in Bullet /\ LifeOf(c, FALSE) /\ History(b)
      BY <1>1, LifeAwake DEF Turned, HistInv
<1>3. bullet'[b] = d /\ (grabbed'[b] <=> grabbed[b] /\ ~ends)
      BY <1>1 DEF LifeInv, StageInv
<1>n. [Next]_vars
      BY DEF Next
<1>4. History(b)'
  <2> HIDE DEF c
  <2>1. CASE c.sm = "Pronounce"
    <3>1. ~c.hasBurst /\ (d.hasBurst => d.burstFrm = 0)
          BY <1>1, <1>2, <2>1, Turns
    <3>2. ~grabbed[b] /\ grabs[b] = 0 /\ harm[b] = NoHarm
          BY <1>1, <1>2, <3>1 DEF History, c
    <3>3. CASE ~d.hasBurst
      <4>1. \A o \in Objects : harm'[b][o] <= BurstDuration
            BY <1>1, <1>2 DEF History
      <4> QED BY <1>1, <1>3, <3>2, <3>3, <4>1, Idle
    <3>4. CASE d.hasBurst
      <4>1. LastDamageFrame(b)' = -1
        <5>1. bullet'[b].burstFrm = 0
              BY <1>3, <3>1, <3>4
        <5>2. (pass' = "second") = FALSE /\ (b \in ran') = TRUE
              BY <1>1
        <5> QED BY <5>1, <5>2 DEF LastDamageFrame
      <4>2. HitClock(b)'
        <5>1. \A o \in Objects : harm'[b][o] = 0
              BY <1>1, <3>2 DEF NoHarm
        <5> QED BY <4>1, <5>1, ReachedNone DEF HitClock
      <4>3. OneGrab(b)'
            BY <1>1, <1>3, <3>2 DEF OneGrab
      <4>4. \A o \in Objects : harm'[b][o] <= BurstDuration
            BY <1>1, <1>2 DEF History
      <4> QED BY <1>1, <1>3, <3>2, <3>4, <4>2, <4>3, <4>4 DEF History
    <3> QED BY <3>3, <3>4
  <2>2. CASE c.sm = "Burst"
    <3>1. c.hasBurst /\ (d.hasBurst => d.burstFrm = c.burstFrm + 1)
          /\ (~d.hasBurst <=> d.resv = "sleep")
          BY <1>1, <1>2, <2>2, Turns
    <3> HIDE DEF d
    <3>2. CASE d.hasBurst
      <4>1. bullet[b].hasBurst /\ bullet'[b].hasBurst
            /\ bullet'[b].burstFrm = bullet[b].burstFrm + 1
            BY <1>3, <3>1, <3>2 DEF c
      <4>2. LastDamageFrame(b)' = LastDamageFrame(b)
        <5>1. bullet[b].burstFrm \in Nat /\ LastDamageFrame(b) = bullet[b].burstFrm
              BY <1>1, <4>1, Ticks
        <5>2. (pass' = "second") = FALSE /\ (b \in ran') = TRUE
              BY <1>1
        <5> QED BY <4>1, <5>1, <5>2 DEF LastDamageFrame
      <4>3. grabbed'[b] <=> grabbed[b]
            BY <1>3, <3>1, <3>2
      <4> QED BY <1>1, <1>2, <1>n, <4>1, <4>2, <4>3, GoesOn
    <3>3. CASE ~d.hasBurst
      <4>1. \A o \in Objects : harm'[b][o] <= BurstDuration
            BY <1>1, <1>2 DEF History
      <4> QED BY <1>1, <1>3, <2>2, <3>1, <3>3, <4>1, Idle
    <3> QED BY <3>2, <3>3
  <2> QED BY <1>1, <2>1, <2>2 DEF c
<1>5. ASSUME NEW e \in Bursts, e # b PROVE History(e)'
  <2>1. bullet'[e] = bullet[e] /\ (grabbed'[e] <=> grabbed[e])
        BY <1>1, <1>5 DEF LifeInv, StageInv
  <2> QED BY <1>1, <1>n, <1>5, <2>1, StandsBy DEF HistInv
<1> QED BY <1>4, <1>5 DEF HistInv

LEMMA HistSecondCalc ==
    ASSUME LifeInv, StageInv, HistInv, NEW b \in Bursts, SecondCalc(b)
    PROVE  HistInv'
<1> DEFINE k == bullet[b].burstFrm
<1>1. /\ pass = "second" /\ pass' = "second" /\ b \notin ran /\ ran' = ran \cup {b}
      /\ bullet[b].hasBurst /\ bullet' = bullet /\ dist' = dist
      BY DEF SecondCalc, Cylinders
<1>2. harm' = [harm EXCEPT ![b] =
                 [o \in Objects |-> IF Hits(b, o) THEN @[o] + 1 ELSE @[o]]]
      BY DEF SecondCalc
<1>3. HitClock(b) /\ OneGrab(b)
      BY <1>1 DEF HistInv, History
<1>4. k \in Nat /\ k < BurstDuration /\ BurstDuration \in Nat
      /\ LastDamageFrame(b) = k - 1
      BY <1>1, Ticks
<1>5. LastDamageFrame(b)' = k
  <2>1. (pass' = "second") = TRUE /\ (b \in ran') = TRUE
        BY <1>1
  <2> QED BY <1>1, <2>1 DEF LastDamageFrame
<1>n. [Next]_vars
      BY DEF Next
<1>6. \A o \in Objects : harm'[b][o] = IF Hits(b, o) THEN harm[b][o] + 1 ELSE harm[b][o]
  <2>1. harm \in [Bursts -> [Objects -> Nat]]
        BY DEF StageInv
  <2> QED BY <1>2, <2>1
<1> HIDE DEF k
<1>7. HitClock(b)'
  <2> SUFFICES ASSUME NEW o \in Objects
               PROVE  /\ harm'[b][o] <= k + 1
                      /\ Steady(o) /\ ~Spared(b, o)' =>
                           harm'[b][o] = Cardinality(Reached(dist'[o][b], k))
      BY <1>5 DEF HitClock
  <2>0. harm[b][o] \in Nat
        BY DEF StageInv
  <2>1. harm[b][o] <= k
        BY <1>3, <1>4 DEF HitClock
  <2>2. harm'[b][o] <= k + 1
        BY <1>4, <1>6, <2>0, <2>1
  <2>3. ASSUME Steady(o), ~Spared(b, o)'
        PROVE  harm'[b][o] = Cardinality(Reached(dist'[o][b], k))
    <3>1. ~Spared(b, o)
          BY <1>n, <2>3, Stands
    <3>2. harm[b][o] = Cardinality(Reached(dist[o][b], k - 1))
          BY <1>3, <1>4, <2>3, <3>1 DEF HitClock
    <3>3. Hits(b, o) <=> Reaches(k, dist[o][b])
          BY <2>3, <3>1 DEF Hits, Steady, InCylinder, k
    <3>4. k - 1 \in Int /\ k - 1 >= -1 /\ (k - 1) + 1 = k
          BY <1>4
    <3>5. Cardinality(Reached(dist[o][b], k)) =
            IF Reaches(k, dist[o][b]) THEN Cardinality(Reached(dist[o][b], k - 1)) + 1
                                      ELSE Cardinality(Reached(dist[o][b], k - 1))
      <4> DEFINE j == k - 1
      <4>1. j \in Int /\ j >= -1 /\ j + 1 = k
            BY <3>4
      <4> HIDE DEF j
      <4>2. Cardinality(Reached(dist[o][b], j + 1)) =
              IF Reaches(j + 1, dist[o][b]) THEN Cardinality(Reached(dist[o][b], j)) + 1
                                            ELSE Cardinality(Reached(dist[o][b], j))
            BY <4>1, ReachedNext
      <4> QED BY <4>1, <4>2 DEF j
    <3> QED BY <1>1, <1>6, <3>2, <3>3, <3>5
  <2> QED BY <2>2, <2>3
<1>8. OneGrab(b)'
  <2>1. HooksInReach(b)' <=> HooksInReach(b)
        BY <1>1 DEF HooksInReach, InCylinder
  <2>2. CASE UNCHANGED <<grabbed, grabs>> /\ (grabbed[b] \/ ~HooksInReach(b))
        BY <1>3, <2>1, <2>2 DEF OneGrab
  <2>3. CASE /\ ~grabbed[b]
             /\ grabbed' = [grabbed EXCEPT ![b] = TRUE]
             /\ grabs' = [grabs EXCEPT ![b] = @ + 1]
    <3>1. grabs[b] \in Nat /\ grabs[b] = 0
      <4>1. grabs[b] <= 1 /\ grabs[b] # 1
            BY <1>3, <2>3 DEF OneGrab
      <4>2. grabs[b] \in Nat
            BY DEF StageInv
      <4> QED BY <4>1, <4>2
    <3>2. grabbed'[b] /\ grabs'[b] = 1
          BY <2>3, <3>1 DEF StageInv
    <3> QED BY <3>2 DEF OneGrab
  <2> QED BY <2>2, <2>3 DEF SecondCalc, Pull, HooksInReach
<1>9. History(b)'
  <2>1. \A o \in Objects : harm'[b][o] <= BurstDuration
    <3>1. \A o \in Objects : harm[b][o] <= k /\ harm[b][o] \in Nat
          BY <1>3, <1>4 DEF HitClock, StageInv
    <3> QED BY <1>4, <1>6, <3>1
  <2> QED BY <1>1, <1>7, <1>8, <2>1 DEF History
<1>10. ASSUME NEW e \in Bursts, e # b PROVE History(e)'
  <2>1. harm'[e] = harm[e]
        BY <1>2, <1>10 DEF StageInv
  <2>2. (grabbed'[e] <=> grabbed[e]) /\ grabs'[e] = grabs[e]
    <3>1. CASE UNCHANGED <<grabbed, grabs>>
          BY <3>1
    <3>2. CASE /\ grabbed' = [grabbed EXCEPT ![b] = TRUE]
               /\ grabs' = [grabs EXCEPT ![b] = @ + 1]
          BY <1>10, <3>2 DEF StageInv
    <3> QED BY <3>1, <3>2 DEF SecondCalc, Pull
  <2> QED BY <1>1, <1>n, <1>10, <2>1, <2>2, StandsBy DEF HistInv
<1> QED BY <1>9, <1>10 DEF HistInv

LEMMA HistRequest ==
    ASSUME LifeInv, StageInv, HistInv, NEW b \in Bursts, Prepare(b) \/ Launch(b)
    PROVE  HistInv'
<1>1. ~bullet[b].hasBurst /\ ~bullet'[b].hasBurst
      BY RequestLife
<1>2. UNCHANGED <<pass, ran, grabbed, grabs, harm>>
      BY DEF Prepare, Launch, Request
<1>3. \A e \in Bursts : e # b => bullet'[e] = bullet[e]
      BY DEF Prepare, Launch, Request, LifeInv
<1>4. History(b)'
      BY <1>1, <1>2, Idle DEF HistInv, History
<1>n. [Next]_vars
      BY DEF Next
<1>5. ASSUME NEW e \in Bursts, e # b PROVE History(e)'
      BY <1>n, <1>2, <1>3, <1>5, StandsBy DEF HistInv
<1> QED BY <1>4, <1>5 DEF HistInv

LEMMA HistFirstPassDone ==
    ASSUME LifeInv, StageInv, HistInv, FirstPassDone
    PROVE  HistInv'
<1>1. /\ pass = "first" /\ pass' = "second" /\ ran' = {} /\ bullet' = bullet
      /\ UNCHANGED <<grabbed, grabs, harm>>
      BY DEF FirstPassDone
<1>n. [Next]_vars
      BY DEF Next
<1>2. ASSUME NEW b \in Bursts PROVE History(b)'
  <2>1. History(b)
        BY DEF HistInv
  <2>2. CASE bullet[b].hasBurst
    <3>1. b \in ran
      <4>1. b \in Cylinders
            BY <2>2 DEF LifeInv, LifeOf, Cylinders
      <4> QED BY <4>1, FirstPassDoneLife
    <3>2. LastDamageFrame(b) = bullet[b].burstFrm - 1
          BY <1>1, <2>2, <3>1, Ticks
    <3>3. (pass' = "second") = TRUE /\ (b \in ran') = FALSE
          BY <1>1
    <3>4. LastDamageFrame(b)' = LastDamageFrame(b)
          BY <1>1, <3>2, <3>3 DEF LastDamageFrame
    <3> QED BY <1>1, <1>n, <2>1, <2>2, <3>4, GoesOn
  <2>3. CASE ~bullet[b].hasBurst
        BY <1>1, <2>1, <2>3, Idle DEF History
  <2> QED BY <2>2, <2>3
<1> QED BY <1>2 DEF HistInv

LEMMA HistNextFrame ==
    ASSUME LifeInv, StageInv, HistInv, NextFrame
    PROVE  HistInv'
<1>1. /\ pass = "second" /\ pass' = "first" /\ Cylinders \subseteq ran /\ ran' = {}
      /\ grabbed' = [b \in Bursts |-> grabbed[b] /\ bullet[b].resv # "sleep"]
      /\ harm' = [b \in Bursts |-> IF bullet[b].hasBurst THEN harm[b] ELSE NoHarm]
      /\ grabs' = [b \in Bursts |-> IF bullet[b].hasBurst THEN grabs[b] ELSE 0]
      BY DEF NextFrame, FrameOver
<1>n. [Next]_vars
      BY DEF Next
<1>2. ASSUME NEW b \in Bursts PROVE History(b)'
  <2>1. History(b)
        BY DEF HistInv
  <2>2. /\ bullet'[b].hasBurst <=> bullet[b].hasBurst
        /\ bullet[b].hasBurst => bullet'[b].burstFrm = bullet[b].burstFrm
        /\ bullet[b].resv = "sleep" => ~bullet[b].hasBurst
        BY NextFrameLife
  <2>3. grabbed'[b] <=> grabbed[b] /\ bullet[b].resv # "sleep"
        BY <1>1
  <2>4. CASE bullet[b].hasBurst
    <3>1. b \in ran
          BY <1>1, <2>4 DEF LifeInv, LifeOf, Cylinders
    <3>2. LastDamageFrame(b) = bullet[b].burstFrm
          BY <1>1, <2>4, <3>1, Ticks
    <3>3. (pass' = "second") = FALSE /\ (b \in ran') = FALSE
          BY <1>1
    <3>4. LastDamageFrame(b)' = LastDamageFrame(b)
          BY <2>2, <2>4, <3>2, <3>3 DEF LastDamageFrame
    <3>5. harm'[b] = harm[b] /\ grabs'[b] = grabs[b]
          BY <1>1, <2>4
    <3> QED BY <1>1, <1>n, <2>1, <2>2, <2>3, <2>4, <3>4, <3>5, GoesOn
  <2>5. CASE ~bullet[b].hasBurst
    <3>1. harm'[b] = NoHarm /\ grabs'[b] = 0
          BY <1>1, <2>5
    <3>2. ~grabbed'[b]
          BY <2>1, <2>3, <2>5 DEF History
    <3>3. \A o \in Objects : harm'[b][o] <= BurstDuration
          BY <3>1, Frames DEF NoHarm
    <3> QED BY <2>2, <2>5, <3>1, <3>2, <3>3, Idle
  <2> QED BY <2>4, <2>5
<1> QED BY <1>2 DEF HistInv

LEMMA HistCleanup ==
    ASSUME LifeInv, HistInv, Cleanup
    PROVE  HistInv'
<1>1. pass' = "second" /\ grabbed' = [b \in Bursts |-> FALSE] /\ UNCHANGED harm
      BY DEF Cleanup, FrameOver
<1>2. ASSUME NEW b \in Bursts PROVE History(b)'
  <2>1. ~bullet'[b].hasBurst /\ ~grabbed'[b]
        BY <1>1, CleanupLife
  <2>2. \A o \in Objects : harm'[b][o] <= BurstDuration
        BY <1>1 DEF HistInv, History
  <2> QED BY <1>1, <2>1, <2>2, Idle
<1> QED BY <1>2 DEF HistInv

(* The histories of every burst follow its clock. *)
THEOREM HistInvariance == Spec => []HistInv
<1>1. Init => HistInv
  <2> SUFFICES ASSUME Init, NEW b \in Bursts PROVE History(b)
      BY DEF HistInv
  <2>1. ~bullet[b].hasBurst
        BY DEF Init, create
  <2>2. ~grabbed[b] /\ grabs[b] = 0 /\ harm[b] = NoHarm
        BY DEF Init
  <2>3. \A o \in Objects : harm[b][o] <= BurstDuration
        BY <2>2, Frames DEF NoHarm
  <2> QED BY <2>1, <2>2, <2>3 DEF History
<1>2. LifeInv /\ LifeInv' /\ StageInv /\ HistInv /\ [Next]_vars => HistInv'
  <2> SUFFICES ASSUME LifeInv, LifeInv', StageInv, HistInv, [Next]_vars PROVE HistInv'
      OBVIOUS
  <2>1. ASSUME NEW b \in Bursts, FirstCalc(b) PROVE HistInv'
        BY <2>1, HistFirstCalc
  <2>2. ASSUME NEW b \in Bursts, SecondCalc(b) PROVE HistInv'
        BY <2>2, HistSecondCalc
  <2>3. ASSUME NEW b \in Bursts, Prepare(b) \/ Launch(b) PROVE HistInv'
        BY <2>3, HistRequest
  <2>4. CASE FirstPassDone
        BY <2>4, HistFirstPassDone
  <2>5. CASE NextFrame
        BY <2>5, HistNextFrame
  <2>6. CASE Cleanup
        BY <2>6, HistCleanup
  <2>7. CASE (\E o \in Objects : StageStep(o)) \/ SurfaceDown \/ OtherPaint \/ UNCHANGED vars
    <3>1. UNCHANGED <<pass, ran, bullet, grabbed, harm, grabs>>
          BY <2>7 DEF StageStep, SurfaceDown, OtherPaint, vars
    <3>2. ASSUME NEW b \in Bursts PROVE History(b)'
          BY <3>1, StandsBy DEF HistInv
    <3> QED BY <3>2 DEF HistInv
  <2> QED BY <2>1, <2>2, <2>3, <2>4, <2>5, <2>6, <2>7 DEF Next
<1> QED BY <1>1, <1>2, LifeInvariance, StageInvariance, PTL DEF Spec

(* An object that stays in reach is hit in every frame of the burst, none  *)
(* twice in a frame and none left out by the order of the actors.          *)
THEOREM ClockDecidesHits == Spec => []HitsFollowClock
<1>1. HistInv => HitsFollowClock
      BY DEF HistInv, History, HitClock, HitsFollowClock, Cylinders, Reached
<1> QED BY <1>1, HistInvariance, PTL

(* The latch of the grapple targets belongs to one burst. *)
THEOREM LatchBelongsToBurst == Spec => []OneGrabPerBurst
<1>1. HistInv => OneGrabPerBurst
      BY DEF HistInv, History, OneGrab, HooksInReach, OneGrabPerBurst, Cylinders
<1> QED BY <1>1, HistInvariance, PTL

(* Types and bounds: hit points, slots and histories. *)
THEOREM BurstTypeCorrect == Spec => []TypeOK
<1>1. LifeInv /\ StageInv /\ HistInv /\ PaintInv => TypeOK
  <2> SUFFICES ASSUME LifeInv, StageInv, HistInv, PaintInv PROVE TypeOK
      OBVIOUS
  <2>1. \A b \in Bursts, o \in Objects : harm[b][o] \in 0 .. BurstDuration
        BY Frames DEF HistInv, History, StageInv
  <2>2. harm \in [Bursts -> [Objects -> 0 .. BurstDuration]]
        BY <2>1 DEF StageInv
  <2> QED BY <2>2 DEF LifeInv, StageInv, PaintInv, TypeOK
<1> QED BY <1>1, LifeInvariance, StageInvariance, HistInvariance, PaintInvariance, PTL

-----------------------------------------------------------------------------
(* The table of a bubble.  A slot is free when its damage is zero; that it  *)
(* then waits for nothing is what the search for a free slot relies on.     *)
TableInv ==
    \A o \in Objects, i \in Slot : table[o][i].dmg = 0 <=> table[o][i].hold = 0

Waiting(o, h) == {i \in Slot : table[o][i].hold >= h}

LEMMA SlotCounts ==
    /\ HoldFrames \in Nat \ {0} /\ TableSize \in Nat
    /\ IsFiniteSet(Slot) /\ Cardinality(Slot) = TableSize
    /\ \A S \in SUBSET Slot : IsFiniteSet(S) /\ Cardinality(S) \in Nat
    /\ Cardinality({}) = 0
<1>1. HoldFrames \in Nat \ {0} /\ TableSize \in Nat
      BY CylinderAssumption
<1>2. IsFiniteSet(Slot) /\ Cardinality(Slot) = TableSize
      BY <1>1, FS_Interval DEF Slot
<1>3. \A S \in SUBSET Slot : IsFiniteSet(S) /\ Cardinality(S) \in Nat
      BY <1>2, FS_Subset, FS_CardinalityType
<1> QED BY <1>1, <1>2, <1>3, FS_EmptySet

(* The first free slot. *)
LEMMA FirstSlot ==
    ASSUME NEW S \in SUBSET Slot, S # {}
    PROVE  \E i \in S : \A j \in S : i <= j
<1> DEFINE R == OpToRel(<, Nat)
<1>1. IsWellFoundedOn(R, Nat)
      BY NatLessThanWellFounded
<1>2. S \subseteq Nat
      BY DEF Slot
<1>3. PICK i \in S : \A j \in S : ~(<<j, i>> \in R)
      BY <1>1, <1>2, WFMin
<1>4. \A j \in S : ~(j < i)
      BY <1>2, <1>3 DEF OpToRel
<1> QED BY <1>2, <1>4

(* A free slot is one that waits for nothing, so that the table is full    *)
(* when as many hits wait as it has slots.                                 *)
LEMMA RoomLeft ==
    ASSUME StageInv, TableInv, NEW o \in Objects
    PROVE  /\ FreeSlots(o) = Slot \ Waiting(o, 1)
           /\ FreeSlots(o) # {} <=> HitsWaiting(o, 1) < TableSize
<1>1. \A i \in Slot : table[o][i].dmg = 0 <=> ~(table[o][i].hold >= 1)
      BY SlotCounts DEF StageInv, TableInv, Hold
<1>2. FreeSlots(o) = Slot \ Waiting(o, 1)
      BY <1>1 DEF FreeSlots, Waiting
<1>3. ASSUME FreeSlots(o) = {} PROVE ~(HitsWaiting(o, 1) < TableSize)
  <2>1. Waiting(o, 1) = Slot
        BY <1>2, <1>3 DEF Waiting
  <2> QED BY <2>1, SlotCounts DEF HitsWaiting, Waiting
<1>4. ASSUME NEW i \in FreeSlots(o) PROVE HitsWaiting(o, 1) < TableSize
  <2>1. i \in Slot /\ i \notin Waiting(o, 1)
        BY <1>2
  <2>2. Waiting(o, 1) \cup {i} \in SUBSET Slot /\ IsFiniteSet(Waiting(o, 1))
        /\ Cardinality(Waiting(o, 1)) \in Nat
        BY <2>1, SlotCounts DEF Waiting
  <2>3. Cardinality(Waiting(o, 1) \cup {i}) = Cardinality(Waiting(o, 1)) + 1
        BY <2>1, <2>2, FS_AddElement
  <2>4. Cardinality(Waiting(o, 1) \cup {i}) <= TableSize
        BY <2>2, SlotCounts, FS_Subset
  <2> QED BY <2>2, <2>3, <2>4, SlotCounts DEF HitsWaiting, Waiting
<1> QED BY <1>2, <1>3, <1>4

(* A hit written into the first free slot adds one to those that wait,     *)
(* however long one looks ahead, and moves no other.                       *)
LEMMA OneMoreWaits ==
    ASSUME StageInv, TableInv, NEW o \in Objects, FreeSlots(o) # {},
           NEW dmg \in Int \ {0}, table'[o] = Reserve(o, dmg)
    PROVE  /\ \A i \in Slot : table'[o][i].dmg = 0 <=> table'[o][i].hold = 0
           /\ \A h \in 1 .. HoldFrames : HitsWaiting(o, h)' = HitsWaiting(o, h) + 1
<1> DEFINE i == CHOOSE i \in FreeSlots(o) : \A j \in FreeSlots(o) : i <= j
<1>1. i \in FreeSlots(o)
  <2>1. FreeSlots(o) \in SUBSET Slot
        BY DEF FreeSlots
  <2>2. \E n \in FreeSlots(o) : \A j \in FreeSlots(o) : n <= j
        BY <2>1, FirstSlot
  <2> QED BY <2>2
<1>2. table'[o] = [table[o] EXCEPT ![i] = [dmg |-> dmg, hold |-> HoldFrames]]
      BY DEF Reserve
<1> HIDE DEF i
<1>3. i \in Slot /\ i \notin Waiting(o, 1) /\ table[o] \in [Slot -> [dmg : Int, hold : Hold]]
      BY <1>1, RoomLeft DEF StageInv
<1>4. \A j \in Slot : table'[o][j] = IF j = i THEN [dmg |-> dmg, hold |-> HoldFrames]
                                              ELSE table[o][j]
      BY <1>2, <1>3
<1>5. \A j \in Slot : table'[o][j].dmg = 0 <=> table'[o][j].hold = 0
      BY <1>4, SlotCounts DEF TableInv
<1>6. ASSUME NEW h \in 1 .. HoldFrames
      PROVE  HitsWaiting(o, h)' = HitsWaiting(o, h) + 1
  <2>1. i \notin Waiting(o, h)
        BY <1>3, SlotCounts DEF Waiting, Hold
  <2>2. Waiting(o, h)' = Waiting(o, h) \cup {i}
        BY <1>3, <1>4, SlotCounts DEF Waiting
  <2>3. IsFiniteSet(Waiting(o, h))
        BY SlotCounts DEF Waiting
  <2>4. Cardinality(Waiting(o, h) \cup {i}) = Cardinality(Waiting(o, h)) + 1
        BY <2>1, <2>3, FS_AddElement
  <2> QED BY <2>2, <2>4 DEF HitsWaiting, Waiting
<1> QED BY <1>5, <1>6

(* A damage pass of b is a strike on the bubbles in its reach.             *)
LEMMA TableSecondCalc ==
    ASSUME LifeInv, StageInv, TableInv, NEW b \in Bursts, SecondCalc(b)
    PROVE  TableInv' /\ Table!Strike(b)
<1>1. b \in Cylinders
      BY DEF SecondCalc
<1> DEFINE S == {o \in Bubbles : Hits(b, o)}
<1>2. \A o \in Bubbles : o \in Objects /\ KindOf[o] = "bubble"
      BY DEF Bubbles
<1>3. ASSUME NEW o \in Objects
      PROVE  table'[o] = IF KindOf[o] = "bubble" /\ Hits(b, o) /\ FreeSlots(o) # {}
                         THEN Reserve(o, BubbleDamage(b, o)) ELSE table[o]
      BY DEF SecondCalc
<1>4. ASSUME NEW o \in Objects
      PROVE  /\ \A i \in Slot : table'[o][i].dmg = 0 <=> table'[o][i].hold = 0
             /\ \A h \in 1 .. HoldFrames :
                  HitsWaiting(o, h)' =
                    IF KindOf[o] = "bubble" /\ Hits(b, o) /\ HitsWaiting(o, 1) < TableSize
                    THEN HitsWaiting(o, h) + 1 ELSE HitsWaiting(o, h)
  <2>1. CASE KindOf[o] = "bubble" /\ Hits(b, o) /\ FreeSlots(o) # {}
    <3>1. BubbleDamage(b, o) \in Int \ {0}
          BY <1>1, HitDamage
    <3>2. table'[o] = Reserve(o, BubbleDamage(b, o))
          BY <1>3, <2>1
    <3> QED BY <2>1, <3>1, <3>2, OneMoreWaits, RoomLeft
  <2>2. CASE ~(KindOf[o] = "bubble" /\ Hits(b, o) /\ FreeSlots(o) # {})
    <3>1. table'[o] = table[o]
          BY <1>3, <2>2
    <3>2. \A h : HitsWaiting(o, h)' = HitsWaiting(o, h)
          BY <3>1 DEF HitsWaiting
    <3> QED BY <2>2, <3>1, <3>2, RoomLeft DEF TableInv
  <2> QED BY <2>1, <2>2
<1>5. TableInv'
      BY <1>4 DEF TableInv
<1>6. [c \in Bursts |-> [o \in Bubbles |-> harm'[c][o]]] =
        [[c \in Bursts |-> [o \in Bubbles |-> harm[c][o]]] EXCEPT ![b] =
           [o \in Bubbles |-> IF o \in S THEN @[o] + 1 ELSE @[o]]]
  <2>1. harm' = [harm EXCEPT ![b] =
                   [o \in Objects |-> IF Hits(b, o) THEN harm[b][o] + 1 ELSE harm[b][o]]]
        BY DEF SecondCalc
  <2>2. \A o \in Bubbles : harm'[b][o] = IF o \in S THEN harm[b][o] + 1 ELSE harm[b][o]
        BY <1>2, <2>1 DEF StageInv
  <2>3. \A c \in Bursts \ {b} : harm'[c] = harm[c]
        BY <2>1 DEF StageInv
  <2> QED BY <2>2, <2>3
<1>7. ASSUME NEW o \in Bubbles
      PROVE  [h \in 1 .. HoldFrames |-> HitsWaiting(o, h)'] =
               IF o \in S /\ HitsWaiting(o, 1) < TableSize
               THEN [h \in 1 .. HoldFrames |-> HitsWaiting(o, h) + 1]
               ELSE [h \in 1 .. HoldFrames |-> HitsWaiting(o, h)]
      BY <1>2, <1>4
<1>8. Table!Strike(b)
  <2> DEFINE owed == [o \in Bubbles |-> [h \in 1 .. HoldFrames |-> HitsWaiting(o, h)]]
             next == [o \in Bubbles |->
                        IF o \in S /\ owed[o][1] < TableSize
                        THEN [h \in 1 .. HoldFrames |-> owed[o][h] + 1] ELSE owed[o]]
  <2>1. \A o \in Bubbles, h \in 1 .. HoldFrames : owed[o][h] = HitsWaiting(o, h)
        OBVIOUS
  <2>2. 1 \in 1 .. HoldFrames
        BY SlotCounts
  <2>3. \A o \in Bubbles : owed[o][1] = HitsWaiting(o, 1)
        BY <2>1, <2>2
  <2>4. [o \in Bubbles |-> [h \in 1 .. HoldFrames |-> HitsWaiting(o, h)']] = next
    <3>1. ASSUME NEW o \in Bubbles
          PROVE  [h \in 1 .. HoldFrames |-> HitsWaiting(o, h)'] = next[o]
      <4>1. CASE o \in S /\ HitsWaiting(o, 1) < TableSize
            BY <1>7, <2>1, <2>3, <4>1
      <4>2. CASE ~(o \in S /\ HitsWaiting(o, 1) < TableSize)
            BY <1>7, <2>1, <2>3, <4>2
      <4> QED BY <4>1, <4>2
    <3> QED BY <3>1
  <2> QED BY <1>6, <2>4 DEF Table!Strike
<1> QED BY <1>5, <1>8

(* A new frame: each slot waits one frame less, and is free at the end.    *)
LEMMA TableNextFrame ==
    ASSUME StageInv, TableInv, NextFrame
    PROVE  TableInv' /\ Table!Frame
<1>1. ASSUME NEW o \in Objects, NEW i \in Slot
      PROVE  /\ table'[o][i].dmg = 0 <=> table'[o][i].hold = 0
             /\ table'[o][i].hold \in 0 .. HoldFrames - 1
             /\ \A h \in 1 .. HoldFrames :
                  table'[o][i].hold >= h <=> table[o][i].hold >= h + 1
  <2> DEFINE s == table[o][i]
             t == table'[o][i]
  <2>0. /\ s \in [dmg : Int, hold : Hold] /\ t = Drain(s)
        /\ s.dmg = 0 <=> s.hold = 0
        BY DEF NextFrame, TableInv, StageInv
  <2>a. s.dmg \in Int /\ s.hold \in 0 .. HoldFrames
        BY <2>0 DEF Hold
  <2> HIDE DEF s, t
  <2>1. CASE s.hold <= 1
    <3>1. t.dmg = 0 /\ t.hold = 0
          BY <2>0, <2>1 DEF Drain, EmptySlot
    <3> QED BY <2>a, <2>1, <3>1, SlotCounts DEF s, t
  <2>2. CASE ~(s.hold <= 1)
    <3>1. t.dmg = s.dmg /\ t.hold = s.hold - 1
          BY <2>0, <2>2 DEF Drain
    <3>2. t.dmg # 0 /\ t.hold # 0
          BY <2>0, <2>a, <2>2, <3>1
    <3> QED BY <2>a, <2>2, <3>1, <3>2, SlotCounts DEF s, t
  <2> QED BY <2>1, <2>2
<1>2. TableInv'
      BY <1>1 DEF TableInv
<1>3. ASSUME NEW o \in Objects, NEW h \in 1 .. HoldFrames
      PROVE  HitsWaiting(o, h)' = IF h = HoldFrames THEN 0 ELSE HitsWaiting(o, h + 1)
  <2>1. CASE h = HoldFrames
    <3>1. Waiting(o, h)' = {}
          BY <1>1, <2>1, SlotCounts DEF Waiting
    <3> QED BY <2>1, <3>1, SlotCounts DEF HitsWaiting, Waiting
  <2>2. CASE h # HoldFrames
    <3>1. Waiting(o, h)' = Waiting(o, h + 1)
          BY <1>1 DEF Waiting
    <3> QED BY <2>2, <3>1 DEF HitsWaiting, Waiting
  <2> QED BY <2>1, <2>2
<1> DEFINE E == {b \in Bursts : ~bullet[b].hasBurst}
           hits == [b \in Bursts |-> [o \in Bubbles |-> harm[b][o]]]
           owed == [o \in Bubbles |-> [h \in 1 .. HoldFrames |-> HitsWaiting(o, h)]]
<1>4. [b \in Bursts |-> [o \in Bubbles |-> harm'[b][o]]] =
        [b \in Bursts |-> IF b \in E THEN [o \in Bubbles |-> 0] ELSE hits[b]]
  <2>1. \A b \in Bursts, o \in Bubbles : harm'[b][o] = IF b \in E THEN 0 ELSE harm[b][o]
        BY DEF NextFrame, NoHarm, Bubbles
  <2> QED BY <2>1
<1>5. [o \in Bubbles |-> [h \in 1 .. HoldFrames |-> HitsWaiting(o, h)']] =
        [o \in Bubbles |-> [h \in 1 .. HoldFrames |->
           IF h = HoldFrames THEN 0 ELSE owed[o][h + 1]]]
  <2>1. ASSUME NEW o \in Bubbles, NEW h \in 1 .. HoldFrames, h # HoldFrames
        PROVE  owed[o][h + 1] = HitsWaiting(o, h + 1)
    <3>1. h + 1 \in 1 .. HoldFrames
          BY <2>1, SlotCounts
    <3> QED BY <3>1
  <2>2. ASSUME NEW o \in Bubbles, NEW h \in 1 .. HoldFrames
        PROVE  HitsWaiting(o, h)' = IF h = HoldFrames THEN 0 ELSE owed[o][h + 1]
        BY <1>3, <2>1 DEF Bubbles
  <2> QED BY <2>2
<1>6. Table!Frame
  <2>1. E \in SUBSET Bursts
        OBVIOUS
  <2> QED BY <1>4, <1>5, <2>1 DEF Table!Frame
<1> QED BY <1>2, <1>6

(* A table is filled and emptied as a bounded store of hits: whatever its  *)
(* size, the number of bursts and the time a hit waits, each frame's hit   *)
(* of each burst is taken once while a slot is free, and only a full table *)
(* drops one.                                                              *)
THEOREM TableKeepsHits == Spec => ImplementsReservedHits
<1>1. Init => TableInv /\ Table!Init
  <2> SUFFICES ASSUME Init PROVE TableInv /\ Table!Init
      OBVIOUS
  <2>1. \A o \in Objects, i \in Slot : table[o][i].dmg = 0 /\ table[o][i].hold = 0
        BY DEF Init, EmptySlot
  <2>2. \A o \in Bubbles, h \in 1 .. HoldFrames : HitsWaiting(o, h) = 0
    <3>1. \A o \in Bubbles, h \in 1 .. HoldFrames : Waiting(o, h) = {}
          BY <2>1, SlotCounts DEF Waiting, Bubbles
    <3> QED BY <3>1, SlotCounts DEF HitsWaiting, Waiting
  <2>3. \A b \in Bursts, o \in Bubbles : harm[b][o] = 0
        BY DEF Init, NoHarm, Bubbles
  <2> QED BY <2>1, <2>2, <2>3 DEF TableInv, Table!Init
<1>2. LifeInv /\ StageInv /\ TableInv /\ [Next]_vars =>
        TableInv' /\ [Table!Next]_(Table!reservedVars)
  <2> SUFFICES ASSUME LifeInv, StageInv, TableInv, [Next]_vars
               PROVE  TableInv' /\ [Table!Next]_(Table!reservedVars)
      OBVIOUS
  <2>1. ASSUME UNCHANGED <<table, harm>>
        PROVE  TableInv' /\ UNCHANGED Table!reservedVars
    <3>1. \A o, h : HitsWaiting(o, h)' = HitsWaiting(o, h)
          BY <2>1 DEF HitsWaiting
    <3> QED BY <2>1, <3>1 DEF TableInv, Table!reservedVars
  <2>2. ASSUME NEW b \in Bursts, SecondCalc(b)
        PROVE  TableInv' /\ [Table!Next]_(Table!reservedVars)
        BY <2>2, TableSecondCalc DEF Table!Next
  <2>3. CASE NextFrame
        BY <2>3, TableNextFrame DEF Table!Next
  <2>4. CASE \/ \E b \in Bursts : FirstCalc(b) \/ Prepare(b) \/ Launch(b)
             \/ FirstPassDone \/ Cleanup \/ (\E o \in Objects : StageStep(o))
             \/ SurfaceDown \/ OtherPaint \/ UNCHANGED vars
    <3>1. UNCHANGED <<table, harm>>
          BY <2>4 DEF FirstCalc, Prepare, Launch, Request, FirstPassDone, Cleanup,
                      StageStep, SurfaceDown, OtherPaint, vars
    <3> QED BY <2>1, <3>1
  <2> QED BY <2>2, <2>3, <2>4 DEF Next
<1> QED BY <1>1, <1>2, LifeInvariance, StageInvariance, PTL
           DEF Spec, ImplementsReservedHits, Table!Spec

-----------------------------------------------------------------------------
(* The clock of the strikes, as in the manager's module.                   *)

(* A bullet's turn is paid for by the frame, or ends the strike.           *)
LEMMA TurnTakesAFrame ==
    ASSUME NEW c \in Bullet, LifeOf(c, FALSE), c.awake,
           c.sm \in {"Pronounce", "Burst"}
    PROVE  LET d == vtFirstCalc(c)
           IN  /\ \/ FramesLeft(d, TRUE) = FramesLeft(c, FALSE)
                  \/ FramesLeft(c, FALSE) = 1 /\ FramesLeft(d, TRUE) = 0
               /\ d.flightActive => d.flightLeft > 0
<1> DEFINE d == vtFirstCalc(c)
<1>1. c.burstFrm \in Int /\ c.flightLeft \in Nat
      BY Frames DEF Bullet, BurstFrames
<1>2. CASE c.sm = "Pronounce"
  <2>1. c.flightActive /\ ~c.hasBurst /\ c.sender
        BY <1>2 DEF LifeOf
  <2>2. CASE c.flightLeft = 0
    <3>1. d.hasBurst /\ ~d.flightActive /\ d.burstFrm = 0
          BY <1>2, <2>1, <2>2 DEF vtFirstCalc, statePronounce, doBurst, Bullet
    <3> HIDE DEF d
    <3> QED BY <2>1, <2>2, <3>1, Frames DEF FramesLeft, d
  <2>3. CASE c.flightLeft # 0
        BY <1>1, <1>2, <2>1, <2>3 DEF vtFirstCalc, statePronounce, FramesLeft
  <2> QED BY <2>2, <2>3
<1>3. CASE c.sm = "Burst"
  <2>1. c.hasBurst /\ ~c.flightActive /\ c.burstFrm < BurstDuration
        BY <1>3 DEF LifeOf
  <2> DEFINE e == [c EXCEPT !.burstFrm = c.burstFrm + 1]
  <2>2. e.burstFrm = c.burstFrm + 1 /\ e.hasBurst /\ ~e.flightActive
        BY <2>1 DEF Bullet
  <2>3. FramesLeft(c, FALSE) = BurstDuration - c.burstFrm
        BY <1>1, <2>1, Frames DEF FramesLeft
  <2>4. CASE c.burstFrm + 1 >= BurstDuration
    <3>1. d = doSleep(e)
          BY <1>3, <2>2, <2>4 DEF vtFirstCalc, calcBurstFollow
    <3>2. ~d.flightActive /\ ~d.hasBurst
          BY <3>1 DEF doSleep, Bullet
    <3> HIDE DEF d
    <3> QED BY <1>1, <2>1, <2>3, <2>4, <3>2, Frames DEF FramesLeft, d
  <2>5. CASE ~(c.burstFrm + 1 >= BurstDuration)
    <3>1. d = e
          BY <1>3, <2>2, <2>5 DEF vtFirstCalc, calcBurstFollow
    <3> HIDE DEF d, e
    <3>2. FramesLeft(d, TRUE) = BurstDuration - e.burstFrm + 1
          BY <2>2, <3>1 DEF FramesLeft
    <3>3. BurstDuration - e.burstFrm + 1 = BurstDuration - c.burstFrm
          BY <1>1, <2>2, Frames
    <3>4. FramesLeft(d, TRUE) = FramesLeft(c, FALSE) /\ ~d.flightActive
          BY <2>2, <2>3, <3>1, <3>2, <3>3
    <3> QED BY <3>4 DEF d
  <2> QED BY <2>4, <2>5
<1> QED BY <1>2, <1>3

(* The next frame is one less.                                             *)
LEMMA FrameTakesAFrame ==
    ASSUME NEW c \in Bullet, LifeOf(c, TRUE), c.flightActive => c.flightLeft > 0
    PROVE  LET n == FramesLeft(c, TRUE)
           IN  /\ n # 1
               /\ FramesLeft(Elapse(Settle(c)), FALSE) = IF n = 0 THEN 0 ELSE n - 1
<1> DEFINE d == Elapse(Settle(c))
           n == FramesLeft(c, TRUE)
           m == FramesLeft(d, FALSE)
<1>1. c.burstFrm \in Int /\ c.flightLeft \in Nat
      BY Frames DEF Bullet, BurstFrames
<1>2. CASE ~isActive(c)
  <2>1. ~isActive(d)
    <3>1. CASE c.resv = "activate"
          BY <1>2, <3>1 DEF Settle, vtOnActivate, Elapse, isActive, Bullet
    <3>2. CASE c.resv = "sleep"
      <4>1. d = Elapse(vtOnSleep(c))
            BY <3>2 DEF Settle
      <4> QED BY <4>1 DEF vtOnSleep, reset, Elapse, isActive, Bullet
    <3>3. CASE c.resv = "none"
          BY <1>2, <3>3 DEF Settle, Elapse, isActive, Bullet
    <3> QED BY <3>1, <3>2, <3>3 DEF Bullet, Reservation
  <2> HIDE DEF d
  <2>2. n = 0 /\ m = 0
        BY <1>2, <2>1 DEF FramesLeft, isActive
  <2> HIDE DEF n, m
  <2>3. n # 1 /\ m = IF n = 0 THEN 0 ELSE n - 1
        BY <2>2
  <2> QED BY <2>3 DEF n, m, d
<1>3. CASE isActive(c)
  <2>1. c.resv = "none"
        BY <1>3 DEF LifeOf, isActive
  <2>2. d = Elapse(c)
        BY <2>1 DEF Settle
  <2>3. n > 1 /\ m = n - 1
    <3>1. CASE c.flightActive
      <4>1. n = c.flightLeft + BurstDuration + 1
            BY <3>1 DEF FramesLeft
      <4>2. d.flightActive /\ d.flightLeft = c.flightLeft - 1
            BY <1>1, <2>2, <3>1 DEF Elapse, Bullet
      <4>3. m = d.flightLeft + BurstDuration + 1
            BY <4>2 DEF FramesLeft
      <4> HIDE DEF n, m, d
      <4> QED BY <1>1, <3>1, <4>1, <4>2, <4>3, Frames
    <3>2. CASE c.hasBurst /\ ~c.flightActive
      <4>1. c.burstFrm < BurstDuration
            BY <3>2 DEF LifeOf
      <4>2. n = BurstDuration - c.burstFrm + 1
            BY <3>2 DEF FramesLeft
      <4>3. d.hasBurst /\ ~d.flightActive /\ d.burstFrm = c.burstFrm
            BY <2>2, <3>2 DEF Elapse, Bullet
      <4>4. m = BurstDuration - c.burstFrm
        <5> HIDE DEF d
        <5> QED BY <1>1, <4>3, Frames DEF FramesLeft
      <4> HIDE DEF n, m
      <4> QED BY <1>1, <4>1, <4>2, <4>4, Frames
    <3> QED BY <1>3, <3>1, <3>2 DEF isActive
  <2>4. n \in Int
        BY <1>1, Frames DEF FramesLeft
  <2> HIDE DEF n, m
  <2>5. n # 1 /\ m = IF n = 0 THEN 0 ELSE n - 1
        BY <2>3, <2>4
  <2> QED BY <2>5 DEF n, m
<1> QED BY <1>2, <1>3

(* A flight that had its turn in this frame goes on in the next.           *)
Aloft ==
    \A b \in Bursts :
      bullet[b].flightActive /\ Turned(b) => bullet[b].flightLeft > 0

(* The frames of the strikes, as the clock sees them. *)
Left == [b \in Bursts |-> FramesLeft(bullet[b], Turned(b))]

(* One burst's count of frames changes. *)
LEMMA OneLeft ==
    ASSUME NEW b \in Bursts, \A e \in Bursts : e # b => Left'[e] = Left[e]
    PROVE  Left' = [Left EXCEPT ![b] = Left'[b]]
BY DEF Left

LEMMA LeftStays ==
    ASSUME \A b \in Bursts : Left'[b] = Left[b]
    PROVE  Left' = Left
BY DEF Left

LEMMA FirstCalcTime ==
    ASSUME LifeInv, Aloft, NEW b \in Bursts, FirstCalc(b)
    PROVE  Aloft' /\ [Clock!Next]_Left
<1> DEFINE c == bullet[b]
           d == vtFirstCalc(c)
<1>1. /\ pass = "first" /\ pass' = pass /\ b \notin ran /\ ran' = ran \cup {b}
      /\ c.awake /\ c.sm \in {"Pronounce", "Burst"}
      /\ bullet' = [bullet EXCEPT ![b] = d]
      BY DEF FirstCalc
<1>2. c \in Bullet /\ LifeOf(c, FALSE) /\ bullet \in [Bursts -> Bullet]
      BY <1>1, LifeAwake DEF Turned, LifeInv
<1>3. \A e \in Bursts : e # b => /\ bullet'[e] = bullet[e]
                                 /\ Turned(e)' = Turned(e)
      BY <1>1, <1>2 DEF Turned
<1>4. bullet'[b] = d /\ Turned(b) = FALSE /\ Turned(b)' = TRUE
      BY <1>1, <1>2 DEF Turned
<1>5. Left[b] = FramesLeft(c, FALSE) /\ Left'[b] = FramesLeft(d, TRUE)
      BY <1>4, Zenon DEF Left
<1>6. \A e \in Bursts : e # b => Left'[e] = Left[e]
      BY <1>3, Zenon DEF Left
<1> HIDE DEF c
<1>7. /\ \/ FramesLeft(d, TRUE) = FramesLeft(c, FALSE)
         \/ FramesLeft(c, FALSE) = 1 /\ FramesLeft(d, TRUE) = 0
      /\ d.flightActive => d.flightLeft > 0
      BY <1>1, <1>2, TurnTakesAFrame
<1> HIDE DEF d
<1>8. Aloft'
      BY <1>3, <1>4, <1>7 DEF Aloft
<1>9. CASE FramesLeft(d, TRUE) = FramesLeft(c, FALSE)
  <2>1. \A e \in Bursts : Left'[e] = Left[e]
        BY <1>5, <1>6, <1>9
  <2> QED BY <1>8, <2>1, LeftStays
<1>10. CASE FramesLeft(c, FALSE) = 1 /\ FramesLeft(d, TRUE) = 0
  <2>1. Left' = [Left EXCEPT ![b] = 0]
        BY <1>5, <1>6, <1>10, OneLeft
  <2>2. Clock!Finish(b)
        BY <1>5, <1>10, <2>1 DEF Clock!Finish, Left
  <2> QED BY <1>8, <2>2 DEF Clock!Next
<1> QED BY <1>7, <1>9, <1>10

LEMMA RequestTime ==
    ASSUME LifeInv, Aloft, NEW b \in Bursts, Prepare(b) \/ Launch(b)
    PROVE  Aloft' /\ [Clock!Next]_Left
<1>1. /\ pass' = pass /\ ran' = ran
      /\ ~isActive(bullet[b]) /\ bullet[b] \in Bullet /\ bullet \in [Bursts -> Bullet]
      BY DEF Prepare, Launch, Request, LifeInv
<1>2. /\ \A e \in Bursts : Turned(e)' = Turned(e)
      /\ \A e \in Bursts : e # b => bullet'[e] = bullet[e]
      BY <1>1 DEF Turned, Prepare, Launch, Request
<1>3. \A e \in Bursts : e # b => Left'[e] = Left[e]
      BY <1>2, Zenon DEF Left
<1>4. /\ Left[b] = FramesLeft(bullet[b], Turned(b))
      /\ Left'[b] = FramesLeft(bullet'[b], Turned(b)')
      BY Zenon DEF Left
<1>5. Left[b] = 0
      BY <1>1, <1>4 DEF FramesLeft, isActive
<1>6. CASE Prepare(b)
  <2>1. bullet'[b] = prepare(bullet[b])
        BY <1>1, <1>6 DEF Prepare, Request
  <2>2. ~isActive(bullet'[b])
        BY <1>1, <2>1 DEF prepare, isActive, Bullet
  <2>3. Left'[b] = 0
        BY <1>4, <2>2 DEF FramesLeft, isActive
  <2>4. Aloft'
        BY <1>2, <2>2 DEF Aloft, isActive
  <2> QED BY <1>3, <1>5, <2>3, <2>4, LeftStays
<1>7. CASE Launch(b)
  <2>1. bullet'[b] = launch(bullet[b], FALSE)
        BY <1>1, <1>7 DEF Launch, Request
  <2>2. bullet'[b].flightActive /\ bullet'[b].flightLeft = FlightTime
        BY <1>1, <2>1 DEF launch, Bullet
  <2>3. Left'[b] = FlightTime + BurstDuration + 1
        BY <1>4, <2>2 DEF FramesLeft
  <2>4. Clock!Launch(b)
    <3>1. Left'[b] \in StrikeLengths
          BY <2>3 DEF StrikeLengths
    <3> QED BY <1>3, <1>5, <3>1, OneLeft DEF Clock!Launch, Left
  <2>5. Aloft'
        BY <1>2, <2>2, FlightAssumption DEF Aloft
  <2> QED BY <2>4, <2>5 DEF Clock!Next
<1> QED BY <1>6, <1>7

(* The second pass begins when every strike had its turn in the first.     *)
LEMMA PassTime ==
    ASSUME LifeInv, Aloft, FirstPassDone \/ \E b \in Bursts : SecondCalc(b)
    PROVE  Aloft' /\ Left' = Left
<1>1. ASSUME NEW b \in Bursts
      PROVE  /\ bullet'[b] = bullet[b] /\ Turned(b)'
             /\ isActive(bullet[b]) => Turned(b)
      BY DEF FirstPassDone, SecondCalc, Turned, LifeInv, LifeOf, isActive
<1>2. ASSUME NEW b \in Bursts PROVE Left'[b] = Left[b]
  <2>1. /\ Left[b] = FramesLeft(bullet[b], Turned(b))
        /\ Left'[b] = FramesLeft(bullet'[b], Turned(b)')
        BY Zenon DEF Left
  <2> QED BY <1>1, <2>1 DEF FramesLeft, isActive
<1>3. Aloft'
      BY <1>1 DEF Aloft, isActive
<1> QED BY <1>2, <1>3, LeftStays

LEMMA NextFrameTime ==
    ASSUME LifeInv, Aloft, NextFrame
    PROVE  Aloft' /\ Clock!Next
<1>1. /\ pass = "second" /\ pass' = "first" /\ ran' = {}
      /\ bullet' = [b \in Bursts |-> Elapse(Settle(bullet[b]))]
      BY DEF NextFrame, FrameOver
<1>2. ASSUME NEW b \in Bursts
      PROVE  /\ Left[b] # 1
             /\ Left'[b] = IF Left[b] = 0 THEN 0 ELSE Left[b] - 1
  <2> DEFINE c == bullet[b]
  <2>1. Turned(b) = TRUE /\ Turned(b)' = FALSE /\ bullet'[b] = Elapse(Settle(c))
        BY <1>1 DEF Turned
  <2>2. c \in Bullet /\ LifeOf(c, TRUE) /\ (c.flightActive => c.flightLeft > 0)
        BY <2>1, LifeAwake DEF Aloft
  <2>3. Left[b] = FramesLeft(c, TRUE) /\ Left'[b] = FramesLeft(Elapse(Settle(c)), FALSE)
        BY <2>1, Zenon DEF Left
  <2> HIDE DEF c
  <2> QED BY <2>2, <2>3, FrameTakesAFrame
<1>3. Left' = [b \in Bursts |-> IF Left[b] = 0 THEN 0 ELSE Left[b] - 1]
      BY <1>2 DEF Left
<1>4. Clock!Frame
      BY <1>2, <1>3 DEF Clock!Frame, Left
<1>5. Aloft'
      BY <1>1 DEF Aloft, Turned
<1> QED BY <1>4, <1>5 DEF Clock!Next

LEMMA CleanupTime ==
    ASSUME LifeInv, Cleanup
    PROVE  Aloft' /\ Clock!Next
<1>1. ASSUME NEW b \in Bursts PROVE ~isActive(bullet'[b])
  <2>1. bullet'[b] = cancel(bullet[b]) /\ bullet[b] \in Bullet
        BY DEF Cleanup, LifeInv
  <2> QED BY <2>1 DEF isActive, cancel, doSleep, Bullet
<1>2. Left' = [b \in Bursts |-> 0]
      BY <1>1 DEF Left, FramesLeft, isActive
<1>3. Clock!CallOff
      BY <1>2 DEF Clock!CallOff, Left
<1>4. Aloft'
      BY <1>1 DEF Aloft, isActive
<1> QED BY <1>3, <1>4 DEF Clock!Next

(* The three requests this module reduces the manager to drive a bullet by *)
(* the same clock as the manager itself does, so that what is shown of a   *)
(* burst here is shown of the bursts of module Inkstrike.                  *)
THEOREM BurstsKeepTime == Spec => ImplementsStrikeClock
<1>1. Init => Aloft /\ Clock!Init
  <2> SUFFICES ASSUME Init PROVE Aloft /\ Clock!Init
      OBVIOUS
  <2>1. \A b \in Bursts : ~isActive(bullet[b])
        BY DEF Init, create, isActive
  <2>2. Left = [b \in Bursts |-> 0]
        BY <2>1 DEF Left, FramesLeft, isActive
  <2> QED BY <2>1, <2>2 DEF Aloft, isActive, Clock!Init, Left
<1>2. LifeInv /\ Aloft /\ [Next]_vars => Aloft' /\ [Clock!Next]_Left
  <2> SUFFICES ASSUME LifeInv, Aloft, [Next]_vars
               PROVE  Aloft' /\ [Clock!Next]_Left
      OBVIOUS
  <2>1. ASSUME NEW b \in Bursts, FirstCalc(b) PROVE Aloft' /\ [Clock!Next]_Left
        BY <2>1, FirstCalcTime
  <2>2. ASSUME NEW b \in Bursts, Prepare(b) \/ Launch(b)
        PROVE  Aloft' /\ [Clock!Next]_Left
        BY <2>2, RequestTime
  <2>3. CASE FirstPassDone \/ \E b \in Bursts : SecondCalc(b)
        BY <2>3, PassTime
  <2>4. CASE NextFrame
        BY <2>4, NextFrameTime
  <2>5. CASE Cleanup
        BY <2>5, CleanupTime
  <2>6. CASE (\E o \in Objects : StageStep(o)) \/ SurfaceDown \/ OtherPaint \/ UNCHANGED vars
    <3>1. UNCHANGED <<pass, bullet, ran>>
          BY <2>6 DEF StageStep, SurfaceDown, OtherPaint, vars
    <3> QED BY <3>1 DEF Aloft, Left, Turned
  <2> QED BY <2>1, <2>2, <2>3, <2>4, <2>5, <2>6 DEF Next
<1> QED BY <1>1, <1>2, LifeInvariance, PTL DEF Spec, ImplementsStrikeClock, Clock!Spec, Left
=============================================================================
