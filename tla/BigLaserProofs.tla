--------------------------- MODULE BigLaserProofs ---------------------------
(***************************************************************************)
(* The five places a mode is spread over agree, for any number of players  *)
(* and bullets.  The argument that the right bullet is always found is a   *)
(* pigeonhole: a pool has one bullet per player, and a player other than   *)
(* the one who shoots keeps at most one of them busy.                      *)
(***************************************************************************)
EXTENDS BigLaserMode, TLAPS, FiniteSetTheorems

(* Between two hooks the parameters in place are the original ones, and so *)
(* are the saved ones.                                                     *)
Restored(q) ==
    /\ q \in ParamSets
    /\ q.value = cPrincessCannon
    /\ q.cached /\ q.loaded => q.saved = cPrincessCannon

ClonesAreKW == \A p \in Players \ Local : mMode[p] = cKillerWail

BlackIsKW == scene = "black" => \A p \in Players : mMode[p] = cKillerWail

(* A player has one beam per mode, and a local player's beam is in a       *)
(* bullet of its mode.                                                     *)
BeamsDiffer ==
    \A b, c \in Bullets : beam[b] = beam[c] /\ beam[b] # None => b = c

BeamsFit ==
    \A b \in Bullets : beam[b] # None =>
        beam[b].mode = IF beam[b].player \in Local THEN KindOf(b) ELSE cKillerWail

(* Whoever is in Princess Cannon mode has clips to go back to.             *)
ClipsSaved ==
    \A p \in Players : mMode[p] = cPrincessCannon => kwClip[p] # NoClip

(* The invariant by the variables it is about: the players', the bullets'  *)
(* and the last call's.                                                    *)
PlayersInv ==
    /\ alive \in [Players -> BOOLEAN]
    /\ mMode \in [Players -> BigLaserMode]
    /\ track \in [Players -> BigLaserMode \cup {None}]
    /\ model \in [Players -> BigLaserMode \cup {None}]
    /\ clip \in [Players -> Clip] /\ kwClip \in [Players -> Clip]
    /\ ModelFollowsMode /\ ClipsAreReal /\ ClonesAreKW /\ BlackIsKW /\ ClipsSaved

BulletsInv ==
    /\ active \subseteq Bullets
    /\ beam \in [Bullets -> Beam \cup {None}]
    /\ ActiveBulletsHaveBeams /\ BeamsDiffer /\ BeamsFit

CallInv == ShotMatchesMode /\ ParamsFitCall

IInv == /\ scene \in {"playing", "left", "black"}
        /\ PlayersInv /\ BulletsInv /\ CallInv /\ Restored(par)

-----------------------------------------------------------------------------
(* The names of the modes.                                                 *)
LEMMA Names ==
    /\ cKillerWail \in BigLaserMode /\ cPrincessCannon \in BigLaserMode
    /\ cKillerWail # cPrincessCannon /\ NoClip \notin BigLaserMode
    /\ \A k \in BigLaserMode : k = cKillerWail \/ k = cPrincessCannon
    /\ None \notin BigLaserMode /\ None \notin Beam
    BY BigLaserAssumption DEF BigLaserMode, cKillerWail, cPrincessCannon, NoClip

(* initParamSets reads the parameters between two hooks, so that what it   *)
(* saves is the Princess Cannon's.                                         *)
LEMMA InitParamsRestored ==
    ASSUME NEW q, Restored(q), NEW found \in Finds
    PROVE  Restored(initParamSets(q, found))
<1>1. CASE (q.cached /\ q.loaded) \/ found = "nothing"
      BY <1>1 DEF initParamSets
<1>2. CASE ~((q.cached /\ q.loaded) \/ found = "nothing")
  <2> DEFINE loaded == q.loaded \/ found = "all"
             r == [q EXCEPT !.cached = TRUE, !.loaded = loaded,
                            !.saved = IF loaded THEN q.value ELSE @]
  <2>1. initParamSets(q, found) = r
        BY <1>2 DEF initParamSets
  <2>2. r \in ParamSets /\ r.value = q.value /\ r.loaded = loaded
        /\ (loaded => r.saved = q.value)
        BY DEF Restored, ParamSets
  <2> HIDE DEF r
  <2> QED BY <2>1, <2>2 DEF Restored
<1> QED BY <1>1, <1>2

(* A swap puts the Killer Wail's parameters in place, and the restore that *)
(* follows takes them out again.                                           *)
LEMMA SwapAndRestore ==
    ASSUME NEW q, Restored(q)
    PROVE  /\ swapToKW(q).cached /\ swapToKW(q).loaded => swapToKW(q).value = cKillerWail
           /\ Restored(restorePC(swapToKW(q)))
<1>1. CASE q.cached /\ q.loaded
  <2> DEFINE r == [q EXCEPT !.value = cKillerWail]
  <2>1. swapToKW(q) = r
        BY <1>1 DEF swapToKW
  <2>2. r \in ParamSets /\ r.value = cKillerWail /\ r.cached = q.cached
        /\ r.loaded = q.loaded /\ r.saved = q.saved
        BY Names DEF Restored, ParamSets
  <2> HIDE DEF r
  <2> DEFINE t == [r EXCEPT !.value = r.saved]
  <2>3. restorePC(r) = t
        BY <1>1, <2>2 DEF restorePC
  <2>4. t \in ParamSets /\ t.value = r.saved /\ t.saved = r.saved
        BY <1>1, <2>2, Names DEF ParamSets
  <2> HIDE DEF t
  <2>5. r.saved = cPrincessCannon
        BY <1>1, <2>2 DEF Restored
  <2> QED BY <2>1, <2>2, <2>3, <2>4, <2>5 DEF Restored
<1>2. CASE ~(q.cached /\ q.loaded)
      BY <1>2 DEF swapToKW, restorePC
<1> QED BY <1>1, <1>2

(* What a hook leaves behind, whether it swapped or not.                   *)
LEMMA HookParams ==
    ASSUME NEW q0, Restored(q0), NEW found \in Finds, NEW kw \in BOOLEAN,
           NEW q, q = initParamSets(q0, found),
           NEW during, during = IF kw THEN swapToKW(q) ELSE q
    PROVE  /\ during.cached /\ during.loaded =>
                during.value = IF kw THEN cKillerWail ELSE cPrincessCannon
           /\ Restored(IF kw THEN restorePC(during) ELSE during)
<1>1. Restored(q)
      BY InitParamsRestored
<1>2. CASE kw
      BY <1>1, <1>2, SwapAndRestore
<1>3. CASE ~kw
      BY <1>1, <1>3 DEF Restored
<1> QED BY <1>2, <1>3

(* A player who may shoot finds a bullet of its mode without a beam.       *)
LEMMA PoolHasFree ==
    ASSUME IInv, NEW p \in Local, MayShoot(p)
    PROVE  \E c \in Pool(mMode[p]) : beam[c] = None
<1> DEFINE k == mMode[p]
           holder == [c \in Pool(k) |-> beam[c].player]
<1>1. p \in Players /\ k \in BigLaserMode
      BY BigLaserAssumption DEF IInv, PlayersInv
<1>2. Pool(k) \subseteq Bullets /\ \A c \in Pool(k) : KindOf(c) = k
      BY <1>1, BigLaserAssumption, Names DEF Pool, Bullets, KindOf, isBulletPrincessCannon
<1>3. IsFiniteSet(Pool(k)) /\ Cardinality(Pool(k)) = Cardinality(Players)
      BY BigLaserAssumption DEF Pool
<1> SUFFICES ASSUME \A c \in Pool(k) : beam[c] # None
             PROVE  FALSE
    OBVIOUS
<1>4. \A c \in Pool(k) : /\ beam[c] \in Beam /\ beam[c] # None
                         /\ beam[c].player \in Players
                         /\ beam[c] = [player |-> beam[c].player, mode |-> beam[c].mode]
      BY <1>2 DEF IInv, BulletsInv, Beam
<1>5. \A c \in Pool(k) : beam[c].player # p
  <2> SUFFICES ASSUME NEW c \in Pool(k), beam[c].player = p
               PROVE  FALSE
      OBVIOUS
  <2>1. beam[c].mode = k
        BY <1>2, <1>4 DEF IInv, BulletsInv, BeamsFit
  <2>2. beam[c] = [player |-> p, mode |-> k]
        BY <1>4, <2>1
  <2> QED BY <2>2, <1>2 DEF MayShoot
<1>6. \A c, d \in Pool(k) : beam[c].player = beam[d].player => c = d
  <2> SUFFICES ASSUME NEW c \in Pool(k), NEW d \in Pool(k),
                      beam[c].player = beam[d].player
               PROVE  c = d
      OBVIOUS
  <2>1. beam[c].mode = beam[d].mode
        BY <1>2, <1>4 DEF IInv, BulletsInv, BeamsFit
  <2>2. beam[c] = beam[d]
        BY <1>4, <2>1
  <2> QED BY <2>2, <1>2, <1>4 DEF IInv, BulletsInv, BeamsDiffer
<1>7. holder \in Injection(Pool(k), Players \ {p})
  <2>1. holder \in [Pool(k) -> Players \ {p}]
        BY <1>4, <1>5
  <2> QED BY <2>1, <1>6 DEF Injection, IsInjective
<1> HIDE DEF holder, k
<1>8. IsFiniteSet(Players \ {p}) /\ Cardinality(Players \ {p}) = Cardinality(Players) - 1
      BY <1>1, BigLaserAssumption, FS_RemoveElement
<1>9. Cardinality(Pool(k)) <= Cardinality(Players \ {p})
      BY <1>7, <1>8, FS_Injection
<1>10. Cardinality(Players) \in Nat
      BY BigLaserAssumption, FS_CardinalityType
<1> QED BY <1>3, <1>8, <1>9, <1>10

-----------------------------------------------------------------------------
(* What the players' hooks do to the players' part.                        *)
LEMMA SetModeOfTracked ==
    ASSUME PlayersInv, NEW p \in Players, NEW mode \in BigLaserMode,
           p \in Local \/ mode = cKillerWail, scene = "playing", UNCHANGED <<scene, alive>>,
           setMode(p, mode), reSetup(p, mode),
           clip' \in [Players -> Clip], kwClip' \in [Players -> Clip],
           ClipsAreReal', ClipsSaved'
    PROVE  PlayersInv'
<1>1. mMode' = [mMode EXCEPT ![p] = mode]
      BY DEF setMode
<1>2. mMode' \in [Players -> BigLaserMode] /\ ClonesAreKW'
      BY <1>1 DEF PlayersInv, ClonesAreKW
<1>3. CASE track[p] # None
  <2>1. /\ track' = [track EXCEPT ![p] = mode]
        /\ model' = [model EXCEPT ![p] = mode]
        BY <1>3 DEF reSetup
  <2>2. /\ track' \in [Players -> BigLaserMode \cup {None}]
        /\ model' \in [Players -> BigLaserMode \cup {None}]
        BY <2>1 DEF PlayersInv
  <2>3. ModelFollowsMode'
        BY <1>1, <2>1 DEF PlayersInv, ModelFollowsMode
  <2> QED BY <1>2, <2>2, <2>3 DEF PlayersInv, BlackIsKW
<1>4. CASE track[p] = None
  <2>1. UNCHANGED <<track, model>>
        BY <1>4 DEF reSetup
  <2>2. ModelFollowsMode'
        BY <1>1, <1>4, <2>1 DEF PlayersInv, ModelFollowsMode
  <2> QED BY <1>2, <2>1, <2>2 DEF PlayersInv, BlackIsKW
<1> QED BY <1>3, <1>4

LEMMA RevertPlayers ==
    ASSUME PlayersInv, NEW p \in Players, mMode[p] = cPrincessCannon, scene = "playing",
           UNCHANGED <<scene, alive>>, Revert(p)
    PROVE  PlayersInv'
<1>1. kwClip[p] \in Clip /\ kwClip[p] # NoClip
      BY DEF PlayersInv, ClipsSaved
<1>2. clip' = [clip EXCEPT ![p] = kwClip[p]] /\ kwClip' = kwClip
      BY DEF Revert, swapPlayerAnimsToKW
<1>3. mMode' = [mMode EXCEPT ![p] = cKillerWail]
      BY DEF Revert, setMode
<1>4. clip' \in [Players -> Clip] /\ ClipsAreReal'
      BY <1>1, <1>2 DEF PlayersInv, ClipsAreReal
<1>5. ClipsSaved'
      BY <1>2, <1>3, Names DEF PlayersInv, ClipsSaved
<1> QED BY <1>2, <1>4, <1>5, SetModeOfTracked, Names DEF PlayersInv, Revert, reSetupForPlayerKW

LEMMA PickupPlayers ==
    ASSUME PlayersInv, NEW p \in Players, bigLaserItemPickup(p)
    PROVE  PlayersInv'
<1>1. kwClip' = [kwClip EXCEPT ![p] = clip[p]] /\ clip' = [clip EXCEPT ![p] = cPrincessCannon]
      BY DEF bigLaserItemPickup, swapPlayerAnimsToPC
<1>2. mMode' = [mMode EXCEPT ![p] = cPrincessCannon]
      BY DEF bigLaserItemPickup, setMode
<1>3. clip' \in [Players -> Clip] /\ kwClip' \in [Players -> Clip] /\ ClipsAreReal'
      BY <1>1, Names DEF PlayersInv, ClipsAreReal, Clip
<1>4. ClipsSaved'
      BY <1>1, <1>2 DEF PlayersInv, ClipsSaved, ClipsAreReal
<1> QED BY <1>3, <1>4, SetModeOfTracked, Names DEF bigLaserItemPickup, reSetupForPlayer

LEMMA SetupAgainPlayers ==
    ASSUME PlayersInv, NEW p \in Players, NEW registered \in BOOLEAN, SetupAgain(p, registered)
    PROVE  PlayersInv'
<1> DEFINE c == IF registered THEN cKillerWail ELSE clip[p]
<1>1. c \in Clip /\ c # NoClip
      BY Names DEF PlayersInv, ClipsAreReal, Clip
<1>2. UNCHANGED <<scene, alive, mMode, track, model>>
      BY DEF SetupAgain
<1>3. CASE track[p] = cPrincessCannon
  <2>1. kwClip' = [kwClip EXCEPT ![p] = c] /\ clip' = [clip EXCEPT ![p] = cPrincessCannon]
        BY <1>3 DEF SetupAgain, swapPlayerAnimsToPC
  <2> HIDE DEF c
  <2>2. /\ clip' \in [Players -> Clip] /\ kwClip' \in [Players -> Clip]
        /\ ClipsAreReal' /\ ClipsSaved'
        BY <1>1, <1>2, <2>1, Names DEF PlayersInv, ClipsAreReal, ClipsSaved, Clip
  <2> QED BY <1>2, <2>2 DEF PlayersInv, ModelFollowsMode, ClonesAreKW, BlackIsKW
<1>4. CASE track[p] # cPrincessCannon
  <2>1. kwClip' = kwClip /\ clip' = [clip EXCEPT ![p] = c]
        BY <1>4 DEF SetupAgain
  <2> HIDE DEF c
  <2>2. clip' \in [Players -> Clip] /\ ClipsAreReal' /\ ClipsSaved'
        BY <1>1, <1>2, <2>1 DEF PlayersInv, ClipsAreReal, ClipsSaved
  <2> QED BY <1>2, <2>1, <2>2 DEF PlayersInv, ModelFollowsMode, ClonesAreKW, BlackIsKW
<1> QED BY <1>3, <1>4

-----------------------------------------------------------------------------
(* What the bullets' hooks do to the bullets' part.                        *)
LEMMA KindOfType == \A b : KindOf(b) \in BigLaserMode
    BY Names DEF KindOf

LEMMA ShotBulletsInv ==
    ASSUME BulletsInv, NEW p \in Players, MayShoot(p), mMode[p] \in BigLaserMode,
           NEW b \in Bullets, b \notin active, NEW s \in Bullets, beam[s] = None,
           mMode[p] = (IF p \in Local THEN KindOf(s) ELSE cKillerWail),
           beam' = [beam EXCEPT ![s] = [player |-> p, mode |-> mMode[p]]],
           active' = Activated(b, s)
    PROVE  BulletsInv'
<1> DEFINE new == [player |-> p, mode |-> mMode[p]]
<1>1. new \in Beam /\ new.player = p /\ new.mode = mMode[p] /\ new # None
      BY Names DEF Beam
<1>2. \A c \in Bullets : beam[c] # new
      BY DEF MayShoot
<1>3. beam' = [beam EXCEPT ![s] = new]
      OBVIOUS
<1> HIDE DEF new
<1>4. active' \subseteq Bullets /\ beam' \in [Bullets -> Beam \cup {None}]
      BY <1>1, <1>3 DEF BulletsInv, Activated
<1>5. ActiveBulletsHaveBeams'
      BY <1>1, <1>3 DEF BulletsInv, ActiveBulletsHaveBeams, Activated
<1>6. BeamsDiffer'
      BY <1>2, <1>3 DEF BulletsInv, BeamsDiffer
<1>7. BeamsFit'
      BY <1>1, <1>3 DEF BulletsInv, BeamsFit
<1> QED BY <1>4, <1>5, <1>6, <1>7 DEF BulletsInv

LEMMA FiredBullet ==
    ASSUME IInv, NEW p \in Local, MayShoot(p), NEW b \in Bullets, b \notin active,
           NEW s \in shotBullets(b, mMode[p])
    PROVE  s \in Bullets /\ beam[s] = None /\ KindOf(s) = mMode[p]
<1> DEFINE free == {c \in Pool(mMode[p]) : beam[c] = None}
<1>1. mMode[p] \in BigLaserMode
      BY BigLaserAssumption DEF IInv, PlayersInv
<1>2. \A c \in free : c \in Bullets /\ KindOf(c) = mMode[p]
      BY <1>1, BigLaserAssumption, Names DEF Pool, Bullets, KindOf, isBulletPrincessCannon
<1>3. free # {}
      BY PoolHasFree
<1>4. CASE KindOf(b) = mMode[p]
  <2>1. s = b
        BY <1>4 DEF shotBullets
  <2>2. beam[b] = None
        BY DEF IInv, BulletsInv, ActiveBulletsHaveBeams
  <2> QED BY <1>4, <2>1, <2>2
<1>5. CASE KindOf(b) # mMode[p]
  <2>1. s \in free
        BY <1>3, <1>5 DEF shotBullets
  <2> QED BY <1>2, <2>1
<1> QED BY <1>4, <1>5

-----------------------------------------------------------------------------
(* The steps that combine the parts.                                       *)
LEMMA ShotStep ==
    ASSUME IInv, NEW p \in Players, NEW b \in Bullets, NEW found \in Finds,
           Shot(p, b, found)
    PROVE  IInv'
<1>1. p \in Local /\ MayShoot(p) /\ b \notin active /\ UNCHANGED <<scene, alive>>
      BY DEF Shot
<1>2. PICK s \in shotBullets(b, mMode[p]) :
        LET q == initParamSets(par, found)
            kw == ~isBulletPrincessCannon(s)
            during == IF kw THEN swapToKW(q) ELSE q
        IN  /\ CallShot(p, s, during)
            /\ active' = Activated(b, s)
            /\ par' = IF kw THEN restorePC(during) ELSE during
            /\ IF kw THEN UNCHANGED <<mMode, track, model, clip, kwClip>> ELSE Revert(p)
      BY DEF Shot
<1>3. s \in Bullets /\ beam[s] = None /\ KindOf(s) = mMode[p]
      BY <1>1, FiredBullet
<1> DEFINE q == initParamSets(par, found)
           kw == ~isBulletPrincessCannon(s)
           during == IF kw THEN swapToKW(q) ELSE q
<1>4. /\ CallShot(p, s, during)
      /\ active' = Activated(b, s)
      /\ par' = IF kw THEN restorePC(during) ELSE during
      /\ IF kw THEN UNCHANGED <<mMode, track, model, clip, kwClip>> ELSE Revert(p)
      BY <1>2
<1>5. kw \in BOOLEAN /\ KindOf(s) = IF kw THEN cKillerWail ELSE cPrincessCannon
      BY DEF KindOf, isBulletPrincessCannon
<1>6. /\ during.cached /\ during.loaded =>
            during.value = IF kw THEN cKillerWail ELSE cPrincessCannon
      /\ Restored(IF kw THEN restorePC(during) ELSE during)
      BY <1>5, HookParams DEF IInv
<1> HIDE DEF q, kw, during
<1>7. BulletsInv'
      BY <1>1, <1>3, <1>4, KindOfType, ShotBulletsInv DEF IInv, CallShot
<1>8. PlayersInv'
  <2>1. CASE kw
        BY <2>1, <1>1, <1>4 DEF IInv, PlayersInv, ModelFollowsMode, ClipsAreReal,
                                ClonesAreKW, BlackIsKW, ClipsSaved
  <2>2. CASE ~kw
        BY <2>2, <1>1, <1>3, <1>4, <1>5, RevertPlayers DEF IInv, MayShoot
  <2> QED BY <2>1, <2>2
<1>9. CallInv'
  <2>1. call' = [fn |-> "shot", player |-> p, bullet |-> s,
                 mode |-> mMode[p], params |-> during]
        BY <1>4 DEF CallShot
  <2>2. ShotMatchesMode'
        BY <2>1, <1>3 DEF ShotMatchesMode
  <2>3. ParamsFitCall'
        BY <2>1, <1>3, <1>5, <1>6 DEF ParamsFitCall
  <2> QED BY <2>2, <2>3 DEF CallInv
<1> QED BY <1>1, <1>4, <1>6, <1>7, <1>8, <1>9 DEF IInv

LEMMA RemoteShotStep ==
    ASSUME IInv, NEW p \in Players, NEW b \in Bullets, NEW found \in Finds,
           RemoteShot(p, b, found)
    PROVE  IInv'
<1>1. /\ p \notin Local /\ MayShoot(p) /\ b \notin active
      /\ UNCHANGED <<scene, alive, track, model, clip, kwClip>>
      BY DEF RemoteShot
<1>2. mMode[p] = cKillerWail /\ mMode' = mMode
      BY <1>1 DEF IInv, PlayersInv, ClonesAreKW, RemoteShot, setMode
<1> DEFINE q == initParamSets(par, found)
           kw == mMode[p] = cKillerWail
           during == IF kw THEN swapToKW(q) ELSE q
<1>3. /\ CallShot(p, b, during)
      /\ par' = IF kw THEN restorePC(during) ELSE during
      BY DEF RemoteShot
<1>4. active' = Activated(b, b)
      BY DEF RemoteShot, Activated
<1>5. beam[b] = None
      BY <1>1 DEF IInv, BulletsInv, ActiveBulletsHaveBeams
<1>6. /\ during.cached /\ during.loaded =>
            during.value = IF kw THEN cKillerWail ELSE cPrincessCannon
      /\ Restored(IF kw THEN restorePC(during) ELSE during)
      BY HookParams DEF IInv
<1>7. kw
      BY <1>2
<1> HIDE DEF q, kw, during
<1>8. BulletsInv'
      BY <1>1, <1>2, <1>3, <1>4, <1>5, Names, ShotBulletsInv DEF IInv, CallShot
<1>9. PlayersInv'
      BY <1>1, <1>2 DEF IInv, PlayersInv, ModelFollowsMode, ClipsAreReal,
                        ClonesAreKW, BlackIsKW, ClipsSaved
<1>10. CallInv'
  <2>1. call' = [fn |-> "shot", player |-> p, bullet |-> b,
                 mode |-> mMode[p], params |-> during]
        BY <1>3 DEF CallShot
  <2>2. ShotMatchesMode'
        BY <2>1, <1>1 DEF ShotMatchesMode
  <2>3. ParamsFitCall'
        BY <2>1, <1>2, <1>6, <1>7 DEF ParamsFitCall
  <2> QED BY <2>2, <2>3 DEF CallInv
<1> QED BY <1>1, <1>3, <1>6, <1>8, <1>9, <1>10 DEF IInv

LEMMA BulletFirstCalcStep ==
    ASSUME IInv, NEW b \in Bullets, NEW found \in Finds, NEW over \in BOOLEAN,
           BulletFirstCalc(b, found, over)
    PROVE  IInv'
<1>1. /\ beam[b] # None /\ UNCHANGED <<scene, players>>
      /\ beam' = IF over THEN [beam EXCEPT ![b] = None] ELSE beam
      /\ active' = IF over THEN active \ {b} ELSE active
      BY DEF BulletFirstCalc
<1> DEFINE q == initParamSets(par, found)
           kw == ~isBulletPrincessCannon(b)
           during == IF kw THEN swapToKW(q) ELSE q
<1>2. /\ call' = [fn |-> "firstCalc", bullet |-> b, params |-> during]
      /\ par' = IF kw THEN restorePC(during) ELSE during
      BY DEF BulletFirstCalc
<1>3. kw \in BOOLEAN /\ KindOf(b) = IF kw THEN cKillerWail ELSE cPrincessCannon
      BY DEF KindOf, isBulletPrincessCannon
<1>4. /\ during.cached /\ during.loaded =>
            during.value = IF kw THEN cKillerWail ELSE cPrincessCannon
      /\ Restored(IF kw THEN restorePC(during) ELSE during)
      BY <1>3, HookParams DEF IInv
<1> HIDE DEF q, kw, during
<1>5. BulletsInv'
  <2>1. CASE over
        BY <2>1, <1>1, Names DEF IInv, BulletsInv, ActiveBulletsHaveBeams, BeamsDiffer, BeamsFit
  <2>2. CASE ~over
        BY <2>2, <1>1 DEF IInv, BulletsInv, ActiveBulletsHaveBeams, BeamsDiffer, BeamsFit
  <2> QED BY <2>1, <2>2
<1>6. PlayersInv'
      BY <1>1 DEF IInv, PlayersInv, players, ModelFollowsMode, ClipsAreReal,
                  ClonesAreKW, BlackIsKW, ClipsSaved
<1>7. CallInv'
  <2>1. ShotMatchesMode'
        BY <1>2 DEF ShotMatchesMode
  <2>2. ParamsFitCall'
        BY <1>2, <1>3, <1>4 DEF ParamsFitCall
  <2> QED BY <2>1, <2>2 DEF CallInv
<1> QED BY <1>1, <1>2, <1>4, <1>5, <1>6, <1>7 DEF IInv

LEMMA EnterSceneStep ==
    ASSUME IInv, NEW T \in SUBSET Players, NEW found \in Finds, EnterScene(T, found)
    PROVE  IInv'
<1>1. /\ scene = "black" /\ scene' = "playing" /\ UNCHANGED <<mMode, call>>
      /\ alive' = [p \in Players |-> TRUE]
      /\ track' = [p \in Players |-> IF p \in T THEN mMode[p] ELSE None]
      /\ model' = track'
      /\ clip' = [p \in Players |-> cKillerWail]
      /\ kwClip' = [p \in Players |-> NoClip]
      /\ active' = {} /\ beam' = [b \in Bullets |-> None]
      BY DEF EnterScene, resetBulletPools
<1>2. \A p \in Players : mMode[p] = cKillerWail
      BY <1>1 DEF IInv, PlayersInv, BlackIsKW
<1>3. Restored(par')
  <2> DEFINE q == [par EXCEPT !.cached = FALSE]
  <2>1. q \in ParamSets /\ q.value = par.value /\ q.cached = FALSE
        BY DEF IInv, Restored, ParamSets
  <2>2. par' = initParamSets(q, found)
        BY DEF EnterScene, resetBulletPools
  <2> HIDE DEF q
  <2>3. Restored(q)
        BY <2>1 DEF IInv, Restored
  <2> QED BY <2>2, <2>3, InitParamsRestored
<1>4. BulletsInv'
      BY <1>1 DEF BulletsInv, ActiveBulletsHaveBeams, BeamsDiffer, BeamsFit
<1>5. PlayersInv'
      BY <1>1, <1>2, Names DEF IInv, PlayersInv, ModelFollowsMode, ClipsAreReal,
                               ClonesAreKW, BlackIsKW, ClipsSaved, Clip
<1>6. CallInv'
      BY <1>1 DEF IInv, CallInv, ShotMatchesMode, ParamsFitCall
<1> QED BY <1>1, <1>3, <1>4, <1>5, <1>6 DEF IInv

(* A step that touches the players only.                                   *)
LEMMA PlayersStep ==
    ASSUME IInv, PlayersInv', scene' \in {"playing", "left", "black"},
           UNCHANGED <<par, active, beam, call>>
    PROVE  IInv'
<1>1. BulletsInv'
      BY DEF IInv, BulletsInv, ActiveBulletsHaveBeams, BeamsDiffer, BeamsFit
<1>2. CallInv'
      BY DEF IInv, CallInv, ShotMatchesMode, ParamsFitCall
<1> QED BY <1>1, <1>2 DEF IInv

LEMMA InitIInv == Init => IInv
<1> SUFFICES ASSUME Init PROVE IInv
    OBVIOUS
<1>1. PlayersInv
      BY Names DEF Init, PlayersInv, ModelFollowsMode, ClipsAreReal, ClonesAreKW,
                   BlackIsKW, ClipsSaved, Clip
<1>2. BulletsInv
      BY DEF Init, BulletsInv, ActiveBulletsHaveBeams, BeamsDiffer, BeamsFit
<1>3. CallInv
      BY DEF Init, CallInv, ShotMatchesMode, ParamsFitCall
<1>4. Restored(par)
      BY Names DEF Init, Restored, ParamSets
<1> QED BY <1>1, <1>2, <1>3, <1>4 DEF Init, IInv

LEMMA NextIInv == IInv /\ [Next]_vars => IInv'
<1> SUFFICES ASSUME IInv, [Next]_vars PROVE IInv'
    OBVIOUS
<1> USE DEF IInv
<1>1. CASE ResetModes
  <2>1. PlayersInv'
        BY <1>1, Names DEF ResetModes, PlayersInv, ModelFollowsMode, ClipsAreReal,
                           ClonesAreKW, BlackIsKW, ClipsSaved
  <2> QED BY <1>1, <2>1, PlayersStep DEF ResetModes
<1>2. CASE LeaveScene
  <2>1. PlayersInv'
        BY <1>2 DEF LeaveScene, players, PlayersInv, ModelFollowsMode, ClipsAreReal,
                    ClonesAreKW, BlackIsKW, ClipsSaved
  <2> QED BY <1>2, <2>1, PlayersStep DEF LeaveScene
<1>3. ASSUME NEW T \in SUBSET Players, NEW found \in Finds, EnterScene(T, found)
      PROVE  IInv'
      BY <1>3, EnterSceneStep
<1>4. ASSUME NEW p \in Players, CreateWeapon(p)
      PROVE  IInv'
  <2>1. PlayersInv'
        BY <1>4 DEF CreateWeapon, PlayersInv, ModelFollowsMode, ClipsAreReal,
                    ClonesAreKW, BlackIsKW, ClipsSaved
  <2> QED BY <1>4, <2>1, PlayersStep DEF CreateWeapon
<1>5. ASSUME NEW p \in Players, bigLaserItemPickup(p)
      PROVE  IInv'
      BY <1>5, PickupPlayers, PlayersStep DEF bigLaserItemPickup
<1>6. ASSUME NEW p \in Players, Die(p)
      PROVE  IInv'
  <2>1. PlayersInv'
        BY <1>6 DEF Die, PlayersInv, ModelFollowsMode, ClipsAreReal,
                    ClonesAreKW, BlackIsKW, ClipsSaved
  <2> QED BY <1>6, <2>1, PlayersStep DEF Die
<1>7. ASSUME NEW p \in Players, weaponFourthCalc(p)
      PROVE  IInv'
  <2>1. mMode[p] = cPrincessCannon
        BY <1>7, Names DEF weaponFourthCalc, PlayersInv, ModelFollowsMode
  <2>2. PlayersInv'
        BY <1>7, <2>1, RevertPlayers DEF weaponFourthCalc
  <2> QED BY <1>7, <2>2, PlayersStep DEF weaponFourthCalc
<1>8. ASSUME NEW p \in Players, Respawn(p)
      PROVE  IInv'
  <2>1. PlayersInv'
        BY <1>8 DEF Respawn, PlayersInv, ModelFollowsMode, ClipsAreReal,
                    ClonesAreKW, BlackIsKW, ClipsSaved
  <2> QED BY <1>8, <2>1, PlayersStep DEF Respawn
<1>9. ASSUME NEW p \in Players, NEW registered \in BOOLEAN, SetupAgain(p, registered)
      PROVE  IInv'
      BY <1>9, SetupAgainPlayers, PlayersStep DEF SetupAgain
<1>10. ASSUME NEW p \in Players, NEW b \in Bullets, NEW found \in Finds, Shot(p, b, found)
       PROVE  IInv'
       BY <1>10, ShotStep
<1>11. ASSUME NEW p \in Players, NEW b \in Bullets, NEW found \in Finds,
              RemoteShot(p, b, found)
       PROVE  IInv'
       BY <1>11, RemoteShotStep
<1>12. ASSUME NEW b \in Bullets, NEW found \in Finds, NEW over \in BOOLEAN,
              BulletFirstCalc(b, found, over)
       PROVE  IInv'
       BY <1>12, BulletFirstCalcStep
<1>13. CASE UNCHANGED vars
  <2>1. PlayersInv'
        BY <1>13 DEF vars, players, PlayersInv, ModelFollowsMode, ClipsAreReal,
                     ClonesAreKW, BlackIsKW, ClipsSaved
  <2> QED BY <1>13, <2>1, PlayersStep DEF vars
<1> USE DEF Next
<1> HIDE DEF IInv
<1> QED BY <1>1, <1>2, <1>3, <1>4, <1>5, <1>6, <1>7, <1>8, <1>9, <1>10, <1>11, <1>12, <1>13

(* The five places always agree, in every match and over any number of     *)
(* matches (source/BigLaserModeMgr.cpp).                                   *)
THEOREM Invariance == Spec => []IInv
    BY InitIInv, NextIInv, PTL DEF Spec

(* No hook ever leaves the values it works with.                           *)
THEOREM TypeCorrect == Spec => []TypeOK
<1>1. IInv => TypeOK
      BY Names DEF IInv, PlayersInv, BulletsInv, Restored, TypeOK
<1> QED BY <1>1, Invariance, PTL

(* However many players shoot at once, a local player's shot comes from a  *)
(* bullet of its mode (source/BigLaserModeMgr.cpp:898-905).                *)
THEOREM ShotsMatch == Spec => []ShotMatchesMode
<1>1. IInv => ShotMatchesMode
      BY DEF IInv, CallInv
<1> QED BY <1>1, Invariance, PTL

(* The engine never works with the other special's parameters (353-435).   *)
THEOREM ParamsFit == Spec => []ParamsFitCall
<1>1. IInv => ParamsFitCall
      BY DEF IInv, CallInv
<1> QED BY <1>1, Invariance, PTL

(* A weapon shows its player's mode (598-641, 745-766).                    *)
THEOREM ModelsFollow == Spec => []ModelFollowsMode
<1>1. IInv => ModelFollowsMode
      BY DEF IInv, PlayersInv
<1> QED BY <1>1, Invariance, PTL

(* No bullet is left behind in the active list (936-938).                  *)
THEOREM NoneLeftActive == Spec => []ActiveBulletsHaveBeams
<1>1. IInv => ActiveBulletsHaveBeams
      BY DEF IInv, BulletsInv
<1> QED BY <1>1, Invariance, PTL

(* A player is never given the clip 0 (695).                               *)
THEOREM ClipsReal == Spec => []ClipsAreReal
<1>1. IInv => ClipsAreReal
      BY DEF IInv, PlayersInv
<1> QED BY <1>1, Invariance, PTL
-----------------------------------------------------------------------------
(* The Killer Wail's clip is lost in one way only.  The cannon's clips are *)
(* put in place a second time, by a pickup with the cannon held or by a    *)
(* set-up that does not register the player's own clips first, and what is *)
(* saved then is the cannon's clip.                                        *)
SavedTwice ==
    \E p \in Players :
        /\ mMode[p] = cPrincessCannon
        /\ bigLaserItemPickup(p) \/ SetupAgain(p, FALSE)

(* The clip in place, or the one to go back to, is the Killer Wail's. *)
OwnClip(p) ==
    IF mMode[p] = cKillerWail THEN clip[p] = cKillerWail ELSE kwClip[p] = cKillerWail

ClipsFit == scene = "playing" => \A p \in Players : OwnClip(p)

(* A step that changes what is kept of one player at most.                 *)
LEMMA OneOwnClip ==
    ASSUME ClipsFit, scene = "playing", NEW p \in Players, OwnClip(p)',
           \A q \in Players \ {p} : /\ mMode'[q] = mMode[q] /\ clip'[q] = clip[q]
                                    /\ kwClip'[q] = kwClip[q]
    PROVE  ClipsFit'
BY DEF ClipsFit, OwnClip

LEMMA RevertClips ==
    ASSUME IInv, ClipsFit, scene = "playing", NEW p \in Players,
           mMode[p] = cPrincessCannon, Revert(p)
    PROVE  ClipsFit'
<1>1. /\ mMode' = [mMode EXCEPT ![p] = cKillerWail]
      /\ clip' = [clip EXCEPT ![p] = kwClip[p]] /\ kwClip' = kwClip
      BY DEF Revert, setMode, swapPlayerAnimsToKW
<1>2. DOMAIN mMode = Players /\ DOMAIN clip = Players
      BY DEF IInv, PlayersInv
<1>3. kwClip[p] = cKillerWail
      BY Names DEF ClipsFit, OwnClip
<1>4. OwnClip(p)'
      BY <1>1, <1>2, <1>3 DEF OwnClip
<1> QED BY <1>1, <1>2, <1>4, OneOwnClip

LEMMA CannonClips ==
    ASSUME IInv, ClipsFit, scene = "playing", NEW p \in Players, NEW c,
           c = cKillerWail, swapPlayerAnimsToPC(p, c),
           mMode' = [mMode EXCEPT ![p] = cPrincessCannon]
    PROVE  ClipsFit'
<1>1. /\ kwClip' = [kwClip EXCEPT ![p] = c]
      /\ clip' = [clip EXCEPT ![p] = cPrincessCannon]
      BY DEF swapPlayerAnimsToPC
<1>2. DOMAIN mMode = Players /\ DOMAIN clip = Players /\ DOMAIN kwClip = Players
      BY DEF IInv, PlayersInv
<1>3. OwnClip(p)'
      BY <1>1, <1>2, Names DEF OwnClip
<1> QED BY <1>1, <1>2, <1>3, OneOwnClip

LEMMA SetupAgainClips ==
    ASSUME IInv, ClipsFit, NEW p \in Players, NEW registered \in BOOLEAN,
           SetupAgain(p, registered), ~SavedTwice
    PROVE  ClipsFit'
<1> DEFINE c == IF registered THEN cKillerWail ELSE clip[p]
<1>1. scene = "playing" /\ track[p] # None /\ mMode' = mMode
      BY DEF SetupAgain
<1>2. track[p] = mMode[p] /\ mMode \in [Players -> BigLaserMode] /\ DOMAIN clip = Players
      BY <1>1 DEF IInv, PlayersInv, ModelFollowsMode
<1>3. CASE mMode[p] = cPrincessCannon
  <2>1. registered
        BY <1>3 DEF SavedTwice
  <2>2. swapPlayerAnimsToPC(p, cKillerWail)
        BY <1>2, <1>3, <2>1 DEF SetupAgain
  <2>3. mMode' = [mMode EXCEPT ![p] = cPrincessCannon]
        BY <1>1, <1>2, <1>3
  <2> QED BY <1>1, <2>2, <2>3, CannonClips
<1>4. CASE mMode[p] = cKillerWail
  <2>1. clip' = [clip EXCEPT ![p] = c] /\ kwClip' = kwClip
        BY <1>2, <1>4, Names DEF SetupAgain
  <2>2. c = cKillerWail
        BY <1>1, <1>4 DEF ClipsFit, OwnClip
  <2>3. OwnClip(p)'
        BY <1>1, <1>2, <1>4, <2>1, <2>2 DEF OwnClip
  <2> QED BY <1>1, <1>2, <2>1, <2>3, OneOwnClip
<1> QED BY <1>3, <1>4, Names DEF IInv, PlayersInv

LEMMA ClipsStep ==
    IInv /\ IInv' /\ ClipsFit /\ [Next]_vars /\ [~SavedTwice]_vars => ClipsFit'
<1> SUFFICES ASSUME IInv, IInv', ClipsFit, [Next]_vars, [~SavedTwice]_vars
             PROVE  ClipsFit'
    OBVIOUS
<1>1. ASSUME UNCHANGED <<scene, mMode, clip, kwClip>> PROVE ClipsFit'
      BY <1>1 DEF ClipsFit, OwnClip
<1>2. ASSUME scene' # "playing" PROVE ClipsFit'
      BY <1>2 DEF ClipsFit
<1>3. CASE UNCHANGED vars
      BY <1>1, <1>3 DEF vars, players
<1>4. CASE ResetModes \/ LeaveScene
      BY <1>2, <1>4 DEF ResetModes, LeaveScene
<1>5. ASSUME NEW T \in SUBSET Players, NEW found \in Finds, EnterScene(T, found)
      PROVE  ClipsFit'
  <2>1. /\ \A p \in Players : mMode'[p] = cKillerWail
        /\ clip' = [p \in Players |-> cKillerWail]
        BY <1>5 DEF EnterScene, IInv, PlayersInv, BlackIsKW
  <2> QED BY <2>1 DEF ClipsFit, OwnClip
<1>6. ASSUME NEW p \in Players, CreateWeapon(p) \/ Die(p) \/ Respawn(p)
      PROVE  ClipsFit'
      BY <1>1, <1>6 DEF CreateWeapon, Die, Respawn
<1>7. ASSUME NEW p \in Players, bigLaserItemPickup(p)
      PROVE  ClipsFit'
  <2>1. /\ scene = "playing" /\ swapPlayerAnimsToPC(p, clip[p])
        /\ mMode' = [mMode EXCEPT ![p] = cPrincessCannon]
        BY <1>7 DEF bigLaserItemPickup, setMode
  <2>2. CASE mMode[p] = cPrincessCannon
    <3>1. UNCHANGED vars
          BY <1>7, <2>2 DEF SavedTwice
    <3> QED BY <1>3, <3>1
  <2>3. CASE mMode[p] = cKillerWail
    <3>1. clip[p] = cKillerWail
          BY <2>1, <2>3 DEF ClipsFit, OwnClip
    <3> QED BY <2>1, <3>1, CannonClips
  <2> QED BY <2>2, <2>3, Names DEF IInv, PlayersInv
<1>8. ASSUME NEW p \in Players, weaponFourthCalc(p)
      PROVE  ClipsFit'
  <2>1. scene = "playing" /\ track[p] = cPrincessCannon /\ Revert(p)
        BY <1>8 DEF weaponFourthCalc
  <2>2. mMode[p] = cPrincessCannon
        BY <2>1, Names DEF IInv, PlayersInv, ModelFollowsMode
  <2> QED BY <2>1, <2>2, RevertClips
<1>9. ASSUME NEW p \in Players, NEW registered \in BOOLEAN, SetupAgain(p, registered)
      PROVE  ClipsFit'
  <2>1. CASE UNCHANGED vars
        BY <1>3, <2>1
  <2>2. CASE ~SavedTwice
        BY <1>9, <2>2, SetupAgainClips
  <2> QED BY <2>1, <2>2
<1>10. ASSUME NEW p \in Players, NEW b \in Bullets, NEW found \in Finds, Shot(p, b, found)
       PROVE  ClipsFit'
  <2>1. PICK s \in shotBullets(b, mMode[p]) :
          /\ \E q : CallShot(p, s, q)
          /\ IF isBulletPrincessCannon(s) THEN Revert(p)
             ELSE UNCHANGED <<mMode, track, model, clip, kwClip>>
        BY <1>10 DEF Shot
  <2>2. scene = "playing" /\ scene' = scene /\ p \in Local
        BY <1>10 DEF Shot, MayShoot
  <2>3. CASE isBulletPrincessCannon(s)
    <3>1. KindOf(s) = mMode[p]
          BY <2>1, <2>2 DEF CallShot, IInv, CallInv, ShotMatchesMode
    <3> QED BY <2>1, <2>2, <2>3, <3>1, RevertClips DEF KindOf
  <2>4. CASE ~isBulletPrincessCannon(s)
        BY <1>1, <2>1, <2>2, <2>4
  <2> QED BY <2>3, <2>4
<1>11. ASSUME NEW p \in Players, NEW b \in Bullets, NEW found \in Finds,
              RemoteShot(p, b, found)
       PROVE  ClipsFit'
  <2>1. mMode[p] = cKillerWail /\ mMode \in [Players -> BigLaserMode]
        BY <1>11 DEF RemoteShot, IInv, PlayersInv, ClonesAreKW
  <2>2. mMode' = [mMode EXCEPT ![p] = cKillerWail] /\ UNCHANGED <<scene, clip, kwClip>>
        BY <1>11 DEF RemoteShot, setMode
  <2> QED BY <1>1, <2>1, <2>2
<1>12. ASSUME NEW b \in Bullets, NEW found \in Finds, NEW over \in BOOLEAN,
              BulletFirstCalc(b, found, over)
       PROVE  ClipsFit'
       BY <1>1, <1>12 DEF BulletFirstCalc, players
<1> QED BY <1>3, <1>4, <1>5, <1>6, <1>7, <1>8, <1>9, <1>10, <1>11, <1>12 DEF Next

(* Where the cannon's clips are not put in place twice, a player in Killer *)
(* Wail mode has the Killer Wail's clips, through every shot, death and    *)
(* scene (source/BigLaserModeMgr.cpp:650-745).                             *)
THEOREM ClipsFollow == Spec /\ [][~SavedTwice]_vars => []ClipsFollowMode
<1>1. Init => ClipsFit
      BY DEF Init, ClipsFit
<1>2. ClipsFit => ClipsFollowMode
      BY DEF ClipsFit, OwnClip, ClipsFollowMode
<1> QED BY <1>1, <1>2, ClipsStep, Invariance, PTL DEF Spec
=============================================================================
