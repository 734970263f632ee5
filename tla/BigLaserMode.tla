---------------------------- MODULE BigLaserMode ----------------------------
(***************************************************************************)
(* The two specials behind one weapon (source/BigLaserModeMgr.cpp): every  *)
(* player's big laser is the Killer Wail until an item turns it into the   *)
(* Princess Cannon for one shot.  A mode is spread over five places: the   *)
(* mode of the player, the model of the weapon, the animation clips, the   *)
(* pool the bullet comes from and the global parameter set.                *)
(*                                                                         *)
(* One console.  Local are the players simulated on it, the others are     *)
(* clones; the game loop is one thread, so a hook is one step.             *)
(***************************************************************************)
EXTENDS Integers, FiniteSets

CONSTANTS Players, Local,
          KWBullets, PCBullets,   \* sKWBullets, sPCBullets
          EngineBullets,          \* the bullets the engine made itself
          None

cKillerWail == "KillerWail"
cPrincessCannon == "PrincessCannon"
BigLaserMode == {cKillerWail, cPrincessCannon}

Bullets == KWBullets \cup PCBullets \cup EngineBullets

Beam == [player : Players, mode : BigLaserMode]

ASSUME BigLaserAssumption ==
    /\ Local \subseteq Players
    /\ IsFiniteSet(Players) /\ IsFiniteSet(KWBullets) /\ IsFiniteSet(PCBullets)
    /\ Cardinality(KWBullets) = Cardinality(Players)
    /\ Cardinality(PCBullets) = Cardinality(Players)
    /\ KWBullets \cap PCBullets = {}
    /\ EngineBullets \cap PCBullets = {}
    /\ None \notin BigLaserMode \cup Beam

VARIABLES scene,    \* "playing"; "left", or "black" once the frame hook saw it
          alive,    \* isAlive and not isInTrouble_Dying
          mMode,
          track,    \* sWeaponTracks: activeMode per weapon, None if untracked
          model,    \* weapon+0x338 and +0x4F8, always written together
          clip,     \* the registered animation clips
          kwClip,   \* kwClipId of the clips' cache entry
          par,      \* the global parameters and what is cached of them
          active,   \* the bullets in the engine's active list
          beam,     \* who shot a bullet, in which mode, while its beam lasts
          call      \* the last call of the engine's shot or firstCalc

players == <<alive, mMode, track, model, clip, kwClip>>
vars == <<scene, players, par, active, beam, call>>

NoClip == "0"
Clip == BigLaserMode \cup {NoClip}

-----------------------------------------------------------------------------
(* The parameter sets.                                                     *)

ParamSets == [cached : BOOLEAN,                    \* sParamPtrsCached
              loaded : BOOLEAN,                    \* sKWValuesLoaded
              value : BigLaserMode \cup {None},    \* the values in place
              saved : BigLaserMode \cup {None}]    \* sSavedPCValues

(* What initParamSets finds: no parameters yet, no room for the Killer     *)
(* Wail set, or both.                                                      *)
Finds == {"nothing", "no heap", "all"}

initParamSets(q, found) ==
    IF (q.cached /\ q.loaded) \/ found = "nothing" THEN q
    ELSE LET loaded == q.loaded \/ found = "all"
         IN  [q EXCEPT !.cached = TRUE, !.loaded = loaded,
                       !.saved = IF loaded THEN q.value ELSE @]

swapToKW(q) ==
    IF q.cached /\ q.loaded THEN [q EXCEPT !.value = cKillerWail] ELSE q

(* Restores without asking whether anything was saved. *)
restorePCUnchecked(q) == [q EXCEPT !.value = q.saved]

restorePCNever(q) == q

restorePC(q) == IF q.cached /\ q.loaded THEN [q EXCEPT !.value = q.saved] ELSE q

-----------------------------------------------------------------------------
(* The players' weapons and animations, one entry per player.              *)

(* reSetupForPlayer and reSetupForPlayerKW, on the tracked weapon. *)
reSetup(p, mode) ==
    IF track[p] # None
    THEN /\ track' = [track EXCEPT ![p] = mode]
         /\ model' = [model EXCEPT ![p] = mode]
    ELSE UNCHANGED <<track, model>>

(* The weapon keeps its model. *)
reSetupForPlayerKWNever(p) == UNCHANGED <<track, model>>

reSetupForPlayerKW(p) == reSetup(p, cKillerWail)

reSetupForPlayer(p) == reSetup(p, cPrincessCannon)

(* The clips are overwritten before the old ones are saved. *)
swapPlayerAnimsToPCUnsaved(p, c) ==
    /\ clip' = [clip EXCEPT ![p] = cPrincessCannon]
    /\ UNCHANGED kwClip

(* c is the clip registered at that moment. *)
swapPlayerAnimsToPC(p, c) ==
    /\ kwClip' = [kwClip EXCEPT ![p] = c]
    /\ clip' = [clip EXCEPT ![p] = cPrincessCannon]

swapPlayerAnimsToKW(p) ==
    /\ clip' = [clip EXCEPT ![p] = kwClip[p]]
    /\ UNCHANGED kwClip

setMode(p, mode) == mMode' = [mMode EXCEPT ![p] = mode]

(* Back to the Killer Wail: after the one shot, and on death. *)
Revert(p) ==
    /\ setMode(p, cKillerWail)
    /\ reSetupForPlayerKW(p)
    /\ swapPlayerAnimsToKW(p)

-----------------------------------------------------------------------------
(* The bullets.                                                            *)

isBulletPrincessCannon(b) == b \in PCBullets

KindOf(b) == IF isBulletPrincessCannon(b) THEN cPrincessCannon ELSE cKillerWail

Pool(mode) == IF mode = cPrincessCannon THEN PCBullets ELSE KWBullets

(* The bullet the engine allocated is fired, whatever its kind. *)
shotBulletsAsAllocated(b, mode) == {b}

(* The bullets that may be fired when the engine allocated b. *)
shotBullets(b, mode) ==
    LET free == {c \in Pool(mode) : beam[c] = None}
    IN  IF KindOf(b) = mode \/ free = {} THEN {b} ELSE free

(* The allocated bullet stays in the active list next to the fired one. *)
ActivatedBoth(b, s) == active \cup {b, s}

(* The list once the wrong bullet is unlinked. *)
Activated(b, s) == (active \ {b}) \cup {s}

(* The engine's shot of s, with the parameters q it reads. *)
CallShot(p, s, q) ==
    /\ beam' = [beam EXCEPT ![s] = [player |-> p, mode |-> mMode[p]]]
    /\ call' = [fn |-> "shot", player |-> p, bullet |-> s,
                mode |-> mMode[p], params |-> q]

(* One beam per player and mode: a beam is over long before its player has *)
(* the next shot of that kind. *)
MayShoot(p) ==
    scene = "playing" /\ alive[p] /\ \A b \in Bullets : beam[b] # [player |-> p, mode |-> mMode[p]]

-----------------------------------------------------------------------------
(* The original parameters are the Princess Cannon's.                      *)
Init ==
    /\ scene = "left"
    /\ alive = [p \in Players |-> FALSE]
    /\ mMode = [p \in Players |-> cKillerWail]
    /\ track = [p \in Players |-> None]
    /\ model = [p \in Players |-> None]
    /\ clip = [p \in Players |-> cKillerWail]
    /\ kwClip = [p \in Players |-> NoClip]
    /\ par = [cached |-> FALSE, loaded |-> FALSE, value |-> cPrincessCannon, saved |-> None]
    /\ active = {}
    /\ beam = [b \in Bullets |-> None]
    /\ call = [fn |-> "none"]

(* The frame hook finds no scene loaded. *)
ResetModes ==
    /\ scene = "left"
    /\ scene' = "black"
    /\ mMode' = [p \in Players |-> cKillerWail]
    /\ UNCHANGED <<alive, track, model, clip, kwClip, par, active, beam, call>>

(* The pointers are looked up again in every scene; the values are kept.   *)
resetBulletPools(q) == [q EXCEPT !.cached = FALSE]

(* extraBigLaserBulletHook; then the animations are registered and the     *)
(* weapons of the players T set up.                                        *)
EnterScene(T, found) ==
    /\ scene = "black"
    /\ scene' = "playing"
    /\ alive' = [p \in Players |-> TRUE]
    /\ track' = [p \in Players |-> IF p \in T THEN mMode[p] ELSE None]
    /\ model' = track'
    /\ clip' = [p \in Players |-> cKillerWail]
    /\ kwClip' = [p \in Players |-> NoClip]
    /\ par' = initParamSets(resetBulletPools(par), found)
    /\ active' = {}
    /\ beam' = [b \in Bullets |-> None]
    /\ UNCHANGED <<mMode, call>>

LeaveScene ==
    /\ scene = "playing"
    /\ scene' = "left"
    /\ UNCHANGED <<players, par, active, beam, call>>

(* A weapon made later: initWeaponXLink and the first setupWithModel. *)
CreateWeapon(p) ==
    /\ scene = "playing" /\ track[p] = None
    /\ track' = [track EXCEPT ![p] = mMode[p]]
    /\ model' = [model EXCEPT ![p] = mMode[p]]
    /\ UNCHANGED <<scene, alive, mMode, clip, kwClip, par, active, beam, call>>

(* setupWithModel of a tracked weapon, with the clips registered anew or   *)
(* not.                                                                    *)
SetupAgain(p, registered) ==
    LET c == IF registered THEN cKillerWail ELSE clip[p]
    IN  /\ scene = "playing" /\ track[p] # None
        /\ IF track[p] = cPrincessCannon
           THEN swapPlayerAnimsToPC(p, c)
           ELSE clip' = [clip EXCEPT ![p] = c] /\ UNCHANGED kwClip
        /\ UNCHANGED <<scene, alive, mMode, track, model, par, active, beam, call>>

bigLaserItemPickup(p) ==
    /\ scene = "playing" /\ p \in Local /\ alive[p]
    /\ setMode(p, cPrincessCannon)
    /\ reSetupForPlayer(p)
    /\ swapPlayerAnimsToPC(p, clip[p])
    /\ UNCHANGED <<scene, alive, par, active, beam, call>>

Die(p) ==
    /\ scene = "playing" /\ alive[p]
    /\ alive' = [alive EXCEPT ![p] = FALSE]
    /\ UNCHANGED <<scene, mMode, track, model, clip, kwClip, par, active, beam, call>>

weaponFourthCalc(p) ==
    /\ scene = "playing" /\ ~alive[p] /\ track[p] = cPrincessCannon
    /\ Revert(p)
    /\ UNCHANGED <<scene, alive, par, active, beam, call>>

(* A player stays dead for many frames, and the weapon's fourthCalc runs   *)
(* in each.                                                                *)
Respawn(p) ==
    /\ scene = "playing" /\ ~alive[p] /\ track[p] # cPrincessCannon
    /\ alive' = [alive EXCEPT ![p] = TRUE]
    /\ UNCHANGED <<scene, mMode, track, model, clip, kwClip, par, active, beam, call>>

(* bulletSuperLaserShotHook; the engine allocated b.                       *)
Shot(p, b, found) ==
    /\ MayShoot(p) /\ p \in Local /\ track[p] # None
    /\ b \notin active
    /\ \E s \in shotBullets(b, mMode[p]) :
         LET q == initParamSets(par, found)
             kw == ~isBulletPrincessCannon(s)
             during == IF kw THEN swapToKW(q) ELSE q
         IN  /\ CallShot(p, s, during)
             /\ active' = Activated(b, s)
             /\ par' = IF kw THEN restorePC(during) ELSE during
             /\ IF kw THEN UNCHANGED <<mMode, track, model, clip, kwClip>> ELSE Revert(p)
    /\ UNCHANGED <<scene, alive>>

(* handleBulletCloneEventHook, the shot of a clone: the engine's own       *)
(* receiver fires the bullet it allocated.                                 *)
RemoteShot(p, b, found) ==
    /\ MayShoot(p) /\ p \notin Local
    /\ b \notin active
    /\ LET q == initParamSets(par, found)
           kw == mMode[p] = cKillerWail
           during == IF kw THEN swapToKW(q) ELSE q
       IN  /\ CallShot(p, b, during)
           /\ par' = IF kw THEN restorePC(during) ELSE during
           /\ setMode(p, cKillerWail)
    /\ active' = active \cup {b}
    /\ UNCHANGED <<scene, alive, track, model, clip, kwClip>>

(* bulletFirstCalcHook; the beam may end in it.                            *)
BulletFirstCalc(b, found, over) ==
    /\ scene = "playing" /\ beam[b] # None
    /\ LET q == initParamSets(par, found)
           kw == ~isBulletPrincessCannon(b)
           during == IF kw THEN swapToKW(q) ELSE q
       IN  /\ call' = [fn |-> "firstCalc", bullet |-> b, params |-> during]
           /\ par' = IF kw THEN restorePC(during) ELSE during
    /\ beam' = IF over THEN [beam EXCEPT ![b] = None] ELSE beam
    /\ active' = IF over THEN active \ {b} ELSE active
    /\ UNCHANGED <<scene, players>>

Next ==
    \/ ResetModes \/ LeaveScene
    \/ \E T \in SUBSET Players, found \in Finds : EnterScene(T, found)
    \/ \E p \in Players :
         \/ CreateWeapon(p) \/ bigLaserItemPickup(p)
         \/ Die(p) \/ weaponFourthCalc(p) \/ Respawn(p)
         \/ \E registered \in BOOLEAN : SetupAgain(p, registered)
         \/ \E b \in Bullets, found \in Finds : Shot(p, b, found) \/ RemoteShot(p, b, found)
    \/ \E b \in Bullets, found \in Finds, over \in BOOLEAN : BulletFirstCalc(b, found, over)

Spec == Init /\ [][Next]_vars

-----------------------------------------------------------------------------
(* The type invariant; NoClip never reaches the players, see below.        *)
TypeOK ==
    /\ scene \in {"playing", "left", "black"}
    /\ alive \in [Players -> BOOLEAN]
    /\ mMode \in [Players -> BigLaserMode]
    /\ track \in [Players -> BigLaserMode \cup {None}]
    /\ model \in [Players -> BigLaserMode \cup {None}]
    /\ clip \in [Players -> Clip] /\ kwClip \in [Players -> Clip]
    /\ par \in ParamSets /\ par.value \in BigLaserMode
    /\ active \subseteq Bullets
    /\ beam \in [Bullets -> Beam \cup {None}]

(* Every shot of a local player is fired from a bullet of the player's     *)
(* mode, however the allocator's choices and other beams fall              *)
(* (source/BigLaserModeMgr.cpp:898-905).                                   *)
ShotMatchesMode ==
    call.fn = "shot" /\ call.player \in Local => KindOf(call.bullet) = call.mode

(* The engine reads the parameters of the kind it works for: the player's  *)
(* mode at a shot, the bullet's kind in every later frame; also when the   *)
(* parameters were read again in a later scene (353-435).                  *)
ParamsFitCall ==
    call.fn # "none" /\ call.params.cached /\ call.params.loaded =>
        call.params.value = IF call.fn = "shot" THEN call.mode ELSE KindOf(call.bullet)

(* A weapon shows the model of its player's mode, and the tracking says    *)
(* the same (598-641, 745-766).                                            *)
ModelFollowsMode ==
    scene = "playing" => \A p \in Players : track[p] # None =>
                           track[p] = mMode[p] /\ model[p] = mMode[p]

(* No bullet stays in the active list without a beam: it would be          *)
(* processed and replay old effects (936-938).                             *)
ActiveBulletsHaveBeams == active = {b \in Bullets : beam[b] # None}

(* A player's clips are always those of one of the modes, never the 0 the  *)
(* cache starts with (695).                                                *)
ClipsAreReal == \A p \in Players : clip[p] # NoClip

(* A player in Killer Wail mode has the Killer Wail's clips: the cache     *)
(* keeps the "OldBigLaser clip ID (for KW mode, captured at cache time)"   *)
(* (source/BigLaserModeMgr.cpp:650).                                       *)
ClipsFollowMode ==
    scene = "playing" => \A p \in Players : mMode[p] = cKillerWail => clip[p] = cKillerWail
=============================================================================
