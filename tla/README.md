# Project Gamblitz Starlight: a verification project

Project Gamblitz Starlight is a modification of a console game. It is a library
of hooks: the engine calls the code in `source/` from its game loop, and the code
calls back into the engine. It brings back weapons and specials of an older game
(the Inkstrike, the Killer Wail), changes the list of private-match maps, and adds
a few enemies and menus. This directory holds TLA+ models of the parts that keep
state over frames, TLC configurations that check them on small instances, and
proofs, checked by TLAPS, that the most important properties hold for every value
of the constants.

Line numbers below are those of `source/<file>`.

Contents

1. The system: its parts, their state and how they interact
2. Modules, and how they correspond to the code
3. What each run checks, its bounds and what it shows
4. Where the code and its comments disagree
5. Fairness and modelling assumptions
6. What is proved, and along which argument
7. What is not modelled
8. Plan

## 1. The system

### How the code runs

There is one game-loop thread. In a frame the engine calls, for every player,
`firstCalc` ... `fourthCalc`, for every awake actor its `vtFirstCalc` and
`vtSecondCalc`, and a few global hooks (`onCalc` of each manager, scene enter).
One call of a hook is one step of a model. The order of the calls inside a pass of
a frame is the engine's, so the models take any order. Actors are activated and put
to sleep by *reservation*: the request is recorded in one place and carried out by
the engine between frames. A second thread (the file logger) waits on a queue that
no code fills.

Concurrency therefore takes four shapes here, and they are where the properties aim:

- callbacks of several actors in an order nobody wrote down, on shared globals;
- requests that are carried out frames later;
- consoles that tell each other events, late and out of order;
- state that survives what it belongs to: an activation, a match, a scene, the save file.

### Components

| Component | State | Operations | Talks to | What makes it correct |
|---|---|---|---|---|
| Inkstrike manager (`InkstrikeMgr.cpp`, hooks in `main.cpp`) | per player: `playerState`, `mActiveSlot`, frame stamps, `mWasAHeld`, `mRemoteShotPending`, `mNoControlPtr`; global `mMatchEnding` | `detectChangeState`, one state function per state, `informShotInkstrike`, `resetForCleanup`, `onCalc`, `onEnterScene` | two projectiles per player, the tank inhibitor, `isSleepingAllHook`, the network's Shot event | an activation always ends and gives the player control back; every shot flies; the match can end |
| Inkstrike projectile (`BulletSuperArtillery.cpp`) | state machine, `mFlightActive`, `mBurstFrm`, `mSender`, pending reservation | `prepare`, `launch`, `cancel`, `doSleep`, `vtOnActivate`, `vtOnSleep`, `vtFirstCalc` | the manager; the engine's reservations | a strike under way is driven to its end and never loses its sender |
| Inkstrike burst (`BulletSuperArtillery.cpp`) | burst clock, grab latch, bubble tables, paint credit globals | damage pass (`vtSecondCalc`), paint pass (`calcBurstFollow`), two paint hooks | every class of stage object | each object is hit in its frames, once; paint is credited to the right weapon |
| Ink tank override (`InkTankOverride.cpp`) | one global lock and tank id | `lockForInkstrike`, `unlock`, `searchForVersusIdHook` | the manager | the tank of an active strike does not change; no lock is left behind |
| Big laser modes (`BigLaserModeMgr.cpp`) | mode per player, two bullet pools, a saved parameter set, weapon models, animation clips, weapon tracks | pickup, shot, remote shot, death, fourth calc, set-up, scene hooks | the engine's big laser code, state events | model, clips, bullet and parameters of a shot belong to one special |
| State events (`main.cpp` 405-630) | throttle of the sender, clones' barriers | `sendEvent_StartBarrier`, `unpackStateEventHook`, the hooks on starting and copying a barrier | other consoles | a clone's barrier ends with its owner's, up to the delay |
| Private-match map list (`SaveDataLocalMapList.cpp`) | 256 bytes of the save file: 64 slots of 32 bits, or 128 of 16 bits | `setHavePrivateStage`, migration, reset | the engine's menu code | a bounded set of maps; a call about one map leaves the others |
| Ball enemy (`EnemyBall.cpp`) | state machine, invulnerability cycle, counters, animation, drown state | `firstCalc_`, the state functions, collision callbacks, `reset_` | the engine's enemy components | the ball's looks agree with what it does; contacts act once |
| Engine hooks (`main.cpp`, `module.cpp`) | a few globals | about forty hooks | everything above | those of a modelled part are modelled with it |
| Barrier bomb eating (`main.cpp` 768-805) | none of its own | `barrierEatBombs` | players, bombs | - |
| Music selection (`BgmExtend.cpp`) | seed and current tune in static memory; the list is made again in every match | `choiceBgmHook` | the game's `bgmfuncthign`, `BgmSelectInfo` | every tune once before one returns; never the same twice running |
| Stage selection page (`StageSelectPageExpand.cpp`) | larger buffers, a free list of 128 nodes | page hooks | the menu, the map list | the page fits the buffers |
| Salmon Run special shuffle (`CoopSpecialDbg.cpp`) | the engine's pool, shuffled in place; the first order seen and a flag | `coopSpecialShufflerHook` | the coop set-up, the other consoles' random numbers | consoles with the same random numbers hand out the same specials, whatever each played before |
| King squid (`KingSquidMgr.cpp`) | per player: frames in the air, `mIsRush`, the ball `mBullet`, the body shown | `calc`, the hooks that create and read it | the engine's balls, `krakenDiveHook`, the player's model | a ball in use belongs to one king and is put to sleep with its rush; no dive without a rush in the air |
| Private battle skills (`PrivateBattleSkills.cpp`) | bits of an option flag | menu callbacks | the menu | option and bit agree |
| Super shot, tornado weapon, older Inkstrike, LAN joining | - | - | - | do not run (section 7) |
| Ink colours, weapon lookup, gear delivery, utilities, logger, memory layout, collector, scripts, headers | tables, I/O | - | - | - |

### What is hard here

`PROJECT.json` lists thirty-nine hazards, each at its line. In groups:

- *Interleavings on globals.* One tank inhibitor for all players; one parameter set
  for both specials; one push timer for all players on a ball.
- *Requests carried out later.* `prepare` reserves the activation that `launch`
  presumes; `vtOnSleep` clears the sender a burst still reads; a grab latch that
  only sleeping clears.
- *Remote players.* A Shot may arrive in any state; a barrier arrives late, is
  handed on by touch and comes back as an echo; a pickup must reach the clones.
- *State that survives.* Frame stamps and half of the manager's fields survive a
  scene change; the barrier throttle survives a match; the layout of the save file
  is guessed anew in every call; a wall counter survives the contact; a stored seed
  outlives the choice of tunes it was drawn for; a pool is shuffled in place, shift after
  shift; a king keeps the pointer to a ball that the engine may give to another.
- *Pools at their limit.* Two bullets per player, one bullet per player and kind in
  the pools, one ball per king, 80 slots in a bubble, 128 slots in the save file.
- *Something must end.* Aim, wind-up, flight, the hold at the end of a match.

Two more points came up that are not in that list: a player's own second barrier
is held back while the throttle lasts (main.cpp 536), which the comment at 527
intends; and an all-marking started through `startSpecial_AllMarking` sends its event
twice, there (main.cpp 1671) and again in the hook it calls (1628), so a clone
starts its effects twice. All-marking is not modelled (section 7).

## 2. Modules

    BulletSuperArtillery --+
    InkTankOverride -------+--> Inkstrike <-- InkstrikeProofs          MCInkstrike
    BulletSuperArtillery -----> BurstCylinder <-- BurstProofs          MCBurstCylinder
    StrikeClock <--implements-- Inkstrike, BurstCylinder
    ReservedHits <--implements-- BurstCylinder
    BigLaserMode <-- BigLaserProofs                                    MCBigLaserMode
    StateEvents <-- StateEventsProofs                                  MCStateEvents
    EnemyBall <-- EnemyBallProofs                                      MCEnemyBall
    PrivateStages <--implements-- MapRoster <-- MapRosterProofs        MCMapRoster
    Playlist <--implements-- BgmWalk
    MapRoster, BgmWalk, SpecialPool, KingSquid
                           --> SideParts <-- SidePartsProofs           MCSideParts
    Folding (a lemma module) <-- BurstProofs, SidePartsProofs

An `MC` module gives constants their values for TLC. `PROJECT.json` maps every
definition to its lines.

**BulletSuperArtillery** is one projectile as a record, an operator per member
function. `sm` is the actor's state machine, `awake` and `resv` the engine's view
of it and the pending reservation, `sender` says that `mSender` is set. `Settle`
is the engine carrying out a reservation, the one thing here that is not code of
this repository.

**InkTankOverride** is the lock and the tank as a record; `TankOf` stands for the
weapon table.

**Inkstrike** composes them: `players[p]` holds the manager's arrays at `p`,
`bullets[p][s]` two projectiles, `lock` the inhibitor. `PlayerFirstCalc` is the
whole of `playerFirstCalc`: `detectChangeState`, then the state function, then the
engine's own `firstCalc` (which may start the special), with the engine's report
about the player (falling, dying, dead, holding the cannon, map open, button) as
inputs. Inside it a *world* `[me, b, lock]` is passed through the operators in the
order of the calls. `BulletFirstCalc` is `vtFirstCalc`; `NextFrame` carries out the
reservations and advances `mPaintGameFrame`; `RemoteShot` is the event of
main.cpp 371; `IsSleepingAll` the hook at the end of a match; `SwapWeapon`,
`onCalc`, `LeaveScene` and `EnterScene` the range and the scene changes. Frame stamps
are kept as the number of frames still to wait, which may exceed the delay by
`StaleFrames` when a stamp of an earlier scene lies ahead.

**BurstCylinder** is what a bursting strike does to the stage. `FirstCalc`
and `SecondCalc` are the two passes; `Hits` is the table of which class of object is
damaged under which condition, `Reserve` the writing of a hit into a bubble's table,
`Pull` the grab of a hook, `PaintPass` the stamp with the credit globals and the
block deduplication. `StagePaints` and `ShotPaints` are the same hooks called by
others in between. `harm` and `grabs` are histories for the properties.

**StrikeClock** is what a launched strike promises: it takes the number of frames it was launched
with (`Launch`), one a frame and in step with all the others (`Frame`); in its last
frame it ends (`Finish`); and nothing calls it off except what calls off all (`CallOff`: the
cleanup of the range, a change of scene). **Inkstrike** and **BurstCylinder** both implement it.
`FramesLeft` is the mapping: the rest of the flight and the whole burst, or the rest of the burst, counted
so that the bullet's turn, which advances the burst's own count, takes nothing off before the frame is over. So the two
modules, which see the same projectile from the manager's side and from the stage's, keep one
clock.

**ReservedHits** is what the bubbles' tables promise, whatever their size: a strike adds one hit to those
that wait, or, when as many wait as there is room for, none; a frame takes one off every wait, and nothing else
touches them. **BurstCylinder** implements it: `owed[o][h]` is the number of slots of bubble `o` that wait
`h` frames or more, and `hits` the histories `harm` of the bubbles. So a slot that is overwritten, a hit booked twice, or one
dropped beside a free slot is no step of it.

**BigLaserMode** follows a mode through the five places it is spread over. `Shot`
is a whole shot of a local player: the parameters are swapped, the allocator returns
some free bullet of either kind, `shotBullets` replaces it by one of the right pool
when needed, the engine's call reads the parameters, and they are restored. `last`
records what the engine's calls saw, for the properties.

**StateEvents** has a console per player; `endFrm[c][p]` is when the barrier of
`p` ends on console `c`, `source[c][p]` whom it came from. `net` is a set of events
with their time. `Activate`, `CopyFrom` and `ReceiveBarrier` are the three ways a
barrier starts; `NextMatch` keeps the throttle, as the static variables do.

**PrivateStages** is the promise of the map list: a bounded set, where `Add` and
`Remove` concern one map, and a call may lose maps of `Shaky` besides. **MapRoster** is the block of half-words and every call with its
guess, its migration in place and its update. `Stages == INSTANCE PrivateStages` with
the roster for the set is the refinement; `Shaky` is `MapIds \cap {0}`, so that map 0, which the code is
known to lose (section 4), is the one exception, and there is none where no map has the id 0.

**Playlist** is the promise of the music: rounds without repetition, no tune twice
running, every tune in a round that begins at the top of a list. **BgmWalk** is
`choiceBgmHook`: `List` is what the game's `bgmfuncthign` makes of a seed and the chosen tunes,
`walk` the next tune of the list of the stored seed, `reshuffle` the draw at its end.
`heard` and `whole` are histories, which the refinement `Music == INSTANCE Playlist`
maps to the state of the same name.

**SpecialPool** is `coopSpecialShufflerHook` on several consoles: the number of entries
(`n`), the snapshot of the first call, its restore and the shuffle, a fold of `Swapped` over the swaps that
the random words make. `Restart` starts the game again on one console only.

**KingSquid** is `PlayerKingSquid::calc` with its early returns, one action each; they end a
rush in the same way (`EndRush`), except that without a `BulletMgr` the pointer
is dropped. A ball is asleep, awake, or `leaving` between `reserveSleepAll_` and the end of the
frame. `Offered` is what `activateOneCancelUnnecessary` may return: when no ball sleeps, one
in use. `airborne` is a history.

**SideParts** puts the four parts side by side that share no state with each other or with
anything above; MCSideParts gives it values. A behaviour moves one of them and lets the others
rest. That loses nothing: each property speaks of one part's variables, and in a mixture those
change by that part's steps only.

**EnemyBall** has the fields of the ball as variables, in four groups that change
together: `body` (the wall), `shield` (the invulnerability cycle and its animation),
`push` (the players it touched) and `look` (the animation, drowning). `firstCalc_`, `executeStateMachine_`, `interactColPlayer_`,
`interactColBullet_` and `Hurt` are the callbacks; `contact`, `bounced`, `since` and
`again` are histories.

Definitions whose names end in a description of a fault (`launchWithoutPronounce`,
`BarrierPacketAbsolute`, ...) are the mutated forms of the definitions that follow
them; no specification uses them. Each property of a passing run has one that
breaks it.

## 3. The runs

Run one with `tlc -workers 2 -config <file>.cfg <module>`. All constants are far
below the code's; what matters is their order and that every limit is reached, which
the third column argues.

| Run (config, module) | Instance | Why it is enough | Properties |
|---|---|---|---|
| `inkstrike_match` (InkstrikeMatch.cfg, MCInkstrike) | the controlled player and a remote one, one weapon; delays 1, flight 2, burst 1 | The players share the lock, `mMatchEnding` and the frame only, so two show every interaction; the player is released while the bullet still flies, as in the code (60 frames against 120) | `TypeOK BurstHasSender HoldBelongsToAim ControlReturned LockNotLeaked`; `ShotLaunches NoStaleRemoteShot MatchCanEnd` |
| `inkstrike_range` (InkstrikeRange.cfg) | one player, two striking weapons and another one; delays 2, flights 4 and 5, burst 2, stale stamps up to 2 frames ahead | Long enough that a second strike is prepared while the first flies, and both slots get busy; weapon swaps and the cleanup in every state | `TankStaysLocked`; `ImplementsStrikeClock ActivationEnds StrikeEnds`. The safety properties of the run above, but for `ControlReturned`, are proved for every instance, this one included |
| `inkstrike_tank_lock` (InkstrikeTankLock.cfg) | two players, weapons of different tanks | violated, see section 4 | `TankStaysLocked` |
| `side_parts` (SideParts.cfg, MCSideParts) | *maps:* 3 old slots, 7 maps from 0, an unknown id; *music:* 4 tunes, every order of them a seed; *Salmon Run:* two consoles, a pool of 6, a scan of 5, 4 handed out, random words below 3; *kings:* two players and balls, rush after 1 frame, counter up to 3 | Six slots for seven maps: the list can be full, map 0 can be in an even or an odd place, and every content of an old file is an initial state. Four tunes make rounds of every length under every choice. Five of six entries are shuffled, so the rest is seen to stay. Two kings in the air use up both balls, while one ball waits to sleep | `SideTypeOK SameShiftSamePicks BallHasOneOwner DiveEarned`; `ImplementsPrivateStages ImplementsPlaylist` |
| `map_roster_zero` (MapRosterZero.cfg) | 2 old slots, maps from 0 | violated, see section 4 | `RosterKept` |
| `big_laser` (BigLaserMode.cfg, MCBigLaserMode) | one local player, one clone, two bullets of each kind and one of the engine's | A pool has a bullet per player as in the code; a clone can hold the bullet that the local player's shot is first given | `TypeOK ShotMatchesMode ParamsFitCall ModelFollowsMode ActiveBulletsHaveBeams ClipsAreReal` |
| `big_laser_clips` (BigLaserClips.cfg) | the same | violated, see section 4 | `ClipsFollowMode` |
| `barrier` (Barrier.cfg, MCStateEvents) | two consoles, duration 3, delay up to 2, 8 frames, two matches | A barrier and its echo and a second infection fit into a match; two matches for the throttle | `TypeOK CloneOutlastsByDelay NoEchoOutlasts NeverLonger` |
| `barrier_first` (BarrierFirst.cfg) | the same | violated, see section 4 | `FirstBarrierAnnounced` |
| `pickup_sync` (PickupSync.cfg) | the same | violated, see section 4 | `PickupReachesClones` |
| `burst` (Burst.cfg, MCBurstCylinder) | two bursts of opposite teams, nine objects of nine kinds, a burst of 3 frames, a bubble's table of 3, a hold of 2 frames | The radius grows over three distances, one of them out of reach, one object walks in and out; the two bursts overlap in every way; up to four hits would wait at once in three slots, so that the table gets full and a hit is dropped, and has room again | `TypeOK HitsFollowClock OneGrabPerBurst CreditGoesHome EachBlockOnce`; `ImplementsReservedHits` |
| `enemy_ball` (EnemyBall.cfg, MCEnemyBall) | two players, one point of health, waits of 2, an animation of 2 frames, contact up to 7 frames | Contact covers two full periods of the wall counter and the start of a third; the second player is the one who renews the first one's timer | `TypeOK WallBounce DrownShows HostileLooks PushedOnce`; `Dies` |

`barrier`, `barrier_first` and `pickup_sync` do not check for deadlock: with the last frame
of the last match the bounded world stops. Everywhere else the system never stops.

Bounds by name: `FlightTime`, `LongFlightTime`, `BurstDuration`, `PrepareDelay`,
`PlayerDelay` (120, 150, 100, 40 and 60 frames in the code), `StaleFrames` (how far a stamp of the
last scene may lie ahead), `OldSlotCount` (64), `Duration`, `MaxDelay`, `LastFrame`,
`Matches`, `TableSize` (80), `HoldFrames`, `MaxHealth`, `WallWait`, `PlayerHitWait`,
`ChanceLen`, `MaxContact`. `MaxContact` only stops a history from growing.

What the passing runs show, in the words of the code:

- A strike takes exactly its flight and its burst: no swap of the weapon, cancelled aim, late Shot or
  end of the match launches it twice, stretches it or leaves a frame out
  (`ImplementsStrikeClock`); while it bursts it knows its sender (`BurstHasSender`); a wind-up that ends always launches
  (`ShotLaunches`); an activation and a strike end (`ActivationEnds`, `StrikeEnds`), and so
  the match can (`MatchCanEnd`). The player gets the control back (`ControlReturned`), a
  press of the button never fires a later activation (`HoldBelongsToAim`), a late
  Shot never fires the next one (`NoStaleRemoteShot`), and the tank lock is
  released with the last activation (`LockNotLeaked`). With one player the tank is also stable
  (`TankStaysLocked`).
- The music plays as from one shuffled list, although every match makes the list again
  from a stored seed, and a change of the chosen tunes only breaks the round off.
- Two consoles whose last shift had the same random numbers hand out the same specials,
  however many shifts either has behind it.
- A ball in use has one king, who is not given a second; the ball of a rush that ends is put to
  sleep in every way it can end; a king dives only after enough frames in the air.
- The map list behaves as a bounded set of maps although the hook migrates it
  again and again: a call never loses a map it is not about, but for a map with the id 0
  (section 4).
- A local shot comes from a bullet of its player's mode with that special's parameters, and
  the model follows; no beamless bullet stays in the active list.
- No barrier outlasts its owner's by more than the delay, no echo comes back longer, and
  handing on never lengthens one.
- A burst hits each steady object once in each frame from the first whose radius reaches it;
  it pulls one hook; overlapping bursts drop a hit on a bubble only while
  all of its slots wait, and never displace one that waits; every stamp
  of paint has the right owner and every block is painted once.
- The ball bounces off a wall at the intended rate, looks drowned when it is, never hurts in
  the other team's colour, pushes a player once, and falls asleep when it dies.

## 4. Where the code and its comments disagree

Each is a run whose property is what a comment or another file says; TLC's trace is
the shortest way to it.

1. **One tank lock for all players** (`inkstrike_tank_lock`, InkstrikeMgr.cpp 406).
   `detectChangeState` runs for remote players too and takes the one lock; the end of either
   activation releases it. InkTankOverride.cpp 133-141 promises the tank "while Inkstrike is
   active for a player" and says that remote players do not come this way.
2. **Map 0 is lost** (`map_roster_zero`, SaveDataLocalMapList.cpp 105). A 16-bit block
   whose odd slots are all 0 or empty is taken for a 32-bit one; the migration then drops a map 0
   in an odd slot. Comments at 129-131 and 199 say that map 0 is preserved and
   that the migration works once.
3. **The Killer Wail's clip is overwritten** (`big_laser_clips`, BigLaserModeMgr.cpp 718).
   A second pickup with the cannon held saves the cannon's own clip as the one to go
   back to (comment at 650).
4. **A first barrier is not announced** (`barrier_first`, main.cpp 533). The throttle
   learns of a new match only if the frame counter is seen to go back, and is armed in
   offline scenes; the comment at 517-518 calls that signal definitive.
5. **The pickup packet has the wrong number** (`pickup_sync`, BigLaserModeMgr.cpp 1017).
   58 is sent, 103 is expected: no clone ever follows a pickup. The
   constant it names is defined with the other value in main.cpp 422.

Smaller ones that no run states: the comment at BulletSuperArtillery.cpp 1262 speaks of all
hooks in the radius while a latch allows one; that of `damageIidaBombs` says that
some states of a bomb are skipped while the code does not look at the state;
BigLaserModeMgr.cpp 907-909 describes a list that the code at 936 no longer keeps that way; main.cpp 405-406 says
that packet types must fit in 6 bits, 0 to 63, and that 55 and 56 are used, while the types defined at 419 are 100 and
above (411-418 says why they were moved, not what became of the 6 bits).

## 5. Fairness and assumptions

### Fairness

Only the specifications named `FairSpec` state fairness.

- **Inkstrike**: weak fairness of each player's `PlayerFirstCalc`, each awake bullet's
  `BulletFirstCalc`, `NextFrame`, `onCalc` and `EnterScene`: the game loop runs every
  actor once in every frame and finishes a scene change. `SpecialRunsOut`: the engine's special
  gauge runs down. The last conjunct, a remote player's Shot while it aims, is an
  assumption about the network: a player's console fires at the latest when its own special
  runs out, and tells the others. The code has no timeout for a lost event, and
  without this conjunct `MatchCanEnd` is false; the hazard list says so.
- **EnemyBall**: weak fairness of `firstCalc_`, `executeStateMachine_`, `NextFrame`, for the
  same reason.

### Inkstrike

- The engine carries out reservations between frames; of two requests the last wins; an
  activation always runs `vtOnActivate`. `changeState` works at once. The cleanup of the
  range runs after the actors of the frame.
- The engine ends the special of a player who dies, is dead or holds the cannon.
- Two slots are enough (`CanBegin`): the comment at InkstrikeMgr.cpp 169 says that the gauge fills
  more slowly than a strike ends. A third activation with two strikes in the air is
  therefore not explored.
- `stateAim` and `stateWait` of a projectile are empty, so only flying and bursting
  bullets take a turn. A weapon is registered after `onCalc` has seen the scene change.
- Left out: camera, cursor and target positions, models, sounds, the check whether
  the weapon's parameters are applied, and the buttons that `playerFirstCalcHook` (main.cpp 675-745) hides from the
  engine's own `firstCalc` while an activation runs. `ControlReturned` is checked in a match
  only: in the range the cleanup leaves the pointer to the engine's own reset (a hazard with a
  note). The ways out by a weapon swap exist in the range only and are not part of that run; that they, too,
  clear the pointer is the theorem `ExitsReturnControl`.

### Map list

- A block that no call has seen reads the way the unmodified game read it. Whether the
  engine reads the block before the hook's first call has migrated it is not in this
  repository. Null checks of the singletons are left out.
- A map of id 0 is in the passing run and in the proofs. Only `OthersKept`, the theorem that no call loses any
  map, assumes that there is none (`NoMapZero`).

### Music

- `bgmfuncthign` is the game's. The hook's use of it says that it lists the chosen tunes in an
  order the seed decides: the hook stores the seed it called it with and
  relies on the same list in the next match. It is taken to be a function of seed and
  choice that lists every chosen tune once, any function.
- The choice is not empty: for a count of 0 the code at BgmExtend.cpp 167 reads the first
  word of a list that was not filled. That all 999 draws of a new list begin with the tune that
  plays, although there are two, is left out; it would repeat that tune once.

### Salmon Run

- The game loads the pool once, before the first shift, and no other code writes it;
  entries are different. The scan for vtable pointers finds all entries or stops at
  `MAX_SCAN`. `Words` stands for the 2^32 values of a random word; the product with a
  small number fits 64 bits in the code.

### King squid

- Every player's `calc` runs once a frame; what `reserveSleepAll_` reserved is done at its end;
  the engine moves players between frames. There is a ball per player or none
  (`extraBigLaserBulletHook`), the engine does not put a ball to sleep by itself, and only
  kings use balls.
- The body shown is one field; models, matrices and materials are left out, and so is the
  step paint type that `KingSquidMgr::onCalc` sets (205-217).

### Big laser

- A player shoots again only after the beam of the same mode is over (`MayShoot`); a dead player's
  weapon is calculated before it respawns; one weapon per player in a scene; the frame
  hook sees a scene change before the next scene starts (scene `"black"`), and the bullets' hook
  runs before the animations are registered.
- Both archives exist, so both models do. A player's clips are changed together and are one
  value. To unlink a bullet means that it is idle again. Clones never reach cannon
  mode, since the packet is not understood (section 4; `PickupsUnnoticed` proves it for StateEvents).

### State events

- Consoles share the frame counter; the drift between them is part of the delay of an event, up to
  `MaxDelay`; events arrive in any order and are not lost. One local player per console.
- `startBarrier_Common` and `checkBarrier_CopyFrom` are the engine's and follow the comments at
  main.cpp 480-515. One own activation per player and match. An online match
  runs to its last frame, an offline scene may be left at any time.

### Burst

- Each frame has a `firstCalc` and a `secondCalc` pass, any order inside one. Stage objects stand
  still, except the `Movers`. How long a bubble keeps a reserved hit is the
  engine's business and not in this repository; `HoldFrames` stands for any such time. It decides whether the code's 80 slots
  suffice: two strikes per player make 20 bursts at most, so a table overflows, and hits are dropped, if all burst over one bubble and the
  engine holds a hit for more than four frames. The model does not assume that it does not. What the sphere check reports is an
  input.
- Distances are small numbers on a growing radius; matrices, wind, effects and the units of gear
  health are left out. The kinds `sighter` and `superball` are in the module and not in the
  instance. The proofs assume that the names `"nobody"`, `"shot"` and `"stage"` are no bursts
  (`CylinderAssumption`). Damage falls on burst frames 0 to `BurstDuration` - 1; paint on the even frames from
  2, including the frame in which the strike goes to sleep.
- What the paint check reports is any finite list of blocks, each with or without a paint info; so
  `CylinderAssumption` says of every member of `BlockReports`. The list may be empty and may name a block twice.

### Ball enemy

- `firstCalc_` and the state machine each run once a frame in either order; collisions come at
  any time. The ground, the wall, ink, the target, the ends of looping animations and the angle that
  decides about drowning are inputs. Resetting an animation controller counts as ended.
- Speeds, directions and paint are left out. `mHitKeepOutTimer` is never set to
  anything but 0 and is left out.

## 6. Proofs

`tlapm <module>.tla` checks each module. They hold for every value of the
constants that the named assumptions allow, and rest on nothing else than those
assumptions and the library's theorems on finite sets, cardinality, sequences and well-founded
orders.

**Folding** (any step, base and sequence) is the induction that the folds need. `FoldLeft` is defined
by recursion over the subsets of `1 .. n`, of which it takes the largest off. `Induction` is induction
for a *set* of numbers, got from the least number outside it, since the library's own takes an operator;
`RecursionExists` builds the recursion; and `FoldKeeps` says that what holds of the base, and is handed on
by each entry, holds of the fold. Instances of the module (`Stamps`, `Shuffling`) put the code's step for
the constant operator.

**InkstrikeProofs** (any players, weapons and delays). None of the safety properties is
inductive. `IInv` (in Inkstrike.tla) adds, for each bullet, that a bullet whose turn it is but which is not
active has run and waits for a reservation, and that a reserved activation has a sender; for each
player, that the bullet of a slot in cAim or cShootPrepare is `Ready`, that a special that is on
while no activation runs finds a free slot, and that a pending Shot belongs to a remote player
outside a special. The argument is by layers: lemmas on one bullet (what `prepare`,
`launch`, `cancel`, `vtOnSleep`, `Settle` do to `BulletOK`), on one player's world
(each operator a step is composed of preserves `WorldOK` or the weaker `MidOK`), and then on
the whole state, where a step changes one world or treats all alike. Theorems:
`Invariance`, `TypeCorrect`, `StrikesAreDriven`, `BurstsHaveSenders`,
`HoldsBelongToAims`, `LockIsReleased`, `ShotsLaunch`, `NoStaleShots`, and `ExitsReturnControl`: a player's own way out
of a wind-up or a shot clears the pointer, by a weapon swap in the range as well. Two more follow a
player's world through the same operators with a smaller invariant: `ControlIsReturned`, for a
match (`~ShootingRange`; in the range the cleanup leaves the pointer), and `TankIsLocked`, for one
player (with two it is false, section 4).

`StrikesKeepTime` is the refinement of StrikeClock. A world is followed through the operators once more, now for
what becomes of the frames of its two bullets: each leaves them `Alike`, or launches one that was idle
(`Struck`). The state needs one more fact, `Aloft`: a flight that had its turn has a frame left, since the
turn in which none is left starts the burst. Then a player's turn is `Launch` or a stutter, a bullet's turn `Finish` or a
stutter, `NextFrame` is `Frame`, and the cleanup and the change of scene are `CallOff`. That no bullet stands at
its last frame when the frame ends is where `IInv` enters: an active bullet is one that gets a turn, and a frame
ends when all have had theirs.

**BurstProofs** (any bursts, objects, layout and numbers of frames). Four invariants. `LifeInv`
follows a bullet through the two passes of a frame: its clock and state agree, and it was either
turned in this pass or not yet. `PaintInv`: outside a request of a burst the credit globals are
clear. `StageInv` is about the types of the stage and the tables. `HistInv` says that the
histories are functions of the clock: `harm` of a steady object is the number of frames its
radius has been reached, and a burst that begins finds all histories empty, because only sleeping
clears the latch. Theorems: `LifeInvariance`, `PaintInvariance`,
`CreditsGoHome`, `StageInvariance`, `HistInvariance`, `ClockDecidesHits`, `LatchBelongsToBurst`,
`BurstTypeCorrect`, `TableKeepsHits`.

`TableKeepsHits` is the refinement of ReservedHits, for every `TableSize`, `HoldFrames` and set of bursts. It needs that
a slot whose damage is zero waits for nothing (`TableInv`), which holds because the damage of a burst never falls to zero
(`DamageHurts`). Then a free slot exists exactly when fewer hits wait than there are slots (`RoomLeft`), the first free one
takes one hit more at every age (`OneMoreWaits`), and a frame moves each slot to the next lower age.

Two more. `BlocksStampedOnce`: each stamp of a burst goes to the field and to each reported block once. The
pass over the reports is a fold that remembers what it has seen; after `k` reports the blocks stamped are
those shown so far, without repetition (`StampedOf`, `StampKeeps`), and `FoldKeeps` carries that to the end of any list.
`BurstsKeepTime`: the bursts, too, implement StrikeClock, from `LifeInv`. TLC has checked that refinement on the instance
of `burst` as well; no run lists it, because the theorem covers it.

**MapRosterProofs** (any number of slots and any maps). `IInv`: a block the hook has
written is a duplicate-free list of maps, one it has not is in the game's layout. The core is that a
wrong guess does no harm: a 16-bit block taken for a 32-bit one has nothing but empty slots and a map 0
in its odd places, and the migration keeps what its even places list (`MigratedAgain`). So only map 0 is ever lost. Theorems: `Invariance`, `NeverTwice`, `TypeCorrect`, `Refinement`
(MapRoster implements PrivateStages) and `OthersKept`, the action property whose violation the run with map 0
shows: without a map 0 a call about one map leaves all others.

**SidePartsProofs** (any tunes, seeds and orders; any kings, balls, consoles and pool).

*Music.* `MusicInv` is about the place of the current tune
in the list of the stored seed: all tunes heard in the round come no later, and in a round that was
begun at the top every tune up to it was heard. Hence the next one is new, and at the end of the list the
round was complete. Theorems: `MusicInvariance`, `MusicRefines`.

*Kings.* `KingInv` adds that a ball waiting to sleep was
given up in this frame by a king who has had its turn, that no two balls in use carry the same king, and
that the air counter is the history. A king who asks for a ball has none, so that the others hold fewer
balls than there are: one sleeps (`OneIsFree`, a pigeonhole). Theorems: `KingInvInit`, `KingInvStep`, `KingInvariance`,
`KingTypeCorrect`, `BallsHaveOneOwner`, `DivesAreEarned`.

*Pools.* `PoolInv` says that a pool
is a function of the last shift's random numbers and of the loaded pool: the snapshot is that of the
loaded pool also when it is taken late, and the front is overwritten before it is shuffled. For
`PoolTypeCorrect` it matters what the shuffle computes: each swap exchanges two places of the front
(the products stay in range), so by `FoldKeeps` the front keeps its entries, each once, and no pool
ever holds an entry twice. Theorems: `PoolInvariance`, `ShiftDecidesPicks`, `PoolTypeCorrect`.

*All four.* Every behaviour of SideParts is a behaviour of each part (`EveryPart`), which carries the results over:
`SidePartsTypeCorrect` and `SidePartsKeepPromises` (given some tune for the music to rest on). The promise of the map
list is the one with the exception of map 0.

**BigLaserProofs** (any players, as many bullets of each kind as players). `IInv`: two bullets
never carry the same player's beam of the same mode, a local player's beam is in a bullet of its kind,
the parameters are the original ones between two hooks, and whoever holds the cannon has clips
to go back to. That the right pool has a free bullet is a pigeonhole: others keep at most one
each. Theorems: `Invariance`, `TypeCorrect`, `ShotsMatch`, `ParamsFit`, `ModelsFollow`,
`NoneLeftActive`, `ClipsReal`. The run `big_laser_clips` shows that the Killer Wail's clip can be lost; `ClipsFollow` proves
that there is one cause. In every behaviour in which the cannon's clips are not put in place a second time
(`[][~SavedTwice]_vars`: no pickup with the cannon held, no set-up of such a weapon that does not register its own clips
first) `ClipsFollowMode` holds.

**StateEventsProofs** (any consoles, duration and delay). `IInv` adds that an event under way is not
overdue and tells of a barrier its player still has, or has a longer one (`NetFits`), and that an own
barrier is only replaced by a longer one (`GrantedKept`). Theorems: `Invariance`, `TypeCorrect`,
`ClonesKeepUp`, `EchoClamped`, `HandedOn`. The run `barrier_first` shows that a first barrier of a match may
not be announced; `FirstMatchAnnounced` proves that the throttle of an earlier match or scene is the only cause: in the first
one (`ThrottleFresh`) every first barrier is announced. `PickupsUnnoticed` is the general form of what `pickup_sync`
shows, and what BigLaserMode assumes of the clones.

**EnemyBallProofs** (any players, counters and animation). `IInv` adds what makes each property
inductive: the wall counter is the remainder of the frames of contact (`WallCounted`); the other team's
colour is worn in one state only, with the animation stopped (`ColourFits`); the timer
outlasts the last contact (`TimerCovers`). Theorems: `Invariance`, `TypeCorrect`,
`WallReflects`, `DrowningShows`, `LooksHonest`, `PushesOnce`.

**Only model-checked**: liveness (`MatchCanEnd`, `ActivationEnds`, `StrikeEnds`, `Dies`), which is out of
the prover's reach under fairness. Every invariant, action property and refinement that a passing run
checks is also a theorem: `TankStaysLocked` for one player and `ControlReturned` outside the range, as the runs have it,
the parts put side by side if there is some tune.

## 7. What is not modelled

- *Code that does not run.* The super shot's calls in main.cpp are commented out. The tornado weapon and
  the older Inkstrike only draw and load models since the manager replaced them. Of the LAN joining
  the patches (`patches/551.slpatch`, `552.slpatch`) install one hook, and the rest is not reached.
- *Code without state of its own.* Barrier bomb eating, ink colours, weapon lookup, gear delivery,
  vector arithmetic and drawing.
- *Pure input and output.* The logger (its queue has no producer), file reader, debug
  collector, button polling, build scripts.
- *Private battle skills.* Each option reads or toggles one bit of the engine's flag.
- *Parts of the engine's making.* The stage selection page enlarges buffers and a free list
  which the engine fills and filters by code that is not in this repository; a model would be a guess at
  those filters. (Its header, StageSelectPageExpand.cpp 129-165, speaks of 64 entries, while the code at 221-228
  allows 128.) All-marking and the deviled states count down on the clones by the engine's clock. The respawn
  radar and the safe bone lookup keep no state. The king's step paint type is set in `onCalc` and never
  reset there; who resets it is not in this repository.
- Vendored headers (`Json.hpp`, `curl.h`, the system library) and declarations of the engine. They are nine
  tenths of the lines under `include/` and `source/`, so that the lines modelled are a small share of all
  lines although the parts with state of their own are nearly all covered: of about 11,650 lines that
  are this project's own, most of the rest draws, loads and converts.

Of the modelled parts, what is left out is named in section 5 and in the notes of the components.

## 8. Plan

Done, in this order: BulletSuperArtillery and InkTankOverride; Inkstrike with its runs and
proofs; PrivateStages and MapRoster with the refinement; BigLaserMode; StateEvents;
BurstCylinder; EnemyBall; their proofs; Playlist and BgmWalk with the refinement and its proof,
SpecialPool, KingSquid and their proofs; the proofs of the burst; StrikeClock, implemented by
the manager's module and by the burst's; ReservedHits, implemented by the burst's; Folding, and with it what the two folds of the models keep; the
composition of the side parts.

What could follow:

1. **What is left of a burst that is composed with the manager**: the two modules share a clock; that the
   histories of a burst agree with the manager's slots (which of a player's two strikes paints) is not stated.
2. **Lost events** in StateEvents, and all-marking as another event type, once the
   clones' countdown is known.
3. **StageSelectPage** on top of MapRoster, once the engine's filters are known.
