----------------------------- MODULE StateEvents -----------------------------
(***************************************************************************)
(* The state events the mod adds to the game's (source/main.cpp:405-630):  *)
(* a barrier that starts, and the item that turns a big laser into the     *)
(* Princess Cannon, told to the clones on the other consoles.              *)
(*                                                                         *)
(* Every player is the local player of a console of the same name and a    *)
(* clone on all the others.  The consoles share the frame counter; an      *)
(* event takes up to MaxDelay frames.  A barrier spreads by touch: the     *)
(* engine copies it to a local player from whoever stands near and has a   *)
(* longer one.                                                             *)
(***************************************************************************)
EXTENDS Integers

CONSTANTS Players,
          Duration,     \* the frames of a barrier
          MaxDelay,     \* the frames an event takes at most
          LastFrame,    \* bound: the last frame of a match
          Matches       \* bound: the matches played

ASSUME StateEventsAssumption ==
    /\ Duration \in Nat \ {0} /\ MaxDelay \in Nat
    /\ LastFrame \in Nat /\ Matches \in Nat \ {0}

cKillerWail == "KillerWail"
cPrincessCannon == "PrincessCannon"

VARIABLES match,        \* the matches begun
          online,       \* not mIsOfflineScene
          now,          \* mPaintGameFrame
          endFrm,       \* mBarrierEndFrm of a player, per console
          source,       \* who the barrier comes from, per console
          granted,      \* the end of a player's latest barrier of its own
          mode,         \* the big laser's mode of a player, per console
          sentExpiry,   \* sBarrierSentExpiry, per console
          lastSeen,     \* sBarrierLastSeenFrame, per console
          announced,    \* the consoles that sent a barrier in this match
          net           \* the events under way

barriers == <<endFrm, source, granted>>
throttle == <<sentExpiry, lastSeen, announced>>
vars == <<match, online, now, barriers, mode, throttle, net>>

Active(c, p) == endFrm[c][p] > now

-----------------------------------------------------------------------------
(* The packets.                                                            *)

PACKET_START_BARRIER == 100
PACKET_BIGLASER_PC == 103

(* What bigLaserItemPickupHook writes into the type byte. *)
cPickupPacket == 58

Others(p) == Players \ {p}

(* An event of player p to every other console. *)
Packet(type, p, duration, from) ==
    {[type |-> type, player |-> p, to |-> c, duration |-> duration,
      source |-> from, sent |-> now] : c \in Others(p)}

pushPlayerStateEvent(events) == net' = net \cup IF online THEN events ELSE {}

(* The end of the barrier goes into the packet as it is. *)
BarrierPacketAbsolute(p, e, s) == Packet(PACKET_START_BARRIER, p, e, s)

(* The two integers of the packet are swapped. *)
BarrierPacketSwapped(p, e, s) == Packet(PACKET_START_BARRIER, p, s, e - now)

BarrierPacket(p, e, s) == Packet(PACKET_START_BARRIER, p, e - now, s)

(* The type byte the receiver expects. *)
PickupPacketExpected(p) == Packet(PACKET_BIGLASER_PC, p, 0, p)

PickupPacket(p) == Packet(cPickupPacket, p, 0, p)

-----------------------------------------------------------------------------
(* The throttle: no barrier is sent while the last one sent is still on,   *)
(* unless the frame counter went back.                                     *)
Throttled(c) == now >= lastSeen[c] /\ now < sentExpiry[c]

sendEvent_StartBarrier(c, e, s) ==
    /\ lastSeen' = [lastSeen EXCEPT ![c] = now]
    /\ IF Throttled(c)
       THEN UNCHANGED <<sentExpiry, announced, net>>
       ELSE /\ sentExpiry' = [sentExpiry EXCEPT ![c] = e]
            /\ announced' = announced \cup {c}
            /\ pushPlayerStateEvent(BarrierPacket(c, e, s))

SetBarrier(c, p, e, s) ==
    /\ endFrm' = [endFrm EXCEPT ![c][p] = e]
    /\ source' = [source EXCEPT ![c][p] = s]

(* startBarrier_Common, for the console's own player. *)
startBarrier_Common(c, e, s) ==
    /\ SetBarrier(c, c, e, s)
    /\ sendEvent_StartBarrier(c, e, s)

(* The end a clone's barrier gets, whoever it came from. *)
CloneEndUnclamped(c, duration, s) == now + duration

(* An echo of the local player's own barrier does not outlast it. *)
CloneEnd(c, duration, s) ==
    LET e == now + duration
    IN  IF Active(c, c) /\ s = c /\ e > endFrm[c][c] THEN endFrm[c][c] ELSE e

-----------------------------------------------------------------------------
Init ==
    /\ match = 1 /\ online \in BOOLEAN /\ now = 0
    /\ endFrm = [c \in Players |-> [p \in Players |-> 0]]
    /\ source = [c \in Players |-> [p \in Players |-> p]]
    /\ granted = [p \in Players |-> 0]
    /\ mode = [c \in Players |-> [p \in Players |-> cKillerWail]]
    /\ sentExpiry = [c \in Players |-> 0] /\ lastSeen = [c \in Players |-> 0]
    /\ announced = {} /\ net = {}

(* A frame passes; no event is under way for longer than MaxDelay. *)
Tick ==
    /\ now < LastFrame
    /\ \A m \in net : now < m.sent + MaxDelay
    /\ now' = now + 1
    /\ UNCHANGED <<match, online, barriers, mode, throttle, net>>

(* The next match, or scene without a network, which may be left at any    *)
(* time; the throttle is static and survives it.                           *)
NextMatch ==
    /\ match < Matches /\ (online => now = LastFrame)
    /\ match' = match + 1 /\ online' \in BOOLEAN /\ now' = 0
    /\ endFrm' = [c \in Players |-> [p \in Players |-> 0]]
    /\ source' = [c \in Players |-> [p \in Players |-> p]]
    /\ granted' = [p \in Players |-> 0]
    /\ mode' = [c \in Players |-> [p \in Players |-> cKillerWail]]
    /\ announced' = {} /\ net' = {}
    /\ UNCHANGED <<sentExpiry, lastSeen>>

(* The player uses its special; once in a match is enough. *)
Activate(p) ==
    /\ granted[p] = 0
    /\ granted' = [granted EXCEPT ![p] = now + Duration]
    /\ startBarrier_Common(p, now + Duration, p)
    /\ UNCHANGED <<match, online, now, mode>>

(* checkBarrier_CopyFrom: the local player of c touches p. *)
CopyFrom(c, p) ==
    /\ p \in Others(c) /\ Active(c, p) /\ endFrm[c][p] > endFrm[c][c]
    /\ startBarrier_Common(c, endFrm[c][p], source[c][p])
    /\ UNCHANGED <<match, online, now, granted, mode>>

(* receiveStartBarrier_Net_Reimpl *)
ReceiveBarrier(m) ==
    /\ m.type = PACKET_START_BARRIER
    /\ IF Active(m.to, m.player)
       THEN UNCHANGED <<endFrm, source>>
       ELSE SetBarrier(m.to, m.player, CloneEnd(m.to, m.duration, m.source), m.source)
    /\ net' = net \ {m}
    /\ UNCHANGED <<match, online, now, granted, mode, throttle>>

(* bigLaserItemPickupHook *)
Pickup(p) ==
    /\ mode[p][p] = cKillerWail
    /\ mode' = [mode EXCEPT ![p][p] = cPrincessCannon]
    /\ pushPlayerStateEvent(PickupPacket(p))
    /\ UNCHANGED <<match, online, now, barriers, throttle>>

(* The rest of unpackStateEventHook; a type it does not know is the        *)
(* engine's.                                                               *)
ReceiveOther(m) ==
    /\ m.type # PACKET_START_BARRIER
    /\ mode' = IF m.type = PACKET_BIGLASER_PC
               THEN [mode EXCEPT ![m.to][m.player] = cPrincessCannon] ELSE mode
    /\ net' = net \ {m}
    /\ UNCHANGED <<match, online, now, barriers, throttle>>

Next ==
    \/ Tick \/ NextMatch
    \/ \E p \in Players : Activate(p) \/ Pickup(p) \/ \E c \in Players : CopyFrom(c, p)
    \/ \E m \in net : ReceiveBarrier(m) \/ ReceiveOther(m)

Spec == Init /\ [][Next]_vars

-----------------------------------------------------------------------------
Event == [type : {PACKET_START_BARRIER, PACKET_BIGLASER_PC, cPickupPacket},
          player : Players, to : Players, duration : Nat, source : Players, sent : Nat]

TypeOK ==
    /\ match \in 1..Matches /\ online \in BOOLEAN /\ now \in 0..LastFrame
    /\ endFrm \in [Players -> [Players -> Nat]]
    /\ source \in [Players -> [Players -> Players]]
    /\ granted \in [Players -> Nat]
    /\ mode \in [Players -> [Players -> {cKillerWail, cPrincessCannon}]]
    /\ sentExpiry \in [Players -> Nat] /\ lastSeen \in [Players -> Nat]
    /\ announced \subseteq Players
    /\ net \subseteq Event

(* No clone keeps a barrier longer than its owner, but for the frames the  *)
(* event took (source/main.cpp:480-505, 546).                              *)
CloneOutlastsByDelay ==
    \A c, p \in Players : endFrm[c][p] <= endFrm[p][p] + MaxDelay

(* While a player's own barrier is on, no clone holds an echo of it that   *)
(* ends later, so that the player is not infected with its own barrier     *)
(* again (483-498).                                                        *)
NoEchoOutlasts ==
    \A c \in Players : Active(c, c) /\ endFrm[c][c] = granted[c] =>
        \A p \in Players : source[c][p] = c => endFrm[c][p] <= endFrm[c][c]

(* A barrier never lasts longer than Duration from now, however often it   *)
(* is handed on.                                                           *)
NeverLonger == \A c, p \in Players : endFrm[c][p] <= now + Duration

(* The throttle never silences the first barrier of a match: the frame     *)
(* counter that goes back is "a definitive signal that the throttle state  *)
(* is stale" (516-521).                                                    *)
FirstBarrierAnnounced ==
    online => \A c \in Players : Active(c, c) => c \in announced

(* Once nothing is under way, the clones of a player who holds the         *)
(* Princess Cannon have its mode: "Sync PC mode to remote consoles via     *)
(* state event" (source/BigLaserModeMgr.cpp:1009).                         *)
PickupReachesClones ==
    online /\ net = {} => \A c, p \in Players : mode[c][p] = mode[p][p]
=============================================================================
