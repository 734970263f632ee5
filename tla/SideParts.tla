------------------------------ MODULE SideParts ------------------------------
(***************************************************************************)
(* The parts that share no state with any other: the map list, the music,  *)
(* the Salmon Run pool and the king squid.  What one of them does leaves   *)
(* the others as they are, so that a property of one part holds in every   *)
(* mixture of their behaviours if it holds in those where the others rest. *)
(* A behaviour of this module moves one part only.                         *)
(***************************************************************************)
EXTENDS MapRoster, BgmWalk, SpecialPool, KingSquid

VARIABLE part

sideVars == <<part, vars, bgmVars, poolVars, kingVars>>

RosterRests == body = [k \in NewSlots |-> kU16Sentinel] /\ installed = FALSE
BgmRests ==
    /\ selection = Tunes /\ curBgm = Unlisted /\ seed = NoSeed
    /\ heard = {} /\ whole = FALSE

SideInit ==
    /\ part \in {"roster", "music", "pool", "king"}
    /\ IF part = "roster" THEN Init ELSE RosterRests
    /\ IF part = "music" THEN BgmInit ELSE BgmRests
    /\ PoolInit /\ KingInit

Only(p) == part = p /\ UNCHANGED part

RosterStep == Only("roster") /\ Next /\ UNCHANGED <<bgmVars, poolVars, kingVars>>
MusicStep == Only("music") /\ BgmNext /\ UNCHANGED <<vars, poolVars, kingVars>>
PoolStep == Only("pool") /\ PoolNext /\ UNCHANGED <<vars, bgmVars, kingVars>>
KingStep == Only("king") /\ KingNext /\ UNCHANGED <<vars, bgmVars, poolVars>>

SideNext == RosterStep \/ MusicStep \/ PoolStep \/ KingStep

SideSpec == SideInit /\ [][SideNext]_sideVars

(* The types of all the parts. *)
SideTypeOK == TypeOK /\ BgmTypeOK /\ PoolTypeOK /\ KingTypeOK
=============================================================================
