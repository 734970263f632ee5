-------------------------- MODULE InkTankOverride ---------------------------
(***************************************************************************)
(* The tank-change inhibitor of source/InkTankOverride.cpp: while it is    *)
(* held, searchForVersusIdHook ignores the weapon it is asked about and    *)
(* answers with the tank captured by the last lockForInkstrike.  There is  *)
(* ONE inhibitor for all the players.                                      *)
(***************************************************************************)
CONSTANTS Weapons,   \* main weapon ids
          TankOf     \* computeTankId: the override table, then the Shooter_First prefix

LockType == [held : BOOLEAN, tank : {TankOf[w] : w \in Weapons}]

computeTankId(w) == TankOf[w]

(* gInhibitTankChange = true; gLockedTankId = computeTankId(weaponId) *)
lockForInkstrike(w) == [held |-> TRUE, tank |-> computeTankId(w)]

unlock(l) == [l EXCEPT !.held = FALSE]

searchForVersusIdHook(l, w) == IF l.held THEN l.tank ELSE computeTankId(w)

=============================================================================
