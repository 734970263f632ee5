---------------------------- MODULE MCInkstrike -----------------------------
(* Instances of Inkstrike for TLC: small delays that keep the order of the *)
(* code's (the player is released while the bullet still flies).           *)
EXTENDS Inkstrike

CONSTANTS p1, p2, striker, striker2, other

TwoPlayers == {p1, p2}
OnePlayer == {p1}
OneWeapon == {striker}
TwoWeapons == {striker, striker2}
ThreeWeapons == {striker, striker2, other}
(* tank 1: the Shooter_First weapons; tank 0: everything else *)
Tanks == [w \in Weapons |-> IF w = striker THEN 1 ELSE 0]
Strikers == Weapons \ {other}
=============================================================================
