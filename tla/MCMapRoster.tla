---------------------------- MODULE MCMapRoster -----------------------------
(* An instance of MapRoster for TLC: two 32-bit slots and four maps, one   *)
(* of them with the id 0.                                                  *)
EXTENDS MapRoster

CONSTANT HighestMap

MapsFromZero == 0 .. HighestMap
NoMap == {65000}
=============================================================================
