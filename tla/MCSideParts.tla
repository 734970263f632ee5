---------------------------- MODULE MCSideParts -----------------------------
(* Values for the parts: seven maps, one of them with the id 0, four tunes,*)
(* a pool of six, two consoles and two kings.                              *)
EXTENDS SideParts, TLC

CONSTANTS HighestMap, a, b, c, d, x, k1, k2

MapsFromZero == 0 .. HighestMap
NoMap == {65000}

(* An order of all the tunes is a seed; the list of a choice keeps it.     *)
MCSeeds == {s \in [1 .. Cardinality(Tunes) -> Tunes] : IsInjective(s)}
MCShuffled ==
    [s \in MCSeeds |-> [S \in Selections |-> SelectSeq(s, LAMBDA t : t \in S)]]

MCLoaded == [i \in 0 .. 5 |-> 10 + i]
=============================================================================
