-------------------------- MODULE MCBurstCylinder ---------------------------
(***************************************************************************)
(* Two bursts of opposite teams over one small stage, in a life of three   *)
(* frames: the radius reaches distance 0 at once, 1 from the second frame, *)
(* 2 in the last, 3 never.  Player p2 may step in and out of the first one.*)
(***************************************************************************)
EXTENDS BurstCylinder

MCSenderOf == [b \in Bursts |-> IF b = "b1" THEN "p1" ELSE "p2"]
MCTeamOf == [b \in Bursts |-> IF b = "b1" THEN "alpha" ELSE "bravo"]
MCKindOf ==
    [o \in Objects |->
       CASE o = "p2"        -> "player"
         [] o = "sprinkler" -> "gear"
         [] o = "bubble"    -> "bubble"
         [] o = "rail"      -> "rail"
         [] o = "barrel"    -> "barrel"
         [] o = "sponge"    -> "sponge"
         [] o = "canopy"    -> "foe"
         [] o = "rainmaker" -> "neutral"
         [] o = "hook"      -> "grappler"]
MCFirstTeam == [o \in Objects |-> IF o \in {"sprinkler", "canopy"} THEN "alpha" ELSE "bravo"]

Row(x, y) == [b \in Bursts |-> IF b = "b1" THEN x ELSE y]
Layout(p) ==
    [o \in Objects |->
       CASE o = "p2" -> Row(p, 0)       [] o = "sprinkler" -> Row(3, 1)
         [] o = "bubble" -> Row(0, 1)   [] o = "rail" -> Row(1, 2)
         [] o = "barrel" -> Row(1, 0)   [] o = "hook" -> Row(0, 2)
         [] o = "sponge" -> Row(0, 3)   [] o = "canopy" -> Row(0, 1)
         [] o = "rainmaker" -> Row(2, 0)]
MCFirstDists == {Layout(0), Layout(2)}

MCWaterRel == Row(0, 4)
Seen(x) == [block |-> x, info |-> TRUE]
MCBlockReports ==
    {<<[block |-> "lift", info |-> FALSE], Seen("lift"), Seen("lift")>>,
     <<Seen("ramp"), Seen("field"), Seen("none"), Seen("lift")>>}

=============================================================================
