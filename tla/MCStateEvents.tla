---------------------------- MODULE MCStateEvents ----------------------------
(* Instances of StateEvents for TLC: consoles are interchangeable. *)
EXTENDS StateEvents, TLC

CONSTANTS a, b

MCTwo == {a, b}

ConsoleSymmetry == Permutations(Players)
=============================================================================
