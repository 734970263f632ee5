------------------------------- MODULE BgmWalk -------------------------------
(***************************************************************************)
(* The music of the next match: choiceBgmHook of source/BgmExtend.cpp.     *)
(* The game's bgmfuncthign lists the chosen tunes in an order that depends *)
(* on a seed only; the hook walks down the list, one tune a match, and     *)
(* draws a new seed at its end.  What survives from match to match is the  *)
(* tune and the seed: the list is made again every time.                   *)
(***************************************************************************)
EXTENDS Integers, Sequences, FiniteSets

CONSTANTS Tunes,
          Seeds,     \* what the hook makes of a random word: never 0
          NoSeed,    \* the seed word 0: nothing drawn yet
          Unlisted,  \* a tune word outside Tunes
          Shuffled   \* bgmfuncthign: [Seeds -> [Selections -> sequences]]

Selections == (SUBSET Tunes) \ {{}}

ASSUME BgmAssumption ==
    /\ NoSeed \notin Seeds /\ Unlisted \notin Tunes
    /\ \A s \in Seeds, S \in Selections :
         /\ Shuffled[s][S] \in Seq(S)
         /\ \A t \in S : \E i \in 1 .. Len(Shuffled[s][S]) : Shuffled[s][S][i] = t
         /\ \A i, j \in 1 .. Len(Shuffled[s][S]) :
              Shuffled[s][S][i] = Shuffled[s][S][j] => i = j

VARIABLES selection,  \* the tunes BgmSelectInfo lets through
          curBgm,     \* StaticMem + 0x3D0
          seed,       \* StaticMem + 0x3D4
          heard,      \* history: the tunes of this round
          whole       \* history: the round was begun at index 0

bgmVars == <<selection, curBgm, seed, heard, whole>>

List(s) == Shuffled[s][selection]

(* Counted from one.  A tune that is not in the list counts as the first.  *)
nextIdx(s) ==
    IF \E i \in 1 .. Len(List(s)) : List(s)[i] = curBgm
    THEN 1 + CHOOSE i \in 1 .. Len(List(s)) : List(s)[i] = curBgm
    ELSE 2

(* The seed in use: one is drawn when there is none. *)
SeedsNow == IF seed = NoSeed THEN Seeds ELSE {seed}

(* The seed drawn for the first list is not written back. *)
walkSeedLost(s) ==
    /\ nextIdx(s) <= Len(List(s))
    /\ curBgm' = List(s)[nextIdx(s)]
    /\ heard' = heard \cup {curBgm'}
    /\ UNCHANGED <<selection, seed, whole>>

walk(s) ==
    /\ nextIdx(s) <= Len(List(s))
    /\ curBgm' = List(s)[nextIdx(s)]
    /\ seed' = s
    /\ heard' = heard \cup {curBgm'}
    /\ UNCHANGED <<selection, whole>>

(* The end of the list: seeds are drawn, 999 times at most, until the new  *)
(* list begins with another tune.  That 999 draws in a row fail although   *)
(* there are two tunes is left out.                                        *)
reshuffle(s) ==
    /\ nextIdx(s) > Len(List(s))
    /\ \E drawn \in Seeds :
         /\ List(drawn)[1] # curBgm \/ Len(List(drawn)) = 1
         /\ curBgm' = List(drawn)[1]
         /\ seed' = drawn
    /\ heard' = {curBgm'}
    /\ whole' = TRUE
    /\ UNCHANGED selection

choiceBgmHook == \E s \in SeedsNow : walk(s) \/ reshuffle(s)

(* The players choose other tunes; the seed and the tune stay. *)
selectBgm(S) ==
    /\ selection' = S
    /\ heard' = {curBgm} \cap S
    /\ whole' = FALSE
    /\ UNCHANGED <<curBgm, seed>>

(* The memory at start: no seed, and any word for the tune. *)
BgmInit ==
    /\ selection \in Selections
    /\ curBgm \in Tunes \cup {Unlisted}
    /\ seed = NoSeed
    /\ heard = {} /\ whole = FALSE

BgmNext == choiceBgmHook \/ \E S \in Selections : selectBgm(S)

BgmSpec == BgmInit /\ [][BgmNext]_bgmVars

-----------------------------------------------------------------------------
BgmTypeOK ==
    /\ selection \in Selections
    /\ curBgm \in Tunes \cup {Unlisted}
    /\ seed \in Seeds \cup {NoSeed}
    /\ heard \subseteq Tunes /\ whole \in BOOLEAN

(* Although every match makes the list anew from a stored seed, the tunes  *)
(* come as from one shuffled list: none twice in a round, none twice       *)
(* running, every one in a round begun at index 0 (source/BgmExtend.cpp    *)
(* 126-176), whatever the choice was before and is after.                  *)
Music == INSTANCE Playlist WITH chosen <- selection, tune <- curBgm
ImplementsPlaylist == Music!Spec
=============================================================================
