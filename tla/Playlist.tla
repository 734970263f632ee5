------------------------------ MODULE Playlist ------------------------------
(***************************************************************************)
(* What a shuffled playlist promises: rounds in which no tune comes twice, *)
(* no tune twice running, and no round begun before the last one, if it    *)
(* was begun at the top of a list, has played every tune.                  *)
(***************************************************************************)
EXTENDS FiniteSets

CONSTANTS Tunes

VARIABLES chosen,   \* the tunes to be played
          tune,     \* the one that plays
          heard,    \* the tunes of this round
          whole     \* the round was begun at the top of a list

Init ==
    /\ chosen \in (SUBSET Tunes) \ {{}}
    /\ heard = {} /\ whole = FALSE

Continue(t) ==
    /\ t \in chosen \ heard
    /\ heard' = heard \cup {t}
    /\ UNCHANGED whole

BeginRound(t) ==
    /\ t \in chosen
    /\ whole => heard = chosen
    /\ heard' = {t}
    /\ whole' = TRUE

Play(t) ==
    /\ Continue(t) \/ BeginRound(t)
    /\ t = tune => chosen = {t}
    /\ tune' = t
    /\ UNCHANGED chosen

(* Another choice of tunes breaks the round off. *)
Choose(S) ==
    /\ S \in (SUBSET Tunes) \ {{}}
    /\ chosen' = S
    /\ heard' = {tune} \cap S /\ whole' = FALSE
    /\ UNCHANGED tune

Next ==
    \/ \E t \in Tunes : Play(t)
    \/ \E S \in SUBSET Tunes : Choose(S)

Spec == Init /\ [][Next]_<<chosen, tune, heard, whole>>
=============================================================================
