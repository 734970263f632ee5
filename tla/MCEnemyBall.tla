---------------------------- MODULE MCEnemyBall -----------------------------
(* One ball with one point of health; the wall counter and the animation   *)
(* run over two frames.                                                    *)
EXTENDS EnemyBall
=============================================================================
