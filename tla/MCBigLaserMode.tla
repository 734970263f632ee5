--------------------------- MODULE MCBigLaserMode ---------------------------
(* Instances of BigLaserMode for TLC.  The bullets of a pool are           *)
(* interchangeable.                                                        *)
EXTENDS BigLaserMode, TLC

CONSTANTS me, them, k1, k2, c1, c2, e1

MCPlayers == {me, them}
MCLocal == {me}
MCKWBullets == {k1, k2}
MCPCBullets == {c1, c2}
MCEngineBullets == {e1}

PoolSymmetry == Permutations(MCKWBullets) \cup Permutations(MCPCBullets)
=============================================================================
