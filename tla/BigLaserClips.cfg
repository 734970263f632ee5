SPECIFICATION Spec
SYMMETRY PoolSymmetry
CONSTANTS
  me = me
  them = them
  k1 = k1
  k2 = k2
  c1 = c1
  c2 = c2
  e1 = e1
  None = None
  Players <- MCPlayers
  Local <- MCLocal
  KWBullets <- MCKWBullets
  PCBullets <- MCPCBullets
  EngineBullets <- MCEngineBullets
INVARIANTS ClipsFollowMode
