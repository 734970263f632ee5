SPECIFICATION Spec
CONSTANTS
  p1 = p1  p2 = p2  striker = striker  striker2 = striker2  other = other
  Players <- TwoPlayers
  Ctrl = p1
  Weapons <- TwoWeapons
  InkstrikeWeapons <- Strikers
  TankOf <- Tanks
  ShootingRange = FALSE
  PrepareDelay = 1
  PlayerDelay = 1
  FlightTime = 2
  LongFlightTime = 2
  BurstDuration = 1
  StaleFrames = 0
INVARIANTS TankStaysLocked
