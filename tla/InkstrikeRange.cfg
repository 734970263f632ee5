SPECIFICATION FairSpec
CONSTANTS
  p1 = p1  p2 = p2  striker = striker  striker2 = striker2  other = other
  Players <- OnePlayer
  Ctrl = p1
  Weapons <- ThreeWeapons
  InkstrikeWeapons <- Strikers
  TankOf <- Tanks
  ShootingRange = TRUE
  PrepareDelay = 2
  PlayerDelay = 2
  FlightTime = 4
  LongFlightTime = 5
  BurstDuration = 2
  StaleFrames = 2
INVARIANTS TankStaysLocked
PROPERTIES ImplementsStrikeClock ActivationEnds StrikeEnds
