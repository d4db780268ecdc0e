CONSTANTS
  Total = 4
  Width = 3
  Redundancy = 1
  HeaderSegs = {1, 2}
  BadSegs = {3}
  Excluded <- MCBehind
  Misreads <- MCMisreads
  JunkMaps <- MCJunkMaps
  Passes = 2
  MaxDamage = 2
SPECIFICATION Spec
INVARIANTS
  GoodIsKept
  OnlyBurstsMisplace
  ErasuresAreExact
  TrustworthyUnderMap
  HeaderIsFound
CHECK_DEADLOCK FALSE
