SPECIFICATION FairSpec
CONSTANTS
  Keys = {a, b}
  NoKey = NoKey
  SetIds = {1, 2, 3}
  MaxBytes = 1
  Failures = TRUE
  PoolSize = 1
  MaxConcurrent = 2
  MaxTiles = 1
  MaxCalls = 3
  MaxReloads = 1
INVARIANTS TotalIsSum PoolConserves
PROPERTY EveryFetchSettles
CHECK_DEADLOCK FALSE
