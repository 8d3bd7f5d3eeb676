SPECIFICATION Spec
CONSTANTS
  Keys = {a}
  NoKey = NoKey
  SetIds = {1}
  MaxBytes = 1
  Failures = FALSE
  PoolSize = 1
  MaxConcurrent = 2
  MaxTiles = 1
  MaxCalls = 1
  MaxReloads = 0
INVARIANT PersistedIsWhole
CHECK_DEADLOCK FALSE
