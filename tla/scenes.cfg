CONSTANTS
  far = far
  near = near
  plain = plain
  z = z
  unset = unset
  Styles <- MCStyles
  Views <- MCViews
  Plain <- plain
  Unset <- unset
  Cap = 2
  MaxPoints = 4
  MaxChunk = 3
  MaxResets = 1
  MaxChanges = 1
  MaxPicks = 1
  HasBridge = {TRUE, FALSE}
SPECIFICATION Spec
INVARIANTS PairsConserved NothingFromBeforeReset MirrorFaithful
CHECK_DEADLOCK FALSE
