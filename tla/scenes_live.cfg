CONSTANTS
  far = far
  near = near
  plain = plain
  z = z
  unset = unset
  Styles <- MCStyles
  Views <- OneView
  Plain <- plain
  Unset <- unset
  Cap = 2
  MaxPoints = 3
  MaxChunk = 3
  MaxResets = 0
  MaxChanges = 1
  MaxPicks = 2
  HasBridge = {TRUE}
SPECIFICATION FairSpec
PROPERTIES StyleShown PushedIsDrawn PicksSettle
CHECK_DEADLOCK FALSE
