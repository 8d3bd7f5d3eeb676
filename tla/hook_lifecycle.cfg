SPECIFICATION HookSpec
CONSTANTS
  MaxQueued = 2
  MaxCoalesce = 2
  Culling = TRUE
  Throws = TRUE
  MaxPost = 2
  MaxPosted = 5
  MaxErrors = 1
  MaxResets = 2
  MaxRemounts = 1
  MaxChanges = 1
INVARIANTS InOrder BufferHoldsDelivered NoPointFromBeforeReset
CHECK_DEADLOCK FALSE
