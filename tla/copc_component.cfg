SPECIFICATION FairSpec
CONSTANTS
  Nodes = {0, 1, 2, 3}
  Keys = {"r", "a", "b", "c", "h", "m"}
  NoNode = NoNode
  Slots <- MCSlots
  NoSlot = NoSlot
  Tiers = {"small"}
  NoTier = "none"
  TierOf <- MCTierOf
  TierFor <- MCTierFor
  SlotOrder <- MCSlotOrder
  MaxConcurrent = 2
  Files = {"A", "B"}
  NodesOf <- MCNodesOf
  IdOf <- MCIdOf
  Hollow = {"h"}
  Root = "r"
  Views <- MCViews
  MaxSources = 2
  MaxMoves = 2
INVARIANTS TilesOfShownFile NoSourceLeaks TableFollowsAtlas
PROPERTY EveryTileSettles
CHECK_DEADLOCK FALSE
