SPECIFICATION Spec
CONSTANTS
  Nodes = {"r", "a", "b", "h", "aa", "ab", "aaa"}
  NoNode = "none"
  Slots <- MCSlots
  NoSlot = NoSlot
  Tiers = {"small"}
  NoTier = "none"
  TierOf <- MCTierOf
  TierFor <- MCTierFor
  SlotOrder <- MCSlotOrder
  KeyOrder <- MCKeyOrder
  Depth <- MCDepth
  ParentOf <- MCParentOf
  NoBytes = {"h"}
  MaxNodes = 6
  Waves = 3
  Views <- MCViews
  Depths = {1, 3}
  Hollow = {}
  MaxUploads = 5
PROPERTIES GpuDrawsCut GLDrawsCut EvictsUnseen
