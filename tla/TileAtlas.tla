----------------------------- MODULE TileAtlas -----------------------------
(***************************************************************************)
(* The placement of COPC tiles on the GPU: allocSlotForTile and its        *)
(* helpers (src/copc/copc-gpu-pipeline.ts) over the methods of             *)
(* AtlasManager, with uploadTile of WebGPUCopcScene, which runs            *)
(* undisturbed from the allocation to the slot's descriptor.               *)
(***************************************************************************)
EXTENDS AtlasMethods

VARIABLES
  atlas,      \* pipeline.atlas
  nodeTable,  \* the atlasSlot field of each node in nodeBuffer, on the GPU
  content     \* the node whose points and descriptor a slot has, on the GPU

(* A new pipeline *)
EmptyAtlas ==
  /\ atlas' = Empty
  /\ nodeTable' = [n \in Nodes |-> NoSlot]
  /\ content' = [s \in Slots |-> NoNode]

(* setNodeAtlasSlot, of the node uploaded and of those that lose a slot *)
Linked(n, s, gone) ==
  nodeTable' = [m \in Nodes |-> IF m = n THEN s ELSE IF m \in gone THEN NoSlot ELSE nodeTable[m]]

(* uploadTilePoints and setSlotDesc *)
PointsWritten(n, s) == content' = [content EXCEPT ![s] = n]

(* An operator named Bug... is not part of the model: it is the next one   *)
(* with a mistake, which a property must notice.                           *)
BugVictimStays(n, s, a, gone) ==
  atlas' = Touched(Assigned(a, n, s), n) /\ Linked(n, s, {}) /\ PointsWritten(n, s)

(* allocSlotForTile and the upload: slot s of atlas a goes to n, and the   *)
(* nodes `gone` lose theirs.                                               *)
Place(n, s, a, gone) ==
  atlas' = Touched(Assigned(a, n, s), n) /\ Linked(n, s, gone) /\ PointsWritten(n, s)

(* A slot of tier t is free, or a loaded node can be evicted from one.     *)
HasRoom(t, kept) == HasFreeSlot(atlas, t) \/ Evictable(atlas, t, kept) # <<>>

(* The slot of the upload, and what happens to the atlas on the way        *)
SlotFor(t, kept) ==
  IF HasFreeSlot(atlas, t) THEN TopSlot(atlas, t) ELSE atlas.nodeToSlot[Oldest(atlas, t, kept)]

Upload(n, t, kept) ==
  IF HasFreeSlot(atlas, t)
  THEN Place(n, TopSlot(atlas, t), Allocated(atlas, t), {})
  ELSE LET victim == Oldest(atlas, t, kept)
       IN Place(n, atlas.nodeToSlot[victim], Evicted(atlas, victim), {victim})

-----------------------------------------------------------------------------
(* Properties *)

(* slotToNode is the reverse of the nodes' slots: no two loaded nodes are  *)
(* drawn from one slot.                                                    *)
OneTilePerSlot ==
  \A n, m \in Loaded(atlas) : atlas.nodeToSlot[n] = atlas.nodeToSlot[m] => n = m
=============================================================================
