----------------------------- MODULE CopcScenes -----------------------------
(***************************************************************************)
(* The two scenes of a COPC file over their tile atlas: WebGPUCopcScene,   *)
(* whose frames are those of CopcTraversal, and WebGLCopcScene, which cuts *)
(* the tree on the CPU and keeps a copy of the atlas there.  The component *)
(* uploads tiles and changes the maxDepth prop between frames.             *)
(***************************************************************************)
EXTENDS CopcTraversal

CONSTANTS
  Views,   \* cameras: records of sets [visible, fine, behind]
  Depths,  \* values of the maxDepth prop
  Hollow,  \* nodes of the index without points
  TierFor, \* _pickTier of each node's point count
  MaxUploads \* bound: tiles uploaded

ASSUME SceneConstants ==
  /\ IsFiniteSet(Slots) /\ MaxUploads \in Nat
  /\ TierFor \in [Nodes -> Tiers \cup {NoTier}]
  /\ Depths \subseteq Nat /\ Hollow \subseteq Nodes /\ Keys = Nodes
  /\ \A v \in Views : v.visible \cup v.fine \cup v.behind \subseteq Nodes

VARIABLES
  backend,  \* which scene is mounted: "webgpu" or "webgl"
  dirty,    \* GlState.dirty
  vbo,      \* WebGL: the node whose points a slot has in the VBOs
  stack,    \* computeCopcLodCut: the nodes to visit, the next one last
  cut,      \* computeCopcLodCut: the nodes selected
  lastCut,  \* history: the nodes the last WebGL frame drew
  since,    \* history: the nodes uploaded since
  uploads   \* how many tiles were uploaded

glVars == <<dirty, vbo, stack, cut>>
tileVars == <<atlas, nodeTable, content>>
history == <<lastCut, since, uploads>>
vars == <<tileVars, view, table, gpuVars, drawn, backend, glVars, history>>

-----------------------------------------------------------------------------
(* uploadTile skips for eviction whatever has no entry in the table.       *)
NotInTable == Nodes \ Range(table)

BugStaysClean == dirty
MarkedDirty == backend = "webgl"

(* uploadTile of either scene, for a node in the table without a slot      *)
UploadTile(n) ==
  /\ phase = "idle" /\ uploads < MaxUploads
  /\ uploads' = uploads + 1
  /\ n \in Range(table) \ (Hollow \cup Loaded(atlas)) /\ HasRoom(TierFor[n], NotInTable)
  /\ Upload(n, TierFor[n], NotInTable)
  /\ dirty' = MarkedDirty
  /\ since' = IF backend = "webgl" THEN since \cup {n} ELSE {}
  /\ UNCHANGED <<view, table, gpuVars, drawn, backend, vbo, stack, cut, lastCut>>

(* The effect on [index, maxDepth]: the WebGL scene rebuilds its table,    *)
(* the other finds its index uploaded and does nothing.                    *)
DepthChanged == \E d \in Depths :
  /\ phase = "idle" /\ backend = "webgl"
  /\ table # NodeTable(d) /\ table' = NodeTable(d)
  /\ UNCHANGED <<tileVars, view, gpuVars, drawn, backend, glVars, history>>

MoveCamera == \E v \in Views \ {view} :
  /\ phase = "idle"
  /\ view' = v
  /\ UNCHANGED <<tileVars, table, gpuVars, drawn, backend, glVars, history>>

-----------------------------------------------------------------------------
(* The frames *)

(* useFrame of WebGLCopcScene begins: the points go to the VBOs if there   *)
(* are new ones, and computeCopcLodCut starts at the roots.                *)
GLFrameStarts ==
  /\ phase = "idle" /\ backend = "webgl" /\ table # <<>>
  /\ vbo' = IF dirty THEN content ELSE vbo
  /\ dirty' = FALSE
  /\ phase' = "cut" /\ stack' = Roots(table) /\ cut' = <<>>
  /\ UNCHANGED <<tileVars, view, table, gpuQueues, drawn, backend, history>>

(* An iteration of computeCopcLodCut: a node is popped; if it is in view   *)
(* and too coarse, its children are pushed; if it is the one to draw it is *)
(* selected and touched.                                                   *)
GLVisit ==
  LET n == stack[Len(stack)]
      rest == SubSeq(stack, 1, Len(stack) - 1)
      loaded == Loaded(atlas)
      selects == n \in loaded /\ Takes(table, view, n, loaded)
  IN /\ phase = "cut" /\ stack # <<>>
     /\ IF n \notin view.visible \ view.behind THEN stack' = rest /\ UNCHANGED <<cut, atlas>>
        ELSE /\ stack' = IF n \in view.fine THEN rest ELSE rest \o ChildrenIn(table, n)
             /\ cut' = IF selects THEN Append(cut, n) ELSE cut
             /\ atlas' = IF selects THEN Touched(atlas, n) ELSE atlas
     /\ UNCHANGED <<nodeTable, content, view, table, gpuVars, drawn, backend, dirty, vbo, history>>

(* The rest of useFrame draws what was selected.                           *)
GLFrameEnds ==
  /\ phase = "cut" /\ stack = <<>>
  /\ phase' = "idle"
  /\ drawn' = [i \in DOMAIN cut |-> atlas.nodeToSlot[cut[i]]]
  /\ lastCut' = Range(cut) /\ since' = {}
  /\ UNCHANGED <<tileVars, view, table, gpuQueues, backend, glVars, uploads>>

(* useFrame of WebGPUCopcScene submits; its own cut is for the metrics and *)
(* touches nothing.                                                        *)
SubmitFrame == backend = "webgpu" /\ Submit

GpuStep == \/ SubmitFrame \/ NextWave \/ Compact \/ PushChild
           \/ \E i \in 1..MaxNodes : Thread(i)
           \/ \E s \in Slots : Pack(s)

GpuMoves ==
  /\ GpuStep
  /\ UNCHANGED <<tileVars, backend, glVars, history>>

GpuFrameEnds ==
  /\ Render
  /\ UNCHANGED <<tileVars, backend, glVars, history>>

Init ==
  /\ atlas = Empty /\ nodeTable = [n \in Nodes |-> NoSlot] /\ content = [s \in Slots |-> NoNode]
  /\ view \in Views /\ table \in {NodeTable(d) : d \in Depths}
  /\ GpuInit
  /\ drawn = <<>> /\ lastCut = {} /\ since = {} /\ uploads = 0
  /\ backend \in {"webgpu", "webgl"}
  /\ dirty = FALSE /\ vbo = content /\ stack = <<>> /\ cut = <<>>

Next ==
  \/ DepthChanged \/ MoveCamera \/ GLFrameStarts \/ GLVisit \/ GLFrameEnds
  \/ GpuMoves \/ GpuFrameEnds
  \/ \E n \in Nodes : UploadTile(n)

Spec == Init /\ [][Next]_vars

-----------------------------------------------------------------------------
(* Properties *)

SlotsOf(ns) == {atlas.nodeToSlot[n] : n \in ns}

(* A WebGPU frame draws, each once, the slots of the loaded nodes of the   *)
(* additive cut: threads that push at once lose no child, and no entry of  *)
(* another wave or of an earlier frame is drawn.                           *)
GpuDrawsCut ==
  [][GpuFrameEnds =>
       LET seen == {n \in AdditiveCut(table, view, Loaded(atlas)) : Depth[n] < Waves}
       IN Len(drawn') = Cardinality(SlotsOf(seen)) /\ Range(drawn') = SlotsOf(seen)]_vars

(* A WebGL frame draws each node of the replacement cut once, and the VBOs *)
(* have the points that were last uploaded to its slot.                    *)
GLDrawsCut ==
  [][GLFrameEnds =>
       LET seen == ReplacementCut(table, view, Loaded(atlas))
       IN /\ Len(drawn') = Cardinality(seen) /\ Range(drawn') = SlotsOf(seen)
          /\ \A s \in SlotsOf(seen) : vbo[s] = content[s]]_vars

(* The WebGL scene evicts a tile that the last frame drew only if every    *)
(* other that could go was drawn too, or uploaded since.                   *)
EvictsUnseen ==
  [][backend = "webgl" =>
      \A n \in Loaded(atlas) \ Loaded(atlas)' : n \in lastCut =>
        Elements(atlas.lru[TierFor[n]]) \ NotInTable \subseteq lastCut \cup since]_vars
=============================================================================
