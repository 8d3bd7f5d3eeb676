--------------------------- MODULE CopcTraversal ---------------------------
(***************************************************************************)
(* One frame of WebGPUCopcScene on the GPU: the traversal of the node      *)
(* table in waves (src/webgpu/copc-traverse-wave.wgsl), one dispatch for   *)
(* each depth, whose threads run at once and share atomic counters, then   *)
(* compaction, packing and the draw.                                       *)
(*                                                                         *)
(* Time is the GPU queue's: a writeBuffer of the application is done       *)
(* before or after all the commands of a frame, never between them.        *)
(***************************************************************************)
EXTENDS NodeTree, TileAtlas

CONSTANT Waves \* pipeline.maxDepth

ASSUME WavesAssumption == Waves \in Nat \ {0}

VARIABLES
  view,      \* the frame uniforms
  table,     \* pipeline.nodes, and on the GPU nodeBuffer but for the slots
  phase,     \* the frame under way: "waves" or "pack" on the GPU, "cut" on the CPU, or "idle"
  wave,
  queue,     \* workQueueA and workQueueB, whose old entries stay
  counts,    \* queueCountBuffer
  todo,      \* threads of the present dispatch that have not started
  pushing,   \* for each thread at its loop, the children it still pushes
  selected,  \* selectedSlotsBuffer
  drawArgs,  \* the slots whose vertexCount is not 0
  packList, drawCount,
  drawn      \* the slots the last frame drew, in order

gpuQueues == <<wave, queue, counts, todo, pushing, selected, drawArgs, packList, drawCount>>
gpuVars == <<phase, gpuQueues>>

NoQueue == [i \in 1..MaxNodes |-> NoNode]

GpuInit ==
  /\ phase = "idle" /\ wave = 0
  /\ queue = [b \in 0..1 |-> NoQueue]
  /\ counts = [w \in 0..Waves |-> IF w = 0 THEN Len(Roots(table)) ELSE 0]
  /\ todo = {} /\ pushing = {} /\ selected = {}
  /\ drawArgs = {}
  /\ packList = [i \in 1..Cardinality(Slots) |-> NoSlot] /\ drawCount = 0

-----------------------------------------------------------------------------
(* Steps.  An operator named Bug... is not part of the model: it is the    *)
(* next one with a mistake, which a property must notice.                  *)

(* clearBuffer from the second counter on *)
CountsCleared == [w \in 0..Waves |-> IF w = 0 THEN counts[0] ELSE 0]

Reseeded ==
  [queue EXCEPT ![0] = [i \in 1..MaxNodes |-> IF i <= Len(Roots(table)) THEN Roots(table)[i] ELSE @[i]]]

(* The frame is submitted, and its first dispatch begins.                  *)
Submit ==
  /\ phase = "idle"
  /\ phase' = "waves" /\ wave' = 0
  /\ queue' = Reseeded
  /\ counts' = CountsCleared
  /\ selected' = {}
  /\ todo' = 1..counts'[0] /\ pushing' = {}
  /\ UNCHANGED <<drawArgs, packList, drawCount, view, table, drawn>>

BugSameQueue(w) == queue[0]
InputOf(w) == queue[w % 2]

(* A thread reads its node and its queue entry, culls and selects.         *)
Thread(i) ==
  LET n == InputOf(wave)[i]
  IN /\ phase = "waves" /\ i \in todo
     /\ todo' = todo \ {i}
     /\ IF n \notin view.visible THEN UNCHANGED <<selected, pushing>>
        ELSE /\ selected' = selected \cup ({nodeTable[n]} \ {NoSlot})
             /\ pushing' = IF n \in view.fine THEN pushing
                           ELSE pushing \cup ({ChildrenIn(table, n)} \ {<<>>})
     /\ UNCHANGED <<phase, wave, queue, counts, drawArgs, packList, drawCount, view, table, drawn>>

(* One turn of a thread's loop: it takes an index of the next wave's queue *)
(* with an atomicAdd, and no other thread has it.                          *)
PushChild == \E c \in pushing :
  /\ counts' = [counts EXCEPT ![wave + 1] = @ + 1]
  /\ queue' = [queue EXCEPT ![(wave + 1) % 2][counts'[wave + 1]] = Head(c)]
  /\ pushing' = (pushing \ {c}) \cup ({Tail(c)} \ {<<>>})
  /\ UNCHANGED <<phase, wave, todo, selected, drawArgs, packList, drawCount, view, table, drawn>>

DispatchDone == todo = {} /\ pushing = {}

NextWave ==
  /\ phase = "waves" /\ DispatchDone /\ wave < Waves - 1
  /\ wave' = wave + 1
  /\ todo' = 1..counts[wave + 1]
  /\ UNCHANGED <<phase, queue, counts, pushing, selected, drawArgs, packList, drawCount,
                 view, table, drawn>>

(* The compaction dispatch, whose threads are independent; the packing of  *)
(* what it leaves begins.                                                  *)
Compact ==
  /\ phase = "waves" /\ DispatchDone /\ wave = Waves - 1
  /\ drawArgs' = {s \in selected : content[s] # NoNode}
  /\ drawCount' = 0
  /\ phase' = "pack" /\ todo' = drawArgs'
  /\ UNCHANGED <<wave, queue, counts, pushing, selected, packList, view, table, drawn>>

Pack(s) ==
  /\ phase = "pack" /\ s \in todo
  /\ todo' = todo \ {s}
  /\ drawCount' = drawCount + 1
  /\ packList' = [packList EXCEPT ![drawCount'] = s]
  /\ UNCHANGED <<phase, wave, queue, counts, pushing, selected, drawArgs, view, table, drawn>>

(* One multiDrawIndirect, or a draw for each slot where it is missing      *)
Render ==
  /\ phase = "pack" /\ todo = {}
  /\ phase' = "idle"
  /\ \/ drawn' = SubSeq(packList, 1, drawCount)
     \/ drawn' \in {list \in [1..Cardinality(drawArgs) -> drawArgs] : IsInjective(list)}
  /\ UNCHANGED <<wave, queue, counts, todo, pushing, selected, drawArgs, packList, drawCount,
                 view, table>>
=============================================================================
