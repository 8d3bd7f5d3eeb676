----------------------------- MODULE GpuMirror -----------------------------
(***************************************************************************)
(* The WebGPU scene (src/components/WebGPUPointCloudScene.tsx): a copy of  *)
(* the ring in GPU buffers (src/webgpu/buffers.ts), brought up to date by  *)
(* frames from the chunks pushed since the last one, the compute pass that *)
(* fills the visible buffers (what the frustum and the sampling leave out  *)
(* is not modelled), and picking by slot.                                  *)
(***************************************************************************)
EXTENDS StreamStore

CONSTANT MaxPicks \* bound of the model: clicks

VARIABLES
  device,   \* "starting", "ready", or "failed": initFailedRef
  mirror,   \* the GPU ring
  gpu,      \* refs: uploaded, seen (lastSeenResetVersion), fresh
            \* (newDataSinceDispatch), colour (prevColorByForUpload)
  chunks,   \* pendingIngestChunksRef, what is written of its chunks in order
  drawn,    \* the visible buffers: [slot, point]
  clicks,   \* clicks on this scene so far
  pick,     \* pickPendingRef: a click, or NoPick
  readback, \* the click whose pixel is being read back: [click, hit]
  answered, \* history: clicks whose promise is resolved
  since     \* history: every point after this one is in its place in the
            \* mirror; points up to it were lost, or others taken twice

gpuVars == <<device, mirror, gpu, chunks, drawn, clicks, pick, readback, answered, since>>

NoPick == 0
NoHit == [slot |-> 0, point |-> NoPoint]
Idle == [click |-> NoPick, hit |-> NoHit]

GpuFresh ==
  [device |-> "starting", mirror |-> EmptyRing,
   gpu |-> [uploaded |-> FALSE, seen |-> 0, fresh |-> FALSE, colour |-> Plain],
   chunks |-> <<>>, drawn |-> {}, pick |-> NoPick, readback |-> Idle,
   clicks |-> 0, answered |-> {}, since |-> 0]

GpuIs(s) ==
  /\ device = s.device /\ mirror = s.mirror /\ gpu = s.gpu /\ chunks = s.chunks /\ drawn = s.drawn
  /\ clicks = s.clicks /\ pick = s.pick /\ readback = s.readback
  /\ answered = s.answered /\ since = s.since

(* Points the ring keeps of a chunk of n are not all written.              *)
CutShort(n) == since' = IF n > Cap THEN pushed + n ELSE since

(* The callback in rawIngestCallbackRef.  An operator named Bug... is not  *)
(* part of the model: it is the next one with a mistake.                   *)
BugReplacesChunks(chunk) ==
  /\ chunks' = Capped(chunk)
  /\ CutShort(Len(chunk))
  /\ UNCHANGED <<device, mirror, gpu, drawn, clicks, pick, readback, answered>>

GpuIngest(chunk) ==
  /\ chunks' = chunks \o Capped(chunk)
  /\ CutShort(Len(chunk))
  /\ UNCHANGED <<device, mirror, gpu, drawn, clicks, pick, readback, answered>>

-----------------------------------------------------------------------------
(* A frame, in its order: the initial upload, the reset handshake, the     *)
(* chunks or a new colour, the compute pass, the pick.                     *)

First == ~gpu.uploaded
ResetSeen == resetVersion # gpu.seen
BugChunksKept == chunks
Todo == IF ResetSeen THEN <<>> ELSE chunks
Recolour == Todo = <<>> /\ style # gpu.colour

Prepared ==
  LET uploaded == IF First THEN FullCopy(mirror) ELSE mirror
  IN IF ResetSeen THEN EmptyRing ELSE uploaded

Updated == IF Recolour THEN FullCopy(Prepared) ELSE WriteAll(Prepared, Todo)

NewData == \/ Todo # <<>>
           \/ Recolour /\ Kept # {}
           \/ ~ResetSeen /\ (gpu.fresh \/ (First /\ Kept # {}))

Runs(elapsed) == Updated.total > 0 /\ (elapsed \/ NewData)

Visible(elapsed) ==
  IF Updated.total = 0 THEN {}
  ELSE IF Runs(elapsed) THEN {[slot |-> s, point |-> Updated.slots[s]] : s \in 0..(Updated.total - 1)}
  ELSE drawn

(* A pick asked for while the staging buffer is mapped, or with nothing    *)
(* drawn, is answered with null at once.                                   *)
ReadsBack == pick # NoPick /\ Updated.total > 0 /\ readback = Idle
BugBusyForgotten == IF pick # NoPick /\ Updated.total = 0 THEN {pick} ELSE {}
AnsweredNow == IF pick = NoPick \/ ReadsBack THEN {} ELSE {pick}

Pick(visible) ==
  /\ pick' = NoPick
  /\ IF ReadsBack THEN \E hit \in visible \cup {NoHit} : readback' = [click |-> pick, hit |-> hit]
     ELSE UNCHANGED readback
  /\ answered' = answered \cup AnsweredNow

(* A chunk that waits at the initial upload is in the ring already, and is *)
(* written a second time over older points; what the ring took between     *)
(* reset() and this frame is cleared with the rest.                        *)
SinceFrame ==
  IF Recolour THEN born
  ELSE IF ResetSeen THEN pushed
  ELSE IF ~First THEN since
  ELSE IF Todo = <<>> THEN born ELSE Larger(since, pushed - Len(Todo))

FrameBody(elapsed) ==
  /\ device' = "ready"
  /\ mirror' = Updated
  /\ chunks' = <<>>
  /\ gpu' = [uploaded |-> TRUE, seen |-> resetVersion, fresh |-> NewData /\ ~Runs(elapsed),
             colour |-> IF Todo # <<>> \/ Recolour THEN style ELSE gpu.colour]
  /\ drawn' = Visible(elapsed)
  /\ Pick(Visible(elapsed))
  /\ since' = SinceFrame
  /\ MayRefresh
  /\ UNCHANGED clicks

GpuFrame(elapsed) == device = "ready" /\ FrameBody(elapsed)
DeviceAcquired(elapsed) == device = "starting" /\ FrameBody(elapsed)

(* acquireGpuState throws.                                                 *)
InitFails ==
  /\ device = "starting"
  /\ device' = "failed"
  /\ UNCHANGED <<mirror, gpu, chunks, drawn, clicks, pick, readback, answered, since, storeVars>>

Click ==
  /\ clicks < MaxPicks
  /\ clicks' = clicks + 1
  /\ pick' = clicks'
  /\ UNCHANGED <<device, mirror, gpu, chunks, drawn, readback, answered, since, storeVars>>

(* The pixel arrives: the slot is looked up in the ring on the main thread. *)
PickAnswered ==
  /\ readback # Idle
  /\ readback' = Idle
  /\ answered' = answered \cup {readback.click}
  /\ UNCHANGED <<device, mirror, gpu, chunks, drawn, clicks, pick, since, storeVars>>

GpuStep ==
  \/ \E elapsed \in BOOLEAN : GpuFrame(elapsed) \/ DeviceAcquired(elapsed)
  \/ InitFails \/ PickAnswered

-----------------------------------------------------------------------------
(* Properties *)

(* Once a frame saw a reset, nothing from before it is in the mirror or    *)
(* drawn, whatever chunks were waiting.                                    *)
NothingFromBeforeReset == gpu.seen = resets =>
  \A p \in Valid(mirror) \cup {v.point : v \in drawn} : p > born

(* What the ring keeps of the points after the last one that was lost      *)
Vouched == {p \in Kept : p > since}

(* Between frames the mirror and the chunks that wait hold what the ring   *)
(* keeps, over wraps and resets: each point after the last one that was    *)
(* lost or displaced, and nothing else once the ring keeps only those.     *)
MirrorFaithful == gpu.uploaded =>
  LET mirrored == Valid(WriteAll(mirror, chunks))
  IN /\ Vouched \subseteq mirrored
     /\ gpu.seen = resets /\ Vouched = Kept => mirrored = Kept

(* "The CPU ring buffer is copied into a GPU storage buffer" (README.md,   *)
(* the WebGPU pipeline): with no chunk waiting, the GPU holds what it does. *)
MirrorIsRing == gpu.uploaded /\ gpu.seen = resets /\ chunks = <<>> => Valid(mirror) = Kept

(* The picking pass encodes "ring-buffer slot indices" (README.md, Point   *)
(* picking): the point at the slot is the point under the cursor.          *)
PickedIsDrawn == [][PickAnswered /\ readback.hit # NoHit =>
                      PointAtSlot(readback.hit.slot) = readback.hit.point]_<<gpuVars, storeVars>>
=============================================================================
