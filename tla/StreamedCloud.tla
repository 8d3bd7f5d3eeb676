--------------------------- MODULE StreamedCloud ---------------------------
(***************************************************************************)
(* <StreamedPointCloud> (src/components/StreamedPointCloud.tsx): the ring  *)
(* of the hook, the scene of the resolved backend, and the change from one *)
(* backend to the other, which mounts a new scene.                         *)
(***************************************************************************)
EXTENDS RenderWorker, GpuMirror

CONSTANT HasBridge \* whether a render worker may be created: a subset of BOOLEAN

VARIABLES
  backend,   \* resolvedRendererBackend
  detecting  \* detectWebGPUSupport() of the present effect is not answered

vars == <<storeVars, glVars, gpuVars, backend, detecting>>

WebGL == backend = "webgl"
WebGPU == backend = "webgpu"

(* onRawIngest and pushBinary: the ring has the chunk, the scene gets it.  *)
Push(n) ==
  /\ Take(n)
  /\ \/ WebGL /\ GLIngest(Chunk(n)) /\ UNCHANGED gpuVars
     \/ WebGPU /\ GpuIngest(Chunk(n)) /\ UNCHANGED glVars
  /\ UNCHANGED <<backend, detecting>>

Reset == StoreReset /\ UNCHANGED <<glVars, gpuVars, backend, detecting>>

(* The effect on totalPoints and colorBy, and the controls on the camera,  *)
(* ask the WebGL scene for a frame.                                        *)
Invalidated(needed) ==
  /\ frameDue' = (frameDue \/ (WebGL /\ needed))
  /\ UNCHANGED <<toWorker, results, worker, freePairs, pending, scans, scene, geometry, crossed,
                 gpuVars, backend, detecting>>

Render == StoreRender /\ Invalidated(totalPoints' # totalPoints)
NewStyle == \E s \in Styles : ChangeStyle(s) /\ Invalidated(TRUE)
NewView == \E v \in Views : ChangeView(v) /\ Invalidated(TRUE)

(* The scene that is mounted takes a step.                                 *)
InGL == WebGL /\ UNCHANGED <<gpuVars, backend, detecting>>
InGpu == WebGPU /\ UNCHANGED <<glVars, backend, detecting>>

(* setResolvedRendererBackend: the canvas is remounted with a new scene.   *)
MountGL(s) ==
  /\ toWorker' = s.toWorker /\ results' = s.results /\ worker' = s.worker /\ freePairs' = s.freePairs
  /\ pending' = s.pending /\ scans' = s.scans /\ scene' = s.scene /\ geometry' = s.geometry
  /\ frameDue' = s.frameDue /\ crossed' = s.crossed

MountGpu(s) ==
  /\ device' = s.device /\ mirror' = s.mirror /\ gpu' = s.gpu /\ chunks' = s.chunks /\ drawn' = s.drawn
  /\ clicks' = s.clicks /\ pick' = s.pick /\ readback' = s.readback
  /\ answered' = s.answered /\ since' = s.since

Remount(b) ==
  /\ backend' = b
  /\ \E h \in HasBridge : MountGL(GLFresh(h))
  /\ MountGpu(GpuFresh)

(* The adapter check of an "auto" backend, taken for WebGPU because        *)
(* navigator.gpu is there, answers at any time.                            *)
Detected(b) ==
  /\ detecting
  /\ detecting' = FALSE
  /\ IF b = backend THEN UNCHANGED <<backend, storeVars, glVars, gpuVars>>
     ELSE Remount(b) /\ UNCHANGED storeVars

(* The application sets rendererBackend.                                   *)
NewBackend(b) ==
  /\ b # backend /\ changes < MaxChanges
  /\ changes' = changes + 1
  /\ detecting' = FALSE
  /\ Remount(b)
  /\ UNCHANGED <<pushed, born, resets, statsDue, totalPoints, resetVersion, style, view>>

(* The device is lost, or was not there for WEBGPU_UNAVAILABLE_FALLBACK    *)
(* frames, or the renderer could not be constructed.                       *)
FallBack ==
  /\ WebGPU /\ device # "failed"
  /\ Remount("webgl")
  /\ UNCHANGED <<storeVars, detecting>>

Init ==
  /\ StoreInit
  /\ backend \in {"webgl", "webgpu"} /\ detecting \in {FALSE, WebGPU}
  /\ \E h \in HasBridge : GLIs(GLFresh(h))
  /\ GpuIs(GpuFresh)

Next ==
  \/ \E n \in 1..MaxChunk : Push(n)
  \/ Reset \/ Render \/ NewStyle \/ NewView
  \/ InGL /\ GLStep
  \/ InGpu /\ (GpuStep \/ Click)
  \/ \E b \in {"webgl", "webgpu"} : Detected(b) \/ NewBackend(b)
  \/ FallBack

Spec == Init /\ [][Next]_vars

(* The hook re-renders, browsers run the frames that are asked for (every  *)
(* frame of the WebGPU scene), the worker takes its messages, and what it  *)
(* or the device answers arrives.  Only one backend's steps are possible   *)
(* at a time, so each condition is one for either scene.                   *)
Frame ==
  \/ InGL /\ GLFrame(TRUE)
  \/ InGpu /\ (GpuFrame(TRUE) \/ DeviceAcquired(TRUE) \/ InitFails)
Answer == (InGL /\ ResultArrives) \/ (InGpu /\ PickAnswered)

FairSpec ==
  /\ Spec
  /\ WF_vars(Render) /\ WF_vars(Frame)
  /\ WF_vars(InGL /\ WorkerStep) /\ WF_vars(Answer)

-----------------------------------------------------------------------------
(* Properties *)

(* A change of style reaches the screen or is replaced by another, however *)
(* often a frame's scan is refused: with a static camera the frames the    *)
(* results ask for suffice.  A reset that met a scan in flight ends this.  *)
StyleShown == \A s \in Styles :
  WebGL /\ style = s ~> geometry.style = s \/ style # s \/ ~WebGL \/ crossed

(* Again and again everything pushed after the last point the mirror lost  *)
(* is on the screen, as far as the ring keeps it, until the scene is       *)
(* replaced.                                                               *)
PushedIsDrawn == WebGPU /\ gpu.uploaded ~> Vouched \subseteq {v.point : v \in drawn} \/ ~WebGPU

(* A click is answered, unless a later one replaces it while it waits or   *)
(* the scene is replaced or never starts: a readback that is under way     *)
(* keeps no click from its answer.                                         *)
PicksSettle == \A c \in 1..MaxPicks :
  WebGPU /\ (pick = c \/ readback.click = c) ~>
    \/ c \in answered \/ (pick > c /\ readback.click # c)
    \/ clicks < c \/ device = "failed"

(* "click any point to receive its world coordinates" (README.md, the row  *)
(* on GPU point picking): each click gets an answer.                       *)
EveryClickAnswered == \A c \in 1..MaxPicks :
  WebGPU /\ pick = c ~> c \in answered \/ clicks < c \/ device = "failed"

(* The comment in WebGLPointCloudScene's effect: a pushed chunk kicks a    *)
(* frame "so bridge.scan picks up newly ingested data".                    *)
EveryChunkShown == \A p \in Points :
  WebGL /\ p \in Kept ~> p \in geometry.points \/ p \notin Kept \/ ~WebGL \/ resets > 0
=============================================================================
