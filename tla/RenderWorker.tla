---------------------------- MODULE RenderWorker ----------------------------
(***************************************************************************)
(* The WebGL scene (src/components/WebGLPointCloudScene.tsx) and its render *)
(* worker: RenderWorkerBridge and the script of render-worker-blob.ts,     *)
(* which keeps a second ring and scans it into one of two pairs of buffers. *)
(* Messages go each way in order and arrive at any later time.             *)
(***************************************************************************)
EXTENDS StreamStore

VARIABLES
  toWorker,   \* messages on their way to the worker
  results,    \* SCAN_RESULTs on their way back: [scan, points, pair]
  worker,     \* the worker's ring
  freePairs,  \* how many pairs the worker has
  pending,    \* pendingCallback: the scan it was given for, or NoScan
  scans,      \* scanRequestId, modulo ScanIds
  scene,      \* refs of the scene
  geometry,   \* what is drawn: [style, points]
  frameDue,   \* invalidate() asked for a frame
  crossed     \* history: a reset of the bridge met a scan in flight

glVars == <<toWorker, results, worker, freePairs, pending, scans, scene, geometry, frameDue, crossed>>

(* Bound: scans are told apart modulo this, more than are ever under way.  *)
ScanIds == 4

NoScan == [id |-> ScanIds, style |-> Unset]
Pairs == 2

(* What a new scene and its worker start with; worker creation may fail,   *)
(* and then the scene reads the main thread's ring.                        *)
GLFresh(withBridge) ==
  [toWorker |-> <<>>, results |-> <<>>, worker |-> EmptyRing, freePairs |-> Pairs,
   pending |-> NoScan, scans |-> 0, frameDue |-> TRUE, crossed |-> FALSE,
   geometry |-> [style |-> Unset, points |-> {}],
   scene |-> [bridge |-> withBridge, scanned |-> FALSE, view |-> Unset, style |-> Unset,
              prevTotal |-> totalPoints]]

GLIs(s) ==
  /\ toWorker = s.toWorker /\ results = s.results /\ worker = s.worker /\ freePairs = s.freePairs
  /\ pending = s.pending /\ scans = s.scans /\ scene = s.scene /\ geometry = s.geometry
  /\ frameDue = s.frameDue /\ crossed = s.crossed

-----------------------------------------------------------------------------
(* The bridge.  An operator named Bug... is not part of the model: it is   *)
(* the next one with a mistake, which a property must notice.              *)

(* ingestSoA, or without a bridge only the kick of a frame                 *)
GLIngest(chunk) ==
  /\ toWorker' = IF scene.bridge THEN Append(toWorker, [type |-> "INGEST", chunk |-> chunk]) ELSE toWorker
  /\ frameDue' = TRUE
  /\ UNCHANGED <<results, worker, freePairs, pending, scans, scene, geometry, crossed>>

Draw(r) == geometry' = [style |-> r.scan.style, points |-> r.points]

BugPairDropped(r) == r.pair /\ pending # NoScan
GivesBack(r) == r.pair

(* onmessage: the result goes to the callback that waits, whichever scan   *)
(* that was given for.                                                     *)
ResultArrives ==
  /\ results # <<>>
  /\ LET r == Head(results)
     IN /\ IF pending # NoScan THEN Draw(r) ELSE UNCHANGED geometry
        /\ frameDue' = (frameDue \/ pending # NoScan)
        /\ toWorker' = IF GivesBack(r) THEN Append(toWorker, [type |-> "RETURN"]) ELSE toWorker
  /\ pending' = NoScan
  /\ results' = Tail(results)
  /\ UNCHANGED <<worker, freePairs, scans, scene, crossed, storeVars>>

-----------------------------------------------------------------------------
(* The worker's onmessage *)

Receives(type) == /\ toWorker # <<>> /\ Head(toWorker).type = type
                  /\ toWorker' = Tail(toWorker)

OnIngest ==
  /\ Receives("INGEST")
  /\ worker' = WriteAll(worker, Capped(Head(toWorker).chunk))
  /\ UNCHANGED <<results, freePairs>>

(* scan(): empty arrays that are not of the pool when there is nothing to  *)
(* scan or no pair                                                         *)
OnScan ==
  /\ Receives("SCAN")
  /\ IF worker.total = 0 \/ freePairs = 0
     THEN /\ results' = Append(results, [scan |-> Head(toWorker).scan, points |-> {}, pair |-> FALSE])
          /\ UNCHANGED freePairs
     ELSE /\ results' = Append(results,
               [scan |-> Head(toWorker).scan, points |-> Valid(worker), pair |-> TRUE])
          /\ freePairs' = freePairs - 1
  /\ UNCHANGED worker

OnReturn ==
  /\ Receives("RETURN")
  /\ freePairs' = freePairs + 1
  /\ UNCHANGED <<results, worker>>

OnReset ==
  /\ Receives("RESET")
  /\ worker' = EmptyRing
  /\ UNCHANGED <<results, freePairs>>

WorkerStep ==
  /\ OnIngest \/ OnScan \/ OnReturn \/ OnReset
  /\ UNCHANGED <<pending, scans, scene, geometry, frameDue, crossed, storeVars>>

-----------------------------------------------------------------------------
(* useFrame of the scene *)

ResetSignal == scene.prevTotal > 0 /\ totalPoints = 0
StyleChanged == style # scene.style
SceneChanged ==
  \/ view # scene.view \/ totalPoints # scene.prevTotal
  \/ StyleChanged \/ ResetSignal \/ ~scene.scanned

(* bridge.reset() and bridge.scan(): refused while a callback waits        *)
Accepting == ResetSignal \/ pending = NoScan
Request == [id |-> scans', style |-> style]

BugStyleNoted == [scene EXCEPT !.view = view, !.scanned = TRUE, !.style = style]
SceneRefused == [scene EXCEPT !.view = view, !.scanned = TRUE]
SceneAccepted == [SceneRefused EXCEPT !.style = style, !.prevTotal = totalPoints]

FrameIdle ==
  /\ scene' = [scene EXCEPT !.prevTotal = totalPoints]
  /\ frameDue' = FALSE
  /\ UNCHANGED <<toWorker, results, worker, freePairs, pending, scans, geometry, crossed, storeVars>>

(* The early return: the camera counts as shown, the rest does not.        *)
FrameRefused ==
  /\ scene.bridge /\ ~Accepting
  /\ scene' = SceneRefused
  /\ frameDue' = FALSE
  /\ UNCHANGED <<toWorker, results, worker, freePairs, pending, scans, geometry, crossed, storeVars>>

FrameScans ==
  /\ scene.bridge /\ Accepting
  /\ scans' = (scans + 1) % ScanIds
  /\ toWorker' = toWorker \o (IF ResetSignal THEN <<[type |-> "RESET"]>> ELSE <<>>)
                          \o <<[type |-> "SCAN", scan |-> Request]>>
  /\ pending' = Request
  /\ crossed' = (crossed \/ pending # NoScan)
  /\ scene' = SceneAccepted
  /\ frameDue' = FALSE
  /\ MayRefresh
  /\ UNCHANGED <<results, worker, freePairs, geometry>>

(* Without a bridge: renderIntoBuffers                                     *)
FrameCopies ==
  /\ ~scene.bridge
  /\ geometry' = [style |-> style, points |-> Kept]
  /\ scene' = SceneAccepted
  /\ frameDue' = TRUE
  /\ MayRefresh
  /\ UNCHANGED <<toWorker, results, worker, freePairs, pending, scans, crossed>>

(* One frame; `elapsed` when the refresh interval has passed.              *)
GLFrame(elapsed) ==
  /\ frameDue
  /\ IF (elapsed \/ StyleChanged \/ ResetSignal) /\ SceneChanged
     THEN FrameRefused \/ FrameScans \/ FrameCopies
     ELSE FrameIdle

GLStep == ResultArrives \/ WorkerStep \/ \E elapsed \in BOOLEAN : GLFrame(elapsed)

-----------------------------------------------------------------------------
(* Properties *)

InFlight(seq, P(_)) == Cardinality({i \in DOMAIN seq : P(seq[i])})

(* The two pairs of buffers are with the worker, in a result or on their   *)
(* way back: none is lost and empty arrays never join them.                *)
PairsConserved ==
  LET full(r) == r.pair
      back(m) == m.type = "RETURN"
  IN freePairs + InFlight(results, full) + InFlight(toWorker, back) = Pairs

(* The comment in RenderWorkerBridge.reset: a result that was under way    *)
(* meets no callback, so each callback gets the result of its own scan.    *)
NoStaleResult ==
  [][ResultArrives /\ pending # NoScan => Head(results).scan = pending]_<<glVars, storeVars>>
=============================================================================
