# A TLA+ verification of PointFlow

PointFlow streams point clouds into a browser: points arrive from a socket or a
file, wait in a bounded buffer, and are drawn by WebGL or WebGPU; large COPC files
are fetched tile by tile into a GPU atlas. This directory models the parts whose
correctness depends on sequences of calls, on two threads, or on callbacks that come
late, checks them with TLC, and proves with TLAPS
most of the safety properties of the buffer, the ingest path, the scenes, the tiles and what is drawn of them for
every size and number of steps.
Paths below are relative to the repository's `src/` directory.

## The system

| part | state | operations | talks to |
|---|---|---|---|
| `core/backpressure.ts` PointBuffer | ring arrays, head, size, capacity, generation stamps, range cache, cell index | ingest, ingestFromBinary, growth, copy / colour, snapshot, pick, reset | called by the hook and by every scene |
| `worker/worker-bridge.ts` WorkerBridge | request ids, watermark, queue, inFlight | post, reset, terminate, onmessage, onerror | one ingest worker, by messages |
| `worker/worker-blob.ts` ingest worker | none | pack a request, cull it | the bridge |
| `hooks/usePointFlow.ts` | refs to bridge and buffer, reset watermark, "auto" flag | pushChunk, reset, effects | bridge, buffer, scenes |
| `components/StreamedPointCloud.tsx`, `streamed/backend-scene-router.tsx` | resolved backend, raw ingest callback | push, reset, pick, detection, fallback | hook, one scene |
| `components/WebGLPointCloudScene.tsx` | what the last scan was for, the geometry | frame, raw ingest | PointBuffer, render worker |
| `worker/render-worker-bridge.ts`, `-blob.ts` | a second ring, two buffer pairs, the callback waiting | ingest, scan, return, reset | the WebGL scene, by messages |
| `components/WebGPUPointCloudScene.tsx`, `webgpu/buffers.ts` | GPU ring, pending chunks, pick | frame, upload, reset, pick | PointBuffer, GPU |
| `hooks/usePointCloud.ts`, `components/PointCloud.tsx` | load id, status, chunks waiting for the scene | choose a source, abort, messages | a loader worker, the scene |
| `parsers/*-worker-blob.ts` | what was read and not yet decoded | parse one file | network, usePointCloud |
| `components/CopcPointCloud.tsx` | fetching and fetched sets, source, index | load effect, tile scheduler | CopcSource, the scene |
| `copc/copc-reader.ts`, `copc-file-static-meta.ts` | the index while it is read | fetchCopcIndex | network |
| `copc/copc-frustum.ts`, `components/copc/scheduler-logic.ts` | concurrency, streaks, cursor | select, sort, rotate, adapt | the scheduler |
| `copc/copc-source.ts`, `copc-decode-pool.ts`, `lru-cache.ts`, `opfs-cache.ts` | caches, decode queue and workers | fetchTile, destroy | network, workers, file system |
| `copc/copc-atlas-manager.ts` AtlasManager | free stacks, LRU maps, slot and node maps | alloc, assignSlot, lruEvict, touch | the COPC scenes |
| `copc/copc-gpu-pipeline.ts`, `components/WebGPUCopcScene.tsx`, `webgpu/copc-*.wgsl` | GPU node table, atlas contents, work queues | allocSlotForTile, uploadTile, traversal | AtlasManager, GPU |
| `components/WebGLCopcScene.tsx`, `copc-cpu-lod-cut.ts` | node table, CPU atlas and VBOs | uploadTile, frame | AtlasManager |
| `transport/*` | a connection | subscribe, decode, close | pushChunk |
| `core/runtime-policy.ts`, `lod.ts`, `frustum-culling.ts`, `config/*` | none | pure functions | hook and scenes |

What is hard in it, by part:

* **PointBuffer**: one slot is reused by points of two ingest paths with different
  channels; the lookahead swaps slots before an eviction; growth unrolls the ring,
  possibly from an animation frame that outlives a reset; the colour range and the
  cell index are caches of all that.
* **Bridge, worker, hook**: an answer may arrive after the reset it should not
  survive; waiting requests are renumbered when they are coalesced; bridge, buffer and
  refs have different lifetimes.
* **Scenes**: each keeps its own copy of the ring, brought up to date by frames, by messages
  or by both; a frame's request may be refused; a reset, a change of style and pushed points
  cross what is under way; the scene itself is replaced when the backend changes.
* **Files**: the network cuts headers and records anywhere; messages of a load that was
  given up are still queued; chunks arrive before the scene that takes them.
* **COPC component**: sources replace each other while they are opened and while
  their tiles are fetched; tiles complete in any order and compete for slots.
* **Atlas and traversal**: eviction and allocation are two calls; the GPU has a copy of the
  table; the threads of a wave share the queue of the next.
* **Index and scheduler**: pages refer to pages; servers treat ranges differently; the search
  passes nodes it does not select.
* **Tile loading**: a call awaits a file, the network and a worker, and time-outs, destroy
  or another call may come at each; buffers are transferred while they still have to be
  written; the persistent cache evicts and accounts across awaits.

`PROJECT.json` lists the components with their status, and the hazards at their lines.

## Modules

| module | models |
|---|---|
| `PointRing` | PointBuffer, an ingest call one loop iteration at a time |
| `Retention` | what PointBuffer promises: a bounded set of unchanging points and which may be displaced |
| `MCPointRing` | constants for TLC |
| `PointRingProofs` | the proofs about PointRing |
| `WorkerBridge` | WorkerBridge, the ingest worker and the channel each way |
| `IngestHook` | usePointFlow; extends WorkerBridge |
| `StreamStore` | what scenes see of the buffer: the latest points in their slots; a ring and its writes |
| `RenderWorker` | the WebGL scene, RenderWorkerBridge and its worker; extends StreamStore |
| `GpuMirror` | the WebGPU scene; extends StreamStore |
| `StreamedCloud` (+ `MCStreamedCloud`) | StreamedPointCloud over either scene; extends both |
| `E57File`, `LoaderWorker` | files on the wire and the three loader scripts |
| `FileLoad` (+ `MCFileLoad`) | usePointCloud and PointCloud over a loader |
| `Listings` | what filtering an array leaves, in closed form; used by the next, `NodeTree` and `CopcIndex` |
| `AtlasMethods` | the methods of AtlasManager as operators on its state |
| `TileAtlas` | allocSlotForTile and the GPU's node table; extends AtlasMethods |
| `CopcComponent` (+ `MCCopcComponent`) | CopcPointCloud: sources, scheduler, uploads; extends TileAtlas |
| `NodeTree` | the octree as a table; the two cuts as sets |
| `CopcTraversal` | the compute passes of a WebGPU frame; extends NodeTree and TileAtlas |
| `CopcScenes` (+ `MCCopcScenes`) | the two COPC scenes; extends CopcTraversal |
| `CopcIndex` | the COPC reader and the static metadata |
| `TileScheduler` (+ `MCTileScheduler`) | which tiles a tick asks for; extends CopcIndex |
| `IngestHookProofs` | the proofs about WorkerBridge and IngestHook |
| `StreamedCloudProofs` | the proofs about StreamedCloud: the buffer pairs and the mirror |
| `CopcComponentProofs`, `CopcScenesProofs`, `CopcIndexProofs`, `CopcSourceProofs` | the proofs about CopcComponent, CopcScenes, TileScheduler and CopcSource |
| `IndexSets` | lemmas they share: remainders, products, least elements, indexes and elements of a sequence, filtered sequences |
| `OpfsCache` | the persistent tile cache, `set` one file system call at a time |
| `CopcSource` | fetchTile, memory cache, decode pool, destroy; extends OpfsCache |

Operators named `Bug...` are plausible mistakes in the operator that follows them;
each property is shown to notice one (`PROJECT.json`, "mutants").

Abstract specifications: `Retention` for the ring (a refinement mapping), the sets
`AdditiveCut` and `ReplacementCut` for the two traversals, `RealEntries` of a file for the
index, `Expected` of a file for the loaders, `Kept` for the mirror.

### PointRing and the code

`head`, `size`, `capacity`, `dropped`, `writeSeq`, `growthPending`, `tracked`, `field` and
`lookahead` are the fields of the class. `slots[s]` collects what the parallel arrays
have at index `s`: position (one coordinate `z` stands for three), colour value `val`,
generation `seq`, importance, timestamp, whether an object sits there (`item`), and,
per packed channel, value, presence and stamp. `src` is the object's attributes; for a
packed point it is a history variable. `range` is attrRangeMin / Max / Dirty;
`cellOf`, `cellSlots` the spatial index; `growQueue` counts doGrow callbacks still to run.

`Ingest` and `IngestFromBinary` start a call; `GrowForCall`, `Append1`, `Overwrite`, `Discard`
and `Return` are the iterations of its loops, with the whole body of an iteration
(swap, index, write, stamp, range, counters) in one action. While `call` is not `Idle` no
other operation runs, as in JavaScript; `Tick` lets the clock move between iterations.
`DoGrow`, `Render`, `Reset` and `SetImportanceField` are the other entry points.
Score, importance and cell key are constant operators: only the order of scores
and which points share a cell matter to the control.

`Retention` has neither slots nor order of arrays: a set of points with ages, a limit
and a window of eviction candidates. `PointRing`'s `Promise` maps the kept slots to that
set, each with the attributes snapshot() would return; `KeepsPromise` says every step of
the ring is a step of `Retention` or a stutter. It would fail on a wrong victim, a point
lost in a growth, a changed attribute, or a drop that is not counted.

### WorkerBridge, IngestHook and the code

Points are numbered as they are posted, so order and loss can be stated.
`Post` is post() with its four outcomes as disjuncts (the branch "overflow_merged",
lines 202-206, repeats the condition of line 192 and is unreachable). `OnMessage`
is the message handler, including a callback that throws (`Throws`), which skips the
next dispatch. `Pack` and `Fail` are the worker; with `Culling` any subset of a
request may survive. `IngestHook` adds the two refs, the watermark of its own
(`HookAccepts`), the buffer as the set of points it received, and the effects that
recreate bridge (`RemountBridge`) and buffer (`ChangePolicy`); `captured` is the prop the
bridge's callback closed over. Without a bridge (before the effect, after its cleanup, or
when no worker could be made) `PushDirect` ingests on the spot, thinned as
applyAdaptiveIngest does, and `ResetAlone` resets.

### The scenes and the code

`StreamStore` numbers points as they are pushed; `Kept` are the latest, each in its slot, as
the buffer without lookahead keeps them. Values that React hands down with a render
(`totalPoints`, `resetVersion`) lag behind until `StoreRender`; `style` is colorBy and what
else a scan depends on; `born` is the first point after the last reset.

`RenderWorker`: `GLFrame` is useFrame from `sceneChanged` to its end, with the scan accepted
(`FrameScans`), refused (`FrameRefused`) or replaced by a copy where no worker exists (`FrameCopies`).
`toWorker` and `results` are the two channels, `pending` the one callback that waits,
`freePairs` the buffers the worker holds. `scene.prevTotal` is what resets are recognised by.

`GpuMirror`: `GpuFrame` is one animation frame in the order of the code: initial upload, reset
handshake, chunks or recolouring, compute pass when it is due, pick. `DeviceAcquired` is the
frame in which the device is there; `InitFails` sets initFailedRef. `Capped` is what is written of a chunk, its
first points if it is longer than the ring. `WriteAll` says which of the
waiting points each slot has when all their chunks, each in up to two parts, are written:
the last of those that went there, over the wrap and over chunks that together amount to more than the
ring. Two history variables: every point after `since` is in its place in the mirror, `answered` are the clicks
whose promise is resolved.

`StreamedCloud` mounts one of the two, and replaces it when detection answers, the prop
changes, or the device is lost (`FallBack`).

### The loaders and the code

A file is a sequence of cells; a segment of any size arrives with each `Read`. What runs
between two awaits of a script is one step: a read and what follows up to the next batch, or
the timer between batches (`Timer`). `Parser` is the branch the script takes, from the extension, the
hint or the first read (`Sniffed`: a read of less than the signature, `MagicLen`, makes the file text). `Announced` is the count of the
HEADER message, `Planned` what is posted, fewer points where a LAZ stream is thinned; `ReadFails` is a read of the body that
rejects. `OpenHeader`, `Process` and `Continue` are the loops with their carry.
A decoded point is the sequence of the cells it came from, so a point decoded from the wrong
place is another value. `E57File` writes pages with checksums, sections, index packets and data packets,
and reads them as the script does, page arithmetic included: the number of points of a packet is what its first
stream has room for (`Count`), as `packed` values of the first field share a cell.

`FileLoad` has the effect on `src`, `Abort`, the messages in the order they were posted, each
with the load it belongs to (`Current` is the check of loadIdRef), `pending` for chunks before the
scene, and the remount of PointCloud when a header announces more points.

### The COPC component, its scenes and the code

`AtlasMethods` is stateless: each method is an operator from a record of the
manager's fields to the next. `TileAtlas` has allocSlotForTile with the GPU writes around it
(`Place`). `CopcComponent` numbers the runs of the load effect: source *g* is created, replaced and
destroyed independently of what the component does meanwhile. `ScheduleTick` is one tick, with
candidates in any order; `FetchGivenUp`, `TileUploaded` and `TileRefused` are the three ends of a
fetch. A tile that goes to nobody's file is told by `from`. Tiles are fetched by key; table and atlas know them by the number the
index shown gives the key (`KeyToId`), so an index that replaces another takes over the slots of its numbers (`Reindexed`). `Kept`
is skipEviction.

`NodeTree` is the node table with children and parents. A key gets a place if all above it do,
which `Line` says; the numbers follow the order of the walk, so a table is a filtered `KeyOrder`. In `CopcTraversal` every thread of a wave
reads its queue entry, decides, and pushes its children one atomic increment at a time (`Thread`,
`PushChild`), interleaved with all others; `NextWave` swaps the queues. `CopcScenes` adds uploads
with eviction, camera and maxDepth, and the frame of the WebGL scene: `GLFrameStarts` updates the VBOs and puts the
roots on the stack of computeCopcLodCut, `GLVisit` is one iteration of its loop with what it selects and
touches, `GLFrameEnds` is the draw list. Nothing else runs meanwhile (`phase` is "cut"), as in the code.

`CopcIndex` is fetchCopcIndex request by request; a stub is an entry with `Subtree` points.
`TileScheduler` is selectVisibleTiles with integer radii on an octree of one axis,
sortCandidatesByStrategy, the rotation and adaptCopcConcurrency. Its geometry is chosen so
that nodes lie on each side of every comparison.

### OpfsCache, CopcSource and the code

`files` is the directory, `entries` and `total` are `_entries` and `_totalBytes` in units of a
tile, and `sets` holds the calls of set() in progress with the await each is at. `MakeRoom` is
an iteration of `_evictIfNeeded` up to its await: the entry goes before the file does.
`calls` holds every call of fetchTile with its phase: *reading* (looking for a
file), *loading* (its arrayBuffer), *torn* (the file changed under it), *network*, *queued*,
*decoding*, *settled*. `LoadFile` and `BytesArrive` run to the decode queue without another
await, as the code does, and the `sent` flag says that the buffer was
transferred, which `WriteData` then notices. `Reload` keeps nothing but the files.
The caller is the tile scheduler: one call per key at a time, each with a timer.

## Runs

Deadlock checking is off where the bounds on inputs stop the model; `copc_lod` checks it.

| run | shows | bounds and why they are enough |
|---|---|---|
| `ring_retention` | `KeepsPromise`, `SnapshotFaithful`, `CullingComplete`, `GenerationsUnique`, `DropAccounting`, `PendingGrowthIsQueued` | capacity 2 growing to 3, lookahead 2 so kept points can be inside and outside it, 5 points offered by both ingest paths with a channel absent or present: slots are reused, swapped, and unrolled when wrapped; two queued growth callbacks, as a reset lets a second one be scheduled; heights in shared cells |
| `ring_growth` | `NoEarlyDrop`, `RangeExact`, `TypeOK`, `IngestReturns` | 2, 3, 4 slots (the last cut by the ceiling), chunks of 3 that need two growths; both drop modes, the lookahead on, points of three values, so both ends of the range are overwritten and swapped away; hints also speak of points turned away or evicted |
| `bridge_delivery` | `NothingLost`, `EveryRequestSettles` | 8 points: one request in the worker, two full ones waiting, one more to overflow; an error and a reset anywhere |
| `hook_lifecycle` | `InOrder`, `NoPointFromBeforeReset`, `BufferHoldsDelivered` | two resets, one recreated bridge, one new policy, one worker error, culling and throwing callbacks, pushes with and without a bridge; 5 points |
| `scenes` | `PairsConserved`, `NothingFromBeforeReset`, `MirrorFaithful` | a ring of 2 and 4 points in chunks of 1 to 3, so it wraps and one chunk is longer than the ring; one reset, one change of style, view or backend, one click; with and without a render worker |
| `scenes_live` | `StyleShown`, `PushedIsDrawn`, `PicksSettle` | the same without resets, with 3 points, one view, a render worker and two clicks, so the second finds the first waiting or read back |
| `file_load` | `PushedIsPrefix`, `ReadyIsComplete`, `SoundFilesLoad`, `QuietOutsideLoads`, `EveryLoadSettles` | 14 files: each format through each loader that reads it, files known by their first cells only, and files that end in the header, in a record or between; header, signature and record of 2 cells in pieces of 1 to 3, so a piece can end within each; batches of 2 of 3 points; reads that fail; two loads |
| `copc_component` | `TilesOfShownFile`, `NoSourceLeaks`, `TableFollowsAtlas`, `EveryTileSettles` | two runs of the load effect, for the same or another file, which number their nodes differently; two fetches at a time into two slots, so a third tile evicts; a node without points, which has no number, and one too large; two moves of the camera |
| `copc_lod` | `GpuDrawsCut`, `GLDrawsCut`, `EvictsUnseen` | 7 nodes on four levels, the last below the waves; 3 slots and 5 uploads, so eviction reuses a slot that is drawn and two tiles come to share one; the queues of three waves, so each is used twice |
| `copc_index` | `IndexComplete`, `EachPageOnce`, `SelectionComplete`, `ConcurrencyRecovers` | 8 files: four pages on three levels, pages that refer back, several stubs for a page, a key twice in a page, empty, overlong and foreign stubs, VLRs in three arrangements; 4 servers; keys down to level 9, below the finest voxels with a size; two views, nodes oversize, sparse and coarse |
| `source_fetches` | `EveryFetchSettles`, `PoolConserves`, `TotalIsSum` | two tiles, room for one in either cache, so each evicts the other; one decode worker for two concurrent calls, so one is queued; three calls; a failing file system; a destroy and a reload anywhere |
| `source_persisted` | one disagreement (below) | one tile, one call |

Where the code does something else, described below, a property does not claim it:

* `BufferHoldsDelivered` ends when the bridge is recreated, `TilesOfShownFile`, `NoSourceLeaks` and `EveryTileSettles`
  when a superseded source arrives last. The last also ends when as many tiles of the view are refused as there are fetches.
* `MirrorFaithful` and `PushedIsDrawn` speak of the points after the last one the mirror lost (in a chunk longer than the
  ring, or cleared with a reset) or displaced (by a chunk taken twice).
* `PicksSettle` speaks of a click that no other replaced while it waited.
* `PushedIsPrefix` and `ReadyIsComplete` speak of files whose parser was found (`Readable`); the latter lets a load be ready
  with all its chunks held back. `IngestReturns` is claimed from two slots on.

### Fairness

`PointRing`: weak fairness of `CallStep` (a JavaScript call keeps the thread until it
returns) and `DoGrow` (the host runs animation frames and microtasks). `WorkerBridge`: weak
fairness of the worker (it handles each message to the end, with an answer or an
error event) and of delivery by the event loop. `CopcSource`: weak fairness of
the file system's answers (`CallStep`), of each call's timer (`TimeOut`) and of the decode
workers; the network may stay silent for ever, and set() may never finish.
`CopcComponent`: frames come (`ScheduleTick`, `DeviceReady`), and the timer or the network settles
each fetch of a source that lives; one that was destroyed may leave its decoding calls pending for ever.
`StreamedCloud`: the hook re-renders, frames that were asked for run (`Frame`; each frame of the WebGPU
scene), the worker takes its messages, what it and the device answer arrives (`Answer`). `TileScheduler`: frames come. `FileLoad`: the network
answers and goes on delivering, timers fire, messages are delivered, React mounts: the loaders
have no time-out, so on a silent network a load never ends. None assumes that anyone posts,
pushes, resets, fetches, moves or clicks. A worker that fails to load and never answers is outside.

## Where the code disagrees

With a run (quotations in `PROJECT.json`, "findings"): `source_persisted`, a tile's buffer is
transferred to a decode worker before it is written, and an empty file is kept, which later
counts as a hit.

Claims of comments and documents the models contradict. Each is stated in its module, is violated under
the module's specification, and is not part of a run:

| claim | module | what happens |
|---|---|---|
| `PickFaithful` | `PointRing` | getPointAtSlot and pickNearestPoint (backpressure.ts:1109) ignore generation stamps and show a point with an attribute of the one whose slot it took; `guides/point-picking.md:33` promises the picked point's channels |
| `WatermarkNotAhead` | `IngestHook` | nextRequestIdRef outlives the bridge (usePointFlow.ts:552): a reset after the bridge was recreated makes the new one's first answers be dropped; worker-bridge.ts:235 says it is "the next id that will be issued after reset" |
| `OneTilePerSlot` | `TileAtlas` | _evictNode pushes the victim's slot on the free stack and allocSlotForTile (copc-gpu-pipeline.ts:615) assigns it without popping it: the next tile of the tier gets it too. WebGLCopcScene.tsx:255-261 does the same |
| `MarksAreTried` | `CopcComponent` | completions of a replaced source mark keys of the next one as fetched (CopcPointCloud.tsx:443), which are then never asked for; a superseded source can also arrive last (:334) |
| `NoStaleResult` | `RenderWorker` | a scan under way when the bridge is reset answers the callback of the next scan, against the comment in RenderWorkerBridge.reset |
| `EveryChunkShown` | `StreamedCloud` | the frame a chunk kicks, or the render it causes, may be throttled: it scans nothing but notes the new total (WebGLPointCloudScene.tsx:355), and with a resting camera no later frame scans for it |
| `MirrorIsRing` | `GpuMirror` | README.md:463 "The CPU ring buffer is copied into a GPU storage buffer": of a chunk longer than the ring the first points are written (buffers.ts:137) where the ring keeps the last, and a chunk that waits at the initial upload is written a second time |
| `EveryClickAnswered` | `StreamedCloud` | README.md:62 "click any point to receive its world coordinates": a second click before the next frame replaces the first (WebGPUPointCloudScene.tsx:179), whose promise never resolves |
| `OnlyUnderIncluded` | `TileScheduler` | copc-frustum.ts:137-138 "Children are explored only when the parent was included": the search goes on below nodes it passes over because they are coarse, stubs or oversize (:180-183), and `SelectionComplete` rests on it |
| `SniffedIsFormat` | `FileLoad` | loader-worker-blob.ts:485 "sniff the first bytes of the response body": only the first read is looked at (:489-503), and one of fewer bytes than the signature makes a LAS or PLY file text |
| `ReadyIsShown` | `FileLoad` | PointCloud.tsx:87 "Called when all chunks have been parsed and ingested": chunks held back are flushed by the next chunk only (usePointCloud.ts:177-192), so a scene that comes after the last one stays empty, and a remount loses what was ingested |
| `PickedIsDrawn` | `GpuMirror` | the picking pass answers with a slot of the GPU's ring, which is not the CPU's once they wrap apart or the lookahead swaps: README.md:533-538 gives the point at that slot |

Seen while modelling the buffer, the bridge and the hook:

* `PointFlowDocs/docs/architecture/ring-buffer.md:60` calls a point's slotIndex stable until
  it is evicted; the swap (backpressure.ts:340) and growth move kept points.
* Line 27 of that page, and `guides/importance-engine.md:113`, say that equal scores give FIFO
  order; the tie goes to the first slot of the window, where an earlier swap may have
  put a younger point.
* Points ingested while colouring by elevation are coloured as if at 0
  (backpressure.ts:290, :510), though the comment at line 597 says elevation is always
  available from geometry.
* The bridge's callback keeps the importanceField of the render that made it
  (usePointFlow.ts:431): "auto", replaced by a name, can come back.
* With deferGrowth false, capacity 1 and a growthFactor below 2, floor(capacity * factor)
  is 1 and the loop at backpressure.ts:401 never ends: with `InitialCapacity = 1`
  `ring_growth` fails on `IngestReturns`.

The scenes:

* WebGL: a frame whose scan is refused has already recorded the camera, so the view it was for
  may never be scanned; a reset is not recognised when points are pushed before the re-render; the
  worker gets the colour channel chosen when a chunk was forwarded and notes its range only for the chunk that
  wraps (render-worker-blob.ts:85); after a fallback the new render worker starts empty.
* WebGPU: points pushed between
  reset() and the next frame are discarded from the GPU though the buffer has them; when initialisation throws, the canvas
  stays blank, where README.md:33 speaks of an automatic fallback.

Files:

* The LAZ loader given an uncompressed .las decodes what came with the header and fails
  (laz-worker-blob.ts:485-502); `guides/static-files.md` says the same factory works for it. parseLaz
  reads the high half of the chunk table's offset as the number of chunks, so ordinary files
  take the continuous path, the only one that honours pointBudget.
* The E57 loader adds 32 to a section's file offset before converting it (e57-worker-blob.ts:124): where the header
  ends a page the scan stays at the origin and the load reports ready. It ignores the HTTP status.
* E57: a packet whose first stream ends in a part-filled byte is taken for more points than it has (:203), which
  shifts those after it, unless it is the last of its scan; `Aligned` leaves such files out.
* Changing `src` does not empty the ring; PointCloud remounts the scene when maxPoints changes
  (PointCloud.tsx:243) although its comment (216-219) says it does not, and what was pushed is gone.
* A .pcd given as a File gets no hint and is parsed as XYZ.

COPC:

* The reader: one request per hierarchy page where copc-reader.ts:285 says at most two; a server
  that answers a range with the whole file is not treated as having sent it (:275); a stub read after the entry of its
  node replaces it; a page shorter than asked for loses entries silently.
* The search: nodes without points or with fewer than ten hide all below them (copc-frustum.ts:180);
  adaptCopcConcurrency raises a limit of 1 to 2; "depth-first" and "frustum-priority" put the deepest first.
* The component: an evicted tile stays in the fetched set and never comes back (CopcPointCloud.tsx:450);
  onReady comes with the index (:345), where the docs say after the first frame; failures of tiles never
  reach onError (:130).
* The scenes: on WebGL a smaller maxDepth strands tiles that are loaded; on WebGPU a change of maxDepth is ignored;
  a tile that has no number (below a node of byteSize 0) or fits no tier is refused and fetched again for ever, and as many of
  them as there are fetches starve the others; the tiles of a source that a superseded one followed keep slots for ever where their
  numbers are not in its table. README.md:222 speaks of the least recently used slot, on WebGPU, where only uploads call touch, it is the least
  recently uploaded. The GPU's cut is additive (copc-traverse-wave.wgsl:117; its header,
  lines 3-6, says "either"), the metrics are those of the CPU's replacement cut.
* Tiles: fetchTile rejects when its signal aborts, where its comment (copc-source.ts:152) says it
  resolves to null; destroy leaves the calls pending whose workers it terminates; a removal that an eviction
  still awaits can delete a file another set() has written since; and since the size listed is the transferred
  buffer's, 0, the quota of OpfsCache is not kept within a session.

Read but not modelled: RosbridgeAdapter reports an error when stopped before it is open, and mergeChunkStreams leaves
earlier sources running if a later factory throws; refresh-cadence.ts:9 lets adaptive refresh go below
updateCadenceMinMs, and Math.round(previous * 1.03) never raises a point budget below 17.

## Proofs

The theorems of `PointRingProofs` hold for every value of the constants that
satisfies the assumptions of `PointRing`: any capacity, growth factor above one, lookahead
width, set of points and attributes, score and cell function. Nothing else is assumed.

1. **`TypeCorrect`** (`TypeOK`). Inductive invariant `Base == TypeOK /\ RingShape`. The shape
   (head is 0 until the ring is full) is needed for types: a slot index is below the
   capacity only if head is, and growth unrolls `size` slots into the new arrays. One
   lemma per action. The existence of a least and greatest element of a finite set of
   integers (`LeastExists`, `GreatestExists`) types the rescans and hints.
2. **Effects**. The steps are classified into five effects on the slots (`WriteEffect`,
   `GrowEffect`, `RenderEffect`, `ResetEffect`, `NoEffect`, joined in `StepEffect`); the
   invariants below are preserved by effects, so the ring arithmetic is done once.
3. **`SnapshotIsFaithful`**. Not inductive alone: a stale stamp becomes harmful only when the
   counter reaches it. `AllFaithful` says of every slot, kept or not, that what
   snapshot() would show is its source and every stamp is older than the counter;
   `CallOK` says a packed call's channels cover its points.
4. **`GenerationsAreUnique`**, **`DropsAreAccounted`**, **`GrowthIsNeverLockedOut`** by effects.
5. **`CullingIsComplete`**. The strengthening is `IndexExact`: each kept slot is in the cell
   of the position now in it, and in no other; `ExactIndexCulls` derives the culled copy.
   The delicate step is the overwrite after a swap, where the victim slot is
   indexed again and the head is still under its old key.
6. **`RangeIsSound`**, **`RangeIsExact`**. A clean range covers the kept values, with hints, swaps and rescans; where every
   point of a chunk is written, it is no wider. `Attained` says that each end is the value of a kept point, which an overwrite of
   that point ends by marking the range dirty. A hint is taken before its points are written, so `HintDue` says that each end of it lies
   within the range or belongs to a point of the call still to come, and `CallBegun` what a call has written so far.
7. **`NothingDroppedEarly`**, under the hypothesis that growth is synchronous. The
   strengthening `RoomForCall` ties the points still to be written to the room asked for.

The other proofs assume the constants' assumptions of their modules and nothing more.

8. **`NoSourceIsLeaked`**, **`NoTileOfAnotherFile`**, **`TableIsTheAtlas`** (`CopcComponentProofs`), for any
   files, atlas, camera views and number of runs of the load effect. `Shape` ties the index the scene shows to the
   source the component holds; `OneSource` says that this source lives and, unless a superseded one was
   taken, is the newest. The delicate steps: when the newest source is created none is held, so the atlas is
   empty (`SourceCreatedSafe`); an upload that evicts keeps table and atlas in agreement (`TileUploadedSafe`).
9. **`NoPageIsAskedTwice`** (`CopcIndexProofs`), for any files, sound or not, of any hierarchy: the pages asked are among the
   pages followed, without repetition, and only a page that was not followed is asked.
10. **`NoPairIsLost`** (`StreamedCloudProofs`). What messages contain does not matter: the invariant counts the
   results that hold a pair and the messages that return one, and `Appended` and `Taken` say how the two counts change
   when a message is sent or received (from `OneMore` and `OneLess` of `IndexSets`).

11. **`RingKeepsItsPromise`** (`PointRingProofs`): `PointRing` implements `Retention`, the bounded
   store a caller may rely on. Every step of the ring maps to an abstract step that keeps a
   point, displaces one, turns one away, raises the limit or clears, or to a stutter
   (`StepKeepsPromise`, one lemma per effect of item 2). `PromiseInv` adds `OldestFirst` to the
   invariants above: a record beyond the eviction window is newer than every one before it,
   although swaps disturb the order within the window; it gives that the victim is among the
   oldest the abstract store allows, and `IndexExact` that the densities its score is divided
   by are those of the kept points. The mapping sends a slot to its source, so `GenerationsUnique` is
   what makes the kept points a set of the right size.
12. **`PointsInOrder`**, **`NoPointIsLost`**, **`DeliveredIsHeld`**, **`NothingFromBeforeAReset`**
   (`IngestHookProofs`), for any queue size, chunk, cull, callback and number of resets. `Line` is
   shared: what was delivered, what the worker holds and what waits stand in one line of rising
   points, one request at most is held, and what waits is from after the last reset. It is kept by
   each action of the bridge, so both specifications use it. `HookIInv` adds that the watermarks of
   bridge and hook agree until the bridge is recreated (`OneWatermark`) and that an answer both would accept
   has no point from before the reset (`HeldFresh`). `BridgeIInv` adds that all a reset left behind is below the
   watermark (`OldIsOld`) and what waits is not.
13. **`TotalStaysTheSum`**, **`PoolKeepsItsCalls`** (`CopcSourceProofs`), for any number of calls, workers,
   files and failures. The total is the number of entries of size 1, so what `Tail`, `Relist` and `Open` do to
   the list is counted; the directory must be finite (`OpfsConstants`), which the file system ensures. The pool: each waiting call has one index in the queue or one
   worker, and a pump moves the first calls of the queue to the idle workers in order (`IdleUpTo` counts the idle
   ones up to a worker, so the map is one to one).
14. **`NothingSurvivesAReset`**, **`MirrorIsFaithful`** (`StreamedCloudProofs`), for any ring, chunks (longer than
   the ring or not) and numbers of points and resets. `MirrorInv` says which point each written slot has: the last one written minus the distance
   of the slot behind the write pointer (`Holds`, `Back`). `WriteOK` and `CopyOK` keep that through a write of any length and
   a full copy, `HoldsKept` derives the set of kept points; `ModUnique`, `AtLeastOnce` and `ModAdd` of `IndexSets` are the arithmetic.
   What the frames have seen of resets (`gpu.seen`) is never ahead of what React rendered, and that never ahead of the ring,
   so a frame that has seen the last reset knows that nothing older waits.

15. **`IndexHoldsEveryNode`** (`CopcIndexProofs`), for any files, servers, split into pages and page limit. `TreeInv` relates the
   traversal to the file: the nodes are the entries of the pages read so far (`NodesOf`), and each stub in
   these names another page read or still waits in the queue (`StubsOf`). A stub and the entry of its node share a key; that the entry wins
   rests on the order of the pages (`StubsLeadOn`: no stub names its own page or one read before). With an empty
   queue the pages read are closed under stubs, and `SoundHierarchy` says that such a set with the root's is all
   pages: this takes the place of an induction over paths. `SoundHierarchy` is what the COPC format asks
   for and what `Tree` and `Small` of `MCTileScheduler` satisfy.
16. **`SearchMissesNothing`** (`CopcIndexProofs`), for any index, view, camera and point counts, under the hypothesis `3 * LodNum <= 5 * LodDen`:
   lodThreshold is at most 5/3 (its default is 0.002). `VoxelsAbove`: a voxel lies in each one above it, so their
   centres differ by no more than their halves differ. `ExceedsAbove`: then a projected radius over the threshold below is
   over three tenths of it above, although the density factor may fall from 1 to a half. Hence
   `selectVisibleTiles` passes every node above a tile worth its points. The hypothesis is needed: with a threshold far
   beyond 5/3 the slack is too small near the camera. In the three dimensions of the code the centres may differ by
   the square root of 3 times as much, so the same argument gives a bound a little below 1 there (not proved: the model has one axis).

17. **`GpuFrameDrawsTheCut`**, **`GLFrameDrawsTheCut`**, **`TheUnseenGoFirst`** (`CopcScenesProofs`), for any octree, views, tiers,
   slots, uploads and number of waves. A cut is said of each node's `Line`, the smallest set with the node that is closed under
   parents, so nothing is defined by walking; `ReachedStep` steps from a parent's line to its child's, which is all the
   walks need. None of the three is inductive. On the GPU a frame is right because every wave was: `InWave` says that the queue of a
   wave has the nodes of its depth that are to be looked at, each once, and that the children of those looked at so far are
   either in the next queue or with a thread that has not pushed them yet, never both. At the end of a wave no thread holds any,
   so the next queue is what the next wave needs; a queue never overflows, as its nodes are different nodes of the
   table. `InPack` is the same for the list of draws. On the CPU, `InCut`: no node on the stack is above another, and
   what is selected is the part of the cut that is not under the stack; with an empty stack this is the cut.
   `RecentLast` orders the tiles of each tier: those drawn last or uploaded since are the last to be evicted.
   A frame touches what it draws in any order, and during the walk what is selected is already at the end.
   `Clean` says that VBOs that are not dirty have what was uploaded. Threads of a wave run in any order; that `KeyOrder` lists
   shallower keys first is what makes a table that was cut off at `MaxNodes` closed under parents.

TLC found each strengthening to hold before it was proved. So that they can be reasoned about, `Pump`,
`Relist`, the mirror's `WriteAll`, the queue of stubs (`Stubs`), node tables and filtered arrays (`Only`) are in closed form, without folds over the sequence, and the
worker's culling chooses the indexes that survive (`Choices`). The prover does not know `^`: `PowersAssumption` of
`TileScheduler` says that it doubles with each level, for the levels down to `Finest`; TLC evaluates it. Of the sums and the
greatest depth in the metadata only that they range over the right entries is used.

Only model-checked, and why:

* Liveness (`IngestReturns`, `EveryRequestSettles`, `EveryFetchSettles`, `EveryTileSettles`, `ConcurrencyRecovers`,
  `EveryLoadSettles`, `StyleShown`, `PushedIsDrawn`, `PicksSettle`): under fairness, with ENABLED, out of the prover's reach.
* `PushedIsPrefix`, `ReadyIsComplete`, `SoundFilesLoad`, `QuietOutsideLoads`: what a loader makes of a file is
  recursion over its cells, packets and pages (`E57File` has RECURSIVE operators), so induction over data.

## Not modelled, and the plan

Left out of the modelled parts: the rgb and classification colour modes and
classification weights, strided and time-windowed copies, a buffer without cell index,
floating point rounding (`PointRing`); the autotuned policy
(`IngestHook`); camera fitting, uniforms, level of detail strides, statistics, resizing (the scenes); the decoding of
fields, LASzip and LZF (`LoaderWorker`); byte layout and the histogram (`CopcIndex`); three-dimensional
geometry (`TileScheduler`, `NodeTree`); a file served whole, an environment without workers, calls
for keys without points, and writes of one source that overlap the next one's opening of
the directory (`CopcSource`). `free`, `releaseNodeSlot` and `lruEvictWithDensity` of the atlas manager and
`releaseTile` are called by nothing in the program.

Not modelled at all:

* **Transports**: an adapter holds one connection and a flag, and hands on messages in the
  order the browser delivers them; quantisation is arithmetic on floats.
* **Runtime policy, level of detail, culling, colour maps**: pure functions of floating point
  numbers; what their callers do with the result is a choice in the models.
* **Configuration**: typed defaults.
* Shaders and GL objects, beyond what the passes read and write; React layout.

What remains, in order: the autotuned policy with the frame loop; the composition of `CopcComponent`
with `CopcSource` (fetches are settled at any time there).
