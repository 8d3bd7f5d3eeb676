------------------------------ MODULE FileLoad ------------------------------
(***************************************************************************)
(* usePointCloud and PointCloud: loads of files by a worker each, one at a *)
(* time, into the scene that is mounted.  The user picks another source or *)
(* aborts at any moment; messages of a terminated worker may still arrive; *)
(* a header that announces more points than the scene was made for has the *)
(* scene mounted anew.                                                     *)
(***************************************************************************)
EXTENDS LoaderWorker

CONSTANTS Files,        \* the sources the user may choose
          Loaders,      \* the loader factories: "base", "laz", "e57"
          MaxLoads,     \* bound on loadIdRef, so on how often the user acts
          MaxSegment,   \* bound on the cells one read brings
          InitialPoints \* effectiveMaxPoints before a header is known

VARIABLES loader,       \* loaderFactory, fixed when the component mounts
          src,          \* the source, or NoFile
          loadId,       \* loadIdRef
          worker,       \* workerRef, or NoWorker
          queue,        \* messages posted and not yet handled
          status, detected,  \* the hook's state
          pending,      \* pendingRef: the points of chunks held back
          mounted,      \* sceneRef is set
          capacity,     \* effectiveMaxPoints
          pushed,       \* history: points pushed for the present load
          lost,         \* history: some went with an instance of the scene
          urls          \* object URLs created and not revoked, by load

vars == <<loader, src, loadId, worker, queue, status, detected, pending, mounted,
          capacity, pushed, lost, urls>>

NoFile   == [format |-> "none"]
NoWorker == [phase |-> "none"]

Init ==
  /\ loader \in Loaders
  /\ src = NoFile /\ loadId = 0 /\ worker = NoWorker /\ queue = <<>>
  /\ status = "idle" /\ detected = 0 /\ pending = <<>> /\ pushed = <<>> /\ urls = {}
  /\ mounted \in BOOLEAN /\ capacity = InitialPoints /\ lost = FALSE

----------------------------------------------------------------------------
(* The effect on src: the cleanup of the last run, then the next run. *)

Revoked(u) == {}

SelectSource(f) ==
  /\ loadId < MaxLoads /\ f # src
  /\ src' = f /\ detected' = 0 /\ pending' = <<>> /\ pushed' = <<>> /\ lost' = FALSE
  /\ loadId' = loadId + 1
  /\ CASE f.format = "none" -> status' = "idle"    /\ worker' = NoWorker /\ urls' = Revoked(urls)
       [] f.format = "bad"  -> status' = "error"   /\ worker' = NoWorker /\ urls' = Revoked(urls)
       [] OTHER             -> /\ status' = "loading"
                               /\ worker' = Start(loadId', loader, f)
                               /\ urls' = Revoked(urls) \cup (IF f.source = "file" THEN {loadId'} ELSE {})
  /\ UNCHANGED <<loader, queue, mounted, capacity>>

Abort ==
  /\ loadId < MaxLoads
  /\ loadId' = loadId + 1
  /\ worker' = NoWorker /\ urls' = Revoked(urls) /\ pending' = <<>>
  /\ status' = "idle" /\ detected' = 0
  /\ UNCHANGED <<loader, src, queue, mounted, capacity, pushed, lost>>

----------------------------------------------------------------------------
(* The worker. *)

WorkerStep(step) ==
  /\ worker' = step.worker
  /\ queue' = queue \o step.out
  /\ UNCHANGED <<loader, src, loadId, status, detected, pending, mounted, capacity, pushed, lost, urls>>

FetchAnswers == worker.phase = "fetch" /\ WorkerStep(Answered(worker, TRUE))
FetchRefused == worker.phase = "fetch" /\ WorkerStep(Answered(worker, FALSE))

Read ==
  /\ worker.phase = "read"
  /\ LET left == worker.file.length - worker.got
     IN \E k \in 0 .. Least(MaxSegment, left) :
          /\ k = 0 <=> left = 0
          /\ WorkerStep(Received(worker, IF worker.loader = "e57" THEN left ELSE k))

(* The body breaks off: the read rejects, and the script reports it. *)
ReadFails == worker.phase = "read" /\ WorkerStep(Fails(worker))

Timer == worker.phase = "emit" /\ WorkerStep(TimerFires(worker))

(* The script itself fails: worker.onerror. *)
ScriptFails == worker.phase = "fetch" /\ WorkerStep(Fails(worker))

----------------------------------------------------------------------------
(* The page handles a message. *)

BugAnyLoad(m) == TRUE
Current(m) == m.load = loadId

BugPendingLast(points) == points \o pending
Flushed(points) == pending \o points

Chunk(m) ==
  IF mounted
  THEN pushed' = pushed \o Flushed(m.points) /\ pending' = <<>>
  ELSE pending' = Flushed(m.points) /\ UNCHANGED pushed

BugErrorUnseen(m) == IF m.type = "DONE" THEN "ready" ELSE status
Outcome(m) ==
  CASE m.type = "DONE" -> "ready" [] m.type = "ERROR" -> "error" [] OTHER -> status

Deliver ==
  /\ queue # <<>> /\ queue' = Tail(queue)
  /\ LET m == Head(queue) IN
     /\ IF ~Current(m) THEN UNCHANGED <<status, detected, pending, pushed>>
        ELSE /\ detected' = IF m.type = "HEADER" /\ m.total > 0 THEN m.total ELSE detected
             /\ status' = Outcome(m)
             /\ IF m.type = "CHUNK" THEN Chunk(m) ELSE UNCHANGED <<pending, pushed>>
  /\ UNCHANGED <<loader, src, loadId, worker, mounted, capacity, lost, urls>>

(* The scene calls onReady: nothing is flushed until the next chunk. *)
SceneReady ==
  /\ ~mounted /\ mounted' = TRUE
  /\ UNCHANGED <<loader, src, loadId, worker, queue, status, detected, pending, capacity, pushed, lost, urls>>

(* The count in the header outgrows the scene: its key changes, and a new  *)
(* instance with an empty buffer takes its place.                          *)
Remount ==
  /\ mounted /\ detected > capacity
  /\ capacity' = detected /\ lost' = (lost \/ pushed # <<>>)
  /\ UNCHANGED <<loader, src, loadId, worker, queue, status, detected, pending, mounted, pushed, urls>>

Next ==
  \/ \E f \in Files \cup {NoFile} : SelectSource(f)
  \/ Abort \/ FetchAnswers \/ FetchRefused \/ Read \/ ReadFails \/ Timer \/ ScriptFails
  \/ Deliver \/ SceneReady \/ Remount

Spec == Init /\ [][Next]_vars

(* The network answers and goes on delivering, timers fire, the event loop *)
(* delivers what is queued.  The first three conjuncts are weak fairness   *)
(* of the worker's steps: in its phase each is enabled and changes the     *)
(* worker.                                                                 *)
FairSpec ==
  /\ Spec
  /\ ([]<>(worker.phase # "fetch") \/ []<><<FetchAnswers>>_vars)
  /\ ([]<>(worker.phase # "read") \/ []<><<Read>>_vars)
  /\ ([]<>(worker.phase # "emit") \/ []<><<Timer>>_vars)
  /\ WF_vars(Deliver) /\ WF_vars(SceneReady) /\ WF_vars(Remount)

----------------------------------------------------------------------------
(* Properties. *)

(* The points of a file that its loader is to post, in order. *)
Expected(f) ==
  LET n == IF f.format = "lazStream" THEN f.declared ELSE Least(f.declared, Whole(f))
      s == IF f.format = "lazStream" THEN Stride(n) ELSE 1
  IN  [i \in 1 .. (n + s - 1) \div s |-> Record(f, (i - 1) * s + 1)]

(* The values of a packet fill whole cells, except in the last of a scan;  *)
(* and a section whose header ends a page is left out: its packets are     *)
(* looked for one cell early, and its points stay at the origin.           *)
Aligned(f) ==
  \A s \in DOMAIN f.layout :
    /\ f.layout[s] # <<>> => (FileOffset(f, s) + 2) % PageSize # 0
    /\ \A p, q \in DOMAIN f.layout[s] : p < q /\ f.layout[s][q] > 0 => f.layout[s][p] % f.packed = 0

(* A load whose points are determined: the right parser was found, and the *)
(* file is whole or of a format that is cut into records as it arrives.    *)
Readable(w) ==
  /\ w # NoWorker /\ Recognised(w)
  /\ w.file.format = "e57" => Aligned(w.file)
  /\ w.file.format \in {"ply", "las", "pcd", "pcdPacked"} \/ Sound(w.file)

IsPrefixOf(s, t) == Len(s) <= Len(t) /\ s = SubSeq(t, 1, Len(s))

(* Whatever way the network cuts a file that is recognised and however     *)
(* often the user changes his mind, what is pushed is a beginning of the   *)
(* present file: each point whole, in order, once, none of an earlier one. *)
PushedIsPrefix == Readable(worker) => IsPrefixOf(pushed \o pending, Expected(src))

(* A load that reports ready has pushed every point there was into the     *)
(* scene; unless no scene was mounted when its last chunk came, and then   *)
(* it has pushed none and holds every one back, whole and in order.        *)
ReadyIsComplete ==
  status = "ready" /\ Readable(worker) =>
    IF pending = <<>> THEN pushed = Expected(src) ELSE pushed = <<>> /\ pending = Expected(src)

(* What PointCloud's onLoad promises (PointCloud.tsx:87: "Called when all  *)
(* chunks have been parsed and ingested."): a load that reports ready has  *)
(* its points in the scene.  The code disagrees: chunks held back until a  *)
(* scene is there are flushed by the next chunk only, and after the last   *)
(* none comes; and what an instance was given goes with it.                *)
ReadyIsShown ==
  status = "ready" /\ mounted /\ Readable(worker) => pushed = Expected(src) /\ ~lost

(* What a comment says of a file without an extension (loader-worker-blob  *)
(* .ts:485: "sniff the first bytes of the response body to distinguish LAS *)
(* ('LASF'), PLY ('ply'), and XYZ").  The code disagrees when the first    *)
(* read brings less than the signature: the file is taken for text.        *)
SniffedIsFormat ==
  worker.phase \in {"emit", "over"} /\ worker.loader = "base" /\ worker.file.format \in {"las", "ply"}
    /\ worker.got > 0 => Recognised(worker)

(* Points reach the scene only while a load is under way: after an abort,  *)
(* a failure or the end, none does.                                        *)
QuietOutsideLoads == [][pushed' # pushed /\ pushed' # <<>> => status = "loading"]_vars

(* A file that is whole and of a kind its loader is for is never refused,  *)
(* however the network cuts it, as long as it goes on delivering.  The LAZ *)
(* loader given an uncompressed file is left out: it decodes what has come *)
(* with the header and fails.                                              *)
SoundFilesLoad ==
  [][worker.phase \in {"read", "emit"} /\ worker'.phase = "over" /\ (Read \/ Timer)
       /\ Sound(worker.file) /\ Recognised(worker') /\ Parser(worker') # "lasAtOnce"
     => queue'[Len(queue')].type = "DONE"]_vars

(* Every load comes to an end: ready, error, or given up by the user. *)
EveryLoadSettles == status = "loading" ~> status # "loading"
=============================================================================
