---------------------------- MODULE WorkerBridge ----------------------------
(***************************************************************************)
(* The ingest worker protocol: WorkerBridge (src/worker/worker-bridge.ts)  *)
(* on the main thread, the packing worker (src/worker/worker-blob.ts) on   *)
(* its own, a FIFO message channel each way.  The bridge keeps one request *)
(* in the worker, queues and coalesces the rest, and drops answers to      *)
(* requests posted before the last reset.                                  *)
(*                                                                         *)
(* Points are numbered in the order they are posted; `ingested` is the     *)
(* history of the points handed to the onIngest callback.                  *)
(***************************************************************************)
EXTENDS Integers, Sequences, Functions

CONSTANTS
  MaxQueued,    \* maxQueued
  MaxCoalesce,  \* maxCoalescePoints
  Culling,      \* workerCulling: the worker may discard points of a request
  Throws,       \* the onIngest callback may throw
  \* Bounds of the model:
  MaxPost,      \* points in one chunk
  MaxPosted,    \* points posted
  MaxErrors,    \* requests the worker fails on
  MaxResets     \* calls of reset

ASSUME BridgeConstants ==
  /\ MaxQueued \in Nat \ {0} /\ MaxCoalesce \in Nat
  /\ Culling \in BOOLEAN /\ Throws \in BOOLEAN
  /\ MaxPost \in Nat \ {0} /\ MaxPosted \in Nat /\ MaxErrors \in Nat /\ MaxResets \in Nat

VARIABLES
  nextId, minId,     \* nextRequestId, minAcceptedRequestId
  nextRef,           \* the hook's nextRequestIdRef
  active, inFlight,
  queue,             \* waiting [id, pts] requests
  requests,          \* main thread to worker
  replies,           \* worker to main thread: [id, pts] answers and error events
  posted,            \* how many points were posted
  ingested,          \* points handed to onIngest, in order
  mark, overflowed,  \* history: `posted` at the last reset; points lost to a full queue
  errors, resets     \* how often the bounded events happened

bridgeVars == <<nextId, minId, nextRef, active, inFlight, queue>>
channelVars == <<requests, replies>>
historyVars == <<posted, ingested, mark, overflowed>>
countVars == <<errors, resets>>
vars == <<bridgeVars, channelVars, historyVars, countVars>>

Error == [id |-> -1, pts |-> <<>>]
PointsOf(items) == UNION {Range(item.pts) : item \in Range(items)}
Last(s) == s[Len(s)]
WithLast(s, x) == [s EXCEPT ![Len(s)] = x]

-----------------------------------------------------------------------------
(* Main thread.  An operator named Bug... is not part of the model: it is  *)
(* the next operator with a mistake, which a property must notice.         *)

(* dispatch *)
Send(item) == inFlight' = TRUE /\ requests' = Append(requests, item)

BugNewestFirst ==
  IF queue = <<>> THEN inFlight' = FALSE /\ UNCHANGED <<queue, requests>>
  ELSE Send(Last(queue)) /\ queue' = SubSeq(queue, 1, Len(queue) - 1)

(* dispatchNext, on the queue as it is *)
DispatchNext ==
  IF queue = <<>> THEN inFlight' = FALSE /\ UNCHANGED <<queue, requests>>
  ELSE Send(Head(queue)) /\ queue' = Tail(queue)

(* The four outcomes of post(): sent at once, coalesced into the last      *)
(* request of the queue (which takes the new id), enqueued, or enqueued in *)
(* the place of the oldest.                                                *)
Dispatch(item) ==
  /\ ~inFlight /\ queue = <<>>
  /\ Send(item)
  /\ UNCHANGED <<queue, overflowed>>

Fits(item) == queue # <<>> /\ Len(Last(queue).pts) + Len(item.pts) <= MaxCoalesce

Waits(item) == inFlight \/ queue # <<>>

BugReplaced(item) ==
  /\ Waits(item) /\ Fits(item)
  /\ queue' = WithLast(queue, item)
  /\ UNCHANGED <<inFlight, requests, overflowed>>
Coalesce(item) ==
  /\ Waits(item) /\ Fits(item)
  /\ queue' = WithLast(queue, [id |-> item.id, pts |-> Last(queue).pts \o item.pts])
  /\ UNCHANGED <<inFlight, requests, overflowed>>

Enqueue(item) ==
  /\ Waits(item) /\ ~Fits(item) /\ Len(queue) < MaxQueued
  /\ queue' = Append(queue, item)
  /\ UNCHANGED <<inFlight, requests, overflowed>>

DropOldest(item) ==
  /\ Waits(item) /\ ~Fits(item) /\ Len(queue) >= MaxQueued
  /\ queue' = Append(Tail(queue), item)
  /\ overflowed' = overflowed \cup Range(Head(queue).pts)
  /\ UNCHANGED <<inFlight, requests>>

(* post(chunk) of n finite points *)
Post == \E n \in 1..MaxPost :
  /\ posted + n <= MaxPosted
  /\ active
  /\ LET item == [id |-> nextId, pts |-> [i \in 1..n |-> posted + i]]
     IN Dispatch(item) \/ Coalesce(item) \/ Enqueue(item) \/ DropOldest(item)
  /\ nextId' = nextId + 1
  /\ nextRef' = nextId + 1
  /\ posted' = posted + n
  /\ UNCHANGED <<minId, active, replies, ingested, mark, countVars>>

Accepted(reply) == reply.id >= minId

(* onmessage: an answer at or above the watermark is ingested, then the    *)
(* next request goes out; a callback that throws skips the dispatch.       *)
OnMessage ==
  /\ replies # <<>> /\ Head(replies) # Error
  /\ replies' = Tail(replies)
  /\ IF ~active THEN UNCHANGED <<inFlight, queue, requests, ingested>>
     ELSE LET accepted == Accepted(Head(replies))
          IN /\ ingested' = IF accepted THEN ingested \o Head(replies).pts ELSE ingested
             /\ \/ DispatchNext
                \/ /\ Throws /\ accepted
                   /\ inFlight' = FALSE
                   /\ UNCHANGED <<queue, requests>>
  /\ UNCHANGED <<nextId, minId, nextRef, active, posted, mark, overflowed, countVars>>

BugErrorIgnored ==
  /\ replies # <<>> /\ Head(replies) = Error
  /\ replies' = Tail(replies)
  /\ UNCHANGED <<bridgeVars, requests, historyVars, countVars>>

(* onerror: the failed request is gone, the next one goes out.             *)
OnError ==
  /\ replies # <<>> /\ Head(replies) = Error
  /\ replies' = Tail(replies)
  /\ IF active THEN DispatchNext ELSE UNCHANGED <<inFlight, queue, requests>>
  /\ UNCHANGED <<nextId, minId, nextRef, active, historyVars, countVars>>

Watermark == nextRef

(* reset(minAcceptedRequestId), called by the hook with nextRef.           *)
Reset ==
  /\ active /\ resets < MaxResets
  /\ resets' = resets + 1
  /\ minId' = Watermark
  /\ queue' = <<>>
  /\ mark' = posted
  /\ UNCHANGED <<nextId, nextRef, active, inFlight, channelVars, posted, ingested,
                 overflowed, errors>>

Terminate ==
  /\ active
  /\ active' = FALSE
  /\ queue' = <<>>
  /\ requests' = <<>>
  /\ UNCHANGED <<nextId, minId, nextRef, inFlight, replies, historyVars, countVars>>

-----------------------------------------------------------------------------
(* Worker *)

(* The choices of indices up to n, each in increasing order *)
Choices(n) ==
  {c \in UNION {[1..k -> 1..n] : k \in 0..n} : \A i, j \in DOMAIN c : i < j => c[i] < c[j]}

(* Points the frustum may leave of a request, in order *)
Survivors(pts) ==
  IF Culling THEN {[i \in DOMAIN c |-> pts[c[i]]] : c \in Choices(Len(pts))} ELSE {pts}

Pack ==
  /\ requests # <<>>
  /\ \E pts \in Survivors(Head(requests).pts) :
       replies' = Append(replies, [id |-> Head(requests).id, pts |-> pts])
  /\ requests' = Tail(requests)
  /\ UNCHANGED <<bridgeVars, historyVars, countVars>>

Fail ==
  /\ requests # <<>> /\ errors < MaxErrors
  /\ errors' = errors + 1
  /\ replies' = Append(replies, Error)
  /\ requests' = Tail(requests)
  /\ UNCHANGED <<bridgeVars, historyVars, resets>>

-----------------------------------------------------------------------------
Init ==
  /\ nextId = 0 /\ minId = 0 /\ nextRef = 0
  /\ active = TRUE /\ inFlight = FALSE /\ queue = <<>>
  /\ requests = <<>> /\ replies = <<>>
  /\ posted = 0 /\ ingested = <<>> /\ mark = 0 /\ overflowed = {}
  /\ errors = 0 /\ resets = 0

Deliver == OnMessage \/ OnError
Worker == Pack \/ Fail
Next == Post \/ Reset \/ Terminate \/ Deliver \/ Worker
Spec == Init /\ [][Next]_vars

(* The worker handles the messages it has, the event loop delivers them.   *)
FairSpec == Spec /\ WF_vars(Worker) /\ WF_vars(Deliver)

-----------------------------------------------------------------------------
(* Properties                                                              *)

(* Every point is ingested at most once and in the order it was posted,    *)
(* across coalescing, overflow, worker errors and resets.                  *)
InOrder == \A i, j \in DOMAIN ingested : i < j => ingested[i] < ingested[j]

(* Points posted since the last reset are lost to a full queue, a worker   *)
(* error or the frustum, and in no other way.                              *)
NothingLost ==
  active /\ errors = 0 /\ ~Culling =>
    (mark + 1)..posted \subseteq
      Range(ingested) \cup PointsOf(queue) \cup PointsOf(requests) \cup PointsOf(replies)
      \cup overflowed

(* Every posted point is eventually settled: no request waits forever.     *)
EveryRequestSettles == \A p \in 1..MaxPosted :
  p \in PointsOf(queue) \cup PointsOf(requests) ~>
    p \notin PointsOf(queue) \cup PointsOf(requests) \cup PointsOf(replies)
=============================================================================
