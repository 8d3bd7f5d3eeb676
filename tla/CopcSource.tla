----------------------------- MODULE CopcSource -----------------------------
(***************************************************************************)
(* CopcSource (src/copc/copc-source.ts): fetchTile with its memory cache,  *)
(* the persistent cache, the range request and the pool of decode workers  *)
(* (src/copc/copc-decode-pool.ts), and destroy.  Every await of a call is  *)
(* a place where other calls, answers and destroy run.  The caller is the  *)
(* scheduler of CopcPointCloud: one call for a tile at a time, at most     *)
(* MaxConcurrent in all, each with a timer that aborts it.                 *)
(***************************************************************************)
EXTENDS OpfsCache

CONSTANTS
  PoolSize,      \* decode workers
  MaxConcurrent,
  MaxTiles,      \* capacity of the memory cache
  \* Bounds of the model:
  MaxCalls,      \* calls of fetchTile
  MaxReloads     \* page reloads

ASSUME SourceConstants ==
  /\ PoolSize \in Nat \ {0} /\ MaxConcurrent \in Nat /\ MaxTiles \in Nat \ {0}
  /\ MaxCalls \in Nat /\ MaxReloads \in Nat /\ SetIds = 1..MaxCalls

VARIABLES
  calls,         \* the calls of fetchTile so far
  decodeWorkers, \* [worker -> call or Idle]
  decodeQueue,
  cache,         \* _cache: keys, the most recently used first
  destroyed,
  reloads

vars == <<opfsVars, calls, decodeWorkers, decodeQueue, cache, destroyed, reloads>>

Idle == 0
Workers == 1..PoolSize
Before == {"reading", "loading", "torn", "network"}
UnderWay == Before \cup {"queued", "decoding"}
Active == {c \in DOMAIN calls : calls[c].phase \in UnderWay}
Least(a, b) == IF a < b THEN a ELSE b

At(c, phase) == c \in DOMAIN calls /\ calls[c].phase = phase
Moved(c, phase) == [calls EXCEPT ![c].phase = phase]
Aborted(c) == [calls EXCEPT ![c].aborted = TRUE]
Settled(c, r) == [calls EXCEPT ![c].phase = "settled", ![c].result = r]

-----------------------------------------------------------------------------
(* Decode pool *)

(* pumpDecodeQueue: the workers are gone through in order, and each idle   *)
(* one takes the job at the front of the queue, whose buffer is            *)
(* transferred to it.                                                      *)
IdleUpTo(w, ws) == Cardinality({v \in 1..w : ws[v] = Idle})
Pump(cs, q, ws) ==
  LET taken == Least(IdleUpTo(PoolSize, ws), Len(q))
  IN /\ decodeWorkers' = [w \in Workers |->
          IF ws[w] = Idle /\ IdleUpTo(w, ws) <= Len(q) THEN q[IdleUpTo(w, ws)] ELSE ws[w]]
     /\ decodeQueue' = [i \in 1..(Len(q) - taken) |-> q[taken + i]]
     /\ calls' = [c \in DOMAIN cs |->
          IF \E i \in 1..taken : q[i] = c
          THEN [cs[c] EXCEPT !.phase = "decoding", !.sent = TRUE] ELSE cs[c]]

(* _decodeTile, or null from a source destroyed meanwhile                  *)
Decode(c) ==
  IF destroyed
  THEN calls' = Settled(c, "null") /\ UNCHANGED <<decodeWorkers, decodeQueue>>
  ELSE Pump(Moved(c, "queued"), Append(decodeQueue, c), decodeWorkers)

(* LruCache.set: as the most recent, and the least recent is dropped       *)
Remembered(k) ==
  LET s == <<k>> \o SelectSeq(cache, LAMBDA x : x # k)
  IN SubSeq(s, 1, Least(Len(s), MaxTiles))

(* onmessage (a tile, or a decoding error) and onerror of a worker         *)
BugNotPumped(w) == \E ok \in BOOLEAN :
  LET c == decodeWorkers[w]
  IN /\ c # Idle
     /\ calls' = Settled(c, IF ok THEN "tile" ELSE "null")
     /\ decodeWorkers' = [decodeWorkers EXCEPT ![w] = Idle]
     /\ cache' = IF ok THEN Remembered(calls[c].key) ELSE cache
     /\ UNCHANGED <<opfsVars, decodeQueue, destroyed, reloads>>
WorkerAnswers(w) == \E ok \in BOOLEAN :
  LET c == decodeWorkers[w]
  IN /\ c # Idle
     /\ Pump(Settled(c, IF ok THEN "tile" ELSE "null"), decodeQueue,
             [decodeWorkers EXCEPT ![w] = Idle])
     /\ cache' = IF ok THEN Remembered(calls[c].key) ELSE cache
     /\ UNCHANGED <<opfsVars, destroyed, reloads>>

-----------------------------------------------------------------------------
(* fetchTile *)

NewCall(k, phase, r) ==
  calls' = Append(calls, [key |-> k, phase |-> phase, aborted |-> FALSE, sent |-> FALSE, result |-> r])

MayFetch(k) == /\ Len(calls) < MaxCalls
               /\ Cardinality(Active) < MaxConcurrent
               /\ \A c \in Active : calls[c].key # k

FetchTile == \E k \in Keys :
  /\ MayFetch(k)
  /\ ~destroyed /\ k \notin {cache[i] : i \in DOMAIN cache}
  /\ NewCall(k, "reading", "none")
  /\ UNCHANGED <<opfsVars, decodeWorkers, decodeQueue, cache, destroyed, reloads>>

FetchAtOnce == \E k \in Keys :
  /\ MayFetch(k)
  /\ \/ destroyed /\ NewCall(k, "settled", "null") /\ UNCHANGED cache
     \/ /\ ~destroyed /\ k \in {cache[i] : i \in DOMAIN cache}
        /\ NewCall(k, "settled", "tile") /\ cache' = Remembered(k)
  /\ UNCHANGED <<opfsVars, decodeWorkers, decodeQueue, destroyed, reloads>>

(* OpfsCache.get: a file is found and then loaded.  No file, or an error   *)
(* looking for one, and the request goes out, which an aborted signal      *)
(* rejects at once.                                                        *)
FindFile(c) ==
  /\ At(c, "reading")
  /\ \/ files[calls[c].key] # "absent" /\ calls' = Moved(c, "loading")
     \/ /\ files[calls[c].key] = "absent" \/ Failures
        /\ calls' = IF calls[c].aborted THEN Settled(c, "error") ELSE Moved(c, "network")
  /\ UNCHANGED <<opfsVars, decodeWorkers, decodeQueue, cache, destroyed, reloads>>

(* arrayBuffer() is returned without an await, so its rejection (the file  *)
(* was changed after getFile) is not caught there.                         *)
LoadFile(c) ==
  /\ \/ At(c, "loading") /\ Decode(c)
     \/ At(c, "torn") /\ calls' = Settled(c, "error") /\ UNCHANGED <<decodeWorkers, decodeQueue>>
  /\ UNCHANGED <<opfsVars, cache, destroyed, reloads>>

(* The whole range arrives: it is handed to set() and to the decoder.      *)
BytesArrive(c) ==
  /\ At(c, "network")
  /\ StartSet(c, calls[c].key)
  /\ Decode(c)
  /\ UNCHANGED <<cache, destroyed, reloads>>

(* A status that is not ok gives null, a network error rejects.            *)
RequestFails(c) ==
  /\ At(c, "network")
  /\ \E r \in {"null", "error"} : calls' = Settled(c, r)
  /\ UNCHANGED <<opfsVars, decodeWorkers, decodeQueue, cache, destroyed, reloads>>

BugTimerIgnored(c) ==
  /\ At(c, "reading") /\ ~calls[c].aborted
  /\ calls' = Aborted(c)
  /\ UNCHANGED <<opfsVars, decodeWorkers, decodeQueue, cache, destroyed, reloads>>

(* The caller's timer aborts the request, now or when it is made; it does  *)
(* nothing to a call that has its bytes.                                   *)
TimeOut(c) ==
  /\ \/ At(c, "network") /\ calls' = Settled(c, "error")
     \/ At(c, "reading") /\ ~calls[c].aborted /\ calls' = Aborted(c)
  /\ UNCHANGED <<opfsVars, decodeWorkers, decodeQueue, cache, destroyed, reloads>>

-----------------------------------------------------------------------------
(* destroy(): every call is aborted, waiting jobs resolve to null, and the *)
(* workers are terminated with theirs.                                     *)
Abandoned(c) ==
  CASE At(c, "network") -> [calls[c] EXCEPT !.phase = "settled", !.result = "error"]
    [] At(c, "queued") -> [calls[c] EXCEPT !.phase = "settled", !.result = "null"]
    [] At(c, "reading") -> [calls[c] EXCEPT !.aborted = TRUE]
    [] OTHER -> calls[c]

Destroy ==
  /\ ~destroyed
  /\ destroyed' = TRUE
  /\ calls' = [c \in DOMAIN calls |-> Abandoned(c)]
  /\ decodeWorkers' = [w \in Workers |-> Idle] /\ decodeQueue' = <<>>
  /\ UNCHANGED <<opfsVars, cache, reloads>>

(* set(), step by step.  A file changed after it was found cannot be       *)
(* loaded; a buffer that was transferred has no bytes left.                *)
Tear(k) == calls' = [c \in DOMAIN calls |->
  IF At(c, "loading") /\ calls[c].key = k THEN [calls[c] EXCEPT !.phase = "torn"] ELSE calls[c]]
Buffer(c) == IF calls[c].sent THEN "empty" ELSE "whole"

SetStep(c) ==
  /\ c \in DOMAIN calls
  /\ \/ RemoveVictim(c) /\ Tear(sets[c].victim)
     \/ CreateFile(c) /\ UNCHANGED calls
     \/ WriteData(c, Buffer(c)) /\ UNCHANGED calls
     \/ CloseFile(c, SizeOf(Buffer(c))) /\ Tear(sets[c].key)
     \/ SetFails(c) /\ UNCHANGED calls
  /\ UNCHANGED <<decodeWorkers, decodeQueue, cache, destroyed, reloads>>

(* The page is reloaded, or closed and visited again: only files are left, *)
(* and a new source opens them.                                            *)
Reload ==
  /\ reloads < MaxReloads
  /\ reloads' = reloads + 1
  /\ Open
  /\ calls' = [c \in DOMAIN calls |->
                 IF c \in Active THEN [calls[c] EXCEPT !.phase = "gone"] ELSE calls[c]]
  /\ decodeWorkers' = [w \in Workers |-> Idle] /\ decodeQueue' = <<>>
  /\ cache' = <<>> /\ destroyed' = FALSE

Init ==
  /\ OpfsInit
  /\ calls = <<>>
  /\ decodeWorkers = [w \in Workers |-> Idle] /\ decodeQueue = <<>>
  /\ cache = <<>> /\ destroyed = FALSE /\ reloads = 0

CallStep(c) == FindFile(c) \/ LoadFile(c)
Next == \/ FetchTile \/ FetchAtOnce
        \/ \E c \in 1..MaxCalls : \/ CallStep(c) \/ TimeOut(c) \/ SetStep(c)
                                  \/ BytesArrive(c) \/ RequestFails(c)
        \/ \E w \in Workers : WorkerAnswers(w)
        \/ Destroy \/ Reload
Spec == Init /\ [][Next]_vars

(* The file system answers, the timer fires and a worker answers what it   *)
(* was sent; the network need not.                                         *)
FairSpec == /\ Spec
            /\ \A c \in 1..MaxCalls : WF_vars(CallStep(c)) /\ WF_vars(TimeOut(c))
            /\ \A w \in Workers : WF_vars(WorkerAnswers(w))

-----------------------------------------------------------------------------
(* Properties *)

(* No call waits for a worker while one is idle, and every call that is    *)
(* queued or being decoded is in the queue or with a worker, once.         *)
PoolConserves ==
  LET places(c) == Cardinality({i \in DOMAIN decodeQueue : decodeQueue[i] = c})
                   + Cardinality({w \in Workers : decodeWorkers[w] = c})
  IN /\ decodeQueue # <<>> => \A w \in Workers : decodeWorkers[w] # Idle
     /\ ~destroyed => \A c \in DOMAIN calls :
          places(c) = IF calls[c].phase \in {"queued", "decoding"} THEN 1 ELSE 0

(* A call on a source that lives settles, even if the network is silent    *)
(* and its tile is not the first in the queue.                             *)
EveryFetchSettles == \A c \in 1..MaxCalls :
  c \in Active ~> (c \notin Active \/ destroyed)
=============================================================================
