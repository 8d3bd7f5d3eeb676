----------------------------- MODULE IngestHook -----------------------------
(***************************************************************************)
(* usePointFlow (src/hooks/usePointFlow.ts): the React hook that owns the  *)
(* PointBuffer and the WorkerBridge.  The bridge lives from one run of its *)
(* effect to the next (workerMode, reactivePush, workerCulling); the       *)
(* buffer from one policy to the next; the refs (nextRequestIdRef,         *)
(* lastResetRequestIdRef) as long as the hook.  The callback given to a    *)
(* bridge keeps the props of the render that made it.  Without a bridge,   *)
(* which `active` says, a chunk is ingested where it is pushed.            *)
(***************************************************************************)
EXTENDS WorkerBridge

CONSTANTS
  \* Bounds of the model:
  MaxRemounts,  \* runs of the bridge effect after the first
  MaxChanges    \* changes of the policy props

ASSUME HookConstants == MaxRemounts \in Nat /\ MaxChanges \in Nat

VARIABLES
  lastReset,    \* lastResetRequestIdRef
  prop,         \* the importanceField prop: "auto" or a name
  captured,     \* the value of prop the bridge's callback closed over
  field,        \* the buffer's importance field
  autoDone,     \* autoImportanceResolvedRef
  kept,         \* points ingested into the present buffer since it was empty
  base,         \* history: how much was handed to onIngest before that
  remounts, changes

fieldVars == <<prop, captured, field, autoDone>>
hookVars == <<lastReset, fieldVars, kept, base, remounts, changes>>
allVars == <<vars, hookVars>>

Props == {"auto", "velocity"}
FieldOf(p) == IF p = "auto" THEN "none" ELSE p

HookInit ==
  /\ Init
  /\ lastReset = 0
  /\ prop \in Props /\ captured = prop /\ field = FieldOf(prop) /\ autoDone = FALSE
  /\ kept = {} /\ base = 0
  /\ remounts = 0 /\ changes = 0

(* pushChunk with a bridge; the points are those the filters leave.        *)
PushChunk == Post /\ UNCHANGED hookVars

(* resolveAutoImportance under the prop its caller sees: the first chunk   *)
(* with attributes names the field ("intensity" stands for its choice).    *)
ResolveAuto(seen, pts) ==
  IF seen = "auto" /\ ~autoDone /\ pts # <<>>
  THEN field' = "intensity" /\ autoDone' = TRUE
  ELSE UNCHANGED <<field, autoDone>>

(* applyAdaptiveIngest: every second or fourth point under pressure.       *)
Downsampled(pts) ==
  {[i \in 1..((Len(pts) + stride - 1) \div stride) |-> pts[stride * (i - 1) + 1]] :
     stride \in {1, 2, 4}}

(* ingest, on this thread *)
IngestsHere(pts) == kept' = kept \cup Range(pts) /\ ingested' = ingested \o pts

(* pushChunk without a bridge: before the effect, after its cleanup, or    *)
(* when the worker could not be created.                                   *)
PushDirect == \E n \in 1..MaxPost : \E pts \in Downsampled([i \in 1..n |-> posted + i]) :
  /\ ~active /\ posted + n <= MaxPosted
  /\ posted' = posted + n
  /\ IngestsHere(pts)
  /\ ResolveAuto(prop, pts)
  /\ UNCHANGED <<bridgeVars, channelVars, mark, overflowed, countVars,
                 lastReset, prop, captured, base, remounts, changes>>

BugFirstRefused(reply) == reply.id > lastReset
HookAccepts(reply) == reply.id >= lastReset

(* The callback: it has a watermark of its own.                            *)
WorkerAnswers ==
  /\ OnMessage
  /\ LET reply == Head(replies)
     IN IF active /\ Accepted(reply) /\ HookAccepts(reply)
        THEN kept' = kept \cup Range(reply.pts) /\ ResolveAuto(captured, reply.pts)
        ELSE UNCHANGED <<kept, field, autoDone>>
  /\ UNCHANGED <<lastReset, prop, captured, base, remounts, changes>>

WorkerFails == OnError /\ UNCHANGED hookVars

BugBufferKept ==
  Reset /\ lastReset' = nextRef /\ UNCHANGED <<kept, base, fieldVars, remounts, changes>>

(* reset() when there is no bridge to tell *)
ResetAlone ==
  /\ ~active /\ resets < MaxResets
  /\ resets' = resets + 1
  /\ mark' = posted
  /\ UNCHANGED <<bridgeVars, channelVars, posted, ingested, overflowed, errors>>

(* reset() *)
HookReset ==
  /\ Reset \/ ResetAlone
  /\ lastReset' = Watermark
  /\ kept' = {} /\ base' = Len(ingested)
  /\ UNCHANGED <<fieldVars, remounts, changes>>

(* The bridge effect runs again: cleanup terminates the old bridge, whose  *)
(* messages go unheard, and a new one starts counting at 0.                *)
RemountBridge ==
  /\ remounts < MaxRemounts
  /\ remounts' = remounts + 1
  /\ nextId' = 0 /\ minId' = 0 /\ active' = TRUE /\ inFlight' = FALSE /\ queue' = <<>>
  /\ requests' = <<>> /\ replies' = <<>>
  /\ captured' = prop
  /\ UNCHANGED <<nextRef, historyVars, countVars, lastReset, prop,
                 field, autoDone, kept, base, changes>>

(* The policy effect: a changed policy prop makes a new, empty buffer.     *)
ChangePolicy == \E p \in Props :
  /\ changes < MaxChanges
  /\ changes' = changes + 1
  /\ prop' = p /\ field' = FieldOf(p) /\ autoDone' = FALSE
  /\ kept' = {} /\ base' = Len(ingested)
  /\ UNCHANGED <<vars, lastReset, captured, remounts>>

Unmount == Terminate /\ UNCHANGED hookVars

HookNext ==
  \/ PushChunk \/ PushDirect \/ WorkerAnswers \/ WorkerFails \/ HookReset
  \/ RemountBridge \/ ChangePolicy \/ Unmount
  \/ Worker /\ UNCHANGED hookVars

HookSpec == HookInit /\ [][HookNext]_allVars

-----------------------------------------------------------------------------
(* Properties                                                              *)

(* Until the bridge is recreated, the buffer holds what it delivered since *)
(* the buffer was empty: the hook's watermark refuses nothing the bridge's *)
(* own lets through.                                                       *)
BufferHoldsDelivered == remounts = 0 =>
  kept = {ingested[i] : i \in (base + 1)..Len(ingested)}

(* After a reset the buffer shows points posted after it only, whichever   *)
(* of the two watermarks and of the buffers were replaced meanwhile.       *)
NoPointFromBeforeReset == \A p \in kept : p > mark

(* The watermark a reset takes from nextRequestIdRef is never ahead of the *)
(* ids the bridge still has to issue.                                      *)
WatermarkNotAhead == active => lastReset <= nextId
=============================================================================
