---------------------------- MODULE StreamStore ----------------------------
(***************************************************************************)
(* What <StreamedPointCloud> gives its scenes: the ring of usePointFlow on *)
(* the main thread and the props a scene sees.  Points are numbered in the *)
(* order in which the ring takes them; the ring here keeps the latest (how *)
(* it chooses in other modes is PointRing's matter), so its content is a   *)
(* function of two counters.                                               *)
(*                                                                         *)
(* The hook runs with reactivePush false: what it renders of the ring is   *)
(* read when refreshStats or reset asks for it, and stays until then.      *)
(***************************************************************************)
EXTENDS Integers, Sequences, FiniteSets

CONSTANTS
  Cap,        \* maxPoints
  Views,      \* poses of the camera
  Styles,     \* level of detail and colorBy
  Plain,      \* the one without colorBy
  Unset,      \* what a ref to a view or a style has before the first frame
  \* Bounds of the model:
  MaxPoints, MaxChunk, MaxResets, MaxChanges

ASSUME StoreConstants ==
  /\ Cap \in Nat \ {0} /\ MaxPoints \in Nat \ {0} /\ MaxResets \in Nat /\ MaxChanges \in Nat
  /\ MaxChunk \in Nat \ {0}
  /\ Views # {} /\ Plain \in Styles /\ Unset \notin Views \cup Styles

VARIABLES
  pushed,       \* points the ring took so far
  born,         \* those it took before the last reset
  resets,       \* resetVersion
  statsDue,     \* a re-render that reads the ring's statistics is due
  totalPoints,  \* state.totalPoints, as rendered
  resetVersion, \* state.resetVersion, as rendered
  style, view,  \* as rendered
  changes       \* of style and view so far

storeVars == <<pushed, born, resets, statsDue, totalPoints, resetVersion, style, view, changes>>

NoPoint == 0
Points == 1..MaxPoints
SlotIndexes == 0..(Cap - 1)
Larger(a, b) == IF a > b THEN a ELSE b
Smaller(a, b) == IF a < b THEN a ELSE b

(* The points of the ring, and the slot of each                            *)
Kept == (Larger(born, pushed - Cap) + 1)..pushed
CpuSlot(p) == (p - born - 1) % Cap

(* getPointAtSlot                                                          *)
PointAtSlot(s) == IF \E p \in Kept : CpuSlot(p) = s
                  THEN CHOOSE p \in Kept : CpuSlot(p) = s ELSE NoPoint

(* The points of a ring [slots, ptr, total] of a scene, and points written *)
(* to it at its pointer.  An operator named Bug... is not part of the      *)
(* model: it is the next one with a mistake, which a property must notice. *)
EmptyRing == [slots |-> [s \in SlotIndexes |-> NoPoint], ptr |-> 0, total |-> 0]
Valid(r) == {r.slots[s] : s \in 0..(r.total - 1)}

BugNoSecondPart(r, points) ==
  LET n == Len(points)
      after(s) == (r.ptr + n - 1 - s) % Cap
  IN [slots |-> [s \in SlotIndexes |-> IF after(s) < n /\ s >= r.ptr THEN points[n - after(s)]
                                       ELSE r.slots[s]],
      ptr |-> (r.ptr + n) % Cap,
      total |-> Smaller(r.total + n, Cap)]

(* What a scene writes of a chunk: its first points, when it is longer than *)
(* the ring.                                                               *)
Capped(chunk) == SubSeq(chunk, 1, Smaller(Len(chunk), Cap))

(* Chunk by chunk, each in up to two parts, to the end of the buffer and   *)
(* from its start.  `after(s)` points are written after the last one that  *)
(* goes to slot s.                                                         *)
WriteAll(r, points) ==
  LET n == Len(points)
      after(s) == (r.ptr + n - 1 - s) % Cap
  IN [slots |-> [s \in SlotIndexes |-> IF after(s) < n THEN points[n - after(s)] ELSE r.slots[s]],
      ptr |-> (r.ptr + n) % Cap,
      total |-> Smaller(r.total + n, Cap)]

(* The whole ring of the store, in order from slot 0: copySoAForGPU        *)
FullCopy(r) ==
  LET n == Cardinality(Kept)
  IN IF n = 0 THEN r
     ELSE [slots |-> [s \in SlotIndexes |-> IF s < n THEN pushed - n + 1 + s ELSE r.slots[s]],
           ptr |-> n % Cap, total |-> n]

(* The next n points, as a chunk                                           *)
Chunk(n) == [i \in 1..n |-> pushed + i]

StoreInit ==
  /\ pushed = 0 /\ born = 0 /\ resets = 0
  /\ statsDue = FALSE /\ totalPoints = 0 /\ resetVersion = 0
  /\ style \in Styles /\ view = (CHOOSE v \in Views : TRUE) /\ changes = 0

(* The ring takes a chunk of n points.                                     *)
Take(n) ==
  /\ pushed + n <= MaxPoints
  /\ pushed' = pushed + n
  /\ UNCHANGED <<born, resets, statsDue, totalPoints, resetVersion, style, view, changes>>

(* reset() of the hook                                                     *)
StoreReset ==
  /\ resets < MaxResets
  /\ resets' = resets + 1
  /\ born' = pushed
  /\ statsDue' = TRUE
  /\ UNCHANGED <<pushed, totalPoints, resetVersion, style, view, changes>>

(* The hook renders what it was asked to.                                  *)
StoreRender ==
  /\ statsDue
  /\ statsDue' = FALSE
  /\ totalPoints' = Cardinality(Kept)
  /\ resetVersion' = resets
  /\ UNCHANGED <<pushed, born, resets, style, view, changes>>

(* The application's props or the user's camera change.                    *)
ChangeStyle(s) ==
  /\ s # style /\ changes < MaxChanges
  /\ changes' = changes + 1
  /\ style' = s
  /\ UNCHANGED <<pushed, born, resets, statsDue, totalPoints, resetVersion, view>>

ChangeView(v) ==
  /\ v # view /\ changes < MaxChanges
  /\ changes' = changes + 1
  /\ view' = v
  /\ UNCHANGED <<pushed, born, resets, statsDue, totalPoints, resetVersion, style>>

(* A frame asks for a refresh (STATS_REFRESH_MIN_MS may have passed).      *)
MayRefresh ==
  /\ statsDue' \in {statsDue, TRUE}
  /\ UNCHANGED <<pushed, born, resets, totalPoints, resetVersion, style, view, changes>>
=============================================================================
