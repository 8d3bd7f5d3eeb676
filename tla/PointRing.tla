----------------------------- MODULE PointRing -----------------------------
(***************************************************************************)
(* PointBuffer (src/core/backpressure.ts): the bounded point store every   *)
(* streamed point goes through.  A ring of at most MaxPoints slots, filled *)
(* by two ingest paths (objects, packed channels), with two drop policies, *)
(* an importance lookahead that swaps the cheapest of the first K slots to *)
(* the head before it is overwritten, optional growth (synchronous or from *)
(* an animation-frame callback), per-channel generation stamps, a cached   *)
(* range of the coloured attribute and a cell index over positions.        *)
(*                                                                         *)
(* JavaScript runs a call to completion, so between two calls nothing      *)
(* interleaves; a call is still several actions here, one per iteration of *)
(* its loops, and every other operation waits until `call` is Idle.        *)
(***************************************************************************)
EXTENDS Integers, Sequences, FiniteSets

CONSTANTS
  MaxPoints,        \* policy.maxPoints
  InitialCapacity,  \* policy.dynamicAlloc.initialCapacity, when Dynamic
  Modes,            \* policy.mode is one of "drop-oldest", "drop-newest"
  Dynamic,          \* policy.dynamicAlloc is given
  DeferGrowth,      \* policy.deferGrowth: grow from a callback
  GrowNum, GrowDen, \* growthFactor as the fraction GrowNum / GrowDen
  K,                \* width of the importance lookahead (16 in the code)
  Keys,             \* attribute names
  NoKey,            \* "undefined" for a name
  Points,           \* the points a caller can offer: [z, attrs] records
  Inf,              \* +Infinity: above every attribute value and height
  Cell(_),          \* cellKey of a position (one coordinate stands for three)
  CellKeys,         \* its range
  Score(_, _, _),   \* importanceScore of importance, age and cell density
  Importance(_, _), \* importance stored for a point's attributes, by field
  InitialField,     \* policy.importanceField
  InitialLookahead, \* any of the importance options is set
  \* Inputs and bounds of the model:
  Kinds,            \* ingest paths used: "object", "binary"
  Hints,            \* whether packed chunks carry range hints: a set of BOOLEANs
  Colors,           \* attributes the view is coloured by
  MaxChunk,         \* points in one ingest call
  MaxOffered,       \* points offered between two resets
  MaxQueued,        \* growth callbacks waiting for a frame
  MaxTime           \* clock ticks

Slots == 0..(MaxPoints - 1)
Elevation == "z"
ColorModes == Keys \cup {Elevation, NoKey}
NoAttrs == [k \in {} |-> 0]

ASSUME RingConstants ==
  /\ MaxPoints \in Nat \ {0}
  /\ InitialCapacity \in 1..MaxPoints
  /\ Modes \subseteq {"drop-oldest", "drop-newest"}
  /\ Dynamic \in BOOLEAN /\ DeferGrowth \in BOOLEAN
  /\ InitialLookahead \in BOOLEAN
  /\ GrowNum \in Nat /\ GrowDen \in Nat \ {0} /\ GrowNum > GrowDen
  /\ K \in Nat \ {0}

Heights == {p.z : p \in Points} \cup {0}
AttrSets == {p.attrs : p \in Points} \cup {NoAttrs}
AttrVals == UNION {{a[k] : k \in DOMAIN a} : a \in AttrSets}
Vals == AttrVals \cup Heights

ASSUME PointConstants ==
  /\ NoKey \notin Keys \cup {Elevation}
  /\ InitialField \in Keys \cup {NoKey}
  /\ \A p \in Points : p = [z |-> p.z, attrs |-> p.attrs]
  /\ \A a \in AttrSets : DOMAIN a \subseteq Keys /\ a = [k \in DOMAIN a |-> a[k]]
  /\ \A z \in Heights : Cell(z) \in CellKeys
  /\ \A a \in AttrSets, f \in Keys \cup {NoKey} : Importance(a, f) \in Int

ASSUME InfIsLarge == Inf \in Nat /\ \A v \in Vals : v \in Int /\ -Inf < v /\ v < Inf

ASSUME BoundConstants ==
  /\ Kinds \subseteq {"object", "binary"} /\ Hints \subseteq BOOLEAN /\ Colors \subseteq ColorModes
  /\ MaxChunk \in Nat \ {0} /\ MaxOffered \in Nat /\ MaxQueued \in Nat \ {0} /\ MaxTime \in Nat

VARIABLES
  head, size, capacity,  \* the ring
  slots,                 \* the parallel arrays, one record per slot
  tracked,               \* trackedAttr, the attribute being coloured by
  range,                 \* attrRangeMin / Max / Dirty
  cellOf, cellSlots,     \* slotToCellKey and cellSlots
  dropped, writeSeq,     \* droppedPoints, writeSeqCounter
  growthPending,         \* _growthPending
  growQueue,             \* doGrow callbacks the host still has to run
  mode,                  \* policy.mode
  field, lookahead,      \* _importanceField, _useKLookahead
  now,                   \* Date.now() - _epochMs, in ticks
  call                   \* the ingest call being executed

ringVars == <<head, size, capacity>>
indexVars == <<cellOf, cellSlots>>
growVars == <<growthPending, growQueue>>
policyVars == <<mode, field, lookahead, now>>
vars == <<ringVars, slots, tracked, range, indexVars, dropped, writeSeq,
          growVars, policyVars, call>>

-----------------------------------------------------------------------------
(* An operator named Bug... is not part of the model: it is the operator   *)
(* after it with a plausible mistake, which a property must notice.        *)

(* Slots                                                                   *)

(* `item`: an object occupies the slot.  `src`: that object's attributes   *)
(* and, for a packed point, a history variable, the attributes it was      *)
(* offered with.  `pv`, `present`, `chan`: the slot's cell of each packed  *)
(* channel's values, presence and generation stamps.                       *)
EmptySlot == [item |-> FALSE, z |-> 0, src |-> NoAttrs, val |-> 0, seq |-> 0,
              imp |-> 1, ts |-> 0, pv |-> [k \in Keys |-> 0], present |-> {},
              chan |-> [k \in Keys |-> 0]]

Get(attrs, k) == IF k \in DOMAIN attrs THEN attrs[k] ELSE 0

SlotAt(i) == (head + i) % capacity
Active == {SlotAt(i) : i \in 0..(size - 1)}

Idle == [kind |-> "idle", chans |-> {}, pts |-> <<>>, need |-> 0, at |-> 0,
         hint |-> [min |-> Inf, max |-> -Inf]]

(* A packed chunk is stamped, and scored against, the time its call began; *)
(* an object, the time it is written.                                      *)
Clock == IF call.kind = "binary" THEN call.at ELSE now

Widen(r, lo, hi) == [r EXCEPT !.min = IF lo < @ THEN lo ELSE @,
                              !.max = IF hi > @ THEN hi ELSE @]

(* rangeExpandAdd, and rangeUpdateOnOverwrite: evicting an extremum makes  *)
(* the cached range dirty.                                                 *)
RangeAfterAdd(val) == IF tracked = NoKey THEN range ELSE Widen(range, val, val)
BugEndForgotten(old, val) == IF tracked = NoKey THEN range ELSE Widen(range, val, val)
RangeAfterOverwrite(old, val) ==
  IF tracked = NoKey THEN range
  ELSE Widen([range EXCEPT !.dirty = @ \/ old = range.min \/ old = range.max], val, val)

(* writeSlot and writeBinarySlot: what slot record s becomes when p is     *)
(* written over it.  A packed write stamps only its own chunk's channels;  *)
(* an object write (no channels) leaves values, presence and stamps alone. *)
Written(s, p, kind, chans) ==
  [s EXCEPT !.item = (kind = "object"),
            !.z = p.z,
            !.src = p.attrs,
            !.val = IF tracked = NoKey THEN @ ELSE Get(p.attrs, tracked),
            !.seq = writeSeq,
            !.imp = Importance(p.attrs, field),
            !.ts = Clock,
            !.pv = [k \in Keys |-> IF k \in chans THEN Get(p.attrs, k) ELSE @[k]],
            !.present = (@ \ chans) \cup (chans \cap DOMAIN p.attrs),
            !.chan = [k \in Keys |-> IF k \in chans THEN writeSeq ELSE @[k]]]

-----------------------------------------------------------------------------
(* What readers of the buffer see                                          *)

BugStampsIgnored(s) ==
  IF slots[s].item THEN slots[s].src
  ELSE [k \in slots[s].present |-> slots[s].pv[k]]

(* snapshot(): the object itself, or what synthesizePackedAttributes finds *)
(* stamped with the slot's own generation.                                 *)
SnapshotAttrs(s) ==
  IF slots[s].item THEN slots[s].src
  ELSE [k \in {k \in slots[s].present : slots[s].chan[k] = slots[s].seq} |-> slots[s].pv[k]]

(* getPointAtSlot() and the tail of pickNearestPoint(): every present      *)
(* packed value, over the object's own attributes.                         *)
PickAttrs(s) ==
  LET own == IF slots[s].item THEN slots[s].src ELSE NoAttrs
  IN [k \in DOMAIN own \cup slots[s].present |->
        IF k \in slots[s].present THEN slots[s].pv[k] ELSE own[k]]

(* _copyWithSpatialCulling: a cell whose key the view accepts is emitted   *)
(* whole, the slots of any other cell are tested one by one.               *)
CulledCopy(cellVisible, heightVisible) ==
  UNION {IF c \in cellVisible THEN cellSlots[c]
         ELSE {s \in cellSlots[c] : slots[s].z \in heightVisible} : c \in CellKeys}

-----------------------------------------------------------------------------
(* Eviction                                                                *)

Density(s) == Cardinality(cellSlots[cellOf[s]])
BugDensityIgnored(s) == Score(slots[s].imp, Clock - slots[s].ts, 1)
ScoreAt(s) == Score(slots[s].imp, Clock - slots[s].ts, Density(s))

Window == {o \in 0..(size - 1) : o < K}


(* The slot of the first offset of the lookahead with the least score.     *)
WorstSlot ==
  {SlotAt(o) : o \in {o \in Window : \A q \in Window :
     /\ ScoreAt(SlotAt(o)) <= ScoreAt(SlotAt(q))
     /\ q < o => ScoreAt(SlotAt(o)) < ScoreAt(SlotAt(q))}}

(* _kLookaheadSwapToHead with _swapSlots: the victim's record moves to the *)
(* head, the head's to the victim's slot w, and w is indexed anew; the     *)
(* head's own index entry is left to the caller.                           *)
Swapped(w) == [slots EXCEPT ![head] = slots[w], ![w] = slots[head]]
BugNotUnindexed(cs, s, key) == cs
Unindexed(cs, s, key) == [cs EXCEPT ![key] = @ \ {s}]
Indexed(cs, s, key) == [cs EXCEPT ![key] = @ \cup {s}]

-----------------------------------------------------------------------------
(* Growth                                                                  *)

Least(a, b) == IF a < b THEN a ELSE b
BugNoCeiling == (capacity * GrowNum) \div GrowDen
BugLowCeiling == Least((capacity * GrowNum) \div GrowDen, MaxPoints - 1)
NewCapacity == Least((capacity * GrowNum) \div GrowDen, MaxPoints)

(* _grow: unroll into arrays of the new capacity, head first, and index    *)
(* the slots anew.                                                         *)
BugNewModulus ==
  [i \in Slots |-> IF i < size THEN slots[(head + i) % NewCapacity] ELSE EmptySlot]
Unrolled == [i \in Slots |-> IF i < size THEN slots[SlotAt(i)] ELSE EmptySlot]

Grow ==
  IF NewCapacity <= capacity
  THEN UNCHANGED <<ringVars, slots, indexVars>>
  ELSE /\ slots' = Unrolled
       /\ head' = 0
       /\ capacity' = NewCapacity
       /\ cellOf' = [i \in Slots |-> IF i < size THEN Cell(Unrolled[i].z) ELSE 0]
       /\ cellSlots' = [c \in CellKeys |-> {i \in 0..(size - 1) : Cell(Unrolled[i].z) = c}]
       /\ UNCHANGED size

CanGrow == Dynamic /\ capacity < MaxPoints

(* _scheduleGrow *)
ScheduleGrow ==
  IF growthPending THEN UNCHANGED growVars
  ELSE growthPending' = TRUE /\ growQueue' = growQueue + 1

(* doGrow, the callback of _scheduleGrow.                                  *)
DoGrow ==
  /\ call = Idle
  /\ growQueue > 0
  /\ growQueue' = growQueue - 1
  /\ growthPending' = FALSE
  /\ IF CanGrow THEN Grow ELSE UNCHANGED <<ringVars, slots, indexVars>>
  /\ UNCHANGED <<tracked, range, dropped, writeSeq, policyVars, call>>

-----------------------------------------------------------------------------
(* Ingest                                                                  *)

Chunks == UNION {[1..n -> Points] : n \in 1..MaxChunk}
KeysOf(pts) == UNION {DOMAIN pts[i].attrs : i \in DOMAIN pts}

(* The worker's range hint of the coloured attribute: the least and the    *)
(* greatest value any point of the chunk carries, kept or not.             *)
Hint(pts, chans, given) ==
  LET vs == {pts[i].attrs[tracked] : i \in {j \in DOMAIN pts : tracked \in DOMAIN pts[j].attrs}}
  IN IF given /\ tracked \in chans /\ vs # {}
     THEN [min |-> CHOOSE v \in vs : \A w \in vs : v <= w,
           max |-> CHOOSE v \in vs : \A w \in vs : v >= w]
     ELSE Idle.hint

(* ingest(chunk) and ingestFromBinary(xyz, attributes, count, rangeHints)  *)
(* up to their loop over the points: a chunk that does not fit schedules a *)
(* growth, or asks for `need` slots at once.                               *)
Begin(kind, chans, pts, hint) ==
  LET short == CanGrow /\ size + Len(pts) > capacity
  IN /\ call = Idle
     /\ call' = [kind |-> kind, chans |-> chans, pts |-> pts, hint |-> hint, at |-> now,
                 need |-> IF short /\ ~DeferGrowth THEN size + Len(pts) ELSE 0]
     /\ IF short /\ DeferGrowth THEN ScheduleGrow ELSE UNCHANGED growVars
     /\ UNCHANGED <<ringVars, slots, tracked, range, indexVars, dropped, writeSeq, policyVars>>

Ingest == \E pts \in Chunks :
  /\ "object" \in Kinds
  /\ size + dropped + Len(pts) <= MaxOffered
  /\ growQueue < MaxQueued
  /\ Begin("object", {}, pts, Idle.hint)

IngestFromBinary == \E pts \in Chunks, chans \in SUBSET Keys, given \in Hints :
  /\ "binary" \in Kinds
  /\ size + dropped + Len(pts) <= MaxOffered
  /\ growQueue < MaxQueued
  /\ KeysOf(pts) \subseteq chans
  /\ Begin("binary", chans, pts, Hint(pts, chans, given))

(* while (capacity < needed && capacity < maxPoints) _grow()               *)
BugOneShort == capacity + 1 < call.need /\ capacity < MaxPoints
MustGrow == capacity < call.need /\ capacity < MaxPoints
GrowForCall ==
  /\ call # Idle /\ MustGrow
  /\ Grow
  /\ UNCHANGED <<tracked, range, dropped, writeSeq, growVars, policyVars, call>>

Writing == call # Idle /\ ~MustGrow /\ call.pts # <<>>
NextPoint == call' = [call EXCEPT !.pts = Tail(@)]

Append1 ==
  /\ Writing /\ size < capacity
  /\ LET s == SlotAt(size)
         p == Head(call.pts)
     IN /\ slots' = [slots EXCEPT ![s] = Written(@, p, call.kind, call.chans)]
        /\ cellOf' = [cellOf EXCEPT ![s] = Cell(p.z)]
        /\ cellSlots' = Indexed(cellSlots, s, Cell(p.z))
        /\ range' = RangeAfterAdd(slots'[s].val)
  /\ size' = size + 1
  /\ writeSeq' = writeSeq + 1
  /\ NextPoint
  /\ UNCHANGED <<head, capacity, tracked, dropped, growVars, policyVars>>

Overwrite == \E w \in (IF lookahead THEN WorstSlot ELSE {head}) :
  /\ Writing /\ size = capacity /\ mode = "drop-oldest"
  /\ LET p == Head(call.pts)
         swapped == Swapped(w)
         moved == IF w = head THEN cellSlots
                  ELSE Indexed(Unindexed(cellSlots, w, cellOf[w]), w, Cell(swapped[w].z))
     IN /\ slots' = [swapped EXCEPT ![head] = Written(@, p, call.kind, call.chans)]
        /\ cellOf' = [[cellOf EXCEPT ![w] = Cell(swapped[w].z)] EXCEPT ![head] = Cell(p.z)]
        /\ cellSlots' = Indexed(Unindexed(moved, head, cellOf[head]), head, Cell(p.z))
        /\ range' = RangeAfterOverwrite(swapped[head].val, slots'[head].val)
  /\ head' = (head + 1) % capacity
  /\ dropped' = dropped + 1
  /\ writeSeq' = writeSeq + 1
  /\ NextPoint
  /\ UNCHANGED <<size, capacity, tracked, growVars, policyVars>>

Discard ==
  /\ Writing /\ size = capacity /\ mode = "drop-newest"
  /\ dropped' = dropped + 1
  /\ NextPoint
  /\ UNCHANGED <<ringVars, slots, tracked, range, indexVars, writeSeq, growVars, policyVars>>

Return ==
  /\ call # Idle /\ ~MustGrow /\ call.pts = <<>>
  /\ range' = Widen(range, call.hint.min, call.hint.max)
  /\ call' = Idle
  /\ UNCHANGED <<ringVars, slots, tracked, indexVars, dropped, writeSeq, growVars, policyVars>>

-----------------------------------------------------------------------------
(* Rendering, reset, policy                                                *)

(* The extrema of the kept colour values; `none` where nothing is kept.    *)
RangeOf(vals, none) ==
  IF vals = {} THEN none
  ELSE [min |-> CHOOSE v \in vals : \A w \in vals : v <= w,
        max |-> CHOOSE v \in vals : \A w \in vals : v >= w,
        dirty |-> FALSE]

(* _syncColorBy: the value every kept point is coloured with.              *)
ColorValue(s, colorBy) ==
  IF colorBy = Elevation THEN slots[s].z
  ELSE IF slots[s].item THEN Get(slots[s].src, colorBy)
  ELSE IF colorBy \in slots[s].present THEN slots[s].pv[colorBy] ELSE 0

(* copyToTypedArrays(colorBy): a changed attribute is synchronised first,  *)
(* a dirty range is rescanned (_resolveAttrRange).                         *)
Render == \E colorBy \in Colors :
  /\ call = Idle
  /\ tracked' = colorBy
  /\ slots' = IF colorBy \in {tracked, NoKey} THEN slots
              ELSE [s \in Slots |-> IF s \in Active
                                    THEN [slots[s] EXCEPT !.val = ColorValue(s, colorBy)]
                                    ELSE slots[s]]
  /\ LET vals == {slots'[s].val : s \in Active}
         unknown == [min |-> Inf, max |-> -Inf, dirty |-> TRUE]
     IN range' = CASE colorBy = tracked /\ (colorBy = NoKey \/ ~range.dirty) -> range
                   [] colorBy = NoKey /\ tracked # NoKey -> unknown
                   [] colorBy # NoKey /\ colorBy # tracked ->
                        RangeOf(vals, [unknown EXCEPT !.dirty = FALSE])
                   [] colorBy # NoKey /\ colorBy = tracked /\ range.dirty ->
                        RangeOf(vals, [min |-> 0, max |-> 1, dirty |-> FALSE])
  /\ UNCHANGED <<ringVars, indexVars, dropped, writeSeq, growVars, policyVars, call>>

BugDroppedKept == head' = 0 /\ size' = 0 /\ writeSeq' = 1 /\ UNCHANGED dropped
ClearRing == head' = 0 /\ size' = 0 /\ dropped' = 0 /\ writeSeq' = 1

BugFrameCancelled == growQueue' = 0 /\ UNCHANGED growthPending
ForgetGrowth == growthPending' = FALSE /\ UNCHANGED growQueue

(* reset(): positions and colour values stay in the arrays, the capacity   *)
(* stays grown, and a scheduled callback stays scheduled.                  *)
Reset ==
  /\ call = Idle
  /\ ClearRing
  /\ ForgetGrowth
  /\ tracked' = NoKey
  /\ range' = [min |-> Inf, max |-> -Inf, dirty |-> TRUE]
  /\ slots' = [s \in Slots |-> [EmptySlot EXCEPT !.z = slots[s].z, !.val = slots[s].val]]
  /\ cellOf' = [s \in Slots |-> 0]
  /\ cellSlots' = [c \in CellKeys |-> {}]
  /\ UNCHANGED <<capacity, policyVars, call>>

(* setImportanceField(f): "auto" resolved after the first ingest.          *)
SetImportanceField == \E f \in Keys :
  /\ call = Idle
  /\ field' = f
  /\ lookahead' = TRUE
  /\ UNCHANGED <<ringVars, slots, tracked, range, indexVars, dropped, writeSeq,
                 growVars, mode, now, call>>

Tick ==
  /\ now < MaxTime
  /\ now' = now + 1
  /\ UNCHANGED <<ringVars, slots, tracked, range, indexVars, dropped, writeSeq,
                 growVars, mode, field, lookahead, call>>

-----------------------------------------------------------------------------
(* The constructor *)
Init ==
  /\ head = 0 /\ size = 0
  /\ capacity = IF Dynamic THEN InitialCapacity ELSE MaxPoints
  /\ slots = [s \in Slots |-> EmptySlot]
  /\ tracked = NoKey
  /\ range = [min |-> Inf, max |-> -Inf, dirty |-> TRUE]
  /\ cellOf = [s \in Slots |-> 0]
  /\ cellSlots = [c \in CellKeys |-> {}]
  /\ dropped = 0 /\ writeSeq = 1
  /\ growthPending = FALSE /\ growQueue = 0
  /\ mode \in Modes /\ field = InitialField /\ lookahead = InitialLookahead
  /\ now = 0
  /\ call = Idle

CallStep == GrowForCall \/ Append1 \/ Overwrite \/ Discard \/ Return

Next ==
  \/ Ingest \/ IngestFromBinary \/ CallStep \/ DoGrow
  \/ Render \/ Reset \/ SetImportanceField \/ Tick

Spec == Init /\ [][Next]_vars

(* A call in progress keeps the thread until it returns, and the host runs *)
(* every scheduled callback once the thread is free.                       *)
FairSpec == Spec /\ WF_vars(CallStep) /\ WF_vars(DoGrow)
-----------------------------------------------------------------------------
(* Properties                                                              *)

SlotRec == [item : BOOLEAN, z : Heights, src : AttrSets, val : Vals, seq : Nat, imp : Int,
            ts : Nat, pv : [Keys -> Vals], present : SUBSET Keys, chan : [Keys -> Nat]]
RangeRec == [min : Int, max : Int, dirty : BOOLEAN]
CallRec == [kind : {"idle", "object", "binary"}, chans : SUBSET Keys, pts : Seq(Points),
            need : Nat, at : Nat, hint : [min : Int, max : Int]]

TypeOK ==
  /\ head \in Slots /\ size \in 0..MaxPoints /\ capacity \in 1..MaxPoints
  /\ slots \in [Slots -> SlotRec]
  /\ tracked \in ColorModes /\ range \in RangeRec
  /\ cellOf \in [Slots -> CellKeys \cup {0}] /\ cellSlots \in [CellKeys -> SUBSET Slots]
  /\ dropped \in Nat /\ writeSeq \in Nat \ {0}
  /\ growthPending \in BOOLEAN /\ growQueue \in Nat
  /\ mode \in Modes /\ field \in Keys \cup {NoKey} /\ lookahead \in BOOLEAN /\ now \in Nat
  /\ call \in CallRec

(* The ring stays within its arrays, and wraps only when it is full: a     *)
(* reader that walks size slots from head never leaves the allocation.     *)
RingShape == /\ size <= capacity /\ head < capacity
             /\ size < capacity => head = 0

(* droppedPoints accounts for every point that is not retained, over any   *)
(* mix of both ingest paths, growth and eviction since the last reset.     *)
DropAccounting == IF mode = "drop-oldest" THEN writeSeq = size + dropped + 1
                                          ELSE writeSeq = size + 1

(* Generations are unique among kept points and never ahead of the         *)
(* counter, whatever swaps and growths happened: the stamps that           *)
(* synthesizePackedAttributes compares identify one write.                 *)
GenerationsUnique ==
  /\ \A s \in Active : 0 < slots[s].seq /\ slots[s].seq < writeSeq
  /\ \A s, t \in Active : slots[s].seq = slots[t].seq => s = t

(* snapshot() returns each kept point with the attributes it was offered   *)
(* with, however often its slot was reused by other points and other       *)
(* channels, swapped by the lookahead or moved by a growth.                *)
SnapshotFaithful == \A s \in Active : SnapshotAttrs(s) = slots[s].src

(* getPointAtSlot() and pickNearest() return the attributes the point was  *)
(* offered with.                                                           *)
PickFaithful == \A s \in Active : PickAttrs(s) = slots[s].src

(* A range that is not marked dirty contains the colour value of every     *)
(* kept point, whatever hints of the worker widened it (rangeExpandAdd,    *)
(* rangeHints of ingestFromBinary).                                        *)
RangeSound == tracked # NoKey /\ ~range.dirty =>
  \A s \in Active : range.min <= slots[s].val /\ slots[s].val <= range.max

(* Where every point of a chunk is written, such a range is the very one   *)
(* of the kept points: evicting the last point at an end of it marks it    *)
(* dirty (rangeUpdateOnOverwrite), also when the lookahead has just moved  *)
(* that point to the head, and the hints add nothing.                      *)
RangeExact == mode = "drop-oldest" /\ tracked # NoKey /\ ~range.dirty /\ size > 0 =>
  LET vals == {slots[s].val : s \in Active}
  IN range.min \in vals /\ range.max \in vals /\ \A v \in vals : range.min <= v /\ v <= range.max

(* The cell index holds exactly the kept slots, each under the key of the  *)
(* position now in it.                                                     *)
IndexExact ==
  /\ \A s \in Active : cellOf[s] = Cell(slots[s].z)
  /\ \A c \in CellKeys : cellSlots[c] = {s \in Active : Cell(slots[s].z) = c}

(* A culled copy loses no kept point whose position is visible, whichever  *)
(* cells pass the centre test, and emits kept points only, each once.      *)
CullingComplete ==
  /\ \A cells \in SUBSET CellKeys, seen \in SUBSET Heights :
       /\ {s \in Active : slots[s].z \in seen} \subseteq CulledCopy(cells, seen)
       /\ CulledCopy(cells, seen) \subseteq Active
  /\ \A c, d \in CellKeys : c # d => cellSlots[c] \cap cellSlots[d] = {}

(* With synchronous growth nothing is dropped below the ceiling: a growing *)
(* buffer keeps what a preallocated one keeps.                             *)
NoEarlyDrop == dropped > 0 => size = MaxPoints

(* growthPending is never set without a callback that will clear it, even  *)
(* when a reset clears it first: growth cannot be locked out.              *)
PendingGrowthIsQueued == growthPending => growQueue > 0

(* Every ingest call returns.                                              *)
IngestReturns == call # Idle ~> call = Idle

(* What the buffer promises, whatever its layout: see Retention.           *)
Promise == INSTANCE Retention WITH
  kept <- {[seq |-> slots[s].seq, z |-> slots[s].z, attrs |-> SnapshotAttrs(s),
            imp |-> slots[s].imp, ts |-> slots[s].ts] : s \in Active},
  limit <- capacity,
  window <- IF lookahead THEN K ELSE 1,
  now <- Clock
KeepsPromise == Promise!Spec
=============================================================================
