-------------------------- MODULE PointRingProofs --------------------------
(***************************************************************************)
(* What holds of PointRing for every capacity, growth factor, lookahead,   *)
(* set of attributes and set of points, proved: its types, what snapshot() *)
(* returns, the generations it relies on, the cell index, the drop counter,*)
(* the cached range and the growth flag, and that it implements Retention. *)
(***************************************************************************)
EXTENDS PointRing, IndexSets

-----------------------------------------------------------------------------
(* Types of the pieces                                                     *)

LEMMA ConstantTypes ==
  /\ 0 \in Heights /\ Heights \subseteq Vals /\ 0 \in Vals
  /\ NoAttrs \in AttrSets
  /\ \A p \in Points : p.z \in Heights /\ p.attrs \in AttrSets
  /\ Vals \subseteq Int
  /\ MaxPoints \in Nat \ {0}
<1>1. 0 \in Heights /\ Heights \subseteq Vals
  <2>1. 0 \in Heights
    <3> DEFINE PointHeights == {p.z : p \in Points}
    <3>1. Heights = PointHeights \cup {0}
      BY DEF Heights
    <3> HIDE DEF PointHeights
    <3> QED BY <3>1
  <2>2. Heights \subseteq Vals
    BY DEF Vals
  <2> QED BY <2>1, <2>2
<1>2. NoAttrs \in AttrSets
  BY DEF AttrSets
<1>3. \A p \in Points : p.z \in Heights /\ p.attrs \in AttrSets
  BY DEF AttrSets, Heights
<1>4. Vals \subseteq Int
  BY InfIsLarge
<1> QED BY <1>1, <1>2, <1>3, <1>4, RingConstants

(* Get returns an attribute value or the default 0.                        *)
LEMMA GetType ==
  ASSUME NEW a \in AttrSets, NEW k
  PROVE  Get(a, k) \in Vals
<1>1. CASE k \in DOMAIN a
  <2>1. a[k] \in {a[j] : j \in DOMAIN a}
    BY <1>1
  <2>2. a[k] \in Vals
    BY <2>1 DEF Vals, AttrVals
  <2> QED BY <1>1, <2>2 DEF Get
<1>2. CASE k \notin DOMAIN a
  BY <1>2, ConstantTypes DEF Get
<1> QED BY <1>1, <1>2

(* The values a slot can be coloured with are bounded: a nonempty set of   *)
(* them has both extrema.                                                  *)
LEMMA ExtremaExist ==
  ASSUME NEW T \in SUBSET Vals, T # {}
  PROVE  /\ \E x \in T : \A y \in T : x <= y
         /\ \E x \in T : \A y \in T : x >= y
<1> DEFINE N == {-x : x \in T}
<1>1. T \subseteq (-Inf)..Inf /\ N \subseteq (-Inf)..Inf /\ Inf \in Int
  BY InfIsLarge
<1>2. IsFiniteSet(T) /\ IsFiniteSet(N)
  <2>1. IsFiniteSet((-Inf)..Inf)
    BY <1>1, FS_Interval
  <2> HIDE DEF N
  <2> QED BY <1>1, <2>1, FS_Subset
<1>3. T \in SUBSET Int /\ N \in SUBSET Int /\ N # {}
  <2>1. \A x \in T : x \in Int /\ -x \in Int
    BY ConstantTypes
  <2>2. N # {}
    OBVIOUS
  <2> QED BY <2>1, <2>2
<1>4. PICK m \in N : \A y \in N : m <= y
  <2> HIDE DEF N
  <2> QED BY <1>2, <1>3, LeastExists
<1>5. PICK x \in T : m = -x
  OBVIOUS
<1>6. ASSUME NEW y \in T PROVE x >= y
  <2>1. -y \in N /\ x \in Int /\ y \in Int
    BY <1>3
  <2>2. -x <= -y
    BY <1>4, <1>5, <2>1
  <2> QED BY <2>1, <2>2
<1> QED BY <1>2, <1>3, <1>6, LeastExists

(* The record of a slot never written is well typed.                       *)
LEMMA EmptySlotType == EmptySlot \in SlotRec
<1>1. [k \in Keys |-> 0] \in [Keys -> Vals] /\ [k \in Keys |-> 0] \in [Keys -> Nat]
  BY ConstantTypes
<1>2. 1 \in Int /\ 0 \in Nat /\ {} \in SUBSET Keys
  OBVIOUS
<1> QED BY <1>1, <1>2, ConstantTypes DEF EmptySlot, SlotRec

(* writeSlot and writeBinarySlot leave a well typed slot record.           *)
LEMMA WrittenType ==
  ASSUME TypeOK, NEW s \in SlotRec, NEW p \in Points, NEW kind, NEW chans \in SUBSET Keys
  PROVE  Written(s, p, kind, chans) \in SlotRec
<1>1. p.z \in Heights /\ p.attrs \in AttrSets
  BY ConstantTypes
<1>2. \A k : Get(p.attrs, k) \in Vals
  BY <1>1, GetType
<1>3. Importance(p.attrs, field) \in Int
  BY <1>1, PointConstants DEF TypeOK
<1>4. Clock \in Nat
  BY DEF Clock, TypeOK, CallRec
<1>5. writeSeq \in Nat
  BY DEF TypeOK
<1>6. (IF tracked = NoKey THEN s.val ELSE Get(p.attrs, tracked)) \in Vals
  BY <1>2 DEF SlotRec
<1>7. [k \in Keys |-> IF k \in chans THEN Get(p.attrs, k) ELSE s.pv[k]] \in [Keys -> Vals]
  BY <1>2 DEF SlotRec
<1>8. [k \in Keys |-> IF k \in chans THEN writeSeq ELSE s.chan[k]] \in [Keys -> Nat]
  BY <1>5 DEF SlotRec
<1>9. ((s.present \ chans) \cup (chans \cap DOMAIN p.attrs)) \in SUBSET Keys
  BY DEF SlotRec
<1> QED
  BY <1>1, <1>3, <1>4, <1>5, <1>6, <1>7, <1>8, <1>9 DEF Written, SlotRec

(* Widening a range by two integers leaves a range.                        *)
LEMMA WidenType ==
  ASSUME NEW r \in RangeRec, NEW lo \in Int, NEW hi \in Int
  PROVE  Widen(r, lo, hi) \in RangeRec
BY DEF Widen, RangeRec

(* rangeExpandAdd and rangeUpdateOnOverwrite leave a range.                *)
LEMMA RangeAfterTypes ==
  ASSUME TypeOK, NEW old \in Vals, NEW val \in Vals
  PROVE  RangeAfterAdd(val) \in RangeRec /\ RangeAfterOverwrite(old, val) \in RangeRec
<1>1. range \in RangeRec /\ old \in Int /\ val \in Int
  BY ConstantTypes DEF TypeOK, RangeRec
<1>2. [range EXCEPT !.dirty = @ \/ old = range.min \/ old = range.max] \in RangeRec
  BY <1>1 DEF RangeRec
<1> QED BY <1>1, <1>2, WidenType DEF RangeAfterAdd, RangeAfterOverwrite

(* A rescan of finitely many values yields a range.                        *)
LEMMA RangeOfType ==
  ASSUME NEW vals \in SUBSET Vals, NEW none \in RangeRec
  PROVE  RangeOf(vals, none) \in RangeRec
<1>1. CASE vals = {}
  BY <1>1 DEF RangeOf
<1>2. CASE vals # {}
  <2>1. (CHOOSE v \in vals : \A w \in vals : v <= w) \in Int
    BY <1>2, ExtremaExist, ConstantTypes
  <2>2. (CHOOSE v \in vals : \A w \in vals : v >= w) \in Int
    BY <1>2, ExtremaExist, ConstantTypes
  <2> QED BY <1>2, <2>1, <2>2 DEF RangeOf, RangeRec
<1> QED BY <1>1, <1>2

(* The worker's range hint is a pair of integers.                          *)
LEMMA HintType ==
  ASSUME TypeOK, NEW pts \in Seq(Points), NEW chans, NEW given
  PROVE  Hint(pts, chans, given) \in [min : Int, max : Int]
<1> DEFINE vs == {pts[i].attrs[tracked] : i \in {j \in DOMAIN pts : tracked \in DOMAIN pts[j].attrs}}
<1>1. vs \subseteq Vals
  <2>1. ASSUME NEW i \in DOMAIN pts, tracked \in DOMAIN pts[i].attrs
        PROVE  pts[i].attrs[tracked] \in Vals
    <3>1. pts[i].attrs \in AttrSets
      BY ConstantTypes
    <3> QED BY <2>1, <3>1, GetType DEF Get
  <2> QED BY <2>1
<1>2. Idle.hint \in [min : Int, max : Int]
  BY InfIsLarge DEF Idle
<1>3. CASE given /\ tracked \in chans /\ vs # {}
  <2> HIDE DEF vs
  <2>1. (CHOOSE v \in vs : \A w \in vs : v <= w) \in Int
    BY <1>1, <1>3, ExtremaExist, ConstantTypes
  <2>2. (CHOOSE v \in vs : \A w \in vs : v >= w) \in Int
    BY <1>1, <1>3, ExtremaExist, ConstantTypes
  <2> QED BY <1>3, <2>1, <2>2 DEF Hint, vs
<1>4. CASE ~(given /\ tracked \in chans /\ vs # {})
  BY <1>2, <1>4 DEF Hint
<1> QED BY <1>3, <1>4

(* _syncColorBy writes heights and attribute values only.                  *)
LEMMA ColorValueType ==
  ASSUME TypeOK, NEW s \in Slots, NEW colorBy
  PROVE  ColorValue(s, colorBy) \in Vals
<1>1. slots[s].z \in Vals /\ slots[s].src \in AttrSets /\ 0 \in Vals
      /\ \A k \in slots[s].present : slots[s].pv[k] \in Vals
  <2>1. slots[s] \in SlotRec
    BY DEF TypeOK
  <2>2. slots[s].z \in Heights /\ slots[s].src \in AttrSets
        /\ slots[s].present \in SUBSET Keys /\ slots[s].pv \in [Keys -> Vals]
    BY <2>1 DEF SlotRec
  <2> QED BY <2>2, ConstantTypes
<1>2. Get(slots[s].src, colorBy) \in Vals
  BY <1>1, GetType
<1> QED BY <1>1, <1>2 DEF ColorValue

-----------------------------------------------------------------------------
(* Shape of the ring                                                       *)

(* The kept slots are the first `size` of the arrays, and distinct offsets *)
(* from head are distinct slots.                                           *)
LEMMA SlotsOfRing ==
  ASSUME TypeOK, RingShape
  PROVE  /\ \A i \in Nat : SlotAt(i) \in 0..(capacity - 1) /\ SlotAt(i) \in Slots
         /\ \A i, j \in 0..(size - 1) : SlotAt(i) = SlotAt(j) => i = j
         /\ Active = 0..(size - 1) /\ Active \subseteq Slots
<1> USE DEF Slots
<1>1. /\ capacity \in Nat \ {0} /\ size \in 0..capacity /\ head \in 0..(capacity - 1)
      /\ capacity <= MaxPoints /\ MaxPoints \in Nat
      /\ size < capacity => head = 0
  <2>1. head \in 0..(MaxPoints - 1) /\ size \in 0..MaxPoints /\ capacity \in 1..MaxPoints
    BY DEF TypeOK
  <2> QED BY <2>1, ConstantTypes DEF RingShape
<1>2. ASSUME NEW i \in Nat PROVE SlotAt(i) \in 0..(capacity - 1) /\ SlotAt(i) \in Slots
  <2>1. head + i \in Nat
    BY <1>1
  <2>2. SlotAt(i) \in 0..(capacity - 1)
    BY <1>1, <2>1, ModRange DEF SlotAt
  <2> QED BY <1>1, <2>2
<1>3. ASSUME NEW i \in 0..(capacity - 1)
      PROVE  SlotAt(i) = IF head + i < capacity THEN head + i ELSE head + i - capacity
  <2>1. CASE head + i < capacity
    <3>1. head + i \in 0..(capacity - 1)
      BY <1>1, <2>1
    <3> QED BY <1>1, <2>1, <3>1, ModBelow DEF SlotAt
  <2>2. CASE ~(head + i < capacity)
    <3>1. head + i - capacity \in 0..(capacity - 1) /\ capacity + (head + i - capacity) = head + i
      BY <1>1, <2>2
    <3>2. (capacity + (head + i - capacity)) % capacity = head + i - capacity
      BY <1>1, <3>1, ModBelow
    <3> QED BY <2>2, <3>1, <3>2 DEF SlotAt
  <2> QED BY <2>1, <2>2
<1>4. \A i, j \in 0..(size - 1) : SlotAt(i) = SlotAt(j) => i = j
  <2> TAKE i, j \in 0..(size - 1)
  <2>1. i \in 0..(capacity - 1) /\ j \in 0..(capacity - 1)
    BY <1>1
  <2> QED BY <1>1, <1>3, <2>1
<1>5. Active = 0..(size - 1)
  <2>1. ASSUME NEW i \in 0..(size - 1) PROVE SlotAt(i) \in 0..(size - 1)
    <3>1. i \in 0..(capacity - 1)
      BY <1>1
    <3> QED BY <1>1, <1>3, <3>1
  <2>2. ASSUME NEW s \in 0..(size - 1) PROVE \E i \in 0..(size - 1) : SlotAt(i) = s
    <3>1. CASE head <= s
      <4>1. s - head \in 0..(size - 1) /\ s - head \in 0..(capacity - 1) /\ head + (s - head) = s
        BY <1>1, <3>1
      <4>2. SlotAt(s - head) = s
        BY <1>1, <1>3, <4>1
      <4> QED BY <4>1, <4>2
    <3>2. CASE ~(head <= s)
      <4>1. /\ s - head + capacity \in 0..(size - 1) /\ s - head + capacity \in 0..(capacity - 1)
            /\ head + (s - head + capacity) = s + capacity
        BY <1>1, <3>2
      <4>2. SlotAt(s - head + capacity) = s
        BY <1>1, <1>3, <4>1
      <4> QED BY <4>1, <4>2
    <3> QED BY <3>1, <3>2
  <2> QED BY <2>1, <2>2 DEF Active
<1>6. Active \subseteq Slots
  BY <1>1, <1>5
<1> QED BY <1>2, <1>4, <1>5, <1>6

-----------------------------------------------------------------------------
(* Type correctness                                                        *)

Base == TypeOK /\ RingShape

(* _grow keeps types and the shape of the ring.                            *)
LEMMA GrowPreservesBase ==
  ASSUME Base, Grow, UNCHANGED <<tracked, range, dropped, writeSeq, policyVars>>,
         growthPending' \in BOOLEAN, growQueue' \in Nat, call' \in CallRec
  PROVE  Base'
<1>1. CASE NewCapacity <= capacity
  BY <1>1 DEF Base, Grow, TypeOK, RingShape, ringVars, indexVars, policyVars
<1>2. CASE ~(NewCapacity <= capacity)
  <2>1. NewCapacity \in capacity..MaxPoints
    <3>1. (capacity * GrowNum) \div GrowDen \in Int
      BY RingConstants DEF Base, TypeOK
    <3> QED BY <1>2, <3>1, RingConstants DEF NewCapacity, Least, Base, TypeOK
  <2>2. Unrolled \in [Slots -> SlotRec]
    <3>1. \A i \in Slots : i < size => SlotAt(i) \in Slots
      BY SlotsOfRing DEF Base, Slots
    <3> QED BY <3>1, EmptySlotType DEF TypeOK, Unrolled, Base
  <2>3. 0 \in Slots /\ size < NewCapacity
    BY <1>2, <2>1, ConstantTypes DEF TypeOK, Base, RingShape, Slots
  <2>4. \A i \in Slots : Cell(Unrolled[i].z) \in CellKeys
    BY <2>2, PointConstants DEF SlotRec
  <2>5. 0..(size - 1) \subseteq Slots
    BY ConstantTypes DEF TypeOK, Base, Slots
  <2>6. slots' \in [Slots -> SlotRec] /\ cellOf' \in [Slots -> CellKeys \cup {0}]
        /\ cellSlots' \in [CellKeys -> SUBSET Slots]
    BY <1>2, <2>2, <2>4, <2>5 DEF Grow
  <2>7. head' = 0 /\ capacity' = NewCapacity /\ size' = size
    BY <1>2 DEF Grow
  <2>8. head' \in Slots /\ size' \in 0..MaxPoints /\ capacity' \in 1..MaxPoints /\ RingShape'
    BY <2>1, <2>3, <2>7 DEF TypeOK, Base, RingShape
  <2> QED BY <2>6, <2>8 DEF Base, TypeOK, policyVars
<1> QED BY <1>1, <1>2

(* An ingest step that writes one slot keeps the types.                    *)
LEMMA WritePreservesBase ==
  ASSUME Base, Writing, NextPoint, NEW w \in Slots, NEW s \in Slots,
         slots' = [Swapped(w) EXCEPT ![s] = Written(@, Head(call.pts), call.kind, call.chans)],
         cellOf' \in [Slots -> CellKeys \cup {0}], cellSlots' \in [CellKeys -> SUBSET Slots],
         size' \in 0..MaxPoints, head' \in Slots, dropped' \in Nat, range' \in RangeRec,
         writeSeq' = writeSeq + 1, UNCHANGED <<capacity, tracked, growVars, policyVars>>
  PROVE  TypeOK'
<1>1. call \in CallRec /\ Head(call.pts) \in Points /\ Tail(call.pts) \in Seq(Points)
  BY DEF TypeOK, Base, Writing, CallRec
<1>2. Swapped(w) \in [Slots -> SlotRec]
  BY DEF TypeOK, Base, Swapped
<1>3. call.chans \in SUBSET Keys
  BY <1>1 DEF CallRec
<1>4. Written(Swapped(w)[s], Head(call.pts), call.kind, call.chans) \in SlotRec
  BY <1>1, <1>2, <1>3, WrittenType DEF Base
<1>5. slots' \in [Slots -> SlotRec]
  BY <1>2, <1>4
<1>6. call' \in CallRec
  BY <1>1 DEF NextPoint, CallRec
<1>7. capacity' \in 1..MaxPoints /\ tracked' \in ColorModes /\ writeSeq' \in Nat \ {0}
      /\ growthPending' \in BOOLEAN /\ growQueue' \in Nat
      /\ mode' \in Modes /\ field' \in Keys \cup {NoKey} /\ lookahead' \in BOOLEAN /\ now' \in Nat
  BY DEF Base, TypeOK, growVars, policyVars
<1> QED BY <1>5, <1>6, <1>7 DEF TypeOK

(* Adding to and removing from a cell keep the index well typed.           *)
LEMMA IndexTypes ==
  ASSUME NEW cs \in [CellKeys -> SUBSET Slots], NEW s \in Slots, NEW key
  PROVE  /\ Indexed(cs, s, key) \in [CellKeys -> SUBSET Slots]
         /\ Unindexed(cs, s, key) \in [CellKeys -> SUBSET Slots]
BY DEF Indexed, Unindexed

(* The loop of an ingest call takes the next point and leaves a call.      *)
LEMMA HeadPoint ==
  ASSUME Base, Writing
  PROVE  /\ Head(call.pts) \in Points /\ Tail(call.pts) \in Seq(Points)
         /\ Head(call.pts).attrs \in AttrSets /\ Cell(Head(call.pts).z) \in CellKeys
<1>1. Head(call.pts) \in Points /\ Tail(call.pts) \in Seq(Points)
  BY DEF TypeOK, Base, Writing, CallRec
<1> QED BY <1>1, ConstantTypes, PointConstants

(* Appending a point keeps types and the shape of the ring.                *)
LEMMA Append1Base ==
  ASSUME Base, Append1
  PROVE  Base'
<1> DEFINE s == SlotAt(size)
           p == Head(call.pts)
<1>1. s \in Slots /\ head \in Slots /\ size \in Nat
  BY SlotsOfRing DEF TypeOK, Base
<1>2. Swapped(head) = slots
  BY DEF TypeOK, Swapped, Base
<1>3. slots' = [Swapped(head) EXCEPT ![s] = Written(@, p, call.kind, call.chans)]
  BY <1>2 DEF Append1
<1>4. cellOf' \in [Slots -> CellKeys \cup {0}] /\ cellSlots' \in [CellKeys -> SUBSET Slots]
  BY <1>1, HeadPoint, IndexTypes DEF Append1, Base, TypeOK
<1>5. size < capacity /\ size' = size + 1 /\ head' = head /\ capacity' = capacity
      /\ dropped' = dropped
  BY DEF Append1
<1>6. size' \in 0..MaxPoints /\ RingShape'
  BY <1>5, ConstantTypes DEF TypeOK, Base, RingShape, Slots
<1>7. slots'[s].val \in Vals
  <2>1. slots'[s] \in SlotRec
    <3>1. slots[s] \in SlotRec /\ call.chans \in SUBSET Keys
      BY <1>1 DEF TypeOK, Base, CallRec
    <3>2. Written(slots[s], p, call.kind, call.chans) \in SlotRec
      BY <3>1, HeadPoint, WrittenType DEF Append1, Base
    <3> QED BY <1>1, <3>2 DEF TypeOK, Append1, Base
  <2> QED BY <2>1 DEF SlotRec
<1>8. range' \in RangeRec
  BY <1>7, RangeAfterTypes DEF Append1, Base
<1>9. dropped' \in Nat
  BY <1>5 DEF Base, TypeOK
<1>10. Writing /\ NextPoint /\ writeSeq' = writeSeq + 1
       /\ UNCHANGED <<capacity, tracked, growVars, policyVars>>
  BY DEF Append1
<1>11. TypeOK'
  BY <1>1, <1>3, <1>4, <1>5, <1>6, <1>8, <1>9, <1>10, WritePreservesBase
<1> QED BY <1>6, <1>11 DEF Base

(* _kLookaheadSwapToHead picks a slot inside the capacity.                 *)
LEMMA WorstSlotType ==
  ASSUME Base, NEW w \in (IF lookahead THEN WorstSlot ELSE {head})
  PROVE  w \in Slots
<1>1. \A o \in Window : o \in Nat
  BY DEF TypeOK, Window, Base
<1>2. \A v \in WorstSlot : v \in Slots
  <2>1. \A v \in WorstSlot : \E o \in Window : v = SlotAt(o)
    BY DEF WorstSlot
  <2> QED BY <1>1, <2>1, SlotsOfRing DEF Base
<1>3. head \in Slots
  BY DEF TypeOK, Base
<1> QED BY <1>2, <1>3

(* What one Overwrite does, its LETs named.                                *)
OverwriteAt(w) ==
  LET p == Head(call.pts)
      moved == IF w = head THEN cellSlots
               ELSE Indexed(Unindexed(cellSlots, w, cellOf[w]), w, Cell(Swapped(w)[w].z))
  IN /\ Writing /\ size = capacity /\ mode = "drop-oldest"
     /\ slots' = [Swapped(w) EXCEPT ![head] = Written(@, p, call.kind, call.chans)]
     /\ cellOf' = [[cellOf EXCEPT ![w] = Cell(Swapped(w)[w].z)] EXCEPT ![head] = Cell(p.z)]
     /\ cellSlots' = Indexed(Unindexed(moved, head, cellOf[head]), head, Cell(p.z))
     /\ range' = RangeAfterOverwrite(Swapped(w)[head].val, slots'[head].val)
     /\ head' = (head + 1) % capacity
     /\ dropped' = dropped + 1
     /\ writeSeq' = writeSeq + 1
     /\ NextPoint
     /\ UNCHANGED <<size, capacity, tracked, growVars, policyVars>>

(* Overwriting happens at some victim slot inside the arrays.              *)
LEMMA OverwriteUnfolded ==
  ASSUME Base, Overwrite
  PROVE  \E w \in Slots : OverwriteAt(w)
BY WorstSlotType DEF Overwrite, OverwriteAt

(* Overwriting the victim keeps types and the shape of the ring.           *)
LEMMA OverwriteBase ==
  ASSUME Base, NEW w \in Slots, OverwriteAt(w)
  PROVE  Base'
<1> DEFINE p == Head(call.pts)
<1>1. head \in Slots /\ Swapped(w) \in [Slots -> SlotRec] /\ Writing
  BY DEF TypeOK, Base, Swapped, OverwriteAt
<1>2. Cell(p.z) \in CellKeys /\ Cell(Swapped(w)[w].z) \in CellKeys
  BY <1>1, HeadPoint, PointConstants DEF SlotRec
<1>3. cellOf' \in [Slots -> CellKeys \cup {0}]
  BY <1>1, <1>2 DEF OverwriteAt, Base, TypeOK
<1>4. cellSlots' \in [CellKeys -> SUBSET Slots]
  <2>1. cellSlots \in [CellKeys -> SUBSET Slots]
    BY DEF Base, TypeOK
  <2> QED BY <1>1, <2>1, IndexTypes DEF OverwriteAt
<1>5. slots'[head].val \in Vals /\ Swapped(w)[head].val \in Vals
  <2>1. call.chans \in SUBSET Keys
    BY DEF TypeOK, Base, CallRec
  <2>2. Written(Swapped(w)[head], p, call.kind, call.chans) \in SlotRec
    BY <1>1, <2>1, HeadPoint, WrittenType DEF Base
  <2>3. slots'[head] \in SlotRec /\ Swapped(w)[head] \in SlotRec
    BY <1>1, <2>2 DEF OverwriteAt
  <2> QED BY <2>3 DEF SlotRec
<1>6. range' \in RangeRec
  BY <1>5, RangeAfterTypes DEF OverwriteAt, Base
<1>7. head' \in 0..(capacity - 1) /\ size' = size /\ capacity' = capacity /\ size = capacity
  <2>1. capacity \in Nat \ {0} /\ head + 1 \in Nat
    BY ConstantTypes DEF TypeOK, Base, Slots
  <2> QED BY <2>1, ModRange DEF OverwriteAt
<1>8. head' \in Slots /\ size' \in 0..MaxPoints /\ RingShape'
  BY <1>7, ConstantTypes DEF TypeOK, Base, RingShape, Slots
<1>9. dropped' \in Nat
  <2>1. dropped \in Nat
    BY DEF Base, TypeOK
  <2> QED BY <2>1 DEF OverwriteAt
<1>10. NextPoint /\ writeSeq' = writeSeq + 1
       /\ slots' = [Swapped(w) EXCEPT ![head] = Written(@, p, call.kind, call.chans)]
       /\ UNCHANGED <<capacity, tracked, growVars, policyVars>>
  BY DEF OverwriteAt
<1>11. TypeOK'
  BY <1>1, <1>3, <1>4, <1>6, <1>8, <1>9, <1>10, WritePreservesBase
<1> QED BY <1>8, <1>11 DEF Base

(* A chunk is a sequence of points.                                        *)
LEMMA ChunkType ==
  ASSUME NEW pts \in Chunks
  PROVE  pts \in Seq(Points) /\ Len(pts) \in Nat
BY BoundConstants DEF Chunks

(* The prologue of both ingest calls keeps types and shape.                *)
LEMMA BeginBase ==
  ASSUME Base, NEW kind \in {"object", "binary"}, NEW chans \in SUBSET Keys,
         NEW pts \in Seq(Points), NEW hint \in [min : Int, max : Int],
         Begin(kind, chans, pts, hint)
  PROVE  Base'
<1>1. call' \in CallRec
  <2> DEFINE need == IF (CanGrow /\ size + Len(pts) > capacity) /\ ~DeferGrowth
                     THEN size + Len(pts) ELSE 0
  <2>1. need \in Nat /\ now \in Nat
    BY DEF TypeOK, Base
  <2>2. call' = [kind |-> kind, chans |-> chans, pts |-> pts, hint |-> hint, at |-> now,
                 need |-> need]
    BY DEF Begin
  <2> HIDE DEF need
  <2> QED BY <2>1, <2>2 DEF CallRec
<1>2. growthPending' \in BOOLEAN /\ growQueue' \in Nat
  <2>1. growthPending \in BOOLEAN /\ growQueue \in Nat
    BY DEF Base, TypeOK
  <2>2. ScheduleGrow \/ UNCHANGED growVars
    BY DEF Begin
  <2>3. growthPending' \in BOOLEAN
    BY <2>1, <2>2, Zenon DEF ScheduleGrow, growVars
  <2>4. growQueue' \in Nat
    BY <2>1, <2>2, SMT DEF ScheduleGrow, growVars
  <2> QED BY <2>3, <2>4
<1>3. UNCHANGED <<ringVars, slots, tracked, range, indexVars, dropped, writeSeq, policyVars>>
  BY DEF Begin
<1> QED BY <1>1, <1>2, <1>3 DEF Base, TypeOK, RingShape, ringVars, indexVars, policyVars

(* _syncColorBy keeps the array of slots well typed.                       *)
LEMMA RenderSlots ==
  ASSUME Base, NEW colorBy \in Colors,
         slots' = IF colorBy \in {tracked, NoKey} THEN slots
                  ELSE [s \in Slots |-> IF s \in Active
                                        THEN [slots[s] EXCEPT !.val = ColorValue(s, colorBy)]
                                        ELSE slots[s]]
  PROVE  slots' \in [Slots -> SlotRec]
<1>1. ASSUME NEW s \in Slots
      PROVE  slots[s] \in SlotRec /\ [slots[s] EXCEPT !.val = ColorValue(s, colorBy)] \in SlotRec
  <2>1. slots[s] \in SlotRec /\ ColorValue(s, colorBy) \in Vals
    BY ColorValueType DEF TypeOK, Base
  <2> QED BY <2>1 DEF SlotRec
<1>2. slots \in [Slots -> SlotRec]
  BY DEF TypeOK, Base
<1> QED BY <1>1, <1>2

(* copyToTypedArrays keeps types and the shape of the ring.                *)
LEMMA RenderBase ==
  ASSUME Base, Render
  PROVE  Base'
<1>1. PICK colorBy \in Colors : Render!(colorBy)
  BY DEF Render
<1>2. slots' \in [Slots -> SlotRec]
  BY <1>1, RenderSlots
<1> DEFINE vals == {slots'[s].val : s \in Active}
           unknown == [min |-> Inf, max |-> -Inf, dirty |-> TRUE]
<1>3. vals \in SUBSET Vals
  <2>1. \A s \in Active : s \in Slots
    BY SlotsOfRing DEF Base
  <2> QED BY <1>2, <2>1 DEF SlotRec
<1>4. /\ unknown \in RangeRec /\ [unknown EXCEPT !.dirty = FALSE] \in RangeRec
      /\ [min |-> 0, max |-> 1, dirty |-> FALSE] \in RangeRec /\ range \in RangeRec
  <2>1. range \in RangeRec
    BY DEF TypeOK, Base
  <2>2. Inf \in Int /\ -Inf \in Int
    BY InfIsLarge
  <2>3. unknown \in RangeRec /\ [min |-> 0, max |-> 1, dirty |-> FALSE] \in RangeRec
    BY <2>2 DEF RangeRec
  <2>4. [unknown EXCEPT !.dirty = FALSE] \in RangeRec
    <3> HIDE DEF unknown
    <3> QED BY <2>3 DEF RangeRec
  <2> QED BY <2>1, <2>3, <2>4
<1>5. /\ RangeOf(vals, [unknown EXCEPT !.dirty = FALSE]) \in RangeRec
      /\ RangeOf(vals, [min |-> 0, max |-> 1, dirty |-> FALSE]) \in RangeRec
  BY <1>3, <1>4, RangeOfType
<1>6. range' \in RangeRec
  <2> HIDE DEF vals, unknown
  <2> QED BY <1>1, <1>4, <1>5 DEF vals, unknown
<1>7. tracked' \in ColorModes
  BY <1>1, BoundConstants
<1>8. UNCHANGED <<ringVars, indexVars, dropped, writeSeq, growVars, policyVars, call>>
  BY <1>1
<1> QED BY <1>2, <1>6, <1>7, <1>8
     DEF Base, TypeOK, RingShape, ringVars, indexVars, growVars, policyVars

(* reset() keeps types and the shape of the ring.                          *)
LEMMA ResetBase ==
  ASSUME Base, Reset
  PROVE  Base'
<1>1. slots' \in [Slots -> SlotRec]
  <2>1. \A s \in Slots : slots[s] \in SlotRec
    BY DEF TypeOK, Base
  <2>2. \A s \in Slots : [EmptySlot EXCEPT !.z = slots[s].z, !.val = slots[s].val] \in SlotRec
    BY <2>1, EmptySlotType DEF SlotRec
  <2> QED BY <2>2 DEF Reset
<1>2. /\ head' = 0 /\ size' = 0 /\ dropped' = 0 /\ writeSeq' = 1 /\ growthPending' = FALSE
      /\ tracked' = NoKey /\ range' = [min |-> Inf, max |-> -Inf, dirty |-> TRUE]
      /\ cellOf' = [s \in Slots |-> 0] /\ cellSlots' = [c \in CellKeys |-> {}]
      /\ UNCHANGED <<growQueue, capacity, policyVars, call>>
  BY DEF Reset, ClearRing, ForgetGrowth
<1>3. head' \in Slots /\ size' \in 0..MaxPoints /\ capacity' \in 1..MaxPoints /\ RingShape'
  BY <1>2, ConstantTypes DEF TypeOK, Base, RingShape, Slots
<1>4. range' \in RangeRec /\ tracked' \in ColorModes
  BY <1>2, InfIsLarge DEF RangeRec, ColorModes
<1>5. cellOf' \in [Slots -> CellKeys \cup {0}] /\ cellSlots' \in [CellKeys -> SUBSET Slots]
  BY <1>2
<1>6. dropped' \in Nat /\ writeSeq' \in Nat \ {0} /\ growthPending' \in BOOLEAN
  <2>1. dropped' = 0 /\ writeSeq' = 1 /\ growthPending' = FALSE
    BY <1>2
  <2>2. growthPending' \in BOOLEAN
    BY <2>1, Zenon
  <2> QED BY <2>1, <2>2
<1>7. growQueue' \in Nat /\ mode' \in Modes /\ field' \in Keys \cup {NoKey} /\ lookahead' \in BOOLEAN
      /\ now' \in Nat /\ call' \in CallRec
  BY <1>2 DEF Base, TypeOK, policyVars
<1> QED BY <1>1, <1>3, <1>4, <1>5, <1>6, <1>7 DEF Base, TypeOK

(* The absence of a call is a well typed call.                             *)
LEMMA IdleType == Idle \in CallRec /\ Idle.hint \in [min : Int, max : Int]
<1>1. [min |-> Inf, max |-> -Inf] \in [min : Int, max : Int] /\ <<>> \in Seq(Points)
  BY InfIsLarge
<1>2. ASSUME NEW h \in [min : Int, max : Int], NEW none \in Seq(Points)
      PROVE  [kind |-> "idle", chans |-> {}, pts |-> none, need |-> 0, at |-> 0, hint |-> h]
               \in CallRec
  BY DEF CallRec
<1> QED BY <1>1, <1>2 DEF Idle

(* The constructor establishes types and the shape of the ring.            *)
LEMMA InitBase == Init => Base
<1> SUFFICES ASSUME Init PROVE Base
  OBVIOUS
<1>1. head \in Slots /\ size \in 0..MaxPoints /\ capacity \in 1..MaxPoints /\ RingShape
  BY RingConstants DEF Init, RingShape, Slots
<1>2. slots \in [Slots -> SlotRec] /\ tracked \in ColorModes
  BY EmptySlotType DEF Init, ColorModes
<1>3. range \in RangeRec
  BY InfIsLarge DEF Init, RangeRec
<1>4. call \in CallRec
  BY IdleType DEF Init
<1>5. cellOf \in [Slots -> CellKeys \cup {0}] /\ cellSlots \in [CellKeys -> SUBSET Slots]
  BY DEF Init
<1>6. dropped \in Nat /\ writeSeq \in Nat \ {0} /\ growQueue \in Nat /\ now \in Nat
  BY DEF Init
<1>7. growthPending \in BOOLEAN /\ mode \in Modes /\ field \in Keys \cup {NoKey} /\ lookahead \in BOOLEAN
  BY PointConstants, RingConstants, Zenon DEF Init
<1> QED BY <1>1, <1>2, <1>3, <1>4, <1>5, <1>6, <1>7 DEF Base, TypeOK

(* Every step keeps types and the shape of the ring.                       *)
LEMMA NextBase ==
  ASSUME Base, [Next]_vars
  PROVE  Base'
<1>1. CASE Ingest
  <2>1. PICK pts \in Chunks : Begin("object", {}, pts, Idle.hint)
    BY <1>1 DEF Ingest
  <2>2. Idle.hint \in [min : Int, max : Int]
    BY InfIsLarge DEF Idle
  <2> QED BY <2>1, <2>2, BeginBase, ChunkType
<1>2. CASE IngestFromBinary
  <2>1. PICK pts \in Chunks, chans \in SUBSET Keys, given \in Hints :
               Begin("binary", chans, pts, Hint(pts, chans, given))
    BY <1>2 DEF IngestFromBinary
  <2>2. Hint(pts, chans, given) \in [min : Int, max : Int]
    BY HintType, ChunkType DEF Base
  <2> QED BY <2>1, <2>2, BeginBase, ChunkType
<1>3. CASE GrowForCall
  <2>1. /\ Grow
        /\ UNCHANGED <<tracked, range, dropped, writeSeq, growVars, policyVars, call>>
    BY <1>3 DEF GrowForCall
  <2>2. growthPending' \in BOOLEAN /\ growQueue' \in Nat /\ call' \in CallRec
    BY <2>1 DEF Base, TypeOK, growVars
  <2> QED BY <2>1, <2>2, GrowPreservesBase
<1>4. CASE Append1
  BY <1>4, Append1Base
<1>5. CASE Overwrite
  BY <1>5, OverwriteUnfolded, OverwriteBase
<1>6. CASE Discard
  <2>1. call' \in CallRec
    <3>1. Tail(call.pts) \in Seq(Points) /\ call \in CallRec
      BY <1>6, HeadPoint DEF Discard, Base, TypeOK
    <3> QED BY <1>6, <3>1 DEF Discard, NextPoint, CallRec
  <2>2. dropped' \in Nat
    <3>1. dropped \in Nat /\ dropped' = dropped + 1
      BY <1>6 DEF Discard, Base, TypeOK
    <3> QED BY <3>1
  <2>3. UNCHANGED <<ringVars, slots, tracked, range, indexVars, writeSeq, growVars, policyVars>>
    BY <1>6 DEF Discard
  <2> QED BY <2>1, <2>2, <2>3
       DEF Base, TypeOK, RingShape, ringVars, indexVars, growVars, policyVars
<1>7. CASE Return
  <2>1. call' \in CallRec
    BY <1>7, IdleType DEF Return
  <2>2. range' \in RangeRec
    <3>1. range \in RangeRec /\ call.hint.min \in Int /\ call.hint.max \in Int
      BY DEF Base, TypeOK, CallRec
    <3> QED BY <1>7, <3>1, WidenType DEF Return
  <2>3. UNCHANGED <<ringVars, slots, tracked, indexVars, dropped, writeSeq, growVars, policyVars>>
    BY <1>7 DEF Return
  <2> QED BY <2>1, <2>2, <2>3
       DEF Base, TypeOK, RingShape, ringVars, indexVars, growVars, policyVars
<1>8. CASE DoGrow
  <2>1. growthPending' \in BOOLEAN /\ growQueue' \in Nat /\ call' \in CallRec
    <3>1. growQueue \in Nat /\ growQueue > 0 /\ growQueue' = growQueue - 1
      BY <1>8 DEF DoGrow, Base, TypeOK
    <3>2. growthPending' = FALSE /\ call' = call
      BY <1>8 DEF DoGrow
    <3>3. growthPending' \in BOOLEAN
      BY <3>2, Zenon
    <3>4. growQueue' \in Nat
      BY <3>1
    <3>5. call' \in CallRec
      BY <3>2 DEF Base, TypeOK
    <3> QED BY <3>3, <3>4, <3>5
  <2>2. UNCHANGED <<tracked, range, dropped, writeSeq, policyVars>>
    BY <1>8 DEF DoGrow
  <2>3. CASE Grow
    BY <2>1, <2>2, <2>3, GrowPreservesBase
  <2>4. CASE UNCHANGED <<ringVars, slots, indexVars>>
    BY <2>1, <2>2, <2>4 DEF Base, TypeOK, RingShape, ringVars, indexVars, policyVars
  <2> QED BY <1>8, <2>3, <2>4 DEF DoGrow
<1>9. CASE Render
  BY <1>9, RenderBase
<1>10. CASE Reset
  BY <1>10, ResetBase
<1>11. CASE SetImportanceField
  <2>1. field' \in Keys \cup {NoKey} /\ lookahead' \in BOOLEAN
    BY <1>11 DEF SetImportanceField
  <2>2. UNCHANGED <<ringVars, slots, tracked, range, indexVars, dropped, writeSeq,
                    growVars, mode, now, call>>
    BY <1>11 DEF SetImportanceField
  <2> QED BY <2>1, <2>2 DEF Base, TypeOK, RingShape, ringVars, indexVars, growVars
<1>12. CASE Tick
  <2>1. now' \in Nat
    BY <1>12 DEF Tick, Base, TypeOK
  <2>2. UNCHANGED <<ringVars, slots, tracked, range, indexVars, dropped, writeSeq,
                    growVars, mode, field, lookahead, call>>
    BY <1>12 DEF Tick
  <2> QED BY <2>1, <2>2 DEF Base, TypeOK, RingShape, ringVars, indexVars, growVars
<1>13. CASE UNCHANGED vars
  BY <1>13 DEF vars, Base, TypeOK, RingShape, ringVars, indexVars, growVars, policyVars
<1> QED
  BY <1>1, <1>2, <1>3, <1>4, <1>5, <1>6, <1>7, <1>8, <1>9, <1>10, <1>11, <1>12, <1>13
  DEF Next, CallStep

(* Every reachable state is well typed: the ring's indices stay within the *)
(* arrays, every slot holds a point that was offered, or nothing, and the  *)
(* cell index names slots that exist.                                      *)
THEOREM TypeCorrect == Spec => []TypeOK
<1>1. Base /\ [Next]_vars => Base'
  BY NextBase
<1>2. Base => TypeOK
  BY DEF Base
<1> QED BY InitBase, <1>1, <1>2, PTL DEF Spec

-----------------------------------------------------------------------------
(* The five ways a step can touch the slots                                *)

(* An ingested point is written to slot s, once the record there has been  *)
(* exchanged with the one of slot w.                                       *)
WriteEffect(w, s) ==
  /\ Writing /\ NextPoint
  /\ slots' = [Swapped(w) EXCEPT ![s] = Written(@, Head(call.pts), call.kind, call.chans)]
  /\ writeSeq' = writeSeq + 1
  /\ Active' = Active \cup {s}
  /\ \/ s \notin Active /\ w = head
     \/ s = head /\ s \in Active /\ w \in Active
  /\ UNCHANGED <<tracked, growVars>>

GrowEffect ==
  /\ slots' = Unrolled /\ Active' = Active
  /\ UNCHANGED <<tracked, range, dropped, writeSeq>>

RenderEffect ==
  /\ slots' \in [Slots -> SlotRec]
  /\ \A s \in Slots : \E v \in Vals : slots'[s] = [slots[s] EXCEPT !.val = v]
  /\ UNCHANGED <<Active, writeSeq, dropped, indexVars, growVars, call>>

IsBlank(r) == /\ ~r.item /\ r.src = NoAttrs /\ r.seq = 0 /\ r.present = {}
              /\ r.chan = [k \in Keys |-> 0]

ResetEffect ==
  /\ \A s \in Slots : IsBlank(slots'[s])
  /\ Active' = {} /\ writeSeq' = 1

NoEffect == UNCHANGED <<slots, Active, writeSeq>>

(* The kept slots are the first ones, each under one offset of the ring.   *)
LEMMA ActiveOf ==
  ASSUME Base
  PROVE  /\ Active = 0..(size - 1) /\ Active \subseteq Slots
         /\ size \in Nat /\ capacity \in Nat
         /\ \A i \in Nat : SlotAt(i) \in Slots
         /\ \A i \in 0..(size - 1) : SlotAt(i) \in Active
         /\ \A i, j \in 0..(size - 1) : SlotAt(i) = SlotAt(j) => i = j
<1>1. size \in Nat /\ capacity \in Nat
  BY ConstantTypes DEF Base, TypeOK
<1> QED BY <1>1, SlotsOfRing DEF Base, Active

(* The kept slots, as one formula, for use in a next state.                *)
LEMMA ActivePrefix == Base => Active = 0..(size - 1)
BY ActiveOf

(* The same of the kept slots after a step.                                *)
LEMMA ActiveAfter ==
  ASSUME Base'
  PROVE  Active' = 0..(size' - 1)
<1>1. Base' => (Active = 0..(size - 1))'
  BY ActivePrefix, PTL
<1> QED BY <1>1

(* Appending writes one point to the slot past the last one kept.          *)
LEMMA Append1Effect ==
  ASSUME Base, Append1
  PROVE  WriteEffect(head, SlotAt(size)) /\ SlotAt(size) \notin Active
<1>1. Base'
  BY Append1Base
<1>2. Active = 0..(size - 1) /\ size \in Nat /\ Active' = 0..(size' - 1)
  BY <1>1, ActiveOf, ActiveAfter
<1>3. SlotAt(size) = size
  <2>1. size < capacity /\ head = 0 /\ capacity \in Nat \ {0} /\ size \in 0..(capacity - 1)
    BY <1>2, ActiveOf DEF Append1, Base, RingShape, TypeOK
  <2> QED BY <2>1, ModBelow DEF SlotAt
<1>4. SlotAt(size) \notin Active /\ Active' = Active \cup {SlotAt(size)}
  BY <1>2, <1>3 DEF Append1
<1>5. Swapped(head) = slots
  BY DEF Swapped, Base, TypeOK
<1> QED BY <1>4, <1>5 DEF WriteEffect, Append1
(* Overwriting writes one point to the head, after a swap of two slots.    *)
LEMMA OverwriteAtEffect ==
  ASSUME Base, NEW w \in (IF lookahead THEN WorstSlot ELSE {head}), OverwriteAt(w)
  PROVE  w \in Slots /\ WriteEffect(w, head) /\ {w, head} \subseteq Active
<1>1. Overwrite
  BY DEF Overwrite, OverwriteAt
<1>2. w \in Slots /\ Base'
  BY <1>1, WorstSlotType, OverwriteBase
<1>3. size = capacity /\ size' = size /\ size > 0
  BY DEF OverwriteAt, Base, TypeOK
<1>4. head \in Active
  BY <1>3, ActiveOf DEF Base, RingShape, TypeOK, Slots
<1>5. w \in Active
  <2>1. \A v \in WorstSlot : \E o \in Window : v = SlotAt(o)
    BY DEF WorstSlot
  <2>2. Window \subseteq 0..(size - 1)
    BY DEF Window
  <2> QED BY <1>4, <2>1, <2>2, ActiveOf
<1>6. Active' = Active
  BY <1>2, <1>3, ActiveOf, ActiveAfter
<1> QED BY <1>2, <1>4, <1>5, <1>6 DEF OverwriteAt, WriteEffect

LEMMA OverwriteEffect ==
  ASSUME Base, Overwrite
  PROVE  \E w \in Slots : OverwriteAt(w) /\ WriteEffect(w, head) /\ {w, head} \subseteq Active
  BY OverwriteAtEffect DEF Overwrite, OverwriteAt

(* _grow moves the kept records, in order, to the first slots.             *)
LEMMA GrowsEffect ==
  ASSUME Base, Base', Grow, UNCHANGED <<tracked, range, dropped, writeSeq>>
  PROVE  GrowEffect \/ (NoEffect /\ UNCHANGED <<ringVars, indexVars>>)
<1>1. CASE NewCapacity <= capacity
  BY <1>1 DEF Grow, NoEffect, Active, SlotAt, ringVars, indexVars
<1>2. CASE ~(NewCapacity <= capacity)
  <2>1. slots' = Unrolled /\ size' = size
    BY <1>2 DEF Grow
  <2> QED BY <2>1, ActiveOf, ActiveAfter DEF GrowEffect
<1> QED BY <1>1, <1>2

(* Rendering changes colour values of the slots and nothing else.          *)
LEMMA RendersEffect ==
  ASSUME Base, Base', Render
  PROVE  RenderEffect
<1>1. PICK colorBy \in Colors : Render!(colorBy)
  BY DEF Render
<1>2. ASSUME NEW s \in Slots PROVE \E v \in Vals : slots'[s] = [slots[s] EXCEPT !.val = v]
  <2>1. slots[s] \in SlotRec /\ slots \in [Slots -> SlotRec] /\ ColorValue(s, colorBy) \in Vals
    BY ColorValueType DEF Base, TypeOK
  <2>2. slots[s].val \in Vals /\ slots[s] = [slots[s] EXCEPT !.val = slots[s].val]
    BY <2>1 DEF SlotRec
  <2>3. slots'[s] = slots[s] \/ slots'[s] = [slots[s] EXCEPT !.val = ColorValue(s, colorBy)]
    BY <1>1, <2>1
  <2> QED BY <2>1, <2>2, <2>3
<1>3. slots' \in [Slots -> SlotRec]
  BY DEF Base, TypeOK
<1>4. UNCHANGED <<writeSeq, dropped, indexVars, growVars, call>> /\ size' = size
  BY <1>1 DEF ringVars
<1>5. Active' = Active
  BY <1>4, ActiveOf, ActiveAfter
<1> QED BY <1>2, <1>3, <1>4, <1>5 DEF RenderEffect

(* reset() empties the ring.                                               *)
LEMMA ResetsEffect ==
  ASSUME Base, Base', Reset
  PROVE  ResetEffect
<1>1. size' = 0 /\ writeSeq' = 1
        /\ slots' = [s \in Slots |-> [EmptySlot EXCEPT !.z = slots[s].z, !.val = slots[s].val]]
  BY DEF Reset, ClearRing
<1>2. Active' = {}
  <2>1. Active' = 0..(size' - 1) /\ size' = 0
    BY <1>1, ActiveAfter
  <2> QED BY <2>1
<1>3. ASSUME NEW s \in Slots PROVE IsBlank(slots'[s])
  <2>1. slots'[s] = [EmptySlot EXCEPT !.z = slots[s].z, !.val = slots[s].val]
    BY <1>1
  <2> QED BY <2>1 DEF IsBlank, EmptySlot
<1> QED BY <1>1, <1>2, <1>3 DEF ResetEffect

(* Every step has one of the effects.                                      *)
LEMMA StepEffect ==
  ASSUME Base, [Next]_vars
  PROVE  \/ \E w, s \in Slots : WriteEffect(w, s)
         \/ GrowEffect
         \/ RenderEffect
         \/ ResetEffect
         \/ NoEffect
<1>1. Base'
  BY NextBase
<1>2. ASSUME UNCHANGED <<ringVars, slots, writeSeq>> PROVE NoEffect
  BY <1>2 DEF NoEffect, ringVars, Active, SlotAt
<1>3. CASE Append1
  BY <1>3, Append1Effect, ActiveOf DEF Base, TypeOK
<1>4. CASE Overwrite
  BY <1>4, OverwriteEffect DEF Base, TypeOK
<1>5. CASE GrowForCall
  BY <1>1, <1>5, GrowsEffect DEF GrowForCall
<1>6. CASE DoGrow
  <2>1. CASE Grow
    BY <1>1, <1>6, <2>1, GrowsEffect DEF DoGrow
  <2>2. CASE ~Grow
    BY <1>2, <1>6, <2>2 DEF DoGrow
  <2> QED BY <2>1, <2>2
<1>7. CASE Render
  BY <1>1, <1>7, RendersEffect
<1>8. CASE Reset
  BY <1>1, <1>8, ResetsEffect
<1>9. CASE Ingest \/ IngestFromBinary \/ Discard \/ Return \/ SetImportanceField \/ Tick
           \/ UNCHANGED vars
  BY <1>2, <1>9 DEF Ingest, IngestFromBinary, Begin, Discard, Return, SetImportanceField, Tick, vars
<1> QED
  BY <1>3, <1>4, <1>5, <1>6, <1>7, <1>8, <1>9 DEF Next, CallStep
-----------------------------------------------------------------------------
(* Generation stamps                                                       *)

(* The call in progress names its path; a packed chunk names the channel   *)
(* of every attribute its points carry.                                    *)
CallOK ==
  call # Idle => /\ call.kind \in {"object", "binary"}
                 /\ call.kind = "binary" =>
                      \A i \in DOMAIN call.pts : DOMAIN call.pts[i].attrs \subseteq call.chans

(* What snapshot() makes of a slot record.                                 *)
Shown(r) == IF r.item THEN r.src
            ELSE [k \in {k \in r.present : r.chan[k] = r.seq} |-> r.pv[k]]

(* No stamp in a record is as new as generation n.                         *)
OlderThan(r, n) == r.seq < n /\ \A k \in Keys : r.chan[k] < n

(* The strengthening that makes SnapshotFaithful inductive: every slot,    *)
(* kept or not, shows the point last written to it, and no stamp anywhere  *)
(* is as new as the next write's.                                          *)
AllFaithful == \A s \in Slots : Shown(slots[s]) = slots[s].src /\ OlderThan(slots[s], writeSeq)

(* No call is in progress at first.                                        *)
LEMMA CallOKInit == Init => CallOK
BY DEF Init, CallOK

(* Every call covers its points with its channels, at every step.          *)
LEMMA CallOKStep ==
  ASSUME Base, CallOK, [Next]_vars
  PROVE  CallOK'
<1>1. ASSUME call' = call \/ call' = Idle PROVE CallOK'
  BY <1>1 DEF CallOK, Idle
<1>2. CASE Ingest
  <2>1. PICK pts \in Chunks : Begin("object", {}, pts, Idle.hint)
    BY <1>2 DEF Ingest
  <2>2. call'.kind = "object"
    BY <2>1 DEF Begin
  <2> QED BY <2>2 DEF CallOK
<1>3. CASE IngestFromBinary
  <2>1. PICK pts \in Chunks, chans \in SUBSET Keys, given \in Hints :
               KeysOf(pts) \subseteq chans /\ Begin("binary", chans, pts, Hint(pts, chans, given))
    BY <1>3 DEF IngestFromBinary
  <2>2. call'.kind = "binary" /\ call'.pts = pts /\ call'.chans = chans
    BY <2>1 DEF Begin
  <2>3. \A i \in DOMAIN pts : DOMAIN pts[i].attrs \subseteq chans
    BY <2>1 DEF KeysOf
  <2> QED BY <2>2, <2>3 DEF CallOK
<1>4. ASSUME Writing, NextPoint PROVE CallOK'
  <2>1. /\ call.pts \in Seq(Points) /\ call.pts # <<>> /\ call # Idle /\ call \in CallRec
    BY <1>4 DEF Writing, Base, TypeOK, CallRec
  <2>2. /\ call'.kind = call.kind /\ call'.chans = call.chans /\ call'.pts = Tail(call.pts)
    BY <1>4, <2>1 DEF NextPoint, CallRec
  <2>3. \A i \in DOMAIN Tail(call.pts) : i + 1 \in DOMAIN call.pts /\ Tail(call.pts)[i] = call.pts[i + 1]
    BY <2>1
  <2> QED BY <2>1, <2>2, <2>3 DEF CallOK
<1>5. CASE Append1 \/ Overwrite \/ Discard
  BY <1>4, <1>5 DEF Append1, Overwrite, Discard
<1>6. CASE Return \/ GrowForCall \/ DoGrow \/ Render \/ Reset \/ SetImportanceField \/ Tick
           \/ UNCHANGED vars
  BY <1>1, <1>6 DEF Return, GrowForCall, DoGrow, Render, Reset, SetImportanceField, Tick, vars
<1> QED BY <1>2, <1>3, <1>5, <1>6 DEF Next, CallStep

(* A write shows exactly the point written, on either path, whatever       *)
(* stamps, values and presence the slot had.                               *)
LEMMA WrittenShown ==
  ASSUME TypeOK, NEW r \in SlotRec, OlderThan(r, writeSeq), NEW p \in Points,
         NEW kind \in {"object", "binary"}, NEW chans \in SUBSET Keys,
         kind = "binary" => DOMAIN p.attrs \subseteq chans
  PROVE  LET new == Written(r, p, kind, chans)
         IN /\ Shown(new) = new.src /\ OlderThan(new, writeSeq + 1)
            /\ new.src = p.attrs /\ new.seq = writeSeq /\ new.z = p.z
<1> DEFINE new == Written(r, p, kind, chans)
           stamped == {k \in new.present : new.chan[k] = new.seq}
<1>1. /\ new.item = (kind = "object") /\ new.src = p.attrs /\ new.seq = writeSeq /\ new.z = p.z
      /\ new.pv = [k \in Keys |-> IF k \in chans THEN Get(p.attrs, k) ELSE r.pv[k]]
      /\ new.present = (r.present \ chans) \cup (chans \cap DOMAIN p.attrs)
      /\ new.chan = [k \in Keys |-> IF k \in chans THEN writeSeq ELSE r.chan[k]]
  BY DEF Written, SlotRec
<1>2. writeSeq \in Nat /\ r.present \in SUBSET Keys /\ r.chan \in [Keys -> Nat] /\ r.seq \in Nat
  BY DEF TypeOK, SlotRec
<1>3. \A k \in Keys : k \notin chans => r.chan[k] # writeSeq
  BY <1>2 DEF OlderThan
<1> HIDE DEF new
<1>4. stamped = chans \cap DOMAIN p.attrs
  BY <1>1, <1>2, <1>3
<1>5. ASSUME kind = "object" PROVE Shown(new) = p.attrs
  <2>1. new.item /\ new.src = p.attrs
    BY <1>1, <1>5
  <2> QED BY <2>1 DEF Shown
<1>6. ASSUME kind = "binary" PROVE Shown(new) = p.attrs
  <2>1. p.attrs \in AttrSets /\ p.attrs = [k \in DOMAIN p.attrs |-> p.attrs[k]]
    BY ConstantTypes, PointConstants
  <2>2. stamped = DOMAIN p.attrs
    BY <1>4, <1>6
  <2>3. \A k \in DOMAIN p.attrs : new.pv[k] = p.attrs[k]
    BY <1>1, <1>6 DEF Get
  <2>4. [k \in stamped |-> new.pv[k]] = [k \in DOMAIN p.attrs |-> p.attrs[k]]
    BY <2>2, <2>3
  <2> HIDE DEF stamped
  <2>5. ~new.item
    BY <1>1, <1>6
  <2>6. Shown(new) = [k \in stamped |-> new.pv[k]]
    BY <2>5 DEF Shown, stamped
  <2> QED BY <2>1, <2>4, <2>6
<1>7. OlderThan(new, writeSeq + 1)
  BY <1>1, <1>2 DEF OlderThan
<1> QED BY <1>1, <1>5, <1>6, <1>7 DEF new
(* Exchanging two records keeps what holds of all of them.                 *)
LEMMA SwappedSlots ==
  ASSUME Base, NEW w \in Slots
  PROVE  /\ Swapped(w) \in [Slots -> SlotRec]
         /\ \A s \in Slots : Swapped(w)[s] = slots[IF s = head THEN w ELSE IF s = w THEN head ELSE s]
BY DEF Swapped, Base, TypeOK

(* A write fills slot s with a point of the chunk; others only swap.       *)
LEMMA WriteSlots ==
  ASSUME Base, CallOK, NEW w \in Slots, NEW s \in Slots, WriteEffect(w, s)
  PROVE  /\ Head(call.pts) \in Points /\ call.kind \in {"object", "binary"}
         /\ call.chans \in SUBSET Keys
         /\ call.kind = "binary" => DOMAIN Head(call.pts).attrs \subseteq call.chans
         /\ slots'[s] = Written(Swapped(w)[s], Head(call.pts), call.kind, call.chans)
         /\ \A t \in Slots : t # s => slots'[t] = Swapped(w)[t]
<1>1. Writing /\ call \in CallRec /\ call.pts \in Seq(Points) /\ call.pts # <<>> /\ call # Idle
  BY DEF WriteEffect, Writing, Base, TypeOK, CallRec
<1>2. Head(call.pts) = call.pts[1] /\ 1 \in DOMAIN call.pts
  BY <1>1
<1>3. call.chans \in SUBSET Keys /\ call.kind \in {"object", "binary"}
  BY <1>1 DEF CallRec, CallOK
<1>4. call.kind = "binary" => DOMAIN Head(call.pts).attrs \subseteq call.chans
  BY <1>1, <1>2 DEF CallOK
<1>5. /\ slots'[s] = Written(Swapped(w)[s], Head(call.pts), call.kind, call.chans)
      /\ \A t \in Slots : t # s => slots'[t] = Swapped(w)[t]
  BY SwappedSlots DEF WriteEffect
<1> QED BY <1>1, <1>2, <1>3, <1>4, <1>5

(* A slot never written shows no attributes, as it should.                 *)
LEMMA BlankShown ==
  ASSUME NEW r, IsBlank(r)
  PROVE  Shown(r) = r.src /\ OlderThan(r, 1)
<1>1. {k \in r.present : r.chan[k] = r.seq} = {}
  BY DEF IsBlank
<1>2. Shown(r) = [k \in {} |-> r.pv[k]]
  BY <1>1 DEF Shown, IsBlank
<1>3. Shown(r) = NoAttrs
  BY <1>2 DEF NoAttrs
<1> QED BY <1>3 DEF OlderThan, IsBlank

(* The constructor leaves no stale attribute.                              *)
LEMMA FaithfulInit == Init => AllFaithful
<1> SUFFICES ASSUME Init, NEW s \in Slots
             PROVE  Shown(slots[s]) = slots[s].src /\ OlderThan(slots[s], writeSeq)
  BY DEF AllFaithful
<1>1. IsBlank(EmptySlot)
  BY DEF IsBlank, EmptySlot
<1>2. slots[s] = EmptySlot /\ writeSeq = 1
  BY DEF Init
<1> QED BY <1>1, <1>2, BlankShown

(* No step makes a slot show an attribute of another generation.           *)
LEMMA FaithfulStep ==
  ASSUME Base, CallOK, AllFaithful, [Next]_vars
  PROVE  AllFaithful'
<1>1. slots \in [Slots -> SlotRec] /\ writeSeq \in Nat
  BY DEF Base, TypeOK
<1>2. ASSUME NEW w \in Slots, NEW s \in Slots, WriteEffect(w, s) PROVE AllFaithful'
  <2>1. \A t \in Slots : /\ Swapped(w)[t] \in SlotRec
                         /\ Shown(Swapped(w)[t]) = Swapped(w)[t].src
                         /\ OlderThan(Swapped(w)[t], writeSeq)
    BY SwappedSlots DEF AllFaithful, Base, TypeOK
  <2>2. Shown(slots'[s]) = slots'[s].src /\ OlderThan(slots'[s], writeSeq + 1)
    BY <1>2, <2>1, WriteSlots, WrittenShown DEF Base
  <2>3. ASSUME NEW t \in Slots, t # s
        PROVE  Shown(slots'[t]) = slots'[t].src /\ OlderThan(slots'[t], writeSeq + 1)
    <3>1. slots'[t] = Swapped(w)[t]
      BY <1>2, <2>3, WriteSlots
    <3>2. OlderThan(slots'[t], writeSeq + 1)
      BY <1>1, <2>1, <3>1 DEF OlderThan, SlotRec
    <3> QED BY <2>1, <3>1, <3>2
  <2>4. writeSeq' = writeSeq + 1
    BY <1>2 DEF WriteEffect
  <2> QED BY <2>2, <2>3, <2>4 DEF AllFaithful
<1>3. CASE GrowEffect
  <2>1. ASSUME NEW s \in Slots PROVE Shown(slots'[s]) = slots'[s].src /\ OlderThan(slots'[s], writeSeq)
    <3>1. CASE s < size
      <4>1. slots'[s] = slots[SlotAt(s)] /\ SlotAt(s) \in Slots
        BY <1>3, <3>1, ActiveOf DEF GrowEffect, Unrolled, Slots
      <4> QED BY <4>1 DEF AllFaithful
    <3>2. CASE ~(s < size)
      <4>1. slots'[s] = EmptySlot /\ IsBlank(EmptySlot)
        BY <1>3, <3>2 DEF GrowEffect, Unrolled, IsBlank, EmptySlot
      <4>2. OlderThan(slots'[s], 1) /\ Shown(slots'[s]) = slots'[s].src
        BY <4>1, BlankShown
      <4>3. slots'[s].seq \in Nat /\ slots'[s].chan \in [Keys -> Nat]
        BY <4>1, EmptySlotType DEF SlotRec
      <4>4. 1 <= writeSeq
        BY DEF Base, TypeOK
      <4> QED BY <1>1, <4>2, <4>3, <4>4 DEF OlderThan
    <3> QED BY <3>1, <3>2
  <2>2. writeSeq' = writeSeq
    BY <1>3 DEF GrowEffect
  <2> QED BY <2>1, <2>2 DEF AllFaithful
<1>4. CASE RenderEffect
  <2>1. ASSUME NEW s \in Slots PROVE Shown(slots'[s]) = slots'[s].src /\ OlderThan(slots'[s], writeSeq)
    <3>1. PICK v \in Vals : slots'[s] = [slots[s] EXCEPT !.val = v]
      BY <1>4 DEF RenderEffect
    <3>2. slots'[s].item = slots[s].item /\ slots'[s].src = slots[s].src
          /\ slots'[s].present = slots[s].present /\ slots'[s].pv = slots[s].pv
          /\ slots'[s].chan = slots[s].chan /\ slots'[s].seq = slots[s].seq
      BY <1>1, <3>1 DEF SlotRec
    <3> QED BY <3>2 DEF AllFaithful, Shown, OlderThan
  <2>2. writeSeq' = writeSeq
    BY <1>4 DEF RenderEffect
  <2> QED BY <2>1, <2>2 DEF AllFaithful
<1>5. CASE ResetEffect
  <2>1. ASSUME NEW s \in Slots PROVE Shown(slots'[s]) = slots'[s].src /\ OlderThan(slots'[s], 1)
    BY <1>5, BlankShown DEF ResetEffect
  <2>2. writeSeq' = 1
    BY <1>5 DEF ResetEffect
  <2> QED BY <2>1, <2>2 DEF AllFaithful
<1>6. CASE NoEffect
  BY <1>6 DEF NoEffect, AllFaithful, Shown, OlderThan
<1> QED BY <1>2, <1>3, <1>4, <1>5, <1>6, StepEffect

(* snapshot() returns every kept point with the attributes it was offered  *)
(* with, for every ring size, lookahead, set of channels and mix of calls. *)
THEOREM SnapshotIsFaithful == Spec => []SnapshotFaithful
<1> DEFINE Inv == Base /\ CallOK /\ AllFaithful
<1>1. Init => Inv
  BY InitBase, CallOKInit, FaithfulInit
<1>2. Inv /\ [Next]_vars => Inv'
  BY NextBase, CallOKStep, FaithfulStep
<1>3. Inv => SnapshotFaithful
  BY ActiveOf DEF AllFaithful, SnapshotFaithful, SnapshotAttrs, Shown
<1> HIDE DEF Inv
<1> QED BY <1>1, <1>2, <1>3, PTL DEF Spec
-----------------------------------------------------------------------------
(* Generations                                                             *)

LEMMA UniqueStep ==
  ASSUME Base, CallOK, AllFaithful, GenerationsUnique, [Next]_vars
  PROVE  GenerationsUnique'
<1>1. slots \in [Slots -> SlotRec] /\ writeSeq \in Nat \ {0} /\ Active \subseteq Slots
      /\ \A s \in Slots : slots[s].seq \in Nat
  BY ActiveOf DEF Base, TypeOK, SlotRec
<1>2. \A s \in Active : 0 < slots[s].seq /\ slots[s].seq < writeSeq
  BY DEF GenerationsUnique
<1>3. ASSUME NEW w \in Slots, NEW s \in Slots, WriteEffect(w, s) PROVE GenerationsUnique'
  <2> DEFINE from(t) == IF t = head THEN w ELSE IF t = w THEN head ELSE t
  <2>1. slots'[s].seq = writeSeq
    <3>1. Swapped(w)[s] \in SlotRec /\ OlderThan(Swapped(w)[s], writeSeq)
      BY SwappedSlots DEF AllFaithful, Base, TypeOK
    <3> QED BY <1>3, <3>1, WriteSlots, WrittenShown DEF Base
  <2>2. \A t \in Active' : t # s => t \in Active /\ from(t) \in Active /\ slots'[t] = slots[from(t)]
    BY <1>1, <1>3, WriteSlots, SwappedSlots DEF WriteEffect
  <2>3. \A t, u \in Active' : t # s /\ u # s /\ from(t) = from(u) => t = u
    BY <1>3 DEF WriteEffect
  <2>4. writeSeq' = writeSeq + 1
    BY <1>3 DEF WriteEffect
  <2> HIDE DEF from
  <2>5. \A t \in Active' : 0 < slots'[t].seq /\ slots'[t].seq < writeSeq'
    BY <1>1, <1>2, <2>1, <2>2, <2>4
  <2>6. \A t, u \in Active' : slots'[t].seq = slots'[u].seq => t = u
    <3> TAKE t, u \in Active'
    <3>1. CASE t # s /\ u # s
      BY <2>2, <2>3, <3>1 DEF GenerationsUnique
    <3>2. CASE t = s \/ u = s
      BY <1>1, <1>2, <2>1, <2>2, <3>2
    <3> QED BY <3>1, <3>2
  <2> QED BY <2>5, <2>6 DEF GenerationsUnique
<1>4. CASE GrowEffect
  <2>1. \A i \in Active : SlotAt(i) \in Active /\ slots'[i] = slots[SlotAt(i)]
    BY <1>4, ActiveOf DEF GrowEffect, Unrolled, Slots
  <2>2. \A i, j \in Active : SlotAt(i) = SlotAt(j) => i = j
    BY ActiveOf
  <2>3. Active' = Active /\ writeSeq' = writeSeq
    BY <1>4 DEF GrowEffect
  <2> QED BY <2>1, <2>2, <2>3 DEF GenerationsUnique
<1>5. CASE RenderEffect
  <2>1. ASSUME NEW s \in Slots PROVE slots'[s].seq = slots[s].seq
    <3>1. PICK v \in Vals : slots'[s] = [slots[s] EXCEPT !.val = v]
      BY <1>5 DEF RenderEffect
    <3> QED BY <1>1, <3>1 DEF SlotRec
  <2>2. Active' = Active /\ writeSeq' = writeSeq
    BY <1>5 DEF RenderEffect
  <2> QED BY <1>1, <2>1, <2>2 DEF GenerationsUnique
<1>6. CASE ResetEffect
  BY <1>6 DEF ResetEffect, GenerationsUnique
<1>7. CASE NoEffect
  BY <1>7 DEF NoEffect, GenerationsUnique
<1> QED BY <1>3, <1>4, <1>5, <1>6, <1>7, StepEffect

(* No two kept points share a generation, and none is ahead of the         *)
(* counter, whatever is swapped, unrolled or overwritten.                  *)
THEOREM GenerationsAreUnique == Spec => []GenerationsUnique
<1> DEFINE Inv == Base /\ CallOK /\ AllFaithful /\ GenerationsUnique
<1>1. Init => GenerationsUnique
  <2> SUFFICES ASSUME Init PROVE GenerationsUnique
    OBVIOUS
  <2>1. Active = 0..(size - 1) /\ size = 0
    BY InitBase, ActiveOf DEF Init
  <2> QED BY <2>1 DEF GenerationsUnique
<1>2. Init => Inv
  BY <1>1, InitBase, CallOKInit, FaithfulInit
<1>3. Inv /\ [Next]_vars => Inv'
  BY NextBase, CallOKStep, FaithfulStep, UniqueStep
<1>4. Inv => GenerationsUnique
  OBVIOUS
<1> HIDE DEF Inv
<1> QED BY <1>2, <1>3, <1>4, PTL DEF Spec

-----------------------------------------------------------------------------
(* Counters                                                                *)

(* The drop counter and the kept points account for every write since the  *)
(* last reset.                                                             *)
THEOREM DropsAreAccounted == Spec => []DropAccounting
<1>1. Init => DropAccounting
  BY DEF Init, DropAccounting
<1>2. ASSUME Base, DropAccounting, [Next]_vars PROVE DropAccounting'
  <2>1. size \in Nat /\ dropped \in Nat /\ writeSeq \in Nat
    BY <1>2, ActiveOf DEF Base, TypeOK
  <2>0. [Next]_vars => mode' = mode
    BY DEF Next, vars, policyVars, CallStep, Append1, Overwrite, Discard, Reset, GrowForCall, DoGrow,
           Ingest, IngestFromBinary, Begin, Return, Render, SetImportanceField, Tick
  <2>2. CASE Append1
    <3>1. size' = size + 1 /\ writeSeq' = writeSeq + 1 /\ dropped' = dropped
      BY <2>2 DEF Append1
    <3> QED BY <1>2, <2>0, <2>1, <3>1 DEF DropAccounting
  <2>3. CASE Overwrite
    <3>1. /\ size' = size /\ writeSeq' = writeSeq + 1 /\ dropped' = dropped + 1
          /\ mode = "drop-oldest"
      BY <2>3 DEF Overwrite
    <3> QED BY <1>2, <2>0, <2>1, <3>1 DEF DropAccounting
  <2>4. CASE Discard
    <3>1. size' = size /\ writeSeq' = writeSeq /\ mode = "drop-newest"
      BY <2>4 DEF Discard, ringVars
    <3> QED BY <1>2, <2>0, <3>1 DEF DropAccounting
  <2>5. CASE Reset
    <3>1. size' = 0 /\ writeSeq' = 1 /\ dropped' = 0
      BY <2>5 DEF Reset, ClearRing
    <3> QED BY <3>1 DEF DropAccounting
  <2>6. CASE GrowForCall \/ DoGrow
    <3>1. size' = size /\ writeSeq' = writeSeq /\ dropped' = dropped
      BY <2>6 DEF GrowForCall, DoGrow, Grow, ringVars
    <3> QED BY <1>2, <2>0, <3>1 DEF DropAccounting
  <2>7. CASE Ingest \/ IngestFromBinary \/ Return \/ Render \/ SetImportanceField \/ Tick
             \/ UNCHANGED vars
    <3>1. size' = size /\ writeSeq' = writeSeq /\ dropped' = dropped
      BY <2>7 DEF Ingest, IngestFromBinary, Begin, Return, Render, SetImportanceField, Tick,
                 vars, ringVars
    <3> QED BY <1>2, <2>0, <3>1 DEF DropAccounting
  <2> QED BY <1>2, <2>2, <2>3, <2>4, <2>5, <2>6, <2>7 DEF Next, CallStep
<1>3. Base /\ DropAccounting /\ [Next]_vars => (Base /\ DropAccounting)'
  BY <1>2, NextBase
<1> QED BY <1>1, <1>3, InitBase, PTL DEF Spec

(* A growth marked as pending has a callback that will end it.             *)
THEOREM GrowthIsNeverLockedOut == Spec => []PendingGrowthIsQueued
<1>1. Init => PendingGrowthIsQueued
  BY DEF Init, PendingGrowthIsQueued
<1>2. ASSUME Base, PendingGrowthIsQueued, [Next]_vars PROVE PendingGrowthIsQueued'
  <2>1. growQueue \in Nat
    BY <1>2 DEF Base, TypeOK
  <2>2. ASSUME UNCHANGED growVars PROVE PendingGrowthIsQueued'
    BY <1>2, <2>2 DEF PendingGrowthIsQueued, growVars
  <2>3. ASSUME ~growthPending' PROVE PendingGrowthIsQueued'
    BY <2>3 DEF PendingGrowthIsQueued
  <2>4. ASSUME NEW kind, NEW chans, NEW pts, NEW hint, Begin(kind, chans, pts, hint)
        PROVE  PendingGrowthIsQueued'
    <3>1. CASE growQueue' = growQueue + 1
      BY <2>1, <3>1 DEF PendingGrowthIsQueued
    <3>2. CASE UNCHANGED growVars
      BY <2>2, <3>2
    <3> QED BY <2>4, <3>1, <3>2 DEF Begin, ScheduleGrow
  <2>5. CASE Ingest \/ IngestFromBinary
    BY <2>4, <2>5 DEF Ingest, IngestFromBinary
  <2>6. CASE DoGrow \/ Reset
    BY <2>3, <2>6 DEF DoGrow, Reset, ForgetGrowth
  <2>7. CASE CallStep
    BY <2>2, <2>7 DEF CallStep, GrowForCall, Append1, Overwrite, Discard, Return
  <2>8. CASE Render \/ SetImportanceField \/ Tick \/ UNCHANGED vars
    BY <2>2, <2>8 DEF Render, SetImportanceField, Tick, vars
  <2> QED BY <1>2, <2>5, <2>6, <2>7, <2>8 DEF Next
<1>3. Base /\ PendingGrowthIsQueued /\ [Next]_vars => (Base /\ PendingGrowthIsQueued)'
  BY <1>2, NextBase
<1> QED BY <1>1, <1>3, InitBase, PTL DEF Spec
-----------------------------------------------------------------------------
(* The cell index                                                          *)

LEMMA IndexStep ==
  ASSUME Base, CallOK, IndexExact, [Next]_vars
  PROVE  IndexExact'
<1>1. /\ slots \in [Slots -> SlotRec] /\ cellSlots \in [CellKeys -> SUBSET Slots]
      /\ cellOf \in [Slots -> CellKeys \cup {0}] /\ head \in Slots
      /\ Active \subseteq Slots /\ size \in Nat
  BY ActiveOf DEF Base, TypeOK
<1>2. \A s \in Slots : Cell(slots[s].z) \in CellKeys
  BY <1>1, PointConstants DEF SlotRec
<1>3. CASE Append1
  <2> DEFINE s == SlotAt(size)
             key == Cell(Head(call.pts).z)
  <2>1. WriteEffect(head, s) /\ s \notin Active /\ s \in Slots /\ key \in CellKeys
    BY <1>1, <1>3, Append1Effect, ActiveOf, HeadPoint DEF Append1
  <2>2. cellOf' = [cellOf EXCEPT ![s] = key] /\ cellSlots' = Indexed(cellSlots, s, key)
    BY <1>3 DEF Append1
  <2>3. /\ slots'[s].z = Head(call.pts).z
        /\ \A t \in Slots : t # s => slots'[t] = slots[t]
    <3>1. slots' = [slots EXCEPT ![s] = Written(@, Head(call.pts), call.kind, call.chans)]
      BY <1>3 DEF Append1
    <3>2. \A r \in SlotRec : Written(r, Head(call.pts), call.kind, call.chans).z = Head(call.pts).z
      BY DEF Written, SlotRec
    <3> QED BY <1>1, <2>1, <3>1, <3>2
  <2>4. Active' = Active \cup {s}
    BY <2>1 DEF WriteEffect
  <2> HIDE DEF s, key
  <2>5. \A t \in Active' : cellOf'[t] = Cell(slots'[t].z)
    BY <1>1, <2>1, <2>2, <2>3, <2>4 DEF IndexExact, key
  <2>6. \A c \in CellKeys : cellSlots'[c] = {t \in Active' : Cell(slots'[t].z) = c}
    <3> TAKE c \in CellKeys
    <3>1. cellSlots'[c] = IF c = key THEN cellSlots[c] \cup {s} ELSE cellSlots[c]
      BY <1>1, <2>1, <2>2 DEF Indexed, Unindexed
    <3>2. cellSlots[c] = {t \in Active : Cell(slots[t].z) = c}
      BY DEF IndexExact
    <3>3. Cell(slots'[s].z) = key
      BY <2>3 DEF key
    <3> QED BY <1>1, <2>1, <2>3, <2>4, <3>1, <3>2, <3>3
  <2> QED BY <2>5, <2>6 DEF IndexExact
<1>4. CASE Overwrite
  <2>1. PICK w \in Slots : OverwriteAt(w) /\ WriteEffect(w, head) /\ {w, head} \subseteq Active
    BY <1>4, OverwriteEffect
  <2> DEFINE key == Cell(Head(call.pts).z)
             sw == Swapped(w)
             moved == IF w = head THEN cellSlots
                      ELSE Indexed(Unindexed(cellSlots, w, cellOf[w]), w, Cell(sw[w].z))
  <2>2. key \in CellKeys /\ head \in Active
    <3>1. Writing
      BY <2>1 DEF WriteEffect
    <3> QED BY <2>1, <3>1, HeadPoint DEF WriteEffect
  <2>3. w \in Active /\ Active' = Active
    BY <2>1, <2>2 DEF WriteEffect
  <2>4. sw \in [Slots -> SlotRec]
        /\ \A t \in Slots : sw[t] = slots[IF t = head THEN w ELSE IF t = w THEN head ELSE t]
    BY SwappedSlots
  <2>5. /\ slots'[head].z = Head(call.pts).z
        /\ \A t \in Slots : t # head => slots'[t] = sw[t]
    <3>1. slots' = [sw EXCEPT ![head] = Written(@, Head(call.pts), call.kind, call.chans)]
      BY <2>1 DEF OverwriteAt
    <3>2. \A r \in SlotRec : Written(r, Head(call.pts), call.kind, call.chans).z = Head(call.pts).z
      BY DEF Written, SlotRec
    <3> QED BY <1>1, <2>4, <3>1, <3>2
  <2>6. /\ cellOf' = [[cellOf EXCEPT ![w] = Cell(sw[w].z)] EXCEPT ![head] = key]
        /\ cellSlots' = Indexed(Unindexed(moved, head, cellOf[head]), head, key)
    BY <2>1 DEF OverwriteAt
  <2>7. \A t \in Active : cellOf[t] = Cell(slots[t].z) /\ cellOf[t] \in CellKeys
    BY <1>1, <1>2 DEF IndexExact
  <2>8. \A c \in CellKeys : cellSlots[c] = {t \in Active : Cell(slots[t].z) = c}
    BY DEF IndexExact
  <2>9. moved \in [CellKeys -> SUBSET Slots]
    BY <1>1, IndexTypes
  <2> HIDE DEF key, sw
  <2>10. \A t \in Active : t # head => Cell(slots'[t].z) = Cell(sw[t].z)
    BY <1>1, <2>5
  <2>11. ASSUME NEW c \in CellKeys, NEW t \in Slots, t # head
         PROVE  t \in moved[c] <=> t \in Active /\ Cell(sw[t].z) = c
    <3>1. CASE w = head
      BY <1>1, <2>4, <2>8, <2>11, <3>1
    <3>2. CASE w # head
      <4>1. Cell(sw[w].z) \in CellKeys /\ cellOf[w] \in CellKeys
        BY <1>1, <1>2, <2>3, <2>4, <2>7
      <4>2. Unindexed(cellSlots, w, cellOf[w]) \in [CellKeys -> SUBSET Slots]
        BY <1>1, IndexTypes
      <4>3. moved[c] = IF c = Cell(sw[w].z) THEN Unindexed(cellSlots, w, cellOf[w])[c] \cup {w}
                                            ELSE Unindexed(cellSlots, w, cellOf[w])[c]
        BY <3>2, <4>1, <4>2 DEF Indexed, Unindexed
      <4>4. Unindexed(cellSlots, w, cellOf[w])[c] =
              IF c = cellOf[w] THEN cellSlots[c] \ {w} ELSE cellSlots[c]
        BY <1>1, <4>1 DEF Indexed, Unindexed
      <4>5. CASE t = w
        BY <2>3, <2>7, <2>8, <4>3, <4>4, <4>5
      <4>6. CASE t # w
        <5>1. sw[t] = slots[t]
          BY <2>4, <2>11, <4>6
        <5> QED BY <2>8, <4>3, <4>4, <4>6, <5>1
      <4> QED BY <4>5, <4>6
    <3> QED BY <3>1, <3>2
  <2>12. \A c \in CellKeys : c # cellOf[head] => head \notin moved[c]
    <3> TAKE c \in CellKeys
    <3> HAVE c # cellOf[head]
    <3>1. head \notin cellSlots[c]
      BY <2>2, <2>7, <2>8
    <3>2. CASE w = head
      BY <3>1, <3>2
    <3>3. CASE w # head
      <4>1. Cell(sw[w].z) \in CellKeys /\ cellOf[w] \in CellKeys
        BY <1>1, <1>2, <2>3, <2>4, <2>7
      <4>2. Unindexed(cellSlots, w, cellOf[w]) \in [CellKeys -> SUBSET Slots]
        BY <1>1, IndexTypes
      <4>3. moved[c] \subseteq Unindexed(cellSlots, w, cellOf[w])[c] \cup {w}
        BY <3>3, <4>1, <4>2 DEF Indexed, Unindexed
      <4>4. Unindexed(cellSlots, w, cellOf[w])[c] \subseteq cellSlots[c]
        BY <1>1, <4>1 DEF Indexed, Unindexed
      <4> QED BY <3>1, <3>3, <4>3, <4>4
    <3> QED BY <3>2, <3>3
  <2> HIDE DEF moved
  <2>13. \A t \in Active' : cellOf'[t] = Cell(slots'[t].z)
    <3> TAKE t \in Active'
    <3>1. CASE t = head
      BY <1>1, <2>5, <2>6, <3>1 DEF key
    <3>2. CASE t # head /\ t = w
      BY <1>1, <2>3, <2>6, <2>10, <3>2
    <3>3. CASE t # head /\ t # w
      <4>1. cellOf'[t] = cellOf[t] /\ sw[t] = slots[t] /\ t \in Active
        BY <1>1, <2>3, <2>4, <2>6, <3>3
      <4> QED BY <2>7, <2>10, <3>3, <4>1
    <3> QED BY <3>1, <3>2, <3>3
  <2>14. ASSUME NEW c \in CellKeys
         PROVE  cellSlots'[c] = {t \in Active' : Cell(slots'[t].z) = c}
    <3>1. Unindexed(moved, head, cellOf[head]) \in [CellKeys -> SUBSET Slots]
      BY <1>1, <2>9, IndexTypes
    <3>2. cellSlots'[c] = IF c = key THEN Unindexed(moved, head, cellOf[head])[c] \cup {head}
                                     ELSE Unindexed(moved, head, cellOf[head])[c]
      BY <1>1, <2>2, <2>6, <3>1 DEF Indexed, Unindexed
    <3>3. Unindexed(moved, head, cellOf[head])[c] =
            IF c = cellOf[head] THEN moved[c] \ {head} ELSE moved[c]
      BY <1>1, <2>2, <2>7, <2>9 DEF Indexed, Unindexed
    <3>4. head \notin Unindexed(moved, head, cellOf[head])[c]
      BY <2>12, <3>3
    <3>5. head \in cellSlots'[c] <=> Cell(slots'[head].z) = c
      BY <2>5, <3>2, <3>4 DEF key
    <3>6. ASSUME NEW t \in Slots, t # head
          PROVE  t \in cellSlots'[c] <=> t \in Active /\ Cell(slots'[t].z) = c
      <4>1. t \in cellSlots'[c] <=> t \in moved[c]
        BY <3>2, <3>3, <3>6
      <4>2. Cell(slots'[t].z) = Cell(sw[t].z)
        BY <2>5, <3>6
      <4> QED BY <2>11, <3>6, <4>1, <4>2
    <3>7. cellSlots'[c] \subseteq Slots
      BY <1>1, <2>9, <3>2, <3>3
    <3> QED BY <1>1, <2>2, <2>3, <3>5, <3>6, <3>7
  <2> QED BY <2>13, <2>14 DEF IndexExact
<1>5. ASSUME UNCHANGED <<slots, Active, indexVars>> PROVE IndexExact'
  BY <1>5 DEF IndexExact, indexVars
<1>6. ASSUME Grow PROVE IndexExact'
  <2>1. CASE NewCapacity <= capacity
    <3>1. UNCHANGED <<ringVars, slots, indexVars>>
      BY <1>6, <2>1 DEF Grow
    <3> QED BY <1>5, <3>1 DEF ringVars, Active, SlotAt
  <2>2. CASE ~(NewCapacity <= capacity)
    <3>1. /\ slots' = Unrolled /\ size' = size
          /\ cellOf' = [i \in Slots |-> IF i < size THEN Cell(Unrolled[i].z) ELSE 0]
          /\ cellSlots' = [c \in CellKeys |-> {i \in 0..(size - 1) : Cell(Unrolled[i].z) = c}]
      BY <1>6, <2>2 DEF Grow
    <3>2. Active' = 0..(size - 1) /\ Active = 0..(size - 1)
      BY <3>1, NextBase, ActiveOf, ActiveAfter
    <3>3. \A t \in Active' : t \in Slots /\ t < size
      BY <1>1, <3>2
    <3>4. \A t \in Active' : cellOf'[t] = Cell(slots'[t].z)
      BY <3>1, <3>3
    <3> QED BY <3>1, <3>2, <3>4 DEF IndexExact
  <2> QED BY <2>1, <2>2
<1>7. CASE GrowForCall
  BY <1>6, <1>7 DEF GrowForCall
<1>8. CASE DoGrow
  <2>1. CASE Grow
    BY <1>6, <2>1
  <2>2. CASE UNCHANGED <<ringVars, slots, indexVars>>
    BY <1>5, <2>2 DEF ringVars, Active, SlotAt
  <2> QED BY <1>8, <2>1, <2>2 DEF DoGrow
<1>9. CASE Render
  <2>1. RenderEffect
    BY <1>9, NextBase, RendersEffect
  <2>2. ASSUME NEW s \in Slots PROVE slots'[s].z = slots[s].z
    <3>1. PICK v \in Vals : slots'[s] = [slots[s] EXCEPT !.val = v]
      BY <2>1 DEF RenderEffect
    <3> QED BY <1>1, <3>1 DEF SlotRec
  <2>3. Active' = Active /\ cellOf' = cellOf /\ cellSlots' = cellSlots
    BY <2>1 DEF RenderEffect, indexVars
  <2> QED BY <1>1, <2>2, <2>3 DEF IndexExact
<1>10. CASE Reset
  <2>1. Active' = {}
    BY <1>10, NextBase, ResetsEffect DEF ResetEffect
  <2>2. cellSlots' = [c \in CellKeys |-> {}]
    BY <1>10 DEF Reset
  <2> QED BY <2>1, <2>2 DEF IndexExact
<1>11. CASE Ingest \/ IngestFromBinary \/ Discard \/ Return \/ SetImportanceField \/ Tick
            \/ UNCHANGED vars
  <2>1. UNCHANGED <<ringVars, slots, indexVars>>
    BY <1>11
    DEF Ingest, IngestFromBinary, Begin, Discard, Return, SetImportanceField, Tick, vars
  <2> QED BY <1>5, <2>1 DEF ringVars, Active, SlotAt
<1> QED
  BY <1>3, <1>4, <1>7, <1>8, <1>9, <1>10, <1>11 DEF Next, CallStep

(* An exact cell index makes every culled copy complete.                   *)
LEMMA ExactIndexCulls ==
  ASSUME Base, IndexExact
  PROVE  CullingComplete
<1>1. \A s \in Active : slots[s].z \in Heights /\ Cell(slots[s].z) \in CellKeys
  BY ActiveOf, PointConstants DEF Base, TypeOK, SlotRec
<1>2. \A c \in CellKeys : cellSlots[c] = {s \in Active : Cell(slots[s].z) = c}
  BY DEF IndexExact
<1>3. ASSUME NEW cells \in SUBSET CellKeys, NEW seen \in SUBSET Heights
      PROVE  /\ {s \in Active : slots[s].z \in seen} \subseteq CulledCopy(cells, seen)
             /\ CulledCopy(cells, seen) \subseteq Active
  <2> DEFINE from(c) == IF c \in cells THEN cellSlots[c]
                        ELSE {s \in cellSlots[c] : slots[s].z \in seen}
  <2>1. CulledCopy(cells, seen) = UNION {from(c) : c \in CellKeys}
    BY DEF CulledCopy
  <2>2. \A s \in Active : slots[s].z \in seen => s \in from(Cell(slots[s].z))
    BY <1>1, <1>2
  <2>3. \A c \in CellKeys : from(c) \subseteq Active
    BY <1>2
  <2> HIDE DEF from
  <2> QED BY <1>1, <2>1, <2>2, <2>3
<1>4. \A c, d \in CellKeys : c # d => cellSlots[c] \cap cellSlots[d] = {}
  BY <1>2
<1> QED BY <1>3, <1>4 DEF CullingComplete

(* A spatially culled copy loses no visible kept point and emits no other, *)
(* through every eviction, swap, growth and reset.                         *)
THEOREM CullingIsComplete == Spec => []CullingComplete
<1> DEFINE Inv == Base /\ CallOK /\ IndexExact
<1>1. Init => IndexExact
  <2> SUFFICES ASSUME Init PROVE IndexExact
    OBVIOUS
  <2>1. Active = 0..(size - 1) /\ size = 0
    BY InitBase, ActiveOf DEF Init
  <2>2. Active = {}
    BY <2>1
  <2> QED BY <2>2 DEF IndexExact, Init
<1>2. Init => Inv
  BY <1>1, InitBase, CallOKInit
<1>3. Inv /\ [Next]_vars => Inv'
  BY NextBase, CallOKStep, IndexStep
<1>4. Inv => CullingComplete
  BY ExactIndexCulls
<1> HIDE DEF Inv
<1> QED BY <1>2, <1>3, <1>4, PTL DEF Spec
-----------------------------------------------------------------------------
(* The cached range                                                        *)

Covers(r, v) == r.min <= v /\ v <= r.max

(* A widened range covers what it covered, and both new values.            *)
LEMMA WidenCovers ==
  ASSUME NEW r \in RangeRec, NEW lo \in Int, NEW hi \in Int
  PROVE  /\ Widen(r, lo, hi).dirty = r.dirty
         /\ Widen(r, lo, hi).min <= lo /\ hi <= Widen(r, lo, hi).max
         /\ \A v \in Int : Covers(r, v) => Covers(Widen(r, lo, hi), v)
<1> DEFINE low == IF lo < r.min THEN lo ELSE r.min
           high == IF hi > r.max THEN hi ELSE r.max
<1>1. r.min \in Int /\ r.max \in Int
  BY DEF RangeRec
<1>2. /\ Widen(r, lo, hi).dirty = r.dirty
      /\ Widen(r, lo, hi).min = low /\ Widen(r, lo, hi).max = high
  BY DEF Widen, RangeRec
<1>3. low \in Int /\ high \in Int /\ low <= lo /\ low <= r.min /\ hi <= high /\ r.max <= high
  BY <1>1
<1> HIDE DEF low, high
<1> QED BY <1>1, <1>2, <1>3 DEF Covers

(* A rescanned range covers every value scanned.                           *)
LEMMA RangeOfCovers ==
  ASSUME NEW vals \in SUBSET Vals, NEW none, NEW v \in vals
  PROVE  Covers(RangeOf(vals, none), v)
<1>1. PICK lo \in vals : \A w \in vals : lo <= w
  BY ExtremaExist
<1>2. PICK hi \in vals : \A w \in vals : hi >= w
  BY ExtremaExist
<1> DEFINE least == CHOOSE x \in vals : \A w \in vals : x <= w
           most == CHOOSE x \in vals : \A w \in vals : x >= w
<1>3. \A w \in vals : least <= w
  BY <1>1
<1>4. \A w \in vals : most >= w
  BY <1>2
<1>5. least \in vals /\ most \in vals
  BY <1>1, <1>2
<1>6. RangeOf(vals, none).min = least /\ RangeOf(vals, none).max = most
  BY DEF RangeOf
<1> HIDE DEF least, most
<1>7. least \in Int /\ most \in Int /\ v \in Int
  BY <1>5, ConstantTypes
<1> QED BY <1>3, <1>4, <1>6, <1>7 DEF Covers

(* No step leaves a clean range that misses a kept value.                  *)
LEMMA RangeSoundStep ==
  ASSUME Base, CallOK, RangeSound, [Next]_vars
  PROVE  RangeSound'
<1>1. /\ range \in RangeRec /\ slots \in [Slots -> SlotRec] /\ call \in CallRec
      /\ Active \subseteq Slots /\ head \in Slots /\ Base'
  BY ActiveOf, NextBase DEF Base, TypeOK
<1>2. \A s \in Slots : slots[s].val \in Vals /\ slots[s].val \in Int
                      /\ slots'[s].val \in Vals /\ slots'[s].val \in Int
  <2>1. slots' \in [Slots -> SlotRec]
    BY <1>1 DEF Base, TypeOK
  <2> QED BY <1>1, <2>1, ConstantTypes DEF SlotRec
<1>3. tracked # NoKey /\ ~range.dirty => \A s \in Active : Covers(range, slots[s].val)
  BY DEF RangeSound, Covers
<1>4. ASSUME tracked' # NoKey /\ ~range'.dirty => \A s \in Active' : Covers(range', slots'[s].val)
      PROVE  RangeSound'
  BY <1>4 DEF RangeSound, Covers
<1>5. ASSUME NEW w \in Slots, NEW s \in Slots, WriteEffect(w, s),
             tracked # NoKey =>
               \E r \in RangeRec : /\ ~r.dirty => ~range.dirty
                                   /\ r.min = range.min /\ r.max = range.max
                                   /\ range' = Widen(r, slots'[s].val, slots'[s].val)
      PROVE  RangeSound'
  <2> SUFFICES ASSUME tracked # NoKey, ~range'.dirty, NEW t \in Active'
               PROVE  Covers(range', slots'[t].val)
    BY <1>4, <1>5 DEF WriteEffect
  <2>1. PICK r \in RangeRec : /\ ~r.dirty => ~range.dirty
                             /\ r.min = range.min /\ r.max = range.max
                             /\ range' = Widen(r, slots'[s].val, slots'[s].val)
    BY <1>5
  <2>2. ~range.dirty
    BY <1>2, <2>1, WidenCovers
  <2>3. CASE t = s
    BY <1>2, <2>1, <2>3, WidenCovers DEF Covers
  <2>4. CASE t # s
    <3>1. \E u \in Active : slots'[t] = slots[u]
      BY <1>1, <1>5, <2>4, WriteSlots, SwappedSlots DEF WriteEffect
    <3>2. PICK u \in Active : slots'[t] = slots[u]
      BY <3>1
    <3>3. Covers(r, slots[u].val)
      BY <1>3, <2>1, <2>2 DEF Covers
    <3> QED BY <1>1, <1>2, <2>1, <3>2, <3>3, WidenCovers
  <2> QED BY <2>3, <2>4
<1>6. CASE Append1
  <2>1. WriteEffect(head, SlotAt(size)) /\ SlotAt(size) \in Slots
    BY <1>6, Append1Effect, ActiveOf
  <2>2. range' = RangeAfterAdd(slots'[SlotAt(size)].val)
    BY <1>6 DEF Append1
  <2> QED BY <1>1, <1>5, <2>1, <2>2 DEF RangeAfterAdd
<1>7. CASE Overwrite
  <2>1. PICK w \in Slots : OverwriteAt(w) /\ WriteEffect(w, head)
    BY <1>7, OverwriteEffect
  <2> DEFINE old == Swapped(w)[head].val
             r == [range EXCEPT !.dirty = @ \/ old = range.min \/ old = range.max]
  <2>2. range' = RangeAfterOverwrite(old, slots'[head].val)
    BY <2>1 DEF OverwriteAt
  <2>3. r \in RangeRec /\ r.min = range.min /\ r.max = range.max
    BY <1>1 DEF RangeRec
  <2>4. ~r.dirty => ~range.dirty
    BY <1>1 DEF RangeRec
  <2>5. tracked # NoKey => range' = Widen(r, slots'[head].val, slots'[head].val)
    BY <2>2 DEF RangeAfterOverwrite
  <2> HIDE DEF r
  <2> QED BY <1>1, <1>5, <2>1, <2>3, <2>4, <2>5
<1>8. CASE Return
  <2>1. /\ range' = Widen(range, call.hint.min, call.hint.max)
        /\ call.hint.min \in Int /\ call.hint.max \in Int
        /\ tracked' = tracked /\ slots' = slots /\ Active' = Active
    BY <1>1, <1>8 DEF Return, CallRec, ringVars, Active, SlotAt
  <2> QED BY <1>1, <1>2, <1>3, <1>4, <2>1, WidenCovers
<1>9. CASE GrowEffect
  <2>1. \A i \in Active : SlotAt(i) \in Active /\ slots'[i] = slots[SlotAt(i)]
    BY <1>9, ActiveOf DEF GrowEffect, Unrolled, Slots
  <2>2. Active' = Active /\ range' = range /\ tracked' = tracked
    BY <1>9 DEF GrowEffect
  <2> QED BY <1>3, <1>4, <2>1, <2>2
<1>10. ASSUME UNCHANGED <<slots, Active, range, tracked>> PROVE RangeSound'
  BY <1>3, <1>4, <1>10
<1>11. CASE GrowForCall
  <2>1. Grow /\ UNCHANGED <<tracked, range, dropped, writeSeq>>
    BY <1>11 DEF GrowForCall
  <2> QED BY <1>1, <1>9, <1>10, <2>1, GrowsEffect DEF NoEffect
<1>12. CASE DoGrow
  <2>1. UNCHANGED <<tracked, range, dropped, writeSeq>>
    BY <1>12 DEF DoGrow
  <2>2. CASE Grow
    BY <1>1, <1>9, <1>10, <2>1, <2>2, GrowsEffect DEF NoEffect
  <2>3. CASE UNCHANGED <<ringVars, slots, indexVars>>
    BY <1>10, <2>1, <2>3 DEF ringVars, Active, SlotAt
  <2> QED BY <1>12, <2>2, <2>3 DEF DoGrow
<1>13. CASE Render
  <2>1. PICK colorBy \in Colors : Render!(colorBy)
    BY <1>13 DEF Render
  <2> DEFINE vals == {slots'[s].val : s \in Active}
             unknown == [min |-> Inf, max |-> -Inf, dirty |-> TRUE]
  <2>2. tracked' = colorBy /\ Active' = Active /\ vals \in SUBSET Vals
    <3>1. RenderEffect
      BY <1>1, <1>13, RendersEffect
    <3> QED BY <1>1, <1>2, <2>1, <3>1 DEF RenderEffect
  <2>3. CASE colorBy = NoKey
    BY <1>4, <2>2, <2>3
  <2>4. CASE colorBy # NoKey /\ colorBy = tracked /\ ~range.dirty
    <3>1. range' = range /\ slots' = slots
      BY <2>1, <2>4
    <3> QED BY <1>10, <2>2, <2>4, <3>1
  <2>5. CASE colorBy # NoKey /\ ~(colorBy = tracked /\ ~range.dirty)
    <3>1. \E none \in RangeRec : range' = RangeOf(vals, none)
      <4>1. Inf \in Int /\ -Inf \in Int
        BY InfIsLarge
      <4>2. unknown \in RangeRec /\ [min |-> 0, max |-> 1, dirty |-> FALSE] \in RangeRec
        BY <4>1 DEF RangeRec
      <4>3. [unknown EXCEPT !.dirty = FALSE] \in RangeRec
        <5> HIDE DEF unknown
        <5> QED BY <4>2 DEF RangeRec
      <4> QED BY <2>1, <2>5, <4>2, <4>3
    <3>2. \A s \in Active : slots'[s].val \in vals
      OBVIOUS
    <3> HIDE DEF vals
    <3> QED BY <1>4, <2>2, <3>1, <3>2, RangeOfCovers
  <2> QED BY <2>3, <2>4, <2>5
<1>14. CASE Reset
  BY <1>4, <1>14 DEF Reset
<1>15. CASE Ingest \/ IngestFromBinary \/ Discard \/ SetImportanceField \/ Tick \/ UNCHANGED vars
  <2>1. UNCHANGED <<ringVars, slots, tracked, range>>
    BY <1>15 DEF Ingest, IngestFromBinary, Begin, Discard, SetImportanceField, Tick, vars
  <2> QED BY <1>10, <2>1 DEF ringVars, Active, SlotAt
<1> QED
  BY <1>6, <1>7, <1>8, <1>11, <1>12, <1>13, <1>14, <1>15 DEF Next, CallStep

(* The cached range, when it is not marked dirty, contains the colour      *)
(* value of every kept point.                                              *)
THEOREM RangeIsSound == Spec => []RangeSound
<1> DEFINE Inv == Base /\ CallOK /\ RangeSound
<1>1. Init => Inv
  BY InitBase, CallOKInit DEF Init, RangeSound
<1>2. Inv /\ [Next]_vars => Inv'
  BY NextBase, CallOKStep, RangeSoundStep
<1>3. Inv => RangeSound
  OBVIOUS
<1> HIDE DEF Inv
<1> QED BY <1>1, <1>2, <1>3, PTL DEF Spec
(* The strengthening that makes RangeExact inductive, for a ring that drops *)
(* the oldest.  Each end of a clean range is the value of a kept point, and *)
(* the range is the empty one while there is none.  A hint of the call      *)
(* under way lies in a clean range, or the point it came from is yet to be  *)
(* written; so it is the last point's write that lets Return widen nothing. *)
Coloured == mode = "drop-oldest" /\ tracked # NoKey

Attained ==
  Coloured =>
    /\ Active = {} => ~range.dirty /\ range.min = Inf /\ range.max = -Inf
    /\ Active # {} /\ ~range.dirty =>
         /\ \E s \in Active : slots[s].val = range.min
         /\ \E s \in Active : slots[s].val = range.max

Due(v) == \E i \in DOMAIN call.pts :
            tracked \in DOMAIN call.pts[i].attrs /\ call.pts[i].attrs[tracked] = v

HintDue ==
  Coloured /\ ~range.dirty /\ call # Idle =>
    /\ range.min <= call.hint.min \/ Due(call.hint.min)
    /\ call.hint.max <= range.max \/ Due(call.hint.max)

CallBegun == call # Idle /\ Active = {} => call.pts # <<>>

(* A later element of a sequence is in its tail.                           *)
LEMMA TailElement ==
  ASSUME NEW S, NEW q \in Seq(S), NEW i \in 1..Len(q), i # 1
  PROVE  i - 1 \in DOMAIN Tail(q) /\ Tail(q)[i - 1] = q[i]
<1>1. q # <<>> /\ Len(q) \in Nat
  OBVIOUS
<1>2. Len(Tail(q)) = Len(q) - 1 /\ Tail(q) \in Seq(S)
  BY <1>1
<1>3. i - 1 \in 1..(Len(q) - 1) /\ DOMAIN Tail(q) = 1..(Len(q) - 1)
  BY <1>1, <1>2
<1>4. Tail(q)[i - 1] = q[(i - 1) + 1]
  BY <1>1, <1>3
<1> QED BY <1>3, <1>4

(* A written value is an end of the range or lies inside it, and so does   *)
(* what the hint says of that point.                                       *)
LEMMA HintWritten ==
  ASSUME Base, CallOK, HintDue, NEW w \in Slots, NEW s \in Slots, WriteEffect(w, s),
         mode' = mode, NEW r \in RangeRec, ~r.dirty => ~range.dirty,
         r.min = range.min, r.max = range.max,
         tracked # NoKey => range' = Widen(r, slots'[s].val, slots'[s].val),
         slots'[s].val \in Int
  PROVE  HintDue' /\ CallBegun'
<1> DEFINE p == Head(call.pts)
           v == slots'[s].val
<1>1. /\ call \in CallRec /\ call.pts \in Seq(Points) /\ call.pts # <<>> /\ call # Idle
      /\ call' = [call EXCEPT !.pts = Tail(@)] /\ tracked' = tracked /\ range \in RangeRec
  BY DEF WriteEffect, Writing, NextPoint, Base, TypeOK, CallRec
<1>2. /\ call'.hint = call.hint /\ call'.pts = Tail(call.pts)
      /\ call.hint.min \in Int /\ call.hint.max \in Int
  BY <1>1 DEF CallRec
<1>3. s \in Active'
  BY DEF WriteEffect
<1>4. CallBegun'
  BY <1>3 DEF CallBegun
<1>5. ASSUME tracked # NoKey, NEW x \in Int, Due(x) PROVE Due(x)' \/ x = v
  <2>1. PICK i \in DOMAIN call.pts :
          tracked \in DOMAIN call.pts[i].attrs /\ call.pts[i].attrs[tracked] = x
    BY <1>5 DEF Due
  <2>2. i \in 1..Len(call.pts) /\ Len(call.pts) \in Nat
    BY <1>1
  <2>3. CASE i = 1
    <3>1. p = call.pts[1]
      BY <1>1
    <3>2. v = Get(p.attrs, tracked)
      <4>1. slots'[s] = Written(Swapped(w)[s], p, call.kind, call.chans)
        BY WriteSlots
      <4>2. Swapped(w)[s] \in SlotRec
        BY SwappedSlots
      <4> HIDE DEF p
      <4> QED BY <1>5, <4>1, <4>2 DEF Written, SlotRec
    <3> QED BY <2>1, <2>3, <3>1, <3>2 DEF Get
  <2>4. CASE i # 1
    <3>1. i - 1 \in DOMAIN Tail(call.pts) /\ Tail(call.pts)[i - 1] = call.pts[i]
      BY <1>1, <2>2, <2>4, TailElement
    <3>2. Due(x)' <=> \E j \in DOMAIN Tail(call.pts) :
            tracked \in DOMAIN Tail(call.pts)[j].attrs /\ Tail(call.pts)[j].attrs[tracked] = x
      BY <1>1, <1>2 DEF Due
    <3> QED BY <2>1, <3>1, <3>2
  <2> QED BY <2>3, <2>4
<1>6. ASSUME (Coloured /\ ~range.dirty)' PROVE HintDue'
  <2>1. Coloured /\ tracked # NoKey
    BY <1>1, <1>6 DEF Coloured
  <2>2. ~r.dirty /\ range' = Widen(r, v, v) /\ v \in Int
    BY <1>6, <2>1, WidenCovers
  <2>3. range'.min <= v /\ v <= range'.max
    BY <2>2, WidenCovers
  <2>4. range'.min \in Int /\ range'.max \in Int /\ range'.min <= range.min /\ range.max <= range'.max
    BY <2>2, <1>1 DEF Widen, RangeRec
  <2>5. /\ range.min <= call.hint.min \/ Due(call.hint.min)
        /\ call.hint.max <= range.max \/ Due(call.hint.max)
    BY <1>1, <2>1, <2>2 DEF HintDue
  <2>6. range'.min <= call.hint.min \/ Due(call.hint.min)'
    BY <1>1, <1>2, <1>5, <2>1, <2>3, <2>4, <2>5 DEF RangeRec
  <2>7. call.hint.max <= range'.max \/ Due(call.hint.max)'
    BY <1>1, <1>2, <1>5, <2>1, <2>3, <2>4, <2>5 DEF RangeRec
  <2> HIDE DEF v
  <2> QED BY <1>2, <2>6, <2>7 DEF HintDue, Due
<1> QED BY <1>4, <1>6 DEF HintDue

(* The same, of a step that leaves the call's points and the range alone.  *)
LEMMA HintKept ==
  ASSUME HintDue, UNCHANGED <<mode, tracked, range>>, call' = call \/ call' = Idle
  PROVE  HintDue'
<1>1. CASE call' = Idle
  BY <1>1 DEF HintDue
<1>2. CASE call' = call
  BY <1>2 DEF HintDue, Due, Coloured
<1> QED BY <1>1, <1>2

(* A call begins with its hint due, or with none.                          *)
LEMMA HintBegun ==
  ASSUME Base, Attained, NEW kind, NEW chans, NEW pts \in Chunks, NEW hint,
         Begin(kind, chans, pts, hint),
         hint = Idle.hint \/ \E given \in BOOLEAN : hint = Hint(pts, chans, given)
  PROVE  HintDue' /\ CallBegun'
<1>1. /\ call'.pts = pts /\ call'.hint = hint /\ pts # <<>>
      /\ UNCHANGED <<mode, tracked, range>>
  BY DEF Begin, policyVars, Chunks
<1>2. call'.pts # <<>>
  BY <1>1
<1> DEFINE vs == {pts[i].attrs[tracked] : i \in {j \in DOMAIN pts : tracked \in DOMAIN pts[j].attrs}}
           least == CHOOSE v \in vs : \A w \in vs : v <= w
           most == CHOOSE v \in vs : \A w \in vs : v >= w
<1>3. ASSUME NEW v \in vs
      PROVE  \E i \in DOMAIN pts : tracked \in DOMAIN pts[i].attrs /\ pts[i].attrs[tracked] = v
  OBVIOUS
<1>4. CASE hint = Idle.hint
  <2>1. ASSUME Coloured, ~range.dirty PROVE range.min <= Inf /\ -Inf <= range.max
    <3>1. \A s \in Active : slots[s].val \in Vals
      BY ActiveOf DEF Base, TypeOK, SlotRec
    <3> QED BY <2>1, <3>1, InfIsLarge DEF Attained
  <2>2. hint.min = Inf /\ hint.max = -Inf
    BY <1>4 DEF Idle
  <2> QED BY <1>1, <1>2, <2>1, <2>2 DEF HintDue, Coloured, CallBegun
<1>5. CASE vs # {} /\ hint = [min |-> least, max |-> most]
  <2>1. vs \in SUBSET Vals
    <3>1. ASSUME NEW v \in vs PROVE v \in Vals
      <4>1. PICK i \in DOMAIN pts : tracked \in DOMAIN pts[i].attrs /\ pts[i].attrs[tracked] = v
        OBVIOUS
      <4>2. pts[i].attrs \in AttrSets
        BY <4>1, ConstantTypes DEF Chunks
      <4> QED BY <4>1, <4>2 DEF Vals, AttrVals
    <3> QED BY <3>1
  <2>2. least \in vs /\ most \in vs
    <3>1. PICK lo \in vs : \A w \in vs : lo <= w
      BY <1>5, <2>1, ExtremaExist
    <3>2. PICK hi \in vs : \A w \in vs : hi >= w
      BY <1>5, <2>1, ExtremaExist
    <3> HIDE DEF vs
    <3> QED BY <3>1, <3>2
  <2>3. Due(hint.min)' /\ Due(hint.max)'
    <3>1. hint.min = least /\ hint.max = most
      BY <1>5
    <3>2. /\ \E i \in DOMAIN pts : tracked \in DOMAIN pts[i].attrs /\ pts[i].attrs[tracked] = least
          /\ \E i \in DOMAIN pts : tracked \in DOMAIN pts[i].attrs /\ pts[i].attrs[tracked] = most
      BY <1>3, <2>2
    <3> HIDE DEF least, most
    <3> QED BY <1>1, <3>1, <3>2 DEF Due
  <2> QED BY <1>1, <1>2, <2>3 DEF HintDue, CallBegun, Due
<1>6. hint = Idle.hint \/ (vs # {} /\ hint = [min |-> least, max |-> most])
  BY DEF Hint
<1> QED BY <1>4, <1>5, <1>6

(* A write leaves each end of a clean range with a kept point: the value   *)
(* written, or one whose point was neither at the head nor lost.           *)
LEMMA AttainedWritten ==
  ASSUME Base, CallOK, Attained, NEW w \in Slots, NEW s \in Slots, WriteEffect(w, s),
         mode' = mode, NEW r \in RangeRec, ~r.dirty => ~range.dirty,
         r.min = range.min, r.max = range.max,
         s \in Active /\ tracked # NoKey /\ ~r.dirty =>
           slots[w].val # range.min /\ slots[w].val # range.max,
         s \in Active => w \in Active,
         tracked # NoKey => range' = Widen(r, slots'[s].val, slots'[s].val)
  PROVE  Attained'
<1> DEFINE v == slots'[s].val
<1>1. /\ range \in RangeRec /\ Active \subseteq Slots /\ head \in Slots
      /\ s \in Active' /\ tracked' = tracked /\ Active' = Active \cup {s}
  BY ActiveOf DEF WriteEffect, Base, TypeOK
<1>2. v \in Vals /\ v \in Int /\ -Inf < v /\ v < Inf
  <2>1. slots'[s] = Written(Swapped(w)[s], Head(call.pts), call.kind, call.chans)
    BY WriteSlots
  <2>2. Written(Swapped(w)[s], Head(call.pts), call.kind, call.chans) \in SlotRec
    BY WriteSlots, SwappedSlots, WrittenType DEF Base, TypeOK
  <2> QED BY <2>1, <2>2, InfIsLarge DEF SlotRec
<1>3. ASSUME NEW u \in Active, s \in Active => u # w
      PROVE  \E t \in Active' : slots'[t].val = slots[u].val
  <2>1. CASE s \notin Active
    <3>1. w = head /\ u # s
      BY <2>1, <1>3 DEF WriteEffect
    <3>2. slots'[u] = slots[u]
      BY <1>1, <3>1, WriteSlots, SwappedSlots
    <3> QED BY <1>1, <3>2
  <2>2. CASE s \in Active /\ u = head
    <3>1. s = head /\ w # s
      BY <2>2, <1>3 DEF WriteEffect
    <3>2. slots'[w] = slots[u]
      BY <1>1, <2>2, <3>1, WriteSlots, SwappedSlots
    <3> QED BY <1>1, <2>2, <3>2
  <2>3. CASE s \in Active /\ u # head
    <3>1. s = head /\ u # w
      BY <2>3, <1>3 DEF WriteEffect
    <3>2. slots'[u] = slots[u]
      BY <1>1, <2>3, <3>1, WriteSlots, SwappedSlots
    <3> QED BY <1>1, <3>2
  <2> QED BY <2>1, <2>2, <2>3
<1>4. SUFFICES ASSUME Coloured', ~range'.dirty
               PROVE  /\ \E t \in Active' : slots'[t].val = range'.min
                      /\ \E t \in Active' : slots'[t].val = range'.max
  BY <1>1 DEF Attained
<1>5. Coloured /\ tracked # NoKey
  BY <1>1, <1>4 DEF Coloured
<1>6. ~r.dirty /\ ~range.dirty
  BY <1>2, <1>4, <1>5, WidenCovers
<1>7. /\ range'.min = IF v < range.min THEN v ELSE range.min
      /\ range'.max = IF v > range.max THEN v ELSE range.max
  BY <1>5 DEF Widen, RangeRec
<1>8. CASE Active = {}
  <2>1. range.min = Inf /\ range.max = -Inf
    BY <1>5, <1>8 DEF Attained
  <2>2. range'.min = v /\ range'.max = v
    BY <1>2, <1>7, <2>1
  <2> QED BY <1>1, <2>2
<1>9. CASE Active # {}
  <2>1. PICK a \in Active : slots[a].val = range.min
    BY <1>5, <1>6, <1>9 DEF Attained
  <2>2. PICK b \in Active : slots[b].val = range.max
    BY <1>5, <1>6, <1>9 DEF Attained
  <2>3. \E t \in Active' : slots'[t].val = range.min
    BY <1>3, <1>5, <1>6, <2>1
  <2>4. \E t \in Active' : slots'[t].val = range.max
    BY <1>3, <1>5, <1>6, <2>2
  <2> QED BY <1>1, <1>7, <2>3, <2>4
<1> QED BY <1>8, <1>9

(* No step leaves a clean range with an end that no kept point has.        *)
LEMMA RangeExactStep ==
  ASSUME Base, CallOK, Attained, HintDue, CallBegun, [Next]_vars
  PROVE  Attained' /\ HintDue' /\ CallBegun'
<1>1. /\ range \in RangeRec /\ slots \in [Slots -> SlotRec] /\ call \in CallRec
      /\ Active \subseteq Slots /\ head \in Slots /\ Base'
  BY ActiveOf, NextBase DEF Base, TypeOK
<1>2. \A s \in Slots : slots[s].val \in Vals /\ slots'[s].val \in Vals /\ slots'[s].val \in Int
  <2>1. slots' \in [Slots -> SlotRec]
    BY <1>1 DEF Base, TypeOK
  <2> QED BY <1>1, <2>1, ConstantTypes DEF SlotRec
<1>3. ASSUME UNCHANGED <<slots, Active, range, tracked, mode>> PROVE Attained'
  BY <1>3 DEF Attained, Coloured
<1>4. ASSUME UNCHANGED Active, call' = call \/ call' = Idle PROVE CallBegun'
  BY <1>4 DEF CallBegun
<1>5. CASE Append1
  <2>1. WriteEffect(head, SlotAt(size)) /\ SlotAt(size) \in Slots /\ SlotAt(size) \notin Active
    BY <1>5, Append1Effect, ActiveOf
  <2>2. range' = RangeAfterAdd(slots'[SlotAt(size)].val) /\ mode' = mode
    BY <1>5 DEF Append1, policyVars
  <2>3. tracked # NoKey => range' = Widen(range, slots'[SlotAt(size)].val, slots'[SlotAt(size)].val)
    BY <2>2 DEF RangeAfterAdd
  <2>4. Attained'
    BY <1>1, <2>1, <2>2, <2>3, AttainedWritten
  <2> QED BY <1>1, <1>2, <2>1, <2>2, <2>3, <2>4, HintWritten
<1>6. CASE Overwrite
  <2>1. PICK w \in Slots : OverwriteAt(w) /\ WriteEffect(w, head) /\ {w, head} \subseteq Active
    BY <1>6, OverwriteEffect
  <2> DEFINE r == [range EXCEPT !.dirty = @ \/ slots[w].val = range.min \/ slots[w].val = range.max]
  <2>2. Swapped(w)[head] = slots[w]
    BY <1>1, SwappedSlots
  <2>3. range' = RangeAfterOverwrite(slots[w].val, slots'[head].val) /\ mode' = mode
    BY <1>6, <2>1, <2>2 DEF OverwriteAt, Overwrite, policyVars
  <2>4. r \in RangeRec /\ r.min = range.min /\ r.max = range.max
    BY <1>1 DEF RangeRec
  <2>5. ~r.dirty => ~range.dirty /\ slots[w].val # range.min /\ slots[w].val # range.max
    BY <1>1 DEF RangeRec
  <2>6. tracked # NoKey => range' = Widen(r, slots'[head].val, slots'[head].val)
    BY <2>3 DEF RangeAfterOverwrite
  <2> HIDE DEF r
  <2>7. Attained'
    BY <1>1, <2>1, <2>3, <2>4, <2>5, <2>6, AttainedWritten
  <2> QED BY <1>1, <1>2, <2>1, <2>3, <2>4, <2>5, <2>6, <2>7, HintWritten
<1>7. CASE Return
  <2>1. /\ range' = Widen(range, call.hint.min, call.hint.max) /\ call' = Idle
        /\ call # Idle /\ call.pts = <<>>
        /\ call.hint.min \in Int /\ call.hint.max \in Int
        /\ UNCHANGED <<slots, Active, tracked, mode>>
    BY <1>1, <1>7 DEF Return, CallRec, ringVars, policyVars, Active, SlotAt
  <2>2. Active # {}
    BY <2>1 DEF CallBegun
  <2>3. range'.dirty = range.dirty
    BY <1>1, <2>1, WidenCovers
  <2>4. ASSUME Coloured, ~range.dirty PROVE range'.min = range.min /\ range'.max = range.max
    <3>1. \A v : ~Due(v)
      BY <2>1 DEF Due
    <3>2. range.min <= call.hint.min /\ call.hint.max <= range.max
      BY <2>1, <2>4, <3>1 DEF HintDue
    <3> QED BY <1>1, <2>1, <3>2 DEF Widen, RangeRec
  <2>5. Attained'
    BY <2>1, <2>2, <2>3, <2>4 DEF Attained, Coloured
  <2> QED BY <1>4, <2>1, <2>5 DEF HintDue
<1>8. ASSUME GrowEffect, mode' = mode PROVE Attained'
  <2>1. \A u \in Active : \E i \in Active : slots'[i] = slots[u]
    <3>1. Active = 0..(size - 1) /\ Active = {SlotAt(i) : i \in 0..(size - 1)}
      BY ActiveOf DEF Active
    <3>2. \A i \in Active : SlotAt(i) \in Active /\ slots'[i] = slots[SlotAt(i)]
      BY <1>8, ActiveOf DEF GrowEffect, Unrolled, Slots
    <3> QED BY <3>1, <3>2
  <2>2. Active' = Active /\ range' = range /\ tracked' = tracked
    BY <1>8 DEF GrowEffect
  <2> SUFFICES ASSUME Coloured, ~range.dirty, Active # {}
               PROVE  /\ \E s \in Active : slots'[s].val = range.min
                      /\ \E s \in Active : slots'[s].val = range.max
    BY <1>8, <2>2 DEF Attained, Coloured
  <2> QED BY <2>1 DEF Attained
<1>9. CASE GrowForCall
  <2>1. Grow /\ UNCHANGED <<tracked, range, dropped, writeSeq, mode, call>>
    BY <1>9 DEF GrowForCall, policyVars
  <2>2. Attained' /\ UNCHANGED Active
    BY <1>1, <1>3, <1>8, <2>1, GrowsEffect DEF NoEffect, GrowEffect
  <2> QED BY <1>4, <2>1, <2>2, HintKept
<1>10. CASE DoGrow
  <2>1. UNCHANGED <<tracked, range, dropped, writeSeq, mode, call>>
    BY <1>10 DEF DoGrow, policyVars
  <2>2. Attained' /\ UNCHANGED Active
    <3>1. CASE Grow
      BY <1>1, <1>3, <1>8, <2>1, <3>1, GrowsEffect DEF NoEffect, GrowEffect
    <3>2. CASE UNCHANGED <<ringVars, slots, indexVars>>
      BY <1>3, <2>1, <3>2 DEF ringVars, Active, SlotAt
    <3> QED BY <1>10, <3>1, <3>2 DEF DoGrow
  <2> QED BY <1>4, <2>1, <2>2, HintKept
<1>11. CASE Render
  <2>1. PICK colorBy \in Colors : Render!(colorBy)
    BY <1>11 DEF Render
  <2> DEFINE vals == {slots'[s].val : s \in Active}
             unknown == [min |-> Inf, max |-> -Inf, dirty |-> TRUE]
             least == CHOOSE v \in vals : \A u \in vals : v <= u
             most == CHOOSE v \in vals : \A u \in vals : v >= u
  <2>2. /\ tracked' = colorBy /\ Active' = Active /\ vals \in SUBSET Vals
        /\ call = Idle /\ call' = Idle /\ mode' = mode
    <3>1. RenderEffect
      BY <1>1, <1>11, RendersEffect
    <3>2. call' = call /\ call = Idle /\ mode' = mode
      BY <2>1 DEF policyVars
    <3> QED BY <1>1, <1>2, <2>1, <3>1, <3>2 DEF RenderEffect
  <2>3. HintDue' /\ CallBegun'
    BY <2>2 DEF HintDue, CallBegun
  <2>4. CASE colorBy = NoKey
    BY <2>2, <2>3, <2>4 DEF Attained, Coloured
  <2>5. CASE colorBy # NoKey /\ colorBy = tracked /\ ~range.dirty
    <3>1. range' = range /\ slots' = slots
      BY <2>1, <2>5
    <3> QED BY <1>3, <2>2, <2>3, <2>5, <3>1
  <2>6. CASE colorBy # NoKey /\ ~(colorBy = tracked /\ ~range.dirty) /\ vals # {}
    <3>1. \E none : range' = RangeOf(vals, none)
      BY <2>1, <2>6
    <3>2. range'.min = least /\ range'.max = most
      <4> HIDE DEF vals
      <4> QED BY <2>6, <3>1 DEF RangeOf
    <3>3. least \in vals /\ most \in vals
      <4>1. PICK lo \in vals : \A u \in vals : lo <= u
        BY <2>2, <2>6, ExtremaExist
      <4>2. PICK hi \in vals : \A u \in vals : hi >= u
        BY <2>2, <2>6, ExtremaExist
      <4> HIDE DEF vals
      <4> QED BY <4>1, <4>2
    <3> HIDE DEF least, most
    <3> QED BY <2>2, <2>3, <3>2, <3>3 DEF Attained
  <2>7. CASE colorBy # NoKey /\ ~(colorBy = tracked /\ ~range.dirty) /\ vals = {}
    <3>1. Active = {}
      BY <2>7
    <3>2. Coloured => colorBy # tracked
      BY <2>7, <3>1 DEF Attained
    <3>3. Coloured' => Coloured \/ tracked = NoKey
      BY <2>2 DEF Coloured
    <3>4. Coloured' => range' = [unknown EXCEPT !.dirty = FALSE]
      <4>1. Coloured' => colorBy # tracked
        BY <2>2, <2>7, <3>2, <3>3
      <4>2. Coloured' => range' = RangeOf(vals, [unknown EXCEPT !.dirty = FALSE])
        BY <2>1, <2>7, <4>1
      <4> HIDE DEF vals
      <4> QED BY <2>7, <4>2 DEF RangeOf
    <3> QED BY <2>2, <2>3, <3>1, <3>4 DEF Attained
  <2> QED BY <2>4, <2>5, <2>6, <2>7
<1>12. CASE Reset
  <2>1. call = Idle
    BY <1>12 DEF Reset
  <2>2. call' = call
    BY <1>12 DEF Reset
  <2>3. tracked' = NoKey
    BY <1>12 DEF Reset
  <2> QED BY <2>1, <2>2, <2>3 DEF Attained, Coloured, HintDue, CallBegun
<1>13. CASE Ingest
  <2>1. PICK pts \in Chunks : Begin("object", {}, pts, Idle.hint)
    BY <1>13 DEF Ingest
  <2>2. UNCHANGED <<slots, Active, range, tracked, mode>>
    BY <2>1 DEF Begin, ringVars, policyVars, Active, SlotAt
  <2> QED BY <1>3, <2>1, <2>2, HintBegun
<1>14. CASE IngestFromBinary
  <2>1. PICK pts \in Chunks, chans \in SUBSET Keys, given \in Hints :
               Begin("binary", chans, pts, Hint(pts, chans, given))
    BY <1>14 DEF IngestFromBinary
  <2>2. UNCHANGED <<slots, Active, range, tracked, mode>>
    BY <2>1 DEF Begin, ringVars, policyVars, Active, SlotAt
  <2>3. given \in BOOLEAN
    BY BoundConstants
  <2> QED BY <1>3, <2>1, <2>2, <2>3, HintBegun
<1>15. CASE SetImportanceField \/ Tick \/ UNCHANGED vars
  <2>1. UNCHANGED <<ringVars, slots, tracked, range, mode, call>>
    BY <1>15 DEF SetImportanceField, Tick, vars, policyVars
  <2> QED BY <1>3, <1>4, <2>1, HintKept DEF ringVars, Active, SlotAt
<1>16. CASE Discard
  <2>1. UNCHANGED <<ringVars, slots, tracked, range, mode>> /\ mode # "drop-oldest" /\ size = capacity
    BY <1>16 DEF Discard, policyVars
  <2>2. Active' = Active /\ Active # {}
    BY <2>1, ActiveOf DEF ringVars, Active, SlotAt, Base, TypeOK
  <2> QED BY <1>3, <2>1, <2>2 DEF HintDue, Coloured, CallBegun
<1> QED
  BY <1>5, <1>6, <1>7, <1>9, <1>10, <1>11, <1>12, <1>13, <1>14, <1>15, <1>16 DEF Next, CallStep

(* Where every point of a chunk is written, a range that is not dirty is   *)
(* that of the points kept, whatever evictions, swaps and hints came.      *)
THEOREM RangeIsExact == Spec => []RangeExact
<1> DEFINE Inv == Base /\ CallOK /\ RangeSound /\ Attained /\ HintDue /\ CallBegun
<1>1. Init => Inv
  BY InitBase, CallOKInit DEF Init, RangeSound, Attained, Coloured, HintDue, CallBegun
<1>2. Inv /\ [Next]_vars => Inv'
  BY NextBase, CallOKStep, RangeSoundStep, RangeExactStep
<1>3. Inv => RangeExact
  <2> SUFFICES ASSUME Base, RangeSound, Attained, Coloured, ~range.dirty, size > 0
               PROVE  LET vals == {slots[s].val : s \in Active}
                      IN  /\ range.min \in vals /\ range.max \in vals
                          /\ \A v \in vals : range.min <= v /\ v <= range.max
    BY DEF RangeExact, Coloured
  <2>1. Active # {}
    BY ActiveOf
  <2>2. /\ \E s \in Active : slots[s].val = range.min
        /\ \E s \in Active : slots[s].val = range.max
    BY <2>1 DEF Attained
  <2>3. \A s \in Active : range.min <= slots[s].val /\ slots[s].val <= range.max
    BY DEF RangeSound, Coloured
  <2> QED BY <2>2, <2>3
<1> HIDE DEF Inv
<1> QED BY <1>1, <1>2, <1>3, PTL DEF Spec
-----------------------------------------------------------------------------
(* Growth and loss                                                         *)

(* The strengthening that makes NoEarlyDrop inductive: below the ceiling,  *)
(* the rest of the call fits, or will once the ring has grown to `need`.   *)
RoomForCall ==
  /\ ~Dynamic => capacity = MaxPoints
  /\ capacity < MaxPoints /\ call # Idle =>
       \/ size + Len(call.pts) <= capacity
       \/ size + Len(call.pts) <= call.need

(* With synchronous growth no step drops a point below the ceiling.        *)
LEMMA RoomStep ==
  ASSUME Dynamic => ~DeferGrowth, Base, RoomForCall, NoEarlyDrop, [Next]_vars
  PROVE  RoomForCall' /\ NoEarlyDrop'
<1>1. /\ size \in Nat /\ capacity \in Nat /\ MaxPoints \in Nat /\ size <= capacity
      /\ capacity <= MaxPoints /\ dropped \in Nat /\ call \in CallRec
      /\ call.pts \in Seq(Points) /\ call.need \in Nat /\ Len(call.pts) \in Nat
  BY ConstantTypes, ActiveOf DEF Base, TypeOK, RingShape, CallRec
<1>2. ASSUME UNCHANGED <<size, capacity, call, dropped>> PROVE RoomForCall' /\ NoEarlyDrop'
  BY <1>2 DEF RoomForCall, NoEarlyDrop
<1>3. ASSUME NEW kind, NEW chans, NEW pts \in Chunks, NEW hint, Begin(kind, chans, pts, hint)
      PROVE  RoomForCall' /\ NoEarlyDrop'
  <2>1. /\ call'.pts = pts /\ size' = size /\ capacity' = capacity /\ dropped' = dropped
        /\ call'.need = IF (CanGrow /\ size + Len(pts) > capacity) /\ ~DeferGrowth
                        THEN size + Len(pts) ELSE 0
    BY <1>3 DEF Begin, ringVars
  <2>2. Len(pts) \in Nat
    BY ChunkType
  <2>3. capacity < MaxPoints => Dynamic
    BY <1>1 DEF RoomForCall
  <2> QED BY <1>1, <2>1, <2>2, <2>3 DEF RoomForCall, NoEarlyDrop, CanGrow
<1>4. CASE Ingest \/ IngestFromBinary
  BY <1>3, <1>4 DEF Ingest, IngestFromBinary
<1>5. ASSUME Writing, NextPoint
      PROVE  /\ Len(call.pts) \in Nat \ {0} /\ Len(call'.pts) = Len(call.pts) - 1
             /\ call'.need = call.need /\ call # Idle
  <2>1. call.pts # <<>> /\ call # Idle
    BY <1>5 DEF Writing
  <2>2. call'.pts = Tail(call.pts) /\ call'.need = call.need
    BY <1>1, <1>5 DEF NextPoint, CallRec
  <2> QED BY <1>1, <2>1, <2>2
<1>6. CASE Append1
  <2>1. /\ Writing /\ NextPoint /\ size < capacity /\ size' = size + 1
        /\ capacity' = capacity /\ dropped' = dropped
    BY <1>6 DEF Append1
  <2>2. /\ size' + Len(call'.pts) = size + Len(call.pts) /\ call'.need = call.need
        /\ call # Idle /\ dropped = 0
    <3>1. /\ Len(call'.pts) = Len(call.pts) - 1 /\ Len(call.pts) \in Nat
          /\ call'.need = call.need /\ call # Idle
      BY <1>5, <2>1
    <3>2. dropped = 0
      BY <1>1, <2>1 DEF NoEarlyDrop
    <3>3. size' + Len(call'.pts) = size + Len(call.pts)
      <4> DEFINE old == Len(call.pts)
                 new == Len(call'.pts)
      <4>1. new = old - 1 /\ old \in Nat /\ size \in Nat /\ size' = size + 1
        BY <1>1, <2>1, <3>1
      <4> HIDE DEF old, new
      <4>2. size' + new = size + old
        BY <4>1
      <4> QED BY <4>2 DEF old, new
    <3> QED BY <3>1, <3>2, <3>3
  <2>3. RoomForCall'
    BY <2>1, <2>2 DEF RoomForCall
  <2>4. NoEarlyDrop'
    BY <2>1, <2>2 DEF NoEarlyDrop
  <2> QED BY <2>3, <2>4
<1>7. ASSUME Writing, size = capacity PROVE capacity = MaxPoints
  <2>1. capacity < MaxPoints => capacity >= call.need
    BY <1>1, <1>7 DEF Writing, MustGrow
  <2>2. call # Idle /\ Len(call.pts) > 0
    BY <1>1, <1>7 DEF Writing
  <2> QED BY <1>1, <1>7, <2>1, <2>2 DEF RoomForCall
<1>8. CASE Overwrite \/ Discard
  <2>1. /\ Writing /\ size = capacity /\ size' = size /\ capacity' = capacity
    BY <1>8 DEF Overwrite, Discard, ringVars
  <2>2. capacity = MaxPoints
    BY <1>7, <2>1
  <2> QED BY <1>1, <2>1, <2>2 DEF RoomForCall, NoEarlyDrop
<1>9. ASSUME Grow PROVE size' = size /\ capacity' \in capacity..MaxPoints
  <2>1. NewCapacity \in Int /\ NewCapacity <= MaxPoints
    <3>1. (capacity * GrowNum) \div GrowDen \in Int
      BY <1>1, RingConstants
    <3> QED BY <1>1, <3>1 DEF NewCapacity, Least
  <2> QED BY <1>1, <1>9, <2>1 DEF Grow, ringVars
<1>10. CASE GrowForCall
  <2>1. call' = call /\ dropped' = dropped /\ Grow
    BY <1>10 DEF GrowForCall
  <2> QED BY <1>1, <1>9, <2>1 DEF RoomForCall, NoEarlyDrop
<1>11. CASE DoGrow
  <2>1. call' = call /\ dropped' = dropped /\ call = Idle
    BY <1>11 DEF DoGrow
  <2>2. size' = size /\ capacity' \in capacity..MaxPoints
    BY <1>1, <1>9, <1>11 DEF DoGrow, ringVars
  <2> QED BY <1>1, <2>1, <2>2 DEF RoomForCall, NoEarlyDrop
<1>12. CASE Return
  <2>1. call' = Idle /\ size' = size /\ capacity' = capacity /\ dropped' = dropped
    BY <1>12 DEF Return, ringVars
  <2> QED BY <2>1 DEF RoomForCall, NoEarlyDrop
<1>13. CASE Reset
  <2>1. dropped' = 0 /\ capacity' = capacity /\ call' = call /\ call = Idle
    BY <1>13 DEF Reset, ClearRing
  <2> QED BY <2>1 DEF RoomForCall, NoEarlyDrop
<1>14. CASE Render \/ SetImportanceField \/ Tick \/ UNCHANGED vars
  BY <1>2, <1>14 DEF Render, SetImportanceField, Tick, vars, ringVars
<1> QED
  BY <1>4, <1>6, <1>8, <1>10, <1>11, <1>12, <1>13, <1>14 DEF Next, CallStep

(* A ring that grows at once, or is allocated whole, drops nothing before  *)
(* it holds MaxPoints.                                                     *)
THEOREM NothingDroppedEarly ==
  ASSUME Dynamic => ~DeferGrowth
  PROVE  Spec => []NoEarlyDrop
<1> DEFINE Inv == Base /\ RoomForCall /\ NoEarlyDrop
<1>1. Init => Inv
  BY InitBase DEF Init, RoomForCall, NoEarlyDrop
<1>2. Inv /\ [Next]_vars => Inv'
  BY NextBase, RoomStep
<1>3. Inv => NoEarlyDrop
  OBVIOUS
<1> HIDE DEF Inv
<1> QED BY <1>1, <1>2, <1>3, PTL DEF Spec
-----------------------------------------------------------------------------
(* The ring keeps the promise of Retention                                 *)

(* What a reader is shown of a slot record, and of all that are kept.      *)
Reading(r) == [seq |-> r.seq, z |-> r.z, attrs |-> Shown(r), imp |-> r.imp, ts |-> r.ts]
Held == {Reading(slots[s]) : s \in Active}

(* The records beyond the eviction window are newer than those before      *)
(* them: a swap puts the head's record within the window.                  *)
WindowSize == IF lookahead THEN K ELSE 1
OldestFirst == \A i, j \in 0..(size - 1) :
  i < j /\ WindowSize <= j => slots[SlotAt(i)].seq < slots[SlotAt(j)].seq

PromiseInv == /\ Base /\ CallOK /\ AllFaithful /\ GenerationsUnique /\ IndexExact
              /\ OldestFirst

(* The slot at an offset, without the remainder                            *)
OffsetsWrap == \A i \in 0..(capacity - 1) :
  SlotAt(i) = IF head + i < capacity THEN head + i ELSE head + i - capacity

LEMMA SlotAtIs == Base => OffsetsWrap
<1> SUFFICES ASSUME Base, NEW i \in 0..(capacity - 1)
             PROVE  SlotAt(i) = IF head + i < capacity THEN head + i ELSE head + i - capacity
  BY DEF OffsetsWrap
<1>1. capacity \in Nat \ {0} /\ head \in 0..(capacity - 1)
  BY ConstantTypes DEF Base, TypeOK, RingShape, Slots
<1>2. CASE head + i < capacity
  <2>1. head + i \in 0..(capacity - 1) BY <1>1, <1>2
  <2> QED BY <1>1, <1>2, <2>1, ModBelow DEF SlotAt
<1>3. CASE ~(head + i < capacity)
  <2>1. head + i - capacity \in 0..(capacity - 1) /\ capacity + (head + i - capacity) = head + i
    BY <1>1, <1>3
  <2>2. (capacity + (head + i - capacity)) % capacity = head + i - capacity
    BY <1>1, <2>1, ModBelow
  <2> QED BY <1>3, <2>1, <2>2 DEF SlotAt
<1> QED BY <1>2, <1>3

(* Once the head has moved on, each offset is the one before it was.       *)
LEMMA SlotAtMoves ==
  ASSUME Base, Base', size = capacity, head' = (head + 1) % capacity,
         UNCHANGED <<size, capacity>>
  PROVE  /\ \A i \in 0..(size - 2) : SlotAt(i)' = SlotAt(i + 1)
         /\ SlotAt(size - 1)' = head /\ SlotAt(0) = head
<1>1. capacity \in Nat \ {0} /\ head \in 0..(capacity - 1)
  BY ConstantTypes DEF Base, TypeOK, RingShape, Slots
<1>2. head' = IF head + 1 < capacity THEN head + 1 ELSE 0
  <2>1. CASE head + 1 < capacity
    <3>1. head + 1 \in 0..(capacity - 1) BY <1>1, <2>1
    <3> QED BY <1>1, <2>1, <3>1, ModBelow
  <2>2. CASE ~(head + 1 < capacity)
    <3>1. 0 \in 0..(capacity - 1) /\ head + 1 = capacity + 0 BY <1>1, <2>2
    <3>2. (capacity + 0) % capacity = 0 BY <1>1, <3>1, ModBelow
    <3> QED BY <2>2, <3>1, <3>2
  <2> QED BY <2>1, <2>2
<1>3. \A i \in 0..(capacity - 1) :
        SlotAt(i) = IF head + i < capacity THEN head + i ELSE head + i - capacity
  BY SlotAtIs DEF OffsetsWrap
<1>4. \A i \in 0..(capacity' - 1) :
        SlotAt(i)' = IF head' + i < capacity' THEN head' + i ELSE head' + i - capacity'
  <2>1. Base' => OffsetsWrap'
    BY SlotAtIs, PTL
  <2> QED BY <2>1 DEF OffsetsWrap
<1>5. ASSUME NEW i \in 0..(size - 2) PROVE SlotAt(i)' = SlotAt(i + 1)
  <2>1. i \in 0..(capacity - 1) /\ i + 1 \in 0..(capacity - 1) /\ i \in 0..(capacity' - 1)
    BY <1>1
  <2>2. SlotAt(i)' = IF head' + i < capacity THEN head' + i ELSE head' + i - capacity
    BY <1>4, <2>1
  <2>3. SlotAt(i + 1) = IF head + (i + 1) < capacity THEN head + (i + 1)
                                                     ELSE head + (i + 1) - capacity
    BY <1>3, <2>1
  <2> QED BY <1>1, <1>2, <2>1, <2>2, <2>3
<1>6. SlotAt(size - 1)' = head
  <2>1. size - 1 \in 0..(capacity' - 1) BY <1>1
  <2>2. SlotAt(size - 1)' = IF head' + (size - 1) < capacity THEN head' + (size - 1)
                                                     ELSE head' + (size - 1) - capacity
    BY <1>4, <2>1
  <2> QED BY <1>1, <1>2, <2>2
<1>7. SlotAt(0) = head
  <2>1. 0 \in 0..(capacity - 1) BY <1>1
  <2> QED BY <1>1, <1>3, <2>1
<1> QED BY <1>5, <1>6, <1>7

(* The candidates of a lookahead that is off are the head alone.           *)
LEMMA VictimInWindow ==
  ASSUME Base, NEW w \in (IF lookahead THEN WorstSlot ELSE {head}), size = capacity
  PROVE  \E o \in 0..(size - 1) : /\ o < WindowSize /\ w = SlotAt(o)
                                  /\ lookahead => \A q \in Window : ScoreAt(w) <= ScoreAt(SlotAt(q))
<1>1. capacity \in Nat \ {0} /\ K \in Nat \ {0} /\ lookahead \in BOOLEAN
  BY ConstantTypes, RingConstants DEF Base, TypeOK, RingShape, Slots
<1>2. CASE lookahead
  <2>1. PICK o \in Window : w = SlotAt(o) /\ \A q \in Window : ScoreAt(SlotAt(o)) <= ScoreAt(SlotAt(q))
    BY <1>2 DEF WorstSlot
  <2> QED BY <1>2, <2>1 DEF Window, WindowSize
<1>3. CASE ~lookahead
  <2>1. 0 \in 0..(size - 1) /\ 0 \in 0..(capacity - 1) /\ head \in 0..(capacity - 1) BY <1>1 DEF Base, RingShape, TypeOK, Slots
  <2>2. SlotAt(0) = head BY <1>1, <2>1, SlotAtIs DEF OffsetsWrap
  <2> QED BY <1>1, <1>3, <2>1, <2>2 DEF WindowSize
<1> QED BY <1>2, <1>3

(* A write has the newest generation, and moves the other records at most  *)
(* between the head and slot w.                                            *)
From(w, t) == IF t = head THEN w ELSE IF t = w THEN head ELSE t

LEMMA WriteMoves ==
  ASSUME Base, CallOK, AllFaithful, NEW w \in Slots, NEW s \in Slots, WriteEffect(w, s)
  PROVE  /\ slots'[s].seq = writeSeq
         /\ \A t \in Slots \ {s} : slots'[t] = slots[From(w, t)]
<1>1. Swapped(w)[s] \in SlotRec /\ OlderThan(Swapped(w)[s], writeSeq)
  BY SwappedSlots DEF AllFaithful, Base, TypeOK
<1>2. slots'[s].seq = writeSeq
  BY <1>1, WriteSlots, WrittenShown DEF Base
<1>3. \A t \in Slots \ {s} : slots'[t] = slots[From(w, t)]
  BY WriteSlots, SwappedSlots DEF From
<1> QED BY <1>2, <1>3

LEMMA OldestFirstStep ==
  ASSUME PromiseInv, [Next]_vars
  PROVE  OldestFirst'
<1>1. /\ Base /\ Base' /\ CallOK /\ AllFaithful /\ GenerationsUnique /\ OldestFirst
      /\ slots \in [Slots -> SlotRec] /\ writeSeq \in Nat
  BY NextBase DEF PromiseInv, Base, TypeOK
<1>2. capacity \in Nat \ {0} /\ size \in 0..capacity /\ K \in Nat \ {0}
      /\ head \in 0..(capacity - 1) /\ (size < capacity => head = 0)
      /\ lookahead \in BOOLEAN /\ WindowSize \in Nat \ {0}
  BY <1>1, ConstantTypes, RingConstants DEF Base, TypeOK, RingShape, Slots, WindowSize
<1>3. /\ \A i \in 0..(size - 1) : SlotAt(i) \in Active /\ slots[SlotAt(i)].seq \in Nat
                                  /\ slots[SlotAt(i)].seq < writeSeq
      /\ \A i, j \in 0..(size - 1) : SlotAt(i) = SlotAt(j) => i = j
      /\ Active \subseteq Slots
  BY <1>1, ActiveOf DEF GenerationsUnique, SlotRec
<1>4. CASE Append1
  <2>1. WriteEffect(head, SlotAt(size)) /\ SlotAt(size) \notin Active /\ SlotAt(size) \in Slots
    BY <1>1, <1>2, <1>4, Append1Effect, ActiveOf
  <2>2. /\ slots'[SlotAt(size)].seq = writeSeq
        /\ \A t \in Active : slots'[t] = slots[t]
    BY <1>1, <1>3, <2>1, WriteMoves DEF From, Base, TypeOK
  <2>3. UNCHANGED <<head, capacity, lookahead>> /\ size' = size + 1
    BY <1>4 DEF Append1, policyVars
  <2>4. \A i : SlotAt(i)' = SlotAt(i)
    BY <2>3 DEF SlotAt
  <2> SUFFICES ASSUME NEW i \in 0..(size' - 1), NEW j \in 0..(size' - 1), i < j, WindowSize' <= j
               PROVE  slots'[SlotAt(i)].seq < slots'[SlotAt(j)].seq
    BY <2>4 DEF OldestFirst
  <2>5. WindowSize' = WindowSize BY <2>3 DEF WindowSize
  <2>6. i \in 0..(size - 1) /\ (j = size \/ j \in 0..(size - 1)) BY <1>2, <2>3
  <2>7. slots'[SlotAt(i)] = slots[SlotAt(i)] BY <1>3, <2>2, <2>6
  <2>8. CASE j = size BY <1>3, <2>2, <2>6, <2>7, <2>8
  <2>9. CASE j \in 0..(size - 1)
    <3>1. slots'[SlotAt(j)] = slots[SlotAt(j)] BY <1>3, <2>2, <2>9
    <3> QED BY <1>1, <2>5, <2>6, <2>7, <2>9, <3>1 DEF OldestFirst
  <2> QED BY <2>6, <2>8, <2>9
<1>5. CASE Overwrite
  <2>1. PICK w \in (IF lookahead THEN WorstSlot ELSE {head}) : OverwriteAt(w)
    BY <1>5 DEF Overwrite, OverwriteAt
  <2>2. size = capacity /\ head' = (head + 1) % capacity /\ UNCHANGED <<size, capacity, lookahead>>
    BY <2>1 DEF OverwriteAt, policyVars
  <2>3. PICK o \in 0..(size - 1) : o < WindowSize /\ w = SlotAt(o)
    BY <1>1, <2>1, <2>2, VictimInWindow
  <2>4. w \in Slots /\ head \in Slots /\ WriteEffect(w, head)
    BY <1>1, <1>3, <1>5, <2>1, <2>3, OverwriteAtEffect DEF Base, TypeOK
  <2>5. /\ slots'[head].seq = writeSeq
        /\ \A t \in Slots \ {head} : slots'[t] = slots[From(w, t)]
    BY <1>1, <2>4, WriteMoves
  <2>6. /\ \A i \in 0..(size - 2) : SlotAt(i)' = SlotAt(i + 1)
        /\ SlotAt(size - 1)' = head /\ SlotAt(0) = head
    BY <1>1, <2>2, SlotAtMoves
  <2>7. ASSUME NEW i \in 0..(size - 2)
        PROVE  slots'[SlotAt(i)'] = slots[SlotAt(IF i + 1 = o THEN 0 ELSE i + 1)]
    <3>1. i + 1 \in 0..(size - 1) /\ 0 \in 0..(size - 1) /\ i + 1 # 0 BY <1>2
    <3>2. SlotAt(i + 1) # head /\ SlotAt(i + 1) \in Slots BY <1>3, <2>6, <3>1
    <3>3. SlotAt(i + 1) = w <=> i + 1 = o BY <1>3, <2>3, <3>1
    <3> QED BY <2>5, <2>6, <3>2, <3>3 DEF From
  <2> SUFFICES ASSUME NEW i \in 0..(size' - 1), NEW j \in 0..(size' - 1), i < j, WindowSize' <= j
               PROVE  slots'[SlotAt(i)'].seq < slots'[SlotAt(j)'].seq
    BY DEF OldestFirst
  <2>8. WindowSize' = WindowSize BY <2>2 DEF WindowSize
  <2>9. i \in 0..(size - 2) /\ (j = size - 1 \/ j \in 0..(size - 2)) BY <1>2, <2>2
  <2> DEFINE m == IF i + 1 = o THEN 0 ELSE i + 1
  <2>10. m \in 0..(size - 1) /\ slots'[SlotAt(i)'] = slots[SlotAt(m)] BY <1>2, <2>7, <2>9
  <2>11. CASE j = size - 1
    <3>1. j = (size - 1)' BY <2>2, <2>11
    <3>2. SlotAt(j)' = SlotAt(size - 1)' BY <3>1 DEF SlotAt
    <3>3. slots'[SlotAt(j)'].seq = writeSeq BY <2>5, <2>6, <3>2
    <3> HIDE DEF m
    <3> QED BY <1>3, <2>10, <3>3
  <2>12. CASE j \in 0..(size - 2)
    <3>1. j + 1 # o /\ j + 1 \in 0..(size - 1) /\ WindowSize <= j + 1 /\ m < j + 1
      BY <1>2, <2>3, <2>8, <2>9, <2>12
    <3>2. slots'[SlotAt(j)'] = slots[SlotAt(j + 1)] BY <2>7, <2>12, <3>1
    <3> HIDE DEF m
    <3> QED BY <1>1, <2>10, <3>1, <3>2 DEF OldestFirst
  <2> QED BY <2>9, <2>11, <2>12
<1>6. ASSUME UNCHANGED <<ringVars, lookahead>>, \A t \in Slots : slots'[t].seq = slots[t].seq
      PROVE  OldestFirst'
  <2>1. \A i : SlotAt(i)' = SlotAt(i)
    BY <1>6 DEF SlotAt, ringVars
  <2>2. size' = size /\ WindowSize' = WindowSize
    BY <1>6 DEF ringVars, WindowSize
  <2> QED BY <1>1, <1>3, <1>6, <2>1, <2>2 DEF OldestFirst
<1>7. ASSUME Grow, UNCHANGED lookahead PROVE OldestFirst'
  <2>1. CASE NewCapacity <= capacity
    BY <1>6, <1>7, <2>1 DEF Grow
  <2>2. CASE ~(NewCapacity <= capacity)
    <3>1. slots' = Unrolled /\ size' = size /\ head' = 0 /\ capacity' = NewCapacity
      BY <1>7, <2>2 DEF Grow
    <3>2. WindowSize' = WindowSize BY <1>7 DEF WindowSize
    <3>3. ASSUME NEW i \in 0..(size - 1)
          PROVE  SlotAt(i)' = i /\ slots'[i] = slots[SlotAt(i)]
      <4>1. capacity' \in Nat \ {0} /\ i \in 0..(capacity' - 1)
        BY <1>1, <1>2, <3>1 DEF Base, RingShape, TypeOK
      <4>2. SlotAt(i)' = i
        <5>1. (0 + i) = i BY <4>1
        <5> QED BY <3>1, <4>1, <5>1, ModBelow DEF SlotAt
      <4>3. i \in Active /\ i \in Slots /\ i < size
        <5>1. Base BY <1>1
        <5>2. Active = 0..(size - 1) /\ Active \subseteq Slots /\ size \in Nat
          BY <5>1, ActiveOf
        <5> QED BY <5>2
      <4> QED BY <3>1, <4>2, <4>3 DEF Unrolled
    <3> QED BY <1>1, <3>1, <3>2, <3>3 DEF OldestFirst
  <2> QED BY <2>1, <2>2
<1>8. CASE GrowForCall \/ DoGrow
  <2>1. UNCHANGED lookahead /\ (Grow \/ UNCHANGED <<ringVars, slots>>)
    BY <1>8 DEF GrowForCall, DoGrow, policyVars
  <2> QED BY <1>6, <1>7, <2>1
<1>9. CASE Render
  <2>1. RenderEffect BY <1>1, <1>9, RendersEffect
  <2>2. ASSUME NEW t \in Slots PROVE slots'[t].seq = slots[t].seq
    <3>1. PICK v \in Vals : slots'[t] = [slots[t] EXCEPT !.val = v] BY <2>1 DEF RenderEffect
    <3> QED BY <1>1, <3>1 DEF SlotRec
  <2>3. UNCHANGED <<ringVars, lookahead>> BY <1>9 DEF Render, policyVars
  <2> QED BY <1>6, <2>2, <2>3
<1>10. CASE Reset
  <2>1. size' = 0 BY <1>10 DEF Reset, ClearRing
  <2> QED BY <2>1 DEF OldestFirst
<1>11. CASE SetImportanceField
  <2>1. UNCHANGED <<ringVars, slots>> /\ WindowSize' = K
    BY <1>11 DEF SetImportanceField, WindowSize
  <2>2. size' = size /\ (\A i : SlotAt(i)' = SlotAt(i)) /\ slots' = slots
    BY <2>1 DEF SlotAt, ringVars
  <2>3. \A j \in 0..(size - 1) : K <= j => WindowSize <= j
    BY <1>2 DEF WindowSize
  <2> QED BY <1>1, <2>1, <2>2, <2>3 DEF OldestFirst
<1>12. CASE Ingest \/ IngestFromBinary \/ Discard \/ Return \/ Tick \/ UNCHANGED vars
  <2>1. UNCHANGED <<ringVars, slots, lookahead>>
    BY <1>12 DEF Ingest, IngestFromBinary, Begin, Discard, Return, Tick, vars, policyVars
  <2> QED BY <1>6, <2>1
<1> QED
  BY <1>4, <1>5, <1>8, <1>9, <1>10, <1>11, <1>12 DEF Next, CallStep

-----------------------------------------------------------------------------
(* The ring as a set of readings                                           *)

LEMMA HeldIsKept ==
  Held = {[seq |-> slots[s].seq, z |-> slots[s].z, attrs |-> SnapshotAttrs(s),
           imp |-> slots[s].imp, ts |-> slots[s].ts] : s \in Active}
  BY DEF Held, Reading, Shown, SnapshotAttrs

(* Kept slots and their readings are as many.                              *)
LEMMA AsMany ==
  ASSUME Base, GenerationsUnique, NEW A \in SUBSET Active
  PROVE  /\ Cardinality({Reading(slots[s]) : s \in A}) = Cardinality(A)
         /\ Cardinality(A) \in Nat
<1> DEFINE f == [s \in A |-> Reading(slots[s])]
           C == {Reading(slots[s]) : s \in A}
<1>1. IsFiniteSet(Active)
  BY ActiveOf, FS_Interval, 0 \in Int, size - 1 \in Int
<1>2. IsFiniteSet(A) /\ Cardinality(A) \in Nat
  BY <1>1, FS_Subset, FS_CardinalityType
<1>3. \A s, t \in A : Reading(slots[s]) = Reading(slots[t]) => s = t
  BY DEF GenerationsUnique, Reading
<1>4. f \in [A -> C] /\ (\A s, t \in A : f[s] = f[t] => s = t) /\ \A r \in C : \E s \in A : f[s] = r
  BY <1>3
<1> HIDE DEF f
<1>5. Cardinality(A) = Cardinality(C)
  <2> HIDE DEF C
  <2> QED BY <1>2, <1>4, SameNumber
<1> QED BY <1>2, <1>5

LEMMA HeldNumber ==
  ASSUME Base, GenerationsUnique
  PROVE  Cardinality(Held) = size
<1>1. size \in Nat /\ Active = 0..(size - 1)
  BY ActiveOf
<1>2. Cardinality(0..(size - 1)) = size
  <2>1. 0 \in Int /\ size - 1 \in Int BY <1>1
  <2>2. Cardinality(0..(size - 1)) = IF 0 > size - 1 THEN 0 ELSE (size - 1) - 0 + 1
    BY <2>1, FS_Interval
  <2> QED BY <1>1, <2>2
<1>3. Cardinality(Held) = Cardinality(Active)
  BY AsMany DEF Held
<1> QED BY <1>1, <1>2, <1>3

(* The generations that are older than that at an offset                   *)
OlderSlots(s) == {t \in Active : slots[t].seq < slots[s].seq}

LEMMA CandidateOffsets ==
  ASSUME PromiseInv, NEW o \in 0..(size - 1)
  PROVE  Cardinality(OlderSlots(SlotAt(o))) < WindowSize <=> o < WindowSize
<1> DEFINE T == {j \in 0..(size - 1) : slots[SlotAt(j)].seq < slots[SlotAt(o)].seq}
           S == OlderSlots(SlotAt(o))
           f == [j \in T |-> SlotAt(j)]
<1>1. Base /\ GenerationsUnique /\ OldestFirst /\ size \in Nat /\ WindowSize \in Nat \ {0}
  BY ActiveOf, RingConstants DEF PromiseInv, WindowSize, Base, TypeOK
<1>2. /\ \A i \in 0..(size - 1) : SlotAt(i) \in Active /\ slots[SlotAt(i)].seq \in Nat
      /\ \A i, j \in 0..(size - 1) : SlotAt(i) = SlotAt(j) => i = j
      /\ Active = {SlotAt(i) : i \in 0..(size - 1)}
  BY <1>1, ActiveOf DEF GenerationsUnique, Base, TypeOK, SlotRec, Active
<1>3. IsFiniteSet(T)
  <2>1. IsFiniteSet(0..(size - 1)) BY <1>1, FS_Interval, 0 \in Int, size - 1 \in Int
  <2> QED BY <2>1, FS_Subset
<1>4. Cardinality(S) = Cardinality(T) /\ Cardinality(T) \in Nat
  <2>1. f \in [T -> S] /\ (\A i, j \in T : f[i] = f[j] => i = j) /\ \A t \in S : \E j \in T : f[j] = t
    BY <1>2 DEF OlderSlots
  <2> HIDE DEF f, T, S
  <2>2. Cardinality(T) = Cardinality(S) BY <1>3, <2>1, SameNumber
  <2> QED BY <1>3, <2>2, FS_CardinalityType
<1>5. CASE o < WindowSize
  <2> DEFINE W == 0..(WindowSize - 1)
  <2>1. IsFiniteSet(W) /\ Cardinality(W) = WindowSize /\ o \in W
    <3>1. 0 \in Int /\ WindowSize - 1 \in Int BY <1>1
    <3>2. Cardinality(W) = IF 0 > WindowSize - 1 THEN 0 ELSE (WindowSize - 1) - 0 + 1
      BY <3>1, FS_Interval
    <3>3. IsFiniteSet(W) BY <3>1, FS_Interval
    <3> QED BY <1>1, <1>5, <3>2, <3>3
  <2>2. T \subseteq W \ {o}
    <3> SUFFICES ASSUME NEW j \in T PROVE j \in W /\ j # o OBVIOUS
    <3>1. j \in 0..(size - 1) /\ slots[SlotAt(j)].seq < slots[SlotAt(o)].seq OBVIOUS
    <3>2. j # o BY <1>2, <3>1
    <3>3. ASSUME WindowSize <= j PROVE FALSE
      <4>1. o < j BY <1>1, <1>5, <3>1, <3>3
      <4>2. slots[SlotAt(o)].seq < slots[SlotAt(j)].seq BY <1>1, <3>1, <3>3, <4>1 DEF OldestFirst
      <4> QED BY <1>2, <3>1, <4>2
    <3> QED BY <1>1, <3>1, <3>2, <3>3
  <2> HIDE DEF W, T
  <2>3. Cardinality(W \ {o}) = WindowSize - 1 /\ IsFiniteSet(W \ {o})
    BY <2>1, FS_RemoveElement
  <2>4. Cardinality(T) <= WindowSize - 1
    BY <2>2, <2>3, FS_Subset
  <2> QED BY <1>1, <1>4, <1>5, <2>4
<1>6. CASE ~(o < WindowSize)
  <2>1. 0..(o - 1) \subseteq T
    <3> SUFFICES ASSUME NEW j \in 0..(o - 1) PROVE j \in T OBVIOUS
    <3>1. j \in 0..(size - 1) /\ j < o /\ WindowSize <= o BY <1>1, <1>6
    <3> QED BY <1>1, <3>1 DEF OldestFirst
  <2>2. Cardinality(0..(o - 1)) = o
    <3>1. 0 \in Int /\ o - 1 \in Int BY <1>1
    <3>2. Cardinality(0..(o - 1)) = IF 0 > o - 1 THEN 0 ELSE (o - 1) - 0 + 1
      BY <3>1, FS_Interval
    <3> QED BY <1>1, <3>2
  <2> HIDE DEF T
  <2>3. Cardinality(0..(o - 1)) <= Cardinality(T)
    BY <1>3, <2>1, FS_Subset
  <2> QED BY <1>1, <1>4, <1>6, <2>2, <2>3
<1> QED BY <1>5, <1>6

(* Retention's candidates are the slots of the window.                     *)
HeldOlder(r) == {q \in Held : q.seq < r.seq}
HeldCandidates == {r \in Held : Cardinality(HeldOlder(r)) < WindowSize}

LEMMA CandidatesAreTheWindow ==
  ASSUME PromiseInv
  PROVE  HeldCandidates = {Reading(slots[SlotAt(o)]) : o \in {i \in 0..(size - 1) : i < WindowSize}}
<1>1. Base /\ GenerationsUnique
  BY DEF PromiseInv
<1>2. ASSUME NEW o \in 0..(size - 1)
      PROVE  Cardinality(HeldOlder(Reading(slots[SlotAt(o)]))) < WindowSize <=> o < WindowSize
  <2>1. HeldOlder(Reading(slots[SlotAt(o)])) = {Reading(slots[t]) : t \in OlderSlots(SlotAt(o))}
    BY DEF HeldOlder, Held, OlderSlots, Reading
  <2>2. Cardinality(HeldOlder(Reading(slots[SlotAt(o)]))) = Cardinality(OlderSlots(SlotAt(o)))
    BY <1>1, <2>1, AsMany DEF OlderSlots
  <2> QED BY <2>2, CandidateOffsets
<1>3. Held = {Reading(slots[SlotAt(o)]) : o \in 0..(size - 1)}
  BY DEF Held, Active
<1> QED BY <1>2, <1>3 DEF HeldCandidates

(* Retention's value of a reading is the score of its slot.                *)
HeldValue(r) == Score(r.imp, Clock - r.ts, Cardinality({q \in Held : Cell(q.z) = Cell(r.z)}))

LEMMA ValueIsScore ==
  ASSUME Base, GenerationsUnique, IndexExact, NEW s \in Active
  PROVE  HeldValue(Reading(slots[s])) = ScoreAt(s)
<1> DEFINE A == {t \in Active : Cell(slots[t].z) = Cell(slots[s].z)}
<1>1. {q \in Held : Cell(q.z) = Cell(Reading(slots[s]).z)} = {Reading(slots[t]) : t \in A}
  BY DEF Held, Reading
<1>2. cellOf[s] = Cell(slots[s].z) /\ cellOf[s] \in CellKeys
  <2>1. slots[s].z \in Heights BY ActiveOf DEF Base, TypeOK, SlotRec
  <2> QED BY <2>1, PointConstants DEF IndexExact
<1>3. cellSlots[cellOf[s]] = A
  BY <1>2 DEF IndexExact
<1>4. Cardinality({Reading(slots[t]) : t \in A}) = Cardinality(A)
  BY AsMany
<1> HIDE DEF A
<1> QED BY <1>1, <1>3, <1>4 DEF HeldValue, ScoreAt, Density, Reading
-----------------------------------------------------------------------------
(* The steps of the ring as steps of Retention                             *)

(* The set KeepsPromise puts for `kept`, and the cardinalities of both.    *)
Kept == {[seq |-> slots[s].seq, z |-> slots[s].z, attrs |-> SnapshotAttrs(s),
          imp |-> slots[s].imp, ts |-> slots[s].ts] : s \in Active}

LEMMA KeptIsHeld == Kept = Held
  BY HeldIsKept DEF Kept

LEMMA KeptIsHeldAfter == Kept' = Held'
<1>1. (Kept = Held)'
  BY KeptIsHeld, PTL
<1> QED BY <1>1

LEMMA SameCardinality == \A S : Promise!Cardinality(S) = Cardinality(S)
  BY DEF Promise!Cardinality, Cardinality

LEMMA SameCandidates == Promise!Candidates = HeldCandidates
<1>1. \A r : Promise!Older(r) = {q \in Kept : q.seq < r.seq}
  BY DEF Promise!Older, Kept
<1>2. \A r : Promise!Older(r) = HeldOlder(r)
  BY <1>1, KeptIsHeld DEF HeldOlder
<1>3. Promise!Candidates = {r \in Kept : Promise!Cardinality(Promise!Older(r)) < WindowSize}
  BY DEF Promise!Candidates, Kept, WindowSize
<1> QED BY <1>2, <1>3, KeptIsHeld, SameCardinality DEF HeldCandidates

LEMMA SameValue == \A r : Promise!Value(r) = HeldValue(r)
<1> SUFFICES ASSUME NEW r PROVE Promise!Value(r) = HeldValue(r)
  OBVIOUS
<1>1. Promise!Value(r) = Score(r.imp, Clock - r.ts, Promise!Cardinality({q \in Kept : Cell(q.z) = Cell(r.z)}))
  BY DEF Promise!Value, Kept
<1> QED BY <1>1, KeptIsHeld, SameCardinality DEF HeldValue

LEMMA SameNewest ==
  ASSUME NEW r, Held' \ Held = {r}, \A q \in Held : q.seq < r.seq
  PROVE  Promise!Newest(r)
<1>1. Kept' \ Kept = {r} /\ \A q \in Kept : q.seq < r.seq
  BY KeptIsHeld, KeptIsHeldAfter
<1> QED BY <1>1 DEF Promise!Newest, Kept

(* A step that keeps readings, capacity and drops is a stutter.            *)
LEMMA Stutters ==
  ASSUME Held' = Held, UNCHANGED <<capacity, dropped>>
  PROVE  UNCHANGED Promise!retained
<1>1. Kept' = Kept
  BY KeptIsHeld, KeptIsHeldAfter
<1> QED BY <1>1 DEF Promise!retained, Kept

LEMMA Keeps ==
  ASSUME Cardinality(Held) < capacity, NEW r \in Held', Held' = Held \cup {r}, r \notin Held,
         \A q \in Held : q.seq < r.seq, UNCHANGED <<capacity, dropped>>
  PROVE  Promise!Keep
<1>1. Promise!Newest(r)
  BY SameNewest
<1>2. Promise!Cardinality(Kept) < capacity /\ r \in Kept' /\ Kept' = Kept \cup {r}
  BY KeptIsHeld, KeptIsHeldAfter, SameCardinality
<1> QED BY <1>1, <1>2 DEF Promise!Keep, Kept

LEMMA Displaces ==
  ASSUME mode = "drop-oldest", Cardinality(Held) = capacity, NEW r \in Held',
         NEW victim \in HeldCandidates, Held' = (Held \ {victim}) \cup {r}, r \notin Held,
         \A other \in HeldCandidates \ {victim} : HeldValue(victim) <= HeldValue(other),
         \A q \in Held : q.seq < r.seq, dropped' = dropped + 1, UNCHANGED capacity
  PROVE  Promise!Displace
<1>1. Promise!Newest(r)
  BY SameNewest
<1>2. /\ Promise!Cardinality(Kept) = capacity /\ r \in Kept'
      /\ Kept' = (Kept \ {victim}) \cup {r}
  BY KeptIsHeld, KeptIsHeldAfter, SameCardinality
<1>3. /\ victim \in Promise!Candidates
      /\ \A other \in Promise!Candidates \ {victim} : Promise!Value(victim) <= Promise!Value(other)
  BY SameCandidates, SameValue
<1> QED BY <1>1, <1>2, <1>3 DEF Promise!Displace, Kept

LEMMA TurnsAway ==
  ASSUME mode = "drop-newest", Cardinality(Held) = capacity, Held' = Held,
         dropped' = dropped + 1, UNCHANGED capacity
  PROVE  Promise!TurnAway
<1>1. Promise!Cardinality(Kept) = capacity /\ Kept' = Kept
  BY KeptIsHeld, KeptIsHeldAfter, SameCardinality
<1> QED BY <1>1 DEF Promise!TurnAway, Kept

LEMMA Raises ==
  ASSUME Held' = Held, capacity' \in (capacity + 1)..MaxPoints, UNCHANGED dropped
  PROVE  Promise!Raise
<1>1. Kept' = Kept
  BY KeptIsHeld, KeptIsHeldAfter
<1> QED BY <1>1 DEF Promise!Raise, Kept

LEMMA Clears ==
  ASSUME Held' = {}, dropped' = 0, UNCHANGED capacity
  PROVE  Promise!Clear
<1>1. Kept' = {}
  BY KeptIsHeldAfter
<1> QED BY <1>1 DEF Promise!Clear, Kept

LEMMA StartsEmpty ==
  ASSUME Init
  PROVE  Promise!Init
<1>1. Active = {}
  BY InitBase, ActiveOf DEF Init
<1>2. Kept = {} /\ capacity \in 1..MaxPoints /\ dropped = 0
  BY <1>1, InitBase DEF Kept, Init, Base, TypeOK
<1> QED BY <1>2 DEF Promise!Init, Kept
-----------------------------------------------------------------------------
(* The readings after a step                                               *)

LEMMA SameReadings ==
  ASSUME Base, UNCHANGED ringVars,
         \A s \in Active : Reading(slots'[s]) = Reading(slots[s])
  PROVE  Held' = Held
<1>1. Active' = Active
  BY DEF Active, SlotAt, ringVars
<1>2. Held' = {Reading(slots'[s]) : s \in Active}
  BY <1>1 DEF Held, Reading, Shown
<1> QED BY <1>2 DEF Held

LEMMA KeptAreOlder ==
  ASSUME Base, GenerationsUnique
  PROVE  \A q \in Held : q.seq < writeSeq
<1> QED BY DEF Held, Reading, GenerationsUnique

LEMMA AppendKeeps ==
  ASSUME PromiseInv, Append1
  PROVE  Promise!Keep
<1>1. /\ Base /\ CallOK /\ AllFaithful /\ GenerationsUnique /\ writeSeq \in Nat
      /\ size < capacity /\ size' = size + 1 /\ UNCHANGED <<head, capacity, dropped>>
  BY DEF PromiseInv, Base, TypeOK, Append1
<1>2. /\ Active = 0..(size - 1) /\ size \in Nat /\ capacity \in Nat /\ Active \subseteq Slots
      /\ SlotAt(size) \in Slots
  BY <1>1, ActiveOf
<1>3. SlotAt(size) = size
  <2>1. head = 0 /\ size \in 0..(capacity - 1) BY <1>1, <1>2 DEF Base, RingShape
  <2>2. (0 + size) = size BY <1>2
  <2>3. capacity \in Nat \ {0} BY <1>1, <1>2
  <2> QED BY <2>1, <2>2, <2>3, ModBelow DEF SlotAt
<1>4. Base'
  BY <1>1, Append1Base
<1>5. Active' = Active \cup {size}
  <2>1. Active' = 0..(size' - 1) BY <1>4, ActiveAfter
  <2> QED BY <1>1, <1>2, <2>1
<1>6. WriteEffect(head, SlotAt(size)) /\ SlotAt(size) \notin Active /\ head \in Slots
  BY <1>1, Append1Effect DEF Base, TypeOK
<1>7. slots'[size].seq = writeSeq /\ \A t \in Active : slots'[t] = slots[t]
  BY <1>1, <1>2, <1>3, <1>6, WriteMoves DEF From
<1> DEFINE r == Reading(slots'[size])
<1>8. r.seq = writeSeq
  BY <1>7 DEF Reading
<1>9. Held' = {Reading(slots'[s]) : s \in Active'}
  BY DEF Held, Reading, Shown
<1>10. Held' = Held \cup {r}
  BY <1>5, <1>7, <1>9 DEF Held
<1>11. \A q \in Held : q.seq < r.seq
  BY <1>1, <1>8, KeptAreOlder
<1>12. r \notin Held
  BY <1>1, <1>8, KeptAreOlder
<1>13. Cardinality(Held) < capacity
  BY <1>1, HeldNumber
<1> HIDE DEF r
<1> QED BY <1>1, <1>10, <1>11, <1>12, <1>13, Keeps

LEMMA OverwriteDisplaces ==
  ASSUME PromiseInv, Overwrite
  PROVE  Promise!Displace
<1>1. /\ Base /\ CallOK /\ AllFaithful /\ GenerationsUnique /\ IndexExact /\ writeSeq \in Nat
      /\ head \in Slots
  BY DEF PromiseInv, Base, TypeOK
<1>2. PICK w \in (IF lookahead THEN WorstSlot ELSE {head}) : OverwriteAt(w)
  BY DEF Overwrite, OverwriteAt
<1>3. /\ size = capacity /\ mode = "drop-oldest" /\ dropped' = dropped + 1
      /\ UNCHANGED <<size, capacity>>
  BY <1>2 DEF OverwriteAt
<1>4. /\ Active = 0..(size - 1) /\ Active \subseteq Slots /\ Active' = Active
      /\ w \in Slots /\ w \in Active /\ head \in Active /\ WriteEffect(w, head)
  <2>1. Base' BY <1>1, NextBase DEF Next, CallStep
  <2> QED BY <1>1, <1>2, <1>3, <2>1, ActiveOf, ActiveAfter, OverwriteAtEffect
<1>5. /\ slots'[head].seq = writeSeq
      /\ \A t \in Active \ {head} : slots'[t] = slots[From(w, t)]
  BY <1>1, <1>4, WriteMoves
<1> DEFINE r == Reading(slots'[head])
           victim == Reading(slots[w])
<1>6. r.seq = writeSeq
  BY <1>5 DEF Reading
<1>7. Held' = {Reading(slots'[s]) : s \in Active}
  BY <1>4 DEF Held, Reading, Shown
<1>8. Held \ {victim} = {Reading(slots[t]) : t \in Active \ {w}}
  <2>1. ASSUME NEW t \in Active, Reading(slots[t]) = victim PROVE t = w
    <3>1. slots[t].seq = slots[w].seq BY <2>1 DEF Reading
    <3> QED BY <1>1, <1>4, <3>1 DEF GenerationsUnique
  <2> HIDE DEF victim
  <2>2. victim = Reading(slots[w]) BY DEF victim
  <2> QED BY <2>1, <2>2, <1>4 DEF Held
<1>9. {Reading(slots'[t]) : t \in Active \ {head}} = {Reading(slots[t]) : t \in Active \ {w}}
  <2>1. \A t \in Active \ {head} : From(w, t) \in Active \ {w}
    BY <1>4 DEF From
  <2>2. \A u \in Active \ {w} : From(w, u) \in Active \ {head} /\ From(w, From(w, u)) = u
    BY <1>4 DEF From
  <2> QED BY <1>5, <2>1, <2>2
<1>10. Held' = (Held \ {victim}) \cup {r}
  <2> HIDE DEF victim
  <2>1. Held' = {Reading(slots'[t]) : t \in Active \ {head}} \cup {Reading(slots'[head])}
    BY <1>4, <1>7
  <2> QED BY <1>8, <1>9, <2>1
<1>11. \A q \in Held : q.seq < r.seq
  BY <1>1, <1>6, KeptAreOlder
<1>12. r \notin Held
  BY <1>1, <1>6, KeptAreOlder
<1>13. Cardinality(Held) = capacity
  BY <1>1, <1>3, HeldNumber
<1>14. PICK o \in 0..(size - 1) :
         /\ o < WindowSize /\ w = SlotAt(o)
         /\ lookahead => \A q \in Window : ScoreAt(w) <= ScoreAt(SlotAt(q))
  BY <1>1, <1>3, VictimInWindow
<1>15. HeldCandidates = {Reading(slots[SlotAt(q)]) : q \in {i \in 0..(size - 1) : i < WindowSize}}
  BY CandidatesAreTheWindow
<1>16. victim \in HeldCandidates
  BY <1>14, <1>15
<1>17. ASSUME NEW other \in HeldCandidates \ {victim} PROVE HeldValue(victim) <= HeldValue(other)
  <2>1. PICK q \in 0..(size - 1) : q < WindowSize /\ other = Reading(slots[SlotAt(q)])
    BY <1>15, <1>17
  <2>2. lookahead
    <3>1. K \in Nat \ {0} /\ lookahead \in BOOLEAN BY <1>1, RingConstants DEF Base, TypeOK
    <3> SUFFICES ASSUME ~lookahead PROVE FALSE BY <3>1
    <3>2. q = 0 /\ o = 0 BY <1>14, <2>1 DEF WindowSize
    <3> QED BY <1>14, <1>17, <2>1, <3>2
  <2>3. q \in Window BY <2>1, <2>2 DEF WindowSize, Window
  <2>4. ScoreAt(w) <= ScoreAt(SlotAt(q)) BY <1>14, <2>2, <2>3
  <2>5. HeldValue(victim) = ScoreAt(w) BY <1>1, <1>4, ValueIsScore
  <2>6. SlotAt(q) \in Active BY <1>1, <2>1, ActiveOf
  <2>7. HeldValue(other) = ScoreAt(SlotAt(q)) BY <1>1, <2>1, <2>6, ValueIsScore
  <2> QED BY <2>4, <2>5, <2>7
<1> HIDE DEF r, victim
<1>18. r \in Held'
  BY <1>10
<1> QED BY <1>3, <1>10, <1>11, <1>12, <1>13, <1>16, <1>17, <1>18, Displaces

(* Growing moves the records, and raises the limit.                        *)
LEMMA GrowRaises ==
  ASSUME PromiseInv, Base', Grow, UNCHANGED dropped
  PROVE  Promise!Raise \/ UNCHANGED Promise!retained
<1>1. /\ Base /\ size \in Nat /\ Active = 0..(size - 1)
      /\ capacity \in Nat /\ capacity' \in 1..MaxPoints
      /\ \A i \in 0..(size - 1) : SlotAt(i) \in Active
  BY ActiveOf DEF PromiseInv, Base, TypeOK
<1>2. CASE NewCapacity <= capacity
  <2>1. UNCHANGED <<ringVars, slots>> BY <1>2 DEF Grow
  <2>2. Held' = Held BY <1>1, <2>1, SameReadings
  <2> QED BY <2>1, <2>2, Stutters DEF ringVars
<1>3. CASE ~(NewCapacity <= capacity)
  <2>1. slots' = Unrolled /\ size' = size /\ capacity' = NewCapacity
    BY <1>3 DEF Grow
  <2>2. Active' = Active
    BY <1>1, <2>1, ActiveAfter
  <2>3. Held' = {Reading(slots'[s]) : s \in Active}
    BY <2>2 DEF Held, Reading, Shown
  <2>4. \A i \in 0..(size - 1) : slots'[i] = slots[SlotAt(i)]
    <3>1. \A i \in 0..(size - 1) : i \in Slots /\ i < size BY <1>1, ActiveOf
    <3> QED BY <2>1, <3>1 DEF Unrolled
  <2>5. Held' = Held
    <3>1. Held = {Reading(slots[SlotAt(i)]) : i \in 0..(size - 1)}
      BY DEF Held, Active
    <3>2. Held' = {Reading(slots'[i]) : i \in 0..(size - 1)}
      BY <1>1, <2>3
    <3> QED BY <2>4, <3>1, <3>2
  <2>6. capacity' \in (capacity + 1)..MaxPoints
    <3>1. capacity' > capacity
      <4>1. NewCapacity \in Int BY <1>1, <2>1
      <4> QED BY <1>1, <1>3, <2>1, <4>1
    <3> QED BY <1>1, <3>1, ConstantTypes
  <2> QED BY <1>1, <2>5, <2>6, Raises
<1> QED BY <1>2, <1>3

LEMMA StepKeepsPromise ==
  ASSUME PromiseInv, [Next]_vars
  PROVE  Promise!Next \/ UNCHANGED Promise!retained
<1>1. /\ Base /\ Base' /\ GenerationsUnique /\ Active \subseteq Slots
      /\ slots \in [Slots -> SlotRec]
  BY NextBase, ActiveOf DEF PromiseInv, Base, TypeOK
<1>2. CASE Append1
  BY <1>2, AppendKeeps DEF Promise!Next
<1>3. CASE Overwrite
  BY <1>3, OverwriteDisplaces DEF Promise!Next
<1>4. ASSUME UNCHANGED <<ringVars, slots, dropped>> PROVE UNCHANGED Promise!retained
  <2>1. Held' = Held BY <1>1, <1>4, SameReadings
  <2> QED BY <1>4, <2>1, Stutters DEF ringVars
<1>5. CASE Discard
  <2>1. /\ mode = "drop-newest" /\ size = capacity /\ dropped' = dropped + 1
        /\ UNCHANGED <<ringVars, slots, capacity>>
    BY <1>5 DEF Discard, ringVars
  <2>2. Held' = Held BY <1>1, <2>1, SameReadings
  <2>3. Cardinality(Held) = capacity BY <1>1, <2>1, HeldNumber
  <2> QED BY <2>1, <2>2, <2>3, TurnsAway DEF Promise!Next
<1>6. CASE GrowForCall \/ DoGrow
  <2>1. UNCHANGED dropped /\ (Grow \/ UNCHANGED <<ringVars, slots>>)
    BY <1>6 DEF GrowForCall, DoGrow
  <2>2. CASE Grow BY <1>1, <2>1, <2>2, GrowRaises DEF Promise!Next
  <2> QED BY <1>4, <2>1, <2>2
<1>7. CASE Render
  <2>1. RenderEffect BY <1>1, <1>7, RendersEffect
  <2>2. ASSUME NEW s \in Active PROVE Reading(slots'[s]) = Reading(slots[s])
    <3>1. PICK v \in Vals : slots'[s] = [slots[s] EXCEPT !.val = v]
      BY <1>1, <2>1 DEF RenderEffect
    <3>2. slots[s] \in SlotRec BY <1>1
    <3> QED BY <3>1, <3>2 DEF SlotRec, Reading, Shown
  <2>3. UNCHANGED <<ringVars, capacity, dropped>> BY <1>7 DEF Render, ringVars
  <2>4. Held' = Held BY <1>1, <2>2, <2>3, SameReadings
  <2> QED BY <2>3, <2>4, Stutters
<1>8. CASE Reset
  <2>1. size' = 0 /\ dropped' = 0 /\ UNCHANGED capacity
    BY <1>8 DEF Reset, ClearRing
  <2>2. Active' = {} BY <1>1, <2>1, ActiveAfter
  <2>3. Held' = {} BY <2>2 DEF Held
  <2> QED BY <2>1, <2>3, Clears DEF Promise!Next
<1>9. CASE Ingest \/ IngestFromBinary \/ Return \/ SetImportanceField \/ Tick \/ UNCHANGED vars
  <2>1. UNCHANGED <<ringVars, slots, dropped>>
    BY <1>9 DEF Ingest, IngestFromBinary, Begin, Return, SetImportanceField, Tick, vars
  <2> QED BY <1>4, <2>1
<1> QED
  BY <1>2, <1>3, <1>5, <1>6, <1>7, <1>8, <1>9 DEF Next, CallStep

LEMMA PromiseInvInit == Init => PromiseInv
<1> SUFFICES ASSUME Init PROVE PromiseInv
  OBVIOUS
<1>1. Active = {} /\ size = 0
  BY InitBase, ActiveOf DEF Init
<1>2. GenerationsUnique
  BY <1>1 DEF GenerationsUnique
<1>3. IndexExact
  BY <1>1 DEF IndexExact, Init
<1>4. OldestFirst
  BY <1>1 DEF OldestFirst
<1> QED BY <1>2, <1>3, <1>4, InitBase, CallOKInit, FaithfulInit DEF PromiseInv

(* PointBuffer, with its head, swaps, stamps, growth and index, shows its  *)
(* readers what Retention promises: a bounded set of unchanged points.     *)
(* Once it is full, one with the least score among its oldest makes room   *)
(* for the next point, or the next point is turned away.                   *)
THEOREM RingKeepsItsPromise == Spec => KeepsPromise
<1>1. Init => PromiseInv
  BY PromiseInvInit
<1>2. PromiseInv /\ [Next]_vars => PromiseInv'
  <2> SUFFICES ASSUME PromiseInv, [Next]_vars PROVE PromiseInv'
    OBVIOUS
  <2>1. OldestFirst' BY OldestFirstStep
  <2> QED BY <2>1, NextBase, CallOKStep, FaithfulStep, UniqueStep, IndexStep DEF PromiseInv
<1>3. Init => Promise!Init
  BY StartsEmpty
<1>4. PromiseInv /\ [Next]_vars => [Promise!Next]_(Promise!retained)
  BY StepKeepsPromise
<1> QED
  BY <1>1, <1>2, <1>3, <1>4, PTL DEF Spec, KeepsPromise, Promise!Spec
=============================================================================
