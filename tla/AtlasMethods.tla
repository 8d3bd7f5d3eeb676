---------------------------- MODULE AtlasMethods ----------------------------
(***************************************************************************)
(* The methods of AtlasManager (src/copc/copc-atlas-manager.ts), as        *)
(* operators on a record of its state.  The GPU point atlas is cut into    *)
(* slots, the slots into tiers by size; a tier has a stack of free slots   *)
(* and a map of its loaded nodes from the least to the most recently used. *)
(***************************************************************************)
EXTENDS Listings

CONSTANTS
  Nodes, NoNode,
  Slots, NoSlot,
  Tiers, NoTier,  \* NoTier: what _pickTier finds for a count that fits none
  TierOf,   \* [Slots -> Tiers], _tierOfGlobal
  SlotOrder \* the initial stack of each tier

SlotsIn(t) == {s \in Slots : TierOf[s] = t}

ASSUME AtlasConstants ==
  /\ TierOf \in [Slots -> Tiers]
  /\ NoNode \notin Nodes /\ NoSlot \notin Slots /\ NoTier \notin Tiers
  /\ SlotOrder \in [Tiers -> Seq(Slots)]
  /\ \A t \in Tiers : {SlotOrder[t][i] : i \in DOMAIN SlotOrder[t]} = SlotsIn(t)
  /\ \A t \in Tiers : \A i, j \in DOMAIN SlotOrder[t] :
       SlotOrder[t][i] = SlotOrder[t][j] => i = j

Elements(s) == {s[i] : i \in DOMAIN s}
Without(s, x) == Only(s, Elements(s) \ {x})

-----------------------------------------------------------------------------
(* Methods.  An operator named Bug... is not one: it is the next operator  *)
(* with a mistake, which a property must notice.                           *)

Empty == [free |-> SlotOrder, lru |-> [t \in Tiers |-> <<>>],
          slotToNode |-> [s \in Slots |-> NoNode], nodeToSlot |-> [n \in Nodes |-> NoSlot]]

Loaded(a) == {n \in Nodes : a.nodeToSlot[n] # NoSlot}

(* alloc: pops the tier's stack *)
HasFreeSlot(a, t) == t # NoTier /\ a.free[t] # <<>>
TopSlot(a, t) == a.free[t][Len(a.free[t])]
Allocated(a, t) == [a EXCEPT !.free[t] = SubSeq(@, 1, Len(@) - 1)]


(* assignSlot: Map.set leaves a key that is already there in its place.    *)
Assigned(a, n, s) ==
  LET t == TierOf[s]
  IN [a EXCEPT !.nodeToSlot[n] = s, !.slotToNode[s] = n,
               !.lru[t] = IF n \in Elements(@) THEN @ ELSE Append(@, n)]

BugTouchInPlace(a, n) == a

(* touch *)
Touched(a, n) ==
  LET t == TierOf[a.nodeToSlot[n]]
  IN IF n \notin Loaded(a) THEN a ELSE [a EXCEPT !.lru[t] = Append(Without(@, n), n)]

Pushed(a, s) == [a EXCEPT !.free[TierOf[s]] = Append(@, s)]


(* _evictNode, and the tail of releaseNodeSlot and free *)
Dropped(a, n, s) ==
  Pushed([a EXCEPT !.lru[TierOf[s]] = Without(@, n),
                   !.slotToNode[s] = NoNode, !.nodeToSlot[n] = NoSlot], s)

(* lruEvict: the first node of the order that is not to be skipped *)
Evictable(a, t, skip) ==
  IF t = NoTier THEN <<>> ELSE Only(a.lru[t], Nodes \ skip)
Oldest(a, t, skip) == Head(Evictable(a, t, skip))
Evicted(a, n) == Dropped(a, n, a.nodeToSlot[n])

=============================================================================
