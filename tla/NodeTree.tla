------------------------------ MODULE NodeTree ------------------------------
(***************************************************************************)
(* The octree of a COPC index as the scenes hold it, and which of its      *)
(* nodes a view asks for.                                                  *)
(*                                                                         *)
(* The code numbers the nodes in the order it meets them.  That is breadth *)
(* first, so tables of one index for two depths agree on the numbers they  *)
(* share, and a node's key can stand for its number here.                  *)
(***************************************************************************)
EXTENDS Listings, Functions

CONSTANTS
  KeyOrder, \* the keys breadth first from the root, absent ones left out
  Depth,    \* [keys -> Nat]
  ParentOf, \* [keys other than the root -> keys]
  NoBytes,  \* keys of the index whose entry has no bytes
  MaxNodes  \* nodes a table has room for

Keys == Range(KeyOrder)

ASSUME TreeConstants ==
  /\ KeyOrder \in Seq(Keys) /\ IsInjective(KeyOrder)
  /\ NoBytes \subseteq Keys /\ MaxNodes \in Nat
  /\ Depth \in [Keys -> Nat] /\ ParentOf \in [{n \in Keys : Depth[n] > 0} -> Keys]
  /\ \A n \in DOMAIN ParentOf : Depth[ParentOf[n]] = Depth[n] - 1
  /\ \A i, j \in DOMAIN KeyOrder : i < j => Depth[KeyOrder[i]] <= Depth[KeyOrder[j]]

-----------------------------------------------------------------------------
(* A node and those above it: the smallest set of keys with the node and   *)
(* the parents of its members                                              *)
UpClosed(S) == \A m \in S : Depth[m] > 0 => ParentOf[m] \in S
Line == [n \in Keys |->
  {m \in Keys : \A S \in SUBSET Keys : n \in S /\ UpClosed(S) => m \in S}]

(* uploadNodeTable and buildNodeMap: a key is met if its parent has a      *)
(* place, and the walk stops at the first one there is no room for.        *)
NodeTable(maxDepth) ==
  LET all == Only(KeyOrder, {n \in Keys : Line[n] \cap NoBytes = {} /\ Depth[n] <= maxDepth})
  IN SubSeq(all, 1, IF Len(all) < MaxNodes THEN Len(all) ELSE MaxNodes)

TopNodes == {n \in Keys : Depth[n] = 0}
Below(n) == {c \in DOMAIN ParentOf : ParentOf[c] = n}
Roots(t) == Only(t, TopNodes)
ChildrenIn(t, n) == Only(t, Below(n))

-----------------------------------------------------------------------------
(* Views.  A view says of each node whether its box meets the frustum,     *)
(* whether its screen error is below the threshold, and whether its centre *)
(* is behind the camera.                                                   *)

(* Does the CPU draw a loaded node that it visits?                         *)
Takes(t, v, n, loaded) ==
  \/ n \in v.fine \/ ChildrenIn(t, n) = <<>>
  \/ Range(ChildrenIn(t, n)) \cap loaded = {}

(* What the walks of the GPU and the CPU promise, without walking: every   *)
(* node above n is seen and too coarse, and n is seen.                     *)
Reached(t, v, seen) ==
  {n \in Range(t) : Line[n] \subseteq seen /\ (Line[n] \ {n}) \cap v.fine = {}}

(* The GPU draws each such node on top of those above it, the CPU instead  *)
(* of them.                                                                *)
AdditiveCut(t, v, loaded) == Reached(t, v, v.visible) \cap loaded
ReplacementCut(t, v, loaded) ==
  {n \in Reached(t, v, v.visible \ v.behind) \cap loaded : Takes(t, v, n, loaded)}
=============================================================================
