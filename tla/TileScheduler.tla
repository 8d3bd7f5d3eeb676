--------------------------- MODULE TileScheduler ---------------------------
(***************************************************************************)
(* What a frame of <CopcPointCloud> asks of the index it was given: the    *)
(* tiles in view that are worth their points (src/copc/copc-frustum.ts),   *)
(* in the order of the prefetch strategy and rotated                       *)
(* (src/components/copc/scheduler-logic.ts), for as many fetches as the    *)
(* frame times allow (tick, src/components/CopcPointCloud.tsx).            *)
(*                                                                         *)
(* The octree is cut down to one axis, on which the root voxel covers      *)
(* 0 .. 2 * RootHalf.  A view is [at, ahead, low, high]: the camera, the   *)
(* place its velocity takes it to, and the part of the axis it sees.       *)
(***************************************************************************)
EXTENDS CopcIndex

CONSTANTS
  RootHalf,
  Views, NoView,
  Strategy,          \* prefetchStrategy
  LodNum, LodDen,    \* lodThreshold
  MaxDepth,
  MinPoints,         \* minPointsPerNode
  MaxConcurrent,
  \* Bounds of the model:
  MaxMoves           \* changes of the view

ASSUME SchedulerConstants ==
  /\ RootHalf \in Nat \ {0} /\ {LodNum, LodDen, MaxConcurrent} \subseteq Nat \ {0}
  /\ {MaxDepth, MinPoints, MaxMoves} \subseteq Nat
  /\ Strategy \in {"frustum-priority", "depth-first", "nearest", "bandwidth-saver"}

(* What ^ means, which the prover does not know                            *)
ASSUME PowersAssumption ==
  2 ^ 0 = 1 /\ \A d \in 0..Finest : 2 ^ (d + 1) = 2 * 2 ^ d

(* The unit is the half of the voxels of some level; finer ones have none. *)
ASSUME RootAssumption == RootHalf \in {2 ^ d : d \in 0..Finest}

ASSUME ViewsAssumption ==
  NoView \notin Views /\ \A v \in Views : v.at \in Int /\ v.low \in Int /\ v.high \in Int

VARIABLES
  view,                \* viewParamsRef, NoView until the scene reports one
  fetching, fetched,
  cursor,              \* fairnessCursorRef
  adaptive,            \* adaptiveConcurrencyRef
  over, under,         \* the streaks of slow and of fast frames
  fast,                \* history: the last frame was fast
  moves

fetchVars == <<fetching, fetched>>
rateVars == <<adaptive, over, under, fast>>
vars == <<indexVars, view, fetchVars, cursor, rateVars, moves>>

Root == <<0, 0>>
Greater(a, b) == IF a > b THEN a ELSE b
Smaller(a, b) == IF a < b THEN a ELSE b
Gap(a, b) == Greater(a - b, b - a)

-----------------------------------------------------------------------------
(* selectVisibleTiles *)

(* voxelBounds *)
Half(k) == RootHalf \div 2 ^ k[1]
Center(k) == (2 * k[2] + 1) * Half(k)
InFrustum(k) == Center(k) + Half(k) >= view.low /\ Center(k) - Half(k) <= view.high

(* Sixths: log10(points + 1) / 3, rounded down, no less than a half.       *)
Density(n) == IF n >= 999 THEN 6 ELSE IF n >= 316 THEN 5 ELSE IF n >= 99 THEN 4 ELSE 3

Present(k) == k \in DOMAIN nodes /\ nodes[k].size # 0
Points(k) == IF IsStub(nodes[k]) THEN 0 ELSE nodes[k].points
Sparse(k) == ~IsStub(nodes[k]) /\ Points(k) < MinPoints
Oversize(k) == Points(k) > MaxSlot

(* The projected radius, by density, exceeds tenths / 10 of the threshold. *)
Exceeds(k, tenths) ==
  Half(k) * Density(Points(k)) * LodDen * 10 >
    tenths * LodNum * 6 * Greater(Gap(Center(k), view.at), 1)

Detailed(k) == k = Root \/ Exceeds(k, 10)

BugNoSlack(k) ==
  k[1] < MaxDepth /\ ~Sparse(k) /\ (Oversize(k) \/ IsStub(nodes[k]) \/ Detailed(k))
Recurses(k) ==
  /\ k[1] < MaxDepth /\ ~Sparse(k)
  /\ Oversize(k) \/ IsStub(nodes[k]) \/ Detailed(k) \/ Exceeds(k, 3)

Above(k) == {<<d, k[2] \div 2 ^ (k[1] - d)>> : d \in 0 .. k[1] - 1}
Reached(k) == \A a \in Above(k) : Present(a) /\ InFrustum(a) /\ Recurses(a)

Fetchable(k) == ~IsStub(nodes[k]) /\ ~Sparse(k) /\ ~Oversize(k)
Selected == {k \in DOMAIN nodes :
  Reached(k) /\ Present(k) /\ InFrustum(k) /\ Detailed(k) /\ Fetchable(k)}

-----------------------------------------------------------------------------
(* sortCandidatesByStrategy and rotateCandidatesForFairness *)

(* The depth-first search meets a node before those under it, and the last *)
(* child first.                                                            *)
Searched(a, b) ==
  LET d == Smaller(a[1], b[1])
      place(k) == k[2] \div 2 ^ (k[1] - d)
  IN IF place(a) = place(b) THEN a[1] < b[1] ELSE place(a) > place(b)

Distance(k) == IF view = NoView THEN 0 ELSE Gap(Center(k), view.ahead)

(* Ties keep the order of the search.                                      *)
Before(a, b) ==
  LET deeper == CASE Strategy = "bandwidth-saver" -> b[1] - a[1]
                  [] Strategy = "nearest" -> 0
                  [] OTHER -> a[1] - b[1]
      nearer == IF Strategy = "bandwidth-saver" THEN 0 ELSE Distance(b) - Distance(a)
  IN \/ deeper > 0
     \/ deeper = 0 /\ (nearer > 0 \/ (nearer = 0 /\ Searched(a, b)))

Candidates == IF view = NoView THEN {Root} ELSE Selected

(* The place of k when the sorted candidates are rotated by the cursor     *)
Turn(k, tiles) ==
  LET n == Cardinality(tiles)
      sorted == Cardinality({j \in tiles : Before(j, k)})
  IN (sorted + n - (cursor % n)) % n

-----------------------------------------------------------------------------
(* adaptCopcConcurrency: three slow frames in a row take a fetch away,     *)
(* three fast ones give it back.                                           *)
Frames == {"slow", "normal", "fast"}

Rate(next, o, u) == adaptive' = next /\ over' = o /\ under' = u
BugNotRaised(f) ==
  CASE f = "slow" /\ over < 2  -> Rate(adaptive, over + 1, 0)
    [] f = "slow"              -> Rate(Greater(2, adaptive - 1), 0, 0)
    [] f = "fast" /\ under < 2 -> Rate(adaptive, 0, under + 1)
    [] f = "fast"              -> Rate(Smaller(adaptive, MaxConcurrent), 0, 0)
    [] OTHER                   -> Rate(adaptive, 0, 0)
Adapt(f) ==
  CASE f = "slow" /\ over < 2  -> Rate(adaptive, over + 1, 0)
    [] f = "slow"              -> Rate(Greater(2, adaptive - 1), 0, 0)
    [] f = "fast" /\ under < 2 -> Rate(adaptive, 0, under + 1)
    [] f = "fast"              -> Rate(Smaller(adaptive + 1, MaxConcurrent), 0, 0)
    [] OTHER                   -> Rate(adaptive, 0, 0)

(* tick(), on a frame of the given length: what is left of the candidates  *)
(* is fetched, in their order, while there are slots.  One without points  *)
(* is done with.                                                           *)
Tick(f) ==
  /\ phase = "ready"
  /\ fast' = (f = "fast")
  /\ IF view = NoView THEN Rate(MaxConcurrent, 0, 0) ELSE Adapt(f)
  /\ \E tiles \in {Candidates} :
       LET slots == adaptive' - Cardinality(fetching)
           left == {k \in tiles \cap DOMAIN nodes : k \notin fetched \cup fetching}
           full == {k \in left : nodes[k].size # 0 /\ nodes[k].points > 0}
           met == {k \in left : Cardinality({j \in full : Turn(j, tiles) < Turn(k, tiles)}) < slots}
       IN /\ fetching' = fetching \cup (met \cap full)
          /\ fetched' = fetched \cup (met \ full)
          /\ cursor' = IF tiles = {} THEN cursor ELSE (cursor + 1) % Cardinality(tiles)
  /\ UNCHANGED <<indexVars, view, moves>>

(* A fetch ends: with a tile that was placed or was given up, or with one  *)
(* that found no place and will be fetched again.                          *)
Settles(k) ==
  /\ k \in fetching
  /\ fetching' = fetching \ {k}
  /\ fetched' \in {fetched, fetched \cup {k}}
  /\ UNCHANGED <<indexVars, view, cursor, rateVars, moves>>

(* The scene reports another view.                                         *)
Moves(v) ==
  /\ phase = "ready" /\ moves < MaxMoves /\ v # view
  /\ view' = v
  /\ moves' = moves + 1
  /\ UNCHANGED <<indexVars, fetchVars, cursor, rateVars>>

Init ==
  /\ IndexInit
  /\ view = NoView /\ fetching = {} /\ fetched = {} /\ cursor = 0
  /\ adaptive = MaxConcurrent /\ over = 0 /\ under = 0 /\ fast = FALSE /\ moves = 0

Index == IndexNext /\ UNCHANGED <<view, fetchVars, cursor, rateVars, moves>>
Next ==
  \/ Index
  \/ \E f \in Frames : Tick(f)
  \/ \E k \in fetching : Settles(k)
  \/ \E v \in Views : Moves(v)

Spec == Init /\ [][Next]_vars

(* Frames come.                                                            *)
FairSpec == Spec /\ WF_vars(\E f \in Frames : Tick(f))

-----------------------------------------------------------------------------
(* Properties *)

(* A tile that is worth its points in the present view.  (Nodes without    *)
(* points, or with very few, hide those under them.)                       *)
Deserving(k) ==
  /\ Present(k) /\ Fetchable(k) /\ InFrustum(k) /\ Exceeds(k, 10) /\ k[1] <= MaxDepth
  /\ \A a \in Above(k) : Present(a) /\ ~Sparse(a)

(* The search misses no such tile, whatever lies between it and the root:  *)
(* stubs, oversize nodes, and nodes that are not detailed enough to be     *)
(* selected themselves.  (The comment on selectVisibleTiles says otherwise: *)
(* OnlyUnderIncluded, below.)                                              *)
SelectionComplete == phase = "ready" /\ view # NoView =>
  \A k \in DOMAIN nodes : Deserving(k) => k \in Selected

(* "Children are explored only when the parent was included"               *)
(* (copc-frustum.ts, selectVisibleTiles).                                  *)
OnlyUnderIncluded == phase = "ready" /\ view # NoView =>
  \A k \in Selected : Above(k) \subseteq Selected

(* Once all frames are fast, all the fetches are allowed again.            *)
ConcurrencyRecovers == <>[]fast => <>[](adaptive = MaxConcurrent)
=============================================================================
