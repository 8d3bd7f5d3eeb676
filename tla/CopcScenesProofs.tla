-------------------------- MODULE CopcScenesProofs --------------------------
(***************************************************************************)
(* What is proved of the frames of the two COPC scenes, for any octree,    *)
(* views, tiers, slots and number of waves:                                *)
(*  - a WebGPU frame draws the slots of the loaded nodes of the additive   *)
(*    cut, each once, in whatever order its threads run;                   *)
(*  - a WebGL frame draws the nodes of the replacement cut, each once, and *)
(*    from up to date VBOs;                                                *)
(*  - the WebGL scene evicts no tile that it drew while it could evict one *)
(*    that it did not.                                                     *)
(* Both cuts are said of a node and those above it, its line, without      *)
(* walking; the frames walk.  What connects them is the invariant.  On the *)
(* GPU, the queue of a wave has the nodes of its depth whose parents were  *)
(* seen and are too coarse, and the children of those looked at are either *)
(* in the next queue or with a thread that still pushes them (InWave).  On *)
(* the CPU, no node of the stack is above another, and the nodes selected  *)
(* are those of the cut under none of the stack (InCut).  The tiles drawn  *)
(* last or uploaded since are at the end of their tier's order of use      *)
(* (RecentLast).                                                           *)
(***************************************************************************)
EXTENDS CopcScenes, IndexSets

-----------------------------------------------------------------------------
(* The invariant, in parts                                                 *)

AtlasFields == {"free", "lru", "slotToNode", "nodeToSlot"}

(* A node has a slot of its tier or none.  A tier's stack has slots of the *)
(* tier, its order of use has loaded nodes of the tier.                    *)
AtlasOf(a) ==
  /\ DOMAIN a = AtlasFields
  /\ a.free \in [Tiers -> Seq(Slots)] /\ a.lru \in [Tiers -> Seq(Nodes)]
  /\ a.nodeToSlot \in [Nodes -> Slots \cup {NoSlot}]
  /\ \A n \in Loaded(a) : a.nodeToSlot[n] \in SlotsIn(TierFor[n])
  /\ \A t \in Tiers : Elements(a.free[t]) \subseteq SlotsIn(t)
  /\ \A t \in Tiers : \A n \in Elements(a.lru[t]) : n \in Loaded(a) /\ TierFor[n] = t

(* The node table on the GPU has the slots of the atlas, and a loaded      *)
(* node's slot has a descriptor.                                           *)
Tiles ==
  /\ AtlasOf(atlas)
  /\ \A n \in Nodes : nodeTable[n] = atlas.nodeToSlot[n]
  /\ DOMAIN content = Slots
  /\ \A n \in Loaded(atlas) : content[atlas.nodeToSlot[n]] # NoNode

IsTable(t) ==
  /\ t \in Seq(Keys) /\ Len(t) <= MaxNodes
  /\ \A i, j \in DOMAIN t : t[i] = t[j] => i = j
  /\ UpClosed(Range(t))

Types ==
  /\ IsTable(table) /\ view \in Views
  /\ backend \in {"webgpu", "webgl"}
  /\ phase \in {"idle"} \cup (IF backend = "webgpu" THEN {"waves", "pack"} ELSE {"cut"})
  /\ queue \in [0..1 -> [1..MaxNodes -> Keys \cup {NoNode}]]
  /\ counts \in [0..Waves -> Nat]
  /\ backend = "webgpu" => counts[0] = Len(Roots(table))
  /\ packList \in [1..Cardinality(Slots) -> Slots \cup {NoSlot}]
  /\ phase # "waves" => pushing = {}

(* What a walk looks at: the nodes all of whose ancestors are seen and too *)
(* coarse.                                                                 *)
Offered(seen) == {n \in Range(table) :
  Depth[n] > 0 => ParentOf[n] \in Reached(table, view, seen) \ view.fine}

Seen == Reached(table, view, view.visible)
Input == InputOf(wave)
Output == queue[(wave + 1) % 2]
Done == {Input[i] : i \in (1..counts[wave]) \ todo}
Kids == {c \in Range(table) : Depth[c] > 0 /\ ParentOf[c] \in (Done \cap view.visible) \ view.fine}
Left == UNION {Range(p) : p \in pushing}
Sent == {Output[i] : i \in 1..counts[wave + 1]}

(* During a wave its queue lists the nodes of its depth that are to be     *)
(* looked at, each once.  The children of those that were are in the next  *)
(* queue or with a thread that still pushes, never both.                   *)
InWave ==
  /\ wave \in 0..(Waves - 1) /\ counts[wave] <= MaxNodes /\ counts[wave + 1] <= MaxNodes
  /\ {Input[i] : i \in 1..counts[wave]} = {n \in Offered(view.visible) : Depth[n] = wave}
  /\ \A i, j \in 1..counts[wave] : Input[i] = Input[j] => i = j
  /\ todo \subseteq 1..counts[wave]
  /\ \A p \in pushing : p \in Seq(Keys) /\ p # <<>> /\ IsInjective(p)
  /\ \A p, q \in pushing : p # q => Range(p) \cap Range(q) = {}
  /\ Sent \cup Left = Kids /\ Sent \cap Left = {}
  /\ \A i, j \in 1..counts[wave + 1] : Output[i] = Output[j] => i = j
  /\ \A w \in (wave + 2)..Waves : counts[w] = 0
  /\ selected = {nodeTable[n] : n \in {m \in Seen : Depth[m] < wave} \cup (Done \cap view.visible)}
                  \ {NoSlot}

(* While the draws are packed, those to do are the cut's, and the list has *)
(* each of the others once.                                                *)
InPack ==
  /\ drawArgs = SlotsOf({n \in Seen \cap Loaded(atlas) : Depth[n] < Waves})
  /\ todo \subseteq drawArgs /\ drawCount \in 0..Cardinality(Slots)
  /\ {packList[i] : i \in 1..drawCount} = drawArgs \ todo
  /\ \A i, j \in 1..drawCount : packList[i] = packList[j] => i = j

CpuSeen == view.visible \ view.behind

(* During the walk of the CPU no node on the stack is above another, and   *)
(* the nodes selected are those to draw that are not under the stack.      *)
InCut ==
  /\ stack \in Seq(Keys) /\ Range(stack) \subseteq Offered(CpuSeen)
  /\ \A i, j \in DOMAIN stack : stack[i] \in Line[stack[j]] => i = j
  /\ cut \in Seq(Keys) /\ IsInjective(cut)
  /\ Range(cut) = {n \in ReplacementCut(table, view, Loaded(atlas)) :
                     Line[n] \cap Range(stack) = {}}
  /\ ~dirty

Clean == backend = "webgl" /\ ~dirty => vbo = content

(* A tier's order of use has the tiles that were drawn last, or uploaded   *)
(* since, at its end.                                                      *)
AtEnd(s, S) == \A i, j \in DOMAIN s : i < j /\ s[i] \in S => s[j] \in S
Recent == IF phase = "cut" THEN Range(cut) ELSE lastCut \cup since
RecentLast == backend = "webgl" => \A t \in Tiers : AtEnd(atlas.lru[t], Recent)

IInv ==
  /\ Types /\ Tiles /\ Clean /\ RecentLast
  /\ phase = "waves" => InWave
  /\ phase = "pack" => InPack
  /\ phase = "cut" => InCut

-----------------------------------------------------------------------------
(* The tree                                                                *)

(* What the constants say, for use by name                                 *)
LEMMA TreeIs ==
  /\ KeyOrder \in Seq(Keys) /\ DOMAIN KeyOrder = 1..Len(KeyOrder) /\ Len(KeyOrder) \in Nat
  /\ \A i, j \in DOMAIN KeyOrder : KeyOrder[i] = KeyOrder[j] => i = j
  /\ \A n \in Keys : Depth[n] \in Nat
  /\ \A n \in Keys : Depth[n] > 0 =>
       n \in DOMAIN ParentOf /\ ParentOf[n] \in Keys /\ Depth[ParentOf[n]] = Depth[n] - 1
  /\ DOMAIN ParentOf = {n \in Keys : Depth[n] > 0}
<1>1. DOMAIN KeyOrder = 1..Len(KeyOrder) /\ Len(KeyOrder) \in Nat
  BY TreeConstants
<1>2. \A n \in Keys : Depth[n] \in Nat BY TreeConstants
<1>3. DOMAIN ParentOf = {n \in Keys : Depth[n] > 0} BY TreeConstants
<1>4. \A n \in DOMAIN ParentOf : ParentOf[n] \in Keys BY TreeConstants
<1> QED BY <1>1, <1>2, <1>3, <1>4, TreeConstants DEF IsInjective

(* A node is on its line, which is closed.                                 *)
LEMMA LineIs ==
  ASSUME NEW n \in Keys
  PROVE  n \in Line[n] /\ Line[n] \subseteq Keys /\ UpClosed(Line[n])
<1>1. Line[n] = {m \in Keys : \A S \in SUBSET Keys : n \in S /\ UpClosed(S) => m \in S}
  BY DEF Line
<1>2. ASSUME NEW m \in Line[n], Depth[m] > 0 PROVE ParentOf[m] \in Line[n]
  <2>1. m \in Keys /\ ParentOf[m] \in Keys BY <1>1, <1>2, TreeIs
  <2>2. ASSUME NEW S \in SUBSET Keys, n \in S, UpClosed(S) PROVE ParentOf[m] \in S
    <3>1. m \in S BY <1>1, <2>2
    <3> QED BY <1>2, <2>2, <3>1 DEF UpClosed
  <2> QED BY <1>1, <2>1, <2>2
<1> QED BY <1>1, <1>2 DEF UpClosed

(* It is in every closed set with the node.                                *)
LEMMA LineLeast ==
  ASSUME NEW n \in Keys, NEW S \in SUBSET Keys, n \in S, UpClosed(S)
  PROVE  Line[n] \subseteq S
BY DEF Line

(* It is the node and its parent's line.                                   *)
LEMMA LineStep ==
  ASSUME NEW n \in Keys
  PROVE  /\ Depth[n] = 0 => Line[n] = {n}
         /\ Depth[n] > 0 => Line[n] = {n} \cup Line[ParentOf[n]]
<1>1. ASSUME Depth[n] = 0 PROVE Line[n] = {n}
  <2>1. {n} \in SUBSET Keys /\ n \in {n} /\ UpClosed({n}) BY <1>1 DEF UpClosed
  <2>2. Line[n] \subseteq {n} BY <2>1, LineLeast
  <2> QED BY <2>2, LineIs
<1>2. ASSUME Depth[n] > 0 PROVE Line[n] = {n} \cup Line[ParentOf[n]]
  <2> DEFINE p == ParentOf[n]
             S == {n} \cup Line[p]
  <2>1. p \in Keys BY <1>2, TreeIs
  <2>2. p \in Line[p] /\ Line[p] \subseteq Keys /\ UpClosed(Line[p]) BY <2>1, LineIs
  <2>3. S \in SUBSET Keys /\ n \in S /\ UpClosed(S) BY <2>2 DEF UpClosed
  <2>4. Line[n] \subseteq S BY <2>3, LineLeast
  <2>5. n \in Line[n] /\ Line[n] \in SUBSET Keys /\ UpClosed(Line[n]) BY LineIs
  <2>6. p \in Line[n] BY <1>2, <2>5 DEF UpClosed
  <2>7. Line[p] \subseteq Line[n] BY <2>1, <2>5, <2>6, LineLeast
  <2> QED BY <2>4, <2>5, <2>7
<1> QED BY <1>1, <1>2

(* The others on it are less deep.                                         *)
LEMMA LineDepth ==
  ASSUME NEW n \in Keys, NEW m \in Line[n], m # n
  PROVE  m \in Keys /\ Depth[m] < Depth[n]
<1> DEFINE S == {k \in Keys : k = n \/ Depth[k] < Depth[n]}
<1>1. UpClosed(S)
  <2>1. ASSUME NEW k \in S, Depth[k] > 0 PROVE ParentOf[k] \in S
    <3>1. /\ k \in Keys /\ Depth[k] \in Nat /\ Depth[n] \in Nat
          /\ ParentOf[k] \in Keys /\ Depth[ParentOf[k]] = Depth[k] - 1
      BY <2>1, TreeIs
    <3>2. k = n \/ Depth[k] < Depth[n] OBVIOUS
    <3>3. Depth[ParentOf[k]] < Depth[n] BY <3>1, <3>2
    <3> QED BY <3>1, <3>3
  <2> QED BY <2>1 DEF UpClosed
<1>2. n \in S /\ S \in SUBSET Keys OBVIOUS
<1>3. Line[n] \subseteq S BY <1>1, <1>2, LineLeast
<1> QED BY <1>3

(* Below another node on it is a child of that node.                       *)
LEMMA ChildOnLine ==
  ASSUME NEW x \in Keys, NEW n \in Line[x], n # x
  PROVE  \E c \in Line[x] : Depth[c] > 0 /\ ParentOf[c] = n
<1>1. x \in Line[x] /\ Line[x] \in SUBSET Keys /\ UpClosed(Line[x]) BY LineIs
<1>2. ASSUME \A c \in Line[x] : Depth[c] > 0 => ParentOf[c] # n PROVE FALSE
  <2> DEFINE S == Line[x] \ {n}
  <2>1. S \in SUBSET Keys /\ x \in S /\ UpClosed(S) BY <1>1, <1>2 DEF UpClosed
  <2>2. Line[x] \subseteq S BY <2>1, LineLeast
  <2> QED BY <2>2
<1> QED BY <1>2

(* A line ends at a root.                                                  *)
LEMMA RootOnLine ==
  ASSUME NEW n \in Keys
  PROVE  \E r \in Line[n] : Depth[r] = 0
<1>1. n \in Line[n] /\ Line[n] \in SUBSET Keys /\ UpClosed(Line[n]) BY LineIs
<1> DEFINE T == {Depth[m] : m \in Line[n]}
<1>2. Depth[n] \in Nat /\ \A m \in Line[n] : m \in Keys /\ Depth[m] \in Nat
  BY <1>1, TreeIs
<1>3. ASSUME NEW m \in Line[n] PROVE Depth[m] \in 0..Depth[n]
  <2>1. m = n \/ Depth[m] < Depth[n] BY LineDepth
  <2> QED BY <1>2, <2>1
<1>4. T \in SUBSET (0..Depth[n]) /\ T # {} BY <1>1, <1>3
<1>4a. 0 \in Int /\ Depth[n] \in Int BY <1>2
<1> HIDE DEF T
<1>5. PICK d \in T : \A e \in T : d <= e BY <1>4, <1>4a, LeastOf
<1>6. PICK r \in Line[n] : d = Depth[r] BY DEF T
<1>7. ASSUME Depth[r] > 0 PROVE FALSE
  <2>1. ParentOf[r] \in Line[n] BY <1>1, <1>7 DEF UpClosed
  <2>2. Depth[ParentOf[r]] \in T BY <2>1 DEF T
  <2>3. Depth[ParentOf[r]] = Depth[r] - 1 /\ Depth[r] \in Nat BY <1>2, <1>7, TreeIs
  <2> QED BY <1>5, <1>6, <2>2, <2>3
<1> QED BY <1>2, <1>6, <1>7

-----------------------------------------------------------------------------
(* The node table                                                          *)

(* The part of a sequence before an index has the elements before it.      *)
LEMMA Beginning ==
  ASSUME NEW S, NEW s \in Seq(S), NEW m \in 0..Len(s)
  PROVE  /\ SubSeq(s, 1, m) \in Seq(S) /\ Len(SubSeq(s, 1, m)) = m
         /\ DOMAIN SubSeq(s, 1, m) = 1..m
         /\ \A i \in 1..m : SubSeq(s, 1, m)[i] = s[i]
<1>1. m \in Nat /\ Len(s) \in Nat /\ 1 \in 1..(Len(s) + 1) /\ m \in (1 - 1)..Len(s)
  OBVIOUS
<1>2. SubSeq(s, 1, m) \in Seq(S) /\ Len(SubSeq(s, 1, m)) = m - 1 + 1
      /\ \A i \in 1..(m - 1 + 1) : SubSeq(s, 1, m)[i] = s[1 + i - 1]
  BY <1>1, SubSeqProperties
<1>3. \A i \in 1..m : 1 + i - 1 = i BY <1>1
<1>4. m - 1 + 1 = m BY <1>1
<1> QED BY <1>1, <1>2, <1>3, <1>4

(* A table has each node once, and with a node its parent; it has no more  *)
(* nodes than there is room for (uploadNodeTable, buildNodeMap).           *)
LEMMA NodeTableIs == ASSUME NEW d \in Nat PROVE IsTable(NodeTable(d))
<1> DEFINE S == {n \in Keys : Line[n] \cap NoBytes = {} /\ Depth[n] <= d}
           all == Only(KeyOrder, S)
           m == IF Len(all) < MaxNodes THEN Len(all) ELSE MaxNodes
           t == SubSeq(all, 1, m)
<1>1. t = NodeTable(d) BY DEF NodeTable
<1>2. KeyOrder \in Seq(Keys) BY TreeIs
<1> HIDE DEF S
<1>3. PICK f \in [DOMAIN all -> DOMAIN KeyOrder] :
        /\ \A k \in DOMAIN all : all[k] = KeyOrder[f[k]] /\ KeyOrder[f[k]] \in S
        /\ \A k, l \in DOMAIN all : k < l => f[k] < f[l]
        /\ \A i \in DOMAIN KeyOrder : KeyOrder[i] \in S => \E k \in DOMAIN all : f[k] = i
  BY <1>2, OnlyPlaces
<1>4. all \in Seq(Keys) /\ Len(all) \in Nat /\ DOMAIN all = 1..Len(all)
  BY <1>2, OnlySeq
<1>5. \A i, j \in DOMAIN all : all[i] = all[j] => i = j
  BY <1>2, TreeIs, OnlyOnce
<1> HIDE DEF all
<1>6. MaxNodes \in Nat BY TreeConstants
<1>7. m \in 0..Len(all) /\ m <= MaxNodes BY <1>4, <1>6
<1> HIDE DEF m
<1>8. /\ t \in Seq(Keys) /\ Len(t) = m /\ DOMAIN t = 1..m /\ \A i \in 1..m : t[i] = all[i]
  BY <1>4, <1>7, Beginning
<1> HIDE DEF t
<1>9. \A i, j \in DOMAIN t : t[i] = t[j] => i = j
  BY <1>4, <1>5, <1>7, <1>8
<1>10. ASSUME NEW n \in Range(t), Depth[n] > 0 PROVE ParentOf[n] \in Range(t)
  <2> DEFINE p == ParentOf[n]
  <2>1. PICK i \in 1..m : n = t[i] BY <1>8 DEF Range
  <2>2. i \in DOMAIN all /\ n = all[i] BY <1>4, <1>7, <1>8, <2>1
  <2>3. n \in S /\ n \in Keys /\ n = KeyOrder[f[i]] /\ f[i] \in DOMAIN KeyOrder
    BY <1>3, <2>2 DEF S
  <2>4. p \in Keys /\ Depth[p] = Depth[n] - 1 /\ Depth[n] \in Nat BY <1>10, <2>3, TreeIs
  <2>5. Line[p] \subseteq Line[n] BY <1>10, <2>3, LineStep
  <2>6. p \in S BY <2>3, <2>4, <2>5 DEF S
  <2>7. PICK j \in DOMAIN KeyOrder : KeyOrder[j] = p BY <2>4 DEF Keys, Range
  <2>8. PICK k \in DOMAIN all : f[k] = j BY <1>3, <2>6, <2>7
  <2>9. all[k] = p BY <1>3, <2>7, <2>8
  <2>10. ASSUME i <= k PROVE FALSE
    <3>1. i # k BY <2>2, <2>4, <2>9
    <3>2. f[i] < f[k] BY <1>3, <1>4, <2>2, <2>10, <3>1
    <3>3. Depth[KeyOrder[f[i]]] <= Depth[KeyOrder[j]] BY <2>3, <2>8, <3>2, TreeConstants
    <3> QED BY <2>3, <2>4, <2>7, <3>3
  <2>11. k \in 1..m BY <1>4, <1>7, <2>1, <2>10
  <2>12. t[k] = p BY <1>8, <2>9, <2>11
  <2> QED BY <1>8, <2>11, <2>12 DEF Range
<1>11. UpClosed(Range(t)) BY <1>10 DEF UpClosed
<1> QED BY <1>1, <1>7, <1>8, <1>9, <1>11 DEF IsTable

(* The roots in a table                                                    *)
LEMMA RootsAre ==
  ASSUME NEW t, IsTable(t)
  PROVE  /\ Roots(t) \in Seq(Keys) /\ Len(Roots(t)) \in 0..MaxNodes
         /\ DOMAIN Roots(t) = 1..Len(Roots(t))
         /\ Range(Roots(t)) = {n \in Range(t) : Depth[n] = 0}
         /\ \A i, j \in DOMAIN Roots(t) : Roots(t)[i] = Roots(t)[j] => i = j
<1> DEFINE r == Roots(t)
<1>1. t \in Seq(Keys) /\ Len(t) <= MaxNodes /\ Len(t) \in Nat BY DEF IsTable
<1>2. r = Only(t, TopNodes) BY DEF Roots
<1>3. r \in Seq(Keys) /\ Len(r) \in Nat /\ DOMAIN r = 1..Len(r) BY <1>1, <1>2, OnlySeq
<1>4. Range(r) = Range(t) \cap TopNodes BY <1>1, <1>2, OnlyRange
<1>5. \A i, j \in DOMAIN r : r[i] = r[j] => i = j
  BY <1>1, <1>2, OnlyOnce DEF IsTable
<1>6. Range(t) \subseteq Keys BY <1>1, RangeIs
<1> HIDE DEF r
<1>7. \A i \in 1..Len(r) : r[i] \in Range(t) BY <1>3, <1>4 DEF Range
<1>8. Len(r) <= Len(t) BY <1>1, <1>3, <1>5, <1>7, NoMoreThan
<1>9. Len(r) \in 0..MaxNodes BY <1>1, <1>3, <1>8, TreeConstants
<1>10. Range(r) = {n \in Range(t) : Depth[n] = 0} BY <1>4, <1>6 DEF TopNodes
<1> QED BY <1>3, <1>5, <1>9, <1>10 DEF r

(* The children of a node in a table                                       *)
LEMMA ChildrenAre ==
  ASSUME NEW t, IsTable(t), NEW n
  PROVE  /\ ChildrenIn(t, n) \in Seq(Keys)
         /\ Range(ChildrenIn(t, n)) = {c \in Range(t) : Depth[c] > 0 /\ ParentOf[c] = n}
         /\ IsInjective(ChildrenIn(t, n))
<1> DEFINE r == ChildrenIn(t, n)
<1>1. t \in Seq(Keys) BY DEF IsTable
<1>2. r = Only(t, Below(n)) BY DEF ChildrenIn
<1>3. r \in Seq(Keys) BY <1>1, <1>2, OnlySeq
<1>4. Range(r) = Range(t) \cap Below(n) BY <1>1, <1>2, OnlyRange
<1>5. \A i, j \in DOMAIN r : r[i] = r[j] => i = j
  BY <1>1, <1>2, OnlyOnce DEF IsTable
<1>6. Range(t) \subseteq Keys BY <1>1, RangeIs
<1> HIDE DEF r
<1>7. Range(r) = {c \in Range(t) : Depth[c] > 0 /\ ParentOf[c] = n}
  BY <1>4, <1>6, TreeIs DEF Below
<1>8. IsInjective(r) BY <1>5 DEF IsInjective
<1> QED BY <1>3, <1>7, <1>8 DEF r

-----------------------------------------------------------------------------
(* What a walk reaches                                                     *)

(* A node is reached if it is seen and its parent is reached and too       *)
(* coarse.                                                                 *)
LEMMA ReachedStep ==
  ASSUME NEW t, IsTable(t), NEW v, NEW seen, NEW n \in Range(t)
  PROVE  n \in Reached(t, v, seen) <=>
           n \in seen /\ (Depth[n] > 0 => ParentOf[n] \in Reached(t, v, seen) \ v.fine)
<1> DEFINE p == ParentOf[n]
           R == Reached(t, v, seen)
<1>1. Range(t) \subseteq Keys BY RangeIs DEF IsTable
<1>2. n \in Keys /\ Depth[n] \in Nat BY <1>1, TreeIs
<1>3. n \in R <=> Line[n] \subseteq seen /\ (Line[n] \ {n}) \cap v.fine = {} BY DEF Reached
<1>4. CASE Depth[n] = 0
  <2>1. Line[n] = {n} BY <1>2, <1>4, LineStep
  <2> QED BY <1>3, <1>4, <2>1
<1>5. CASE Depth[n] > 0
  <2>1. p \in Range(t) /\ p \in Keys /\ Depth[p] = Depth[n] - 1
    BY <1>1, <1>2, <1>5, TreeIs DEF IsTable, UpClosed
  <2>2. Line[n] = {n} \cup Line[p] BY <1>2, <1>5, LineStep
  <2>3. p \in Line[p] BY <2>1, LineIs
  <2>4. n \notin Line[p] /\ n # p
    <3>1. ASSUME n \in Line[p] PROVE FALSE
      <4>1. n = p \/ Depth[n] < Depth[p] BY <2>1, <3>1, LineDepth
      <4> QED BY <1>2, <2>1, <4>1
    <3> QED BY <2>3, <3>1
  <2>5. p \in R <=> Line[p] \subseteq seen /\ (Line[p] \ {p}) \cap v.fine = {}
    BY <2>1 DEF Reached
  <2>6. Line[n] \ {n} = Line[p] BY <2>2, <2>4
  <2>7. Line[n] \subseteq seen <=> n \in seen /\ Line[p] \subseteq seen BY <2>2
  <2>8. Line[p] \cap v.fine = {} <=> p \notin v.fine /\ (Line[p] \ {p}) \cap v.fine = {}
    BY <2>3
  <2> QED BY <1>3, <1>5, <2>5, <2>6, <2>7, <2>8
<1> QED BY <1>2, <1>4, <1>5

(* So those reached are those offered that are seen.                       *)
LEMMA OfferedSeen ==
  ASSUME IsTable(table), NEW seen
  PROVE  Reached(table, view, seen) = Offered(seen) \cap seen
<1>1. Reached(table, view, seen) \subseteq Range(table) BY DEF Reached
<1>2. \A n \in Range(table) : n \in Reached(table, view, seen) <=>
        n \in seen /\ (Depth[n] > 0 => ParentOf[n] \in Reached(table, view, seen) \ view.fine)
  BY ReachedStep
<1> QED BY <1>1, <1>2 DEF Offered

-----------------------------------------------------------------------------
(* The methods of the atlas                                                *)

(* A function changed at one place                                         *)
LEMMA ChangedAt ==
  ASSUME NEW D, NEW R, NEW f \in [D -> R], NEW x, NEW v \in R
  PROVE  [f EXCEPT ![x] = v] \in [D -> R]
OBVIOUS

(* Deletion from the order of use: the others stay, in their order.        *)
LEMMA WithoutIs ==
  ASSUME NEW s \in Seq(Nodes), NEW x
  PROVE  /\ Without(s, x) \in Seq(Nodes)
         /\ Elements(Without(s, x)) = Elements(s) \ {x}
         /\ \A S : AtEnd(s, S) => AtEnd(Without(s, x), S)
<1> DEFINE r == Without(s, x)
           E == Elements(s) \ {x}
<1>1. r = Only(s, E) BY DEF Without
<1> HIDE DEF E, r
<1>2. r \in Seq(Nodes) /\ DOMAIN r = 1..Len(r) BY <1>1, OnlySeq
<1>3. Range(r) = Range(s) \cap E BY <1>1, OnlyRange
<1>4. Elements(r) = Elements(s) \ {x} BY <1>3 DEF Range, Elements, E
<1>5. PICK f \in [DOMAIN r -> DOMAIN s] :
        /\ \A k \in DOMAIN r : r[k] = s[f[k]] /\ s[f[k]] \in E
        /\ \A k, l \in DOMAIN r : k < l => f[k] < f[l]
        /\ \A i \in DOMAIN s : s[i] \in E => \E k \in DOMAIN r : f[k] = i
  BY <1>1, OnlyPlaces
<1>6. ASSUME NEW S, AtEnd(s, S) PROVE AtEnd(r, S)
  <2> SUFFICES ASSUME NEW i \in DOMAIN r, NEW j \in DOMAIN r, i < j, r[i] \in S
               PROVE  r[j] \in S
    BY DEF AtEnd
  <2>1. f[i] < f[j] /\ f[i] \in DOMAIN s /\ f[j] \in DOMAIN s /\ s[f[i]] \in S BY <1>5
  <2>2. s[f[j]] \in S BY <1>6, <2>1 DEF AtEnd
  <2> QED BY <1>5, <2>2
<1> QED BY <1>2, <1>4, <1>6 DEF r

(* Addition at its end                                                     *)
LEMMA AppendedIs ==
  ASSUME NEW s \in Seq(Nodes), NEW x \in Nodes, x \notin Elements(s)
  PROVE  /\ Append(s, x) \in Seq(Nodes)
         /\ Elements(Append(s, x)) = Elements(s) \cup {x}
         /\ \A S : AtEnd(s, S) => AtEnd(Append(s, x), S \cup {x})
<1> DEFINE r == Append(s, x)
<1>1. r \in Seq(Nodes) /\ Range(r) = Range(s) \cup {x} BY AppendedRange
<1>2. /\ Len(s) \in Nat /\ DOMAIN s = 1..Len(s) /\ DOMAIN r = 1..(Len(s) + 1)
      /\ r[Len(s) + 1] = x /\ \A i \in 1..Len(s) : r[i] = s[i]
  BY AppendProperties
<1> HIDE DEF r
<1>3. ASSUME NEW S, AtEnd(s, S) PROVE AtEnd(r, S \cup {x})
  <2> SUFFICES ASSUME NEW i \in DOMAIN r, NEW j \in DOMAIN r, i < j, r[i] \in S \cup {x},
                      j # Len(s) + 1
               PROVE  r[j] \in S
    BY <1>2 DEF AtEnd
  <2>1. i \in DOMAIN s /\ j \in DOMAIN s /\ s[i] = r[i] /\ s[j] = r[j] BY <1>2
  <2>2. s[i] \in S BY <2>1 DEF Elements
  <2> QED BY <1>3, <2>1, <2>2 DEF AtEnd
<1> QED BY <1>1, <1>3 DEF r, Range, Elements

(* touch moves a loaded node to the end of its tier's order.               *)
LEMMA TouchedIs ==
  ASSUME NEW a, AtlasOf(a), NEW n \in Loaded(a)
  PROVE  /\ AtlasOf(Touched(a, n)) /\ Touched(a, n).nodeToSlot = a.nodeToSlot
         /\ Loaded(Touched(a, n)) = Loaded(a)
         /\ \A S : \A t \in Tiers :
              AtEnd(a.lru[t], S) => AtEnd(Touched(a, n).lru[t], S \cup {n})
<1> DEFINE b == Touched(a, n)
           u == TierOf[a.nodeToSlot[n]]
           rest == Without(a.lru[u], n)
           moved == Append(rest, n)
<1>1. /\ DOMAIN a = AtlasFields /\ n \in Nodes
      /\ a.free \in [Tiers -> Seq(Slots)] /\ a.lru \in [Tiers -> Seq(Nodes)]
      /\ a.nodeToSlot \in [Nodes -> Slots \cup {NoSlot}]
      /\ \A m \in Loaded(a) : a.nodeToSlot[m] \in SlotsIn(TierFor[m])
      /\ \A t \in Tiers : Elements(a.free[t]) \subseteq SlotsIn(t)
      /\ \A t \in Tiers : \A m \in Elements(a.lru[t]) : m \in Loaded(a) /\ TierFor[m] = t
  BY DEF AtlasOf, Loaded
<1>2. u \in Tiers /\ u = TierFor[n] BY <1>1, AtlasConstants DEF SlotsIn
<1>3. b = [a EXCEPT !.lru[u] = moved] BY DEF Touched
<1> HIDE DEF b, u, moved
<1>4. /\ DOMAIN b = AtlasFields /\ b.free = a.free /\ b.nodeToSlot = a.nodeToSlot
      /\ b.lru = [a.lru EXCEPT ![u] = moved]
  BY <1>1, <1>3 DEF AtlasFields
<1>5. a.lru[u] \in Seq(Nodes) BY <1>1, <1>2
<1>6. rest \in Seq(Nodes) /\ Elements(rest) = Elements(a.lru[u]) \ {n}
      /\ \A S : AtEnd(a.lru[u], S) => AtEnd(rest, S)
  BY <1>5, WithoutIs
<1> HIDE DEF rest
<1>7. moved \in Seq(Nodes) /\ Elements(moved) = Elements(rest) \cup {n}
      /\ \A S : AtEnd(rest, S) => AtEnd(moved, S \cup {n})
  BY <1>1, <1>6, AppendedIs DEF moved
<1>8. Loaded(b) = Loaded(a) BY <1>4 DEF Loaded
<1>9. \A t \in Tiers : b.lru[t] = IF t = u THEN moved ELSE a.lru[t] BY <1>1, <1>4
<1>10. b.lru \in [Tiers -> Seq(Nodes)] BY <1>1, <1>4, <1>7
<1>11. ASSUME NEW t \in Tiers, NEW m \in Elements(b.lru[t]) PROVE m \in Loaded(a) /\ TierFor[m] = t
  <2>1. CASE t = u
    BY <1>1, <1>2, <1>6, <1>7, <1>9, <1>11, <2>1
  <2>2. CASE t # u BY <1>1, <1>9, <1>11, <2>2
  <2> QED BY <2>1, <2>2
<1>12. AtlasOf(b) BY <1>1, <1>4, <1>8, <1>10, <1>11 DEF AtlasOf
<1>13. ASSUME NEW S, NEW t \in Tiers, AtEnd(a.lru[t], S) PROVE AtEnd(b.lru[t], S \cup {n})
  <2>1. CASE t = u BY <1>6, <1>7, <1>9, <1>13, <2>1
  <2>2. CASE t # u
    <3>1. n \notin Elements(a.lru[t]) BY <1>1, <1>2, <2>2
    <3>2. \A i \in DOMAIN a.lru[t] : a.lru[t][i] # n BY <3>1 DEF Elements
    <3> QED BY <1>9, <1>13, <2>2, <3>2 DEF AtEnd
  <2> QED BY <2>1, <2>2
<1> QED BY <1>4, <1>8, <1>12, <1>13 DEF b

(* alloc takes a slot of the tier from its stack.                          *)
LEMMA AllocatedIs ==
  ASSUME NEW a, AtlasOf(a), NEW t \in Tiers, a.free[t] # <<>>
  PROVE  /\ AtlasOf(Allocated(a, t)) /\ TopSlot(a, t) \in SlotsIn(t)
         /\ Allocated(a, t).nodeToSlot = a.nodeToSlot /\ Allocated(a, t).lru = a.lru
<1> DEFINE b == Allocated(a, t)
           rest == SubSeq(a.free[t], 1, Len(a.free[t]) - 1)
<1>1. /\ DOMAIN a = AtlasFields
      /\ a.free \in [Tiers -> Seq(Slots)]
      /\ \A u \in Tiers : Elements(a.free[u]) \subseteq SlotsIn(u)
  BY DEF AtlasOf
<1>2. a.free[t] \in Seq(Slots) /\ Len(a.free[t]) \in Nat \ {0}
      /\ DOMAIN a.free[t] = 1..Len(a.free[t])
  BY <1>1, EmptySeq
<1>3. TopSlot(a, t) \in SlotsIn(t) BY <1>1, <1>2 DEF TopSlot, Elements
<1>4. Len(a.free[t]) - 1 \in 0..Len(a.free[t]) BY <1>2
<1>5. rest \in Seq(Slots) /\ DOMAIN rest = 1..(Len(a.free[t]) - 1)
      /\ \A i \in 1..(Len(a.free[t]) - 1) : rest[i] = a.free[t][i]
  BY <1>2, <1>4, Beginning
<1>6. b = [a EXCEPT !.free[t] = rest] BY DEF Allocated
<1> HIDE DEF b, rest
<1>7. /\ DOMAIN b = AtlasFields /\ b.lru = a.lru /\ b.nodeToSlot = a.nodeToSlot
      /\ b.free = [a.free EXCEPT ![t] = rest]
  BY <1>1, <1>6 DEF AtlasFields
<1>8. Elements(rest) \subseteq Elements(a.free[t]) BY <1>2, <1>5 DEF Elements
<1>9. \A u \in Tiers : b.free[u] = IF u = t THEN rest ELSE a.free[u] BY <1>1, <1>7
<1>10. b.free \in [Tiers -> Seq(Slots)] BY <1>1, <1>5, <1>7
<1>11. \A u \in Tiers : Elements(b.free[u]) \subseteq SlotsIn(u) BY <1>1, <1>8, <1>9
<1>12. Loaded(b) = Loaded(a) BY <1>7 DEF Loaded
<1>13. AtlasOf(b) BY <1>7, <1>10, <1>11, <1>12 DEF AtlasOf
<1> QED BY <1>3, <1>7, <1>13 DEF b

(* An eviction takes the node's slot and its place in the order.           *)
LEMMA EvictedIs ==
  ASSUME NEW a, AtlasOf(a), NEW v \in Loaded(a)
  PROVE  /\ AtlasOf(Evicted(a, v)) /\ a.nodeToSlot[v] \in SlotsIn(TierFor[v])
         /\ Evicted(a, v).nodeToSlot = [a.nodeToSlot EXCEPT ![v] = NoSlot]
         /\ \A S : \A t \in Tiers : AtEnd(a.lru[t], S) => AtEnd(Evicted(a, v).lru[t], S)
<1> DEFINE s == a.nodeToSlot[v]
           u == TierOf[s]
           rest == Without(a.lru[u], v)
           more == Append(a.free[u], s)
           c == [a EXCEPT !.lru[u] = rest, !.slotToNode[s] = NoNode, !.nodeToSlot[v] = NoSlot]
           b == Evicted(a, v)
<1>1. /\ DOMAIN a = AtlasFields /\ v \in Nodes
      /\ a.free \in [Tiers -> Seq(Slots)] /\ a.lru \in [Tiers -> Seq(Nodes)]
      /\ a.nodeToSlot \in [Nodes -> Slots \cup {NoSlot}]
      /\ \A m \in Loaded(a) : a.nodeToSlot[m] \in SlotsIn(TierFor[m])
      /\ \A t \in Tiers : Elements(a.free[t]) \subseteq SlotsIn(t)
      /\ \A t \in Tiers : \A m \in Elements(a.lru[t]) : m \in Loaded(a) /\ TierFor[m] = t
  BY DEF AtlasOf, Loaded
<1>2. s \in SlotsIn(TierFor[v]) BY <1>1
<1>3. u \in Tiers /\ u = TierFor[v] /\ s \in Slots BY <1>2, AtlasConstants DEF SlotsIn
<1>4. b = Pushed(c, s) BY DEF Evicted, Dropped
<1>5. a.lru[u] \in Seq(Nodes) /\ a.free[u] \in Seq(Slots) BY <1>1, <1>3
<1> HIDE DEF rest
<1>6. /\ DOMAIN c = AtlasFields /\ c.free = a.free
      /\ c.lru = [a.lru EXCEPT ![u] = rest]
      /\ c.nodeToSlot = [a.nodeToSlot EXCEPT ![v] = NoSlot]
  BY <1>1 DEF AtlasFields
<1> HIDE DEF c
<1>7. b = [c EXCEPT !.free[u] = Append(@, s)] BY <1>4 DEF Pushed
<1> HIDE DEF s, u, b
<1>8. /\ DOMAIN b = AtlasFields /\ b.lru = c.lru /\ b.nodeToSlot = c.nodeToSlot
      /\ b.free = [c.free EXCEPT ![u] = Append(c.free[u], s)]
  BY <1>6, <1>7 DEF AtlasFields
<1>9. rest \in Seq(Nodes) /\ Elements(rest) = Elements(a.lru[u]) \ {v}
      /\ \A S : AtEnd(a.lru[u], S) => AtEnd(rest, S)
  BY <1>5, WithoutIs DEF rest
<1>10. more \in Seq(Slots) /\ Range(more) = Range(a.free[u]) \cup {s}
  BY <1>3, <1>5, AppendedRange
<1>11. Elements(more) = Elements(a.free[u]) \cup {s} BY <1>10 DEF Range, Elements
<1>12. b.free = [a.free EXCEPT ![u] = more] BY <1>6, <1>8
<1> HIDE DEF more
<1>12a. b.lru = [a.lru EXCEPT ![u] = rest] BY <1>6, <1>8
<1>13. /\ \A t \in Tiers : b.lru[t] = IF t = u THEN rest ELSE a.lru[t]
       /\ \A t \in Tiers : b.free[t] = IF t = u THEN more ELSE a.free[t]
  <2>1. \A t \in Tiers : b.lru[t] = IF t = u THEN rest ELSE a.lru[t] BY <1>1, <1>12a
  <2>2. \A t \in Tiers : b.free[t] = IF t = u THEN more ELSE a.free[t] BY <1>1, <1>12
  <2> QED BY <2>1, <2>2
<1>14. b.lru \in [Tiers -> Seq(Nodes)] /\ b.free \in [Tiers -> Seq(Slots)]
  <2>1. a.lru \in [Tiers -> Seq(Nodes)] /\ rest \in Seq(Nodes) BY <1>1, <1>9
  <2>2. a.free \in [Tiers -> Seq(Slots)] /\ more \in Seq(Slots) BY <1>1, <1>10
  <2>3. [a.lru EXCEPT ![u] = rest] \in [Tiers -> Seq(Nodes)] BY <2>1, ChangedAt
  <2>4. [a.free EXCEPT ![u] = more] \in [Tiers -> Seq(Slots)] BY <2>2, ChangedAt
  <2> QED BY <1>12, <1>12a, <2>3, <2>4
<1>15. \A m \in Nodes : b.nodeToSlot[m] = IF m = v THEN NoSlot ELSE a.nodeToSlot[m]
  BY <1>1, <1>6, <1>8
<1>16. Loaded(b) = Loaded(a) \ {v} BY <1>1, <1>15 DEF Loaded
<1>17. b.nodeToSlot \in [Nodes -> Slots \cup {NoSlot}] BY <1>1, <1>6, <1>8
<1>18. \A m \in Loaded(b) : b.nodeToSlot[m] \in SlotsIn(TierFor[m])
  BY <1>1, <1>15, <1>16 DEF Loaded
<1>18a. s \in SlotsIn(u) BY <1>2, <1>3
<1>19. \A t \in Tiers : Elements(b.free[t]) \subseteq SlotsIn(t)
  <2> TAKE t \in Tiers
  <2>1. CASE t = u
    <3>1. Elements(a.free[u]) \subseteq SlotsIn(u) BY <1>1, <1>3
    <3> QED BY <1>11, <1>13, <1>18a, <2>1, <3>1
  <2>2. CASE t # u BY <1>1, <1>13, <2>2
  <2> QED BY <2>1, <2>2
<1>20. ASSUME NEW t \in Tiers, NEW m \in Elements(b.lru[t])
       PROVE  m \in Loaded(b) /\ TierFor[m] = t
  <2>1. CASE t = u
    <3>1. m \in Elements(a.lru[u]) \ {v} BY <1>9, <1>13, <1>20, <2>1
    <3> QED BY <1>1, <1>3, <1>16, <2>1, <3>1
  <2>2. CASE t # u
    <3>1. m \in Elements(a.lru[t]) BY <1>13, <1>20, <2>2
    <3>2. TierFor[m] = t /\ m \in Loaded(a) /\ m # v BY <1>1, <1>3, <2>2, <3>1
    <3> QED BY <1>16, <3>2
  <2> QED BY <2>1, <2>2
<1>21. AtlasOf(b) BY <1>8, <1>14, <1>17, <1>18, <1>19, <1>20 DEF AtlasOf
<1>22. \A S : \A t \in Tiers : AtEnd(a.lru[t], S) => AtEnd(b.lru[t], S)
  BY <1>9, <1>13
<1>23. b.nodeToSlot = [a.nodeToSlot EXCEPT ![v] = NoSlot] BY <1>6, <1>8
<1> QED BY <1>2, <1>21, <1>22, <1>23 DEF b, s

(* assignSlot gives a node without a slot one of its tier's, and a place   *)
(* at the end of the order.                                                *)
LEMMA AssignedIs ==
  ASSUME NEW a, AtlasOf(a), NEW n \in Nodes \ Loaded(a), NEW s \in SlotsIn(TierFor[n])
  PROVE  /\ AtlasOf(Assigned(a, n, s))
         /\ Assigned(a, n, s).nodeToSlot = [a.nodeToSlot EXCEPT ![n] = s]
         /\ \A S : \A t \in Tiers :
              AtEnd(a.lru[t], S) => AtEnd(Assigned(a, n, s).lru[t], S \cup {n})
<1> DEFINE t0 == TierOf[s]
           more == Append(a.lru[t0], n)
           b == Assigned(a, n, s)
<1>1. /\ DOMAIN a = AtlasFields /\ n \in Nodes
      /\ a.free \in [Tiers -> Seq(Slots)] /\ a.lru \in [Tiers -> Seq(Nodes)]
      /\ a.nodeToSlot \in [Nodes -> Slots \cup {NoSlot}]
      /\ \A m \in Loaded(a) : a.nodeToSlot[m] \in SlotsIn(TierFor[m])
      /\ \A t \in Tiers : Elements(a.free[t]) \subseteq SlotsIn(t)
      /\ \A t \in Tiers : \A m \in Elements(a.lru[t]) : m \in Loaded(a) /\ TierFor[m] = t
  BY DEF AtlasOf
<1>2. t0 \in Tiers /\ t0 = TierFor[n] /\ s \in Slots /\ s # NoSlot
  BY AtlasConstants DEF SlotsIn
<1>3. \A t \in Tiers : n \notin Elements(a.lru[t]) BY <1>1
<1>4. b = [a EXCEPT !.nodeToSlot[n] = s, !.slotToNode[s] = n,
                    !.lru[t0] = IF n \in Elements(@) THEN @ ELSE Append(@, n)]
  BY DEF Assigned
<1> HIDE DEF b, t0
<1>5. /\ DOMAIN b = AtlasFields /\ b.free = a.free
      /\ b.nodeToSlot = [a.nodeToSlot EXCEPT ![n] = s]
      /\ b.lru = [a.lru EXCEPT ![t0] = IF n \in Elements(a.lru[t0]) THEN a.lru[t0]
                                       ELSE Append(a.lru[t0], n)]
  BY <1>1, <1>4 DEF AtlasFields
<1>6. b.lru = [a.lru EXCEPT ![t0] = more] BY <1>2, <1>3, <1>5
<1>7. a.lru[t0] \in Seq(Nodes) BY <1>1, <1>2
<1>8. more \in Seq(Nodes) /\ Elements(more) = Elements(a.lru[t0]) \cup {n}
      /\ \A S : AtEnd(a.lru[t0], S) => AtEnd(more, S \cup {n})
  BY <1>1, <1>2, <1>3, <1>7, AppendedIs
<1> HIDE DEF more
<1>9. \A t \in Tiers : b.lru[t] = IF t = t0 THEN more ELSE a.lru[t] BY <1>1, <1>6
<1>10. b.lru \in [Tiers -> Seq(Nodes)]
  <2>1. a.lru \in [Tiers -> Seq(Nodes)] /\ more \in Seq(Nodes) BY <1>1, <1>8
  <2>2. [a.lru EXCEPT ![t0] = more] \in [Tiers -> Seq(Nodes)] BY <2>1, ChangedAt
  <2> QED BY <1>6, <2>2
<1>11. \A m \in Nodes : b.nodeToSlot[m] = IF m = n THEN s ELSE a.nodeToSlot[m] BY <1>1, <1>5
<1>12. Loaded(b) = Loaded(a) \cup {n} BY <1>1, <1>2, <1>11 DEF Loaded
<1>13. b.nodeToSlot \in [Nodes -> Slots \cup {NoSlot}] BY <1>1, <1>2, <1>5
<1>14. \A m \in Loaded(b) : b.nodeToSlot[m] \in SlotsIn(TierFor[m])
  BY <1>1, <1>11, <1>12 DEF Loaded
<1>15. ASSUME NEW t \in Tiers, NEW m \in Elements(b.lru[t])
       PROVE  m \in Loaded(b) /\ TierFor[m] = t
  <2>1. CASE t = t0
    <3>1. m \in Elements(a.lru[t0]) \cup {n} BY <1>8, <1>9, <1>15, <2>1
    <3> QED BY <1>1, <1>2, <1>12, <2>1, <3>1
  <2>2. CASE t # t0 BY <1>1, <1>9, <1>12, <1>15, <2>2
  <2> QED BY <2>1, <2>2
<1>16. AtlasOf(b) BY <1>1, <1>5, <1>10, <1>13, <1>14, <1>15 DEF AtlasOf
<1>17. ASSUME NEW S, NEW t \in Tiers, AtEnd(a.lru[t], S) PROVE AtEnd(b.lru[t], S \cup {n})
  <2>1. CASE t = t0 BY <1>8, <1>9, <1>17, <2>1
  <2>2. CASE t # t0
    <3>1. \A i \in DOMAIN a.lru[t] : a.lru[t][i] # n BY <1>3 DEF Elements
    <3> QED BY <1>9, <1>17, <2>2, <3>1 DEF AtEnd
  <2> QED BY <2>1, <2>2
<1> QED BY <1>5, <1>16, <1>17 DEF b

(* lruEvict finds the first node of the order that is not to be skipped.   *)
LEMMA OldestIs ==
  ASSUME NEW a, AtlasOf(a), NEW t, t \in Tiers \cup {NoTier}, NEW skip,
         Evictable(a, t, skip) # <<>>
  PROVE  /\ t \in Tiers /\ Oldest(a, t, skip) \in Elements(a.lru[t]) \ skip
         /\ \E i \in DOMAIN a.lru[t] :
              /\ a.lru[t][i] = Oldest(a, t, skip)
              /\ \A j \in DOMAIN a.lru[t] : j < i => a.lru[t][j] \in skip
<1> DEFINE s == a.lru[t]
           E == Nodes \ skip
           r == Only(s, E)
<1>1. t \in Tiers /\ Evictable(a, t, skip) = r BY DEF Evictable
<1>2. s \in Seq(Nodes) BY <1>1 DEF AtlasOf
<1> HIDE DEF E
<1>3. r \in Seq(Nodes) /\ DOMAIN r = 1..Len(r) BY <1>2, OnlySeq
<1>4. PICK f \in [DOMAIN r -> DOMAIN s] :
        /\ \A k \in DOMAIN r : r[k] = s[f[k]] /\ s[f[k]] \in E
        /\ \A k, l \in DOMAIN r : k < l => f[k] < f[l]
        /\ \A i \in DOMAIN s : s[i] \in E => \E k \in DOMAIN r : f[k] = i
  BY <1>2, OnlyPlaces
<1> HIDE DEF r
<1>5. 1 \in DOMAIN r /\ Oldest(a, t, skip) = r[1] BY <1>1, <1>3, EmptySeq DEF Oldest
<1>6. DOMAIN s = 1..Len(s) /\ Len(s) \in Nat /\ \A i \in DOMAIN s : s[i] \in Nodes BY <1>2
<1>7. f[1] \in DOMAIN s /\ s[f[1]] = r[1] /\ s[f[1]] \in E BY <1>4, <1>5
<1>8. ASSUME NEW j \in DOMAIN s, j < f[1], s[j] \notin skip PROVE FALSE
  <2>1. PICK k \in DOMAIN r : f[k] = j BY <1>4, <1>6, <1>8 DEF E
  <2>2. k = 1 \/ 1 < k BY <1>3, <2>1
  <2>3. f[k] = f[1] \/ f[1] < f[k] BY <1>4, <1>5, <2>2
  <2>4. f[1] \in Int /\ f[k] \in Int BY <1>4, <1>5, <1>6, <2>1
  <2> QED BY <1>8, <2>1, <2>3, <2>4
<1> QED BY <1>1, <1>5, <1>7, <1>8 DEF Elements, E

(* A slot of an atlas that differs from this one by a node that lost its   *)
(* slot is given to another: the table and the descriptors follow.         *)
LEMMA PlaceIs ==
  ASSUME Tiles, NEW a, AtlasOf(a), NEW n \in Nodes \ Loaded(a),
         NEW s \in SlotsIn(TierFor[n]), NEW gone,
         \A m \in Nodes : a.nodeToSlot[m] = IF m \in gone THEN NoSlot ELSE atlas.nodeToSlot[m],
         Place(n, s, a, gone)
  PROVE  /\ Tiles' /\ Loaded(atlas)' = Loaded(a) \cup {n}
         /\ \A S : \A t \in Tiers : AtEnd(a.lru[t], S) => AtEnd(atlas'.lru[t], S \cup {n})
<1> DEFINE b == Assigned(a, n, s)
<1>1. /\ AtlasOf(b) /\ b.nodeToSlot = [a.nodeToSlot EXCEPT ![n] = s]
      /\ \A S : \A t \in Tiers : AtEnd(a.lru[t], S) => AtEnd(b.lru[t], S \cup {n})
  BY AssignedIs
<1>2. atlas' = Touched(b, n) BY DEF Place
<1>3. a.nodeToSlot \in [Nodes -> Slots \cup {NoSlot}] BY DEF AtlasOf
<1>4. s \in Slots /\ s # NoSlot BY AtlasConstants DEF SlotsIn
<1> HIDE DEF b
<1>5. \A m \in Nodes : b.nodeToSlot[m] = IF m = n THEN s ELSE a.nodeToSlot[m] BY <1>1, <1>3
<1>6. Loaded(b) = Loaded(a) \cup {n} BY <1>4, <1>5 DEF Loaded
<1>7. /\ AtlasOf(atlas') /\ atlas'.nodeToSlot = b.nodeToSlot /\ Loaded(atlas') = Loaded(b)
      /\ \A S : \A t \in Tiers : AtEnd(b.lru[t], S) => AtEnd(atlas'.lru[t], S \cup {n})
  BY <1>1, <1>2, <1>6, TouchedIs
<1>8. ASSUME NEW m \in Nodes PROVE nodeTable'[m] = atlas'.nodeToSlot[m]
  <2>1. nodeTable'[m] = IF m = n THEN s ELSE IF m \in gone THEN NoSlot ELSE nodeTable[m]
    BY DEF Place, Linked
  <2>2. nodeTable[m] = atlas.nodeToSlot[m] BY DEF Tiles
  <2> QED BY <1>5, <1>7, <2>1, <2>2
<1>9. content' = [content EXCEPT ![s] = n] /\ DOMAIN content = Slots
  BY DEF Place, PointsWritten, Tiles
<1>10. n # NoNode BY AtlasConstants
<1>11. ASSUME NEW m \in Loaded(atlas') PROVE content'[atlas'.nodeToSlot[m]] # NoNode
  <2>1. m \in Nodes /\ atlas'.nodeToSlot[m] = IF m = n THEN s ELSE a.nodeToSlot[m]
    BY <1>5, <1>7 DEF Loaded
  <2>2. CASE atlas'.nodeToSlot[m] = s BY <1>4, <1>9, <1>10, <2>2
  <2>3. CASE atlas'.nodeToSlot[m] # s
    <3>1. m \in Loaded(a) /\ atlas'.nodeToSlot[m] = a.nodeToSlot[m] /\ a.nodeToSlot[m] # NoSlot
      BY <1>6, <1>7, <2>1, <2>3 DEF Loaded
    <3>2. a.nodeToSlot[m] = atlas.nodeToSlot[m] /\ m \in Loaded(atlas)
      BY <2>1, <3>1 DEF Loaded
    <3>3. content[atlas.nodeToSlot[m]] # NoNode BY <3>2 DEF Tiles
    <3>4. atlas.nodeToSlot[m] \in Slots BY <1>3, <2>1, <3>1, <3>2
    <3> QED BY <1>9, <2>3, <3>1, <3>2, <3>3, <3>4
  <2> QED BY <2>2, <2>3
<1>12. Tiles' BY <1>7, <1>8, <1>9, <1>11 DEF Tiles
<1>13. ASSUME NEW S, NEW t \in Tiers, AtEnd(a.lru[t], S) PROVE AtEnd(atlas'.lru[t], S \cup {n})
  <2>1. AtEnd(b.lru[t], S \cup {n}) BY <1>1, <1>13
  <2>2. AtEnd(atlas'.lru[t], (S \cup {n}) \cup {n}) BY <1>7, <2>1
  <2>3. (S \cup {n}) \cup {n} = S \cup {n} OBVIOUS
  <2> QED BY <2>2, <2>3
<1> QED BY <1>6, <1>7, <1>12, <1>13 DEF Loaded

(* An upload takes a slot from nobody, or from the oldest that may go.     *)
LEMMA UploadIs ==
  ASSUME Tiles, NEW n \in Nodes \ Loaded(atlas), NEW skip,
         HasRoom(TierFor[n], skip), Upload(n, TierFor[n], skip)
  PROVE  /\ Tiles'
         /\ \A S : \A t \in Tiers : AtEnd(atlas.lru[t], S) => AtEnd(atlas'.lru[t], S \cup {n})
         /\ \A m \in Loaded(atlas) \ Loaded(atlas)' :
              /\ m = Oldest(atlas, TierFor[n], skip)
              /\ Evictable(atlas, TierFor[n], skip) # <<>>
<1> DEFINE t0 == TierFor[n]
<1>1. AtlasOf(atlas) /\ atlas.nodeToSlot \in [Nodes -> Slots \cup {NoSlot}]
  BY DEF Tiles, AtlasOf
<1>2. t0 \in Tiers \cup {NoTier} BY SceneConstants
<1>3. CASE HasFreeSlot(atlas, t0)
  <2> DEFINE a == Allocated(atlas, t0)
             s == TopSlot(atlas, t0)
             gone == {}
  <2>1. t0 \in Tiers /\ atlas.free[t0] # <<>> BY <1>2, <1>3 DEF HasFreeSlot
  <2>2. AtlasOf(a) /\ s \in SlotsIn(t0) /\ a.nodeToSlot = atlas.nodeToSlot /\ a.lru = atlas.lru
    BY <1>1, <2>1, AllocatedIs
  <2>3. Place(n, s, a, gone) BY <1>3 DEF Upload
  <2> HIDE DEF a, s
  <2>4. Loaded(a) = Loaded(atlas) BY <2>2 DEF Loaded
  <2>5. n \in Nodes \ Loaded(a) BY <2>4
  <2>6. \A m \in Nodes : a.nodeToSlot[m] = IF m \in gone THEN NoSlot ELSE atlas.nodeToSlot[m]
    BY <2>2
  <2> HIDE DEF gone
  <2>7. Tiles' /\ Loaded(atlas)' = Loaded(a) \cup {n}
        /\ \A S : \A t \in Tiers : AtEnd(a.lru[t], S) => AtEnd(atlas'.lru[t], S \cup {n})
    BY <2>2, <2>3, <2>5, <2>6, PlaceIs
  <2>8. Loaded(atlas) \ Loaded(atlas)' = {} BY <2>4, <2>7
  <2>9. \A S : \A t \in Tiers : AtEnd(atlas.lru[t], S) => AtEnd(atlas'.lru[t], S \cup {n})
    BY <2>2, <2>7
  <2> QED BY <2>7, <2>8, <2>9
<1>4. CASE ~HasFreeSlot(atlas, t0)
  <2> DEFINE v == Oldest(atlas, t0, skip)
             a == Evicted(atlas, v)
             s == atlas.nodeToSlot[v]
  <2>1. Evictable(atlas, t0, skip) # <<>> BY <1>4 DEF HasRoom
  <2>2. t0 \in Tiers /\ v \in Elements(atlas.lru[t0]) BY <1>1, <1>2, <2>1, OldestIs
  <2>3. Place(n, s, a, {v}) BY <1>4 DEF Upload
  <2> HIDE DEF v
  <2>4. v \in Loaded(atlas) /\ TierFor[v] = t0 BY <1>1, <2>2 DEF AtlasOf
  <2>5. /\ AtlasOf(a) /\ s \in SlotsIn(t0)
        /\ a.nodeToSlot = [atlas.nodeToSlot EXCEPT ![v] = NoSlot]
        /\ \A S : \A t \in Tiers : AtEnd(atlas.lru[t], S) => AtEnd(a.lru[t], S)
    BY <1>1, <2>4, EvictedIs
  <2> HIDE DEF a, s
  <2>6. \A m \in Nodes : a.nodeToSlot[m] = IF m \in {v} THEN NoSlot ELSE atlas.nodeToSlot[m]
    BY <1>1, <2>5
  <2>7. Loaded(a) = Loaded(atlas) \ {v} BY <2>6 DEF Loaded
  <2>8. n \in Nodes \ Loaded(a) BY <2>7
  <2>9. Tiles' /\ Loaded(atlas)' = Loaded(a) \cup {n}
        /\ \A S : \A t \in Tiers : AtEnd(a.lru[t], S) => AtEnd(atlas'.lru[t], S \cup {n})
    BY <2>3, <2>5, <2>6, <2>8, PlaceIs
  <2> QED BY <2>1, <2>5, <2>7, <2>9 DEF v
<1> QED BY <1>3, <1>4

-----------------------------------------------------------------------------
(* A frame on the GPU                                                      *)

(* The two work queues alternate.                                          *)
LEMMA Parity ==
  ASSUME NEW w \in Nat
  PROVE  /\ w % 2 \in 0..1 /\ (w + 1) % 2 \in 0..1 /\ (w + 1) % 2 # w % 2
         /\ ((w + 1) + 1) % 2 = w % 2
BY SMT

(* What the view and the table say of nodes                                *)
LEMMA TableIs ==
  ASSUME Types
  PROVE  /\ IsTable(table) /\ Range(table) \subseteq Keys /\ Keys = Nodes
         /\ view.visible \cup view.fine \cup view.behind \subseteq Keys
         /\ \A n \in Range(table) : Depth[n] \in Nat
         /\ \A n \in Range(table) : Depth[n] > 0 =>
              ParentOf[n] \in Range(table) /\ Depth[ParentOf[n]] = Depth[n] - 1
<1>1. IsTable(table) /\ Range(table) \subseteq Keys
  BY RangeIs DEF Types, IsTable
<1>2. Keys = Nodes /\ view.visible \cup view.fine \cup view.behind \subseteq Nodes
  BY SceneConstants DEF Types
<1>3. \A n \in Range(table) : Depth[n] \in Nat BY <1>1, TreeIs
<1>4. \A n \in Range(table) : Depth[n] > 0 =>
        ParentOf[n] \in Range(table) /\ Depth[ParentOf[n]] = Depth[n] - 1
  BY <1>1, TreeIs DEF IsTable, UpClosed
<1> QED BY <1>1, <1>2, <1>3, <1>4

(* The GPU's steps leave the tiles and what the CPU has alone.             *)
LEMMA GpuKeeps ==
  ASSUME IInv, backend = "webgpu", phase' # "cut",
         UNCHANGED <<tileVars, view, table, backend, glVars, history>>
  PROVE  /\ Tiles' /\ Clean' /\ RecentLast' /\ (phase' = "cut" => InCut')
         /\ IsTable(table') /\ view' \in Views /\ Loaded(atlas)' = Loaded(atlas)
<1>1. Tiles' BY DEF IInv, Tiles, tileVars, Loaded
<1>2. Clean' /\ RecentLast' BY DEF Clean, RecentLast
<1> QED BY <1>1, <1>2 DEF IInv, Types, tileVars

(* A frame begins: the first queue has the roots, nothing was looked at.   *)
LEMMA SubmitSafe ==
  ASSUME IInv, SubmitFrame, UNCHANGED <<tileVars, backend, glVars, history>>
  PROVE  IInv'
<1>1. /\ Types /\ backend = "webgpu" /\ phase' = "waves" /\ wave' = 0
      /\ queue' = Reseeded /\ counts' = CountsCleared /\ selected' = {}
      /\ todo' = 1..counts'[0] /\ pushing' = {}
      /\ UNCHANGED <<packList, view, table>>
  BY DEF SubmitFrame, Submit, IInv
<1>2. Tiles' /\ Clean' /\ RecentLast' /\ (phase' = "cut" => InCut')
      /\ IsTable(table') /\ view' \in Views
  BY <1>1, GpuKeeps
<1> DEFINE r == Roots(table)
           first == [i \in 1..MaxNodes |-> IF i <= Len(r) THEN r[i] ELSE queue[0][i]]
<1>3. r \in Seq(Keys) /\ Len(r) \in 0..MaxNodes /\ DOMAIN r = 1..Len(r)
      /\ Range(r) = {n \in Range(table) : Depth[n] = 0}
      /\ \A i, j \in DOMAIN r : r[i] = r[j] => i = j
  BY <1>1, RootsAre DEF Types
<1>4. MaxNodes \in Nat /\ Waves \in Nat \ {0} BY TreeConstants, WavesAssumption
<1>5. queue \in [0..1 -> [1..MaxNodes -> Keys \cup {NoNode}]] /\ counts[0] = Len(r)
      /\ packList \in [1..Cardinality(Slots) -> Slots \cup {NoSlot}]
      /\ counts \in [0..Waves -> Nat]
  BY <1>1 DEF Types
<1>6. queue' = [queue EXCEPT ![0] = first] BY <1>1 DEF Reseeded
<1> HIDE DEF r
<1>7. \A i \in 1..Len(r) : r[i] \in Keys BY <1>3
<1>8. first \in [1..MaxNodes -> Keys \cup {NoNode}]
  <2>1. queue[0] \in [1..MaxNodes -> Keys \cup {NoNode}] BY <1>5
  <2>2. Len(r) \in Nat BY <1>3
  <2>3. \A i \in 1..MaxNodes : i <= Len(r) => i \in 1..Len(r) BY <2>2
  <2> QED BY <1>7, <2>1, <2>3
<1>9. \A i \in 1..Len(r) : first[i] = r[i] BY <1>3, <1>4
<1> HIDE DEF first
<1>10. queue' \in [0..1 -> [1..MaxNodes -> Keys \cup {NoNode}]] /\ queue'[0] = first
  BY <1>5, <1>6, <1>8
<1>11. counts' = [w \in 0..Waves |-> IF w = 0 THEN counts[0] ELSE 0]
  BY <1>1 DEF CountsCleared
<1>12. counts' \in [0..Waves -> Nat] /\ counts'[0] = Len(r)
       /\ \A w \in 1..Waves : counts'[w] = 0
  BY <1>3, <1>4, <1>5, <1>11
<1>13. Types'
  <2>1. Roots(table)' = r BY <1>1 DEF r
  <2>2. Len(Roots(table))' = Len(r) BY <2>1
  <2> QED BY <1>1, <1>2, <1>5, <1>10, <1>12, <2>2 DEF Types
<1>14. Input' = first
  <2>1. 0 % 2 = 0 OBVIOUS
  <2> QED BY <1>1, <1>10, <2>1 DEF Input, InputOf
<1>15. counts'[wave'] = Len(r) /\ counts'[wave' + 1] = 0 /\ wave' = 0
  BY <1>1, <1>4, <1>12
<1>16. Done' = {} /\ Sent' = {} /\ Left' = {}
  <2>1. Done' = {} BY <1>1, <1>15 DEF Done
  <2>2. 1..0 = {} OBVIOUS
  <2>3. Sent' = {} BY <1>15, <2>2 DEF Sent
  <2> QED BY <1>1, <2>1, <2>3 DEF Left
<1>17. Kids' = {} BY <1>16 DEF Kids
<1>18. {Input'[i] : i \in 1..counts'[wave']} = {n \in Offered(view.visible) : Depth[n] = wave}'
  <2>1. {Input'[i] : i \in 1..counts'[wave']} = Range(r)
    BY <1>3, <1>9, <1>14, <1>15 DEF Range
  <2>2. {n \in Offered(view.visible) : Depth[n] = wave}' = {n \in Range(table) : Depth[n] = 0}
    BY <1>1 DEF Offered
  <2> QED BY <1>3, <2>1, <2>2
<1>19. selected' = {nodeTable'[n] : n \in 
           {m \in Seen' : Depth[m] < wave'} \cup (Done' \cap view'.visible)}
                     \ {NoSlot}
  <2>1. {m \in Seen' : Depth[m] < wave'} = {}
    <3>1. \A m \in Seen' : Depth[m] \in Nat
      BY <1>1, TableIs DEF Seen, Reached
    <3> QED BY <1>1, <3>1
  <2> QED BY <1>1, <1>16, <2>1
<1>20. InWave'
  <2>1. wave' \in 0..(Waves - 1) /\ counts'[wave'] <= MaxNodes /\ counts'[wave' + 1] <= MaxNodes
    BY <1>3, <1>4, <1>15
  <2>2. \A i, j \in 1..counts'[wave'] : Input'[i] = Input'[j] => i = j
    BY <1>3, <1>9, <1>14, <1>15
  <2>3. todo' \subseteq 1..counts'[wave'] BY <1>1
  <2>4. \A i, j \in 1..counts'[wave' + 1] : Output'[i] = Output'[j] => i = j BY <1>15
  <2>5. \A w \in (wave' + 2)..Waves : counts'[w] = 0 BY <1>4, <1>12, <1>15
  <2> QED BY <1>1, <1>16, <1>17, <1>18, <1>19, <2>1, <2>2, <2>3, <2>4, <2>5 DEF InWave
<1> QED BY <1>1, <1>2, <1>13, <1>20 DEF IInv

(* Facts of a wave, for use in its steps                                   *)
LEMMA WaveIs ==
  ASSUME IInv, phase = "waves"
  PROVE  /\ backend = "webgpu" /\ InWave /\ Types /\ Tiles
         /\ wave \in Nat /\ wave < Waves /\ Waves \in Nat
         /\ wave \in 0..Waves /\ wave + 1 \in 0..Waves
         /\ counts[wave] \in Nat /\ counts[wave + 1] \in Nat
         /\ queue \in [0..1 -> [1..MaxNodes -> Keys \cup {NoNode}]]
         /\ Kids \subseteq Range(table)
         /\ \A i \in 1..counts[wave] : Input[i] \in Range(table) /\ Depth[Input[i]] = wave
<1>1. Types /\ Tiles /\ InWave /\ backend = "webgpu" BY DEF IInv, Types
<1>2. Waves \in Nat \ {0} /\ wave \in 0..(Waves - 1) BY <1>1, WavesAssumption DEF InWave
<1>3. wave \in Nat /\ wave < Waves /\ wave \in 0..Waves /\ wave + 1 \in 0..Waves BY <1>2
<1>4. counts[wave] \in Nat /\ counts[wave + 1] \in Nat BY <1>1, <1>3 DEF Types
<1>5. \A i \in 1..counts[wave] : Input[i] \in {n \in Offered(view.visible) : Depth[n] = wave}
  BY <1>1 DEF InWave
<1>6. \A i \in 1..counts[wave] : Input[i] \in Range(table) /\ Depth[Input[i]] = wave
  BY <1>5 DEF Offered
<1> QED BY <1>1, <1>2, <1>3, <1>4, <1>6 DEF Types, Kids

(* A thread looks at its node.  Its children are nobody else's.            *)
LEMMA ThreadSafe ==
  ASSUME IInv, NEW i, Thread(i), UNCHANGED <<tileVars, backend, glVars, history>>
  PROVE  IInv'
<1> DEFINE n == Input[i]
           kids == ChildrenIn(table, n)
<1>1. /\ phase = "waves" /\ phase' = "waves" /\ i \in todo /\ todo' = todo \ {i}
      /\ UNCHANGED <<wave, queue, counts, packList, view, table>>
  BY DEF Thread
<1>2. /\ backend = "webgpu" /\ InWave /\ Types
      /\ counts[wave] \in Nat /\ counts[wave + 1] \in Nat
      /\ \A j \in 1..counts[wave] : Input[j] \in Range(table) /\ Depth[Input[j]] = wave
  BY <1>1, WaveIs
<1>3. Tiles' /\ Clean' /\ RecentLast' /\ (phase' = "cut" => InCut')
      /\ IsTable(table') /\ view' \in Views
  BY <1>1, <1>2, GpuKeeps
<1>4. Types' BY <1>1, <1>2, <1>3 DEF Types
<1>5. /\ todo \subseteq 1..counts[wave] /\ i \in 1..counts[wave]
      /\ \A j, k \in 1..counts[wave] : Input[j] = Input[k] => j = k
  BY <1>1, <1>2 DEF InWave
<1>6. Input' = Input /\ Output' = Output /\ Sent' = Sent /\ Seen' = Seen
      /\ Offered(view.visible)' = Offered(view.visible)
  BY <1>1 DEF Input, InputOf, Output, Sent, Seen, Offered, Reached
<1>7. Done' = Done \cup {n} /\ n \notin Done
  BY <1>1, <1>5, <1>6 DEF Done
<1>8. n \in Range(table) /\ n \in Keys BY <1>2, <1>5, TableIs
<1>9. kids \in Seq(Keys) /\ IsInjective(kids)
      /\ Range(kids) = {c \in Range(table) : Depth[c] > 0 /\ ParentOf[c] = n}
  BY <1>2, ChildrenAre DEF Types
<1>10. /\ \A p \in pushing : p \in Seq(Keys) /\ p # <<>> /\ IsInjective(p)
       /\ \A p, q \in pushing : p # q => Range(p) \cap Range(q) = {}
       /\ Sent \cup Left = Kids /\ Sent \cap Left = {}
       /\ selected = {nodeTable[m] : m \in 
              {k \in Seen : Depth[k] < wave} \cup (Done \cap view.visible)}
                       \ {NoSlot}
  BY <1>2 DEF InWave
<1>11. nodeTable' = nodeTable BY DEF tileVars
<1>12. Range(kids) \cap Kids = {} BY <1>7, <1>9 DEF Kids
<1>13. \A p \in pushing : Range(p) \subseteq Left BY DEF Left
<1> DEFINE Pending == \A p \in pushing' : p \in Seq(Keys) /\ p # <<>> /\ IsInjective(p)
           Apart == \A p, q \in pushing' : p # q => Range(p) \cap Range(q) = {}
           Split == Sent' \cup Left' = Kids' /\ Sent' \cap Left' = {}
           Chosen == selected' = {nodeTable'[m] : m \in {k \in Seen' : Depth[k] < wave'}
                                                         \cup (Done' \cap view'.visible)} \ {NoSlot}
<1>14. Pending /\ Apart /\ Split /\ Chosen
  <2>1. CASE n \notin view.visible
    <3>1. selected' = selected /\ pushing' = pushing BY <2>1 DEF Thread, Input
    <3>2. Done' \cap view'.visible = Done \cap view.visible BY <1>1, <1>7, <2>1
    <3>3. Kids' = Kids BY <1>1, <3>2 DEF Kids
    <3>4. Left' = Left BY <3>1 DEF Left
    <3> QED BY <1>1, <1>6, <1>10, <1>11, <3>1, <3>2, <3>3, <3>4
  <2>2. CASE n \in view.visible
    <3>1. selected' = selected \cup ({nodeTable[n]} \ {NoSlot}) BY <2>2 DEF Thread, Input
    <3>2. Done' \cap view'.visible = (Done \cap view.visible) \cup {n} BY <1>1, <1>7, <2>2
    <3>3. Chosen BY <1>1, <1>6, <1>10, <1>11, <3>1, <3>2
    <3>4. CASE n \in view.fine
      <4>1. pushing' = pushing BY <2>2, <3>4 DEF Thread, Input
      <4>2. Kids' = Kids BY <1>1, <3>2, <3>4 DEF Kids
      <4>3. Left' = Left BY <4>1 DEF Left
      <4> QED BY <1>6, <1>10, <3>3, <4>1, <4>2, <4>3
    <3>5. CASE n \notin view.fine
      <4>1. pushing' = pushing \cup ({kids} \ {<<>>}) BY <2>2, <3>5 DEF Thread, Input
      <4>2. Kids' = Kids \cup Range(kids) BY <1>1, <1>9, <3>2, <3>5 DEF Kids
      <4> HIDE DEF kids
      <4>3. kids = <<>> => Range(kids) = {} BY EmptyRange
      <4>4. Left' = Left \cup Range(kids) BY <4>1, <4>3 DEF Left
      <4>5. Pending BY <1>9, <1>10, <4>1
      <4>6. Apart BY <1>10, <1>12, <1>13, <4>1
      <4>7. Split BY <1>6, <1>10, <1>12, <4>2, <4>4
      <4> QED BY <3>3, <4>5, <4>6, <4>7
    <3> QED BY <3>4, <3>5
  <2> QED BY <2>1, <2>2
<1>15. InWave'
  <2>1. todo' \subseteq 1..counts'[wave'] BY <1>1, <1>5
  <2> QED BY <1>1, <1>2, <1>6, <1>14, <2>1 DEF InWave
<1> QED BY <1>1, <1>3, <1>4, <1>15 DEF IInv

(* A child is pushed.  There is room: the queue has different nodes of the *)
(* table, which are no more than MaxNodes.                                 *)
LEMMA PushChildSafe ==
  ASSUME IInv, phase = "waves", PushChild, UNCHANGED <<tileVars, backend, glVars, history>>
  PROVE  IInv'
<1>1. PICK c \in pushing :
        /\ counts' = [counts EXCEPT ![wave + 1] = @ + 1]
        /\ queue' = [queue EXCEPT ![(wave + 1) % 2][counts'[wave + 1]] = Head(c)]
        /\ pushing' = (pushing \ {c}) \cup ({Tail(c)} \ {<<>>})
        /\ UNCHANGED <<phase, wave, todo, selected, packList, view, table>>
  BY DEF PushChild
<1>2. /\ backend = "webgpu" /\ InWave /\ Types /\ wave \in Nat /\ Waves \in Nat
      /\ wave \in 0..Waves /\ wave + 1 \in 0..Waves
      /\ counts[wave] \in Nat /\ counts[wave + 1] \in Nat
      /\ queue \in [0..1 -> [1..MaxNodes -> Keys \cup {NoNode}]]
      /\ counts \in [0..Waves -> Nat]
      /\ Kids \subseteq Range(table)
      /\ packList \in [1..Cardinality(Slots) -> Slots \cup {NoSlot}]
  BY WaveIs DEF Types
<1>3. Tiles' /\ Clean' /\ RecentLast' /\ (phase' = "cut" => InCut')
      /\ IsTable(table') /\ view' \in Views
  BY <1>1, <1>2, GpuKeeps
<1>4. /\ \A p \in pushing : p \in Seq(Keys) /\ p # <<>> /\ IsInjective(p)
      /\ \A p, q \in pushing : p # q => Range(p) \cap Range(q) = {}
      /\ Sent \cup Left = Kids /\ Sent \cap Left = {}
      /\ \A i, j \in 1..counts[wave + 1] : Output[i] = Output[j] => i = j
      /\ counts[wave + 1] <= MaxNodes /\ counts[wave] <= MaxNodes /\ MaxNodes \in Nat
  BY <1>2, TreeConstants DEF InWave
<1> DEFINE h == Head(c)
           k == counts[wave + 1] + 1
           o == (wave + 1) % 2
<1>5. c \in Seq(Keys) /\ c # <<>> /\ h \in Range(c) /\ h \in Keys /\ Tail(c) \in Seq(Keys)
      /\ Range(c) = {h} \cup Range(Tail(c))
  BY <1>4, TakenRange
<1>6. IsInjective(Tail(c)) /\ h \notin Range(Tail(c))
  <2>1. /\ Len(c) \in Nat \ {0} /\ DOMAIN c = 1..Len(c) /\ h = c[1]
        /\ DOMAIN Tail(c) = 1..(Len(c) - 1)
        /\ \A i \in 1..(Len(c) - 1) : Tail(c)[i] = c[i + 1]
    BY <1>5, HeadTailProperties, EmptySeq
  <2>2. \A i, j \in 1..Len(c) : c[i] = c[j] => i = j BY <1>4, <2>1 DEF IsInjective
  <2>3. ASSUME NEW i \in 1..(Len(c) - 1), NEW j \in 1..(Len(c) - 1), Tail(c)[i] = Tail(c)[j]
        PROVE  i = j
    <3>1. i + 1 \in 1..Len(c) /\ j + 1 \in 1..Len(c) BY <2>1
    <3>2. i + 1 = j + 1 BY <2>1, <2>2, <2>3, <3>1
    <3> QED BY <3>2
  <2>4. ASSUME NEW i \in 1..(Len(c) - 1) PROVE Tail(c)[i] # h
    <3>1. i + 1 \in 1..Len(c) /\ i + 1 # 1 /\ 1 \in 1..Len(c) BY <2>1
    <3> QED BY <2>1, <2>2, <3>1
  <2> QED BY <2>1, <2>3, <2>4 DEF IsInjective, Range
<1>7. h \in Left /\ h \notin Sent /\ h \in Range(table) BY <1>2, <1>4, <1>5 DEF Left
<1>8. \A i \in 1..counts[wave + 1] : Output[i] \in Sent /\ Output[i] \in Range(table)
  BY <1>2, <1>4 DEF Sent
<1>9. k <= MaxNodes
  <2> DEFINE f == [i \in 1..k |-> IF i = k THEN h ELSE Output[i]]
  <2>1. \A i \in 1..k : i = k \/ i \in 1..counts[wave + 1] BY <1>2
  <2>2. \A i \in 1..k : f[i] \in Range(table) BY <1>7, <1>8, <2>1
  <2>3. \A i, j \in 1..k : f[i] = f[j] => i = j BY <1>4, <1>7, <1>8, <2>1
  <2>4. table \in Seq(Keys) /\ Len(table) <= MaxNodes BY <1>2 DEF Types, IsTable
  <2>5. k \in Nat BY <1>2
  <2> HIDE DEF f, k
  <2>6. k <= Len(table) BY <2>2, <2>3, <2>4, <2>5, NoMoreThan
  <2>7. Len(table) \in Nat BY <2>4
  <2> QED BY <1>4, <2>4, <2>5, <2>6, <2>7
<1>10. k \in 1..MaxNodes /\ counts'[wave + 1] = k
       /\ counts' \in [0..Waves -> Nat]
       /\ \A w \in 0..Waves : w # wave + 1 => counts'[w] = counts[w]
  BY <1>1, <1>2, <1>4, <1>9
<1>11. o \in 0..1 /\ wave % 2 \in 0..1 /\ o # wave % 2 BY <1>2, Parity
<1> HIDE DEF h, k, o
<1>12. queue' = [queue EXCEPT ![o] = [queue[o] EXCEPT ![k] = h]]
  BY <1>1, <1>10 DEF h, o
<1>13. queue[o] \in [1..MaxNodes -> Keys \cup {NoNode}] BY <1>2, <1>11
<1>14. [queue[o] EXCEPT ![k] = h] \in [1..MaxNodes -> Keys \cup {NoNode}]
  BY <1>5, <1>10, <1>13
<1>15. queue' \in [0..1 -> [1..MaxNodes -> Keys \cup {NoNode}]]
       /\ queue'[wave % 2] = queue[wave % 2] /\ queue'[o] = [queue[o] EXCEPT ![k] = h]
  BY <1>2, <1>11, <1>12, <1>14
<1>16. Input' = Input BY <1>1, <1>15 DEF Input, InputOf
<1>17. Output' = [queue[o] EXCEPT ![k] = h] /\ Output = queue[o] BY <1>1, <1>15 DEF Output, o
<1>18. k = counts[wave + 1] + 1 BY DEF k
<1>19. Output'[k] = h /\ \A i \in 1..counts[wave + 1] : Output'[i] = Output[i]
  <2>1. Output'[k] = h BY <1>10, <1>13, <1>17
  <2>2. \A i \in 1..counts[wave + 1] : i \in 1..MaxNodes /\ i # k
    <3> DEFINE m == counts[wave + 1]
    <3>1. m \in Nat /\ m <= MaxNodes /\ MaxNodes \in Nat /\ k = m + 1 BY <1>2, <1>4, <1>18
    <3> HIDE DEF m
    <3>2. \A i \in 1..m : i \in 1..MaxNodes /\ i # k BY <3>1
    <3> QED BY <3>2 DEF m
  <2> QED BY <1>13, <1>17, <2>1, <2>2
<1>20. counts'[wave'] = counts[wave] /\ counts'[wave' + 1] = k /\ wave' = wave
  BY <1>1, <1>2, <1>10
<1>21. 1..k = (1..counts[wave + 1]) \cup {k} BY <1>2, <1>18
<1>22. Sent' = Sent \cup {h}
  <2>1. Sent' = {Output'[i] : i \in 1..k} BY <1>20 DEF Sent
  <2> QED BY <1>19, <1>21, <2>1 DEF Sent
<1>23. \A i, j \in 1..counts'[wave' + 1] : Output'[i] = Output'[j] => i = j
  <2>1. \A i \in 1..k : i = k \/ i \in 1..counts[wave + 1] BY <1>21
  <2> QED BY <1>4, <1>7, <1>8, <1>19, <1>20, <2>1
<1>24. Done' = Done /\ Seen' = Seen /\ Kids' = Kids
       /\ Offered(view.visible)' = Offered(view.visible)
  <2>1. Done' = Done BY <1>1, <1>16, <1>20 DEF Done
  <2> QED BY <1>1, <2>1 DEF Seen, Reached, Kids, Offered
<1>25. /\ \A p \in pushing' : p \in Seq(Keys) /\ p # <<>> /\ IsInjective(p)
       /\ \A p \in pushing' : p = Tail(c) \/ (p \in pushing /\ p # c)
  BY <1>1, <1>4, <1>5, <1>6
<1>26. \A p, q \in pushing' : p # q => Range(p) \cap Range(q) = {}
  <2> TAKE p, q \in pushing'
  <2> HAVE p # q
  <2>1. Range(Tail(c)) \subseteq Range(c) BY <1>5
  <2>2. CASE p = Tail(c)
    <3>1. q \in pushing /\ q # c BY <1>25, <2>2
    <3>2. Range(q) \cap Range(c) = {} BY <1>4, <3>1
    <3> QED BY <2>1, <2>2, <3>2
  <2>3. CASE q = Tail(c)
    <3>1. p \in pushing /\ p # c BY <1>25, <2>3
    <3>2. Range(p) \cap Range(c) = {} BY <1>4, <3>1
    <3> QED BY <2>1, <2>3, <3>2
  <2>4. CASE p # Tail(c) /\ q # Tail(c)
    <3>1. p \in pushing /\ q \in pushing BY <1>25, <2>4
    <3> QED BY <1>4, <3>1
  <2> QED BY <2>2, <2>3, <2>4
<1>27. Left' = Left \ {h}
  <2>1. ASSUME NEW x \in Left' PROVE x \in Left /\ x # h
    <3>1. PICK p \in pushing' : x \in Range(p) BY <2>1 DEF Left
    <3>2. CASE p = Tail(c)
      <4>1. x \in Range(c) /\ x # h BY <1>5, <1>6, <3>1, <3>2
      <4> QED BY <4>1 DEF Left
    <3>3. CASE p # Tail(c)
      <4>1. p \in pushing /\ p # c BY <1>25, <3>3
      <4>2. Range(p) \cap Range(c) = {} BY <1>4, <4>1
      <4> QED BY <1>5, <3>1, <4>1, <4>2 DEF Left
    <3> QED BY <3>2, <3>3
  <2>2. ASSUME NEW x \in Left, x # h PROVE x \in Left'
    <3>1. PICK p \in pushing : x \in Range(p) BY <2>2 DEF Left
    <3>2. CASE p = c
      <4>1. x \in Range(Tail(c)) BY <1>5, <2>2, <3>1, <3>2
      <4>2. Tail(c) # <<>> BY <4>1, EmptyRange
      <4>3. Tail(c) \in pushing' BY <1>1, <4>2
      <4> QED BY <4>1, <4>3 DEF Left
    <3>3. CASE p # c
      <4>1. p \in pushing' BY <1>1, <3>3
      <4> QED BY <3>1, <4>1 DEF Left
    <3> QED BY <3>2, <3>3
  <2> QED BY <2>1, <2>2
<1>28. Sent' \cup Left' = Kids' /\ Sent' \cap Left' = {}
  BY <1>4, <1>7, <1>22, <1>24, <1>27
<1>29. selected' = {nodeTable'[n] : n \in 
           {m \in Seen' : Depth[m] < wave'} \cup (Done' \cap view'.visible)}
                     \ {NoSlot}
  BY <1>1, <1>2, <1>24 DEF InWave, tileVars
<1>30. InWave'
  <2>1. /\ wave' \in 0..(Waves - 1) /\ counts'[wave'] <= MaxNodes
        /\ {Input'[i] : i \in 1..counts'[wave']} = {n \in Offered(view.visible) : Depth[n] = wave}'
        /\ \A i, j \in 1..counts'[wave'] : Input'[i] = Input'[j] => i = j
        /\ todo' \subseteq 1..counts'[wave']
    BY <1>1, <1>2, <1>16, <1>20, <1>24 DEF InWave
  <2>2. counts'[wave' + 1] <= MaxNodes BY <1>4, <1>10, <1>20
  <2>3. \A w \in (wave' + 2)..Waves : counts'[w] = 0
    <3>1. \A w \in (wave + 2)..Waves : counts[w] = 0 BY <1>2 DEF InWave
    <3>2. \A w \in (wave + 2)..Waves : w \in 0..Waves /\ w # wave + 1 BY <1>2
    <3> QED BY <1>10, <1>20, <3>1, <3>2
  <2> QED BY <1>23, <1>25, <1>26, <1>28, <1>29, <2>1, <2>2, <2>3 DEF InWave
<1>31. Types'
  <2>1. backend' = "webgpu" => counts'[0] = Len(Roots(table))'
    <3>1. 0 \in 0..Waves /\ 0 # wave + 1 BY <1>2
    <3>2. counts[0] = Len(Roots(table)) BY <1>2 DEF Types
    <3> QED BY <1>1, <1>10, <3>1, <3>2
  <2> QED BY <1>1, <1>2, <1>3, <1>10, <1>15, <2>1 DEF Types
<1> QED BY <1>1, <1>2, <1>3, <1>30, <1>31 DEF IInv


(* All the threads of a wave are done: it looked at each node offered at   *)
(* its depth, and the next queue has those offered below them.             *)
LEMMA WaveDone ==
  ASSUME IInv, phase = "waves", DispatchDone
  PROVE  /\ Done \cap view.visible = {m \in Seen : Depth[m] = wave}
         /\ Sent = {n \in Offered(view.visible) : Depth[n] = wave + 1}
         /\ selected = {nodeTable[n] : n \in {m \in Seen : Depth[m] < wave + 1}} \ {NoSlot}
<1>1. /\ InWave /\ Types /\ wave \in Nat /\ todo = {} /\ pushing = {}
      /\ {Input[i] : i \in 1..counts[wave]} = {n \in Offered(view.visible) : Depth[n] = wave}
      /\ Sent \cup Left = Kids
      /\ selected = {nodeTable[n] : n \in 
             {m \in Seen : Depth[m] < wave} \cup (Done \cap view.visible)}
                      \ {NoSlot}
  BY WaveIs DEF DispatchDone, InWave
<1>2. /\ Range(table) \subseteq Keys
      /\ \A n \in Range(table) : Depth[n] \in Nat
      /\ \A n \in Range(table) : Depth[n] > 0 =>
           ParentOf[n] \in Range(table) /\ Depth[ParentOf[n]] = Depth[n] - 1
  BY <1>1, TableIs
<1>3. Seen = Offered(view.visible) \cap view.visible
  BY <1>1, OfferedSeen DEF Types, Seen
<1>4. Done = {n \in Offered(view.visible) : Depth[n] = wave} BY <1>1 DEF Done
<1>5. Done \cap view.visible = {m \in Seen : Depth[m] = wave} BY <1>3, <1>4
<1>6. Sent = Kids BY <1>1 DEF Left
<1>7. Kids = {n \in Offered(view.visible) : Depth[n] = wave + 1}
  <2>1. ASSUME NEW c \in Kids PROVE c \in Offered(view.visible) /\ Depth[c] = wave + 1
    <3>1. c \in Range(table) /\ Depth[c] > 0
          /\ ParentOf[c] \in (Done \cap view.visible) \ view.fine
      BY DEF Kids
    <3>2. ParentOf[c] \in Seen \ view.fine /\ Depth[ParentOf[c]] = wave BY <1>5, <3>1
    <3>3. Depth[c] = wave + 1 BY <1>1, <1>2, <3>1, <3>2
    <3> QED BY <3>1, <3>2, <3>3 DEF Offered, Seen
  <2>2. ASSUME NEW c \in Offered(view.visible), Depth[c] = wave + 1 PROVE c \in Kids
    <3>1. c \in Range(table) /\ Depth[c] > 0 BY <1>1, <2>2 DEF Offered
    <3>2. ParentOf[c] \in Seen \ view.fine BY <3>1 DEF Offered, Seen
    <3>3. Depth[ParentOf[c]] = wave BY <1>1, <1>2, <2>2, <3>1
    <3> QED BY <1>5, <3>1, <3>2, <3>3 DEF Kids
  <2> QED BY <2>1, <2>2
<1>8. {m \in Seen : Depth[m] < wave} \cup (Done \cap view.visible)
        = {m \in Seen : Depth[m] < wave + 1}
  <2>1. \A m \in Seen : Depth[m] \in Nat BY <1>2, <1>3 DEF Offered
  <2> QED BY <1>1, <1>5, <2>1
<1> QED BY <1>1, <1>5, <1>6, <1>7, <1>8

(* The next wave begins: its input is what the last one put out.           *)
LEMMA NextWaveSafe ==
  ASSUME IInv, NextWave, UNCHANGED <<tileVars, backend, glVars, history>>
  PROVE  IInv'
<1>1. /\ phase = "waves" /\ phase' = "waves" /\ DispatchDone /\ todo = {} /\ pushing = {}
      /\ wave < Waves - 1 /\ wave' = wave + 1 /\ todo' = 1..counts[wave + 1]
      /\ UNCHANGED <<queue, counts, pushing, selected, packList, view, table>>
  BY DEF NextWave, DispatchDone
<1>2. /\ backend = "webgpu" /\ InWave /\ Types /\ wave \in Nat /\ Waves \in Nat
      /\ counts[wave + 1] \in Nat
  BY <1>1, WaveIs
<1>3. Tiles' /\ Clean' /\ RecentLast' /\ (phase' = "cut" => InCut')
      /\ IsTable(table') /\ view' \in Views
  BY <1>1, <1>2, GpuKeeps
<1>4. Types' BY <1>1, <1>2, <1>3 DEF Types
<1>5. /\ counts[wave + 1] <= MaxNodes /\ MaxNodes \in Nat
      /\ \A w \in (wave + 2)..Waves : counts[w] = 0
      /\ \A i, j \in 1..counts[wave + 1] : Output[i] = Output[j] => i = j
  BY <1>2, TreeConstants DEF InWave
<1>6. /\ Sent = {n \in Offered(view.visible) : Depth[n] = wave + 1}
      /\ selected = {nodeTable[n] : n \in {m \in Seen : Depth[m] < wave + 1}} \ {NoSlot}
  BY <1>1, WaveDone
<1>7. Input' = Output BY <1>1 DEF Input, InputOf, Output
<1>8. wave + 2 \in (wave + 2)..Waves /\ wave' + 1 = wave + 2 BY <1>1, <1>2
<1>9. counts'[wave' + 1] = 0 BY <1>1, <1>5, <1>8
<1>10. Done' = {} /\ Sent' = {} /\ Left' = {} /\ Kids' = {} /\ Seen' = Seen
       /\ Offered(view.visible)' = Offered(view.visible)
  <2>1. Done' = {} BY <1>1 DEF Done
  <2>2. 1..0 = {} OBVIOUS
  <2>3. Sent' = {} BY <1>9, <2>2 DEF Sent
  <2>4. Kids' = {} BY <2>1 DEF Kids
  <2> QED BY <1>1, <2>1, <2>3, <2>4 DEF Left, Seen, Offered, Reached
<1>11. {Input'[i] : i \in 1..counts'[wave']} = {n \in Offered(view.visible) : Depth[n] = wave}'
  <2>1. {Input'[i] : i \in 1..counts'[wave']} = Sent BY <1>1, <1>7 DEF Sent
  <2> QED BY <1>1, <1>6, <1>10, <2>1
<1>12. selected' = {nodeTable'[n] : n \in 
           {m \in Seen' : Depth[m] < wave'} \cup (Done' \cap view'.visible)}
                     \ {NoSlot}
  BY <1>1, <1>6, <1>10 DEF tileVars
<1>13. InWave'
  <2>1. wave' \in 0..(Waves - 1) /\ counts'[wave'] <= MaxNodes /\ counts'[wave' + 1] <= MaxNodes
    BY <1>1, <1>2, <1>5, <1>9
  <2>2. \A i, j \in 1..counts'[wave'] : Input'[i] = Input'[j] => i = j BY <1>1, <1>5, <1>7
  <2>3. todo' \subseteq 1..counts'[wave'] BY <1>1
  <2>4. \A i, j \in 1..counts'[wave' + 1] : Output'[i] = Output'[j] => i = j
    <3>1. 1..0 = {} OBVIOUS
    <3> QED BY <1>9, <3>1
  <2>5. \A w \in (wave' + 2)..Waves : counts'[w] = 0 BY <1>1, <1>2, <1>5
  <2> QED BY <1>1, <1>10, <1>11, <1>12, <2>1, <2>2, <2>3, <2>4, <2>5 DEF InWave
<1> QED BY <1>1, <1>3, <1>4, <1>13 DEF IInv

(* The traversal is over: what is drawn is the slots of the loaded nodes   *)
(* that were seen.                                                         *)
LEMMA CompactSafe ==
  ASSUME IInv, Compact, UNCHANGED <<tileVars, backend, glVars, history>>
  PROVE  IInv'
<1> DEFINE shown == {n \in Seen \cap Loaded(atlas) : Depth[n] < Waves}
<1>1. /\ phase = "waves" /\ phase' = "pack" /\ DispatchDone /\ wave = Waves - 1
      /\ drawArgs' = {s \in selected : content[s] # NoNode}
      /\ drawCount' = 0 /\ todo' = drawArgs'
      /\ UNCHANGED <<queue, counts, pushing, packList, view, table>>
  BY DEF Compact
<1>2. backend = "webgpu" /\ Types /\ Tiles /\ wave \in Nat /\ Waves \in Nat /\ wave + 1 = Waves
  BY <1>1, WaveIs
<1>3. Tiles' /\ Clean' /\ RecentLast' /\ (phase' = "cut" => InCut')
      /\ IsTable(table') /\ view' \in Views
  BY <1>1, <1>2, GpuKeeps
<1>4. Types'
  <2>1. pushing' = {} BY <1>1 DEF DispatchDone
  <2> QED BY <1>1, <1>2, <1>3, <2>1 DEF Types
<1>5. selected = {nodeTable[n] : n \in {m \in Seen : Depth[m] < Waves}} \ {NoSlot}
  BY <1>1, <1>2, WaveDone
<1>6. Seen \subseteq Nodes BY <1>2, TableIs DEF Seen, Reached
<1>7. \A n \in Seen : /\ nodeTable[n] = atlas.nodeToSlot[n]
                      /\ nodeTable[n] # NoSlot <=> n \in Loaded(atlas)
                      /\ n \in Loaded(atlas) => content[nodeTable[n]] # NoNode
  BY <1>2, <1>6 DEF Tiles, Loaded
<1>8. drawArgs' = SlotsOf(shown)
  <2>1. ASSUME NEW s \in drawArgs' PROVE s \in SlotsOf(shown)
    <3>1. PICK n \in Seen : Depth[n] < Waves /\ s = nodeTable[n] /\ s # NoSlot BY <1>1, <1>5
    <3> QED BY <1>7, <3>1 DEF SlotsOf
  <2>2. ASSUME NEW s \in SlotsOf(shown) PROVE s \in drawArgs'
    <3>1. PICK n \in shown : s = atlas.nodeToSlot[n] BY DEF SlotsOf
    <3> QED BY <1>1, <1>5, <1>7, <3>1
  <2> QED BY <2>1, <2>2
<1>9. SlotsOf(shown)' = SlotsOf(shown)
  BY <1>1 DEF SlotsOf, Seen, Reached, Loaded, tileVars
<1>10. InPack'
  <2>1. 1..0 = {} OBVIOUS
  <2>2. Cardinality(Slots) \in Nat BY SceneConstants, FS_CardinalityType
  <2>3. drawCount' \in 0..Cardinality(Slots) BY <1>1, <2>2
  <2>4. {packList'[i] : i \in 1..drawCount'} = {} BY <1>1, <2>1
  <2>5. \A i, j \in 1..drawCount' : packList'[i] = packList'[j] => i = j BY <1>1, <2>1
  <2> QED BY <1>1, <1>8, <1>9, <2>3, <2>4, <2>5 DEF InPack
<1> QED BY <1>1, <1>3, <1>4, <1>10 DEF IInv

(* The draws are of slots.                                                 *)
LEMMA DrawsAre ==
  ASSUME Tiles, InPack
  PROVE  drawArgs \subseteq Slots
<1>1. \A n \in Loaded(atlas) : atlas.nodeToSlot[n] \in Slots
  BY DEF Tiles, AtlasOf, SlotsIn
<1> QED BY <1>1 DEF InPack, SlotsOf

(* A draw is packed.  There is room: the list has different slots.         *)
LEMMA PackSafe ==
  ASSUME IInv, NEW s \in Slots, Pack(s), UNCHANGED <<tileVars, backend, glVars, history>>
  PROVE  IInv'
<1> DEFINE k == drawCount + 1
           N == Cardinality(Slots)
<1>1. /\ phase = "pack" /\ phase' = "pack" /\ s \in todo /\ todo' = todo \ {s}
      /\ drawCount' = k /\ packList' = [packList EXCEPT ![k] = s]
      /\ UNCHANGED <<queue, counts, pushing, drawArgs, view, table>>
  BY DEF Pack
<1>2. /\ backend = "webgpu" /\ Types /\ Tiles /\ InPack
      /\ packList \in [1..N -> Slots \cup {NoSlot}]
  BY <1>1 DEF IInv, Types
<1>3. Tiles' /\ Clean' /\ RecentLast' /\ (phase' = "cut" => InCut')
      /\ IsTable(table') /\ view' \in Views
  BY <1>1, <1>2, GpuKeeps
<1>4. /\ drawArgs = SlotsOf({n \in Seen \cap Loaded(atlas) : Depth[n] < Waves})
      /\ todo \subseteq drawArgs /\ drawCount \in 0..N
      /\ {packList[i] : i \in 1..drawCount} = drawArgs \ todo
      /\ \A i, j \in 1..drawCount : packList[i] = packList[j] => i = j
      /\ drawArgs \subseteq Slots
  BY <1>2, DrawsAre DEF InPack
<1>5. N \in Nat /\ IsFiniteSet(Slots) BY SceneConstants, FS_CardinalityType
<1>6. drawCount \in Nat /\ k \in Nat BY <1>4, <1>5
<1> DEFINE d == drawCount
<1>7. 1..k = (1..d) \cup {k} /\ k \notin 1..d BY <1>6
<1>8. \A i \in 1..d : packList[i] \in Slots /\ packList[i] # s BY <1>1, <1>4
<1> HIDE DEF k, d, N
<1>9. k <= N
  <2> DEFINE f == [i \in 1..k |-> IF i = k THEN s ELSE packList[i]]
  <2>1. f \in [1..k -> Slots] BY <1>7, <1>8
  <2>2. \A i, j \in 1..k : f[i] = f[j] => i = j BY <1>4, <1>7, <1>8 DEF d
  <2>3. f \in Injection(1..k, Slots) BY <2>1, <2>2 DEF Injection, IsInjective
  <2> HIDE DEF f
  <2>4. Cardinality(1..k) <= N BY <1>5, <2>3, FS_Injection DEF N
  <2>5. Cardinality(1..k) = k
    <3>1. 1 \in Int /\ k \in Int BY <1>6
    <3>2. Cardinality(1..k) = IF 1 > k THEN 0 ELSE k - 1 + 1 BY <3>1, FS_Interval
    <3> QED BY <1>6, <3>2
  <2> QED BY <2>4, <2>5
<1>10. k \in 1..N
  <2>1. k >= 1 BY <1>4, <1>5 DEF k
  <2> QED BY <1>5, <1>6, <1>9, <2>1
<1>11. packList'[k] = s BY <1>1, <1>2, <1>10
<1>12. \A i \in 1..d : packList'[i] = packList[i]
  <2>1. \A i \in 1..d : i \in 1..N /\ i # k BY <1>4, <1>5, <1>7 DEF d
  <2> QED BY <1>1, <1>2, <2>1
<1>13. {packList'[i] : i \in 1..drawCount'} = drawArgs' \ todo'
  <2>1. {packList'[i] : i \in 1..drawCount'} = {packList[i] : i \in 1..d} \cup {s}
    BY <1>1, <1>7, <1>11, <1>12
  <2> QED BY <1>1, <1>4, <2>1 DEF d
<1>14. \A i, j \in 1..drawCount' : packList'[i] = packList'[j] => i = j
  <2>1. \A i, j \in 1..d : packList[i] = packList[j] => i = j BY <1>4 DEF d
  <2> QED BY <1>1, <1>7, <1>8, <1>11, <1>12, <2>1
<1>15. packList' \in [1..N -> Slots \cup {NoSlot}] BY <1>1, <1>2, <1>10
<1>16. Types' BY <1>1, <1>2, <1>3, <1>15 DEF Types, N
<1>17. SlotsOf({n \in Seen \cap Loaded(atlas) : Depth[n] < Waves})'
         = SlotsOf({n \in Seen \cap Loaded(atlas) : Depth[n] < Waves})
  BY <1>1 DEF SlotsOf, Seen, Reached, Loaded, tileVars
<1>18. drawCount' \in 0..N BY <1>1, <1>5, <1>10
<1>19. InPack' BY <1>1, <1>4, <1>13, <1>14, <1>17, <1>18 DEF InPack, N
<1> QED BY <1>1, <1>3, <1>16, <1>19 DEF IInv

(* The frame is drawn.                                                     *)
LEMMA RenderSafe ==
  ASSUME IInv, GpuFrameEnds
  PROVE  IInv'
<1>1. /\ phase = "pack" /\ phase' = "idle"
      /\ UNCHANGED <<queue, counts, pushing, packList, view, table,
                     tileVars, backend, glVars, history>>
  BY DEF GpuFrameEnds, Render
<1>2. backend = "webgpu" /\ Types BY <1>1 DEF IInv, Types
<1>3. Tiles' /\ Clean' /\ RecentLast' /\ (phase' = "cut" => InCut')
      /\ IsTable(table') /\ view' \in Views
  BY <1>1, <1>2, GpuKeeps
<1>4. Types' BY <1>1, <1>2, <1>3 DEF Types
<1> QED BY <1>1, <1>3, <1>4 DEF IInv

(* It has what the property says: the list that was packed has the slots   *)
(* of the cut, and so has any listing of the draws.                        *)
LEMMA RenderDraws ==
  ASSUME IInv, GpuFrameEnds
  PROVE  LET seen == {n \in AdditiveCut(table, view, Loaded(atlas)) : Depth[n] < Waves}
         IN Len(drawn') = Cardinality(SlotsOf(seen)) /\ Range(drawn') = SlotsOf(seen)
<1> DEFINE C == SlotsOf({n \in AdditiveCut(table, view, Loaded(atlas)) : Depth[n] < Waves})
           N == Cardinality(Slots)
           d == drawCount
<1> SUFFICES Len(drawn') = Cardinality(C) /\ Range(drawn') = C OBVIOUS
<1>1. /\ phase = "pack" /\ todo = {}
      /\ \/ drawn' = SubSeq(packList, 1, drawCount)
         \/ drawn' \in {list \in [1..Cardinality(drawArgs) -> drawArgs] : IsInjective(list)}
  BY DEF GpuFrameEnds, Render
<1>2. InPack /\ Tiles /\ packList \in [1..N -> Slots \cup {NoSlot}] BY <1>1 DEF IInv, Types
<1>3. drawArgs = C BY <1>2 DEF InPack, AdditiveCut, Seen
<1>4. IsFiniteSet(Slots) /\ N \in Nat BY SceneConstants, FS_CardinalityType
<1>5. drawArgs \subseteq Slots BY <1>2, DrawsAre
<1>6. IsFiniteSet(drawArgs) /\ Cardinality(drawArgs) \in Nat
  BY <1>4, <1>5, FS_Subset, FS_CardinalityType
<1> HIDE DEF C, N, d
<1>7. CASE drawn' = SubSeq(packList, 1, drawCount)
  <2>1. /\ d \in 0..N /\ {packList[i] : i \in 1..d} = drawArgs
        /\ \A i, j \in 1..d : packList[i] = packList[j] => i = j
    BY <1>1, <1>2 DEF InPack, d, N
  <2>2. packList \in Seq(Slots \cup {NoSlot}) /\ Len(packList) = N BY <1>2, <1>4
  <2>3. Len(drawn') = d /\ DOMAIN drawn' = 1..d /\ \A i \in 1..d : drawn'[i] = packList[i]
    BY <1>7, <2>1, <2>2, Beginning DEF d
  <2>4. Range(drawn') = drawArgs BY <2>1, <2>3 DEF Range
  <2> DEFINE f == [i \in 1..d |-> packList[i]]
             B == 1..d
  <2>5. f \in [B -> drawArgs] /\ (\A x, y \in B : f[x] = f[y] => x = y)
        /\ (\A z \in drawArgs : \E x \in B : f[x] = z)
    BY <2>1
  <2>6. d \in Nat BY <1>4, <2>1
  <2>7. IsFiniteSet(B) /\ Cardinality(B) = d
    <3>1. 1 \in Int /\ d \in Int BY <2>6
    <3>2. IsFiniteSet(1..d) /\ Cardinality(1..d) = IF 1 > d THEN 0 ELSE d - 1 + 1
      BY <3>1, FS_Interval
    <3> QED BY <2>6, <3>2
  <2> HIDE DEF f, B
  <2>8. Cardinality(drawArgs) = d BY <2>5, <2>7, SameNumber
  <2> QED BY <1>3, <2>3, <2>4, <2>8
<1>8. CASE drawn' \in {list \in [1..Cardinality(drawArgs) -> drawArgs] : IsInjective(list)}
  <2> DEFINE c == Cardinality(drawArgs)
  <2>1. drawn' \in [1..c -> drawArgs] /\ IsInjective(drawn') BY <1>8
  <2>2. drawn' \in Injection(1..c, drawArgs) BY <2>1 DEF Injection
  <2>3. c \in Nat BY <1>6
  <2> HIDE DEF c
  <2>4. Cardinality(1..c) = c
    <3>1. 1 \in Int /\ c \in Int BY <2>3
    <3>2. Cardinality(1..c) = IF 1 > c THEN 0 ELSE c - 1 + 1 BY <3>1, FS_Interval
    <3> QED BY <2>3, <3>2
  <2>5. drawn' \in Surjection(1..c, drawArgs) BY <1>6, <2>2, <2>4, FS_Injection DEF c
  <2>6. Range(drawn') = drawArgs BY <2>1, <2>5 DEF Surjection, Range
  <2>7. Len(drawn') = c BY <2>1, <2>3
  <2> QED BY <1>3, <2>6, <2>7 DEF c
<1> QED BY <1>1, <1>7, <1>8

-----------------------------------------------------------------------------
(* Between frames                                                          *)

(* Facts of the idle scene                                                 *)
LEMMA PhaseIs ==
  ASSUME IInv
  PROVE  /\ Types /\ Tiles /\ Clean /\ RecentLast
         /\ phase = "idle" => Recent = lastCut \cup since
         /\ phase = "cut" => backend = "webgl" /\ InCut /\ Recent = Range(cut)
BY DEF IInv, Types, Recent

(* A tile is uploaded: it is the last of its tier's order, and the VBOs    *)
(* wait for it.                                                            *)
LEMMA UploadSafe ==
  ASSUME IInv, NEW n \in Nodes, UploadTile(n)
  PROVE  IInv'
<1>1. /\ phase = "idle" /\ n \in Nodes \ Loaded(atlas)
      /\ HasRoom(TierFor[n], NotInTable) /\ Upload(n, TierFor[n], NotInTable)
      /\ dirty' = (backend = "webgl")
      /\ since' = IF backend = "webgl" THEN since \cup {n} ELSE {}
      /\ UNCHANGED <<view, table, gpuVars, backend, vbo, lastCut>>
  BY DEF UploadTile, MarkedDirty
<1>2. phase' = "idle" /\ UNCHANGED <<queue, counts, pushing, packList>>
  BY <1>1 DEF gpuVars, gpuQueues
<1>3. Types /\ Tiles /\ RecentLast /\ Recent = lastCut \cup since BY <1>1, PhaseIs
<1>4. Tiles' /\ \A S : \A t \in Tiers :
                  AtEnd(atlas.lru[t], S) => AtEnd(atlas'.lru[t], S \cup {n})
  BY <1>1, <1>3, UploadIs
<1>5. Types' BY <1>1, <1>2, <1>3 DEF Types
<1>6. Clean' BY <1>1 DEF Clean
<1>7. RecentLast'
  <2> SUFFICES ASSUME backend = "webgl", NEW t \in Tiers
               PROVE  AtEnd(atlas'.lru[t], Recent')
    BY <1>1 DEF RecentLast
  <2>1. Recent' = Recent \cup {n} BY <1>1, <1>2, <1>3 DEF Recent
  <2>2. AtEnd(atlas.lru[t], Recent) BY <1>3 DEF RecentLast
  <2> QED BY <1>4, <2>1, <2>2
<1> QED BY <1>2, <1>4, <1>5, <1>6, <1>7 DEF IInv

(* The tile evicted for it is the least recently used that could go: all   *)
(* those after it that could were drawn, or uploaded since, if it was.     *)
LEMMA UploadEvicts ==
  ASSUME IInv, NEW n \in Nodes, UploadTile(n), backend = "webgl",
         NEW m \in Loaded(atlas) \ Loaded(atlas)', m \in lastCut
  PROVE  Elements(atlas.lru[TierFor[m]]) \ NotInTable \subseteq lastCut \cup since
<1> DEFINE t == TierFor[n]
           s == atlas.lru[t]
<1>1. /\ phase = "idle" /\ n \in Nodes \ Loaded(atlas)
      /\ HasRoom(TierFor[n], NotInTable) /\ Upload(n, TierFor[n], NotInTable)
  BY DEF UploadTile
<1>2. Tiles /\ RecentLast /\ Recent = lastCut \cup since BY <1>1, PhaseIs
<1>3. m = Oldest(atlas, t, NotInTable) /\ Evictable(atlas, t, NotInTable) # <<>>
  BY <1>1, <1>2, UploadIs
<1>4. AtlasOf(atlas) /\ t \in Tiers \cup {NoTier} BY <1>2, SceneConstants DEF Tiles
<1>5. /\ t \in Tiers /\ m \in Elements(s)
      /\ \E i \in DOMAIN s : s[i] = m /\ \A j \in DOMAIN s : j < i => s[j] \in NotInTable
  BY <1>3, <1>4, OldestIs
<1>6. TierFor[m] = t /\ DOMAIN s = 1..Len(s)
  BY <1>4, <1>5 DEF AtlasOf
<1>7. AtEnd(s, lastCut \cup since) BY <1>2, <1>5 DEF RecentLast
<1> HIDE DEF s, t
<1>8. PICK i \in DOMAIN s : s[i] = m /\ \A j \in DOMAIN s : j < i => s[j] \in NotInTable
  BY <1>5
<1>9. ASSUME NEW x \in Elements(s), x \notin NotInTable PROVE x \in lastCut \cup since
  <2>1. PICK j \in DOMAIN s : x = s[j] BY <1>9 DEF Elements
  <2>2. ~(j < i) BY <1>8, <1>9, <2>1
  <2>3. j = i \/ i < j BY <1>6, <2>2
  <2>4. CASE j = i BY <1>8, <2>1, <2>4
  <2>5. CASE i < j BY <1>7, <1>8, <2>1, <2>5 DEF AtEnd
  <2> QED BY <2>3, <2>4, <2>5
<1> QED BY <1>6, <1>9 DEF s

(* The WebGL scene rebuilds its table.                                     *)
LEMMA DepthChangedSafe ==
  ASSUME IInv, DepthChanged
  PROVE  IInv'
<1>1. PICK d \in Depths :
        /\ phase = "idle" /\ backend = "webgl" /\ table' = NodeTable(d)
        /\ UNCHANGED <<tileVars, view, gpuVars, backend, glVars, history>>
  BY DEF DepthChanged
<1>2. phase' = "idle" /\ UNCHANGED <<queue, counts, pushing, packList>>
  BY <1>1 DEF gpuVars, gpuQueues
<1>3. d \in Nat BY SceneConstants
<1>4. IsTable(table') BY <1>1, <1>3, NodeTableIs
<1>5. Types /\ Tiles /\ Clean /\ RecentLast BY PhaseIs
<1>6. Types' BY <1>1, <1>2, <1>4, <1>5 DEF Types
<1>7. Tiles' /\ Clean' /\ RecentLast'
  BY <1>1, <1>2, <1>5
     DEF Tiles, Clean, RecentLast, Recent, Loaded, tileVars, glVars, history
<1> QED BY <1>2, <1>6, <1>7 DEF IInv

(* The camera moves.                                                       *)
LEMMA MoveCameraSafe ==
  ASSUME IInv, MoveCamera
  PROVE  IInv'
<1>1. PICK v \in Views :
        /\ phase = "idle" /\ view' = v
        /\ UNCHANGED <<tileVars, table, gpuVars, backend, glVars, history>>
  BY DEF MoveCamera
<1>2. phase' = "idle" /\ UNCHANGED <<queue, counts, pushing, packList>>
  BY <1>1 DEF gpuVars, gpuQueues
<1>3. Types /\ Tiles /\ Clean /\ RecentLast BY PhaseIs
<1>4. Types' BY <1>1, <1>2, <1>3 DEF Types
<1>5. Tiles' /\ Clean' /\ RecentLast'
  BY <1>1, <1>2, <1>3
     DEF Tiles, Clean, RecentLast, Recent, Loaded, tileVars, glVars, history
<1> QED BY <1>2, <1>4, <1>5 DEF IInv

-----------------------------------------------------------------------------
(* A frame on the CPU                                                      *)

(* The line of a node of a table is in the table.                          *)
LEMMA LineInTable ==
  ASSUME IsTable(table), NEW n \in Range(table)
  PROVE  n \in Keys /\ Line[n] \subseteq Range(table)
<1>1. Range(table) \subseteq Keys BY RangeIs DEF IsTable
<1> QED BY <1>1, LineLeast DEF IsTable

(* A frame begins: every node drawn is under one of the roots.             *)
LEMMA FrameStartsSafe ==
  ASSUME IInv, GLFrameStarts
  PROVE  IInv'
<1> DEFINE C == ReplacementCut(table, view, Loaded(atlas))
<1>1. /\ phase = "idle" /\ backend = "webgl"
      /\ vbo' = IF dirty THEN content ELSE vbo
      /\ dirty' = FALSE /\ phase' = "cut" /\ stack' = Roots(table) /\ cut' = <<>>
      /\ UNCHANGED <<tileVars, view, table, gpuQueues, backend, history>>
  BY DEF GLFrameStarts
<1>2. UNCHANGED <<queue, counts, pushing, packList>> BY <1>1 DEF gpuQueues
<1>3. Types /\ Tiles /\ Clean /\ RecentLast BY PhaseIs
<1>4. Types' BY <1>1, <1>2, <1>3 DEF Types
<1>5. Tiles' BY <1>1, <1>3 DEF Tiles, Loaded, tileVars
<1>6. Clean' BY <1>1, <1>3 DEF Clean, tileVars
<1>7. RecentLast' BY <1>1, EmptyRange DEF RecentLast, Recent, AtEnd
<1>8. IsTable(table) BY <1>3 DEF Types
<1>9. /\ Roots(table) \in Seq(Keys)
      /\ Range(Roots(table)) = {n \in Range(table) : Depth[n] = 0}
      /\ \A i, j \in DOMAIN Roots(table) : Roots(table)[i] = Roots(table)[j] => i = j
  BY <1>8, RootsAre
<1>10. Range(stack') \subseteq Offered(CpuSeen)'
  <2>1. \A n \in Range(stack') : n \in Range(table) /\ Depth[n] = 0 BY <1>1, <1>9
  <2>2. Range(table') = Range(table) BY <1>1
  <2>3. \A n \in Range(stack') : ~(Depth[n] > 0) BY <2>1
  <2> QED BY <2>1, <2>2, <2>3 DEF Offered
<1>11. ASSUME NEW i \in DOMAIN stack', NEW j \in DOMAIN stack', stack'[i] \in Line[stack'[j]]
       PROVE  i = j
  <2>1. stack'[j] \in Range(table) /\ Depth[stack'[j]] = 0 BY <1>1, <1>9 DEF Range
  <2>2. stack'[j] \in Keys BY <1>8, <2>1, LineInTable
  <2>3. Line[stack'[j]] = {stack'[j]} BY <2>1, <2>2, LineStep
  <2> QED BY <1>1, <1>9, <1>11, <2>3
<1>12. {n \in C : Line[n] \cap Range(stack') = {}} = {}
  <2>1. ASSUME NEW n \in C PROVE Line[n] \cap Range(stack') # {}
    <3>1. n \in Range(table) BY <2>1 DEF ReplacementCut, Reached
    <3>2. n \in Keys /\ Line[n] \subseteq Range(table) BY <1>8, <3>1, LineInTable
    <3>3. PICK r \in Line[n] : Depth[r] = 0 BY <3>2, RootOnLine
    <3>4. r \in Range(stack') BY <1>1, <1>9, <3>2, <3>3
    <3> QED BY <3>3, <3>4
  <2> QED BY <2>1
<1>13. C' = C BY <1>1 DEF ReplacementCut, Reached, Takes, Loaded, tileVars
<1>14. cut' \in Seq(Keys) /\ IsInjective(cut') /\ Range(cut') = {}
  BY <1>1, EmptySeq, EmptyRange DEF IsInjective
<1>15. InCut' BY <1>1, <1>9, <1>10, <1>11, <1>12, <1>13, <1>14 DEF InCut
<1> QED BY <1>1, <1>4, <1>5, <1>6, <1>7, <1>15 DEF IInv

(* Two sequences of different elements, joined                             *)
LEMMA JoinedOnce ==
  ASSUME NEW S, NEW s \in Seq(S), NEW t \in Seq(S),
         \A i, j \in DOMAIN s : s[i] = s[j] => i = j, IsInjective(t),
         Range(s) \cap Range(t) = {}
  PROVE  \A i, j \in DOMAIN (s \o t) : (s \o t)[i] = (s \o t)[j] => i = j
<1> DEFINE r == s \o t
           m == Len(s)
           k == Len(t)
<1>1. m \in Nat /\ k \in Nat /\ DOMAIN s = 1..m /\ DOMAIN t = 1..k OBVIOUS
<1>2. /\ DOMAIN r = 1..(m + k)
      /\ \A i \in 1..(m + k) : r[i] = IF i <= m THEN s[i] ELSE t[i - m]
  BY ConcatProperties
<1> HIDE DEF r, m, k
<1>3. ASSUME NEW i \in 1..(m + k) PROVE i \in 1..m \/ (~(i <= m) /\ i - m \in 1..k)
  BY <1>1
<1>4. ASSUME NEW i \in 1..(m + k), NEW j \in 1..(m + k), r[i] = r[j] PROVE i = j
  <2>1. CASE i <= m /\ j <= m
    <3>1. i \in DOMAIN s /\ j \in DOMAIN s /\ s[i] = s[j] BY <1>1, <1>2, <1>4, <2>1
    <3> QED BY <3>1
  <2>2. CASE ~(i <= m) /\ ~(j <= m)
    <3>1. i - m \in DOMAIN t /\ j - m \in DOMAIN t BY <1>1, <1>3, <2>2
    <3>2. t[i - m] = t[j - m] BY <1>2, <1>4, <2>2
    <3>3. i - m = j - m BY <3>1, <3>2 DEF IsInjective
    <3> QED BY <1>1, <3>3
  <2>3. CASE i <= m /\ ~(j <= m)
    <3>1. i \in DOMAIN s /\ j - m \in DOMAIN t BY <1>1, <1>3, <2>3
    <3>2. s[i] = t[j - m] BY <1>2, <1>4, <2>3
    <3> QED BY <3>1, <3>2 DEF Range
  <2>4. CASE ~(i <= m) /\ j <= m
    <3>1. j \in DOMAIN s /\ i - m \in DOMAIN t BY <1>1, <1>3, <2>4
    <3>2. s[j] = t[i - m] BY <1>2, <1>4, <2>4
    <3> QED BY <3>1, <3>2 DEF Range
  <2> QED BY <2>1, <2>2, <2>3, <2>4
<1> QED BY <1>2, <1>4 DEF r

(* No node of a sequence is on the line of another: said of the places,    *)
(* and of the nodes.                                                       *)
LEMMA AntichainIs ==
  ASSUME NEW s \in Seq(Keys)
  PROVE  (\A i, j \in DOMAIN s : s[i] \in Line[s[j]] => i = j)
           <=> /\ \A i, j \in DOMAIN s : s[i] = s[j] => i = j
               /\ \A x, y \in Range(s) : x \in Line[y] => x = y
<1>1. \A i \in DOMAIN s : s[i] \in Keys OBVIOUS
<1>2. \A i \in DOMAIN s : s[i] \in Line[s[i]] BY <1>1, LineIs
<1>3. \A x \in Range(s) : \E i \in DOMAIN s : x = s[i] BY DEF Range
<1>4. \A i \in DOMAIN s : s[i] \in Range(s) BY DEF Range
<1>5. ASSUME \A i, j \in DOMAIN s : s[i] \in Line[s[j]] => i = j
      PROVE  /\ \A i, j \in DOMAIN s : s[i] = s[j] => i = j
             /\ \A x, y \in Range(s) : x \in Line[y] => x = y
  <2>1. \A i, j \in DOMAIN s : s[i] = s[j] => i = j BY <1>2, <1>5
  <2>2. ASSUME NEW x \in Range(s), NEW y \in Range(s), x \in Line[y] PROVE x = y
    <3>1. PICK i \in DOMAIN s : x = s[i] BY <1>3
    <3>2. PICK j \in DOMAIN s : y = s[j] BY <1>3
    <3>3. i = j BY <1>5, <2>2, <3>1, <3>2
    <3> QED BY <3>1, <3>2, <3>3
  <2> QED BY <2>1, <2>2
<1>6. ASSUME \A i, j \in DOMAIN s : s[i] = s[j] => i = j,
             \A x, y \in Range(s) : x \in Line[y] => x = y
      PROVE  \A i, j \in DOMAIN s : s[i] \in Line[s[j]] => i = j
  BY <1>4, <1>6
<1> QED BY <1>5, <1>6

(* The last of a sequence popped                                           *)
LEMMA PoppedIs ==
  ASSUME NEW S, NEW s \in Seq(S), s # <<>>,
         \A i, j \in DOMAIN s : s[i] = s[j] => i = j
  PROVE  LET n == s[Len(s)]
             rest == SubSeq(s, 1, Len(s) - 1)
         IN /\ n \in S /\ n \notin Range(rest) /\ rest \in Seq(S)
            /\ Range(s) = Range(rest) \cup {n}
            /\ \A i, j \in DOMAIN rest : rest[i] = rest[j] => i = j
<1> DEFINE n == s[Len(s)]
           m == Len(s) - 1
           rest == SubSeq(s, 1, m)
<1>1. Len(s) \in Nat \ {0} /\ DOMAIN s = 1..Len(s) BY EmptySeq
<1>2. m \in 0..Len(s) /\ Len(s) = m + 1 /\ m \in Nat BY <1>1
<1>3. rest \in Seq(S) /\ DOMAIN rest = 1..m /\ \A i \in 1..m : rest[i] = s[i]
  BY <1>2, Beginning
<1> HIDE DEF rest, m
<1>4. DOMAIN s = (1..m) \cup {m + 1} /\ m + 1 \notin 1..m /\ n = s[m + 1] BY <1>1, <1>2
<1> HIDE DEF n
<1>5. n \in S BY <1>1, <1>2, <1>4
<1>6. n \notin Range(rest) BY <1>3, <1>4 DEF Range
<1>7. Range(s) = Range(rest) \cup {n} BY <1>3, <1>4 DEF Range
<1>8. \A i, j \in DOMAIN rest : rest[i] = rest[j] => i = j BY <1>3, <1>4
<1> QED BY <1>3, <1>5, <1>6, <1>7, <1>8 DEF n, rest, m

(* A node is popped that is not in view: nothing drawn is under it.  If it *)
(* is in view, all that is drawn under it is the node itself, unless it is *)
(* too coarse, or is under its children.                                   *)
LEMMA UnderPopped ==
  ASSUME IsTable(table), NEW seen, NEW n,
         NEW m \in Reached(table, view, seen), n \in Line[m]
  PROVE  /\ n \in seen
         /\ m # n => n \notin view.fine
         /\ m # n => Line[m] \cap Range(ChildrenIn(table, n)) # {}
         /\ Line[n] \cap Range(ChildrenIn(table, n)) = {}
<1>1. m \in Range(table) /\ Line[m] \subseteq seen /\ (Line[m] \ {m}) \cap view.fine = {}
  BY DEF Reached
<1>2. m \in Keys /\ Line[m] \subseteq Range(table) BY <1>1, LineInTable
<1>3. Range(ChildrenIn(table, n)) = {c \in Range(table) : Depth[c] > 0 /\ ParentOf[c] = n}
  BY ChildrenAre
<1>4. ASSUME m # n PROVE Line[m] \cap Range(ChildrenIn(table, n)) # {}
  <2>1. PICK c \in Line[m] : Depth[c] > 0 /\ ParentOf[c] = n BY <1>2, <1>4, ChildOnLine
  <2> QED BY <1>2, <1>3, <2>1
<1>5. n \in Keys BY <1>2, LineIs
<1>6. ASSUME NEW c \in Line[n], c \in Range(ChildrenIn(table, n)) PROVE FALSE
  <2>1. c \in Range(table) /\ Depth[c] > 0 /\ ParentOf[c] = n BY <1>3, <1>6
  <2>2. c \in Keys BY <2>1, LineInTable
  <2>3. Depth[c] \in Nat /\ Depth[n] = Depth[c] - 1 BY <2>1, <2>2, TreeIs
  <2>4. c = n \/ Depth[c] < Depth[n] BY <1>5, <1>6, LineDepth
  <2> QED BY <2>3, <2>4
<1> QED BY <1>1, <1>4, <1>6

(* A node's children take its place: still no node is on another's line.   *)
LEMMA ChildrenApart ==
  ASSUME IsTable(table), NEW T \in SUBSET Keys, NEW n \in T,
         \A x, y \in T : x \in Line[y] => x = y
  PROVE  LET K == Range(ChildrenIn(table, n))
         IN /\ (T \ {n}) \cap K = {}
            /\ \A x, y \in (T \ {n}) \cup K : x \in Line[y] => x = y
<1> DEFINE K == Range(ChildrenIn(table, n))
<1>1. K = {c \in Range(table) : Depth[c] > 0 /\ ParentOf[c] = n} BY ChildrenAre
<1> HIDE DEF K
<1>2. ASSUME NEW c \in K
      PROVE  /\ c \in Keys /\ Line[c] = {c} \cup Line[n] /\ n \in Line[c] /\ c # n
             /\ c \notin Line[n]
  <2>1. c \in Range(table) /\ Depth[c] > 0 /\ ParentOf[c] = n BY <1>1
  <2>2. c \in Keys BY <2>1, LineInTable
  <2>3. Line[c] = {c} \cup Line[n] BY <2>1, <2>2, LineStep
  <2>4. n \in Line[n] BY LineIs
  <2>5. Depth[c] \in Nat /\ Depth[n] = Depth[c] - 1 BY <2>1, <2>2, TreeIs
  <2>6. c # n BY <2>5
  <2>7. c \in Line[n] => Depth[c] < Depth[n] BY <2>6, LineDepth
  <2> QED BY <2>2, <2>3, <2>4, <2>5, <2>6, <2>7
<1>3. ASSUME NEW x \in T \ {n}, NEW y \in K PROVE x \notin Line[y] /\ y \notin Line[x]
  <2>1. x \in Keys /\ x \in Line[x] /\ UpClosed(Line[x]) BY LineIs
  <2>2. ASSUME y \in Line[x] PROVE FALSE
    <3>1. Depth[y] > 0 /\ ParentOf[y] = n BY <1>1
    <3>2. n \in Line[x] BY <2>1, <2>2, <3>1 DEF UpClosed
    <3> QED BY <3>2
  <2>3. ASSUME x \in Line[y] PROVE FALSE
    <3>1. x \in {y} \cup Line[n] BY <1>2, <2>3
    <3>2. x = y BY <3>1
    <3> QED BY <2>1, <2>2, <3>2
  <2> QED BY <2>2, <2>3
<1>4. (T \ {n}) \cap K = {}
  <2>1. \A x \in T \ {n} : x \in Line[x] BY LineIs
  <2> QED BY <1>3, <2>1
<1>5. ASSUME NEW x \in (T \ {n}) \cup K, NEW y \in (T \ {n}) \cup K, x \in Line[y] PROVE x = y
  <2>1. CASE x \in T \ {n} /\ y \in T \ {n} BY <1>5, <2>1
  <2>2. CASE x \in K /\ y \in K
    <3>1. x \notin Line[n] /\ Line[y] = {y} \cup Line[n] BY <1>2, <2>2
    <3> QED BY <1>5, <3>1
  <2> QED BY <1>3, <1>5, <2>1, <2>2
<1> QED BY <1>4, <1>5 DEF K

(* A node is visited.                                                      *)
LEMMA GLVisitSafe ==
  ASSUME IInv, GLVisit
  PROVE  IInv'
<1> DEFINE n == stack[Len(stack)]
           rest == SubSeq(stack, 1, Len(stack) - 1)
           kids == ChildrenIn(table, n)
           loaded == Loaded(atlas)
           C == ReplacementCut(table, view, loaded)
           R == Reached(table, view, CpuSeen)
<1>1. /\ phase = "cut" /\ stack # <<>>
      /\ UNCHANGED <<nodeTable, content, view, table, gpuVars, backend, dirty, vbo, history>>
      /\ n \notin CpuSeen => stack' = rest /\ UNCHANGED <<cut, atlas>>
      /\ n \in CpuSeen =>
           /\ stack' = IF n \in view.fine THEN rest ELSE rest \o kids
           /\ n \in loaded /\ Takes(table, view, n, loaded) =>
                cut' = Append(cut, n) /\ atlas' = Touched(atlas, n)
           /\ ~(n \in loaded /\ Takes(table, view, n, loaded)) => UNCHANGED <<cut, atlas>>
  BY DEF GLVisit, CpuSeen
<1>2. phase' = "cut" /\ UNCHANGED <<queue, counts, pushing, packList>>
  BY <1>1 DEF gpuVars, gpuQueues
<1>3. Types /\ Tiles /\ Clean /\ RecentLast /\ backend = "webgl" /\ InCut /\ Recent = Range(cut)
  BY <1>1, PhaseIs
<1>4. IsTable(table) BY <1>3 DEF Types
<1>5. /\ stack \in Seq(Keys) /\ Range(stack) \subseteq Offered(CpuSeen)
      /\ \A i, j \in DOMAIN stack : stack[i] \in Line[stack[j]] => i = j
      /\ cut \in Seq(Keys) /\ IsInjective(cut)
      /\ Range(cut) = {m \in C : Line[m] \cap Range(stack) = {}}
      /\ ~dirty
  BY <1>3 DEF InCut
<1>6. /\ \A i, j \in DOMAIN stack : stack[i] = stack[j] => i = j
      /\ \A x, y \in Range(stack) : x \in Line[y] => x = y
  BY <1>5, AntichainIs
<1>7. /\ n \in Keys /\ n \notin Range(rest) /\ rest \in Seq(Keys)
      /\ Range(stack) = Range(rest) \cup {n}
      /\ \A i, j \in DOMAIN rest : rest[i] = rest[j] => i = j
  BY <1>1, <1>5, <1>6, PoppedIs
<1>8. R = Offered(CpuSeen) \cap CpuSeen BY <1>4, OfferedSeen
<1>9. C = {m \in R \cap loaded : Takes(table, view, m, loaded)} BY DEF ReplacementCut, CpuSeen
<1>10. n \in Offered(CpuSeen) BY <1>5, <1>7
<1>11. /\ kids \in Seq(Keys) /\ IsInjective(kids)
       /\ Range(kids) = {c \in Range(table) : Depth[c] > 0 /\ ParentOf[c] = n}
  BY <1>4, ChildrenAre
<1>12. n \in CpuSeen => (n \in C <=> n \in loaded /\ Takes(table, view, n, loaded))
  BY <1>8, <1>9, <1>10
<1>13. /\ n \in CpuSeen /\ n \in C => cut' = Append(cut, n) /\ atlas' = Touched(atlas, n)
       /\ ~(n \in CpuSeen /\ n \in C) => cut' = cut /\ atlas' = atlas
  BY <1>1, <1>12
<1>14. /\ Range(stack) \subseteq Keys /\ n \in Range(stack) /\ Range(rest) = Range(stack) \ {n}
  BY <1>5, <1>7, RangeIs
<1>15. /\ Range(rest) \cap Range(kids) = {}
       /\ \A x, y \in Range(rest) \cup Range(kids) : x \in Line[y] => x = y
  BY <1>4, <1>6, <1>14, ChildrenApart
<1>16. \A m \in C : n \in Line[m] =>
         /\ n \in CpuSeen
         /\ m # n => n \notin view.fine /\ Line[m] \cap Range(kids) # {}
         /\ Line[n] \cap Range(kids) = {}
  BY <1>4, <1>9, UnderPopped
<1>17. n \in Line[n] /\ Line[n] \cap Range(rest) = {}
  <2>1. n \in Line[n] BY <1>7, LineIs
  <2> QED BY <1>6, <1>7, <1>14, <2>1
<1>18. \A m \in C : n \notin Line[m] => Line[m] \cap Range(kids) = {}
  <2> SUFFICES ASSUME NEW m \in C, NEW c \in Line[m], c \in Range(kids) PROVE n \in Line[m]
    OBVIOUS
  <2>1. m \in Range(table) BY <1>9 DEF Reached
  <2>2. m \in Keys BY <1>4, <2>1, LineInTable
  <2> QED BY <1>11, <2>2, LineIs DEF UpClosed
<1>19. Tiles' /\ Loaded(atlas)' = loaded
       /\ \A S : \A t \in Tiers : AtEnd(atlas.lru[t], S) =>
            AtEnd(atlas'.lru[t], IF n \in CpuSeen /\ n \in C THEN S \cup {n} ELSE S)
  <2>1. CASE n \in CpuSeen /\ n \in C
    <3>1. n \in Loaded(atlas) /\ AtlasOf(atlas) BY <1>3, <1>9, <2>1 DEF Tiles
    <3>2. /\ AtlasOf(atlas') /\ atlas'.nodeToSlot = atlas.nodeToSlot
          /\ Loaded(atlas') = Loaded(atlas)
          /\ \A S : \A t \in Tiers :
               AtEnd(atlas.lru[t], S) => AtEnd(atlas'.lru[t], S \cup {n})
      BY <1>13, <2>1, <3>1, TouchedIs
    <3>3. Tiles' BY <1>1, <1>3, <3>2 DEF Tiles
    <3> QED BY <2>1, <3>2, <3>3
  <2>2. CASE ~(n \in CpuSeen /\ n \in C)
    <3>1. atlas' = atlas BY <1>13, <2>2
    <3>2. Tiles' /\ Loaded(atlas)' = loaded BY <1>1, <1>3, <3>1 DEF Tiles, Loaded
    <3> QED BY <2>2, <3>1, <3>2
  <2> QED BY <2>1, <2>2
<1> HIDE DEF n, rest, kids, loaded, C, R
<1>20. C' = C /\ CpuSeen' = CpuSeen /\ Offered(CpuSeen)' = Offered(CpuSeen)
  BY <1>1, <1>19 DEF C, loaded, ReplacementCut, Reached, Takes, CpuSeen, Offered
<1>21. /\ stack' \in Seq(Keys) /\ Range(stack') \subseteq Offered(CpuSeen)
       /\ \A i, j \in DOMAIN stack' : stack'[i] = stack'[j] => i = j
       /\ \A x, y \in Range(stack') : x \in Line[y] => x = y
       /\ \A m \in C : Line[m] \cap Range(stack') = {} <=>
                       Line[m] \cap Range(stack) = {} \/ (m = n /\ n \in CpuSeen)
  <2>1. CASE stack' = rest /\ (n \notin CpuSeen \/ n \in view.fine)
    <3>1. \A m \in C : Line[m] \cap Range(stack') = {} <=>
                       Line[m] \cap Range(stack) = {} \/ (m = n /\ n \in CpuSeen)
      BY <1>7, <1>16, <1>17, <2>1
    <3> QED BY <1>5, <1>6, <1>7, <2>1, <3>1
  <2>2. CASE stack' = rest \o kids /\ n \in CpuSeen /\ n \notin view.fine
    <3>1. rest \o kids \in Seq(Keys) /\ Range(rest \o kids) = Range(rest) \cup Range(kids)
      BY <1>7, <1>11, JoinedRange
    <3>2. \A i, j \in DOMAIN (rest \o kids) : (rest \o kids)[i] = (rest \o kids)[j] => i = j
      BY <1>7, <1>11, <1>15, JoinedOnce
    <3>3. Range(kids) \subseteq Offered(CpuSeen)
      <4>1. n \in R \ view.fine BY <1>8, <1>10, <2>2
      <4> QED BY <1>11, <4>1 DEF Offered, R
    <3>4. \A m \in C : Line[m] \cap Range(stack') = {} <=>
                       Line[m] \cap Range(stack) = {} \/ (m = n /\ n \in CpuSeen)
      <4> TAKE m \in C
      <4>1. CASE n \notin Line[m]
        <5>1. Line[m] \cap Range(kids) = {} /\ m # n BY <1>17, <1>18, <4>1
        <5> QED BY <1>7, <2>2, <3>1, <4>1, <5>1
      <4>2. CASE n \in Line[m]
        <5>1. CASE m = n BY <1>16, <1>17, <2>2, <3>1, <4>2, <5>1
        <5>2. CASE m # n BY <1>7, <1>16, <2>2, <3>1, <4>2, <5>2
        <5> QED BY <5>1, <5>2
      <4> QED BY <4>1, <4>2
    <3> QED BY <1>5, <1>7, <1>15, <2>2, <3>1, <3>2, <3>3, <3>4
  <2> QED BY <1>1, <2>1, <2>2 DEF n, rest, kids
<1>22. \A i, j \in DOMAIN stack' : stack'[i] \in Line[stack'[j]] => i = j
  BY <1>21, AntichainIs
<1>23. cut' \in Seq(Keys) /\ IsInjective(cut')
       /\ Range(cut') = {m \in C : Line[m] \cap Range(stack') = {}}
  <2>1. CASE n \in CpuSeen /\ n \in C
    <3>1. cut' = Append(cut, n) BY <1>13, <2>1
    <3>2. cut' \in Seq(Keys) /\ Range(cut') = Range(cut) \cup {n}
      BY <1>5, <1>7, <3>1, AppendedRange
    <3>3. n \notin Range(cut) BY <1>5, <1>7, <1>17
    <3>4. IsInjective(cut')
      <4>1. /\ Len(cut) \in Nat /\ DOMAIN cut = 1..Len(cut)
            /\ DOMAIN cut' = 1..(Len(cut) + 1) /\ cut'[Len(cut) + 1] = n
            /\ \A i \in 1..Len(cut) : cut'[i] = cut[i]
        BY <1>5, <1>7, <3>1, AppendProperties
      <4>2. \A i \in DOMAIN cut' : i = Len(cut) + 1 \/ i \in DOMAIN cut BY <4>1
      <4>3. \A i \in DOMAIN cut : cut'[i] # n BY <3>3, <4>1 DEF Range
      <4> QED BY <1>5, <4>1, <4>2, <4>3 DEF IsInjective
    <3> QED BY <1>5, <1>21, <2>1, <3>2, <3>4
  <2>2. CASE ~(n \in CpuSeen /\ n \in C)
    <3>1. cut' = cut BY <1>13, <2>2
    <3> QED BY <1>5, <1>21, <2>2, <3>1
  <2> QED BY <2>1, <2>2
<1>24. InCut'
  <2>1. ReplacementCut(table, view, Loaded(atlas))' = C BY <1>20 DEF C, loaded
  <2>2. ~dirty' BY <1>1, <1>5
  <2> QED BY <1>20, <1>21, <1>22, <1>23, <2>1, <2>2 DEF InCut
<1>25. RecentLast'
  <2>1. Recent' = Range(cut') BY <1>2 DEF Recent
  <2>2. Range(cut') = IF n \in CpuSeen /\ n \in C THEN Range(cut) \cup {n} ELSE Range(cut)
    <3>1. CASE n \in CpuSeen /\ n \in C
      <4>1. Range(Append(cut, n)) = Range(cut) \cup {n} BY <1>5, <1>7, AppendedRange
      <4> QED BY <1>13, <3>1, <4>1
    <3>2. CASE ~(n \in CpuSeen /\ n \in C) BY <1>13, <3>2
    <3> QED BY <3>1, <3>2
  <2>3. \A t \in Tiers : AtEnd(atlas.lru[t], Range(cut)) BY <1>3 DEF RecentLast
  <2>4. \A t \in Tiers : AtEnd(atlas'.lru[t], Range(cut')) BY <1>19, <2>2, <2>3
  <2> QED BY <2>1, <2>4 DEF RecentLast
<1>26. Types' BY <1>1, <1>2, <1>3 DEF Types
<1>27. Clean' BY <1>1, <1>3 DEF Clean
<1> QED BY <1>2, <1>19, <1>24, <1>25, <1>26, <1>27 DEF IInv

(* The walk is over.                                                       *)
LEMMA FrameEndsSafe ==
  ASSUME IInv, GLFrameEnds
  PROVE  IInv'
<1>1. /\ phase = "cut" /\ phase' = "idle" /\ lastCut' = Range(cut) /\ since' = {}
      /\ UNCHANGED <<tileVars, view, table, gpuQueues, backend, glVars>>
  BY DEF GLFrameEnds
<1>2. UNCHANGED <<queue, counts, pushing, packList>> BY <1>1 DEF gpuQueues
<1>3. Types /\ Tiles /\ Clean /\ RecentLast /\ Recent = Range(cut) BY <1>1, PhaseIs
<1>4. Types' BY <1>1, <1>2, <1>3 DEF Types
<1>5. Tiles' /\ Clean' BY <1>1, <1>3 DEF Tiles, Clean, Loaded, tileVars, glVars
<1>6. RecentLast'
  <2>1. Recent' = Recent BY <1>1, <1>3 DEF Recent
  <2> QED BY <1>1, <1>3, <2>1 DEF RecentLast, tileVars
<1> QED BY <1>1, <1>4, <1>5, <1>6 DEF IInv

(* What it selected is the cut, and the VBOs are up to date.               *)
LEMMA FrameDraws ==
  ASSUME IInv, GLFrameEnds
  PROVE  LET seen == ReplacementCut(table, view, Loaded(atlas))
         IN /\ Len(drawn') = Cardinality(seen) /\ Range(drawn') = SlotsOf(seen)
            /\ \A s \in SlotsOf(seen) : vbo[s] = content[s]
<1> DEFINE C == ReplacementCut(table, view, Loaded(atlas))
           N == Len(cut)
<1>1. phase = "cut" /\ stack = <<>> /\ drawn' = [i \in DOMAIN cut |-> atlas.nodeToSlot[cut[i]]]
  BY DEF GLFrameEnds
<1>2. Clean /\ backend = "webgl" /\ InCut BY <1>1, PhaseIs
<1>3. /\ cut \in Seq(Keys) /\ IsInjective(cut) /\ ~dirty
      /\ Range(cut) = {m \in C : Line[m] \cap Range(stack) = {}}
  BY <1>2 DEF InCut
<1>4. Range(cut) = C BY <1>1, <1>3, EmptyRange
<1>5. vbo = content BY <1>2, <1>3 DEF Clean
<1> HIDE DEF C
<1>6. N \in Nat /\ DOMAIN cut = 1..N BY <1>3
<1>7. DOMAIN drawn' = 1..N /\ Len(drawn') = N
  <2>1. drawn' = [i \in 1..N |-> atlas.nodeToSlot[cut[i]]] BY <1>1, <1>6
  <2> HIDE DEF N
  <2> QED BY <1>6, <2>1
<1>8. Range(drawn') = SlotsOf(C)
  <2>1. \A i \in DOMAIN cut : drawn'[i] = atlas.nodeToSlot[cut[i]] BY <1>1
  <2>2. Range(drawn') = {atlas.nodeToSlot[cut[i]] : i \in DOMAIN cut}
    BY <1>6, <1>7, <2>1 DEF Range
  <2> QED BY <1>4, <2>2 DEF Range, SlotsOf
<1>9. Cardinality(C) = N
  <2> DEFINE B == 1..N
             f == [i \in B |-> cut[i]]
  <2>1. /\ f \in [B -> C] /\ (\A x, y \in B : f[x] = f[y] => x = y)
        /\ (\A z \in C : \E x \in B : f[x] = z)
    BY <1>3, <1>4, <1>6 DEF IsInjective, Range
  <2>2. IsFiniteSet(B) /\ Cardinality(B) = N
    <3> HIDE DEF N
    <3>1. 1 \in Int /\ N \in Int BY <1>6
    <3>2. IsFiniteSet(1..N) /\ Cardinality(1..N) = IF 1 > N THEN 0 ELSE N - 1 + 1
      BY <3>1, FS_Interval
    <3> QED BY <1>6, <3>2
  <2> HIDE DEF f, B
  <2> QED BY <2>1, <2>2, SameNumber
<1> QED BY <1>5, <1>7, <1>8, <1>9 DEF C

-----------------------------------------------------------------------------
(* The invariant                                                           *)

(* It holds of new scenes.                                                 *)
LEMMA InitSafe == Init => IInv
<1> SUFFICES ASSUME Init PROVE IInv OBVIOUS
<1>1. /\ atlas = Empty /\ nodeTable = [n \in Nodes |-> NoSlot]
      /\ content = [s \in Slots |-> NoNode] /\ view \in Views
      /\ table \in {NodeTable(d) : d \in Depths}
      /\ backend \in {"webgpu", "webgl"} /\ vbo = content
      /\ phase = "idle" /\ pushing = {} /\ queue = [b \in 0..1 |-> NoQueue]
      /\ counts = [w \in 0..Waves |-> IF w = 0 THEN Len(Roots(table)) ELSE 0]
      /\ packList = [i \in 1..Cardinality(Slots) |-> NoSlot]
  BY DEF Init, GpuInit
<1>2. IsTable(table)
  <2>1. PICK d \in Depths : table = NodeTable(d) BY <1>1
  <2>2. d \in Nat BY SceneConstants
  <2> QED BY <2>1, <2>2, NodeTableIs
<1>3. Types
  <2>1. Len(Roots(table)) \in Nat BY <1>2, RootsAre, TreeConstants
  <2>2. Waves \in Nat BY WavesAssumption
  <2>3. counts \in [0..Waves -> Nat] /\ counts[0] = Len(Roots(table))
    <3> DEFINE l == Len(Roots(table))
    <3>1. counts = [w \in 0..Waves |-> IF w = 0 THEN l ELSE 0] /\ l \in Nat BY <1>1, <2>1
    <3> HIDE DEF l
    <3>2. counts \in [0..Waves -> Nat] /\ counts[0] = l BY <2>2, <3>1
    <3> QED BY <3>2 DEF l
  <2>4. queue \in [0..1 -> [1..MaxNodes -> Keys \cup {NoNode}]] BY <1>1 DEF NoQueue
  <2> QED BY <1>1, <1>2, <2>3, <2>4 DEF Types
<1>4. /\ DOMAIN atlas = AtlasFields /\ atlas.free = SlotOrder
      /\ atlas.lru = [t \in Tiers |-> <<>>] /\ atlas.nodeToSlot = [n \in Nodes |-> NoSlot]
  BY <1>1 DEF Empty, AtlasFields
<1>5. Loaded(atlas) = {} BY <1>4 DEF Loaded
<1>6. \A t \in Tiers : atlas.lru[t] = <<>> BY <1>4
<1>7. \A t \in Tiers : DOMAIN atlas.lru[t] = {} BY <1>6
<1>8. Tiles
  <2>1. atlas.free \in [Tiers -> Seq(Slots)] BY <1>4, AtlasConstants
  <2>2. atlas.lru \in [Tiers -> Seq(Nodes)]
    <3>1. <<>> \in Seq(Nodes) BY EmptySeq
    <3> QED BY <1>4, <3>1
  <2>3. \A t \in Tiers : Elements(atlas.free[t]) \subseteq SlotsIn(t)
    BY <1>4, AtlasConstants DEF Elements
  <2>4. AtlasOf(atlas) BY <1>4, <1>5, <1>7, <2>1, <2>2, <2>3 DEF AtlasOf, Elements
  <2> QED BY <1>1, <1>4, <1>5, <2>4 DEF Tiles
<1>9. Clean BY <1>1 DEF Clean
<1>10. RecentLast BY <1>7 DEF RecentLast, AtEnd
<1> QED BY <1>1, <1>3, <1>8, <1>9, <1>10 DEF IInv

(* Every step keeps it.                                                    *)
LEMMA NextSafe == IInv /\ [Next]_vars => IInv'
<1> SUFFICES ASSUME IInv, [Next]_vars PROVE IInv' OBVIOUS
<1>1. CASE DepthChanged BY <1>1, DepthChangedSafe
<1>2. CASE MoveCamera BY <1>2, MoveCameraSafe
<1>3. CASE GLFrameStarts BY <1>3, FrameStartsSafe
<1>4. CASE GLVisit BY <1>4, GLVisitSafe
<1>5. CASE GLFrameEnds BY <1>5, FrameEndsSafe
<1>6. CASE GpuMoves
  <2>1. GpuStep /\ UNCHANGED <<tileVars, backend, glVars, history>> BY <1>6 DEF GpuMoves
  <2>2. CASE SubmitFrame BY <2>1, <2>2, SubmitSafe
  <2>3. CASE NextWave BY <2>1, <2>3, NextWaveSafe
  <2>4. CASE Compact BY <2>1, <2>4, CompactSafe
  <2>5. CASE PushChild
    <3>1. phase = "waves" BY <2>5 DEF PushChild, IInv, Types
    <3> QED BY <2>1, <2>5, <3>1, PushChildSafe
  <2>6. CASE \E i \in 1..MaxNodes : Thread(i) BY <2>1, <2>6, ThreadSafe
  <2>7. CASE \E s \in Slots : Pack(s) BY <2>1, <2>7, PackSafe
  <2> QED BY <2>1, <2>2, <2>3, <2>4, <2>5, <2>6, <2>7 DEF GpuStep
<1>7. CASE GpuFrameEnds BY <1>7, RenderSafe
<1>8. CASE \E n \in Nodes : UploadTile(n) BY <1>8, UploadSafe
<1>9. CASE UNCHANGED vars
  <2>1. /\ UNCHANGED <<atlas, nodeTable, content, view, table, backend>>
        /\ UNCHANGED <<phase, wave, queue, counts, todo, pushing, selected>>
        /\ UNCHANGED <<drawArgs, packList, drawCount>>
        /\ UNCHANGED <<dirty, vbo, stack, cut, lastCut, since>>
    BY <1>9 DEF vars, tileVars, gpuVars, gpuQueues, glVars, history
  <2>2. Types' /\ Tiles' /\ Clean' /\ RecentLast'
    BY <2>1 DEF IInv, Types, Tiles, Loaded, Clean, RecentLast, Recent
  <2>3. /\ Seen' = Seen /\ CpuSeen' = CpuSeen /\ Loaded(atlas)' = Loaded(atlas)
        /\ Offered(view.visible)' = Offered(view.visible) /\ Offered(CpuSeen)' = Offered(CpuSeen)
    BY <2>1 DEF Seen, CpuSeen, Loaded, Offered, Reached
  <2>4. Input' = Input /\ Output' = Output /\ Done' = Done /\ Left' = Left /\ Sent' = Sent
    BY <2>1 DEF Input, InputOf, Output, Done, Left, Sent
  <2>5. Kids' = Kids BY <2>1, <2>4 DEF Kids
  <2>6. phase' = "waves" => InWave'
    BY <2>1, <2>3, <2>4, <2>5 DEF IInv, InWave
  <2>7. phase' = "pack" => InPack' BY <2>1, <2>3 DEF IInv, InPack, SlotsOf
  <2>8. phase' = "cut" => InCut'
    <3>1. ReplacementCut(table, view, Loaded(atlas))' = ReplacementCut(table, view, Loaded(atlas))
      BY <2>1, <2>3 DEF ReplacementCut, Reached, Takes, Loaded
    <3> QED BY <2>1, <2>3, <3>1 DEF IInv, InCut
  <2> QED BY <2>2, <2>6, <2>7, <2>8 DEF IInv
<1> QED BY <1>1, <1>2, <1>3, <1>4, <1>5, <1>6, <1>7, <1>8, <1>9 DEF Next

(* Between and during the frames of both scenes, the tiles, the queues and *)
(* the order of use of the tiles are as the parts of the invariant say.    *)
THEOREM InvariantHolds == Spec => []IInv
<1>1. Init => IInv BY InitSafe
<1>2. IInv /\ [Next]_vars => IInv' BY NextSafe
<1> QED BY <1>1, <1>2, PTL DEF Spec

-----------------------------------------------------------------------------
(* The properties                                                          *)

(* A WebGPU frame draws, each once, the slots of the loaded nodes of the   *)
(* additive cut, whatever the order in which the threads of a wave push    *)
(* their children and those of the compaction pack their draws.            *)
THEOREM GpuFrameDrawsTheCut == Spec => GpuDrawsCut
<1> DEFINE A == GpuFrameEnds =>
              LET seen == {n \in AdditiveCut(table, view, Loaded(atlas)) : Depth[n] < Waves}
              IN Len(drawn') = Cardinality(SlotsOf(seen)) /\ Range(drawn') = SlotsOf(seen)
<1>1. IInv /\ [Next]_vars => A BY RenderDraws
<1> HIDE DEF A
<1>2. IInv /\ [Next]_vars => [A]_vars BY <1>1
<1>3. Spec => [][A]_vars BY <1>2, InvariantHolds, PTL DEF Spec
<1> QED BY <1>3, PTL DEF GpuDrawsCut, A

(* A WebGL frame draws each loaded node of the replacement cut once, from  *)
(* VBOs that have the points last uploaded to its slot.                    *)
THEOREM GLFrameDrawsTheCut == Spec => GLDrawsCut
<1> DEFINE A == GLFrameEnds =>
              LET seen == ReplacementCut(table, view, Loaded(atlas))
              IN /\ Len(drawn') = Cardinality(seen) /\ Range(drawn') = SlotsOf(seen)
                 /\ \A s \in SlotsOf(seen) : vbo[s] = content[s]
<1>1. IInv /\ [Next]_vars => A BY FrameDraws
<1> HIDE DEF A
<1>2. IInv /\ [Next]_vars => [A]_vars BY <1>1
<1>3. Spec => [][A]_vars BY <1>2, InvariantHolds, PTL DEF Spec
<1> QED BY <1>3 DEF GLDrawsCut, A

(* A step that is not an upload evicts nothing.                            *)
LEMMA OnlyUploadsEvict ==
  ASSUME IInv, [Next]_vars, ~\E n \in Nodes : UploadTile(n)
  PROVE  Loaded(atlas)' = Loaded(atlas)
<1>1. CASE atlas' = atlas BY <1>1 DEF Loaded
<1>2. CASE GLVisit
  <2> DEFINE n == stack[Len(stack)]
  <2>1. phase = "cut" /\ (atlas' = atlas \/ (n \in Loaded(atlas) /\ atlas' = Touched(atlas, n)))
    BY <1>2 DEF GLVisit
  <2>2. AtlasOf(atlas) BY PhaseIs DEF Tiles
  <2> HIDE DEF n
  <2>3. CASE n \in Loaded(atlas) /\ atlas' = Touched(atlas, n)
    <3>1. Loaded(Touched(atlas, n)) = Loaded(atlas) BY <2>2, <2>3, TouchedIs
    <3> QED BY <2>3, <3>1 DEF Loaded
  <2> QED BY <1>1, <2>1, <2>3
<1>3. CASE GpuMoves \/ GpuFrameEnds
  <2>1. atlas' = atlas BY <1>3 DEF GpuMoves, GpuFrameEnds, tileVars
  <2> QED BY <1>1, <2>1
<1>4. CASE DepthChanged \/ MoveCamera \/ GLFrameStarts \/ GLFrameEnds
  <2>1. atlas' = atlas
    BY <1>4 DEF DepthChanged, MoveCamera, GLFrameStarts, GLFrameEnds, tileVars
  <2> QED BY <1>1, <2>1
<1>5. CASE UNCHANGED vars
  <2>1. atlas' = atlas BY <1>5 DEF vars, tileVars
  <2> QED BY <1>1, <2>1
<1> QED BY <1>2, <1>3, <1>4, <1>5 DEF Next

(* The WebGL scene evicts a tile that the last frame drew only if every    *)
(* other tile of its tier that could go was drawn too, or uploaded since.  *)
THEOREM TheUnseenGoFirst == Spec => EvictsUnseen
<1> DEFINE A == backend = "webgl" =>
              \A n \in Loaded(atlas) \ Loaded(atlas)' : n \in lastCut =>
                Elements(atlas.lru[TierFor[n]]) \ NotInTable \subseteq lastCut \cup since
<1>1. ASSUME IInv, [Next]_vars PROVE A
  <2>1. CASE \E n \in Nodes : UploadTile(n) BY <1>1, <2>1, UploadEvicts
  <2>2. CASE ~\E n \in Nodes : UploadTile(n)
    <3>1. Loaded(atlas)' = Loaded(atlas) BY <1>1, <2>2, OnlyUploadsEvict
    <3> QED BY <3>1
  <2> QED BY <2>1, <2>2
<1> HIDE DEF A
<1>2. IInv /\ [Next]_vars => [A]_vars BY <1>1
<1>3. Spec => [][A]_vars BY <1>2, InvariantHolds, PTL DEF Spec
<1> QED BY <1>3 DEF EvictsUnseen, A
=============================================================================
