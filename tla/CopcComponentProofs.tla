------------------------ MODULE CopcComponentProofs ------------------------
(***************************************************************************)
(* The safety of CopcComponent, proved for any files, atlas, camera views  *)
(* and number of sources: no replaced source lives on, no tile of another  *)
(* file is shown, and the node table on the GPU follows the atlas.         *)
(***************************************************************************)
EXTENDS CopcComponent, SequenceTheorems, TLAPS

Status == {"creating", "live", "destroyed"}
SourceRec == [file : Files, status : Status]

(* Types, and what the scene has in common with the component: the index   *)
(* shown is that of the source held, and a canvas is there only with it.   *)
Shape ==
  /\ sources \in Seq(SourceRec)
  /\ source \in Ids \cup {None} /\ shown = source
  /\ canvas \in {"none", "starting", "ready"}
  /\ canvas # "none" => source # None
  /\ superseded \in BOOLEAN
  /\ calls \subseteq [source : Ids, node : Keys]
  /\ DOMAIN from = Slots
  /\ DOMAIN atlas = {"free", "lru", "slotToNode", "nodeToSlot"}
  /\ DOMAIN atlas.nodeToSlot = Nodes

(* The source held lives; unless a superseded one was taken, it is the     *)
(* newest, and those before it are destroyed or being created.             *)
OneSource ==
  /\ source # None => sources[source].status = "live"
  /\ ~superseded => source \in {None, Len(sources)}

IInv == Shape /\ OneSource /\ NoSourceLeaks /\ TilesOfShownFile /\ TableFollowsAtlas

-----------------------------------------------------------------------------
(* How a step may change the sources                                       *)

(* Ids of a sequence of sources are the numbers up to its length.          *)
LEMMA IdsAre == Shape => Ids = 1..Len(sources) /\ Len(sources) \in Nat /\ None \notin Ids
BY DEF Shape, Ids, None

(* The index of a source has keys of the octree, and the rows of its node  *)
(* table are numbers of nodes.                                             *)
LEMMA IndexedInNodes ==
  ASSUME Shape, NEW g \in Ids
  PROVE  /\ Indexed(g) \subseteq Keys
         /\ KeyToId(g) \in [DOMAIN KeyToId(g) -> Nodes]
         /\ Rows(g) \subseteq Nodes
<1>1. sources \in [1..Len(sources) -> SourceRec] /\ Ids = 1..Len(sources)
  BY LenProperties DEF Shape, Ids
<1>2. sources[g] \in SourceRec
  BY <1>1
<1>3. sources[g].file \in Files
  BY <1>2 DEF SourceRec
<1>4. Indexed(g) \subseteq Keys /\ KeyToId(g) \in [DOMAIN KeyToId(g) -> Nodes]
  BY <1>3, ComponentConstants DEF Indexed, KeyToId
<1> QED BY <1>4 DEF Rows

(* A change of status keeps the sources and their files.                   *)
LEMMA StatusChange ==
  ASSUME Shape, NEW g \in Ids, NEW s \in Status
  PROVE  /\ WithStatus(g, s) \in Seq(SourceRec)
         /\ Len(WithStatus(g, s)) = Len(sources)
         /\ DOMAIN WithStatus(g, s) = Ids
         /\ \A h \in Ids : /\ WithStatus(g, s)[h].file = sources[h].file
                           /\ WithStatus(g, s)[h].status = IF h = g THEN s ELSE sources[h].status
<1> DEFINE w == WithStatus(g, s)
<1>0. sources \in [1..Len(sources) -> SourceRec] /\ Ids = 1..Len(sources)
  BY LenProperties DEF Shape, Ids
<1>1. sources[g] \in SourceRec /\ [sources[g] EXCEPT !.status = s] \in SourceRec
  <2>1. sources[g] \in SourceRec
    BY <1>0
  <2> QED BY <2>1 DEF SourceRec
<1>2. w = [sources EXCEPT ![g] = [sources[g] EXCEPT !.status = s]]
  BY DEF WithStatus
<1>3. w \in Seq(SourceRec) /\ Len(w) = Len(sources)
  BY <1>0, <1>1, <1>2, ExceptSeq DEF Shape
<1>4. DOMAIN w = Ids
  BY <1>0, <1>2
<1>5. \A h \in Ids : w[h] = IF h = g THEN [sources[g] EXCEPT !.status = s] ELSE sources[h]
  BY <1>0, <1>2
<1>6. \A h \in Ids : sources[h] \in SourceRec
  BY <1>0
<1> QED BY <1>1, <1>3, <1>4, <1>5, <1>6 DEF SourceRec

(* destroy() of the source held leaves none alive, unless a superseded one *)
(* was taken.                                                              *)
LEMMA DestroyedSources ==
  ASSUME IInv
  PROVE  /\ Destroyed \in Seq(SourceRec)
         /\ Len(Destroyed) = Len(sources)
         /\ DOMAIN Destroyed = Ids
         /\ ~superseded => \A h \in Ids : Destroyed[h].status # "live"
<1>1. CASE source = None
  BY <1>1 DEF IInv, Shape, Destroyed, NoSourceLeaks, Ids, None
<1>2. CASE source # None
  <2>1. source \in Ids /\ "destroyed" \in Status
    BY <1>2 DEF IInv, Shape, Status
  <2>2. Destroyed = WithStatus(source, "destroyed")
    BY <1>2 DEF Destroyed
  <2> QED BY <2>1, <2>2, StatusChange DEF IInv, NoSourceLeaks
<1> QED BY <1>1, <1>2

-----------------------------------------------------------------------------
(* How an upload changes the atlas and the node table                      *)

AtlasFields == {"free", "lru", "slotToNode", "nodeToSlot"}

(* A node that is assigned a slot has it, and the others keep theirs,      *)
(* wherever the order of use puts it.                                      *)
LEMMA AssignedSlot ==
  ASSUME NEW a, DOMAIN a = AtlasFields, DOMAIN a.nodeToSlot = Nodes,
         NEW n \in Nodes, NEW s
  PROVE  LET b == Touched(Assigned(a, n, s), n)
         IN /\ DOMAIN b = AtlasFields /\ DOMAIN b.nodeToSlot = Nodes
            /\ \A m \in Nodes : b.nodeToSlot[m] = IF m = n THEN s ELSE a.nodeToSlot[m]
<1> DEFINE c == Assigned(a, n, s)
           b == Touched(c, n)
<1>1. /\ DOMAIN c = AtlasFields
      /\ c.nodeToSlot = [a.nodeToSlot EXCEPT ![n] = s]
  BY DEF Assigned, AtlasFields
<1>2. DOMAIN b = AtlasFields /\ b.nodeToSlot = c.nodeToSlot
  BY <1>1 DEF Touched, AtlasFields
<1> QED BY <1>1, <1>2

(* A victim loses its slot, and the others keep theirs.                    *)
LEMMA EvictedSlot ==
  ASSUME NEW a, DOMAIN a = AtlasFields, DOMAIN a.nodeToSlot = Nodes, NEW v
  PROVE  LET b == Evicted(a, v)
         IN /\ DOMAIN b = AtlasFields /\ DOMAIN b.nodeToSlot = Nodes
            /\ \A m \in Nodes : b.nodeToSlot[m] = IF m = v THEN NoSlot ELSE a.nodeToSlot[m]
<1> DEFINE s == a.nodeToSlot[v]
           c == [a EXCEPT !.lru[TierOf[s]] = Without(@, v),
                          !.slotToNode[s] = NoNode, !.nodeToSlot[v] = NoSlot]
<1>1. /\ DOMAIN c = AtlasFields
      /\ c.nodeToSlot = [a.nodeToSlot EXCEPT ![v] = NoSlot]
  BY DEF AtlasFields
<1>2. Evicted(a, v) = Pushed(c, s)
  BY DEF Evicted, Dropped
<1>3. /\ DOMAIN Pushed(c, s) = AtlasFields
      /\ Pushed(c, s).nodeToSlot = c.nodeToSlot
  BY <1>1 DEF Pushed, AtlasFields
<1> QED BY <1>1, <1>2, <1>3

(* Where node table and atlas agree, they agree after an upload.           *)
LEMMA UploadLinks ==
  ASSUME Shape, NEW n \in Nodes, NEW t, NEW kept, Upload(n, t, kept)
  PROVE  /\ DOMAIN atlas' = AtlasFields /\ DOMAIN atlas'.nodeToSlot = Nodes
         /\ \A m \in Nodes : nodeTable[m] = atlas.nodeToSlot[m] =>
              nodeTable'[m] = atlas'.nodeToSlot[m]
<1> DEFINE v == Oldest(atlas, t, kept)
<1>1. DOMAIN atlas = AtlasFields /\ DOMAIN atlas.nodeToSlot = Nodes
  BY DEF Shape, AtlasFields
<1>2. CASE HasFreeSlot(atlas, t)
  <2> DEFINE a == Allocated(atlas, t)
             s == TopSlot(atlas, t)
  <2>1. DOMAIN a = AtlasFields /\ a.nodeToSlot = atlas.nodeToSlot
    BY <1>1 DEF Allocated, AtlasFields
  <2>2. atlas' = Touched(Assigned(a, n, s), n) /\ Linked(n, s, {})
    BY <1>2 DEF Upload, Place
  <2>3. \A m \in Nodes : nodeTable'[m] = IF m = n THEN s ELSE nodeTable[m]
    BY <2>2 DEF Linked
  <2> QED BY <1>1, <2>1, <2>2, <2>3, AssignedSlot
<1>3. CASE ~HasFreeSlot(atlas, t)
  <2> DEFINE a == Evicted(atlas, v)
             s == atlas.nodeToSlot[v]
  <2>1. /\ DOMAIN a = AtlasFields /\ DOMAIN a.nodeToSlot = Nodes
        /\ \A m \in Nodes : a.nodeToSlot[m] = IF m = v THEN NoSlot ELSE atlas.nodeToSlot[m]
    BY <1>1, EvictedSlot
  <2>2. atlas' = Touched(Assigned(a, n, s), n) /\ Linked(n, s, {v})
    BY <1>3 DEF Upload, Place
  <2>3. \A m \in Nodes : nodeTable'[m] = IF m = n THEN s ELSE IF m = v THEN NoSlot ELSE nodeTable[m]
    BY <2>2 DEF Linked
  <2> QED BY <2>1, <2>2, <2>3, AssignedSlot
<1> QED BY <1>2, <1>3

-----------------------------------------------------------------------------
(* The invariant is preserved, action by action                            *)

(* What IInv reads stays the same, but for calls that are over.            *)
LEMMA Untouched ==
  ASSUME IInv, UNCHANGED <<sources, source, shown, canvas, superseded, tileVars>>,
         calls' \subseteq [source : Ids, node : Keys]
  PROVE  IInv'
BY DEF IInv, Shape, OneSource, NoSourceLeaks, TilesOfShownFile, TableFollowsAtlas,
       tileVars, Ids, Rows, KeyToId

(* The scene goes, and with it the atlas; the source held was destroyed,   *)
(* and at most one that is being created was added.                        *)
LEMMA SceneGone ==
  ASSUME IInv, NewAtlas, source' = None, shown' = None, canvas' = "none",
         superseded' = superseded,
         sources' \in Seq(SourceRec), Ids \subseteq Ids', calls' = calls,
         ~superseded => \A h \in Ids' : sources'[h].status # "live"
  PROVE  IInv'
<1>1. Shape'
  <2>1. calls' \subseteq [source : Ids', node : Keys]
    BY DEF IInv, Shape
  <2>2. DOMAIN from' = Slots /\ DOMAIN atlas' = AtlasFields /\ DOMAIN atlas'.nodeToSlot = Nodes
    BY DEF NewAtlas, EmptyAtlas, Empty, AtlasFields
  <2> QED BY <2>1, <2>2 DEF IInv, Shape, AtlasFields
<1>2. OneSource' /\ NoSourceLeaks'
  BY DEF OneSource, NoSourceLeaks
<1>3. TilesOfShownFile'
  BY DEF NewAtlas, TilesOfShownFile
<1>4. TableFollowsAtlas'
  BY DEF TableFollowsAtlas
<1> QED BY <1>1, <1>2, <1>3, <1>4 DEF IInv

LEMMA LoadEffectSafe == ASSUME IInv, LoadEffect PROVE IInv'
<1>1. PICK f \in Files : sources' = Append(Destroyed, [file |-> f, status |-> "creating"])
  BY DEF LoadEffect
<1> DEFINE new == [file |-> f, status |-> "creating"]
<1>2. new \in SourceRec /\ new.status # "live"
  BY DEF SourceRec, Status
<1>3. /\ sources' \in Seq(SourceRec) /\ Len(sources') = Len(sources) + 1
      /\ \A h \in 1..Len(sources) : sources'[h] = Destroyed[h]
      /\ sources'[Len(sources) + 1] = new
  BY <1>1, <1>2, DestroyedSources, AppendProperties
<1>4. Ids = 1..Len(sources) /\ Ids' = 1..(Len(sources) + 1) /\ Len(sources) \in Nat
  BY <1>3, IdsAre, LenProperties DEF IInv, Ids
<1>5. ~superseded => \A h \in Ids' : sources'[h].status # "live"
  BY <1>2, <1>3, <1>4, DestroyedSources
<1>6. Ids \subseteq Ids'
  BY <1>4
<1>7. /\ NewAtlas /\ source' = None /\ shown' = None /\ canvas' = "none"
      /\ superseded' = superseded /\ calls' = calls
  BY DEF LoadEffect, ClearFetches
<1> QED BY <1>3, <1>5, <1>6, <1>7, SceneGone

LEMMA UnmountSafe == ASSUME IInv, Unmount PROVE IInv'
<1>1. sources' = Destroyed
  BY DEF Unmount
<1>2. /\ NewAtlas /\ source' = None /\ shown' = None /\ canvas' = "none"
      /\ superseded' = superseded /\ calls' = calls
  BY DEF Unmount, fetchVars
<1>3. Ids' = Ids
  BY <1>1, DestroyedSources DEF Ids
<1> QED BY <1>1, <1>2, <1>3, DestroyedSources, SceneGone

(* The delicate step: the source taken is the one asked for last, or       *)
(* superseded is set.  In the first case none was held, so the atlas has   *)
(* no tile yet.                                                            *)
LEMMA SourceCreatedSafe == ASSUME IInv, NEW g, SourceCreated(g) PROVE IInv'
<1>1. /\ g \in Ids /\ g # None /\ Ids = 1..Len(sources) /\ Len(sources) \in Nat
      /\ sources' = WithStatus(g, "live") /\ source' = g /\ shown' = g
      /\ superseded' = (superseded \/ g # Len(sources))
      /\ UNCHANGED <<atlas, from, calls>>
      /\ canvas' # "none" /\ canvas' \in {"starting", "ready"}
      /\ "live" \in Status /\ superseded \in BOOLEAN
  BY IdsAre DEF SourceCreated, IInv, Shape, fetchVars, Status
<1>2. /\ sources' \in Seq(SourceRec) /\ Len(sources') = Len(sources) /\ Ids' = Ids
      /\ \A h \in Ids : /\ sources'[h].file = sources[h].file
                        /\ sources'[h].status = IF h = g THEN "live" ELSE sources[h].status
  BY <1>1, StatusChange DEF IInv, Ids
<1>3. ~superseded' => ~superseded /\ g = Len(sources) /\ source = None
  BY <1>1 DEF SourceCreated, IInv, OneSource
<1>4. Shape'
  <2>1. superseded' \in BOOLEAN
    BY <1>1
  <2> QED BY <1>1, <1>2, <2>1 DEF IInv, Shape
<1>5. OneSource'
  BY <1>1, <1>2, <1>3 DEF OneSource
<1>6. NoSourceLeaks'
  <2>1. ~superseded' => \A h \in Ids : sources[h].status # "live"
    BY <1>1, <1>3, IdsAre DEF IInv, NoSourceLeaks
  <2> QED BY <1>1, <1>2, <2>1 DEF NoSourceLeaks
<1>7. TilesOfShownFile'
  BY <1>1, <1>3 DEF IInv, Shape, TilesOfShownFile
<1>8. TableFollowsAtlas'
  <2>1. Rows(shown)' = Rows(g) /\ Rows(g) \subseteq Nodes
    BY <1>1, <1>2, IndexedInNodes DEF IInv, Rows, KeyToId
  <2>2. canvas' = "ready" => Reindexed(g)
    BY DEF SourceCreated
  <2> QED BY <1>1, <2>1, <2>2 DEF TableFollowsAtlas, Reindexed
<1> QED BY <1>4, <1>5, <1>6, <1>7, <1>8 DEF IInv

LEMMA SourceLostSafe == ASSUME IInv, NEW g, SourceLost(g) PROVE IInv'
<1>1. /\ g \in Ids /\ g # source /\ sources' = WithStatus(g, "destroyed")
      /\ UNCHANGED <<source, shown, canvas, superseded, tileVars, calls>>
      /\ "destroyed" \in Status
  BY IdsAre DEF SourceLost, IInv, OneSource, fetchVars, Status
<1>2. /\ sources' \in Seq(SourceRec) /\ Len(sources') = Len(sources) /\ Ids' = Ids
      /\ \A h \in Ids : /\ sources'[h].file = sources[h].file
                        /\ sources'[h].status = IF h = g THEN "destroyed" ELSE sources[h].status
  BY <1>1, StatusChange DEF IInv, Ids
<1>3. Shape'
  BY <1>1, <1>2 DEF IInv, Shape, tileVars
<1>4. OneSource' /\ NoSourceLeaks'
  BY <1>1, <1>2 DEF IInv, Shape, OneSource, NoSourceLeaks
<1>5. TilesOfShownFile'
  BY <1>1 DEF IInv, TilesOfShownFile, tileVars
<1>6. TableFollowsAtlas'
  BY <1>1, <1>2 DEF IInv, Shape, TableFollowsAtlas, Rows, KeyToId, tileVars
<1> QED BY <1>3, <1>4, <1>5, <1>6 DEF IInv

LEMMA DeviceReadySafe == ASSUME IInv, DeviceReady PROVE IInv'
<1>1. /\ canvas' = "ready" /\ source # None /\ Reindexed(shown)
      /\ UNCHANGED <<sources, source, shown, superseded, atlas, from, calls>>
  BY DEF DeviceReady, IInv, Shape, fetchVars
<1>2. Shape' /\ OneSource' /\ NoSourceLeaks' /\ TilesOfShownFile'
  BY <1>1 DEF IInv, Shape, OneSource, NoSourceLeaks, TilesOfShownFile, Ids
<1>3. TableFollowsAtlas'
  <2>1. Rows(shown) \subseteq Nodes
    BY <1>1, IndexedInNodes DEF IInv, Shape
  <2> QED BY <1>1, <2>1 DEF TableFollowsAtlas, Reindexed, Rows, KeyToId
<1> QED BY <1>2, <1>3 DEF IInv

LEMMA ScheduleTickSafe == ASSUME IInv, ScheduleTick PROVE IInv'
<1>1. PICK start \in SUBSET (Wanted \ Hollow) :
        calls' = calls \cup {[source |-> source, node |-> n] : n \in start}
  BY DEF ScheduleTick
<1>2. source \in Ids /\ Wanted \subseteq Keys
  <2>1. source \in Ids
    BY DEF ScheduleTick, IInv, Shape
  <2> QED BY <2>1, IndexedInNodes DEF Wanted, IInv
<1>3. calls' \subseteq [source : Ids, node : Keys]
  BY <1>1, <1>2 DEF IInv, Shape
<1> QED BY <1>3, Untouched DEF ScheduleTick, lifeVars

LEMMA TileUploadedSafe == ASSUME IInv, NEW c, TileUploaded(c) PROVE IInv'
<1> DEFINE t == TierFor[c.node]
           kept == Kept(fetching')
           id == KeyToId(shown)[c.node]
           slot == SlotFor(t, kept)
<1>1. /\ c \in [source : Ids, node : Keys] /\ sources[c.source].status = "live"
      /\ UNCHANGED <<sources, source, shown, canvas, superseded>>
      /\ calls' \subseteq calls
      /\ from' = [from EXCEPT ![slot] = c.source]
      /\ Upload(id, t, kept)
      /\ shown # None /\ c.node \in DOMAIN KeyToId(shown)
  BY DEF TileUploaded, Accepted, Settled, Delivers, IInv, Shape, lifeVars
<1>2. c.source \in Ids /\ id \in Nodes
  <2>1. shown \in Ids
    BY <1>1 DEF IInv, Shape
  <2>2. KeyToId(shown) \in [DOMAIN KeyToId(shown) -> Nodes]
    BY <2>1, IndexedInNodes DEF IInv
  <2> QED BY <1>1, <2>2
<1>3. /\ DOMAIN atlas' = AtlasFields /\ DOMAIN atlas'.nodeToSlot = Nodes
      /\ \A m \in Nodes : nodeTable[m] = atlas.nodeToSlot[m] =>
           nodeTable'[m] = atlas'.nodeToSlot[m]
  BY <1>1, <1>2, UploadLinks DEF IInv
<1>4. /\ DOMAIN from' = Slots
      /\ \A s \in Slots : from'[s] \in {from[s], c.source}
  BY <1>1 DEF IInv, Shape
<1>5. Shape'
  BY <1>1, <1>3, <1>4 DEF IInv, Shape, Ids, AtlasFields
<1>6. OneSource' /\ NoSourceLeaks'
  BY <1>1 DEF IInv, OneSource, NoSourceLeaks, Ids
<1>7. TilesOfShownFile'
  <2>1. ~superseded => c.source = shown
    BY <1>1, <1>2 DEF IInv, Shape, NoSourceLeaks
  <2> QED BY <1>1, <1>4, <2>1 DEF IInv, TilesOfShownFile
<1>8. TableFollowsAtlas'
  <2>1. canvas = "ready" => Rows(shown) \subseteq Nodes
    BY IndexedInNodes DEF IInv, Shape
  <2> QED BY <1>1, <1>3, <2>1 DEF IInv, TableFollowsAtlas, Rows, KeyToId
<1> QED BY <1>5, <1>6, <1>7, <1>8 DEF IInv

LEMMA OtherStepsSafe ==
  ASSUME IInv, NEW c,
         MoveCamera \/ FetchGivenUp(c) \/ TileRefused(c) \/ UNCHANGED vars
  PROVE  IInv'
<1>1. UNCHANGED <<sources, source, shown, canvas, superseded, tileVars>> /\ calls' \subseteq calls
  BY DEF MoveCamera, FetchGivenUp, TileRefused, Settled, vars, lifeVars, fetchVars
<1>2. calls' \subseteq [source : Ids, node : Keys]
  BY <1>1 DEF IInv, Shape
<1> QED BY <1>1, <1>2, Untouched

-----------------------------------------------------------------------------
(* The theorems                                                            *)

LEMMA InitSafe == Init => IInv
<1> SUFFICES ASSUME Init PROVE IInv
  OBVIOUS
<1>1. PICK f \in Files : sources = <<[file |-> f, status |-> "creating"]>>
  BY DEF Init
<1>2. [file |-> f, status |-> "creating"] \in SourceRec
  BY DEF SourceRec, Status
<1>3. sources \in Seq(SourceRec) /\ Ids = {1} /\ sources[1].status = "creating"
  BY <1>1, <1>2 DEF Ids
<1>4. Shape
  BY <1>3 DEF Init, Shape, Empty
<1> QED BY <1>3, <1>4 DEF Init, IInv, OneSource, NoSourceLeaks, TilesOfShownFile,
                         TableFollowsAtlas

LEMMA NextSafe == IInv /\ [Next]_vars => IInv'
<1> SUFFICES ASSUME IInv, [Next]_vars PROVE IInv'
  OBVIOUS
<1>1. CASE LoadEffect BY <1>1, LoadEffectSafe
<1>2. CASE Unmount BY <1>2, UnmountSafe
<1>3. CASE DeviceReady BY <1>3, DeviceReadySafe
<1>4. CASE MoveCamera BY <1>4, OtherStepsSafe
<1>5. CASE ScheduleTick BY <1>5, ScheduleTickSafe
<1>6. ASSUME NEW g \in 1..MaxSources, SourceCreated(g) PROVE IInv'
  BY <1>6, SourceCreatedSafe
<1>7. ASSUME NEW g \in 1..MaxSources, SourceLost(g) PROVE IInv'
  BY <1>7, SourceLostSafe
<1>8. ASSUME NEW c \in Call, FetchGivenUp(c) \/ TileRefused(c) PROVE IInv'
  BY <1>8, OtherStepsSafe
<1>9. ASSUME NEW c \in Call, TileUploaded(c) PROVE IInv'
  BY <1>9, TileUploadedSafe
<1>10. CASE UNCHANGED vars BY <1>10, OtherStepsSafe
<1> QED BY <1>1, <1>2, <1>3, <1>4, <1>5, <1>6, <1>7, <1>8, <1>9, <1>10 DEF Next

LEMMA InvariantHolds == Spec => []IInv
<1> QED BY InitSafe, NextSafe, PTL DEF Spec

(* Every source that lives is the one the component holds, and will        *)
(* destroy (sourceRef in CopcPointCloud.tsx), unless a superseded source   *)
(* was taken.                                                              *)
THEOREM NoSourceIsLeaked == Spec => []NoSourceLeaks
<1>1. IInv => NoSourceLeaks
  BY DEF IInv
<1> QED BY <1>1, InvariantHolds, PTL

(* A fetch that completes after the file was changed puts no tile into the *)
(* atlas of the new scene (uploadTile), unless a superseded source was     *)
(* taken.                                                                  *)
THEOREM NoTileOfAnotherFile == Spec => []TilesOfShownFile
<1>1. IInv => TilesOfShownFile
  BY DEF IInv
<1> QED BY <1>1, InvariantHolds, PTL

(* The GPU's node table has for each node of the index the slot that       *)
(* AtlasManager gave it, across uploads, evictions and changes of index    *)
(* (allocSlotForTile, uploadNodeTable).                                    *)
THEOREM TableIsTheAtlas == Spec => []TableFollowsAtlas
<1>1. IInv => TableFollowsAtlas
  BY DEF IInv
<1> QED BY <1>1, InvariantHolds, PTL
=============================================================================
