--------------------------- MODULE CopcComponent ---------------------------
(***************************************************************************)
(* The lifecycle of <CopcPointCloud> (src/components/CopcPointCloud.tsx):  *)
(* the effect that opens a file for the present props, the canvas that is  *)
(* mounted once the index is there, the scheduler that fetches the tiles   *)
(* in view on animation frames, and their upload to the tile atlas.        *)
(*                                                                         *)
(* Source g is the one that run g of the effect creates.  Its creation and *)
(* its fetches are answered at any later time, whatever the component has  *)
(* done since.  Keys of tiles ("0-0-0-0") are the same in every file, the  *)
(* numbers that the node table and the atlas know them by are not.         *)
(***************************************************************************)
EXTENDS TileAtlas

CONSTANTS
  MaxConcurrent, \* fetches in flight, adapted or not
  Files,
  Keys,       \* voxelKeyString of the nodes of all files
  NodesOf,    \* [Files -> SUBSET Keys], the keys in the index of a file
  IdOf,       \* [Files -> functions from keys to Nodes], keyToId of its table
  TierFor,    \* _pickTier of each tile's point count
  Hollow,     \* keys of nodes without points
  Root,
  Views,      \* what selectVisibleTiles may return, one set for each camera
  \* Bounds of the model:
  MaxSources, \* runs of the load effect
  MaxMoves    \* moves of the camera

ASSUME ComponentConstants ==
  /\ MaxConcurrent \in Nat \ {0}
  /\ NodesOf \in [Files -> SUBSET Keys] /\ Hollow \subseteq Keys /\ Root \in Keys
  /\ TierFor \in [Keys -> Tiers \cup {NoTier}]
  /\ DOMAIN IdOf = Files
  /\ \A f \in Files : /\ DOMAIN IdOf[f] \subseteq NodesOf[f] \ Hollow
                       /\ IdOf[f] \in [DOMAIN IdOf[f] -> Nodes]
                       /\ \A j, k \in DOMAIN IdOf[f] : IdOf[f][j] = IdOf[f][k] => j = k
  /\ Views \subseteq SUBSET Keys /\ MaxSources \in Nat \ {0} /\ MaxMoves \in Nat

VARIABLES
  sources,    \* the sources so far: [file, status]
  source,     \* sourceRef: a source, or None
  mounted,    \* mountedRef
  shown,      \* the source whose index is the `index` state, or None
  canvas,     \* the scene: "none", "starting" (no GPU device yet) or "ready"
  ticking,    \* a tick of the scheduler is requested
  view, moves,
  fetching, fetched,
  calls,      \* fetches under way: [source, node]
  from,       \* the source whose tile a slot of the atlas has
  tileCount,
  superseded  \* history: a source was taken although a newer one was asked for

lifeVars == <<sources, source, mounted, shown, canvas, ticking, superseded>>
tileVars == <<atlas, nodeTable, content, from>>
fetchVars == <<fetching, fetched, calls, tileCount>>
vars == <<lifeVars, tileVars, fetchVars, view, moves>>

None == 0
Ids == DOMAIN sources
Indexed(g) == NodesOf[sources[g].file]
KeyToId(g) == IdOf[sources[g].file]
Rows(g) == {KeyToId(g)[k] : k \in DOMAIN KeyToId(g)}
WithStatus(g, s) == [sources EXCEPT ![g].status = s]

-----------------------------------------------------------------------------
(* The load effect.  An operator named Bug... is not part of the model: it *)
(* is the next one with a mistake, which a property must notice.           *)

NewAtlas == EmptyAtlas /\ from' = [s \in Slots |-> None]

BugLeftAlive == sources

(* sourceRef.current?.destroy() *)
Destroyed == IF source = None THEN sources ELSE WithStatus(source, "destroyed")

ClearFetches == fetching' = {} /\ fetched' = {} /\ tileCount' = 0 /\ UNCHANGED calls

(* The cleanup of one run and the next run, for the new props: the canvas  *)
(* goes with the index.                                                    *)
LoadEffect == \E f \in Files :
  /\ Len(sources) < MaxSources
  /\ mounted
  /\ sources' = Append(Destroyed, [file |-> f, status |-> "creating"])
  /\ source' = None /\ shown' = None
  /\ canvas' = "none" /\ ticking' = FALSE
  /\ NewAtlas /\ ClearFetches
  /\ UNCHANGED <<mounted, view, moves, superseded>>

Unmount ==
  /\ mounted
  /\ mounted' = FALSE
  /\ sources' = Destroyed
  /\ source' = None /\ shown' = None
  /\ canvas' = "none" /\ ticking' = FALSE
  /\ NewAtlas
  /\ UNCHANGED <<fetchVars, view, moves, superseded>>

(* uploadNodeTable: a row of the new table keeps the slot of the node that *)
(* had its number in the table before, and rows beyond it stay.            *)
Reindexed(g) ==
  nodeTable' = [n \in Nodes |-> IF n \in Rows(g) THEN atlas.nodeToSlot[n] ELSE nodeTable[n]]

(* CopcSource.create() resolves: mountedRef says only that some run of the *)
(* effect is current.  The first index mounts the canvas, whose scene      *)
(* starts the scheduler.                                                   *)
SourceCreated(g) ==
  /\ g \in Ids /\ sources[g].status = "creating" /\ mounted
  /\ sources' = WithStatus(g, "live")
  /\ source' = g /\ shown' = g
  /\ superseded' = (superseded \/ g # Len(sources))
  /\ canvas' = IF canvas = "none" THEN "starting" ELSE canvas
  /\ ticking' = TRUE
  /\ IF canvas = "ready" THEN Reindexed(g) ELSE UNCHANGED nodeTable
  /\ UNCHANGED <<mounted, atlas, content, from, fetchVars, view, moves>>

(* It fails, or finds the component unmounted and destroys its source.     *)
SourceLost(g) ==
  /\ g \in Ids /\ sources[g].status = "creating"
  /\ sources' = WithStatus(g, "destroyed")
  /\ UNCHANGED <<source, mounted, shown, canvas, ticking, superseded,
                 tileVars, fetchVars, view, moves>>

(* A frame of the scene finds the device: lazy initialisation uploads the  *)
(* table of the index that is there.                                       *)
DeviceReady ==
  /\ canvas = "starting"
  /\ canvas' = "ready"
  /\ Reindexed(shown)
  /\ UNCHANGED <<sources, source, mounted, shown, ticking, superseded,
                 atlas, content, from, fetchVars, view, moves>>

MoveCamera == \E v \in Views \ {view} :
  /\ canvas = "ready" /\ moves < MaxMoves
  /\ moves' = moves + 1
  /\ view' = v
  /\ UNCHANGED <<lifeVars, tileVars, fetchVars>>

-----------------------------------------------------------------------------
(* The scheduler *)

Wanted == (view \cap Indexed(source)) \ (fetched \cup fetching)
SlotsAvailable == MaxConcurrent - Cardinality(fetching)

(* One tick: candidates in some order, as many as slots are available.     *)
(* Nodes without points that are met are done with.                        *)
ScheduleTick ==
  /\ ticking /\ source # None
  /\ \E start \in SUBSET (Wanted \ Hollow), skip \in SUBSET (Wanted \cap Hollow) :
       /\ start \cup skip # {}
       /\ Cardinality(start) <= SlotsAvailable
       /\ Cardinality(start) < SlotsAvailable => start \cup skip = Wanted
       /\ fetching' = fetching \cup start
       /\ fetched' = fetched \cup skip
       /\ calls' = calls \cup {[source |-> source, node |-> n] : n \in start}
  /\ UNCHANGED <<lifeVars, tileVars, tileCount, view, moves>>

(* The fetch of a tile settles.  The sets it changes are those of the      *)
(* component, and the scene it uploads to is the one there now.            *)
Settled(c) == /\ c \in calls
              /\ calls' = calls \ {c}
              /\ fetching' = fetching \ {c.node}

BugSlotNotReturned(c) ==
  /\ c \in calls
  /\ calls' = calls \ {c}
  /\ fetched' = fetched \cup {c.node}
  /\ UNCHANGED <<lifeVars, tileVars, fetching, tileCount, view, moves>>

(* With null, an error or the abort of its 30 second timer.                *)
FetchGivenUp(c) ==
  /\ Settled(c)
  /\ fetched' = fetched \cup {c.node}
  /\ UNCHANGED <<lifeVars, tileVars, tileCount, view, moves>>

BugTileOfAnyone(c) == TRUE
Delivers(c) == sources[c.source].status = "live"

(* skipEviction: a tile that is fetched, or whose number is not in the     *)
(* table, keeps its slot.                                                  *)
Kept(inFlight) == Nodes \ {KeyToId(shown)[k] : k \in DOMAIN KeyToId(shown) \ inFlight}

(* uploadTile succeeds: the scene has a device and knows the node.         *)
Accepted(k, inFlight) ==
  canvas = "ready" /\ shown # None /\ k \in DOMAIN KeyToId(shown) /\ HasRoom(TierFor[k], Kept(inFlight))

(* With a tile, which a destroyed source does not give.                    *)
TileUploaded(c) ==
  /\ Settled(c) /\ Delivers(c)
  /\ Accepted(c.node, fetching')
  /\ Upload(KeyToId(shown)[c.node], TierFor[c.node], Kept(fetching'))
  /\ from' = [from EXCEPT ![SlotFor(TierFor[c.node], Kept(fetching'))] = c.source]
  /\ fetched' = fetched \cup {c.node}
  /\ tileCount' = tileCount + 1
  /\ UNCHANGED <<lifeVars, view, moves>>

(* With a tile that is refused: it will be fetched again.                  *)
TileRefused(c) ==
  /\ Settled(c) /\ Delivers(c)
  /\ ~Accepted(c.node, fetching')
  /\ UNCHANGED <<lifeVars, tileVars, fetched, tileCount, view, moves>>

CallSettles(c) == FetchGivenUp(c) \/ TileUploaded(c) \/ TileRefused(c)
Call == [source : 1..MaxSources, node : Keys]

Init ==
  /\ atlas = Empty /\ nodeTable = [n \in Nodes |-> NoSlot] /\ content = [s \in Slots |-> NoNode]
  /\ fetching = {} /\ fetched = {}
  /\ \E f \in Files : sources = <<[file |-> f, status |-> "creating"]>>
  /\ source = None /\ mounted = TRUE /\ shown = None
  /\ canvas = "none" /\ ticking = FALSE
  /\ view = {Root} /\ moves = 0
  /\ calls = {} /\ from = [s \in Slots |-> None] /\ tileCount = 0
  /\ superseded = FALSE

Next ==
  \/ LoadEffect \/ Unmount \/ DeviceReady \/ MoveCamera \/ ScheduleTick
  \/ \E g \in 1..MaxSources : SourceCreated(g) \/ SourceLost(g)
  \/ \E c \in Call : FetchGivenUp(c) \/ TileUploaded(c) \/ TileRefused(c)

Spec == Init /\ [][Next]_vars

Answering(c) == c \in calls /\ Delivers(c)

(* Frames come, and the timer or the network settles a fetch.  A source    *)
(* that was destroyed may leave its decoding calls unsettled for ever.     *)
FairSpec ==
  /\ Spec
  /\ WF_vars(ScheduleTick) /\ WF_vars(DeviceReady)
  /\ \A c \in Call : WF_vars(Answering(c) /\ CallSettles(c))

-----------------------------------------------------------------------------
(* Properties *)

(* The node table of a scene that draws agrees with the atlas on every     *)
(* node of the index shown, even after an index replaced another.          *)
TableFollowsAtlas == canvas = "ready" =>
  \A n \in Rows(shown) : nodeTable[n] = atlas.nodeToSlot[n]

(* What the atlas holds came from the file that is shown, across changes   *)
(* of file with fetches under way, unless a superseded source was taken.   *)
TilesOfShownFile == ~superseded =>
  \A s \in Slots : from[s] # None => from[s] = shown

(* The component holds every source that lives: a replaced one was         *)
(* destroyed with its workers, unless a superseded source took its place.  *)
NoSourceLeaks == ~superseded =>
  \A g \in Ids : sources[g].status = "live" => g = source

(* A tile in view that fits a tier and is in the node table is done with,  *)
(* loaded or given up, as long as the file and the view stay: slots of     *)
(* fetches that ended are given back.  Tiles that are refused for ever are *)
(* fetched for ever: there must be fewer of them than fetches.  And the    *)
(* tiles of a file that a superseded one followed may hold slots for ever: *)
(* a number that is not in its table is never evicted.                     *)
Fits(k, g) == k \in DOMAIN KeyToId(g) /\ TierFor[k] # NoTier
Refused(v, g) == {k \in v \cap Indexed(g) : k \notin Hollow /\ ~Fits(k, g)}

EveryTileSettles == \A n \in Keys, g \in 1..MaxSources :
  source = g /\ ~superseded /\ n \in view \cap Indexed(g) /\ n \notin Refused(view, g)
  ~> n \in fetched \/ source # g \/ n \notin view \/ Cardinality(Refused(view, g)) >= MaxConcurrent

(* A key is marked as done with only on the word of the source asked for  *)
(* last: what is not to be tried again was tried.                          *)
MarksAreTried ==
  [][\A c \in Call : FetchGivenUp(c) /\ mounted => c.source = Len(sources)]_vars
=============================================================================
