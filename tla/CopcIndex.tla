----------------------------- MODULE CopcIndex -----------------------------
(***************************************************************************)
(* fetchCopcIndex (src/copc/copc-reader.ts): the header and the VLRs of a  *)
(* COPC file, and its octree, an entry for each node, in pages that refer  *)
(* to further pages.  The file is read by range requests; when the server  *)
(* refuses those, or the file is a blob, it is read as a whole and its     *)
(* pages are cut from the buffer.                                          *)
(*                                                                         *)
(* A file is [las, vlrs, rootInHead, root, pages]: whether the signature   *)
(* is there, its VLRs [copc, cells], whether the root page ends within the *)
(* first request, the page number and length of the root page, and the     *)
(* pages.  An entry is [key, at, size, points]; one with Subtree for its   *)
(* points is a stub, for `size' entries of page `at'.  Keys are <<depth,   *)
(* x>>: the octree is modelled along one of its axes, down to a level      *)
(* `Finest'.                                                               *)
(***************************************************************************)
EXTENDS Listings, TLC
LOCAL INSTANCE FiniteSetsExt

CONSTANTS
  Files,
  Servers,    \* among Kinds
  HeadCells,  \* what the first request asks for
  InfoCells,  \* length of the copc-info record
  MaxSlot,    \* points of the largest atlas slot
  MaxPages,   \* MAX_HIERARCHY_PAGES
  \* Bounds of the model:
  Finest      \* the deepest level a key names

(* What serves the file: an object URL, a server that honours ranges, one  *)
(* that refuses them, and one that answers with the whole file.            *)
Kinds == {"blob", "ranges", "refuses", "ignores"}

ASSUME IndexConstants ==
  /\ Servers \subseteq Kinds
  /\ {HeadCells, InfoCells, MaxSlot, MaxPages, Finest} \subseteq Nat

Key == (0..Finest) \X Nat
Entry == [key : Key, at : Nat, size : Int, points : Int]

(* The root page is in the file; the pages that stubs name need not be.    *)
ASSUME FilesAssumption ==
  \A f \in Files : /\ f.pages \in Seq(Seq(Entry))
                   /\ f.root.at \in DOMAIN f.pages
                   /\ f.root.size \in 0..Len(f.pages[f.root.at])

VARIABLES
  file, server,
  phase,      \* the request under way, "expanding", "ready" or "failed"
  whole,      \* fullFileBuffer is there
  nodes,      \* [key -> entry]
  queue,      \* stubs to follow
  seen,       \* pages followed
  rounds,     \* iterations
  asked       \* history: the pages asked from the server

indexVars == <<file, server, phase, whole, nodes, queue, seen, rounds, asked>>

Subtree == -1
IsStub(e) == e.points = Subtree

-----------------------------------------------------------------------------
(* scanVlrs and findCopcInfoVlr.  The public header is one cell, and so is *)
(* the header of a VLR.                                                    *)

DataAt(f, i) == 1 + i + MapThenSumSet(LAMBDA j : f.vlrs[j].cells, 1 .. i - 1)
FileCells(f) == DataAt(f, Len(f.vlrs) + 1)

(* The first copc VLR whose header is in the buffer, if it is all there    *)
InfoFound(f, buffer) ==
  LET hits == {i \in DOMAIN f.vlrs : f.vlrs[i].copc /\ DataAt(f, i) <= buffer}
  IN /\ hits # {}
     /\ f.vlrs[Min(hits)].cells >= InfoCells /\ DataAt(f, Min(hits)) + InfoCells <= buffer

(* parseCopcLasHeader throws on another signature.                         *)
Readable(f, buffer) == f.las /\ InfoFound(f, buffer)

-----------------------------------------------------------------------------
(* The hierarchy *)

(* The entries of a page, as far as the stub says and the page goes.  A    *)
(* file read for a page gives entries that mean nothing.                   *)
Junk == [key |-> <<Finest, 0>>, at |-> 0, size |-> 1, points |-> 1]
PageOf(s) ==
  LET page == file.pages[s.at]
  IN SubSeq(page, 1, IF s.size < Len(page) THEN s.size ELSE Len(page))
Answer(s) == IF server = "ignores" THEN <<Junk>> ELSE PageOf(s)

(* parseCopcHierarchy: of the entries of a key, the map keeps the last.    *)
Kept(entries) == {i \in DOMAIN entries :
  \A j \in DOMAIN entries : entries[j].key = entries[i].key => j <= i}
EntryOf(k, entries) == entries[CHOOSE i \in Kept(entries) : entries[i].key = k]
KeysOf(entries) == {entries[i].key : i \in DOMAIN entries}

(* The stubs among them, in the order in which the map met their keys      *)
StubsAt(entries) == {i \in DOMAIN entries :
  /\ \A j \in DOMAIN entries : entries[j].key = entries[i].key => i <= j
  /\ IsStub(EntryOf(entries[i].key, entries))}
Stubs(entries) ==
  LET at == StubsAt(entries)
  IN [n \in 1..Cardinality(at) |-> EntryOf(entries[Nth(at, n)].key, entries)]

BugFirstKept(old, entries) ==
  [k \in KeysOf(entries) \cup DOMAIN old |->
     IF k \in DOMAIN old THEN old[k] ELSE EntryOf(k, entries)]
Merged(old, entries) ==
  [k \in KeysOf(entries) \cup DOMAIN old |->
     IF k \in KeysOf(entries) THEN EntryOf(k, entries) ELSE old[k]]

(* The buffer holds the public header, and the VLRs and perhaps the root   *)
(* page: its entries, or a second request for them.                        *)
ParseIndex(buffer, all) ==
  IF ~Readable(file, buffer) THEN phase' = "failed" /\ UNCHANGED <<nodes, queue>>
  ELSE IF all \/ file.rootInHead
  THEN /\ phase' = "expanding"
       /\ nodes' = Merged(<<>>, PageOf(file.root)) /\ queue' = Stubs(PageOf(file.root))
  ELSE phase' = "root" /\ UNCHANGED <<nodes, queue>>

(* The first request, or the only one for a blob, is answered.             *)
HeadAnswered ==
  /\ phase = "head"
  /\ whole' = (server = "blob")
  /\ IF server = "refuses" THEN phase' = "full" /\ UNCHANGED <<nodes, queue>>
     ELSE IF server = "ranges" THEN ParseIndex(HeadCells, FALSE)
     ELSE ParseIndex(FileCells(file), TRUE)
  /\ UNCHANGED <<file, server, seen, rounds, asked>>

(* Ranges were refused: the whole file.                                    *)
FullAnswered ==
  /\ phase = "full"
  /\ whole' = TRUE
  /\ ParseIndex(FileCells(file), TRUE)
  /\ UNCHANGED <<file, server, seen, rounds, asked>>

RootAnswered ==
  /\ phase = "root"
  /\ phase' = "expanding"
  /\ nodes' = Merged(<<>>, PageOf(file.root)) /\ queue' = Stubs(PageOf(file.root))
  /\ UNCHANGED <<file, server, whole, seen, rounds, asked>>

RequestFails ==
  /\ phase \in {"head", "full", "root", "page"}
  /\ phase' = "failed"
  /\ UNCHANGED <<file, server, whole, nodes, queue, seen, rounds, asked>>

(* One round of expandCopcHierarchyPages: a stub is dropped when it is     *)
(* empty or its page was followed, else its page is read.                  *)
Page(s) == <<s.at, s.size>>
BugAnyStub(s) == s.size > 0
Fresh(s) == s.size > 0 /\ Page(s) \notin seen
InFile(s) == s.at \in DOMAIN file.pages

Expand ==
  /\ phase = "expanding" /\ queue # <<>> /\ rounds < MaxPages
  /\ rounds' = rounds + 1
  /\ LET s == Head(queue)
     IN IF ~Fresh(s)
        THEN queue' = Tail(queue) /\ UNCHANGED <<phase, nodes, seen, asked>>
        ELSE /\ seen' = seen \cup {Page(s)}
             /\ IF whole /\ InFile(s)
                THEN /\ nodes' = Merged(nodes, PageOf(s))
                     /\ queue' = Tail(queue) \o Stubs(PageOf(s))
                     /\ UNCHANGED <<phase, asked>>
                ELSE phase' = "page" /\ asked' = Append(asked, Page(s)) /\ UNCHANGED <<nodes, queue>>
  /\ UNCHANGED <<file, server, whole>>

(* The page that was asked for arrives, unless it lies outside the file.   *)
PageAnswered ==
  /\ phase = "page" /\ InFile(Head(queue))
  /\ LET entries == Answer(Head(queue))
     IN nodes' = Merged(nodes, entries) /\ queue' = Tail(queue) \o Stubs(entries)
  /\ phase' = "expanding"
  /\ UNCHANGED <<file, server, whole, seen, rounds, asked>>

(* No stub is left, or too many pages were read: what is there is the      *)
(* index of the source.                                                    *)
Expanded ==
  /\ phase = "expanding" /\ (queue = <<>> \/ rounds >= MaxPages)
  /\ phase' = "ready"
  /\ UNCHANGED <<file, server, whole, nodes, queue, seen, rounds, asked>>

IndexInit ==
  /\ file \in Files /\ server \in Servers
  /\ phase = "head" /\ whole = FALSE
  /\ nodes = <<>> /\ queue = <<>> /\ seen = {} /\ rounds = 0 /\ asked = <<>>

Answered == HeadAnswered \/ FullAnswered \/ RootAnswered \/ PageAnswered
IndexNext == Answered \/ RequestFails \/ Expand \/ Expanded

-----------------------------------------------------------------------------
(* buildCopcFileStaticMeta (src/copc/copc-file-static-meta.ts)             *)

Children(k) == {<<k[1] + 1, 2 * k[2] + c>> : c \in {0, 1}}
Childless(ns) == {k \in DOMAIN ns : Children(k) \cap DOMAIN ns = {}}

Deepest(keys) == Max({0} \cup {k[1] : k \in keys})

(* Entries of different nodes differ in their keys.                        *)
PointsIn(entries) == MapThenSumSet(LAMBDA e : e.points, entries)

(* computeHierarchyCompleteness *)
Completeness(ns) ==
  [total |-> Cardinality(DOMAIN ns),
   withChildren |-> Cardinality(DOMAIN ns \ Childless(ns)),
   oversizeChildless |-> Cardinality({k \in Childless(ns) : ns[k].points > MaxSlot}),
   maxDepthFound |-> Deepest(DOMAIN ns)]

(* Stubs that were not followed count for nothing.                         *)
Counted(ns) == {k \in DOMAIN ns : ns[k].points >= 0}
Declared(ns) == PointsIn({ns[k] : k \in Counted(ns)})

StaticMeta(ns) == [declared |-> Declared(ns), completeness |-> Completeness(ns)]

-----------------------------------------------------------------------------
(* Properties *)

Places(f) == UNION {{<<p, i>> : i \in DOMAIN f.pages[p]} : p \in DOMAIN f.pages}
At(f, a) == f.pages[a[1]][a[2]]
StubPlaces(f) == {a \in Places(f) : IsStub(At(f, a))}
RealPlaces(f) == Places(f) \ StubPlaces(f)

AllEntries(f) == {At(f, a) : a \in Places(f)}
RealEntries(f) == {At(f, a) : a \in RealPlaces(f)}

(* Some pages with those that their stubs name                             *)
Closed(f, ps) == \A a \in StubPlaces(f) : a[1] \in ps => At(f, a).at \in ps

(* A hierarchy as writers make it: every page but the root has one stub,   *)
(* of its length, whose node is in the page, and is reached from the root; *)
(* and a node is in one page.                                              *)
SoundHierarchy(f) ==
  /\ f.root.size = Len(f.pages[f.root.at])
  /\ \A a \in StubPlaces(f) :
       LET e == At(f, a)
       IN /\ e.at \in DOMAIN f.pages \ {f.root.at} /\ e.size = Len(f.pages[e.at])
          /\ \E b \in RealPlaces(f) : b[1] = e.at /\ At(f, b).key = e.key
          /\ \A b \in StubPlaces(f) : At(f, b).at = e.at => b = a
  /\ \A a, b \in RealPlaces(f) : At(f, a).key = At(f, b).key => a = b
  /\ \A a \in RealPlaces(f) : At(f, a).points \in Nat
  /\ \A ps \in SUBSET DOMAIN f.pages :
       f.root.at \in ps /\ Closed(f, ps) => ps = DOMAIN f.pages

(* The index of a sound file has exactly its nodes, however they are split *)
(* into pages and whether these are read by range or cut from the file,    *)
(* and the metadata count every point and every level once.  (A server     *)
(* that answers a range with the whole file is the exception.)             *)
IndexComplete ==
  phase = "ready" /\ SoundHierarchy(file) /\ server # "ignores" /\ rounds < MaxPages =>
    /\ {nodes[k] : k \in DOMAIN nodes} = RealEntries(file)
    /\ LET meta == StaticMeta(nodes)
       IN /\ meta.declared = PointsIn(RealEntries(file))
          /\ meta.completeness.maxDepthFound = Deepest({e.key : e \in AllEntries(file)})
          /\ meta.completeness.total = Cardinality(RealEntries(file))

(* No range is asked from the server twice, though several stubs may name  *)
(* a page and pages may refer back to each other.                          *)
EachPageOnce == \A i, j \in DOMAIN asked : asked[i] = asked[j] => i = j
=============================================================================
