-------------------------- MODULE CopcIndexProofs --------------------------
(***************************************************************************)
(* What is proved of the index of a COPC file and of what a frame selects  *)
(* from it, for any files, servers, views, limits and bounds:              *)
(*  - the reader asks the server for no hierarchy page twice;              *)
(*  - the index of a sound file has exactly its nodes, and the metadata    *)
(*    count them and their points once;                                    *)
(*  - the search for the tiles of a view misses none that is worth its     *)
(*    points.                                                              *)
(* The second rests on an invariant of the traversal, TreeInv: the nodes   *)
(* are those of the pages read so far, and every stub of these names       *)
(* another of them or still waits.  When none waits, the pages read are    *)
(* closed under the stubs, hence all pages.  The third needs of it that    *)
(* the keys are keys, and the arithmetic of voxels: one that contains      *)
(* another is in view with it, and exceeds three tenths of the threshold   *)
(* where the other exceeds all of it.                                      *)
(***************************************************************************)
EXTENDS TileScheduler, IndexSets

-----------------------------------------------------------------------------
(* No page is asked for twice                                              *)

(* What was asked is a sequence of pages without repetition, each among    *)
(* the pages followed.                                                     *)
AskedOfSeen == \A i \in DOMAIN asked : asked[i] \in seen
IInv ==
  /\ asked \in Seq(seen)
  /\ AskedOfSeen
  /\ EachPageOnce

(* A page that was not followed is asked for: it is the only one new.      *)
LEMMA AskedForFresh ==
  ASSUME IInv, NEW p, p \notin seen,
         seen' = seen \cup {p}, asked' = Append(asked, p)
  PROVE  IInv'
<1>1. asked \in Seq(seen') /\ p \in seen'
  BY SMT DEF IInv
<1>2. asked' \in Seq(seen') /\ Len(asked') = Len(asked) + 1 /\ Len(asked) \in Nat
  BY <1>1
<1>3. /\ DOMAIN asked = 1..Len(asked) /\ DOMAIN asked' = 1..(Len(asked) + 1)
      /\ asked'[Len(asked) + 1] = p
      /\ \A i \in DOMAIN asked : asked'[i] = asked[i]
  BY <1>1, <1>2
<1>4. AskedOfSeen'
  BY <1>2, <1>3 DEF IInv, AskedOfSeen
<1>5. EachPageOnce'
  BY <1>2, <1>3 DEF IInv, AskedOfSeen, EachPageOnce
<1> QED BY <1>2, <1>4, <1>5 DEF IInv

(* Following more pages without a request keeps the invariant.             *)
LEMMA NothingAsked ==
  ASSUME IInv, seen \subseteq seen', UNCHANGED asked
  PROVE  IInv'
<1>1. asked \in Seq(seen')
  BY DEF IInv
<1> QED BY <1>1 DEF IInv, AskedOfSeen, EachPageOnce

(* An iteration asks for the page of a fresh stub, or for nothing.         *)
LEMMA ExpandSafe == ASSUME IInv, Expand PROVE IInv'
<1> DEFINE s == Head(queue)
<1>1. CASE ~Fresh(s)
  BY <1>1, NothingAsked DEF Expand
<1>2. CASE Fresh(s) /\ whole /\ InFile(s)
  BY <1>2, NothingAsked DEF Expand
<1>3. CASE Fresh(s) /\ ~(whole /\ InFile(s))
  <2>1. seen' = seen \cup {Page(s)} /\ asked' = Append(asked, Page(s))
    BY <1>3 DEF Expand
  <2>2. Page(s) \notin seen
    BY <1>3 DEF Fresh
  <2> QED BY <2>1, <2>2, AskedForFresh
<1> QED BY <1>1, <1>2, <1>3

(* Nothing was asked at first.                                             *)
LEMMA InitSafe == Init => IInv
BY DEF Init, IndexInit, IInv, AskedOfSeen, EachPageOnce

(* No step of the index, of the frames or of the fetches breaks it.        *)
LEMMA NextSafe == IInv /\ [Next]_vars => IInv'
<1> SUFFICES ASSUME IInv, [Next]_vars PROVE IInv'
  OBVIOUS
<1>1. CASE Index
  <2>1. CASE Expand BY <2>1, ExpandSafe
  <2>2. CASE Answered \/ RequestFails \/ Expanded
    BY <2>2, NothingAsked DEF Answered, HeadAnswered, FullAnswered, RootAnswered, PageAnswered,
                              RequestFails, Expanded
  <2> QED BY <1>1, <2>1, <2>2 DEF Index, IndexNext
<1>2. ASSUME NEW f \in Frames, Tick(f) PROVE IInv'
  BY <1>2, NothingAsked DEF Tick, indexVars
<1>3. ASSUME NEW k \in fetching, Settles(k) PROVE IInv'
  BY <1>3, NothingAsked DEF Settles, indexVars
<1>4. ASSUME NEW v \in Views, Moves(v) PROVE IInv'
  BY <1>4, NothingAsked DEF Moves, indexVars
<1>5. CASE UNCHANGED vars
  BY <1>5, NothingAsked DEF vars, indexVars
<1> QED BY <1>1, <1>2, <1>3, <1>4, <1>5 DEF Next

(* No range is asked from the server twice (expandCopcHierarchyPages),     *)
(* however stubs and pages refer to each other.                            *)
THEOREM NoPageIsAskedTwice == Spec => []EachPageOnce
<1>1. IInv => EachPageOnce
  BY DEF IInv
<1> QED BY <1>1, InitSafe, NextSafe, PTL DEF Spec

-----------------------------------------------------------------------------
(* The hierarchy of a file                                                 *)

(* Every key of a page has an entry that the map keeps.                    *)
LEMMA LastKept ==
  ASSUME NEW es \in Seq(Entry), NEW k \in KeysOf(es)
  PROVE  \E i \in Kept(es) : es[i].key = k /\ EntryOf(k, es) = es[i]
<1> DEFINE T == {i \in DOMAIN es : es[i].key = k}
<1>1. Len(es) \in Nat /\ DOMAIN es = 1..Len(es) OBVIOUS
<1>2. T \in SUBSET (1..Len(es)) /\ T # {} BY <1>1 DEF KeysOf
<1> HIDE DEF T
<1>3. PICK x \in T : \A y \in T : y <= x BY <1>1, <1>2, GreatestExists
<1>4. x \in Kept(es) /\ es[x].key = k BY <1>3 DEF T, Kept
<1> QED BY <1>4 DEF EntryOf

(* The stubs that a page queues                                            *)
LEMMA StubsRange ==
  ASSUME NEW es \in Seq(Entry)
  PROVE  /\ Stubs(es) \in Seq(Entry)
         /\ Range(Stubs(es)) = {EntryOf(es[i].key, es) : i \in StubsAt(es)}
<1> DEFINE I == StubsAt(es)
           m == Cardinality(I)
           s == Stubs(es)
           E(i) == EntryOf(es[i].key, es)
<1>1. Len(es) \in Nat /\ DOMAIN es = 1..Len(es) /\ \A i \in 1..Len(es) : es[i] \in Entry OBVIOUS
<1>2. I \in SUBSET (1..Len(es)) BY <1>1 DEF StubsAt
<1>3. s = [n \in 1..m |-> E(Nth(I, n))] BY DEF Stubs
<1>11. \A i \in I : E(i) \in Entry
  <2> TAKE i \in I
  <2>1. i \in 1..Len(es) /\ es[i].key \in KeysOf(es) BY <1>1, <1>2 DEF KeysOf
  <2>2. PICK j \in Kept(es) : E(i) = es[j] BY <2>1, LastKept
  <2> QED BY <1>1, <2>2 DEF Kept
<1> HIDE DEF I, s, E
<1>4. IsFiniteSet(1..Len(es)) BY <1>1, FS_Interval
<1>5. IsFiniteSet(I) /\ m \in Nat BY <1>2, <1>4, FS_Subset, FS_CardinalityType
<1>6. \A n \in 1..m : Nth(I, n) \in I BY <1>1, <1>2, NthIs
<1>7. \A i \in I : \E n \in 1..m : Nth(I, n) = i BY <1>1, <1>2, NthNumber
<1>8. s \in Seq(Entry)
  <2>1. s \in [1..m -> Entry] BY <1>3, <1>6, <1>11
  <2> QED BY <1>5, <2>1, SeqDef
<1>9. DOMAIN s = 1..m BY <1>3
<1>10. Range(s) = {E(i) : i \in I} BY <1>3, <1>6, <1>7, <1>9 DEF Range
<1> QED BY <1>8, <1>10 DEF I, s, E

(* What joining the entries of a page to the index does                    *)
LEMMA MergedIs ==
  ASSUME NEW ns, NEW es
  PROVE  /\ DOMAIN Merged(ns, es) = KeysOf(es) \cup DOMAIN ns
         /\ \A k \in KeysOf(es) : Merged(ns, es)[k] = EntryOf(k, es)
         /\ \A k \in DOMAIN ns \ KeysOf(es) : Merged(ns, es)[k] = ns[k]
BY DEF Merged

(* The index `ns' holds the entries of the pages `ps' of a file, each of   *)
(* which but the root is named by a stub of one of them; and where a real  *)
(* entry and a stub share a key, the real entry.                           *)
NodesOf(f, ps, ns) ==
  /\ \A p \in ps \ {f.root.at} : \E a \in StubPlaces(f) : a[1] \in ps /\ At(f, a).at = p
  /\ \A k \in DOMAIN ns : ns[k].key = k /\ \E a \in Places(f) : a[1] \in ps /\ At(f, a) = ns[k]
  /\ \A a \in Places(f) : a[1] \in ps => At(f, a).key \in DOMAIN ns
  /\ \A a \in RealPlaces(f) : a[1] \in ps => ns[At(f, a).key] = At(f, a)

(* The entries `es' are stubs of these pages, and all of them that lead on *)
StubsOf(f, ps, es) ==
  /\ \A e \in es : \E a \in StubPlaces(f) : a[1] \in ps /\ At(f, a) = e
  /\ \A a \in StubPlaces(f) : a[1] \in ps => At(f, a).at \in ps \/ At(f, a) \in es

(* The page p comes next: the root, or named by a stub of a page read.     *)
NextPage(f, ps, p) ==
  /\ ps \subseteq DOMAIN f.pages /\ p \in DOMAIN f.pages \ ps
  /\ p = f.root.at \/ \E a \in StubPlaces(f) : a[1] \in ps /\ At(f, a).at = p

(* The places of the entries of a file                                     *)
LEMMA PlacesOf ==
  ASSUME NEW f \in Files
  PROVE  /\ \A p \in DOMAIN f.pages : f.pages[p] \in Seq(Entry)
         /\ \A a \in Places(f) : /\ a[1] \in DOMAIN f.pages /\ a[2] \in DOMAIN f.pages[a[1]]
                                 /\ a = <<a[1], a[2]>> /\ At(f, a) \in Entry
         /\ \A p \in DOMAIN f.pages : \A i \in DOMAIN f.pages[p] :
              <<p, i>> \in Places(f) /\ At(f, <<p, i>>) = f.pages[p][i]
         /\ StubPlaces(f) \subseteq Places(f) /\ RealPlaces(f) \subseteq Places(f)
<1>1. f.pages \in Seq(Seq(Entry)) BY FilesAssumption
<1>2. \A p \in DOMAIN f.pages : f.pages[p] \in Seq(Entry) BY <1>1
<1>3. \A p \in DOMAIN f.pages : \A i \in DOMAIN f.pages[p] : f.pages[p][i] \in Entry BY <1>2
<1> QED BY <1>2, <1>3 DEF Places, At, StubPlaces, RealPlaces

(* No stub of a page names this page or one read before it.                *)
LEMMA StubsLeadOn ==
  ASSUME NEW f \in Files, SoundHierarchy(f), NEW ps, NEW p, NextPage(f, ps, p),
         \A r \in ps \ {f.root.at} : \E a \in StubPlaces(f) : a[1] \in ps /\ At(f, a).at = r,
         NEW a \in StubPlaces(f), a[1] = p
  PROVE  At(f, a).at \notin ps \cup {p}
<1>1. /\ At(f, a).at \in DOMAIN f.pages \ {f.root.at}
      /\ \A b \in StubPlaces(f) : At(f, b).at = At(f, a).at => b = a
  BY DEF SoundHierarchy
<1>2. p \notin ps BY DEF NextPage
<1>3. At(f, a).at # p
  BY <1>1, <1>2 DEF NextPage
<1>4. At(f, a).at \notin ps
  BY <1>1, <1>2
<1> QED BY <1>3, <1>4

(* The index after another page.  A stub is replaced by the entry of its   *)
(* node, and never the other way round: the page of a stub is read after   *)
(* the page that it is in.                                                 *)
LEMMA PageRead ==
  ASSUME NEW f \in Files, SoundHierarchy(f), NEW ps, NEW p, NextPage(f, ps, p),
         NEW ns, NodesOf(f, ps, ns)
  PROVE  NodesOf(f, ps \cup {p}, Merged(ns, f.pages[p]))
<1> DEFINE es == f.pages[p]
           ms == Merged(ns, es)
<1>1. p \notin ps /\ p \in DOMAIN f.pages /\ es \in Seq(Entry)
  BY PlacesOf DEF NextPage
<1>2. \A r \in ps \ {f.root.at} : \E a \in StubPlaces(f) : a[1] \in ps /\ At(f, a).at = r
  BY DEF NodesOf
<1>3. \A a \in StubPlaces(f) : a[1] = p => At(f, a).at \notin ps \cup {p}
  BY <1>2, StubsLeadOn
<1>4. /\ DOMAIN ms = KeysOf(es) \cup DOMAIN ns
      /\ \A k \in KeysOf(es) : ms[k] = EntryOf(k, es)
      /\ \A k \in DOMAIN ns \ KeysOf(es) : ms[k] = ns[k]
  BY MergedIs
<1>5. \A k \in KeysOf(es) : \E a \in Places(f) :
        a[1] = p /\ At(f, a).key = k /\ ms[k] = At(f, a)
  <2> TAKE k \in KeysOf(es)
  <2>1. PICK i \in Kept(es) : es[i].key = k /\ EntryOf(k, es) = es[i] BY <1>1, LastKept
  <2>2. i \in DOMAIN es BY DEF Kept
  <2>3. <<p, i>> \in Places(f) /\ At(f, <<p, i>>) = es[i] BY <1>1, <2>2, PlacesOf
  <2> QED BY <1>4, <2>1, <2>3
<1>6. \A a \in Places(f) : a[1] = p => At(f, a).key \in KeysOf(es)
  BY PlacesOf DEF KeysOf, At
<1> HIDE DEF es, ms
<1>7. \A r \in (ps \cup {p}) \ {f.root.at} :
        \E a \in StubPlaces(f) : a[1] \in ps \cup {p} /\ At(f, a).at = r
  BY <1>2 DEF NextPage
<1>8. ASSUME NEW k \in DOMAIN ms
      PROVE  ms[k].key = k /\ \E a \in Places(f) : a[1] \in ps \cup {p} /\ At(f, a) = ms[k]
  <2>1. CASE k \in KeysOf(es) BY <1>5, <2>1
  <2>2. CASE k \in DOMAIN ns \ KeysOf(es) BY <1>4, <2>2 DEF NodesOf
  <2> QED BY <1>4, <2>1, <2>2
<1>9. \A a \in Places(f) : a[1] \in ps \cup {p} => At(f, a).key \in DOMAIN ms
  BY <1>4, <1>6 DEF NodesOf
<1>10. ASSUME NEW a \in RealPlaces(f), a[1] \in ps \cup {p} PROVE ms[At(f, a).key] = At(f, a)
  <2> DEFINE k == At(f, a).key
  <2>1. CASE k \notin KeysOf(es)
    <3>1. a[1] \in ps BY <1>6, <1>10, <2>1, PlacesOf
    <3> QED BY <1>4, <2>1, <3>1, PlacesOf DEF NodesOf
  <2>2. CASE k \in KeysOf(es)
    <3>1. PICK b \in Places(f) : b[1] = p /\ At(f, b).key = k /\ ms[k] = At(f, b) BY <1>5, <2>2
    <3>2. CASE b \in RealPlaces(f)
      <4>1. a = b BY <3>1, <3>2 DEF SoundHierarchy
      <4> QED BY <3>1, <4>1
    <3>3. CASE b \in StubPlaces(f)
      <4>1. PICK c \in RealPlaces(f) : c[1] = At(f, b).at /\ At(f, c).key = k
        BY <3>1, <3>3 DEF SoundHierarchy
      <4>2. c = a BY <4>1 DEF SoundHierarchy
      <4> QED BY <1>3, <1>10, <3>1, <3>3, <4>1, <4>2
    <3> QED BY <3>2, <3>3 DEF RealPlaces
  <2> QED BY <2>1, <2>2
<1>11. NodesOf(f, ps \cup {p}, ms)
  BY <1>7, <1>8, <1>9, <1>10 DEF NodesOf
<1> QED BY <1>11 DEF es, ms

(* The queue after another page                                            *)
LEMMA StubsRead ==
  ASSUME NEW f \in Files, SoundHierarchy(f), NEW ps, NEW p, NextPage(f, ps, p),
         NEW ns, NodesOf(f, ps, ns), NEW es,
         \A e \in es : \E a \in StubPlaces(f) : a[1] \in ps /\ At(f, a) = e,
         \A a \in StubPlaces(f) : a[1] \in ps => At(f, a).at \in ps \cup {p} \/ At(f, a) \in es
  PROVE  StubsOf(f, ps \cup {p}, es \cup Range(Stubs(f.pages[p])))
<1> DEFINE g == f.pages[p]
<1>1. p \notin ps /\ p \in DOMAIN f.pages /\ g \in Seq(Entry) /\ DOMAIN g = 1..Len(g)
  BY PlacesOf DEF NextPage
<1>2. \A a \in StubPlaces(f) : a[1] = p => At(f, a).at \notin ps \cup {p}
  BY StubsLeadOn DEF NodesOf
<1>3. Range(Stubs(g)) = {EntryOf(g[i].key, g) : i \in StubsAt(g)}
  BY <1>1, StubsRange
<1>4. ASSUME NEW i \in StubsAt(g)
      PROVE  \E a \in StubPlaces(f) : a[1] = p /\ At(f, a) = EntryOf(g[i].key, g)
  <2>1. i \in DOMAIN g /\ IsStub(EntryOf(g[i].key, g)) BY DEF StubsAt
  <2>2. PICK j \in Kept(g) : EntryOf(g[i].key, g) = g[j] BY <1>1, <2>1, LastKept DEF KeysOf
  <2>3. j \in DOMAIN g BY DEF Kept
  <2>4. <<p, j>> \in Places(f) /\ At(f, <<p, j>>) = g[j] BY <1>1, <2>3, PlacesOf
  <2> QED BY <2>1, <2>2, <2>4 DEF StubPlaces
<1>5. ASSUME NEW a \in StubPlaces(f), a[1] = p PROVE At(f, a) \in Range(Stubs(g))
  <2>1. a \in Places(f) /\ a = <<p, a[2]>> /\ a[2] \in DOMAIN g /\ At(f, a) = g[a[2]]
    BY <1>5, PlacesOf DEF At
  <2>2. IsStub(g[a[2]]) BY <2>1 DEF StubPlaces
  <2>3. ASSUME NEW j \in DOMAIN g, g[j].key = g[a[2]].key PROVE j = a[2]
    <3> DEFINE b == <<p, j>>
    <3>1. b \in Places(f) /\ At(f, b) = g[j] /\ b[1] = p /\ b[2] = j BY <1>1, PlacesOf
    <3> HIDE DEF b
    <3>2. PICK c \in RealPlaces(f) : c[1] = At(f, a).at /\ At(f, c).key = At(f, a).key
      BY DEF SoundHierarchy
    <3>3. CASE b \in RealPlaces(f)
      <4>1. b = c BY <2>1, <2>3, <3>1, <3>2, <3>3 DEF SoundHierarchy
      <4> QED BY <1>2, <1>5, <3>1, <3>2, <4>1
    <3>4. CASE b \in StubPlaces(f)
      <4>1. PICK d \in RealPlaces(f) : d[1] = At(f, b).at /\ At(f, d).key = At(f, b).key
        BY <3>4 DEF SoundHierarchy
      <4>2. d = c BY <2>1, <2>3, <3>1, <3>2, <4>1 DEF SoundHierarchy
      <4>3. At(f, b).at = At(f, a).at BY <3>2, <4>1, <4>2
      <4>4. b = a BY <3>4, <4>3 DEF SoundHierarchy
      <4> QED BY <3>1, <4>4
    <3> QED BY <3>1, <3>3, <3>4 DEF RealPlaces
  <2>4. PICK j \in Kept(g) : g[j].key = g[a[2]].key /\ EntryOf(g[a[2]].key, g) = g[j]
    <3> DEFINE k == g[a[2]].key
    <3>1. k \in KeysOf(g) BY <2>1 DEF KeysOf
    <3> HIDE DEF k
    <3>2. \E j \in Kept(g) : g[j].key = k /\ EntryOf(k, g) = g[j] BY <1>1, <3>1, LastKept
    <3> QED BY <3>2 DEF k
  <2>5. EntryOf(g[a[2]].key, g) = g[a[2]] BY <2>3, <2>4 DEF Kept
  <2>6. a[2] \in StubsAt(g)
    <3>1. a[2] \in Int BY <1>1, <2>1
    <3> QED BY <2>1, <2>2, <2>3, <2>5, <3>1 DEF StubsAt
  <2> QED BY <1>3, <2>1, <2>5, <2>6
<1> HIDE DEF g
<1>6. StubsOf(f, ps \cup {p}, es \cup Range(Stubs(g)))
  <2>1. ASSUME NEW e \in es \cup Range(Stubs(g))
        PROVE  \E a \in StubPlaces(f) : a[1] \in ps \cup {p} /\ At(f, a) = e
    <3>1. CASE e \in es BY <3>1
    <3>2. CASE e \in Range(Stubs(g))
      <4>1. PICK i \in StubsAt(g) : e = EntryOf(g[i].key, g) BY <1>3, <3>2
      <4> QED BY <1>4, <4>1
    <3> QED BY <2>1, <3>1, <3>2
  <2> QED BY <1>5, <2>1 DEF StubsOf
<1> QED BY <1>6 DEF g

-----------------------------------------------------------------------------
(* The traversal                                                           *)

(* The pages whose entries are in the index                                *)
PagesRead ==
  {file.root.at} \cup ({pg[1] : pg \in seen} \ (IF phase = "page" THEN {Head(queue).at} ELSE {}))

(* What holds of any file, sound or not                                    *)
Shape ==
  /\ file \in Files /\ view \in Views \cup {NoView}
  /\ queue \in Seq(Entry) /\ rounds \in Nat
  /\ IsFiniteSet(DOMAIN nodes) /\ DOMAIN nodes \subseteq Key
  /\ phase \in {"head", "full", "root"} => seen = {}
  /\ phase = "page" => queue # <<>> /\ Head(queue).size > 0

(* While the hierarchy of a sound file is followed                         *)
Followed ==
  /\ \A pg \in seen : \E p \in DOMAIN file.pages \ {file.root.at} : pg = <<p, Len(file.pages[p])>>
  /\ NodesOf(file, PagesRead, nodes)
  /\ StubsOf(file, PagesRead, Range(queue))
  /\ phase = "page" => Page(Head(queue)) \in seen
  /\ phase = "ready" /\ rounds < MaxPages => queue = <<>>

Sound == SoundHierarchy(file) /\ server # "ignores"
HierarchyInv == phase \in {"expanding", "page", "ready"} /\ Sound => Followed

TreeInv == Shape /\ HierarchyInv

(* The entries read for a stub of a page; all of them if it says so        *)
LEMMA PageOfIs ==
  ASSUME file \in Files, NEW s, s.at \in DOMAIN file.pages, s.size \in Nat
  PROVE  /\ PageOf(s) \in Seq(Entry)
         /\ s.size = Len(file.pages[s.at]) => PageOf(s) = file.pages[s.at]
<1> DEFINE g == file.pages[s.at]
           n == IF s.size < Len(g) THEN s.size ELSE Len(g)
<1>1. g \in Seq(Entry) BY PlacesOf
<1>2. PageOf(s) = SubSeq(g, 1, n) BY DEF PageOf
<1> HIDE DEF g
<1>3. Len(g) \in Nat /\ \A i \in 1..Len(g) : g[i] \in Entry BY <1>1
<1>4. n \in Nat /\ n <= Len(g) /\ (s.size = Len(g) => n = Len(g)) BY <1>3
<1> HIDE DEF n
<1>5. \A i \in 1..n : g[i] \in Entry BY <1>3, <1>4
<1>6. /\ SubSeq(g, 1, n) \in Seq(Entry)
      /\ Len(SubSeq(g, 1, n)) = n
      /\ \A i \in 1..n : SubSeq(g, 1, n)[i] = g[i]
  <2>1. 1 \in Int /\ n \in Int BY <1>4
  <2>2. /\ SubSeq(g, 1, n) \in Seq(Entry)
        /\ Len(SubSeq(g, 1, n)) = IF 1 <= n THEN n - 1 + 1 ELSE 0
        /\ \A i \in 1..(n - 1 + 1) : SubSeq(g, 1, n)[i] = g[1 + i - 1]
    BY <1>5, <2>1, SubSeqProperties
  <2> DEFINE h == SubSeq(g, 1, n)
  <2> HIDE DEF h
  <2>3. n - 1 + 1 = n /\ (~(1 <= n) => n = 0) BY <1>4
  <2>4. \A i \in 1..n : 1 + i - 1 = i BY <1>4
  <2> QED BY <2>2, <2>3, <2>4 DEF h
<1>7. ASSUME s.size = Len(g) PROVE SubSeq(g, 1, n) = g
  <2> DEFINE h == SubSeq(g, 1, n)
  <2>1. h \in Seq(Entry) /\ Len(h) = Len(g) /\ \A i \in 1..Len(g) : h[i] = g[i] BY <1>4, <1>6, <1>7
  <2> HIDE DEF h
  <2>2. h = g BY <1>1, <2>1
  <2> QED BY <2>2 DEF h
<1> QED BY <1>2, <1>6, <1>7 DEF g

(* The index stays finite, and its keys are keys.                          *)
LEMMA MergedShape ==
  ASSUME NEW ns, IsFiniteSet(DOMAIN ns), DOMAIN ns \subseteq Key, NEW es \in Seq(Entry)
  PROVE  IsFiniteSet(DOMAIN Merged(ns, es)) /\ DOMAIN Merged(ns, es) \subseteq Key
<1> DEFINE I == 1..Len(es)
           K == KeysOf(es)
           f == [i \in I |-> es[i].key]
<1>1. DOMAIN es = I /\ Len(es) \in Nat /\ \A i \in I : es[i] \in Entry OBVIOUS
<1>2. K = {es[i].key : i \in I} BY <1>1 DEF KeysOf
<1>3. K \subseteq Key BY <1>1, <1>2 DEF Entry
<1>4. f \in Surjection(I, K) BY <1>2 DEF Surjection
<1>5. IsFiniteSet(I) BY <1>1, FS_Interval
<1> HIDE DEF f, I, K
<1>6. IsFiniteSet(K) BY <1>4, <1>5, FS_Surjection
<1>7. DOMAIN Merged(ns, es) = K \cup DOMAIN ns BY MergedIs DEF K
<1>8. IsFiniteSet(K \cup DOMAIN ns) BY <1>6, FS_Union
<1> QED BY <1>3, <1>7, <1>8

(* The root page is read.                                                  *)
LEMMA RootRead ==
  ASSUME TreeInv, phase \in {"head", "full", "root"}, UNCHANGED <<file, server, seen, rounds, view>>,
         phase' = "expanding", nodes' = Merged(<<>>, PageOf(file.root)),
         queue' = Stubs(PageOf(file.root))
  PROVE  TreeInv'
<1> DEFINE r == file.root.at
           g == PageOf(file.root)
<1>1. /\ file \in Files /\ r \in DOMAIN file.pages /\ seen = {}
      /\ file.root.size \in Nat /\ PageOf(file.root) \in Seq(Entry)
      /\ (SoundHierarchy(file) => PageOf(file.root) = file.pages[r])
  <2>1. file \in Files /\ seen = {} BY DEF TreeInv, Shape
  <2>2. file.root.at \in DOMAIN file.pages /\ file.root.size \in Nat
    <3>1. file.pages \in Seq(Seq(Entry)) /\ file.root.at \in DOMAIN file.pages
          /\ file.root.size \in 0..Len(file.pages[file.root.at])
      BY <2>1, FilesAssumption
    <3> QED BY <3>1
  <2> QED BY <2>1, <2>2, PageOfIs DEF SoundHierarchy
<1>2. Shape'
  <2>1. DOMAIN <<>> = {} OBVIOUS
  <2>2. IsFiniteSet(DOMAIN <<>>) /\ DOMAIN <<>> \subseteq Key BY <2>1, FS_EmptySet
  <2>3. IsFiniteSet(DOMAIN Merged(<<>>, PageOf(file.root)))
        /\ DOMAIN Merged(<<>>, PageOf(file.root)) \subseteq Key
    BY <1>1, <2>2, MergedShape
  <2>4. Stubs(PageOf(file.root)) \in Seq(Entry) BY <1>1, StubsRange
  <2> QED BY <1>1, <2>3, <2>4 DEF TreeInv, Shape
<1>3. ASSUME Sound PROVE Followed'
  <2>1. g = file.pages[r] /\ SoundHierarchy(file) BY <1>1, <1>3 DEF Sound
  <2>2. NextPage(file, {}, r) BY <1>1 DEF NextPage
  <2>3. NodesOf(file, {}, <<>>)
    <3>1. DOMAIN <<>> = {} OBVIOUS
    <3> QED BY <3>1 DEF NodesOf
  <2> HIDE DEF r, g
  <2>4. NodesOf(file, {} \cup {r}, Merged(<<>>, file.pages[r])) BY <1>1, <2>1, <2>2, <2>3, PageRead
  <2>5. StubsOf(file, {} \cup {r}, {} \cup Range(Stubs(file.pages[r])))
    BY <1>1, <2>1, <2>2, <2>3, StubsRead
  <2>6. {} \cup {r} = {r} /\ {} \cup Range(Stubs(file.pages[r])) = Range(Stubs(file.pages[r]))
    OBVIOUS
  <2>7. PagesRead' = {r} BY <1>1 DEF PagesRead, r
  <2> QED BY <1>1, <2>1, <2>4, <2>5, <2>6, <2>7 DEF Followed, g
<1> QED BY <1>2, <1>3 DEF TreeInv, HierarchyInv, Sound

(* A buffer of the head of the file, or of all of it, is parsed.           *)
LEMMA ParseKeeps ==
  ASSUME TreeInv, phase \in {"head", "full"}, UNCHANGED <<file, server, seen, rounds, view>>,
         NEW b, NEW all, ParseIndex(b, all)
  PROVE  TreeInv'
<1>1. CASE phase' \in {"failed", "root"} /\ UNCHANGED <<nodes, queue>>
  BY <1>1 DEF TreeInv, Shape, HierarchyInv
<1>2. CASE phase' = "expanding" /\ nodes' = Merged(<<>>, PageOf(file.root))
           /\ queue' = Stubs(PageOf(file.root))
  BY <1>2, RootRead
<1> QED BY <1>1, <1>2 DEF ParseIndex

(* The first stub that waits, of a sound file                              *)
LEMMA HeadStub ==
  ASSUME Shape, Sound, Followed, queue # <<>>
  PROVE  LET s == Head(queue)
         IN /\ s.at \in DOMAIN file.pages \ {file.root.at}
            /\ s.size = Len(file.pages[s.at]) /\ s.size > 0
            /\ \E a \in StubPlaces(file) : a[1] \in PagesRead /\ At(file, a) = s
<1> DEFINE s == Head(queue)
<1>1. file \in Files /\ queue \in Seq(Entry) /\ SoundHierarchy(file) BY DEF Shape, Sound
<1>2. s \in Range(queue) BY <1>1, TakenRange
<1>3. PICK a \in StubPlaces(file) : a[1] \in PagesRead /\ At(file, a) = s
  BY <1>2 DEF Followed, StubsOf
<1> HIDE DEF s
<1>4. s.at \in DOMAIN file.pages \ {file.root.at} /\ s.size = Len(file.pages[s.at])
  BY <1>1, <1>3 DEF SoundHierarchy
<1>5. PICK b \in RealPlaces(file) : b[1] = s.at
  BY <1>1, <1>3 DEF SoundHierarchy
<1>6. b[2] \in DOMAIN file.pages[s.at] /\ file.pages[s.at] \in Seq(Entry)
  BY <1>1, <1>4, <1>5, PlacesOf
<1>7. Len(file.pages[s.at]) > 0
  BY <1>6
<1> QED BY <1>3, <1>4, <1>7 DEF s

(* A page that was followed is the page of one entry of `seen'.            *)
LEMMA SeenPages ==
  ASSUME Followed, NEW s, s.size = Len(file.pages[s.at])
  PROVE  Page(s) \in seen <=> s.at \in {pg[1] : pg \in seen}
<1>1. ASSUME NEW pg \in seen, pg[1] = s.at PROVE pg = Page(s)
  <2>1. PICK p \in DOMAIN file.pages : pg = <<p, Len(file.pages[p])>> BY DEF Followed
  <2> QED BY <1>1, <2>1 DEF Page
<1>2. Page(s)[1] = s.at BY DEF Page
<1> QED BY <1>1, <1>2

(* The page that the first stub names joins those read.                    *)
LEMMA PageJoins ==
  ASSUME Shape, Sound, Followed, queue # <<>>, UNCHANGED file, Head(queue).at \notin PagesRead,
         PagesRead' = PagesRead \cup {Head(queue).at},
         nodes' = Merged(nodes, file.pages[Head(queue).at]),
         queue' = Tail(queue) \o Stubs(file.pages[Head(queue).at])
  PROVE  NodesOf(file', PagesRead', nodes') /\ StubsOf(file', PagesRead', Range(queue'))
<1> DEFINE s == Head(queue)
           p == s.at
           g == file.pages[p]
           Q == Range(Tail(queue))
<1>1. file \in Files /\ queue \in Seq(Entry) /\ SoundHierarchy(file) BY DEF Shape, Sound
<1>2. /\ p \in DOMAIN file.pages
      /\ \E a \in StubPlaces(file) : a[1] \in PagesRead /\ At(file, a) = s
  BY HeadStub
<1>3. PagesRead \subseteq DOMAIN file.pages
  <2>1. file.root.at \in DOMAIN file.pages BY <1>1, FilesAssumption
  <2>2. \A pg \in seen : pg[1] \in DOMAIN file.pages BY DEF Followed
  <2> QED BY <2>1, <2>2 DEF PagesRead
<1>4. NextPage(file, PagesRead, p) BY <1>2, <1>3 DEF NextPage
<1>5. Range(queue) = {s} \cup Q /\ Tail(queue) \in Seq(Entry) BY <1>1, TakenRange
<1>6. NodesOf(file, PagesRead, nodes) /\ StubsOf(file, PagesRead, Range(queue)) BY DEF Followed
<1>7. NodesOf(file, PagesRead \cup {p}, Merged(nodes, g))
  BY <1>1, <1>4, <1>6, PageRead
<1>8. /\ \A e \in Q : \E a \in StubPlaces(file) : a[1] \in PagesRead /\ At(file, a) = e
      /\ \A a \in StubPlaces(file) : a[1] \in PagesRead =>
           At(file, a).at \in PagesRead \cup {p} \/ At(file, a) \in Q
  BY <1>5, <1>6 DEF StubsOf
<1>9. g \in Seq(Entry) BY <1>1, <1>2, PlacesOf
<1> HIDE DEF s, p, Q, g
<1>10. StubsOf(file, PagesRead \cup {p}, Q \cup Range(Stubs(g)))
  BY <1>1, <1>4, <1>6, <1>8, StubsRead DEF g
<1>11. Range(queue') = Q \cup Range(Stubs(g))
  <2>1. Stubs(g) \in Seq(Entry) BY <1>9, StubsRange
  <2>2. queue' = Tail(queue) \o Stubs(g) BY DEF g, p, s
  <2> DEFINE t == Stubs(g)
             u == Tail(queue)
  <2>3. t \in Seq(Entry) /\ u \in Seq(Entry) BY <1>5, <2>1
  <2> HIDE DEF t, u
  <2>4. Range(u \o t) = Range(u) \cup Range(t) BY <2>3, JoinedRange
  <2> QED BY <2>2, <2>4 DEF Q, t, u
<1>12. nodes' = Merged(nodes, g) /\ PagesRead' = PagesRead \cup {p} BY DEF g, p, s
<1> QED BY <1>7, <1>10, <1>11, <1>12

(* An iteration drops a stub whose page was read, reads a page out of the  *)
(* buffer, or asks for it.                                                 *)
LEMMA ExpandKeeps == ASSUME TreeInv, Expand, UNCHANGED view PROVE TreeInv'
<1> DEFINE s == Head(queue)
<1>1. /\ Shape /\ phase = "expanding" /\ queue # <<>> /\ UNCHANGED <<file, server, view>>
      /\ queue \in Seq(Entry) /\ file \in Files /\ rounds' \in Nat
  BY DEF TreeInv, Shape, Expand
<1>2. s \in Entry /\ Tail(queue) \in Seq(Entry) /\ Range(queue) = {s} \cup Range(Tail(queue))
  BY <1>1, TakenRange
<1>3. ASSUME Sound
      PROVE  /\ Followed /\ s.at \in DOMAIN file.pages \ {file.root.at}
             /\ s.size = Len(file.pages[s.at]) /\ s.size > 0
             /\ (Page(s) \in seen <=> s.at \in {pg[1] : pg \in seen})
  BY <1>1, <1>3, HeadStub, SeenPages DEF TreeInv, HierarchyInv
<1>4. PagesRead = {file.root.at} \cup {pg[1] : pg \in seen} BY <1>1 DEF PagesRead
<1> HIDE DEF s
<1>5. CASE ~Fresh(s)
  <2>1. queue' = Tail(queue) /\ UNCHANGED <<phase, nodes, seen>>
    BY <1>5 DEF Expand, s
  <2>2. Shape' BY <1>1, <1>2, <2>1 DEF Shape
  <2>3. ASSUME Sound PROVE Followed'
    <3>1. PagesRead' = PagesRead BY <1>1, <2>1 DEF PagesRead
    <3>2. s.at \in PagesRead BY <1>3, <1>4, <1>5, <2>3 DEF Fresh
    <3>3. StubsOf(file, PagesRead, Range(Tail(queue)))
      BY <1>2, <1>3, <2>3, <3>2 DEF Followed, StubsOf
    <3> QED BY <1>1, <1>3, <2>1, <2>3, <3>1, <3>3 DEF Followed
  <2> QED BY <1>1, <2>2, <2>3 DEF TreeInv, HierarchyInv, Sound
<1>6. CASE Fresh(s) /\ whole /\ InFile(s)
  <2>1. /\ seen' = seen \cup {Page(s)} /\ nodes' = Merged(nodes, PageOf(s))
        /\ queue' = Tail(queue) \o Stubs(PageOf(s)) /\ phase' = phase
    BY <1>6 DEF Expand, s
  <2>2. s.at \in DOMAIN file.pages /\ s.size \in Nat
    BY <1>2, <1>6 DEF Fresh, InFile, Entry
  <2>3. PageOf(s) \in Seq(Entry) /\ (s.size = Len(file.pages[s.at]) => PageOf(s) = file.pages[s.at])
    BY <1>1, <2>2, PageOfIs
  <2>4. Shape'
    <3>1. Stubs(PageOf(s)) \in Seq(Entry) BY <2>3, StubsRange
    <3>2. queue' \in Seq(Entry) BY <1>2, <2>1, <3>1, ConcatProperties
    <3>3. IsFiniteSet(DOMAIN nodes') /\ DOMAIN nodes' \subseteq Key
      BY <1>1, <2>1, <2>3, MergedShape DEF Shape
    <3> QED BY <1>1, <2>1, <3>2, <3>3 DEF Shape
  <2>5. ASSUME Sound PROVE Followed'
    <3>1. s.at \notin PagesRead BY <1>3, <1>4, <1>6, <2>5 DEF Fresh
    <3>2. Page(s) = <<s.at, Len(file.pages[s.at])>> BY <1>3, <2>5 DEF Page
    <3>3. {pg[1] : pg \in seen'} = {pg[1] : pg \in seen} \cup {s.at} BY <2>1, <3>2
    <3>4. PagesRead' = PagesRead \cup {s.at} BY <1>1, <1>4, <2>1, <3>3 DEF PagesRead
    <3>5. PageOf(s) = file.pages[s.at] BY <1>3, <2>3, <2>5
    <3>6. NodesOf(file', PagesRead', nodes') /\ StubsOf(file', PagesRead', Range(queue'))
      BY <1>1, <1>3, <2>1, <2>5, <3>1, <3>4, <3>5, PageJoins DEF s
    <3>7. \A pg \in seen' : \E p \in DOMAIN file.pages \ {file.root.at} :
            pg = <<p, Len(file.pages[p])>>
      BY <1>3, <2>1, <2>5, <3>2 DEF Followed
    <3> QED BY <1>1, <2>1, <3>6, <3>7 DEF Followed
  <2> QED BY <1>1, <2>4, <2>5 DEF TreeInv, HierarchyInv, Sound
<1>7. CASE Fresh(s) /\ ~(whole /\ InFile(s))
  <2>1. seen' = seen \cup {Page(s)} /\ phase' = "page" /\ UNCHANGED <<nodes, queue>>
    BY <1>7 DEF Expand, s
  <2>2. Shape' BY <1>1, <1>7, <2>1 DEF Shape, Fresh, s
  <2>3. ASSUME Sound PROVE Followed'
    <3>1. s.at \notin PagesRead BY <1>3, <1>4, <1>7, <2>3 DEF Fresh
    <3>2. Page(s) = <<s.at, Len(file.pages[s.at])>> BY <1>3, <2>3 DEF Page
    <3>3. {pg[1] : pg \in seen'} = {pg[1] : pg \in seen} \cup {s.at} BY <2>1, <3>2
    <3>4. PagesRead' = {file.root.at} \cup ({pg[1] : pg \in seen'} \ {s.at})
      BY <1>1, <2>1 DEF PagesRead, s
    <3>5. PagesRead' = PagesRead BY <1>4, <3>1, <3>3, <3>4
    <3>6. \A pg \in seen' : \E p \in DOMAIN file.pages \ {file.root.at} :
            pg = <<p, Len(file.pages[p])>>
      BY <1>3, <2>1, <2>3, <3>2 DEF Followed
    <3>7. Page(Head(queue')) \in seen' BY <2>1 DEF s
    <3> QED BY <1>1, <1>3, <2>1, <2>3, <3>5, <3>6, <3>7 DEF Followed
  <2> QED BY <1>1, <2>2, <2>3 DEF TreeInv, HierarchyInv, Sound
<1> QED BY <1>5, <1>6, <1>7

(* The page that was asked for arrives.                                    *)
LEMMA PageAnsweredKeeps == ASSUME TreeInv, PageAnswered, UNCHANGED view PROVE TreeInv'
<1> DEFINE s == Head(queue)
           es == Answer(s)
<1>1. /\ Shape /\ phase = "page" /\ queue # <<>> /\ s.size > 0 /\ s.at \in DOMAIN file.pages
      /\ UNCHANGED <<file, server, view, seen, rounds>> /\ phase' = "expanding"
      /\ nodes' = Merged(nodes, es) /\ queue' = Tail(queue) \o Stubs(es)
      /\ queue \in Seq(Entry) /\ file \in Files
  BY DEF TreeInv, Shape, PageAnswered, InFile
<1>2. s \in Entry /\ Tail(queue) \in Seq(Entry)
  BY <1>1, TakenRange
<1>3. s.size \in Nat BY <1>1, <1>2 DEF Entry
<1>4. PageOf(s) \in Seq(Entry) /\ (s.size = Len(file.pages[s.at]) => PageOf(s) = file.pages[s.at])
  BY <1>1, <1>3, PageOfIs
<1>5. es \in Seq(Entry)
  <2>1. Junk \in Entry BY IndexConstants DEF Junk, Entry, Key
  <2>2. <<Junk>> \in Seq(Entry) BY <2>1
  <2> QED BY <1>4, <2>2 DEF Answer
<1>6. Shape'
  <2>1. Stubs(es) \in Seq(Entry) BY <1>5, StubsRange
  <2> HIDE DEF es, s
  <2>2. queue' \in Seq(Entry) BY <1>1, <1>2, <2>1, ConcatProperties
  <2>3. IsFiniteSet(DOMAIN nodes') /\ DOMAIN nodes' \subseteq Key
    BY <1>1, <1>5, MergedShape DEF Shape
  <2> QED BY <1>1, <2>2, <2>3 DEF Shape
<1>7. ASSUME Sound PROVE Followed'
  <2>1. Followed BY <1>1, <1>7 DEF TreeInv, HierarchyInv
  <2>2. s.at # file.root.at /\ s.size = Len(file.pages[s.at]) BY <1>1, <1>7, <2>1, HeadStub
  <2>3. es = file.pages[s.at] BY <1>4, <1>7, <2>2 DEF Answer, Sound
  <2>4. s.at \in {pg[1] : pg \in seen} BY <1>1, <2>1 DEF Followed, Page
  <2>5. PagesRead = {file.root.at} \cup ({pg[1] : pg \in seen} \ {s.at}) BY <1>1 DEF PagesRead
  <2>6. PagesRead' = {file.root.at} \cup {pg[1] : pg \in seen} BY <1>1 DEF PagesRead
  <2>7. s.at \notin PagesRead BY <2>2, <2>5
  <2>8. PagesRead' = PagesRead \cup {s.at} BY <2>4, <2>5, <2>6
  <2>9. NodesOf(file', PagesRead', nodes') /\ StubsOf(file', PagesRead', Range(queue'))
    BY <1>1, <1>7, <2>1, <2>3, <2>7, <2>8, PageJoins
  <2> QED BY <1>1, <2>1, <2>9 DEF Followed
<1> QED BY <1>1, <1>6, <1>7 DEF TreeInv, HierarchyInv, Sound

(* No step of the reader breaks the invariant.                             *)
LEMMA IndexKeeps == ASSUME TreeInv, IndexNext, UNCHANGED view PROVE TreeInv'
<1>1. CASE HeadAnswered
  <2>1. phase = "head" /\ UNCHANGED <<file, server, seen, rounds>> BY <1>1 DEF HeadAnswered
  <2>2. CASE phase' = "full" /\ UNCHANGED <<nodes, queue>>
    BY <2>1, <2>2 DEF TreeInv, Shape, HierarchyInv
  <2>3. CASE ParseIndex(HeadCells, FALSE) BY <2>1, <2>3, ParseKeeps
  <2>4. CASE ParseIndex(FileCells(file), TRUE) BY <2>1, <2>4, ParseKeeps
  <2> QED BY <1>1, <2>2, <2>3, <2>4 DEF HeadAnswered
<1>2. CASE FullAnswered
  BY <1>2, ParseKeeps DEF FullAnswered
<1>3. CASE RootAnswered
  BY <1>3, RootRead DEF RootAnswered
<1>4. CASE PageAnswered BY <1>4, PageAnsweredKeeps
<1>5. CASE RequestFails
  BY <1>5 DEF RequestFails, TreeInv, Shape, HierarchyInv
<1>6. CASE Expand BY <1>6, ExpandKeeps
<1>7. CASE Expanded
  <2>1. /\ phase = "expanding" /\ phase' = "ready" /\ (queue = <<>> \/ rounds >= MaxPages)
        /\ UNCHANGED <<file, server, nodes, queue, seen, rounds>>
    BY <1>7 DEF Expanded
  <2>2. PagesRead' = PagesRead BY <2>1 DEF PagesRead
  <2>3. Followed => Followed'
    <3>1. rounds \in Nat /\ MaxPages \in Nat BY IndexConstants DEF TreeInv, Shape
    <3>2. rounds < MaxPages => queue = <<>> BY <2>1, <3>1
    <3> QED BY <2>1, <2>2, <3>2 DEF Followed
  <2>4. Shape' BY <2>1 DEF TreeInv, Shape
  <2> QED BY <2>1, <2>3, <2>4 DEF TreeInv, HierarchyInv, Sound
<1> QED BY <1>1, <1>2, <1>3, <1>4, <1>5, <1>6, <1>7 DEF IndexNext, Answered

(* Nothing was read at first.                                              *)
LEMMA TreeInitial == Init => TreeInv
<1> SUFFICES ASSUME Init PROVE TreeInv
  OBVIOUS
<1>1. DOMAIN <<>> = {} OBVIOUS
<1>2. /\ file \in Files /\ view = NoView /\ queue = <<>> /\ nodes = <<>>
      /\ phase = "head" /\ seen = {} /\ rounds = 0
  BY DEF Init, IndexInit
<1>3. <<>> \in Seq(Entry) BY EmptySeq
<1> QED BY <1>1, <1>2, <1>3, FS_EmptySet DEF TreeInv, Shape, HierarchyInv

(* Frames, fetches and views leave the index alone.                        *)
LEMMA TreeNext == TreeInv /\ [Next]_vars => TreeInv'
<1> SUFFICES ASSUME TreeInv, [Next]_vars PROVE TreeInv'
  OBVIOUS
<1>1. CASE Index BY <1>1, IndexKeeps DEF Index
<1>2. CASE UNCHANGED indexVars /\ view' \in {view} \cup Views
  <2>1. Shape' BY <1>2 DEF TreeInv, Shape, indexVars
  <2>2. PagesRead' = PagesRead BY <1>2 DEF PagesRead, indexVars
  <2> QED BY <1>2, <2>1, <2>2 DEF TreeInv, HierarchyInv, Sound, Followed, indexVars
<1>3. ASSUME NEW f \in Frames, Tick(f) PROVE UNCHANGED <<indexVars, view>>
  BY <1>3 DEF Tick
<1>4. ASSUME NEW k \in fetching, Settles(k) PROVE UNCHANGED <<indexVars, view>>
  BY <1>4 DEF Settles
<1>5. ASSUME NEW v \in Views, Moves(v) PROVE UNCHANGED indexVars /\ view' \in Views
  BY <1>5 DEF Moves
<1>6. CASE UNCHANGED vars BY <1>2, <1>6 DEF vars
<1> QED BY <1>1, <1>2, <1>3, <1>4, <1>5, <1>6 DEF Next

(* Every page of a sound file is read once nothing waits.                  *)
LEMMA AllRead ==
  ASSUME Shape, Sound, Followed, queue = <<>>
  PROVE  PagesRead = DOMAIN file.pages \/ phase = "page"
<1>1. file \in Files /\ SoundHierarchy(file) BY DEF Shape, Sound
<1>2. PagesRead \in SUBSET DOMAIN file.pages /\ file.root.at \in PagesRead
  BY <1>1, FilesAssumption DEF PagesRead, Followed
<1>3. Closed(file, PagesRead)
  BY EmptyRange DEF Closed, Followed, StubsOf
<1> QED BY <1>1, <1>2, <1>3 DEF SoundHierarchy

(* An index of all pages: its nodes, their keys and points                 *)
LEMMA NodesAreEntries ==
  ASSUME NEW f \in Files, SoundHierarchy(f), NEW ns, NodesOf(f, DOMAIN f.pages, ns)
  PROVE  /\ {ns[k] : k \in DOMAIN ns} = RealEntries(f)
         /\ DOMAIN ns = {e.key : e \in AllEntries(f)}
         /\ \A k \in DOMAIN ns : ns[k].key = k /\ ns[k].points \in Nat
<1>1. \A a \in Places(f) : a[1] \in DOMAIN f.pages BY PlacesOf
<1>2. \A k \in DOMAIN ns : \E a \in RealPlaces(f) : ns[k] = At(f, a) /\ At(f, a).key = k
  <2> TAKE k \in DOMAIN ns
  <2>1. PICK a \in Places(f) : ns[k] = At(f, a) /\ ns[k].key = k BY DEF NodesOf
  <2>2. CASE a \in RealPlaces(f) BY <2>1, <2>2
  <2>3. CASE a \in StubPlaces(f)
    <3>1. PICK b \in RealPlaces(f) : At(f, b).key = k BY <2>1, <2>3 DEF SoundHierarchy
    <3>2. ns[k] = At(f, b) BY <1>1, <3>1, PlacesOf DEF NodesOf
    <3> QED BY <3>1, <3>2
  <2> QED BY <2>2, <2>3 DEF RealPlaces
<1>3. \A a \in RealPlaces(f) : At(f, a).key \in DOMAIN ns /\ ns[At(f, a).key] = At(f, a)
  BY <1>1, PlacesOf DEF NodesOf
<1>4. {ns[k] : k \in DOMAIN ns} = RealEntries(f)
  BY <1>2, <1>3 DEF RealEntries
<1>5. DOMAIN ns = {e.key : e \in AllEntries(f)}
  <2>1. \A a \in Places(f) : At(f, a).key \in DOMAIN ns BY <1>1 DEF NodesOf
  <2>2. \A e \in AllEntries(f) : e.key \in DOMAIN ns BY <2>1 DEF AllEntries
  <2>3. \A k \in DOMAIN ns : \E e \in AllEntries(f) : e.key = k
    BY <1>2, PlacesOf DEF AllEntries
  <2> QED BY <2>2, <2>3
<1>6. \A k \in DOMAIN ns : ns[k].key = k /\ ns[k].points \in Nat
  BY <1>2 DEF SoundHierarchy
<1> QED BY <1>4, <1>5, <1>6

(* Nothing waits when the index is ready: it has all pages.                *)
LEMMA TreeComplete == TreeInv => IndexComplete
<1> SUFFICES ASSUME TreeInv, phase = "ready", SoundHierarchy(file), server # "ignores",
                    rounds < MaxPages
             PROVE  /\ {nodes[k] : k \in DOMAIN nodes} = RealEntries(file)
                    /\ StaticMeta(nodes).declared = PointsIn(RealEntries(file))
                    /\ StaticMeta(nodes).completeness.maxDepthFound =
                         Deepest({e.key : e \in AllEntries(file)})
                    /\ StaticMeta(nodes).completeness.total = Cardinality(RealEntries(file))
  BY DEF IndexComplete
<1>1. Shape /\ Sound /\ Followed /\ queue = <<>> /\ file \in Files
  BY DEF TreeInv, HierarchyInv, Sound, Followed, Shape
<1>2. PagesRead = DOMAIN file.pages BY <1>1, AllRead
<1>3. NodesOf(file, DOMAIN file.pages, nodes) BY <1>1, <1>2 DEF Followed
<1>4. /\ {nodes[k] : k \in DOMAIN nodes} = RealEntries(file)
      /\ DOMAIN nodes = {e.key : e \in AllEntries(file)}
      /\ \A k \in DOMAIN nodes : nodes[k].key = k /\ nodes[k].points \in Nat
  BY <1>1, <1>3, NodesAreEntries
<1>5. StaticMeta(nodes).declared = PointsIn(RealEntries(file))
  <2>1. Counted(nodes) = DOMAIN nodes BY <1>4 DEF Counted
  <2>2. StaticMeta(nodes).declared = Declared(nodes) BY DEF StaticMeta
  <2> QED BY <1>4, <2>1, <2>2 DEF Declared
<1>6. StaticMeta(nodes).completeness.maxDepthFound = Deepest({e.key : e \in AllEntries(file)})
  <2>1. StaticMeta(nodes).completeness.maxDepthFound = Deepest(DOMAIN nodes)
    BY DEF StaticMeta, Completeness
  <2> QED BY <1>4, <2>1
<1>7. StaticMeta(nodes).completeness.total = Cardinality(RealEntries(file))
  <2>1. StaticMeta(nodes).completeness.total = Cardinality(DOMAIN nodes)
    BY DEF StaticMeta, Completeness
  <2> DEFINE K == DOMAIN nodes
             R == RealEntries(file)
             f == [k \in K |-> nodes[k]]
  <2>2. IsFiniteSet(K) BY <1>1 DEF Shape
  <2>3. f \in [K -> R] /\ (\A x, y \in K : f[x] = f[y] => x = y) /\ \A z \in R : \E x \in K : f[x] = z
    BY <1>4
  <2> HIDE DEF K, R, f
  <2>4. Cardinality(K) = Cardinality(R) BY <2>2, <2>3, SameNumber
  <2> QED BY <2>1, <2>4 DEF K, R
<1> QED BY <1>4, <1>5, <1>6, <1>7

(* The index of a sound file (expandCopcHierarchyPages, unless it gave up  *)
(* after MAX_HIERARCHY_PAGES) has exactly the nodes of the file, and its   *)
(* metadata (buildCopcFileStaticMeta) count every node, every point and    *)
(* every level.                                                            *)
THEOREM IndexHoldsEveryNode == Spec => []IndexComplete
BY TreeComplete, TreeInitial, TreeNext, PTL DEF Spec

-----------------------------------------------------------------------------
(* The search                                                              *)

(* Powers of two divide each other (by the least exponent that does not).  *)
LEMMA Powers ==
  ASSUME NEW m \in 0..Finest, NEW e \in 0..m
  PROVE  2 ^ e \in Nat \ {0} /\ 2 ^ m = 2 ^ e * 2 ^ (m - e)
<1>0. Finest \in Nat BY IndexConstants
<1>1. \A d \in 0..Finest : 2 ^ d \in Nat \ {0}
  <2> DEFINE Bad == {d \in 0..Finest : 2 ^ d \notin Nat \ {0}}
  <2> SUFFICES ASSUME Bad # {} PROVE FALSE
    OBVIOUS
  <2>1. Bad \in SUBSET (0..Finest) /\ 0 \in Int /\ Finest \in Int BY <1>0
  <2> HIDE DEF Bad
  <2>2. PICK d \in Bad : \A c \in Bad : d <= c
    BY <2>1, LeastOf
  <2>3. d \in 0..Finest /\ 2 ^ d \notin Nat \ {0} BY <2>2 DEF Bad
  <2>4. d # 0
    <3>1. d = 0 => 2 ^ d = 1 BY PowersAssumption
    <3>2. 1 \in Nat \ {0} OBVIOUS
    <3> QED BY <2>3, <3>1, <3>2
  <2>5. d - 1 \in 0..Finest /\ d - 1 \notin Bad /\ (d - 1) + 1 = d BY <1>0, <2>2, <2>3, <2>4
  <2>6. 2 ^ (d - 1) \in Nat \ {0} BY <2>5 DEF Bad
  <2>7. 2 ^ d = 2 * 2 ^ (d - 1) BY <2>5, PowersAssumption
  <2> QED BY <2>3, <2>6, <2>7
<1>2. \A n \in e..m : 2 ^ n = 2 ^ e * 2 ^ (n - e)
  <2> DEFINE Bad == {n \in e..m : 2 ^ n # 2 ^ e * 2 ^ (n - e)}
  <2> SUFFICES ASSUME Bad # {} PROVE FALSE
    OBVIOUS
  <2>0. e \in 0..Finest /\ e \in Int /\ m \in Int BY <1>0
  <2>1. Bad \in SUBSET (e..m) BY <2>0
  <2> HIDE DEF Bad
  <2>2. PICK n \in Bad : \A c \in Bad : n <= c
    BY <2>0, <2>1, LeastOf
  <2>3. n \in e..m /\ 2 ^ n # 2 ^ e * 2 ^ (n - e) BY <2>2 DEF Bad
  <2>4. n # e
    <3> SUFFICES ASSUME n = e PROVE FALSE
      OBVIOUS
    <3>1. n - e = 0 BY <2>0
    <3>2. 2 ^ (n - e) = 1 BY <3>1, PowersAssumption
    <3>3. 2 ^ n = 2 ^ e OBVIOUS
    <3> DEFINE p == 2 ^ e
    <3>4. p \in Nat BY <1>1, <2>0
    <3> HIDE DEF p
    <3>5. p = p * 1 BY <3>4
    <3> QED BY <2>3, <3>2, <3>3, <3>5 DEF p
  <2>5. /\ n - 1 \in e..m /\ n - 1 \notin Bad /\ (n - 1) + 1 = n /\ n - 1 \in 0..Finest
        /\ (n - 1) - e \in 0..Finest /\ ((n - 1) - e) + 1 = n - e
    BY <1>0, <2>0, <2>2, <2>3, <2>4
  <2>6. 2 ^ (n - 1) = 2 ^ e * 2 ^ ((n - 1) - e) BY <2>5 DEF Bad
  <2>7. 2 ^ n = 2 * 2 ^ (n - 1) BY <2>5, PowersAssumption
  <2>8. 2 ^ (n - e) = 2 * 2 ^ ((n - 1) - e) BY <2>5, PowersAssumption
  <2> DEFINE a == 2 ^ e
             b == 2 ^ ((n - 1) - e)
  <2>9. a \in Nat /\ b \in Nat BY <1>1, <2>0, <2>5
  <2>10. 2 ^ n = 2 * (a * b) /\ 2 ^ (n - e) = 2 * b BY <2>6, <2>7, <2>8
  <2> HIDE DEF a, b
  <2>11. 2 * (a * b) = a * (2 * b) BY <2>9, SMT
  <2> QED BY <2>3, <2>10, <2>11 DEF a
<1> QED BY <1>0, <1>1, <1>2

(* The half of a voxel is a power of two, or 0 below the finest units.     *)
LEMMA HalfIs ==
  ASSUME NEW m \in 0..Finest, RootHalf = 2 ^ m, NEW d \in 0..Finest, NEW x
  PROVE  Half(<<d, x>>) = IF d <= m THEN 2 ^ (m - d) ELSE 0
<1>0. Finest \in Nat /\ m \in Nat /\ d \in Nat BY IndexConstants
<1> DEFINE p == 2 ^ d
<1>1. p \in Nat \ {0} /\ 2 ^ m \in Nat \ {0} /\ Half(<<d, x>>) = 2 ^ m \div p
  <2>1. d \in 0..d /\ m \in 0..m BY <1>0
  <2> QED BY <2>1, Powers DEF Half
<1>2. CASE d <= m
  <2> DEFINE q == 2 ^ (m - d)
  <2>1. d \in 0..m /\ m - d \in 0..m BY <1>0, <1>2
  <2>2. 2 ^ m = p * q /\ q \in Nat BY <2>1, Powers
  <2> HIDE DEF p, q
  <2>3. 2 ^ m = p * q + 0 /\ 2 ^ m \in Int /\ 0 \in 0..(p - 1) BY <1>1, <2>2
  <2>4. 2 ^ m \div p = q BY <1>1, <2>2, <2>3, Quotient
  <2> QED BY <1>1, <1>2, <2>4 DEF q
<1>3. CASE ~(d <= m)
  <2> DEFINE t == 2 ^ m
             u == 2 ^ (d - m)
             v == 2 ^ ((d - 1) - m)
  <2>1. m \in 0..d /\ d - m \in 0..d /\ (d - 1) - m \in 0..Finest /\ ((d - 1) - m) + 1 = d - m
        /\ (d - 1) - m \in 0..d
    BY <1>0, <1>3
  <2>2. p = t * u BY <2>1, Powers
  <2>3. u = 2 * v BY <2>1, PowersAssumption
  <2>4. v \in Nat \ {0} BY <2>1, Powers
  <2>5. t \in Nat \ {0} BY <1>1
  <2> HIDE DEF p, t, u, v
  <2>6. t * 1 < t * u
    <3>1. 1 < u /\ u \in Int BY <2>3, <2>4
    <3> QED BY <2>5, <3>1, Strictly
  <2>7. t \in 0..(p - 1) /\ t = p * 0 + t BY <1>1, <2>2, <2>5, <2>6
  <2>8. t \div p = 0 BY <1>1, <2>5, <2>7, Quotient
  <2> QED BY <1>1, <1>3, <2>8 DEF t
<1> QED BY <1>2, <1>3

(* A voxel of half h lies in the one r times its size that contains it.    *)
LEMMA Nested ==
  ASSUME NEW h \in Nat, NEW r \in Nat, NEW y \in Int, NEW t \in 0..(r - 1),
         NEW x \in Int, x = r * y + t,
         NEW H, H = r * h, NEW C, C = (2 * x + 1) * h, NEW A, A = (2 * y + 1) * H
  PROVE  /\ H \in Int /\ C \in Int /\ A \in Int
         /\ A + H >= C + h /\ A - H <= C - h
         /\ A - C <= H - h /\ C - A <= H - h
<1> DEFINE d == r - 2 * t - 1
           u == r * y
           v == y * H
<1>1. d \in Int /\ 1 - r <= d /\ d <= r - 1 OBVIOUS
<1>2. h * (1 - r) <= h * d /\ h * d <= h * (r - 1)
  <2> HIDE DEF d
  <2>1. 1 - r \in Int /\ r - 1 \in Int OBVIOUS
  <2> QED BY <1>1, <2>1, Ordered
<1>3. H \in Int BY SMT
<1>4. u \in Int /\ v \in Int BY <1>3
<1>5. h * u = v BY SMT
<1>6. h * d = H - 2 * (h * t) - h BY SMT
<1>7. C = 2 * (h * u) + 2 * (h * t) + h
  <2>1. C = (2 * (u + t) + 1) * h OBVIOUS
  <2> HIDE DEF u
  <2> QED BY <1>4, <2>1, SMT
<1>8. A = 2 * v + H BY <1>3, SMT
<1>9. h * (1 - r) = h - H /\ h * (r - 1) = H - h BY SMT
<1> DEFINE w == h * t
           e == h * d
<1>10. w \in Int /\ e \in Int BY <1>1, SMT
<1>11. e = H - 2 * w - h /\ C = 2 * v + 2 * w + h /\ h - H <= e /\ e <= H - h
  BY <1>2, <1>5, <1>6, <1>7, <1>9
<1> HIDE DEF d, u, v, w, e
<1> QED BY <1>3, <1>4, <1>8, <1>10, <1>11

(* Where a voxel exceeds the threshold, one that contains it exceeds three *)
(* tenths of it, when the threshold is at most five thirds: the distances  *)
(* of their centres differ by no more than their halves.                   *)
LEMMA ExceedsAbove ==
  ASSUME NEW h \in Nat, NEW H \in Nat, h <= H,
         NEW n \in 3..6, NEW m \in 3..6,
         NEW g \in Nat, NEW G \in Nat, G <= g + (H - h),
         3 * LodNum <= 5 * LodDen,
         h * n * LodDen * 10 > 10 * LodNum * 6 * g
  PROVE  H * m * LodDen * 10 > 3 * LodNum * 6 * G
<1>1. LodNum \in Nat \ {0} /\ LodDen \in Nat \ {0} BY SchedulerConstants
<1> DEFINE p == LodDen * h
           q == LodNum * g
           s == LodDen * H
           l == LodDen * (H - h)
           k == LodNum * (H - h)
           a == LodNum * G
<1>2. p \in Nat /\ q \in Nat /\ s \in Nat /\ l \in Int /\ k \in Int /\ a \in Nat
  BY <1>1, SMT
<1>3. q < p
  <2>1. h * n * LodDen * 10 = 10 * (p * n) /\ 10 * LodNum * 6 * g = 60 * q BY <1>1, SMT
  <2>2. 10 * (p * n) > 60 * q BY <2>1
  <2> HIDE DEF p, q
  <2>3. p * n <= p * 6 BY <1>2, Ordered, n <= 6, n \in Int
  <2>4. p * n \in Int BY <1>2
  <2> DEFINE z == p * n
  <2>5. z \in Int /\ 10 * z > 60 * q /\ z <= p * 6 BY <2>2, <2>3, <2>4
  <2> HIDE DEF z
  <2> QED BY <1>2, <2>5
<1>4. a <= q + k
  <2>1. G \in Int /\ g + (H - h) \in Int BY <1>1
  <2>2. LodNum * G <= LodNum * (g + (H - h)) BY <1>1, <2>1, Ordered
  <2>3. LodNum * (g + (H - h)) = q + k BY <1>1, SMT
  <2> QED BY <2>2, <2>3
<1>5. 3 * k <= 5 * l
  <2> DEFINE z == H - h
  <2>1. z \in Nat OBVIOUS
  <2> HIDE DEF z
  <2>2. z * (3 * LodNum) <= z * (5 * LodDen)
    <3>1. 3 * LodNum \in Int /\ 5 * LodDen \in Int BY <1>1
    <3> QED BY <2>1, <3>1, Ordered
  <2>3. z * (3 * LodNum) = 3 * (LodNum * z) /\ z * (5 * LodDen) = 5 * (LodDen * z)
    BY <1>1, <2>1, SMT
  <2> QED BY <2>2, <2>3 DEF z
<1>6. l = s - p BY <1>1, SMT
<1>7. H * m * LodDen * 10 = 10 * (s * m) /\ 3 * LodNum * 6 * G = 18 * a BY <1>1, SMT
<1> HIDE DEF p, q, s, l, k, a
<1>8. s * 3 <= s * m BY <1>2, Ordered, 3 <= m, m \in Int
<1> DEFINE z == s * m
<1>9. z \in Int /\ s * 3 <= z BY <1>2, <1>8
<1> HIDE DEF z
<1>10. 10 * z > 18 * a BY <1>2, <1>3, <1>4, <1>5, <1>6, <1>9
<1> QED BY <1>7, <1>10 DEF z

(* No voxel of the octree has a fraction for its half.                     *)
LEMMA HalfNat == ASSUME NEW k \in Key PROVE Half(k) \in Nat
<1>1. PICK m \in 0..Finest : RootHalf = 2 ^ m BY RootAssumption
<1>2. k[1] \in 0..Finest /\ k = <<k[1], k[2]>> BY DEF Key
<1>3. Half(k) = IF k[1] <= m THEN 2 ^ (m - k[1]) ELSE 0 BY <1>1, <1>2, HalfIs
<1>4. CASE k[1] <= m
  <2>1. m - k[1] \in 0..m BY <1>2, <1>4, IndexConstants
  <2> QED BY <1>3, <1>4, <2>1, Powers
<1> QED BY <1>3, <1>4

(* What the voxels above that of k, if it has a size, have to do with it   *)
LEMMA VoxelsAbove ==
  ASSUME NEW k \in Key, Half(k) # 0, NEW a \in Above(k)
  PROVE  /\ a[1] < k[1] /\ Half(a) \in Nat /\ Half(k) <= Half(a)
         /\ Center(k) \in Int /\ Center(a) \in Int
         /\ Center(a) + Half(a) >= Center(k) + Half(k)
         /\ Center(a) - Half(a) <= Center(k) - Half(k)
         /\ Center(a) - Center(k) <= Half(a) - Half(k)
         /\ Center(k) - Center(a) <= Half(a) - Half(k)
<1>1. PICK m \in 0..Finest : RootHalf = 2 ^ m BY RootAssumption
<1> DEFINE e == k[1]
           x == k[2]
           h == Half(k)
           H == Half(a)
<1>2. e \in 0..Finest /\ x \in Nat /\ k = <<e, x>> /\ Finest \in Nat
  BY IndexConstants DEF Key
<1>3. PICK d \in 0..(e - 1) : a = <<d, x \div 2 ^ (e - d)>>
  BY DEF Above
<1>4. h = IF e <= m THEN 2 ^ (m - e) ELSE 0 BY <1>1, <1>2, HalfIs
<1>5. e <= m BY <1>4
<1>6. /\ d \in 0..Finest /\ d <= m /\ m - d \in 0..Finest /\ e - d \in 0..(m - d) /\ m - e \in 0..m
      /\ (m - d) - (e - d) = m - e /\ e - d \in Nat \ {0} /\ (e - d) - 1 \in 0..Finest
      /\ ((e - d) - 1) + 1 = e - d /\ e - d \in 0..Finest
  BY <1>2, <1>3, <1>5
<1> DEFINE r == 2 ^ (e - d)
           y == x \div r
           t == x % r
<1>7. H = 2 ^ (m - d)
  BY <1>1, <1>3, <1>6, HalfIs
<1>8. 2 ^ (m - d) = r * 2 ^ (m - e) /\ r \in Nat \ {0}
  <2> DEFINE M == m - d
             E == e - d
  <2>1. M \in 0..Finest /\ E \in 0..M /\ M - E = m - e BY <1>6
  <2> HIDE DEF M, E
  <2>2. 2 ^ E \in Nat \ {0} /\ 2 ^ M = 2 ^ E * 2 ^ (M - E) BY <2>1, Powers
  <2> QED BY <2>1, <2>2 DEF M, E
<1>9. H = r * h /\ h \in Nat
  <2>1. 2 ^ (m - e) \in Nat BY <1>6, Powers
  <2> QED BY <1>4, <1>5, <1>7, <1>8, <2>1
<1>10. a[1] = d /\ a[2] = y BY <1>3
<1>11. Center(k) = (2 * x + 1) * h /\ Center(a) = (2 * y + 1) * H
  BY <1>10 DEF Center
<1> HIDE DEF h, H, r
<1>12. y \in Int /\ t \in 0..(r - 1) /\ x = r * y + t
  BY <1>2, <1>8, DivMod
<1> HIDE DEF y, t
<1> DEFINE C == Center(k)
           A == Center(a)
<1>13. C = (2 * x + 1) * h /\ A = (2 * y + 1) * H BY <1>11
<1> HIDE DEF C, A
<1>14. x \in Int BY <1>2
<1> HIDE DEF x
<1>15. /\ H \in Int /\ C \in Int /\ A \in Int
       /\ A + H >= C + h /\ A - H <= C - h
       /\ A - C <= H - h /\ C - A <= H - h
  BY <1>8, <1>9, <1>12, <1>13, <1>14, Nested
<1>16. H \in Nat /\ h <= H
  <2>1. h * 1 <= h * r BY <1>8, <1>9, Ordered
  <2>2. r * h = h * r /\ h * 1 = h BY <1>8, <1>9, SMT
  <2> QED BY <1>9, <1>15, <2>1, <2>2
<1>17. a[1] < k[1]
  <2>1. d < e BY <1>2, <1>3
  <2> QED BY <1>10, <2>1
<1> QED BY <1>15, <1>16, <1>17 DEF h, H, C, A

(* Three to six sixths                                                     *)
LEMMA DensityIs == ASSUME NEW n PROVE Density(n) \in 3..6
BY DEF Density

(* Further away by no more than s                                          *)
LEMMA GapsDiffer ==
  ASSUME NEW a \in Int, NEW c \in Int, NEW v \in Int, NEW s \in Nat, a - c <= s, c - a <= s
  PROVE  /\ Greater(Gap(c, v), 1) \in Nat /\ Greater(Gap(a, v), 1) \in Nat
         /\ Greater(Gap(a, v), 1) <= Greater(Gap(c, v), 1) + s
BY DEF Greater, Gap

(* A tile worth its points is reached by way of all the nodes above it:    *)
(* recursesInto lets the search pass each, if only for the three tenths.   *)
LEMMA DeservingSelected ==
  ASSUME 3 * LodNum <= 5 * LodDen, DOMAIN nodes \subseteq Key, view \in Views,
         NEW k \in DOMAIN nodes, Deserving(k)
  PROVE  k \in Selected
<1>1. /\ Present(k) /\ Fetchable(k) /\ InFrustum(k) /\ Exceeds(k, 10) /\ k[1] <= MaxDepth
      /\ \A a \in Above(k) : Present(a) /\ ~Sparse(a)
  BY DEF Deserving
<1>2. k \in Key /\ k[1] \in Nat /\ MaxDepth \in Nat
  BY SchedulerConstants DEF Key
<1>3. view.at \in Int /\ view.low \in Int /\ view.high \in Int BY ViewsAssumption
<1>4. Half(k) # 0
  <2> DEFINE h == Half(k)
             n == Density(Points(k))
             G == Greater(Gap(Center(k), view.at), 1)
  <2>1. h * n * LodDen * 10 > 10 * LodNum * 6 * G BY <1>1 DEF Exceeds
  <2> SUFFICES ASSUME h = 0 PROVE FALSE
    OBVIOUS
  <2>2. n \in Int BY DensityIs
  <2>3. G \in Nat
    <3>1. Center(k) = 0 BY <1>2 DEF Center, Key
    <3> QED BY <1>3, <3>1 DEF Greater, Gap
  <2>4. LodNum \in Nat /\ LodDen \in Nat BY SchedulerConstants
  <2> HIDE DEF h, n, G
  <2>5. h * n * LodDen * 10 = 0 BY <2>2, <2>4
  <2>6. LodNum * G >= 0 BY <2>3, <2>4
  <2>7. 10 * LodNum * 6 * G = 60 * (LodNum * G) BY <2>3, <2>4, SMT
  <2> QED BY <2>1, <2>3, <2>4, <2>5, <2>6, <2>7
<1>5. ASSUME NEW a \in Above(k) PROVE Present(a) /\ InFrustum(a) /\ Recurses(a)
  <2> DEFINE h == Half(k)
             H == Half(a)
             C == Center(k)
             A == Center(a)
             g == Greater(Gap(C, view.at), 1)
             G == Greater(Gap(A, view.at), 1)
             n == Density(Points(k))
             m == Density(Points(a))
  <2>1. /\ a[1] < k[1] /\ h \in Nat /\ H \in Nat /\ h <= H /\ C \in Int /\ A \in Int
        /\ A + H >= C + h /\ A - H <= C - h /\ A - C <= H - h /\ C - A <= H - h
    BY <1>2, <1>4, HalfNat, VoxelsAbove
  <2>2. C + h >= view.low /\ C - h <= view.high BY <1>1 DEF InFrustum
  <2>3. h * n * LodDen * 10 > 10 * LodNum * 6 * g BY <1>1 DEF Exceeds
  <2>4. n \in 3..6 /\ m \in 3..6 BY DensityIs
  <2>5. (H * m * LodDen * 10 > 3 * LodNum * 6 * G) => Exceeds(a, 3) BY DEF Exceeds
  <2>6. (A + H >= view.low /\ A - H <= view.high) => InFrustum(a) BY DEF InFrustum
  <2>7. a[1] < MaxDepth
    <3>1. PICK d \in 0..(k[1] - 1) : a[1] = d BY DEF Above
    <3> QED BY <1>1, <1>2, <2>1, <3>1
  <2> HIDE DEF h, H, C, A, n, m
  <2>8. g \in Nat /\ G \in Nat /\ G <= g + (H - h)
    <3>1. H - h \in Nat BY <2>1
    <3> QED BY <1>3, <2>1, <3>1, GapsDiffer
  <2> HIDE DEF g, G
  <2>9. Exceeds(a, 3) BY <2>1, <2>3, <2>4, <2>5, <2>8, ExceedsAbove
  <2>10. A + H >= view.low /\ A - H <= view.high BY <1>3, <2>1, <2>2
  <2>11. Present(a) /\ ~Sparse(a) BY <1>1
  <2> QED BY <2>6, <2>7, <2>9, <2>10, <2>11 DEF Recurses
<1> QED BY <1>1, <1>5 DEF Selected, Reached, Detailed

(* The views and the keys are such that the search misses nothing.         *)
LEMMA TreeSelects == ASSUME 3 * LodNum <= 5 * LodDen PROVE TreeInv => SelectionComplete
<1> SUFFICES ASSUME TreeInv, view # NoView, NEW k \in DOMAIN nodes, Deserving(k)
             PROVE  k \in Selected
  BY DEF SelectionComplete
<1>1. DOMAIN nodes \subseteq Key /\ view \in Views BY DEF TreeInv, Shape
<1> QED BY <1>1, DeservingSelected

(* selectVisibleTiles finds every tile that is worth its points, however   *)
(* deep it lies, if lodThreshold is at most five thirds (it is 0.002 by    *)
(* default): the slack of three tenths with which the search descends is   *)
(* enough for any view, any position of the camera and any point counts.   *)
(* Beyond that a near node can be worth its points where one far above it, *)
(* whose centre is further away, misses even three tenths.                 *)
THEOREM SearchMissesNothing ==
  ASSUME 3 * LodNum <= 5 * LodDen
  PROVE  Spec => []SelectionComplete
BY TreeSelects, TreeInitial, TreeNext, PTL DEF Spec
=============================================================================
