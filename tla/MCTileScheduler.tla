-------------------------- MODULE MCTileScheduler --------------------------
(* Files and views for TileScheduler.                                      *)
EXTENDS TileScheduler

Node(d, x, n) == [key |-> <<d, x>>, at |-> 0, size |-> n, points |-> n]
Stub(d, x, p, n) == [key |-> <<d, x>>, at |-> p, size |-> n, points |-> Subtree]
Copc(n) == [copc |-> TRUE, cells |-> n]
Other(n) == [copc |-> FALSE, cells |-> n]

File(vlrs, inHead, pages) ==
  [las |-> TRUE, vlrs |-> vlrs, rootInHead |-> inHead,
   root |-> [at |-> 1, size |-> Len(pages[1])], pages |-> pages]

(* Three pages below the first, one of them two levels down; an oversize   *)
(* node, and one with few points that the next level makes up for.         *)
Tree ==
  << <<Node(0, 0, 99), Stub(1, 0, 2, 2), Stub(1, 1, 3, 1)>>,
     <<Node(1, 0, 2000), Stub(2, 1, 4, 2)>>,
     <<Node(1, 1, 20)>>,
     <<Node(2, 1, 20), Node(3, 3, 999)>> >>
Small == << <<Stub(0, 0, 2, 2)>>, <<Node(0, 0, 99), Node(1, 1, 0)>> >>

(* A page two stubs name, one that refers back to the root, an empty stub, *)
(* one outside the file, and a node without points.                        *)
Tangled ==
  << <<Node(0, 0, 99), Stub(1, 0, 2, 2), Stub(1, 1, 2, 2)>>,
     <<Node(1, 0, 0), Stub(0, 0, 1, 3)>> >>
Broken == << <<Node(0, 0, 99), Stub(1, 0, 1, 0), Stub(1, 1, 7, 1)>> >>

(* A page that names a key twice, and a stub that overstates its page      *)
Repeated ==
  << <<Node(0, 0, 99), Stub(1, 0, 2, 1), Stub(1, 1, 2, 3), Stub(1, 0, 2, 2)>>,
     <<Node(1, 0, 20), Stub(1, 0, 3, 1)>>,
     <<Node(1, 0, 30)>> >>

MCFiles ==
  {File(<<Copc(2)>>, TRUE, Tree), File(<<Other(1), Copc(2)>>, FALSE, Small),
   File(<<Copc(2)>>, TRUE, Tangled), File(<<Copc(2)>>, TRUE, Repeated), File(<<Copc(2)>>, FALSE, Broken),
   File(<<Copc(1)>>, TRUE, Broken), File(<<Other(3), Copc(2)>>, TRUE, Broken),
   [File(<<Copc(2)>>, TRUE, Broken) EXCEPT !.las = FALSE]}

(* Far from the octree, looking at all of it; and close to its second half *)
MCViews == {[at |-> 56, ahead |-> 50, low |-> 0, high |-> 16],
            [at |-> 6, ahead |-> 6, low |-> 4, high |-> 11]}
=============================================================================
