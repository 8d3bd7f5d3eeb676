---------------------------- MODULE MCCopcScenes ----------------------------
(* Constant values for CopcScenes: a root with two children, one of which   *)
(* has two, one of these with a child below the last wave, and a node       *)
(* without points; three slots of one tier.                                 *)
EXTENDS CopcScenes

MCKeyOrder == <<"r", "a", "b", "h", "aa", "ab", "aaa">>
MCDepth == [n \in Nodes |-> CASE n = "r" -> 0 [] n \in {"a", "b", "h"} -> 1 [] n = "aaa" -> 3 [] OTHER -> 2]
MCParentOf == [n \in Nodes \ {"r"} |-> CASE n = "aaa" -> "aa" [] n \in {"aa", "ab"} -> "a" [] OTHER -> "r"]
MCViews == {
  [visible |-> Nodes, fine |-> {"aaa"}, behind |-> {}],
  [visible |-> {"r", "a", "aa", "ab"}, fine |-> {"ab"}, behind |-> {"aa"}],
  [visible |-> Nodes \ {"a"}, fine |-> {"b"}, behind |-> {}]}
MCSlots == 0..2
MCTierOf == [s \in MCSlots |-> "small"]
MCTierFor == [n \in Nodes |-> "small"]
MCSlotOrder == [t \in Tiers |-> <<0, 1, 2>>]
=============================================================================
