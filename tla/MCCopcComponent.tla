-------------------------- MODULE MCCopcComponent --------------------------
(* Constant values for CopcComponent: two files that share the root r, one   *)
(* with a hollow node and a tile too large for the atlas, over two slots of  *)
(* one tier.  Number 1 is node a of one file and node m of the other.        *)
EXTENDS CopcComponent

MCSlots == 0..1
MCTierOf == [s \in MCSlots |-> "small"]
MCTierFor == [n \in Keys |-> IF n = "m" THEN NoTier ELSE "small"]
MCSlotOrder == [t \in Tiers |-> <<0, 1>>]
MCNodesOf == [f \in Files |-> IF f = "A" THEN {"r", "a", "b", "c"} ELSE {"r", "m", "h"}]
Number(order) == [k \in {order[i] : i \in DOMAIN order} |-> (CHOOSE i \in DOMAIN order : order[i] = k) - 1]
MCIdOf == [f \in Files |-> IF f = "A" THEN Number(<<"r", "a", "b", "c">>) ELSE Number(<<"r", "m">>)]
MCViews == {{"r"}, {"r", "a", "m", "h"}, {"a", "b", "c"}}
=============================================================================
