---------------------------- MODULE MCPointRing ----------------------------
(* Constant values for model checking PointRing.                           *)
EXTENDS PointRing

P(z, attrs) == [z |-> z, attrs |-> attrs]
Field(k, v) == [x \in {k} |-> v]

(* Importance: the value of the importance field, 1 when it is absent.     *)
MCImportance(attrs, f) == IF f \in DOMAIN attrs THEN attrs[f] ELSE 1

(* cellKey with a cell of two units and keys that wrap after two cells.    *)
MCCell(z) == (z \div 2) % 2
MCCellKeys == {0, 1}

(* Importance, halved by every tick of age, divided by the cell's density. *)
MCScore(imp, age, density) == (24 * imp) \div (density * (2 ^ age))
PlainScore(imp, age, density) == imp

ThreeWeights == {P(0, Field("i", 1)), P(0, Field("i", 2)), P(0, Field("i", 3))}
MixedCells == {P(0, NoAttrs), P(2, Field("a", 2)), P(4, Field("a", 1))}
=============================================================================
