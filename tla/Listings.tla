------------------------------ MODULE Listings ------------------------------
(* What filter does to an array, in a form that can be reasoned about.      *)
EXTENDS Integers, Sequences, FiniteSets

(* The n-th of a set of indexes                                            *)
Nth(I, n) == CHOOSE i \in I : Cardinality({j \in I : j <= i}) = n

(* The elements of s that are in S, in their order                         *)
Only(s, S) ==
  LET at == {i \in DOMAIN s : s[i] \in S}
  IN [n \in 1..Cardinality(at) |-> s[Nth(at, n)]]
=============================================================================
