----------------------------- MODULE Retention -----------------------------
(***************************************************************************)
(* What PointBuffer promises its users, without slots, head, swaps, stamps *)
(* or index: a bounded set of points, each unchanged for as long as it is  *)
(* kept.  When the set is full, either the newcomer is turned away, or one *)
(* of the `window` oldest points makes room: one no other of them scores   *)
(* below.  With window = 1 this is a first-in first-out queue.             *)
(***************************************************************************)
EXTENDS Integers, FiniteSets

CONSTANTS MaxPoints, Cell(_), Score(_, _, _)

VARIABLES kept,    \* [seq, z, attrs, imp, ts] records; seq is the age order
          limit,   \* how many can be kept now
          dropped, \* how many were dropped since the last reset
          window,  \* how many of the oldest are candidates for eviction
          mode,    \* which points go when it is full
          now

retained == <<kept, limit, dropped>>

Older(r) == {q \in kept : q.seq < r.seq}
Candidates == {r \in kept : Cardinality(Older(r)) < window}
Value(r) == Score(r.imp, now - r.ts, Cardinality({q \in kept : Cell(q.z) = Cell(r.z)}))
Newest(r) == /\ kept' \ kept = {r}
             /\ \A q \in kept : q.seq < r.seq

Keep == /\ Cardinality(kept) < limit
        /\ \E r \in kept' : Newest(r) /\ kept' = kept \cup {r}
        /\ UNCHANGED <<limit, dropped>>

Displace == /\ mode = "drop-oldest" /\ Cardinality(kept) = limit
            /\ \E r \in kept', victim \in Candidates :
                 /\ \A other \in Candidates \ {victim} : Value(victim) <= Value(other)
                 /\ Newest(r) /\ kept' = (kept \ {victim}) \cup {r}
            /\ dropped' = dropped + 1
            /\ UNCHANGED limit

TurnAway == /\ mode = "drop-newest" /\ Cardinality(kept) = limit
            /\ dropped' = dropped + 1
            /\ UNCHANGED <<kept, limit>>

Raise == /\ limit' \in (limit + 1)..MaxPoints
         /\ UNCHANGED <<kept, dropped>>

Clear == /\ kept' = {} /\ dropped' = 0
         /\ UNCHANGED limit

Init == kept = {} /\ limit \in 1..MaxPoints /\ dropped = 0
Next == Keep \/ Displace \/ TurnAway \/ Raise \/ Clear
Spec == Init /\ [][Next]_retained
=============================================================================
