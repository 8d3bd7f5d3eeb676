-------------------------- MODULE IngestHookProofs --------------------------
(***************************************************************************)
(* What the ingest worker's bridge and the hook over it keep in order,     *)
(* proved for every capacity, bound, cull, callback and remount.  The two  *)
(* specifications share the actions of the bridge: one invariant of the    *)
(* bridge, `Line`, is kept by all of them and used by both.                *)
(***************************************************************************)
EXTENDS IngestHook, IndexSets

Item == [id : Int, pts : Seq(Nat)]

Rising(pts) == \A i, j \in DOMAIN pts : i < j => pts[i] < pts[j]
Precede(P, Q) == \A p \in P, q \in Q : p < q
Points(item) == Range(item.pts)
Held == Range(requests) \cup Range(replies)
Waiting == Range(queue)

(* The points of the queue rise within each request and from one to the    *)
(* next.                                                                   *)
Sorted(items) ==
  /\ \A i \in DOMAIN items : Rising(items[i].pts)
  /\ \A i, j \in DOMAIN items : i < j => Precede(Points(items[i]), Points(items[j]))

Types ==
  /\ nextId \in Nat /\ minId \in Nat /\ nextRef \in Nat /\ posted \in Nat /\ mark \in Nat
  /\ active \in BOOLEAN /\ inFlight \in BOOLEAN /\ errors \in Nat
  /\ queue \in Seq(Item) /\ requests \in Seq(Item) /\ replies \in Seq(Item)
  /\ ingested \in Seq(Nat)
  /\ mark <= posted /\ nextId <= nextRef

(* The points handed over are in order and were posted.                    *)
Delivered == Rising(ingested) /\ \A p \in Range(ingested) : p <= posted

(* One request is with the worker, or none.                                *)
OneHeld ==
  /\ inFlight => Len(requests) + Len(replies) = 1
  /\ ~inFlight => requests = <<>> /\ replies = <<>>

(* What is held or waits was numbered, posted and not handed over; what    *)
(* waits comes after what is held.                                         *)
InLine ==
  /\ \A x \in Held : Rising(x.pts)
  /\ \A x \in Held \cup Waiting : x.id < nextId /\ Precede(Range(ingested), Points(x))
  /\ \A x \in Held \cup Waiting : \A p \in Points(x) : p <= posted
  /\ \A x \in Held, y \in Waiting : Precede(Points(x), Points(y))
  /\ Sorted(queue)

(* The queue holds no point from before a reset.                           *)
QueueFresh == \A x \in Waiting : \A p \in Points(x) : p > mark

Line ==
  /\ Types /\ Delivered
  /\ active => OneHeld /\ InLine /\ QueueFresh
  /\ ~active => queue = <<>> /\ requests = <<>>

-----------------------------------------------------------------------------
(* Sequences *)

(* A full queue is not empty.                                              *)
LEMMA FullIsNotEmpty == ASSUME NEW s, Len(s) >= MaxQueued PROVE s # <<>>
<1>1. MaxQueued \in Nat \ {0} BY BridgeConstants
<1>2. Len(<<>>) = 0 OBVIOUS
<1> QED BY <1>1, <1>2

(* Two rising sequences joined rise if the first precedes the second.      *)
LEMMA JoinedRises ==
  ASSUME NEW s \in Seq(Nat), NEW t \in Seq(Nat), Rising(s), Rising(t),
         Precede(Range(s), Range(t))
  PROVE  Rising(s \o t)
<1>1. /\ s \o t \in Seq(Nat) /\ Len(s \o t) = Len(s) + Len(t)
      /\ \A i \in 1..(Len(s) + Len(t)) :
           (s \o t)[i] = IF i <= Len(s) THEN s[i] ELSE t[i - Len(s)]
      /\ Len(s) \in Nat /\ Len(t) \in Nat
  BY ConcatProperties
<1> DEFINE u == s \o t
<1>2. DOMAIN u = 1..(Len(s) + Len(t)) /\ DOMAIN s = 1..Len(s) /\ DOMAIN t = 1..Len(t)
  BY <1>1
<1> SUFFICES ASSUME NEW i \in DOMAIN u, NEW j \in DOMAIN u, i < j PROVE u[i] < u[j]
  BY DEF Rising
<1>3. CASE j <= Len(s)
  BY <1>1, <1>2, <1>3 DEF Rising
<1>4. CASE i > Len(s)
  <2>1. u[i] = t[i - Len(s)] /\ u[j] = t[j - Len(s)] BY <1>1, <1>2, <1>4
  <2>2. i - Len(s) \in DOMAIN t /\ j - Len(s) \in DOMAIN t /\ i - Len(s) < j - Len(s)
    BY <1>1, <1>2, <1>4
  <2> QED BY <2>1, <2>2 DEF Rising
<1>5. CASE i <= Len(s) /\ j > Len(s)
  <2>1. u[i] = s[i] /\ u[j] = t[j - Len(s)] /\ i \in DOMAIN s /\ j - Len(s) \in DOMAIN t
    BY <1>1, <1>2, <1>5
  <2>2. u[i] \in Range(s) /\ u[j] \in Range(t) BY <2>1 DEF Range
  <2> QED BY <2>2 DEF Precede
<1> QED BY <1>1, <1>2, <1>3, <1>4, <1>5

-----------------------------------------------------------------------------
(* The queue *)

(* A request after all others joins the queue.                             *)
LEMMA SortedAppend ==
  ASSUME NEW q \in Seq(Item), NEW x \in Item, Sorted(q), Rising(x.pts),
         \A y \in Range(q) : Precede(Points(y), Points(x))
  PROVE  Sorted(Append(q, x))
<1>1. /\ DOMAIN Append(q, x) = 1..(Len(q) + 1) /\ Len(q) \in Nat /\ DOMAIN q = 1..Len(q)
      /\ \A i \in 1..Len(q) : Append(q, x)[i] = q[i] /\ q[i] \in Range(q)
      /\ Append(q, x)[Len(q) + 1] = x
  BY AppendProperties, RangeIs
<1> DEFINE r == Append(q, x)
<1> HIDE DEF r
<1>2. ASSUME NEW i \in DOMAIN r PROVE Rising(r[i].pts)
  <2>1. CASE i = Len(q) + 1 BY <2>1, <1>1 DEF r
  <2>2. CASE i \in 1..Len(q) BY <2>2, <1>1 DEF r, Sorted
  <2> QED BY <2>1, <2>2, <1>1 DEF r
<1>3. ASSUME NEW i \in DOMAIN r, NEW j \in DOMAIN r, i < j
      PROVE  Precede(Points(r[i]), Points(r[j]))
  <2>0. i \in 1..Len(q) /\ i \in DOMAIN q BY <1>1, <1>3 DEF r
  <2>1. CASE j = Len(q) + 1 BY <2>0, <2>1, <1>1 DEF r
  <2>2. CASE j \in 1..Len(q) BY <2>0, <2>2, <1>1, <1>3 DEF r, Sorted
  <2> QED BY <2>1, <2>2, <1>1 DEF r
<1> QED BY <1>2, <1>3 DEF Sorted, r

(* The first request leaves the queue.                                     *)
LEMMA SortedTail ==
  ASSUME NEW q \in Seq(Item), q # <<>>, Sorted(q)
  PROVE  /\ Sorted(Tail(q)) /\ Rising(Head(q).pts)
         /\ \A y \in Range(Tail(q)) : Precede(Points(Head(q)), Points(y))
<1>1. /\ Tail(q) \in Seq(Item) /\ Len(Tail(q)) = Len(q) - 1 /\ Len(q) \in Nat \ {0}
      /\ \A i \in 1..(Len(q) - 1) : Tail(q)[i] = q[i + 1]
      /\ Head(q) = q[1]
  BY HeadTailProperties, EmptySeq
<1>2. DOMAIN q = 1..Len(q) /\ DOMAIN Tail(q) = 1..(Len(q) - 1) BY <1>1
<1>3. Range(Tail(q)) = {Tail(q)[i] : i \in 1..(Len(q) - 1)} BY <1>1, RangeIs
<1>4. \A i \in 1..(Len(q) - 1) : i + 1 \in DOMAIN q /\ 1 < i + 1 /\ 1 \in DOMAIN q
  BY <1>1, <1>2
<1>5. \A i, j \in 1..(Len(q) - 1) : i < j => i + 1 < j + 1 BY <1>1
<1>6. Sorted(Tail(q)) BY <1>1, <1>2, <1>4, <1>5 DEF Sorted
<1>7. Rising(Head(q).pts) BY <1>1, <1>2 DEF Sorted
<1>8. \A i \in 1..(Len(q) - 1) : Precede(Points(Head(q)), Points(Tail(q)[i]))
  BY <1>1, <1>2, <1>4 DEF Sorted
<1> QED BY <1>3, <1>6, <1>7, <1>8

(* The last request of the queue takes in the points of one after it.      *)
LEMMA SortedWithLast ==
  ASSUME NEW q \in Seq(Item), q # <<>>, Sorted(q), NEW pts \in Seq(Nat), Rising(pts),
         NEW id \in Int,
         \A y \in Range(q) : Precede(Points(y), Range(pts))
  PROVE  LET x == [id |-> id, pts |-> Last(q).pts \o pts]
         IN /\ WithLast(q, x) \in Seq(Item) /\ Sorted(WithLast(q, x))
            /\ Last(q) \in Range(q) /\ x \in Item /\ Points(x) = Points(Last(q)) \cup Range(pts)
            /\ Range(WithLast(q, x)) \subseteq Range(q) \cup {x}
            /\ Range(q) \subseteq Range(WithLast(q, x)) \cup {Last(q)}
            /\ x \in Range(WithLast(q, x))
<1> DEFINE n == Len(q)
           x == [id |-> id, pts |-> Last(q).pts \o pts]
           r == WithLast(q, x)
<1>1. /\ n \in Nat \ {0} /\ DOMAIN q = 1..n /\ Last(q) = q[n] /\ q[n] \in Item
      /\ Range(q) = {q[i] : i \in 1..n}
  BY EmptySeq, RangeIs DEF Last
<1>2. Last(q).pts \in Seq(Nat) /\ Last(q) \in Range(q)
  <2>1. Last(q) \in Item BY <1>1
  <2>2. Last(q) \in Range(q)
    <3> HIDE DEF n
    <3> QED BY <1>1
  <2> QED BY <2>1, <2>2 DEF Item
<1>3. x \in Item /\ Points(x) = Points(Last(q)) \cup Range(pts)
  BY <1>2, JoinedRange DEF Item, Points
<1>4. Rising(x.pts)
  <2>1. Rising(Last(q).pts) BY <1>1 DEF Sorted
  <2> QED BY <2>1, <1>2, JoinedRises DEF Points
<1> HIDE DEF x
<1>5. /\ r \in Seq(Item) /\ Len(r) = n /\ r[n] = x /\ \A i \in 1..(n - 1) : r[i] = q[i]
  <2>1. n \in 1..n /\ \A i \in 1..(n - 1) : i \in 1..n /\ i # n
    <3>1. n \in Nat \ {0} BY <1>1
    <3> HIDE DEF n
    <3> QED BY <3>1
  <2>2. r = [q EXCEPT ![n] = x] BY DEF WithLast
  <2>3. /\ r \in Seq(Item) /\ Len(r) = n
        /\ \A j \in 1..n : r[j] = IF j = n THEN x ELSE q[j]
    BY <1>3, <2>1, <2>2, ExceptSeq
  <2> QED BY <2>1, <2>3
<1> HIDE DEF r
<1>6. DOMAIN r = 1..n /\ Range(r) = {r[i] : i \in 1..n}
  BY <1>5, RangeIs
<1> HIDE DEF n
<1>7. \A i \in 1..n : (i \in 1..(n - 1) /\ r[i] = q[i]) \/ (i = n /\ r[i] = x)
  BY <1>1, <1>5
<1>8. Range(r) \subseteq Range(q) \cup {x} /\ Range(q) \subseteq Range(r) \cup {Last(q)}
      /\ x \in Range(r)
  BY <1>1, <1>5, <1>6, <1>7
<1>9. Sorted(r)
  <2>1. \A i \in DOMAIN r : Rising(r[i].pts)
    BY <1>1, <1>4, <1>6, <1>7 DEF Sorted
  <2>2. ASSUME NEW i \in DOMAIN r, NEW j \in DOMAIN r, i < j
        PROVE  Precede(Points(r[i]), Points(r[j]))
    <3>1. i \in 1..(n - 1) /\ r[i] = q[i] /\ i \in DOMAIN q /\ q[i] \in Range(q)
      BY <1>1, <1>6, <1>7, <2>2
    <3>2. CASE j # n
      BY <1>1, <1>6, <1>7, <2>2, <3>1, <3>2 DEF Sorted
    <3>3. CASE j = n
      <4>1. Precede(Points(q[i]), Points(Last(q))) BY <1>1, <2>2, <3>1, <3>3 DEF Sorted
      <4>2. Precede(Points(q[i]), Range(pts)) BY <3>1
      <4>3. r[j] = x BY <1>1, <1>5, <3>3
      <4> QED BY <1>3, <3>1, <4>1, <4>2, <4>3 DEF Precede
    <3> QED BY <3>2, <3>3
  <2> QED BY <2>1, <2>2 DEF Sorted
<1> QED BY <1>2, <1>3, <1>5, <1>8, <1>9 DEF r, x

(* What the worker leaves of a rising request rises and is part of it.     *)
LEMMA SurvivorsRise ==
  ASSUME NEW pts \in Seq(Nat), Rising(pts), NEW left \in Survivors(pts)
  PROVE  /\ left \in Seq(Nat) /\ Rising(left) /\ Range(left) \subseteq Range(pts)
         /\ ~Culling => left = pts
<1>1. CASE ~Culling BY <1>1 DEF Survivors
<1>2. CASE Culling
  <2>1. PICK c \in Choices(Len(pts)) : left = [i \in DOMAIN c |-> pts[c[i]]]
    BY <1>2 DEF Survivors
  <2>2. PICK k \in 0..Len(pts) : c \in [1..k -> 1..Len(pts)]
    BY <2>1 DEF Choices
  <2>3. \A i \in 1..k : c[i] \in 1..Len(pts) /\ pts[c[i]] \in Nat /\ left[i] = pts[c[i]]
    BY <2>1, <2>2
  <2>4. DOMAIN c = 1..k /\ DOMAIN left = 1..k /\ k \in Nat /\ DOMAIN pts = 1..Len(pts)
    BY <2>1, <2>2
  <2>5. left \in [1..k -> Nat]
    BY <2>1, <2>3, <2>4
  <2>6. left \in Seq(Nat) BY <2>4, <2>5, SeqDef
  <2>7. \A i, j \in 1..k : i < j => c[i] < c[j] BY <2>1, <2>4 DEF Choices
  <2>8. Rising(left) BY <2>3, <2>4, <2>7 DEF Rising
  <2>9. Range(left) \subseteq Range(pts) BY <2>3, <2>4 DEF Range
  <2> QED BY <1>2, <2>6, <2>8, <2>9
<1> QED BY <1>1, <1>2

(* A chunk, and what is left of it under pressure, is new points in order. *)
LEMMA ChunkRises ==
  ASSUME NEW m \in Nat, NEW n \in Nat
  PROVE  LET pts == [i \in 1..n |-> m + i]
         IN /\ pts \in Seq(Nat) /\ Len(pts) = n /\ Rising(pts)
            /\ Range(pts) = (m + 1)..(m + n)
<1> DEFINE pts == [i \in 1..n |-> m + i]
<1>1. pts \in [1..n -> Nat] /\ DOMAIN pts = 1..n /\ \A i \in 1..n : pts[i] = m + i
  OBVIOUS
<1> HIDE DEF pts
<1>2. pts \in Seq(Nat) BY <1>1, SeqDef
<1>3. Len(pts) = n
  <2>1. Len(pts) \in Nat /\ DOMAIN pts = 1..Len(pts) BY <1>2, LenProperties
  <2> QED BY <1>1, <2>1
<1>4. Rising(pts) BY <1>1 DEF Rising
<1>5. ASSUME NEW p \in (m + 1)..(m + n) PROVE p \in Range(pts)
  <2>1. p - m \in 1..n /\ pts[p - m] = p BY <1>1
  <2> QED BY <2>1, <1>1 DEF Range
<1>6. ASSUME NEW p \in Range(pts) PROVE p \in (m + 1)..(m + n)
  <2>1. PICK i \in 1..n : p = pts[i] BY <1>1 DEF Range
  <2> QED BY <2>1, <1>1
<1> QED BY <1>2, <1>3, <1>4, <1>5, <1>6 DEF pts

LEMMA DownsampledRises ==
  ASSUME NEW pts \in Seq(Nat), Rising(pts), NEW left \in Downsampled(pts)
  PROVE  left \in Seq(Nat) /\ Rising(left) /\ Range(left) \subseteq Range(pts)
<1>1. PICK stride \in {1, 2, 4} :
        left = [i \in 1..((Len(pts) + stride - 1) \div stride) |-> pts[stride * (i - 1) + 1]]
  BY DEF Downsampled
<1> DEFINE k == (Len(pts) + stride - 1) \div stride
<1>2. Len(pts) \in Nat /\ DOMAIN pts = 1..Len(pts) OBVIOUS
<1>3. /\ k \in Nat
      /\ \A i \in 1..k : stride * (i - 1) + 1 \in 1..Len(pts)
      /\ \A i, j \in 1..k : i < j => stride * (i - 1) + 1 < stride * (j - 1) + 1
  <2>1. CASE stride = 1 BY <2>1, <1>2
  <2>2. CASE stride = 2 BY <2>2, <1>2
  <2>3. CASE stride = 4 BY <2>3, <1>2
  <2> QED BY <2>1, <2>2, <2>3
<1>4. left = [i \in 1..k |-> pts[stride * (i - 1) + 1]] BY <1>1
<1> HIDE DEF k
<1>5. left \in [1..k -> Nat] /\ DOMAIN left = 1..k BY <1>3, <1>4
<1>6. left \in Seq(Nat) BY <1>3, <1>5, SeqDef
<1>7. Rising(left) BY <1>2, <1>3, <1>4, <1>5 DEF Rising
<1>8. Range(left) \subseteq Range(pts) BY <1>2, <1>3, <1>4, <1>5 DEF Range
<1> QED BY <1>6, <1>7, <1>8

-----------------------------------------------------------------------------
(* The bridge's steps keep Line                                            *)

LEMMA LineInit == Init => Line
<1> SUFFICES ASSUME Init PROVE Line
  OBVIOUS
<1>1. <<>> \in Seq(Item) /\ <<>> \in Seq(Nat) /\ Range(<<>>) = {}
  BY EmptySeq, EmptyRange
<1>2. Rising(<<>>) BY DEF Rising
<1>3. active \in BOOLEAN /\ inFlight \in BOOLEAN BY DEF Init
<1>4. Types
  BY <1>1, <1>3 DEF Init, Types
<1>5. Delivered BY <1>1, <1>2 DEF Init, Delivered
<1>6. OneHeld /\ InLine /\ QueueFresh
  BY <1>1 DEF Init, OneHeld, InLine, QueueFresh, Held, Waiting, Sorted
<1> QED BY <1>4, <1>5, <1>6 DEF Line, Init

(* A new request is numbered next and comes after every point there is.    *)
LEMMA NewRequest ==
  ASSUME Line, NEW n \in Nat,
         NEW item, item = [id |-> nextId, pts |-> [i \in 1..n |-> posted + i]]
  PROVE  /\ item \in Item /\ Rising(item.pts) /\ Points(item) = (posted + 1)..(posted + n)
         /\ item.id = nextId /\ item.pts \in Seq(Nat)
         /\ active => \A y \in Held \cup Waiting : Precede(Points(y), Points(item))
         /\ Precede(Range(ingested), Points(item))
<1>1. posted \in Nat /\ nextId \in Nat BY DEF Line, Types
<1>2. /\ item.pts \in Seq(Nat) /\ Rising(item.pts) /\ Range(item.pts) = (posted + 1)..(posted + n)
      /\ item.id = nextId
  BY <1>1, ChunkRises
<1>3. item \in Item BY <1>1, <1>2 DEF Item
<1>4. \A p \in Range(ingested) : p \in Nat /\ p <= posted
  BY RangeIs DEF Line, Types, Delivered
<1>5. Precede(Range(ingested), Points(item))
  BY <1>1, <1>2, <1>4 DEF Precede, Points
<1>6. ASSUME active, NEW y \in Held \cup Waiting PROVE Precede(Points(y), Points(item))
  <2>1. y \in Item
    BY RangeIs DEF Line, Types, Held, Waiting
  <2>2. \A p \in Points(y) : p \in Nat /\ p <= posted
    BY <1>6, <2>1, RangeIs DEF Line, InLine, Points, Item
  <2> QED BY <1>1, <1>2, <2>2 DEF Precede, Points
<1> QED BY <1>2, <1>3, <1>5, <1>6 DEF Points

LEMMA PostLine == ASSUME Line, Post PROVE Line'
<1>1. PICK n \in 1..MaxPost :
        /\ LET item == [id |-> nextId, pts |-> [i \in 1..n |-> posted + i]]
           IN Dispatch(item) \/ Coalesce(item) \/ Enqueue(item) \/ DropOldest(item)
        /\ posted' = posted + n
  BY DEF Post
<1>2. /\ active /\ active' = active /\ nextId' = nextId + 1 /\ nextRef' = nextId + 1
      /\ UNCHANGED <<minId, replies, ingested, mark, errors>>
  BY DEF Post, countVars
<1> DEFINE item == [id |-> nextId, pts |-> [i \in 1..n |-> posted + i]]
<1>3. n \in Nat /\ n > 0 BY SMT
<1>4. /\ item \in Item /\ Rising(item.pts) /\ Points(item) = (posted + 1)..(posted + n)
      /\ item.id = nextId /\ item.pts \in Seq(Nat)
      /\ \A y \in Held \cup Waiting : Precede(Points(y), Points(item))
      /\ Precede(Range(ingested), Points(item))
  BY <1>2, <1>3, NewRequest
<1>5. Dispatch(item) \/ Coalesce(item) \/ Enqueue(item) \/ DropOldest(item)
  BY <1>1
<1> HIDE DEF item
<1>6. /\ nextId \in Nat /\ posted \in Nat /\ mark \in Nat /\ minId \in Nat /\ errors \in Nat
      /\ queue \in Seq(Item) /\ requests \in Seq(Item) /\ replies \in Seq(Item)
      /\ inFlight \in BOOLEAN /\ ingested \in Seq(Nat) /\ mark <= posted
      /\ OneHeld /\ InLine /\ QueueFresh
  BY <1>2 DEF Line, Types
<1>7. Delivered'
  <2>1. \A p \in Range(ingested) : p \in Nat /\ p <= posted
    BY RangeIs DEF Line, Types, Delivered
  <2> QED BY <1>1, <1>2, <1>3, <1>6, <2>1 DEF Line, Delivered
<1>8. \A y \in Held \cup Waiting : y.id < nextId' /\ \A p \in Points(y) : p \in Nat /\ p <= posted'
  <2> SUFFICES ASSUME NEW y \in Held \cup Waiting
               PROVE  y.id < nextId' /\ \A p \in Points(y) : p \in Nat /\ p <= posted'
    OBVIOUS
  <2>1. y \in Item BY <1>6, RangeIs DEF Held, Waiting
  <2>2. y.id \in Int /\ y.id < nextId /\ \A p \in Points(y) : p \in Nat /\ p <= posted
    BY <1>6, <2>1, RangeIs DEF InLine, Points, Item
  <2> QED BY <1>1, <1>2, <1>3, <1>6, <2>2
<1>9. item.id < nextId' /\ \A p \in Points(item) : p \in Nat /\ p <= posted' /\ p > mark
  BY <1>1, <1>2, <1>3, <1>4, <1>6
<1>10. ASSUME queue' \in Seq(Item), requests' \in Seq(Item), inFlight' \in BOOLEAN
       PROVE  Types'
  BY <1>1, <1>2, <1>3, <1>6, <1>10 DEF Types
<1>11. CASE Dispatch(item)
  <2>1. /\ ~inFlight /\ queue = <<>> /\ queue' = <<>> /\ inFlight' = TRUE
        /\ requests = <<>> /\ replies = <<>> /\ requests' = Append(<<>>, item)
    BY <1>6, <1>11 DEF Dispatch, Send, OneHeld
  <2>2. requests' \in Seq(Item) /\ Range(requests') = {item} /\ Len(requests') = 1
    <3>1. requests' = Append(requests, item) /\ Len(requests) = 0
      BY <1>11, <2>1, EmptySeq DEF Dispatch, Send
    <3>2. Range(Append(requests, item)) = Range(requests) \cup {item}
          /\ Append(requests, item) \in Seq(Item)
      BY <1>4, <1>6, AppendedRange
    <3>3. Len(Append(requests, item)) = Len(requests) + 1
      BY <1>4, <1>6, AppendProperties
    <3> QED BY <2>1, <3>1, <3>2, <3>3, EmptyRange
  <2>3. Held' = {item} /\ Waiting' = {}
    BY <1>2, <2>1, <2>2, EmptyRange DEF Held, Waiting
  <2>4. OneHeld'
    BY <1>2, <2>1, <2>2, EmptySeq DEF OneHeld
  <2>5. InLine'
    BY <1>2, <1>4, <1>9, <2>1, <2>3 DEF InLine, Sorted
  <2>6. QueueFresh' BY <2>3 DEF QueueFresh
  <2>7. Types' BY <1>6, <1>10, <2>1, <2>2
  <2> QED BY <1>2, <1>7, <2>4, <2>5, <2>6, <2>7 DEF Line
<1>12. CASE Coalesce(item)
  <2> DEFINE x == [id |-> item.id, pts |-> Last(queue).pts \o item.pts]
  <2>1. /\ queue # <<>> /\ queue' = WithLast(queue, x)
        /\ UNCHANGED <<inFlight, requests>>
    BY <1>12 DEF Coalesce, Fits
  <2>2. \A y \in Range(queue) : Precede(Points(y), Range(item.pts))
    BY <1>4 DEF Waiting, Points
  <2>3. Sorted(queue) BY <1>6 DEF InLine
  <2>4. item.id \in Int BY <1>4, <1>6
  <2>5. /\ queue' \in Seq(Item) /\ Sorted(queue')
        /\ Last(queue) \in Waiting /\ Points(x) = Points(Last(queue)) \cup Points(item)
        /\ Waiting' \subseteq Waiting \cup {x}
    BY <1>4, <1>6, <2>1, <2>2, <2>3, <2>4, SortedWithLast DEF Waiting, Points
  <2>6. Held' = Held BY <1>2, <2>1 DEF Held
  <2>7. OneHeld' BY <1>2, <1>6, <2>1 DEF OneHeld
  <2>8. x.id = nextId BY <1>4
  <2> HIDE DEF x
  <2>9. x.id < nextId' /\ \A p \in Points(x) : p <= posted' /\ p > mark
    BY <1>2, <1>6, <1>8, <1>9, <2>5, <2>8 DEF QueueFresh
  <2>10. Precede(Range(ingested), Points(x)) /\ \A y \in Held : Precede(Points(y), Points(x))
    BY <1>4, <1>6, <2>5 DEF InLine, Precede
  <2>11. InLine'
    BY <1>2, <1>6, <1>8, <2>5, <2>6, <2>9, <2>10 DEF InLine
  <2>12. QueueFresh' BY <1>2, <1>6, <2>5, <2>9 DEF QueueFresh
  <2>13. Types' BY <1>6, <1>10, <2>1, <2>5
  <2> QED BY <1>2, <1>7, <2>7, <2>11, <2>12, <2>13 DEF Line
<1>13. CASE Enqueue(item)
  <2>1. queue' = Append(queue, item) /\ UNCHANGED <<inFlight, requests>>
    BY <1>13 DEF Enqueue
  <2>2. queue' \in Seq(Item) /\ Waiting' = Waiting \cup {item}
    BY <1>4, <1>6, <2>1, AppendedRange DEF Waiting
  <2>3. Sorted(queue')
    BY <1>4, <1>6, <2>1, SortedAppend DEF Waiting, InLine
  <2>4. Held' = Held BY <1>2, <2>1 DEF Held
  <2>5. OneHeld' BY <1>2, <1>6, <2>1 DEF OneHeld
  <2>6. InLine'
    BY <1>2, <1>4, <1>6, <1>8, <1>9, <2>2, <2>3, <2>4 DEF InLine
  <2>7. QueueFresh' BY <1>2, <1>6, <1>9, <2>2 DEF QueueFresh
  <2>8. Types' BY <1>6, <1>10, <2>1, <2>2
  <2> QED BY <1>2, <1>7, <2>5, <2>6, <2>7, <2>8 DEF Line
<1>14. CASE DropOldest(item)
  <2>1. queue' = Append(Tail(queue), item) /\ UNCHANGED <<inFlight, requests>>
    BY <1>14 DEF DropOldest
  <2>2. queue # <<>>
    <3>1. Len(queue) >= MaxQueued BY <1>14 DEF DropOldest
    <3> QED BY <3>1, FullIsNotEmpty, Zenon
  <2>3. Tail(queue) \in Seq(Item) /\ Range(Tail(queue)) \subseteq Waiting
    BY <1>6, <2>2, TakenRange DEF Waiting
  <2>4. Sorted(Tail(queue))
    BY <1>6, <2>2, SortedTail DEF InLine
  <2>5. queue' \in Seq(Item) /\ Waiting' = Range(Tail(queue)) \cup {item}
    <3> DEFINE rest == Tail(queue)
    <3>0. rest \in Seq(Item) BY <2>3
    <3> HIDE DEF rest
    <3>1. Range(Append(rest, item)) = Range(rest) \cup {item}
          /\ Append(rest, item) \in Seq(Item)
      BY <1>4, <3>0, AppendedRange
    <3> USE DEF rest
    <3> QED BY <2>1, <3>1 DEF Waiting
  <2>6. Sorted(queue')
    BY <1>4, <2>1, <2>3, <2>4, SortedAppend
  <2>7. Held' = Held BY <1>2, <2>1 DEF Held
  <2>8. OneHeld' BY <1>2, <1>6, <2>1 DEF OneHeld
  <2>9. InLine'
    BY <1>2, <1>4, <1>6, <1>8, <1>9, <2>3, <2>5, <2>6, <2>7 DEF InLine
  <2>10. QueueFresh' BY <1>2, <1>6, <1>9, <2>3, <2>5 DEF QueueFresh
  <2>11. Types' BY <1>6, <1>10, <2>1, <2>5
  <2> QED BY <1>2, <1>7, <2>8, <2>9, <2>10, <2>11 DEF Line
<1> QED BY <1>5, <1>11, <1>12, <1>13, <1>14

(* An answer or error is taken off the channel and the next request goes   *)
(* out, or the callback throws and none does.                              *)
NextGoesOut ==
  /\ active /\ replies # <<>> /\ replies' = Tail(replies)
  /\ DispatchNext \/ (inFlight' = FALSE /\ UNCHANGED <<queue, requests>>)

LEMMA GoneOut ==
  ASSUME Line, NextGoesOut
  PROVE  /\ Head(replies) \in Item /\ Held = {Head(replies)} /\ Held' \cup Waiting' = Waiting
         /\ queue' \in Seq(Item) /\ requests' \in Seq(Item) /\ replies' \in Seq(Item)
         /\ inFlight' \in BOOLEAN
         /\ OneHeld' /\ Sorted(queue')
         /\ \A x \in Held' : Rising(x.pts) /\ \A y \in Waiting' : Precede(Points(x), Points(y))
<1>1. /\ queue \in Seq(Item) /\ requests \in Seq(Item) /\ replies \in Seq(Item)
      /\ OneHeld /\ InLine /\ inFlight \in BOOLEAN
  BY DEF Line, Types, NextGoesOut
<1>2. /\ Head(replies) \in Item /\ replies' \in Seq(Item) /\ Len(replies') = Len(replies) - 1
      /\ Range(replies) = {Head(replies)} \cup Range(replies')
  BY <1>1, TakenRange DEF NextGoesOut
<1>3. Len(replies) \in Nat /\ Len(requests) \in Nat /\ Len(replies') \in Nat
  BY <1>1, <1>2
<1>4. inFlight BY <1>1 DEF OneHeld, NextGoesOut
<1>5. Len(requests) = 0 /\ Len(replies') = 0 BY <1>1, <1>2, <1>3, <1>4 DEF OneHeld
<1>6. requests = <<>> /\ replies' = <<>> BY <1>1, <1>2, <1>5, EmptySeq
<1>7. Held = {Head(replies)} BY <1>2, <1>6, EmptyRange DEF Held
<1>8. CASE UNCHANGED <<queue, requests>> /\ inFlight' = FALSE
  <2>1. Held' = {} /\ Waiting' = Waiting BY <1>6, <1>8, EmptyRange DEF Held, Waiting
  <2>2. OneHeld' BY <1>6, <1>8 DEF OneHeld
  <2>3. Sorted(queue') BY <1>1, <1>8 DEF InLine
  <2> QED BY <1>1, <1>2, <1>7, <1>8, <2>1, <2>2, <2>3
<1>9. CASE DispatchNext /\ queue # <<>>
  <2>1. /\ queue' = Tail(queue) /\ requests' = Append(requests, Head(queue))
        /\ inFlight' = TRUE
    BY <1>9 DEF DispatchNext, Send
  <2>2. /\ Head(queue) \in Item /\ queue' \in Seq(Item)
        /\ Waiting = {Head(queue)} \cup Waiting'
    BY <1>1, <1>9, <2>1, TakenRange DEF Waiting
  <2>3. /\ requests' \in Seq(Item) /\ Range(requests') = Range(requests) \cup {Head(queue)}
    BY <1>1, <2>1, <2>2, AppendedRange
  <2>4. Len(requests') = 1
    BY <1>1, <1>5, <2>1, <2>2, AppendProperties
  <2>5. Held' = {Head(queue)} BY <1>6, <2>3, EmptyRange DEF Held
  <2>6. OneHeld' BY <1>5, <2>1, <2>4 DEF OneHeld
  <2>7. /\ Sorted(queue') /\ Rising(Head(queue).pts)
        /\ \A y \in Waiting' : Precede(Points(Head(queue)), Points(y))
    BY <1>1, <1>9, <2>1, SortedTail DEF InLine, Waiting
  <2> QED BY <1>2, <1>7, <2>1, <2>2, <2>3, <2>5, <2>6, <2>7
<1>10. DispatchNext /\ queue = <<>> => UNCHANGED <<queue, requests>> /\ inFlight' = FALSE
  BY DEF DispatchNext
<1> QED BY <1>8, <1>9, <1>10 DEF NextGoesOut

LEMMA NextGoesOutLine ==
  ASSUME Line, NextGoesOut, active' = active, errors' \in Nat,
         UNCHANGED <<nextId, minId, nextRef, posted, mark>>,
         ingested' = ingested \/ ingested' = ingested \o Head(replies).pts
  PROVE  Line'
<1> DEFINE item == Head(replies)
<1>1. /\ item \in Item /\ Held = {item} /\ Held' \cup Waiting' = Waiting
      /\ queue' \in Seq(Item) /\ requests' \in Seq(Item) /\ replies' \in Seq(Item)
      /\ inFlight' \in BOOLEAN
      /\ OneHeld' /\ Sorted(queue')
      /\ \A x \in Held' : Rising(x.pts) /\ \A y \in Waiting' : Precede(Points(x), Points(y))
  BY GoneOut
<1> HIDE DEF item
<1>2. active /\ InLine /\ QueueFresh /\ Delivered /\ ingested \in Seq(Nat)
  BY DEF Line, NextGoesOut, Types
<1>3. /\ Rising(item.pts) /\ item.pts \in Seq(Nat) /\ Precede(Range(ingested), Range(item.pts))
      /\ \A p \in Range(item.pts) : p <= posted
  BY <1>1, <1>2 DEF InLine, Item, Points
<1>4. ingested \o item.pts \in Seq(Nat)
      /\ Range(ingested \o item.pts) = Range(ingested) \cup Range(item.pts)
      /\ Rising(ingested \o item.pts)
  BY <1>2, <1>3, JoinedRange, JoinedRises DEF Delivered
<1>5. /\ ingested' \in Seq(Nat) /\ Rising(ingested')
      /\ Range(ingested') \subseteq Range(ingested) \cup Range(item.pts)
  BY <1>2, <1>4 DEF Delivered, item
<1>6. Delivered' BY <1>2, <1>3, <1>5 DEF Delivered
<1>7. \A x \in Waiting : Precede(Range(ingested'), Points(x))
  BY <1>1, <1>2, <1>5 DEF InLine, Precede, Points
<1>8. InLine'
  <2>1. \A x \in Held' \cup Waiting' : x.id < nextId' /\ Precede(Range(ingested'), Points(x))
    BY <1>1, <1>2, <1>7 DEF InLine
  <2>2. \A x \in Held' \cup Waiting' : \A p \in Points(x) : p <= posted'
    BY <1>1, <1>2 DEF InLine
  <2> QED BY <1>1, <2>1, <2>2 DEF InLine
<1>9. QueueFresh' BY <1>1, <1>2 DEF QueueFresh
<1>10. Types' BY <1>1, <1>5 DEF Line, Types
<1> QED BY <1>1, <1>2, <1>6, <1>8, <1>9, <1>10 DEF Line

LEMMA OnMessageLine == ASSUME Line, OnMessage PROVE Line'
<1>1. /\ replies # <<>> /\ replies' = Tail(replies)
      /\ UNCHANGED <<nextId, minId, nextRef, active, posted, mark, errors>>
  BY DEF OnMessage, countVars
<1>2. CASE active
  <2>1. NextGoesOut BY <1>1, <1>2 DEF OnMessage, NextGoesOut
  <2>2. ingested' = ingested \/ ingested' = ingested \o Head(replies).pts
    BY <1>2 DEF OnMessage
  <2>3. errors' \in Nat BY <1>1 DEF Line, Types
  <2> QED BY <1>1, <2>1, <2>2, <2>3, NextGoesOutLine
<1>3. CASE ~active
  <2>1. UNCHANGED <<inFlight, queue, requests, ingested>> BY <1>3 DEF OnMessage
  <2>2. replies' \in Seq(Item) BY <1>1, TakenRange DEF Line, Types
  <2> QED BY <1>1, <1>3, <2>1, <2>2 DEF Line, Types, Delivered
<1> QED BY <1>2, <1>3

LEMMA OnErrorLine == ASSUME Line, OnError PROVE Line'
<1>1. /\ replies # <<>> /\ replies' = Tail(replies)
      /\ UNCHANGED <<nextId, minId, nextRef, active, posted, mark, errors, ingested>>
  BY DEF OnError, countVars, historyVars
<1>2. CASE active
  <2>1. NextGoesOut BY <1>1, <1>2 DEF OnError, NextGoesOut
  <2>2. errors' \in Nat BY <1>1 DEF Line, Types
  <2> QED BY <1>1, <2>1, <2>2, NextGoesOutLine
<1>3. CASE ~active
  <2>1. UNCHANGED <<inFlight, queue, requests>> BY <1>3 DEF OnError
  <2>2. replies' \in Seq(Item) BY <1>1, TakenRange DEF Line, Types
  <2> QED BY <1>1, <1>3, <2>1, <2>2 DEF Line, Types, Delivered
<1> QED BY <1>2, <1>3

LEMMA ResetLine == ASSUME Line, Reset PROVE Line'
<1>1. /\ active /\ minId' = nextRef /\ queue' = <<>> /\ mark' = posted
      /\ UNCHANGED <<nextId, nextRef, active, inFlight, requests, replies, posted, ingested, errors>>
  BY DEF Reset, Watermark, channelVars
<1>2. Held' = Held /\ Waiting' = {} BY <1>1, EmptyRange DEF Held, Waiting
<1>3. queue' \in Seq(Item) BY <1>1, EmptySeq
<1>4. Types' BY <1>1, <1>3 DEF Line, Types
<1>5. Delivered' BY <1>1 DEF Line, Delivered
<1>6. OneHeld' BY <1>1 DEF Line, OneHeld
<1>7. InLine'
  <2>1. Sorted(queue') BY <1>1 DEF Sorted
  <2> QED BY <1>1, <1>2, <2>1 DEF Line, InLine
<1>8. QueueFresh' BY <1>2 DEF QueueFresh
<1> QED BY <1>1, <1>4, <1>5, <1>6, <1>7, <1>8 DEF Line

LEMMA TerminateLine == ASSUME Line, Terminate PROVE Line'
<1>1. /\ ~active' /\ queue' = <<>> /\ requests' = <<>> /\ active' = FALSE
      /\ UNCHANGED <<nextId, minId, nextRef, inFlight, replies, posted, mark, ingested, errors>>
  BY DEF Terminate, historyVars, countVars
<1>2. queue' \in Seq(Item) /\ requests' \in Seq(Item) BY <1>1, EmptySeq
<1>3. Types' BY <1>1, <1>2 DEF Line, Types
<1>4. Delivered' BY <1>1 DEF Line, Delivered
<1> QED BY <1>1, <1>3, <1>4 DEF Line

(* The worker answers the request it holds with part of its points, or     *)
(* with an error.                                                          *)
LEMMA WorkerHolds ==
  ASSUME Line, requests # <<>>, requests' = Tail(requests),
         NEW reply \in Item, replies' = Append(replies, reply)
  PROVE  /\ active /\ Head(requests) \in Item /\ Head(requests) \in Held
         /\ Held' = {reply} /\ Held = {Head(requests)}
         /\ requests' \in Seq(Item) /\ replies' \in Seq(Item)
         /\ inFlight /\ (inFlight' = inFlight => OneHeld')
<1>1. /\ requests \in Seq(Item) /\ replies \in Seq(Item) /\ active /\ OneHeld
      /\ inFlight \in BOOLEAN
  BY DEF Line, Types
<1>2. inFlight BY <1>1 DEF OneHeld
<1>3. /\ Head(requests) \in Item /\ requests' \in Seq(Item)
      /\ Len(requests') = Len(requests) - 1
      /\ Range(requests) = {Head(requests)} \cup Range(requests')
  BY <1>1, TakenRange
<1>4. Len(requests) \in Nat /\ Len(replies) \in Nat /\ Len(requests') \in Nat
  BY <1>1, <1>3
<1>5. Len(replies) = 0 /\ Len(requests') = 0 /\ Len(requests) = 1
  BY <1>1, <1>2, <1>3, <1>4 DEF OneHeld
<1>6. replies = <<>> /\ requests' = <<>> BY <1>1, <1>3, <1>5, EmptySeq
<1>7. replies' \in Seq(Item) /\ Range(replies') = Range(replies) \cup {reply}
  BY <1>1, AppendedRange
<1>8. Len(replies') = 1 BY <1>1, <1>5, AppendProperties
<1>9. Held' = {reply} BY <1>6, <1>7, EmptyRange DEF Held
<1>10. Held = {Head(requests)} BY <1>3, <1>6, EmptyRange DEF Held
<1>11. inFlight' = inFlight => OneHeld' BY <1>2, <1>5, <1>8 DEF OneHeld
<1> QED BY <1>1, <1>2, <1>3, <1>7, <1>9, <1>10, <1>11

LEMMA ReplyLine ==
  ASSUME Line, requests # <<>>, requests' = Tail(requests),
         NEW reply \in Item, replies' = Append(replies, reply),
         Rising(reply.pts), Points(reply) \subseteq Points(Head(requests)),
         reply.id < nextId,
         UNCHANGED <<nextId, minId, nextRef, active, inFlight, queue, posted, mark, ingested>>,
         errors' \in Nat
  PROVE  Line'
<1>1. /\ active /\ Head(requests) \in Held /\ Held' = {reply} /\ OneHeld'
      /\ requests' \in Seq(Item) /\ replies' \in Seq(Item)
  BY WorkerHolds
<1>2. Waiting' = Waiting BY DEF Waiting
<1>3. Types' BY <1>1 DEF Line, Types
<1>4. Delivered' BY DEF Line, Delivered
<1>5. InLine /\ QueueFresh BY <1>1 DEF Line
<1>6. InLine'
  <2>1. /\ Precede(Range(ingested'), Points(reply))
        /\ \A p \in Points(reply) : p <= posted'
        /\ \A y \in Waiting : Precede(Points(reply), Points(y))
    BY <1>1, <1>5 DEF InLine, Precede
  <2> QED BY <1>1, <1>2, <1>5, <2>1 DEF InLine
<1>7. QueueFresh' BY <1>2, <1>5 DEF QueueFresh
<1> QED BY <1>1, <1>3, <1>4, <1>6, <1>7 DEF Line

LEMMA PackLine == ASSUME Line, Pack PROVE Line'
<1>1. /\ requests # <<>> /\ requests' = Tail(requests)
      /\ UNCHANGED <<nextId, minId, nextRef, active, inFlight, queue, posted, mark, ingested, errors>>
  BY DEF Pack, bridgeVars, historyVars, countVars
<1>2. PICK pts \in Survivors(Head(requests).pts) :
        replies' = Append(replies, [id |-> Head(requests).id, pts |-> pts])
  BY DEF Pack
<1> DEFINE reply == [id |-> Head(requests).id, pts |-> pts]
<1>3. active /\ requests \in Seq(Item) /\ InLine
  BY <1>1 DEF Line, Types
<1>4. Head(requests) \in Item /\ Head(requests) \in Held
  BY <1>1, <1>3, TakenRange DEF Held
<1>5. Rising(Head(requests).pts) /\ Head(requests).id < nextId
      /\ Head(requests).pts \in Seq(Nat) /\ Head(requests).id \in Int
  BY <1>3, <1>4 DEF InLine, Item
<1>6. pts \in Seq(Nat) /\ Rising(pts) /\ Range(pts) \subseteq Range(Head(requests).pts)
  BY <1>5, SurvivorsRise
<1>7. reply \in Item /\ Rising(reply.pts) /\ Points(reply) \subseteq Points(Head(requests))
      /\ reply.id < nextId
  BY <1>5, <1>6 DEF Item, Points
<1>8. errors' \in Nat BY <1>1 DEF Line, Types
<1> HIDE DEF reply
<1> QED BY <1>1, <1>2, <1>7, <1>8, ReplyLine DEF reply

LEMMA ErrorIs == Error \in Item /\ Rising(Error.pts) /\ Points(Error) = {} /\ Error.id = -1
BY EmptySeq, EmptyRange DEF Error, Item, Rising, Points

LEMMA FailLine == ASSUME Line, Fail PROVE Line'
<1>1. /\ requests # <<>> /\ requests' = Tail(requests) /\ replies' = Append(replies, Error)
      /\ errors' = errors + 1
      /\ UNCHANGED <<nextId, minId, nextRef, active, inFlight, queue, posted, mark, ingested>>
  BY DEF Fail, bridgeVars, historyVars
<1>2. errors' \in Nat /\ nextId \in Nat BY <1>1 DEF Line, Types
<1>3. Error.id < nextId BY <1>2, ErrorIs
<1> QED BY <1>1, <1>2, <1>3, ErrorIs, ReplyLine

-----------------------------------------------------------------------------
(* The hook's own steps keep Line                                          *)

LEMMA PushDirectLine ==
  ASSUME Line, NEW n \in 1..MaxPost, NEW pts \in Downsampled([i \in 1..n |-> posted + i]),
         ~active, posted' = posted + n, ingested' = ingested \o pts,
         UNCHANGED <<bridgeVars, channelVars, mark, countVars>>
  PROVE  Line' /\ pts \in Seq(Nat) /\ \A p \in Range(pts) : p > mark
<1> DEFINE chunk == [i \in 1..n |-> posted + i]
<1>1. posted \in Nat /\ mark \in Nat /\ mark <= posted /\ n \in Nat /\ ingested \in Seq(Nat)
  BY DEF Line, Types
<1>2. chunk \in Seq(Nat) /\ Rising(chunk) /\ Range(chunk) = (posted + 1)..(posted + n)
  BY <1>1, ChunkRises
<1>3. pts \in Seq(Nat) /\ Rising(pts) /\ Range(pts) \subseteq Range(chunk)
  BY <1>2, DownsampledRises
<1> HIDE DEF chunk
<1>4. \A p \in Range(ingested) : p \in Nat /\ p <= posted
  BY <1>1, RangeIs DEF Line, Delivered
<1>5. Precede(Range(ingested), Range(pts))
  BY <1>1, <1>2, <1>3, <1>4 DEF Precede
<1>6. /\ ingested' \in Seq(Nat) /\ Rising(ingested')
      /\ Range(ingested') = Range(ingested) \cup Range(pts)
  BY <1>1, <1>3, <1>5, JoinedRange, JoinedRises DEF Line, Delivered
<1>7. Delivered'
  <2>1. \A p \in Range(pts) : p <= posted' BY <1>1, <1>2, <1>3
  <2>2. \A p \in Range(ingested) : p <= posted' BY <1>1, <1>4
  <2> QED BY <1>6, <2>1, <2>2 DEF Delivered
<1>8. Types'
  <2>1. posted' \in Nat /\ mark <= posted' BY <1>1
  <2> QED BY <1>6, <2>1 DEF Line, Types, bridgeVars, channelVars, countVars
<1>9. \A p \in Range(pts) : p > mark BY <1>1, <1>2, <1>3
<1> QED BY <1>3, <1>7, <1>8, <1>9 DEF Line, bridgeVars, channelVars

LEMMA ResetAloneLine == ASSUME Line, ResetAlone PROVE Line'
<1>1. /\ ~active /\ mark' = posted
      /\ UNCHANGED <<nextId, minId, nextRef, active, inFlight, queue, requests, replies,
                     posted, ingested, errors>>
  BY DEF ResetAlone, bridgeVars, channelVars
<1> QED BY <1>1 DEF Line, Types, Delivered

LEMMA RemountLine == ASSUME Line, RemountBridge PROVE Line'
<1>1. /\ nextId' = 0 /\ minId' = 0 /\ active' = TRUE /\ inFlight' = FALSE /\ queue' = <<>>
      /\ requests' = <<>> /\ replies' = <<>>
      /\ UNCHANGED <<nextRef, posted, ingested, mark, errors>>
  BY DEF RemountBridge, historyVars, countVars
<1>2. /\ queue' \in Seq(Item) /\ requests' \in Seq(Item) /\ replies' \in Seq(Item)
      /\ Range(queue') = {} /\ Range(requests') = {} /\ Range(replies') = {}
  BY <1>1, EmptySeq, EmptyRange
<1>3. Types'
  <2>1. nextId' \in Nat /\ minId' \in Nat /\ nextId' <= nextRef' BY <1>1 DEF Line, Types
  <2>2. active' \in BOOLEAN /\ inFlight' \in BOOLEAN BY <1>1
  <2> QED BY <1>1, <1>2, <2>1, <2>2 DEF Line, Types
<1>4. Delivered' BY <1>1 DEF Line, Delivered
<1>5. OneHeld' /\ QueueFresh' BY <1>1, <1>2 DEF OneHeld, QueueFresh, Waiting
<1>6. InLine' BY <1>1, <1>2 DEF InLine, Held, Waiting, Sorted
<1> QED BY <1>1, <1>3, <1>4, <1>5, <1>6 DEF Line

LEMMA LineStutters == ASSUME Line, UNCHANGED vars PROVE Line'
<1>1. UNCHANGED <<nextId, minId, nextRef, active, inFlight, queue, requests, replies,
                  posted, ingested, mark, errors>>
  BY DEF vars, bridgeVars, channelVars, historyVars, countVars
<1>2. Types' /\ Delivered' BY <1>1 DEF Line, Types, Delivered
<1>3. (active' => OneHeld' /\ InLine' /\ QueueFresh') /\ (~active' => queue' = <<>> /\ requests' = <<>>)
  BY <1>1 DEF Line, OneHeld, InLine, QueueFresh, Held, Waiting
<1> QED BY <1>2, <1>3 DEF Line

-----------------------------------------------------------------------------
(* The hook                                                                *)

(* What is held with an id the hook will accept was posted after the       *)
(* reset; while its first bridge lives the two watermarks are the same.    *)
HeldFresh == \A x \in Held : x.id >= lastReset => \A p \in Points(x) : p > mark
OneWatermark == remounts = 0 => lastReset = minId

HookIInv ==
  /\ Line
  /\ lastReset \in Nat /\ remounts \in Nat /\ base \in Nat /\ base <= Len(ingested)
  /\ active => HeldFresh /\ OneWatermark
  /\ NoPointFromBeforeReset
  /\ BufferHoldsDelivered

(* The end of a sequence that is prolonged.                                *)
From(s, b) == {s[i] : i \in (b + 1)..Len(s)}

LEMMA Suffix ==
  ASSUME NEW s \in Seq(Nat), NEW t \in Seq(Nat), NEW b \in Nat, b <= Len(s)
  PROVE  From(s \o t, b) = From(s, b) \cup Range(t) /\ b <= Len(s \o t)
<1>1. /\ Len(s \o t) = Len(s) + Len(t) /\ Len(s) \in Nat /\ Len(t) \in Nat
      /\ \A i \in 1..(Len(s) + Len(t)) :
           (s \o t)[i] = IF i <= Len(s) THEN s[i] ELSE t[i - Len(s)]
      /\ Range(t) = {t[i] : i \in 1..Len(t)}
  <2>1. Len(s \o t) = Len(s) + Len(t)
        /\ \A i \in 1..(Len(s) + Len(t)) :
             (s \o t)[i] = IF i <= Len(s) THEN s[i] ELSE t[i - Len(s)]
    BY ConcatProperties, Zenon
  <2>2. Range(t) = {t[i] : i \in 1..Len(t)}
    BY RangeIs, Zenon
  <2>3. Len(s) \in Nat /\ Len(t) \in Nat
    BY LenProperties, Zenon
  <2> QED BY <2>1, <2>2, <2>3, Zenon
<1> DEFINE u == s \o t
<1> HIDE DEF u
<1>2. ASSUME NEW i \in (b + 1)..Len(u) PROVE u[i] \in {s[j] : j \in (b + 1)..Len(s)} \cup Range(t)
  <2>1. CASE i <= Len(s)
    <3>1. i \in (b + 1)..Len(s) /\ u[i] = s[i] BY <1>1, <1>2, <2>1 DEF u
    <3> QED BY <3>1
  <2>2. CASE i > Len(s)
    <3>1. i - Len(s) \in 1..Len(t) /\ u[i] = t[i - Len(s)] BY <1>1, <1>2, <2>2 DEF u
    <3> QED BY <1>1, <3>1
  <2> QED BY <1>1, <1>2, <2>1, <2>2
<1>3. ASSUME NEW i \in (b + 1)..Len(s) PROVE s[i] \in {u[j] : j \in (b + 1)..Len(u)}
  <2>1. i \in (b + 1)..Len(u) /\ u[i] = s[i] BY <1>1, <1>3 DEF u
  <2> QED BY <2>1
<1>4. ASSUME NEW i \in 1..Len(t) PROVE t[i] \in {u[j] : j \in (b + 1)..Len(u)}
  <2>1. Len(s) + i \in (b + 1)..Len(u) /\ u[Len(s) + i] = t[i] BY <1>1, <1>4 DEF u
  <2> QED BY <2>1
<1>5. {u[i] : i \in (b + 1)..Len(u)} = {s[i] : i \in (b + 1)..Len(s)} \cup Range(t)
  BY <1>1, <1>2, <1>3, <1>4
<1>6. b <= Len(u) BY <1>1 DEF u
<1> QED BY <1>5, <1>6 DEF u, From

(* Steps of the bridge that hand nothing over.                             *)
LEMMA HookKept ==
  ASSUME HookIInv, Line', UNCHANGED <<lastReset, kept, base, remounts, ingested, mark>>,
         active' => HeldFresh' /\ OneWatermark'
  PROVE  HookIInv'
BY DEF HookIInv, NoPointFromBeforeReset, BufferHoldsDelivered

LEMMA HookInitSafe == HookInit => HookIInv
<1> SUFFICES ASSUME HookInit PROVE HookIInv
  OBVIOUS
<1>1. Line BY LineInit DEF HookInit
<1>2. /\ ingested = <<>> /\ requests = <<>> /\ replies = <<>> /\ minId = 0
      /\ lastReset = 0 /\ kept = {} /\ base = 0 /\ remounts = 0
  BY DEF HookInit, Init
<1>3. Held = {} BY <1>2, EmptyRange DEF Held
<1>4. {ingested[i] : i \in (base + 1)..Len(ingested)} = {}
  <2>1. Len(ingested) = 0 BY <1>2, EmptySeq
  <2> QED BY <1>2, <2>1
<1>5. base <= Len(ingested) BY <1>2, EmptySeq
<1> QED BY <1>1, <1>2, <1>3, <1>4, <1>5
        DEF HookIInv, HeldFresh, OneWatermark, NoPointFromBeforeReset, BufferHoldsDelivered

(* What a post sends at once is a new request.                             *)
LEMMA PostHolds ==
  ASSUME Line, Post
  PROVE  active /\ active' /\ \A x \in Held' : x \in Held \/ \A p \in Points(x) : p > mark
<1>1. PICK n \in 1..MaxPost :
        LET item == [id |-> nextId, pts |-> [i \in 1..n |-> posted + i]]
        IN Dispatch(item) \/ Coalesce(item) \/ Enqueue(item) \/ DropOldest(item)
  BY DEF Post
<1>2. active /\ active' /\ replies' = replies BY DEF Post
<1> DEFINE item == [id |-> nextId, pts |-> [i \in 1..n |-> posted + i]]
<1>3. n \in Nat BY SMT
<1>4. item \in Item /\ Points(item) = (posted + 1)..(posted + n)
  BY <1>3, NewRequest
<1>5. Dispatch(item) \/ Coalesce(item) \/ Enqueue(item) \/ DropOldest(item)
  BY <1>1
<1> HIDE DEF item
<1>6. \A p \in Points(item) : p > mark
  <2>1. posted \in Nat /\ mark \in Nat /\ mark <= posted BY DEF Line, Types
  <2> QED BY <1>4, <2>1
<1>7. requests' = requests \/ requests' = Append(requests, item)
  BY <1>5 DEF Dispatch, Coalesce, Enqueue, DropOldest, Send
<1>8. Range(Append(requests, item)) = Range(requests) \cup {item}
  BY <1>4, AppendedRange DEF Line, Types
<1>9. Held' \subseteq Held \cup {item}
  BY <1>2, <1>7, <1>8 DEF Held
<1> QED BY <1>2, <1>6, <1>9

LEMMA PushChunkSafe == ASSUME HookIInv, PushChunk PROVE HookIInv'
<1>1. Line /\ Post /\ UNCHANGED <<lastReset, kept, base, remounts, ingested, mark, minId>>
  BY DEF HookIInv, PushChunk, hookVars, Post
<1>2. Line' BY <1>1, PostLine
<1>3. HeldFresh /\ OneWatermark BY <1>1, PostHolds DEF HookIInv
<1>4. HeldFresh' BY <1>1, <1>3, PostHolds DEF HeldFresh
<1>5. OneWatermark' BY <1>1, <1>3 DEF OneWatermark
<1> QED BY <1>1, <1>2, <1>4, <1>5, HookKept

LEMMA PushDirectSafe == ASSUME HookIInv, PushDirect PROVE HookIInv'
<1>0. PICK n \in 1..MaxPost : \E pts \in Downsampled([i \in 1..n |-> posted + i]) :
        /\ ~active /\ posted' = posted + n /\ IngestsHere(pts)
        /\ UNCHANGED <<bridgeVars, channelVars, mark, countVars, lastReset, base, remounts>>
  BY DEF PushDirect
<1>1. PICK pts \in Downsampled([i \in 1..n |-> posted + i]) :
        /\ ~active /\ posted' = posted + n /\ IngestsHere(pts)
        /\ UNCHANGED <<bridgeVars, channelVars, mark, countVars, lastReset, base, remounts>>
  BY <1>0
<1>2. ingested' = ingested \o pts /\ kept' = kept \cup Range(pts) BY <1>1 DEF IngestsHere
<1>3. Line' /\ pts \in Seq(Nat) /\ \A p \in Range(pts) : p > mark
  BY <1>1, <1>2, PushDirectLine DEF HookIInv
<1>4. ~active' BY <1>1 DEF bridgeVars
<1>5. NoPointFromBeforeReset'
  BY <1>1, <1>2, <1>3 DEF HookIInv, NoPointFromBeforeReset
<1>6. ingested \in Seq(Nat) /\ base \in Nat /\ base <= Len(ingested)
  BY DEF HookIInv, Line, Types
<1>7. /\ base' <= Len(ingested')
      /\ From(ingested', base') = From(ingested, base) \cup Range(pts)
  BY <1>1, <1>2, <1>3, <1>6, Suffix
<1>8. BufferHoldsDelivered'
  <2>1. remounts = 0 => kept = From(ingested, base)
    BY DEF HookIInv, BufferHoldsDelivered, From
  <2>2. remounts' = 0 => kept' = From(ingested', base') BY <1>1, <1>2, <1>7, <2>1
  <2> QED BY <2>2 DEF BufferHoldsDelivered, From
<1> QED BY <1>1, <1>3, <1>4, <1>5, <1>7, <1>8 DEF HookIInv

LEMMA WorkerAnswersSafe == ASSUME HookIInv, WorkerAnswers PROVE HookIInv'
<1> DEFINE reply == Head(replies)
           taken == active /\ Accepted(reply) /\ HookAccepts(reply)
<1>1. /\ OnMessage /\ replies # <<>> /\ replies' = Tail(replies)
      /\ UNCHANGED <<active, minId, mark, lastReset, base, remounts>>
      /\ taken => kept' = kept \cup Range(reply.pts)
      /\ ~taken => kept' = kept
      /\ ~active => ingested' = ingested
      /\ active => ingested' = IF Accepted(reply) THEN ingested \o reply.pts ELSE ingested
  BY DEF WorkerAnswers, OnMessage
<1>2. Line' BY <1>1, OnMessageLine DEF HookIInv
<1>3. CASE ~active
  <2>1. kept' = kept /\ ingested' = ingested BY <1>1, <1>3
  <2> QED BY <1>1, <1>2, <1>3, <2>1, HookKept
<1>4. CASE active
  <2>1. NextGoesOut BY <1>1, <1>4 DEF OnMessage, NextGoesOut
  <2>2. /\ reply \in Item /\ Held = {reply} /\ Held' \cup Waiting' = Waiting
    BY <2>1, GoneOut DEF HookIInv
  <2>3. /\ HeldFresh /\ OneWatermark /\ QueueFresh /\ ingested \in Seq(Nat)
        /\ base \in Nat /\ base <= Len(ingested)
    BY <1>4 DEF HookIInv, Line, Types
  <2>4. reply.pts \in Seq(Nat) /\ reply.id \in Int BY <2>2 DEF Item
  <2>5. HeldFresh' BY <1>1, <2>2, <2>3 DEF HeldFresh, QueueFresh
  <2>6. OneWatermark' BY <1>1, <2>3 DEF OneWatermark
  <2>7. NoPointFromBeforeReset'
    <3>1. HookAccepts(reply) => \A p \in Range(reply.pts) : p > mark
      BY <2>2, <2>3 DEF HookAccepts, HeldFresh, Points
    <3> QED BY <1>1, <3>1 DEF HookIInv, NoPointFromBeforeReset
  <2>8. CASE ~Accepted(reply)
    <3>1. kept' = kept /\ ingested' = ingested BY <1>1, <1>4, <2>8
    <3> QED BY <1>1, <1>2, <2>5, <2>6, <3>1, HookKept
  <2>9. CASE Accepted(reply)
    <3>1. ingested' = ingested \o reply.pts BY <1>1, <1>4, <2>9
    <3> HIDE DEF reply
    <3>2. /\ base' <= Len(ingested')
          /\ From(ingested', base') = From(ingested, base) \cup Range(reply.pts)
      BY <1>1, <2>3, <2>4, <3>1, Suffix
    <3>3. remounts = 0 => taken
      BY <1>4, <2>3, <2>9 DEF OneWatermark, Accepted, HookAccepts
    <3>4. BufferHoldsDelivered'
      <4>1. remounts = 0 => kept = From(ingested, base)
        BY DEF HookIInv, BufferHoldsDelivered, From
      <4>2. remounts' = 0 => kept' = From(ingested', base') BY <1>1, <3>2, <3>3, <4>1
      <4> QED BY <4>2 DEF BufferHoldsDelivered, From
    <3> QED BY <1>1, <1>2, <2>5, <2>6, <2>7, <3>2, <3>4 DEF HookIInv
  <2> QED BY <2>8, <2>9
<1> QED BY <1>3, <1>4

LEMMA WorkerFailsSafe == ASSUME HookIInv, WorkerFails PROVE HookIInv'
<1>1. /\ OnError /\ replies # <<>> /\ replies' = Tail(replies)
      /\ UNCHANGED <<active, minId, mark, ingested, lastReset, kept, base, remounts>>
  BY DEF WorkerFails, OnError, historyVars, hookVars
<1>2. Line' BY <1>1, OnErrorLine DEF HookIInv
<1>3. ASSUME active PROVE HeldFresh' /\ OneWatermark'
  <2>1. NextGoesOut BY <1>1, <1>3 DEF OnError, NextGoesOut
  <2>2. Held' \cup Waiting' = Waiting
    BY <2>1, GoneOut DEF HookIInv
  <2>3. HeldFresh /\ OneWatermark /\ QueueFresh
    BY <1>3 DEF HookIInv, Line
  <2>4. HeldFresh' BY <1>1, <2>2, <2>3 DEF HeldFresh, QueueFresh
  <2>5. OneWatermark' BY <1>1, <2>3 DEF OneWatermark
  <2> QED BY <2>4, <2>5
<1> QED BY <1>1, <1>2, <1>3, HookKept

LEMMA HookResetSafe == ASSUME HookIInv, HookReset PROVE HookIInv'
<1>1. /\ Reset \/ ResetAlone
      /\ lastReset' = nextRef /\ kept' = {} /\ base' = Len(ingested) /\ ingested' = ingested
      /\ remounts' = remounts
  BY DEF HookReset, Reset, ResetAlone, Watermark
<1>2. Line' BY <1>1, ResetLine, ResetAloneLine DEF HookIInv
<1>3. Len(ingested) \in Nat /\ nextRef \in Nat BY DEF HookIInv, Line, Types
<1>4. NoPointFromBeforeReset' BY <1>1 DEF NoPointFromBeforeReset
<1>5. BufferHoldsDelivered'
  <2>1. {ingested[i] : i \in (Len(ingested) + 1)..Len(ingested)} = {} BY <1>3
  <2> QED BY <1>1, <2>1 DEF BufferHoldsDelivered
<1>6. ASSUME active' PROVE HeldFresh' /\ OneWatermark'
  <2>1. Reset BY <1>1, <1>6 DEF ResetAlone, bridgeVars
  <2>2. active /\ minId' = nextRef /\ Held' = Held
    BY <2>1 DEF Reset, Watermark, channelVars, Held
  <2>3. ASSUME NEW x \in Held PROVE ~(x.id >= nextRef)
    <3>1. x \in Item /\ x.id < nextId
      BY <2>2, <2>3, RangeIs DEF HookIInv, Line, Types, InLine, Held
    <3>2. nextId \in Nat /\ nextId <= nextRef BY DEF HookIInv, Line, Types
    <3> QED BY <1>3, <3>1, <3>2 DEF Item
  <2>4. HeldFresh' BY <1>1, <2>2, <2>3 DEF HeldFresh
  <2>5. OneWatermark' BY <1>1, <2>2 DEF OneWatermark
  <2> QED BY <2>4, <2>5
<1> QED BY <1>1, <1>2, <1>3, <1>4, <1>5, <1>6 DEF HookIInv

LEMMA RemountSafe == ASSUME HookIInv, RemountBridge PROVE HookIInv'
<1>1. /\ requests' = <<>> /\ replies' = <<>> /\ remounts' = remounts + 1
      /\ UNCHANGED <<lastReset, kept, base, ingested, mark>>
  BY DEF RemountBridge, historyVars
<1>2. Line' BY RemountLine DEF HookIInv
<1>3. Held' = {} BY <1>1, EmptyRange DEF Held
<1>4. remounts' \in Nat /\ remounts' # 0 BY <1>1 DEF HookIInv
<1>5. HeldFresh' /\ OneWatermark' BY <1>3, <1>4 DEF HeldFresh, OneWatermark
<1>6. NoPointFromBeforeReset' BY <1>1 DEF HookIInv, NoPointFromBeforeReset
<1>7. BufferHoldsDelivered' BY <1>4 DEF BufferHoldsDelivered
<1> QED BY <1>1, <1>2, <1>4, <1>5, <1>6, <1>7 DEF HookIInv

LEMMA ChangePolicySafe == ASSUME HookIInv, ChangePolicy PROVE HookIInv'
<1>1. /\ kept' = {} /\ base' = Len(ingested)
      /\ UNCHANGED <<vars, lastReset, remounts>>
  BY DEF ChangePolicy
<1>2. UNCHANGED <<ingested, mark, active, requests, replies, minId>>
  BY <1>1 DEF vars, bridgeVars, channelVars, historyVars
<1>3. Line' BY <1>1, LineStutters DEF HookIInv
<1>4. Len(ingested) \in Nat BY DEF HookIInv, Line, Types
<1>5. NoPointFromBeforeReset' BY <1>1 DEF NoPointFromBeforeReset
<1>6. BufferHoldsDelivered'
  <2>1. {ingested[i] : i \in (Len(ingested) + 1)..Len(ingested)} = {} BY <1>4
  <2> QED BY <1>1, <1>2, <2>1 DEF BufferHoldsDelivered
<1>7. active' => HeldFresh' /\ OneWatermark'
  BY <1>1, <1>2 DEF HookIInv, HeldFresh, OneWatermark, Held
<1> QED BY <1>1, <1>2, <1>3, <1>4, <1>5, <1>6, <1>7 DEF HookIInv

LEMMA UnmountSafe == ASSUME HookIInv, Unmount PROVE HookIInv'
<1>1. /\ Terminate /\ active' = FALSE
      /\ UNCHANGED <<lastReset, kept, base, remounts, ingested, mark>>
  BY DEF Unmount, Terminate, historyVars, hookVars
<1>2. Line' BY <1>1, TerminateLine DEF HookIInv
<1> QED BY <1>1, <1>2, HookKept

LEMMA WorkerSafe == ASSUME HookIInv, Worker, UNCHANGED hookVars PROVE HookIInv'
<1>1. /\ UNCHANGED <<lastReset, kept, base, remounts, ingested, mark, minId, active>>
      /\ requests # <<>> /\ requests' = Tail(requests)
  BY DEF Worker, Pack, Fail, hookVars, bridgeVars, historyVars
<1>2. Line' BY PackLine, FailLine DEF Worker, HookIInv
<1>3. Line /\ active /\ HeldFresh /\ OneWatermark
  BY <1>1 DEF HookIInv, Line
<1>4. HeldFresh'
  <2>1. CASE Pack
    <3>1. PICK pts \in Survivors(Head(requests).pts) :
            replies' = Append(replies, [id |-> Head(requests).id, pts |-> pts])
      BY <2>1 DEF Pack
    <3> DEFINE reply == [id |-> Head(requests).id, pts |-> pts]
    <3>2. Head(requests) \in Item /\ Head(requests) \in Held
      BY <1>1, <1>3, TakenRange DEF Line, Types, Held
    <3>3. pts \in Seq(Nat) /\ Range(pts) \subseteq Range(Head(requests).pts)
      <4>1. Rising(Head(requests).pts) /\ Head(requests).pts \in Seq(Nat)
        BY <1>3, <3>2 DEF Line, InLine, Item
      <4> QED BY <4>1, SurvivorsRise
    <3>4. reply \in Item /\ Points(reply) \subseteq Points(Head(requests))
          /\ reply.id = Head(requests).id
      BY <3>2, <3>3 DEF Item, Points
    <3> HIDE DEF reply
    <3>5. Held' = {reply} BY <1>1, <1>3, <3>1, <3>4, WorkerHolds DEF reply
    <3> QED BY <1>1, <1>3, <3>2, <3>4, <3>5 DEF HeldFresh
  <2>2. CASE Fail
    <3>1. replies' = Append(replies, Error) BY <2>2 DEF Fail
    <3>2. Held' = {Error} BY <1>1, <1>3, <3>1, ErrorIs, WorkerHolds
    <3> QED BY <3>2, ErrorIs DEF HeldFresh
  <2> QED BY <2>1, <2>2 DEF Worker
<1>5. OneWatermark' BY <1>1, <1>3 DEF OneWatermark
<1> QED BY <1>1, <1>2, <1>4, <1>5, HookKept

LEMMA HookNextSafe == HookIInv /\ [HookNext]_allVars => HookIInv'
<1> SUFFICES ASSUME HookIInv, [HookNext]_allVars PROVE HookIInv'
  OBVIOUS
<1>1. CASE UNCHANGED allVars
  <2>1. UNCHANGED vars /\ UNCHANGED <<lastReset, kept, base, remounts>>
    BY <1>1 DEF allVars, hookVars
  <2>2. Line' BY <2>1, LineStutters DEF HookIInv
  <2>3. UNCHANGED <<ingested, mark, minId, active, requests, replies>>
    BY <2>1 DEF vars, bridgeVars, channelVars, historyVars
  <2>4. active' => HeldFresh' /\ OneWatermark'
    BY <2>1, <2>3 DEF HookIInv, HeldFresh, OneWatermark, Held
  <2> QED BY <2>1, <2>2, <2>3, <2>4, HookKept
<1>2. CASE HookNext
  BY <1>2, PushChunkSafe, PushDirectSafe, WorkerAnswersSafe, WorkerFailsSafe, HookResetSafe,
     RemountSafe, ChangePolicySafe, UnmountSafe, WorkerSafe DEF HookNext
<1> QED BY <1>1, <1>2

LEMMA HookInvariantHolds == HookSpec => []HookIInv
<1>1. HookInit => HookIInv BY HookInitSafe
<1>2. HookIInv /\ [HookNext]_allVars => HookIInv' BY HookNextSafe
<1> QED BY <1>1, <1>2, PTL DEF HookSpec

(* Whatever is queued, coalesced, dropped, culled, refused or pushed       *)
(* directly, the points handed to onIngest are in the order they were      *)
(* posted, each at most once (post, onmessage, onerror, pushChunk).        *)
THEOREM PointsInOrder == HookSpec => []InOrder
<1>1. HookIInv => InOrder BY DEF HookIInv, Line, Delivered, Rising, InOrder
<1> QED BY <1>1, HookInvariantHolds, PTL

(* After reset() the buffer holds points pushed after it only, also when   *)
(* the bridge or the buffer was replaced while answers were on their way.  *)
THEOREM NothingFromBeforeAReset == HookSpec => []NoPointFromBeforeReset
<1>1. HookIInv => NoPointFromBeforeReset BY DEF HookIInv
<1> QED BY <1>1, HookInvariantHolds, PTL

(* As long as the first bridge lives the hook's own watermark refuses      *)
(* nothing that the bridge's lets through: what was delivered since the    *)
(* buffer was empty is in it.                                              *)
THEOREM DeliveredIsHeld == HookSpec => []BufferHoldsDelivered
<1>1. HookIInv => BufferHoldsDelivered BY DEF HookIInv
<1> QED BY <1>1, HookInvariantHolds, PTL

-----------------------------------------------------------------------------
(* The bridge alone                                                        *)

Outstanding == Held \cup Waiting
Covered(p) == p \in Range(ingested) \/ p \in overflowed \/ \E x \in Outstanding : p \in Points(x)

(* An answer the watermark refuses holds only points from before the       *)
(* reset, and a reset's watermark is the next number to be given.          *)
OldIsOld == \A x \in Held : x.id < minId => \A p \in Points(x) : p <= mark
QueueAccepted == \A x \in Waiting : x.id >= minId

BridgeIInv ==
  /\ Line
  /\ nextRef = nextId /\ minId <= nextId
  /\ active => OldIsOld /\ QueueAccepted
  /\ active /\ errors = 0 /\ ~Culling => \A p \in (mark + 1)..posted : Covered(p)

LEMMA CoveredIs ==
  NothingLost <=> (active /\ errors = 0 /\ ~Culling => \A p \in (mark + 1)..posted : Covered(p))
<1>1. \A p : p \in PointsOf(queue) \cup PointsOf(requests) \cup PointsOf(replies)
                <=> \E x \in Outstanding : p \in Points(x)
  BY DEF PointsOf, Outstanding, Held, Waiting, Points
<1> QED BY <1>1 DEF NothingLost, Covered

(* A post numbers what it adds with the next number, and gives each point  *)
(* a request or counts it as lost to the full queue.                       *)
LEMMA PostAdds ==
  ASSUME Line, Post
  PROVE  /\ \A x \in Waiting' : x \in Waiting \/ x.id = nextId
         /\ \A x \in Held' : x \in Held \/ x.id = nextId
         /\ \A p : Covered(p) \/ p \in (posted + 1)..posted' => Covered(p)'
<1>1. PICK n \in 1..MaxPost :
        /\ LET item == [id |-> nextId, pts |-> [i \in 1..n |-> posted + i]]
           IN Dispatch(item) \/ Coalesce(item) \/ Enqueue(item) \/ DropOldest(item)
        /\ posted' = posted + n
  BY DEF Post
<1>2. active /\ replies' = replies /\ ingested' = ingested BY DEF Post
<1> DEFINE item == [id |-> nextId, pts |-> [i \in 1..n |-> posted + i]]
<1>3. n \in Nat BY SMT
<1>4. /\ item \in Item /\ Rising(item.pts) /\ Points(item) = (posted + 1)..posted'
      /\ item.id = nextId /\ item.pts \in Seq(Nat)
      /\ \A y \in Held \cup Waiting : Precede(Points(y), Points(item))
  BY <1>1, <1>2, <1>3, NewRequest
<1>5. Dispatch(item) \/ Coalesce(item) \/ Enqueue(item) \/ DropOldest(item)
  BY <1>1
<1> HIDE DEF item
<1>6. /\ queue \in Seq(Item) /\ requests \in Seq(Item) /\ Sorted(queue) /\ nextId \in Int
  BY <1>2 DEF Line, Types, InLine
<1> SUFFICES /\ \A x \in Waiting' : x \in Waiting \/ x.id = nextId
             /\ \A x \in Held' : x \in Held \/ x.id = nextId
             /\ overflowed \subseteq overflowed'
             /\ \A x \in Outstanding : x \in Outstanding' \/ Points(x) \subseteq overflowed'
                                       \/ \E y \in Outstanding' : Points(x) \subseteq Points(y)
             /\ \E y \in Outstanding' : Points(item) \subseteq Points(y)
  BY <1>2, <1>4 DEF Covered
<1>7. CASE Dispatch(item)
  <2>1. requests' = Append(requests, item) /\ queue' = queue /\ overflowed' = overflowed
    BY <1>7 DEF Dispatch, Send
  <2>2. Range(requests') = Range(requests) \cup {item}
    BY <1>4, <1>6, <2>1, AppendedRange
  <2>3. Held' = Held \cup {item} /\ Waiting' = Waiting
    BY <1>2, <2>1, <2>2 DEF Held, Waiting
  <2> QED BY <1>4, <2>1, <2>3 DEF Outstanding
<1>8. CASE Coalesce(item)
  <2> DEFINE x == [id |-> item.id, pts |-> Last(queue).pts \o item.pts]
  <2>1. /\ queue # <<>> /\ queue' = WithLast(queue, x)
        /\ overflowed' = overflowed /\ requests' = requests
    BY <1>8 DEF Coalesce, Fits
  <2>2. \A y \in Range(queue) : Precede(Points(y), Range(item.pts))
    BY <1>4 DEF Waiting, Points
  <2>3. item.id \in Int BY <1>4, <1>6
  <2>4. /\ Last(queue) \in Waiting /\ Points(x) = Points(Last(queue)) \cup Points(item)
        /\ Waiting' \subseteq Waiting \cup {x} /\ Waiting \subseteq Waiting' \cup {Last(queue)}
        /\ x \in Waiting'
    BY <1>4, <1>6, <2>1, <2>2, <2>3, SortedWithLast DEF Waiting, Points
  <2>5. Held' = Held BY <1>2, <2>1 DEF Held
  <2>6. x.id = nextId BY <1>4
  <2> HIDE DEF x
  <2> QED BY <2>1, <2>4, <2>5, <2>6 DEF Outstanding
<1>9. CASE Enqueue(item)
  <2>1. /\ queue' = Append(queue, item) /\ requests' = requests /\ overflowed' = overflowed
    BY <1>9 DEF Enqueue
  <2>2. Waiting' = Waiting \cup {item} /\ Held' = Held
    BY <1>2, <1>4, <1>6, <2>1, AppendedRange DEF Waiting, Held
  <2> QED BY <1>4, <2>1, <2>2 DEF Outstanding
<1>10. CASE DropOldest(item)
  <2>1. /\ queue' = Append(Tail(queue), item) /\ requests' = requests
        /\ overflowed' = overflowed \cup Points(Head(queue))
    BY <1>10 DEF DropOldest, Points
  <2>2. queue # <<>>
    <3>1. Len(queue) >= MaxQueued BY <1>10 DEF DropOldest
    <3> QED BY <3>1, FullIsNotEmpty, Zenon
  <2>3. Tail(queue) \in Seq(Item) /\ Waiting = {Head(queue)} \cup Range(Tail(queue))
    BY <1>6, <2>2, TakenRange DEF Waiting
  <2>4. Range(Append(Tail(queue), item)) = Range(Tail(queue)) \cup {item}
    <3> DEFINE rest == Tail(queue)
    <3>1. rest \in Seq(Item) BY <2>3
    <3> HIDE DEF rest
    <3>2. Range(Append(rest, item)) = Range(rest) \cup {item}
      BY <1>4, <3>1, AppendedRange
    <3> QED BY <3>2 DEF rest
  <2>5. Waiting' = Range(Tail(queue)) \cup {item} /\ Held' = Held
    BY <1>2, <2>1, <2>4 DEF Waiting, Held
  <2> QED BY <1>4, <2>1, <2>3, <2>5 DEF Outstanding
<1> QED BY <1>5, <1>7, <1>8, <1>9, <1>10

LEMMA BridgeInitSafe == Init => BridgeIInv
<1> SUFFICES ASSUME Init PROVE BridgeIInv
  OBVIOUS
<1>1. nextRef = 0 /\ nextId = 0 /\ minId = 0 /\ mark = 0 /\ posted = 0
      /\ queue = <<>> /\ requests = <<>> /\ replies = <<>>
  BY DEF Init
<1>2. Held = {} /\ Waiting = {} BY <1>1, EmptyRange DEF Held, Waiting
<1>3. (mark + 1)..posted = {} BY <1>1
<1>4. minId <= nextId BY <1>1
<1> QED BY <1>1, <1>2, <1>3, <1>4, LineInit DEF BridgeIInv, OldIsOld, QueueAccepted

LEMMA BridgePostSafe == ASSUME BridgeIInv, Post PROVE BridgeIInv'
<1>1. /\ active /\ active' = active /\ nextId' = nextId + 1 /\ nextRef' = nextId + 1
      /\ UNCHANGED <<minId, mark, errors>>
  BY DEF Post, countVars
<1>2. nextId \in Nat /\ minId \in Nat /\ minId <= nextId /\ posted \in Nat /\ mark \in Nat
      /\ OldIsOld /\ QueueAccepted
  BY <1>1 DEF BridgeIInv, Line, Types
<1>3. Line' BY PostLine DEF BridgeIInv
<1>4. minId' <= nextId' /\ ~(nextId < minId) /\ nextId >= minId BY <1>1, <1>2
<1>5. OldIsOld' /\ QueueAccepted'
  BY <1>1, <1>2, <1>4, PostAdds DEF BridgeIInv, OldIsOld, QueueAccepted
<1>6. posted' \in Nat BY <1>3 DEF Line, Types
<1>7. ASSUME errors = 0, ~Culling, NEW p \in (mark + 1)..posted' PROVE Covered(p)'
  <2>1. CASE p <= posted
    <3>1. p \in (mark + 1)..posted BY <1>2, <1>6, <2>1
    <3> QED BY <1>1, <1>7, <3>1, PostAdds DEF BridgeIInv
  <2>2. CASE p > posted
    <3>1. p \in (posted + 1)..posted' BY <1>2, <1>6, <2>2
    <3> QED BY <3>1, PostAdds DEF BridgeIInv
  <2> QED BY <1>2, <1>6, <2>1, <2>2
<1> QED BY <1>1, <1>3, <1>4, <1>5, <1>7 DEF BridgeIInv

(* An answer that is taken is ingested, or old.                            *)
LEMMA BridgeDeliverSafe == ASSUME BridgeIInv, Deliver PROVE BridgeIInv'
<1>1. /\ replies # <<>> /\ replies' = Tail(replies)
      /\ UNCHANGED <<nextId, minId, nextRef, active, posted, mark, overflowed, errors>>
  BY DEF Deliver, OnMessage, OnError, countVars, historyVars
<1>2. Line' BY OnMessageLine, OnErrorLine DEF Deliver, BridgeIInv
<1>3. CASE ~active BY <1>1, <1>2, <1>3 DEF BridgeIInv
<1>4. CASE active
  <2> DEFINE reply == Head(replies)
  <2>1. NextGoesOut BY <1>1, <1>4 DEF Deliver, OnMessage, OnError, NextGoesOut
  <2>2. reply \in Item /\ Held = {reply} /\ Held' \cup Waiting' = Waiting
    BY <2>1, GoneOut DEF BridgeIInv
  <2>3. OldIsOld /\ QueueAccepted /\ ingested \in Seq(Nat) /\ minId \in Nat
        /\ mark \in Nat /\ posted \in Nat
    BY <1>4 DEF BridgeIInv, Line, Types
  <2>4. \A x \in Waiting : ~(x.id < minId)
    <3> SUFFICES ASSUME NEW x \in Waiting PROVE ~(x.id < minId)
      OBVIOUS
    <3>1. x \in Item /\ x.id >= minId
      BY <2>3, RangeIs DEF BridgeIInv, Line, Types, QueueAccepted, Waiting
    <3> QED BY <2>3, <3>1 DEF Item
  <2>5. OldIsOld' /\ QueueAccepted'
    BY <1>1, <2>2, <2>3, <2>4 DEF OldIsOld, QueueAccepted
  <2>6. reply.pts \in Seq(Nat) /\ reply.id \in Int BY <2>2 DEF Item
  <2>7. \/ ingested' = ingested \o reply.pts
        \/ (ingested' = ingested /\ \A p \in Points(reply) : p <= mark)
    <3>1. CASE OnMessage
      <4>1. CASE Accepted(reply) BY <1>4, <3>1, <4>1 DEF OnMessage, Accepted
      <4>2. CASE ~Accepted(reply)
        <5>1. reply.id < minId BY <2>3, <2>6, <4>2 DEF Accepted
        <5> QED BY <1>4, <2>2, <2>3, <3>1, <4>2, <5>1 DEF OnMessage, OldIsOld
      <4> QED BY <4>1, <4>2
    <3>2. CASE OnError
      <4>1. reply = Error /\ ingested' = ingested BY <3>2 DEF OnError, historyVars
      <4> QED BY <4>1, ErrorIs
    <3> QED BY <3>1, <3>2 DEF Deliver
  <2>8. Range(ingested \o reply.pts) = Range(ingested) \cup Points(reply)
    BY <2>3, <2>6, JoinedRange DEF Points
  <2> HIDE DEF reply
  <2>9. ASSUME errors = 0, ~Culling, NEW p \in (mark + 1)..posted PROVE Covered(p)'
    <3>1. Covered(p) /\ ~(p <= mark) BY <1>4, <2>3, <2>9 DEF BridgeIInv
    <3>2. Outstanding = {reply} \cup Outstanding' BY <2>2 DEF Outstanding
    <3>3. Range(ingested) \subseteq Range(ingested')
          /\ (p \in Points(reply) => p \in Range(ingested'))
      BY <2>7, <2>8, <3>1
    <3> QED BY <1>1, <3>1, <3>2, <3>3 DEF Covered
  <2> QED BY <1>1, <1>2, <2>5, <2>9 DEF BridgeIInv
<1> QED BY <1>3, <1>4

LEMMA BridgeResetSafe == ASSUME BridgeIInv, Reset PROVE BridgeIInv'
<1>1. /\ active /\ active' = active /\ minId' = nextRef /\ queue' = <<>> /\ mark' = posted
      /\ UNCHANGED <<nextId, nextRef, requests, replies, posted, errors>>
  BY DEF Reset, Watermark, channelVars
<1>2. Line' BY ResetLine DEF BridgeIInv
<1>3. Held' = Held /\ Waiting' = {} BY <1>1, EmptyRange DEF Held, Waiting
<1>4. OldIsOld' BY <1>1, <1>3 DEF BridgeIInv, Line, InLine, OldIsOld
<1>5. QueueAccepted' BY <1>3 DEF QueueAccepted
<1>6. (mark' + 1)..posted' = {} /\ minId' <= nextId'
  BY <1>1 DEF BridgeIInv, Line, Types
<1> QED BY <1>1, <1>2, <1>4, <1>5, <1>6 DEF BridgeIInv

LEMMA BridgePackSafe == ASSUME BridgeIInv, Pack PROVE BridgeIInv'
<1>1. /\ requests # <<>> /\ requests' = Tail(requests)
      /\ UNCHANGED <<nextId, minId, nextRef, active, queue, posted, mark, ingested, overflowed, errors>>
  BY DEF Pack, bridgeVars, historyVars, countVars
<1>2. PICK pts \in Survivors(Head(requests).pts) :
        replies' = Append(replies, [id |-> Head(requests).id, pts |-> pts])
  BY DEF Pack
<1> DEFINE reply == [id |-> Head(requests).id, pts |-> pts]
<1>3. active /\ requests \in Seq(Item) /\ InLine
  BY <1>1 DEF BridgeIInv, Line, Types
<1>4. Head(requests) \in Item /\ Head(requests) \in Held
  BY <1>1, <1>3, TakenRange DEF Held
<1>5. /\ pts \in Seq(Nat) /\ Range(pts) \subseteq Range(Head(requests).pts)
      /\ ~Culling => pts = Head(requests).pts
  <2>1. Rising(Head(requests).pts) /\ Head(requests).pts \in Seq(Nat)
    BY <1>3, <1>4 DEF InLine, Item
  <2> QED BY <2>1, SurvivorsRise
<1>6. /\ reply \in Item /\ Points(reply) \subseteq Points(Head(requests))
      /\ reply.id = Head(requests).id
      /\ ~Culling => Points(reply) = Points(Head(requests))
  BY <1>4, <1>5 DEF Item, Points
<1> HIDE DEF reply
<1>7. Held' = {reply} /\ Held = {Head(requests)}
  BY <1>1, <1>2, <1>6, WorkerHolds DEF BridgeIInv, reply
<1>8. Waiting' = Waiting BY <1>1 DEF Waiting
<1>9. OldIsOld' /\ QueueAccepted'
  BY <1>1, <1>3, <1>4, <1>6, <1>7, <1>8 DEF BridgeIInv, OldIsOld, QueueAccepted
<1>10. ASSUME ~Culling, NEW p, Covered(p) PROVE Covered(p)'
  BY <1>1, <1>6, <1>7, <1>8, <1>10 DEF Covered, Outstanding
<1>11. Line' BY PackLine DEF BridgeIInv
<1> QED BY <1>1, <1>9, <1>10, <1>11 DEF BridgeIInv

LEMMA BridgeFailSafe == ASSUME BridgeIInv, Fail PROVE BridgeIInv'
<1>1. /\ requests # <<>> /\ requests' = Tail(requests) /\ replies' = Append(replies, Error)
      /\ errors' = errors + 1
      /\ UNCHANGED <<nextId, minId, nextRef, active, queue, mark>>
  BY DEF Fail, bridgeVars, historyVars
<1>2. Line' BY FailLine DEF BridgeIInv
<1>3. Held' = {Error} /\ active BY <1>1, ErrorIs, WorkerHolds DEF BridgeIInv
<1>4. errors' # 0 BY <1>1 DEF BridgeIInv, Line, Types
<1>5. OldIsOld' BY <1>3, ErrorIs DEF OldIsOld
<1>6. QueueAccepted' BY <1>1, <1>3 DEF BridgeIInv, QueueAccepted, Waiting
<1> QED BY <1>1, <1>2, <1>4, <1>5, <1>6 DEF BridgeIInv

LEMMA BridgeNextSafe == BridgeIInv /\ [Next]_vars => BridgeIInv'
<1> SUFFICES ASSUME BridgeIInv, [Next]_vars PROVE BridgeIInv'
  OBVIOUS
<1>1. CASE Terminate
  <2>1. active' = FALSE /\ UNCHANGED <<nextId, minId, nextRef>> BY <1>1 DEF Terminate
  <2>2. Line' BY <1>1, TerminateLine DEF BridgeIInv
  <2> QED BY <2>1, <2>2 DEF BridgeIInv
<1>2. CASE UNCHANGED vars
  <2>1. UNCHANGED <<nextId, minId, nextRef, active, queue, requests, replies,
                    posted, ingested, mark, overflowed, errors>>
    BY <1>2 DEF vars, bridgeVars, channelVars, historyVars, countVars
  <2>2. Held' = Held /\ Waiting' = Waiting BY <2>1 DEF Held, Waiting
  <2>3. Line' BY <1>2, LineStutters DEF BridgeIInv
  <2>4. (active' => OldIsOld' /\ QueueAccepted') /\ \A p : Covered(p) => Covered(p)'
    BY <2>1, <2>2 DEF BridgeIInv, OldIsOld, QueueAccepted, Covered, Outstanding
  <2> QED BY <2>1, <2>3, <2>4 DEF BridgeIInv
<1> QED BY <1>1, <1>2, BridgePostSafe, BridgeDeliverSafe, BridgeResetSafe, BridgePackSafe,
           BridgeFailSafe DEF Next, Worker

(* No point posted since the last reset is lost but to a full queue, the   *)
(* frustum or a worker error: it was ingested, is with the worker or       *)
(* waits (post, dispatchNext, onmessage, reset).                           *)
THEOREM NoPointIsLost == Spec => []NothingLost
<1>1. Init => BridgeIInv BY BridgeInitSafe
<1>2. BridgeIInv /\ [Next]_vars => BridgeIInv' BY BridgeNextSafe
<1>3. BridgeIInv => NothingLost BY CoveredIs DEF BridgeIInv
<1> QED BY <1>1, <1>2, <1>3, PTL DEF Spec
=============================================================================
