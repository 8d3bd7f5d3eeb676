-------------------------- MODULE CopcSourceProofs --------------------------
(***************************************************************************)
(* The persistent cache's running total is that of its entries, and the    *)
(* decode pool has each of its calls once and no idle worker beside a      *)
(* waiting call, for any number of calls, workers and files: whatever the  *)
(* order of answers, timers, evictions, failures, destroy and reload.      *)
(***************************************************************************)
EXTENDS CopcSource, SequenceTheorems, IndexSets

Phases == UnderWay \cup {"settled", "gone"}
Results == {"none", "tile", "null", "error"}
Call == [key : Keys, phase : Phases, aborted : BOOLEAN, sent : BOOLEAN, result : Results]
Entry == [key : Keys \cup {NoKey}, size : {0, 1}]
SetCall == [step : {"none", "evicting", "creating", "writing", "closing"},
            key : Keys \cup {NoKey}, victim : Keys \cup {NoKey},
            copy : {"absent", "empty", "whole"}]

Types ==
  /\ sets \in [SetIds -> SetCall]
  /\ calls \in Seq(Call)
  /\ decodeQueue \in Seq(Nat) /\ decodeWorkers \in [Workers -> Nat]
  /\ destroyed \in BOOLEAN

(* The entries es amount to t, and each is of a file of its own.           *)
Full(es) == {i \in DOMAIN es : es[i].size = 1}
Listed(es, t) ==
  /\ es \in Seq(Entry) /\ t = Cardinality(Full(es))
  /\ \A i, j \in DOMAIN es : es[i].key = es[j].key => i = j

(* The queue q holds calls of cs that wait, the workers ws calls that are  *)
(* decoded, each in one place, and unless the source is destroyed all.     *)
InPool == {"queued", "decoding"}
Pool(cs, q, ws, dead) ==
  /\ \A i \in DOMAIN q : q[i] \in DOMAIN cs /\ cs[q[i]].phase = "queued"
  /\ \A i, j \in DOMAIN q : q[i] = q[j] => i = j
  /\ \A w \in Workers : ws[w] # Idle => ws[w] \in DOMAIN cs /\ cs[ws[w]].phase = "decoding"
  /\ \A v, w \in Workers : ws[v] = ws[w] /\ ws[v] # Idle => v = w
  /\ ~dead => \A c \in DOMAIN cs :
       /\ cs[c].phase = "queued" => \E i \in DOMAIN q : q[i] = c
       /\ cs[c].phase = "decoding" => \E w \in Workers : ws[w] = c
Busy(q, ws) == q # <<>> => \A w \in Workers : ws[w] # Idle

IInv == /\ Types /\ Listed(entries, total)
        /\ Pool(calls, decodeQueue, decodeWorkers, destroyed)
        /\ Busy(decodeQueue, decodeWorkers)

-----------------------------------------------------------------------------
(* The entries                                                             *)

(* Dropping the oldest entry                                               *)
LEMMA TailListed ==
  ASSUME NEW es, NEW t, Listed(es, t), es # <<>>
  PROVE  Listed(Tail(es), t - Head(es).size)
<1>1. es \in Seq(Entry) /\ Len(es) \in Nat \ {0} /\ DOMAIN es = 1..Len(es)
  BY EmptySeq, LenProperties DEF Listed
<1>2. Tail(es) \in Seq(Entry) /\ Len(Tail(es)) = Len(es) - 1
      /\ \A i \in 1..(Len(es) - 1) : Tail(es)[i] = es[i + 1]
  BY <1>1, HeadTailProperties
<1>3. DOMAIN Tail(es) = 1..(Len(es) - 1)
  BY <1>2, LenProperties
<1>4. Full(es) \in SUBSET (1..Len(es))
  BY <1>1 DEF Full
<1>5. Full(Tail(es)) = {i \in 1..(Len(es) - 1) : i + 1 \in Full(es)}
  BY <1>1, <1>2, <1>3 DEF Full
<1>6. Cardinality(Full(Tail(es))) = Cardinality(Full(es)) - (IF 1 \in Full(es) THEN 1 ELSE 0)
  BY <1>1, <1>4, <1>5, OneLess
<1>7. Head(es) = es[1] /\ es[1] \in Entry
  BY <1>1, HeadTailProperties, ElementOfSeq, 1 \in 1..Len(es)
<1>8. (IF 1 \in Full(es) THEN 1 ELSE 0) = Head(es).size
  BY <1>1, <1>7 DEF Full, Entry
<1>9. \A i, j \in DOMAIN Tail(es) : Tail(es)[i].key = Tail(es)[j].key => i = j
  <2> SUFFICES ASSUME NEW i \in 1..(Len(es) - 1), NEW j \in 1..(Len(es) - 1),
                      es[i + 1].key = es[j + 1].key
               PROVE  i = j
    BY <1>2, <1>3
  <2>1. i + 1 \in DOMAIN es /\ j + 1 \in DOMAIN es BY <1>1
  <2>2. i + 1 = j + 1 BY <2>1 DEF Listed
  <2> QED BY <1>1, <2>2
<1> QED BY <1>2, <1>6, <1>8, <1>9 DEF Listed

(* A new entry for a file that has none                                    *)
LEMMA AppendListed ==
  ASSUME NEW es, NEW t, Listed(es, t), NEW e \in Entry,
         \A i \in DOMAIN es : es[i].key # e.key
  PROVE  Listed(Append(es, e), t + e.size)
<1>1. es \in Seq(Entry) /\ Len(es) \in Nat /\ DOMAIN es = 1..Len(es)
  BY LenProperties DEF Listed
<1>2. Append(es, e) \in Seq(Entry) /\ Len(Append(es, e)) = Len(es) + 1
      /\ (\A i \in 1..Len(es) : Append(es, e)[i] = es[i]) /\ Append(es, e)[Len(es) + 1] = e
  BY <1>1, AppendProperties
<1>3. DOMAIN Append(es, e) = 1..(Len(es) + 1)
  BY <1>2, LenProperties
<1>4. Full(es) \in SUBSET (1..Len(es))
  BY <1>1 DEF Full
<1>5. Full(Append(es, e)) = IF e.size = 1 THEN Full(es) \cup {Len(es) + 1} ELSE Full(es)
  <2> DEFINE m == Len(es)
  <2>1. ASSUME NEW i PROVE i \in Full(Append(es, e)) <=>
          (i \in Full(es) \/ (i = m + 1 /\ e.size = 1))
    <3>1. i \in 1..(m + 1) <=> i \in 1..m \/ i = m + 1 BY <1>1
    <3>2. CASE i \in 1..m
      <4>1. i # m + 1 BY <1>1, <3>2
      <4> HIDE DEF m
      <4> QED BY <1>1, <1>2, <1>3, <3>1, <3>2, <4>1 DEF Full, m
    <3>3. CASE i = m + 1
      <4>1. i \notin 1..m BY <1>1, <3>3
      <4> QED BY <1>1, <1>2, <1>3, <3>1, <3>3, <4>1 DEF Full
    <3>4. CASE i \notin 1..m /\ i # m + 1
      BY <1>1, <1>3, <3>1, <3>4 DEF Full
    <3> QED BY <3>2, <3>3, <3>4
  <2> QED BY <2>1
<1>6. Cardinality(Full(es)) \in Nat
      /\ Cardinality(Full(es) \cup {Len(es) + 1}) = Cardinality(Full(es)) + 1
  BY <1>1, <1>4, OneMore
<1>7. Cardinality(Full(Append(es, e))) = Cardinality(Full(es)) + e.size
  <2>1. e.size \in {0, 1} BY DEF Entry
  <2>2. CASE e.size = 1 BY <1>5, <1>6, <2>2
  <2>3. CASE e.size = 0 BY <1>5, <1>6, <2>3
  <2> QED BY <2>1, <2>2, <2>3
<1>8. \A i, j \in DOMAIN Append(es, e) :
        Append(es, e)[i].key = Append(es, e)[j].key => i = j
  <2>1. \A i \in DOMAIN Append(es, e) : i \in DOMAIN es \/ i = Len(es) + 1
    BY <1>1, <1>3
  <2> QED BY <1>1, <1>2, <2>1 DEF Listed
<1> QED BY <1>2, <1>7, <1>8 DEF Listed

(* The entry of a file taken out                                           *)
LEMMA WithoutListed ==
  ASSUME Listed(entries, total), NEW i \in DOMAIN entries
  PROVE  /\ Listed(Without(i), total - entries[i].size)
         /\ \A j \in DOMAIN Without(i) : Without(i)[j].key # entries[i].key
<1> DEFINE n == Len(entries)
           at(j) == IF j < i THEN j ELSE j + 1
<1>1. entries \in Seq(Entry) /\ n \in Nat /\ DOMAIN entries = 1..n /\ n # 0 /\ i \in 1..n
  BY LenProperties DEF Listed
<1>2. \A j \in 1..(n - 1) : at(j) \in 1..n /\ at(j) # i
  BY <1>1
<1>3. \A j \in 1..n : entries[j] \in Entry
  BY <1>1, ElementOfSeq
<1>4. Without(i) = [j \in 1..(n - 1) |-> entries[at(j)]]
  BY DEF Without
<1>5. Without(i) \in Seq(Entry) /\ DOMAIN Without(i) = 1..(n - 1)
  <2>1. n - 1 \in Nat BY <1>1
  <2> HIDE DEF n, at
  <2>2. Without(i) \in [1..(n - 1) -> Entry] BY <1>2, <1>3, <1>4
  <2> QED BY <2>1, <2>2, SeqDef
<1>6. Full(entries) \in SUBSET (1..n)
  BY <1>1 DEF Full
<1>7. Full(Without(i)) = {j \in 1..(n - 1) : (IF j < i THEN j ELSE j + 1) \in Full(entries)}
  <2> HIDE DEF n
  <2>1. \A j \in 1..(n - 1) : j \in Full(Without(i)) <=> at(j) \in Full(entries)
    <3> HIDE DEF at
    <3> QED BY <1>1, <1>2, <1>4, <1>5 DEF Full
  <2>2. Full(Without(i)) \subseteq 1..(n - 1) BY <1>5 DEF Full
  <2> QED BY <2>1, <2>2
<1>8. Cardinality(Full(Without(i)))
        = Cardinality(Full(entries)) - (IF i \in Full(entries) THEN 1 ELSE 0)
  <2>1. n \in Nat \ {0} BY <1>1
  <2> DEFINE A == Full(entries)
             B == Full(Without(i))
  <2>2. i \in 1..n /\ A \in SUBSET (1..n) BY <1>1, <1>6
  <2>3. B = {j \in 1..(n - 1) : (IF j < i THEN j ELSE j + 1) \in A} BY <1>7
  <2> HIDE DEF n, A, B
  <2>4. Cardinality(B) = Cardinality(A) - (IF i \in A THEN 1 ELSE 0)
    BY <2>1, <2>2, <2>3, OneRemoved
  <2> QED BY <2>4 DEF A, B
<1>9. (IF i \in Full(entries) THEN 1 ELSE 0) = entries[i].size
  BY <1>1, <1>3 DEF Full, Entry
<1>10. ASSUME NEW j \in 1..(n - 1), NEW k \in 1..(n - 1), at(j) = at(k) PROVE j = k
  BY <1>1, <1>10
<1>11. \A j, k \in DOMAIN Without(i) : Without(i)[j].key = Without(i)[k].key => j = k
  <2> HIDE DEF n, at
  <2> QED BY <1>1, <1>2, <1>4, <1>5, <1>10 DEF Listed
<1>12. \A j \in DOMAIN Without(i) : Without(i)[j].key # entries[i].key
  <2> HIDE DEF n, at
  <2> QED BY <1>1, <1>2, <1>4, <1>5 DEF Listed
<1> QED BY <1>5, <1>8, <1>9, <1>11, <1>12 DEF Listed

(* push() after splice()                                                   *)
LEMMA RelistKeeps ==
  ASSUME Listed(entries, total), NEW k \in Keys \cup {NoKey}, NEW size \in {0, 1},
         Relist(k, size)
  PROVE  Listed(entries', total')
<1> DEFINE entry == [key |-> k, size |-> size]
           listed == {i \in DOMAIN entries : entries[i].key = k}
<1>1. entry \in Entry /\ entry.key = k /\ entry.size = size
  BY DEF Entry
<1>2. CASE listed = {} /\ entries' = Append(entries, entry) /\ total' = total + size
  <2>1. \A i \in DOMAIN entries : entries[i].key # entry.key BY <1>2
  <2>2. Listed(Append(entries, entry), total + entry.size) BY <1>1, <2>1, AppendListed
  <2> QED BY <1>1, <1>2, <2>2
<1>3. ASSUME NEW i \in listed, entries' = Append(Without(i), entry),
             total' = total - entries[i].size + size
      PROVE  Listed(entries', total')
  <2>1. i \in DOMAIN entries /\ entries[i].key = k OBVIOUS
  <2>2. Listed(Without(i), total - entries[i].size)
        /\ \A j \in DOMAIN Without(i) : Without(i)[j].key # entry.key
    BY <1>1, <2>1, WithoutListed
  <2>3. Listed(Append(Without(i), entry), (total - entries[i].size) + entry.size)
    BY <1>1, <2>2, AppendListed
  <2> QED BY <1>1, <1>3, <2>3
<1> QED BY <1>2, <1>3 DEF Relist

(* An iteration of _evictIfNeeded                                          *)
LEMMA MakeRoomKeeps ==
  ASSUME Listed(entries, total), sets \in [SetIds -> SetCall],
         NEW i, NEW k \in Keys \cup {NoKey}, MakeRoom(i, k)
  PROVE  Listed(entries', total') /\ sets' \in [SetIds -> SetCall]
<1>1. CASE entries # <<>> /\ total + 1 > MaxBytes
  <2>1. entries' = Tail(entries) /\ total' = total - Head(entries).size
        /\ sets' = [sets EXCEPT ![i] = [NoSet EXCEPT !.step = "evicting", !.key = k,
                                                     !.victim = Head(entries).key]]
    BY <1>1 DEF MakeRoom
  <2>2. Listed(entries', total') BY <1>1, <2>1, TailListed
  <2>3. Head(entries) \in Entry BY <1>1, HeadTailProperties DEF Listed
  <2>4. [NoSet EXCEPT !.step = "evicting", !.key = k, !.victim = Head(entries).key] \in SetCall
    BY <2>3 DEF NoSet, SetCall, Entry
  <2> QED BY <2>1, <2>2, <2>4
<1>2. CASE ~(entries # <<>> /\ total + 1 > MaxBytes)
  <2>1. sets' = [sets EXCEPT ![i] = [NoSet EXCEPT !.step = "creating", !.key = k]]
        /\ UNCHANGED <<entries, total>>
    BY <1>2 DEF MakeRoom
  <2>2. [NoSet EXCEPT !.step = "creating", !.key = k] \in SetCall
    BY DEF NoSet, SetCall
  <2> QED BY <2>1, <2>2
<1> QED BY <1>1, <1>2

(* The entries that open() finds                                           *)
LEMMA OpenLists ==
  ASSUME Open PROVE Listed(entries', total') /\ sets' \in [SetIds -> SetCall]
<1> DEFINE n == Cardinality(Present)
<1>1. IsFiniteSet(Present) /\ n \in Nat
  <2>1. IsFiniteSet(Keys) /\ Present \subseteq Keys BY OpfsConstants DEF Present
  <2> QED BY <2>1, FS_Subset, FS_CardinalityType
<1>2. PICK order \in Bijection(1..n, Present) :
        entries' = [i \in 1..n |-> [key |-> order[i], size |-> SizeOf(files[order[i]])]]
  BY DEF Open
<1>3. order \in [1..n -> Present] /\ \A i, j \in 1..n : order[i] = order[j] => i = j
  BY DEF Bijection, Injection, IsInjective
<1>4. DOMAIN entries' = 1..n /\ entries' \in Seq(Entry)
  <2> HIDE DEF n
  <2>1. entries' \in [1..n -> Entry]
    BY <1>2, <1>3 DEF Present, Entry, SizeOf
  <2> QED BY <1>1, <2>1, SeqDef
<1>5. Whole \in SUBSET Present
  BY DEF Whole, Present
<1>6. Full(entries') = {i \in 1..n : order[i] \in Whole}
  <2> HIDE DEF n
  <2> QED BY <1>2, <1>3, <1>4 DEF Full, SizeOf, Whole, Present
<1>7. Cardinality({i \in 1..n : order[i] \in Whole}) = Cardinality(Whole)
  <2> HIDE DEF n
  <2> QED BY <1>1, <1>5, ListedOnce
<1>8. total' = Cardinality(Full(entries'))
  BY <1>6, <1>7 DEF Open
<1>9. \A i, j \in DOMAIN entries' : entries'[i].key = entries'[j].key => i = j
  <2> HIDE DEF n
  <2> QED BY <1>2, <1>3, <1>4
<1>10. sets' \in [SetIds -> SetCall]
  BY DEF Open, NoSet, SetCall
<1> QED BY <1>4, <1>8, <1>9, <1>10 DEF Listed

-----------------------------------------------------------------------------
(* The pool                                                                *)

LEMMA CallsDomain ==
  ASSUME NEW cs \in Seq(Call)
  PROVE  Len(cs) \in Nat /\ DOMAIN cs = 1..Len(cs) /\ \A c \in DOMAIN cs : cs[c] \in Call /\ c # Idle
  BY LenProperties, ElementOfSeq DEF Idle

LEMMA SameDomain ==
  ASSUME NEW cs \in Seq(Call), NEW ds, DOMAIN ds = DOMAIN cs,
         ds = [c \in DOMAIN ds |-> ds[c]], \A c \in DOMAIN cs : ds[c] \in Call
  PROVE  ds \in Seq(Call)
<1>1. Len(cs) \in Nat /\ DOMAIN cs = 1..Len(cs)
  BY CallsDomain
<1> QED BY <1>1, SeqDef

NothingToDo(cs, q, ws) ==
  /\ q = <<>> \/ \A w \in Workers : ws[w] # Idle
  /\ calls' = cs /\ decodeQueue' = q /\ decodeWorkers' = ws

HandsOver(cs, q, ws) ==
  /\ q # <<>>
  /\ \E u \in Workers : ws[u] = Idle /\ decodeWorkers' = [ws EXCEPT ![u] = q[1]]
  /\ decodeQueue' = Tail(q)
  /\ calls' = [c \in DOMAIN cs |->
       IF c = q[1] THEN [cs[c] EXCEPT !.phase = "decoding", !.sent = TRUE] ELSE cs[c]]

(* With one job waiting or one worker idle, at most, the pump has either   *)
(* nothing to do or one job to hand over.                                  *)
LEMMA PumpEffect ==
  ASSUME NEW cs \in Seq(Call), NEW q \in Seq(Nat), NEW ws \in [Workers -> Nat],
         Pump(cs, q, ws),
         Len(q) <= 1 \/ \A v, w \in Workers : ws[v] = Idle /\ ws[w] = Idle => v = w
  PROVE  NothingToDo(cs, q, ws) \/ HandsOver(cs, q, ws)
<1> DEFINE n == PoolSize
           S == {w \in Workers : ws[w] = Idle}
           m == Len(q)
           taken == Least(IdleUpTo(n, ws), m)
<1>1. n \in Nat \ {0} /\ Workers = 1..n /\ m \in Nat /\ S \in SUBSET (1..n)
      /\ DOMAIN q = 1..m
  BY SourceConstants, LenProperties DEF Workers
<1>2. \A w \in 1..n : IdleUpTo(w, ws) = Cardinality({v \in 1..w : v \in S})
  <2> TAKE w \in 1..n
  <2>1. {v \in 1..w : ws[v] = Idle} = {v \in 1..w : v \in S} BY <1>1
  <2> QED BY <2>1 DEF IdleUpTo
<1>3. /\ decodeWorkers' = [w \in Workers |->
           IF ws[w] = Idle /\ IdleUpTo(w, ws) <= m THEN q[IdleUpTo(w, ws)] ELSE ws[w]]
      /\ decodeQueue' = [i \in 1..(m - taken) |-> q[taken + i]]
      /\ calls' = [c \in DOMAIN cs |-> IF \E i \in 1..taken : q[i] = c
                     THEN [cs[c] EXCEPT !.phase = "decoding", !.sent = TRUE] ELSE cs[c]]
  BY DEF Pump
<1>4. cs = [c \in DOMAIN cs |-> cs[c]] /\ q = [i \in 1..m |-> q[i]]
  BY <1>1, LenProperties, SeqDef
<1>5. CASE S = {}
  <2>1. \A w \in Workers : ws[w] # Idle BY <1>5
  <2>2. IdleUpTo(n, ws) = 0
    <3>1. {v \in 1..n : v \in S} = {} BY <1>5
    <3>2. n \in 1..n BY <1>1
    <3> HIDE DEF n, S
    <3> QED BY <1>2, <3>1, <3>2, FS_EmptySet
  <2>3. taken = 0 BY <1>1, <2>2 DEF Least
  <2> HIDE DEF taken, S, n
  <2>4. decodeWorkers' = ws BY <1>3, <2>1
  <2>5. decodeQueue' = q
    <3>1. m - taken = m /\ \A i \in 1..m : taken + i = i BY <1>1, <2>3
    <3> HIDE DEF m
    <3> QED BY <1>3, <1>4, <3>1
  <2>6. calls' = cs
    <3>1. 1..taken = {} BY <2>3
    <3> QED BY <1>3, <1>4, <3>1
  <2> QED BY <2>1, <2>4, <2>5, <2>6 DEF NothingToDo
<1>6. CASE S # {}
  <2>1. PICK u \in S : \A v \in S : u <= v
    <3> HIDE DEF S, n
    <3>1. n \in Int /\ 1 \in Int /\ S \subseteq 1..n BY <1>1
    <3>2. IsFiniteSet(1..n) BY <3>1, FS_Interval
    <3>3. IsFiniteSet(S) BY <3>1, <3>2, FS_Subset
    <3>4. S \in SUBSET Int BY <3>1
    <3> QED BY <1>6, <3>3, <3>4, LeastExists
  <2>2. u \in Workers /\ u \in 1..n /\ n \in 1..n /\ ws[u] = Idle BY <1>1
  <2>3. /\ Cardinality({v \in 1..u : v \in S}) = 1
        /\ \A w \in S : w # u => Cardinality({v \in 1..w : v \in S}) >= 2
        /\ Cardinality({v \in 1..n : v \in S}) >= 1
        /\ \A w \in 1..n : Cardinality({v \in 1..w : v \in S}) \in Nat
    <3>1. n \in Nat BY <1>1
    <3>2. S \in SUBSET (1..n) BY <1>1
    <3> HIDE DEF S, n
    <3> QED BY <2>1, <3>1, <3>2, CountedUpTo
  <2>4. /\ IdleUpTo(u, ws) = 1 /\ IdleUpTo(n, ws) >= 1
        /\ \A w \in S : w # u => IdleUpTo(w, ws) >= 2
        /\ \A w \in 1..n : IdleUpTo(w, ws) \in Nat
    <3>1. S \subseteq 1..n BY <1>1
    <3> HIDE DEF S, n
    <3> QED BY <1>2, <2>2, <2>3, <3>1
  <2>5. CASE q = <<>>
    <3>1. m = 0 BY <2>5
    <3>2. taken = 0
      <4>1. IdleUpTo(n, ws) \in Nat BY <2>2, <2>4
      <4> QED BY <2>4, <3>1, <4>1 DEF Least
    <3>3. \A w \in S : ~(IdleUpTo(w, ws) <= m)
      <4> TAKE w \in S
      <4>1. w \in 1..n BY <1>1
      <4>2. IdleUpTo(w, ws) \in Nat /\ IdleUpTo(w, ws) >= 1 BY <2>4, <4>1
      <4> QED BY <3>1, <4>2
    <3> HIDE DEF taken, n
    <3>4. decodeWorkers' = ws BY <1>3, <3>3
    <3>5. decodeQueue' = q
      <4>1. m - taken = m /\ \A i \in 1..m : taken + i = i BY <1>1, <3>2
      <4> HIDE DEF m
      <4> QED BY <1>3, <1>4, <4>1
    <3>6. calls' = cs
      <4>1. 1..taken = {} BY <3>2
      <4> QED BY <1>3, <1>4, <4>1
    <3> QED BY <2>5, <3>4, <3>5, <3>6 DEF NothingToDo
  <2>6. CASE q # <<>>
    <3>1. m >= 1 BY <1>1, <2>6, EmptySeq
    <3>2. m > 1 => S = {u}
      <4>1. m > 1 => \A v \in S : v = u BY <1>1, <2>2
      <4> QED BY <4>1
    <3>3. taken = 1
      <4>1. IdleUpTo(n, ws) \in Nat BY <2>2, <2>4
      <4>2. CASE m = 1 BY <2>4, <4>1, <4>2 DEF Least
      <4>3. CASE m > 1
        <5>1. {v \in 1..n : v \in S} = {u} BY <1>1, <3>2, <4>3
        <5>2. IdleUpTo(n, ws) = 1 BY <1>2, <2>2, <5>1, FS_Singleton
        <5> QED BY <1>1, <4>3, <5>2 DEF Least
      <4> QED BY <1>1, <3>1, <4>2, <4>3
    <3>4. \A w \in Workers :
            (IF ws[w] = Idle /\ IdleUpTo(w, ws) <= m THEN q[IdleUpTo(w, ws)] ELSE ws[w])
              = IF w = u THEN q[1] ELSE ws[w]
      <4> TAKE w \in Workers
      <4>1. CASE w = u BY <1>1, <2>2, <2>4, <3>1, <4>1
      <4>2. CASE w # u /\ w \in S
        <5>1. ~(m > 1) BY <3>2, <4>2
        <5>2. IdleUpTo(w, ws) \in Nat /\ IdleUpTo(w, ws) >= 2 BY <1>1, <2>4, <4>2
        <5> QED BY <1>1, <4>2, <5>1, <5>2
      <4>3. CASE w # u /\ w \notin S BY <4>3
      <4> QED BY <4>1, <4>2, <4>3
    <3>5. decodeWorkers' = [ws EXCEPT ![u] = q[1]]
      <4> HIDE DEF S, m
      <4> QED BY <1>3, <2>2, <3>4
    <3>6. decodeQueue' = Tail(q)
      <4>1. Tail(q) = [i \in 1..(m - 1) |-> q[i + 1]]
        <5>1. Tail(q) \in Seq(Nat) /\ Len(Tail(q)) = m - 1
              /\ \A i \in 1..(m - 1) : Tail(q)[i] = q[i + 1]
          BY <2>6, HeadTailProperties
        <5>2. Tail(q) = [i \in 1..Len(Tail(q)) |-> Tail(q)[i]] BY <5>1, LenProperties, SeqDef
        <5> HIDE DEF m
        <5> QED BY <5>1, <5>2
      <4>2. \A i \in 1..(m - 1) : q[1 + i] = q[i + 1] BY <1>1
      <4>3. decodeQueue' = [i \in 1..(m - 1) |-> q[1 + i]]
        <5> HIDE DEF m, taken
        <5> QED BY <1>3, <3>3
      <4> HIDE DEF m
      <4> QED BY <4>1, <4>2, <4>3
    <3>7. calls' = [c \in DOMAIN cs |->
            IF c = q[1] THEN [cs[c] EXCEPT !.phase = "decoding", !.sent = TRUE] ELSE cs[c]]
      <4>1. \A c : (\E i \in 1..taken : q[i] = c) <=> c = q[1] BY <3>3
      <4> HIDE DEF taken
      <4> QED BY <1>3, <4>1
    <3> QED BY <2>2, <2>6, <3>5, <3>6, <3>7 DEF HandsOver
  <2> QED BY <2>5, <2>6
<1> QED BY <1>5, <1>6

(* The pump keeps every job in one place.                                  *)
LEMMA PumpKeeps ==
  ASSUME NEW cs \in Seq(Call), NEW q \in Seq(Nat), NEW ws \in [Workers -> Nat],
         NEW dead \in BOOLEAN, Pool(cs, q, ws, dead), Pump(cs, q, ws),
         Len(q) <= 1 \/ \A v, w \in Workers : ws[v] = Idle /\ ws[w] = Idle => v = w
  PROVE  /\ calls' \in Seq(Call)
         /\ decodeQueue' \in Seq(Nat) /\ decodeWorkers' \in [Workers -> Nat]
         /\ Pool(calls', decodeQueue', decodeWorkers', dead)
         /\ Busy(decodeQueue', decodeWorkers')
<1>1. Len(q) \in Nat /\ DOMAIN q = 1..Len(q) /\ \A c \in DOMAIN cs : cs[c] \in Call /\ c # Idle
  BY LenProperties, CallsDomain
<1>2. CASE NothingToDo(cs, q, ws)
  BY <1>2 DEF NothingToDo, Busy
<1>3. ASSUME q # <<>>, NEW u \in Workers, ws[u] = Idle,
             decodeWorkers' = [ws EXCEPT ![u] = q[1]], decodeQueue' = Tail(q),
             calls' = [c \in DOMAIN cs |->
               IF c = q[1] THEN [cs[c] EXCEPT !.phase = "decoding", !.sent = TRUE] ELSE cs[c]]
      PROVE  /\ calls' \in Seq(Call)
             /\ decodeQueue' \in Seq(Nat) /\ decodeWorkers' \in [Workers -> Nat]
             /\ Pool(calls', decodeQueue', decodeWorkers', dead)
             /\ Busy(decodeQueue', decodeWorkers')
  <2>1. 1 \in DOMAIN q /\ Len(q) # 0
    <3>1. Len(q) # 0 BY <1>3, EmptySeq
    <3> QED BY <1>1, <3>1
  <2>2. q[1] \in DOMAIN cs /\ cs[q[1]].phase = "queued" /\ q[1] # Idle /\ q[1] \in Nat
    BY <1>1, <2>1, ElementOfSeq DEF Pool
  <2>3. Tail(q) \in Seq(Nat) /\ Len(Tail(q)) = Len(q) - 1
        /\ \A i \in 1..(Len(q) - 1) : Tail(q)[i] = q[i + 1]
    BY <1>3, HeadTailProperties
  <2>4. DOMAIN Tail(q) = 1..(Len(q) - 1) BY <2>3, LenProperties
  <2>5. \A i \in DOMAIN Tail(q) : i + 1 \in DOMAIN q /\ i + 1 # 1 /\ Tail(q)[i] = q[i + 1]
    BY <1>1, <2>3, <2>4
  <2>6. \A i \in DOMAIN q : i = 1 \/ \E j \in DOMAIN Tail(q) : Tail(q)[j] = q[i]
    <3> TAKE i \in DOMAIN q
    <3>1. i # 1 => i - 1 \in DOMAIN Tail(q) /\ (i - 1) + 1 = i BY <1>1, <2>4
    <3> QED BY <2>5, <3>1
  <2>7. DOMAIN calls' = DOMAIN cs BY <1>3
  <2>8. \A c \in DOMAIN cs : calls'[c] \in Call
          /\ calls'[c].phase = IF c = q[1] THEN "decoding" ELSE cs[c].phase
    <3> TAKE c \in DOMAIN cs
    <3>1. cs[c] \in Call BY <1>1
    <3>2. [cs[c] EXCEPT !.phase = "decoding", !.sent = TRUE] \in Call
          /\ [cs[c] EXCEPT !.phase = "decoding", !.sent = TRUE].phase = "decoding"
      BY <3>1 DEF Call, Phases, UnderWay, Before
    <3>3. calls'[c] = IF c = q[1] THEN [cs[c] EXCEPT !.phase = "decoding", !.sent = TRUE]
                                  ELSE cs[c]
      BY <1>3
    <3> QED BY <3>1, <3>2, <3>3
  <2>9. calls' \in Seq(Call)
    <3>1. calls' = [c \in DOMAIN calls' |-> calls'[c]] BY <1>3
    <3> QED BY <2>7, <2>8, <3>1, SameDomain
  <2>10. decodeWorkers' \in [Workers -> Nat] /\ decodeWorkers'[u] = q[1]
         /\ \A w \in Workers : w # u => decodeWorkers'[w] = ws[w]
    BY <1>3, <2>2
  <2>11. ASSUME NEW i \in DOMAIN decodeQueue'
         PROVE  decodeQueue'[i] \in DOMAIN calls' /\ calls'[decodeQueue'[i]].phase = "queued"
    <3>1. i + 1 \in DOMAIN q /\ i + 1 # 1 /\ decodeQueue'[i] = q[i + 1] BY <1>3, <2>5
    <3>2. q[i + 1] \in DOMAIN cs /\ cs[q[i + 1]].phase = "queued" /\ q[i + 1] # q[1]
      BY <2>1, <3>1 DEF Pool
    <3> QED BY <2>7, <2>8, <3>1, <3>2
  <2>12. ASSUME NEW i \in DOMAIN decodeQueue', NEW j \in DOMAIN decodeQueue',
                decodeQueue'[i] = decodeQueue'[j]
         PROVE  i = j
    <3>1. i \in DOMAIN Tail(q) /\ j \in DOMAIN Tail(q) /\ Tail(q)[i] = Tail(q)[j]
      BY <1>3, <2>12
    <3>2. i + 1 = j + 1 BY <2>5, <3>1 DEF Pool
    <3>3. i \in Int /\ j \in Int BY <2>4, <3>1
    <3> QED BY <3>2, <3>3
  <2>13. ASSUME NEW w \in Workers, decodeWorkers'[w] # Idle
         PROVE  /\ decodeWorkers'[w] \in DOMAIN calls'
                /\ calls'[decodeWorkers'[w]].phase = "decoding"
    <3>1. CASE w = u BY <2>2, <2>7, <2>8, <2>10, <3>1
    <3>2. CASE w # u
      <4>1. ws[w] \in DOMAIN cs /\ cs[ws[w]].phase = "decoding" BY <2>10, <2>13, <3>2 DEF Pool
      <4> QED BY <2>7, <2>8, <2>10, <3>2, <4>1
    <3> QED BY <3>1, <3>2
  <2>14. ASSUME NEW v \in Workers, NEW w \in Workers,
                decodeWorkers'[v] = decodeWorkers'[w], decodeWorkers'[v] # Idle
         PROVE  v = w
    <3>1. \A x \in Workers : x # u /\ ws[x] # Idle => ws[x] # q[1] BY <2>2 DEF Pool
    <3> QED BY <2>10, <2>14, <3>1 DEF Pool
  <2>15. ASSUME ~dead, NEW c \in DOMAIN calls', calls'[c].phase = "queued"
         PROVE  \E i \in DOMAIN decodeQueue' : decodeQueue'[i] = c
    <3>1. c \in DOMAIN cs /\ c # q[1] /\ cs[c].phase = "queued" BY <2>7, <2>8, <2>15
    <3>2. PICK i \in DOMAIN q : q[i] = c BY <2>15, <3>1 DEF Pool
    <3> QED BY <1>3, <2>6, <3>1, <3>2
  <2>16. ASSUME ~dead, NEW c \in DOMAIN calls', calls'[c].phase = "decoding"
         PROVE  \E w \in Workers : decodeWorkers'[w] = c
    <3>1. CASE c = q[1] BY <2>10, <3>1
    <3>2. CASE c # q[1]
      <4>1. c \in DOMAIN cs /\ cs[c].phase = "decoding" /\ c # Idle
        BY <1>1, <2>7, <2>8, <2>16, <3>2
      <4>2. PICK w \in Workers : ws[w] = c BY <2>16, <4>1 DEF Pool
      <4> QED BY <1>3, <2>10, <4>1, <4>2
    <3> QED BY <3>1, <3>2
  <2>17. Busy(decodeQueue', decodeWorkers')
    <3> SUFFICES ASSUME decodeQueue' # <<>>, NEW w \in Workers PROVE decodeWorkers'[w] # Idle
      BY DEF Busy
    <3>1. Len(q) > 1
      <4>1. Len(Tail(q)) # 0 BY <1>3, <2>3, EmptySeq
      <4> QED BY <1>1, <2>1, <2>3, <4>1
    <3>2. \A v, x \in Workers : ws[v] = Idle /\ ws[x] = Idle => v = x BY <1>1, <3>1
    <3>3. w # u => ws[w] # Idle BY <1>3, <3>2
    <3> QED BY <2>2, <2>10, <3>3
  <2>18. Pool(calls', decodeQueue', decodeWorkers', dead)
    BY <2>11, <2>12, <2>13, <2>14, <2>15, <2>16 DEF Pool
  <2> QED BY <1>3, <2>3, <2>9, <2>10, <2>17, <2>18
<1>4. CASE HandsOver(cs, q, ws)
  BY <1>3, <1>4 DEF HandsOver
<1>5. NothingToDo(cs, q, ws) \/ HandsOver(cs, q, ws)
  BY PumpEffect
<1> QED BY <1>2, <1>4, <1>5

(* What a step may do to the calls the pool does not have                  *)
Elsewhere(cs, ds) ==
  /\ ds \in Seq(Call) /\ DOMAIN cs \subseteq DOMAIN ds
  /\ \A c \in DOMAIN ds : ds[c].phase \in InPool =>
       c \in DOMAIN cs /\ cs[c].phase = ds[c].phase
  /\ \A c \in DOMAIN cs : cs[c].phase \in InPool => ds[c].phase = cs[c].phase

LEMMA ElsewhereKeeps ==
  ASSUME NEW cs \in Seq(Call), NEW ds, Elsewhere(cs, ds), NEW q, NEW ws, NEW dead,
         Pool(cs, q, ws, dead)
  PROVE  Pool(ds, q, ws, dead)
  BY DEF Pool, Elsewhere, InPool

Put(c, e) == [calls EXCEPT ![c] = e]

LEMMA OneCallChanged ==
  ASSUME calls \in Seq(Call), NEW c \in DOMAIN calls
  PROVE  /\ \A p \in Phases : /\ Moved(c, p) \in Seq(Call) /\ DOMAIN Moved(c, p) = DOMAIN calls
                              /\ Moved(c, p)[c].phase = p
                              /\ \A d \in DOMAIN calls \ {c} : Moved(c, p)[d] = calls[d]
         /\ \A r \in Results : /\ Settled(c, r) \in Seq(Call)
                               /\ DOMAIN Settled(c, r) = DOMAIN calls
                               /\ Settled(c, r)[c].phase = "settled"
                               /\ \A d \in DOMAIN calls \ {c} : Settled(c, r)[d] = calls[d]
         /\ Aborted(c) \in Seq(Call) /\ DOMAIN Aborted(c) = DOMAIN calls
         /\ Aborted(c)[c].phase = calls[c].phase
         /\ \A d \in DOMAIN calls \ {c} : Aborted(c)[d] = calls[d]
<1>1. \A d \in DOMAIN calls : calls[d] \in Call
  BY CallsDomain
<1>2. ASSUME NEW e \in Call
      PROVE  Put(c, e) \in Seq(Call) /\ DOMAIN Put(c, e) = DOMAIN calls /\ Put(c, e)[c] = e
             /\ \A d \in DOMAIN calls \ {c} : Put(c, e)[d] = calls[d]
  <2> DEFINE ds == Put(c, e)
  <2>1. DOMAIN ds = DOMAIN calls /\ ds[c] = e
        /\ (\A d \in DOMAIN calls \ {c} : ds[d] = calls[d])
        /\ ds = [d \in DOMAIN ds |-> ds[d]]
    BY DEF Put
  <2> HIDE DEF ds
  <2>2. \A d \in DOMAIN calls : ds[d] \in Call BY <1>1, <2>1
  <2>3. ds \in Seq(Call) BY <2>1, <2>2, SameDomain
  <2> QED BY <2>1, <2>3 DEF ds
<1>3. \A p \in Phases : \E e \in Call : e.phase = p /\ Moved(c, p) = Put(c, e)
  <2> TAKE p \in Phases
  <2>1. [calls[c] EXCEPT !.phase = p] \in Call /\ [calls[c] EXCEPT !.phase = p].phase = p
    BY <1>1 DEF Call
  <2>2. Moved(c, p) = Put(c, [calls[c] EXCEPT !.phase = p]) BY DEF Moved, Put
  <2> QED BY <2>1, <2>2
<1>4. \A r \in Results : \E e \in Call : e.phase = "settled" /\ Settled(c, r) = Put(c, e)
  <2> TAKE r \in Results
  <2> DEFINE e == [calls[c] EXCEPT !.phase = "settled", !.result = r]
  <2>1. e \in Call /\ e.phase = "settled" BY <1>1 DEF Call, Phases
  <2>2. Settled(c, r) = Put(c, e) BY DEF Settled, Put
  <2> QED BY <2>1, <2>2
<1>5. \E e \in Call : e.phase = calls[c].phase /\ Aborted(c) = Put(c, e)
  <2>1. [calls[c] EXCEPT !.aborted = TRUE] \in Call
        /\ [calls[c] EXCEPT !.aborted = TRUE].phase = calls[c].phase
    BY <1>1 DEF Call
  <2>2. Aborted(c) = Put(c, [calls[c] EXCEPT !.aborted = TRUE]) BY DEF Aborted, Put
  <2> QED BY <2>1, <2>2
<1> QED BY <1>2, <1>3, <1>4, <1>5

(* A call the pool does not have goes on, settles or is aborted.           *)
LEMMA OneCallElsewhere ==
  ASSUME calls \in Seq(Call), NEW c \in DOMAIN calls, calls[c].phase \notin InPool
  PROVE  /\ \A p \in Phases \ InPool : Elsewhere(calls, Moved(c, p))
         /\ \A r \in Results : Elsewhere(calls, Settled(c, r))
         /\ Elsewhere(calls, Aborted(c))
<1>1. ASSUME NEW ds \in Seq(Call), DOMAIN ds = DOMAIN calls, ds[c].phase \notin InPool,
             \A d \in DOMAIN calls \ {c} : ds[d] = calls[d]
      PROVE  Elsewhere(calls, ds)
  BY <1>1 DEF Elsewhere
<1>2. ASSUME NEW p \in Phases \ InPool PROVE Elsewhere(calls, Moved(c, p))
  <2>1. /\ Moved(c, p) \in Seq(Call) /\ DOMAIN Moved(c, p) = DOMAIN calls
        /\ Moved(c, p)[c].phase = p
        /\ \A d \in DOMAIN calls \ {c} : Moved(c, p)[d] = calls[d]
    BY OneCallChanged
  <2> QED BY <1>1, <2>1
<1>3. ASSUME NEW r \in Results PROVE Elsewhere(calls, Settled(c, r))
  <2>1. "settled" \notin InPool BY DEF InPool
  <2>2. /\ Settled(c, r) \in Seq(Call) /\ DOMAIN Settled(c, r) = DOMAIN calls
        /\ Settled(c, r)[c].phase = "settled"
        /\ \A d \in DOMAIN calls \ {c} : Settled(c, r)[d] = calls[d]
    BY OneCallChanged
  <2> QED BY <1>1, <2>1, <2>2
<1>4. Elsewhere(calls, Aborted(c))
  BY <1>1, OneCallChanged
<1> QED BY <1>2, <1>3, <1>4

PoolKept == /\ calls' \in Seq(Call)
            /\ decodeQueue' \in Seq(Nat) /\ decodeWorkers' \in [Workers -> Nat]
            /\ Pool(calls', decodeQueue', decodeWorkers', destroyed')
            /\ Busy(decodeQueue', decodeWorkers')

LEMMA ElsewhereKept ==
  ASSUME IInv, Elsewhere(calls, calls'), UNCHANGED <<decodeQueue, decodeWorkers, destroyed>>
  PROVE  PoolKept
<1>1. calls \in Seq(Call) /\ Pool(calls, decodeQueue, decodeWorkers, destroyed)
      /\ decodeQueue \in Seq(Nat) /\ decodeWorkers \in [Workers -> Nat]
      /\ Busy(decodeQueue, decodeWorkers)
  BY DEF IInv, Types
<1>2. Pool(calls', decodeQueue, decodeWorkers, destroyed)
  BY <1>1, ElsewhereKeeps
<1>3. calls' \in Seq(Call)
  BY DEF Elsewhere
<1> QED BY <1>1, <1>2, <1>3 DEF PoolKept

(* _decodeTile                                                             *)
LEMMA DecodeKeeps ==
  ASSUME IInv, NEW c \in DOMAIN calls, calls[c].phase \notin InPool, Decode(c),
         UNCHANGED destroyed
  PROVE  PoolKept
<1> DEFINE cs == Moved(c, "queued")
           q == Append(decodeQueue, c)
           ws == decodeWorkers
<1>1. calls \in Seq(Call) /\ Pool(calls, decodeQueue, ws, destroyed) /\ decodeQueue \in Seq(Nat)
      /\ ws \in [Workers -> Nat] /\ Busy(decodeQueue, ws) /\ destroyed \in BOOLEAN
  BY DEF IInv, Types
<1>2. CASE destroyed
  <2>1. calls' = Settled(c, "null") /\ UNCHANGED <<decodeWorkers, decodeQueue>>
    BY <1>2 DEF Decode
  <2>2. Elsewhere(calls, calls') BY <1>1, <2>1, OneCallElsewhere DEF Results
  <2> QED BY <2>1, <2>2, ElsewhereKept
<1>3. CASE ~destroyed
  <2>1. Pump(cs, q, ws) BY <1>3 DEF Decode
  <2>2. cs \in Seq(Call) /\ DOMAIN cs = DOMAIN calls /\ cs[c].phase = "queued"
        /\ \A d \in DOMAIN calls \ {c} : cs[d] = calls[d]
    BY <1>1, OneCallChanged DEF Phases, UnderWay
  <2>3. c \in Nat /\ Len(decodeQueue) \in Nat /\ DOMAIN decodeQueue = 1..Len(decodeQueue)
    BY <1>1, CallsDomain, LenProperties
  <2>4. q \in Seq(Nat) /\ Len(q) = Len(decodeQueue) + 1
        /\ (\A i \in 1..Len(decodeQueue) : q[i] = decodeQueue[i])
        /\ q[Len(decodeQueue) + 1] = c /\ DOMAIN q = 1..(Len(decodeQueue) + 1)
    BY <1>1, <2>3, AppendProperties, LenProperties
  <2>5. \A i \in DOMAIN q : i \in DOMAIN decodeQueue \/ i = Len(decodeQueue) + 1
    BY <2>3, <2>4
  <2>6. \A i \in DOMAIN decodeQueue : i \in DOMAIN q /\ q[i] = decodeQueue[i] /\ q[i] # c
    BY <1>1, <2>3, <2>4 DEF Pool, InPool
  <2>7. Len(decodeQueue) + 1 \in DOMAIN q BY <2>3, <2>4
  <2> HIDE DEF cs, q, ws
  <2>8. /\ \A i \in DOMAIN q : q[i] \in DOMAIN cs /\ cs[q[i]].phase = "queued"
        /\ \A i, j \in DOMAIN q : q[i] = q[j] => i = j
    <3>1. \A i \in DOMAIN decodeQueue :
            decodeQueue[i] \in DOMAIN cs /\ cs[decodeQueue[i]].phase = "queued"
      BY <1>1, <2>2 DEF Pool
    <3>2. \A i, j \in DOMAIN decodeQueue : decodeQueue[i] = decodeQueue[j] => i = j
      BY <1>1 DEF Pool
    <3>3. q[Len(decodeQueue) + 1] = c /\ c \in DOMAIN cs BY <2>2, <2>4
    <3> QED BY <2>2, <2>5, <2>6, <3>1, <3>2, <3>3
  <2>9. /\ \A w \in Workers : ws[w] # Idle => ws[w] # c /\ ws[w] \in DOMAIN cs
                                              /\ cs[ws[w]].phase = "decoding"
        /\ \A v, w \in Workers : ws[v] = ws[w] /\ ws[v] # Idle => v = w
    BY <1>1, <2>2 DEF Pool, InPool
  <2>10. ASSUME NEW d \in DOMAIN cs
         PROVE  /\ cs[d].phase = "queued" => \E i \in DOMAIN q : q[i] = d
                /\ cs[d].phase = "decoding" => \E w \in Workers : ws[w] = d
    <3>1. CASE d = c BY <2>2, <2>4, <2>7, <3>1
    <3>2. CASE d # c BY <1>1, <1>3, <2>2, <2>6, <3>2 DEF Pool
    <3> QED BY <3>1, <3>2
  <2>11. Pool(cs, q, ws, destroyed) BY <2>8, <2>9, <2>10 DEF Pool
  <2>12. Len(q) <= 1 \/ \A v, w \in Workers : ws[v] = Idle /\ ws[w] = Idle => v = w
    <3>1. CASE decodeQueue = <<>>
      <4>1. Len(decodeQueue) = 0 BY <3>1
      <4> QED BY <2>4, <4>1
    <3>2. CASE decodeQueue # <<>> BY <1>1, <3>2 DEF Busy
    <3> QED BY <3>1, <3>2
  <2> QED BY <1>1, <2>1, <2>2, <2>4, <2>11, <2>12, PumpKeeps DEF PoolKept
<1> QED BY <1>1, <1>2, <1>3

(* onmessage and onerror                                                   *)
LEMMA AnswerKeeps ==
  ASSUME IInv, NEW w \in Workers, WorkerAnswers(w)
  PROVE  PoolKept
<1> DEFINE c == decodeWorkers[w]
           ws == [decodeWorkers EXCEPT ![w] = Idle]
           q == decodeQueue
<1>1. calls \in Seq(Call) /\ Pool(calls, q, decodeWorkers, destroyed) /\ q \in Seq(Nat)
      /\ decodeWorkers \in [Workers -> Nat] /\ Busy(q, decodeWorkers) /\ destroyed \in BOOLEAN
  BY DEF IInv, Types
<1>2. PICK r \in Results : Pump(Settled(c, r), q, ws) /\ c # Idle /\ UNCHANGED destroyed
  <2>1. PICK ok \in BOOLEAN : Pump(Settled(c, IF ok THEN "tile" ELSE "null"), q, ws)
                              /\ c # Idle /\ UNCHANGED destroyed
    BY DEF WorkerAnswers
  <2>2. (IF ok THEN "tile" ELSE "null") \in Results BY DEF Results
  <2> QED BY <2>1, <2>2
<1> DEFINE cs == Settled(c, r)
<1>3. c \in DOMAIN calls /\ calls[c].phase = "decoding"
  BY <1>1, <1>2 DEF Pool
<1>4. cs \in Seq(Call) /\ DOMAIN cs = DOMAIN calls /\ cs[c].phase = "settled"
      /\ \A d \in DOMAIN calls \ {c} : cs[d] = calls[d]
  BY <1>1, <1>3, OneCallChanged
<1>5. ws \in [Workers -> Nat] /\ ws[w] = Idle /\ \A v \in Workers \ {w} : ws[v] = decodeWorkers[v]
  BY <1>1 DEF Idle
<1>6. \A v \in Workers \ {w} : decodeWorkers[v] # c
  BY <1>1, <1>2 DEF Pool
<1>7. Pump(cs, q, ws)
  BY <1>2
<1> HIDE DEF cs, ws
<1>8. /\ \A i \in DOMAIN q : q[i] \in DOMAIN cs /\ cs[q[i]].phase = "queued"
      /\ \A i, j \in DOMAIN q : q[i] = q[j] => i = j
  <2>1. \A i \in DOMAIN q : q[i] # c BY <1>1, <1>3 DEF Pool
  <2> QED BY <1>1, <1>4, <2>1 DEF Pool
<1>9. /\ \A v \in Workers : ws[v] # Idle => ws[v] \in DOMAIN cs /\ cs[ws[v]].phase = "decoding"
      /\ \A u, v \in Workers : ws[u] = ws[v] /\ ws[u] # Idle => u = v
  <2>1. \A v \in Workers : ws[v] # Idle => v # w /\ ws[v] = decodeWorkers[v] /\ ws[v] # c
    BY <1>5, <1>6
  <2> QED BY <1>1, <1>4, <2>1 DEF Pool
<1>10. ASSUME ~destroyed, NEW d \in DOMAIN cs
       PROVE  /\ cs[d].phase = "queued" => \E i \in DOMAIN q : q[i] = d
              /\ cs[d].phase = "decoding" => \E v \in Workers : ws[v] = d
  <2>1. CASE d = c BY <1>4, <2>1
  <2>2. CASE d # c
    <3>1. cs[d] = calls[d] /\ d \in DOMAIN calls BY <1>4, <2>2
    <3>2. cs[d].phase = "queued" => \E i \in DOMAIN q : q[i] = d BY <1>1, <1>10, <3>1 DEF Pool
    <3>3. ASSUME cs[d].phase = "decoding" PROVE \E v \in Workers : ws[v] = d
      <4>1. PICK v \in Workers : decodeWorkers[v] = d BY <1>1, <1>10, <3>1, <3>3 DEF Pool
      <4> QED BY <1>5, <2>2, <4>1
    <3> QED BY <3>2, <3>3
  <2> QED BY <2>1, <2>2
<1>11. Pool(cs, q, ws, destroyed)
  BY <1>8, <1>9, <1>10 DEF Pool
<1>12. Len(q) <= 1 \/ \A u, v \in Workers : ws[u] = Idle /\ ws[v] = Idle => u = v
  <2>1. CASE q = <<>>
    <3>1. Len(q) = 0 BY <2>1
    <3> QED BY <3>1
  <2>2. CASE q # <<>> BY <1>1, <1>5, <2>2 DEF Busy
  <2> QED BY <2>1, <2>2
<1> QED BY <1>1, <1>2, <1>4, <1>5, <1>7, <1>11, <1>12, PumpKeeps DEF PoolKept

-----------------------------------------------------------------------------
(* Every step keeps the invariant                                          *)

CacheKept == Listed(entries', total') /\ sets' \in [SetIds -> SetCall]

LEMMA Kept ==
  ASSUME PoolKept, CacheKept, destroyed' \in BOOLEAN PROVE IInv'
  BY DEF PoolKept, CacheKept, IInv, Types

LEMMA CacheUnchanged ==
  ASSUME IInv, UNCHANGED opfsVars PROVE CacheKept
  BY DEF IInv, Types, CacheKept, opfsVars, Listed, Full

(* A new call of fetchTile, which the pool does not have yet               *)
LEMMA NewCallElsewhere ==
  ASSUME calls \in Seq(Call), NEW k \in Keys, NEW p \in Phases \ InPool, NEW r \in Results,
         NewCall(k, p, r)
  PROVE  Elsewhere(calls, calls')
<1> DEFINE e == [key |-> k, phase |-> p, aborted |-> FALSE, sent |-> FALSE, result |-> r]
           m == Len(calls)
<1>1. e \in Call /\ e.phase = p
  BY DEF Call
<1>2. m \in Nat /\ DOMAIN calls = 1..m
  BY CallsDomain
<1>3. calls' = Append(calls, e)
  BY DEF NewCall
<1> HIDE DEF e
<1>4. Append(calls, e) \in Seq(Call) /\ Len(Append(calls, e)) = m + 1
      /\ (\A i \in 1..m : Append(calls, e)[i] = calls[i]) /\ Append(calls, e)[m + 1] = e
  BY <1>1, AppendProperties
<1>5. DOMAIN Append(calls, e) = 1..(m + 1)
  BY <1>4, LenProperties
<1>6. \A c \in 1..(m + 1) : c \in 1..m \/ c = m + 1
  BY <1>2
<1>7. DOMAIN calls \subseteq DOMAIN calls'
  BY <1>2, <1>3, <1>5
<1> QED BY <1>1, <1>2, <1>3, <1>4, <1>5, <1>6, <1>7 DEF Elsewhere

(* A call whose file changed while it was loaded is not the pool's either. *)
LEMMA TearElsewhere ==
  ASSUME calls \in Seq(Call), NEW k, Tear(k)
  PROVE  Elsewhere(calls, calls')
<1>1. DOMAIN calls' = DOMAIN calls /\ calls' = [c \in DOMAIN calls' |-> calls'[c]]
  BY DEF Tear
<1>2. ASSUME NEW c \in DOMAIN calls
      PROVE  /\ calls'[c] \in Call
             /\ calls'[c].phase = calls[c].phase
                \/ {calls[c].phase, calls'[c].phase} \cap InPool = {}
  <2>1. calls[c] \in Call BY CallsDomain
  <2> DEFINE torn == [calls[c] EXCEPT !.phase = "torn"]
  <2>2. torn \in Call /\ torn.phase = "torn"
    BY <2>1 DEF Call, Phases, UnderWay, Before
  <2>3. CASE At(c, "loading") /\ calls[c].key = k
    <3>1. calls'[c] = torn BY <2>3 DEF Tear
    <3>2. calls[c].phase = "loading" BY <2>3 DEF At
    <3> HIDE DEF torn
    <3> QED BY <2>2, <3>1, <3>2 DEF InPool
  <2>4. CASE ~(At(c, "loading") /\ calls[c].key = k)
    <3>1. calls'[c] = calls[c] BY <2>4 DEF Tear
    <3> QED BY <2>1, <3>1
  <2> QED BY <2>3, <2>4
<1>3. calls' \in Seq(Call)
  BY <1>1, <1>2, SameDomain
<1> QED BY <1>1, <1>2, <1>3 DEF Elsewhere

(* A step of set()                                                         *)
LEMMA SetStepKeeps ==
  ASSUME IInv, NEW c \in 1..MaxCalls, SetStep(c)
  PROVE  PoolKept /\ CacheKept
<1>1. c \in SetIds /\ sets[c].key \in Keys \cup {NoKey} /\ sets[c] \in SetCall
  BY SourceConstants DEF IInv, Types, SetCall
<1>2. Listed(entries, total) /\ sets \in [SetIds -> SetCall] /\ calls \in Seq(Call)
  BY DEF IInv, Types
<1>3. NoSet \in SetCall
  BY DEF NoSet, SetCall
<1>4. Buffer(c) \in {"empty", "whole"} /\ SizeOf(Buffer(c)) \in {0, 1}
  BY DEF Buffer, SizeOf
<1>5. Elsewhere(calls, calls)
  BY <1>2 DEF Elsewhere
<1>6. CASE RemoveVictim(c) /\ Tear(sets[c].victim)
  <2>1. Elsewhere(calls, calls') BY <1>2, <1>6, TearElsewhere
  <2>2. MakeRoom(c, sets[c].key) BY <1>6 DEF RemoveVictim
  <2>3. CacheKept BY <1>1, <1>2, <2>2, MakeRoomKeeps DEF CacheKept
  <2> QED BY <2>1, <2>3, ElsewhereKept DEF SetStep
<1>7. CASE CloseFile(c, SizeOf(Buffer(c))) /\ Tear(sets[c].key)
  <2>1. Elsewhere(calls, calls') BY <1>2, <1>7, TearElsewhere
  <2>2. Relist(sets[c].key, SizeOf(Buffer(c))) /\ sets' = [sets EXCEPT ![c] = NoSet]
    BY <1>7 DEF CloseFile
  <2>3. Listed(entries', total') BY <1>1, <1>2, <1>4, <2>2, RelistKeeps
  <2>4. sets' \in [SetIds -> SetCall] BY <1>2, <1>3, <2>2
  <2> QED BY <2>1, <2>3, <2>4, ElsewhereKept DEF SetStep, CacheKept
<1>8. CASE UNCHANGED <<calls, entries, total>> /\ sets' \in [SetIds -> SetCall]
  BY <1>2, <1>5, <1>8, ElsewhereKept DEF SetStep, CacheKept
<1>9. CASE CreateFile(c) /\ UNCHANGED calls
  <2>1. sets' = [sets EXCEPT ![c] = [sets[c] EXCEPT !.step = "writing"]]
    BY <1>9 DEF CreateFile
  <2>2. [sets[c] EXCEPT !.step = "writing"] \in SetCall BY <1>1 DEF SetCall
  <2> QED BY <1>2, <1>8, <1>9, <2>1, <2>2 DEF CreateFile
<1>10. CASE WriteData(c, Buffer(c)) /\ UNCHANGED calls
  <2> DEFINE s == [sets[c] EXCEPT !.step = "closing", !.copy = Buffer(c)]
  <2>1. sets' = [sets EXCEPT ![c] = s]
    BY <1>10 DEF WriteData
  <2>2. s \in SetCall BY <1>1, <1>4 DEF SetCall
  <2> HIDE DEF s
  <2> QED BY <1>2, <1>8, <1>10, <2>1, <2>2 DEF WriteData
<1>11. CASE SetFails(c) /\ UNCHANGED calls
  BY <1>2, <1>3, <1>8, <1>11 DEF SetFails
<1> QED BY <1>6, <1>7, <1>9, <1>10, <1>11 DEF SetStep

(* An answer that finds no worker involved                                 *)
LEMMA CallStepKeeps ==
  ASSUME IInv, NEW c \in 1..MaxCalls,
         FindFile(c) \/ LoadFile(c) \/ RequestFails(c) \/ TimeOut(c)
  PROVE  PoolKept
<1>1. calls \in Seq(Call)
  BY DEF IInv, Types
<1>2. ASSUME NEW p \in {"reading", "loading", "torn", "network"}, At(c, p)
      PROVE  /\ c \in DOMAIN calls /\ calls[c].phase \notin InPool
             /\ \A q \in Phases \ InPool : Elsewhere(calls, Moved(c, q))
             /\ \A r \in Results : Elsewhere(calls, Settled(c, r))
             /\ Elsewhere(calls, Aborted(c))
  <2>1. c \in DOMAIN calls /\ calls[c].phase \notin InPool BY <1>2 DEF At, InPool
  <2> QED BY <1>1, <2>1, OneCallElsewhere
<1>3. "loading" \in Phases \ InPool /\ "network" \in Phases \ InPool
  BY DEF Phases, UnderWay, Before, InPool
<1>4. "error" \in Results /\ "null" \in Results
  BY DEF Results
<1>5. CASE FindFile(c)
  <2>1. Elsewhere(calls, calls') BY <1>2, <1>3, <1>4, <1>5 DEF FindFile
  <2> QED BY <1>5, <2>1, ElsewhereKept DEF FindFile
<1>6. CASE LoadFile(c)
  <2>1. CASE At(c, "loading") /\ Decode(c)
    BY <1>2, <1>6, <2>1, DecodeKeeps DEF LoadFile
  <2>2. CASE At(c, "torn") /\ calls' = Settled(c, "error") /\ UNCHANGED <<decodeWorkers, decodeQueue>>
    <3>1. Elsewhere(calls, calls') BY <1>2, <1>4, <2>2
    <3> QED BY <1>6, <2>2, <3>1, ElsewhereKept DEF LoadFile
  <2> QED BY <1>6, <2>1, <2>2 DEF LoadFile
<1>7. CASE RequestFails(c)
  <2>1. Elsewhere(calls, calls') BY <1>2, <1>4, <1>7 DEF RequestFails
  <2> QED BY <1>7, <2>1, ElsewhereKept DEF RequestFails
<1>8. CASE TimeOut(c)
  <2>1. Elsewhere(calls, calls') BY <1>2, <1>4, <1>8 DEF TimeOut
  <2> QED BY <1>8, <2>1, ElsewhereKept DEF TimeOut
<1> QED BY <1>5, <1>6, <1>7, <1>8

(* The pool of a source that is new or destroyed: it has no call.          *)
LEMMA PoolEmptied ==
  ASSUME calls' \in Seq(Call), decodeQueue' = <<>>, decodeWorkers' = [w \in Workers |-> Idle],
         ~destroyed' => \A c \in DOMAIN calls' : calls'[c].phase \notin InPool
  PROVE  PoolKept
<1>1. decodeQueue' \in Seq(Nat) /\ DOMAIN decodeQueue' = {}
  OBVIOUS
<1>2. decodeWorkers' \in [Workers -> Nat] /\ \A w \in Workers : decodeWorkers'[w] = Idle
  BY DEF Idle
<1>3. Pool(calls', decodeQueue', decodeWorkers', destroyed')
  BY <1>1, <1>2 DEF Pool, InPool
<1>4. Busy(decodeQueue', decodeWorkers')
  BY DEF Busy
<1> QED BY <1>1, <1>2, <1>3, <1>4 DEF PoolKept

LEMMA DestroyKeeps ==
  ASSUME IInv, Destroy PROVE PoolKept /\ destroyed' \in BOOLEAN
<1>1. calls \in Seq(Call) /\ DOMAIN calls' = DOMAIN calls
      /\ calls' = [c \in DOMAIN calls' |-> calls'[c]]
  BY DEF IInv, Types, Destroy
<1>2. ASSUME NEW c \in DOMAIN calls PROVE calls'[c] \in Call
  <2>1. calls[c] \in Call BY <1>1, CallsDomain
  <2>2. /\ [calls[c] EXCEPT !.phase = "settled", !.result = "error"] \in Call
        /\ [calls[c] EXCEPT !.phase = "settled", !.result = "null"] \in Call
        /\ [calls[c] EXCEPT !.aborted = TRUE] \in Call
    BY <2>1 DEF Call, Phases, Results
  <2>3. Abandoned(c) \in Call BY <2>1, <2>2 DEF Abandoned, At
  <2> QED BY <2>3 DEF Destroy
<1>3. calls' \in Seq(Call)
  BY <1>1, <1>2, SameDomain
<1> QED BY <1>3, PoolEmptied DEF Destroy

LEMMA ReloadKeeps ==
  ASSUME IInv, Reload PROVE PoolKept /\ CacheKept /\ destroyed' \in BOOLEAN
<1>1. calls \in Seq(Call) /\ DOMAIN calls' = DOMAIN calls
      /\ calls' = [c \in DOMAIN calls' |-> calls'[c]]
  BY DEF IInv, Types, Reload
<1>2. ASSUME NEW c \in DOMAIN calls PROVE calls'[c] \in Call /\ calls'[c].phase \notin InPool
  <2>1. calls[c] \in Call BY <1>1, CallsDomain
  <2>2. [calls[c] EXCEPT !.phase = "gone"] \in Call /\ [calls[c] EXCEPT !.phase = "gone"].phase = "gone"
    BY <2>1 DEF Call, Phases
  <2>3. CASE c \in Active
    <3>1. calls'[c] = [calls[c] EXCEPT !.phase = "gone"] BY <2>3 DEF Reload
    <3> QED BY <2>2, <3>1 DEF InPool
  <2>4. CASE c \notin Active
    <3>1. calls'[c] = calls[c] BY <2>4 DEF Reload
    <3> QED BY <2>1, <2>4, <3>1 DEF Active, UnderWay, InPool
  <2> QED BY <2>3, <2>4
<1>3. calls' \in Seq(Call)
  BY <1>1, <1>2, SameDomain
<1>4. PoolKept
  BY <1>1, <1>2, <1>3, PoolEmptied DEF Reload
<1> QED BY <1>4, OpenLists DEF Reload, CacheKept

LEMMA FetchKeeps ==
  ASSUME IInv, FetchTile \/ FetchAtOnce PROVE PoolKept
<1>1. calls \in Seq(Call)
  BY DEF IInv, Types
<1>2. "reading" \in Phases \ InPool /\ "settled" \in Phases \ InPool
      /\ {"none", "null", "tile"} \subseteq Results
  BY DEF Phases, UnderWay, Before, InPool, Results
<1>3. Elsewhere(calls, calls')
  BY <1>1, <1>2, NewCallElsewhere DEF FetchTile, FetchAtOnce
<1> QED BY <1>3, ElsewhereKept DEF FetchTile, FetchAtOnce

LEMMA IInvInit == ASSUME Init PROVE IInv
<1>1. sets \in [SetIds -> SetCall]
  BY DEF Init, OpfsInit, NoSet, SetCall
<1>2. calls = <<>> /\ decodeQueue = <<>> /\ entries = <<>>
      /\ decodeWorkers = [w \in Workers |-> Idle] /\ destroyed \in BOOLEAN /\ total = 0
  BY DEF Init, OpfsInit
<1>3. calls \in Seq(Call) /\ decodeQueue \in Seq(Nat) /\ decodeWorkers \in [Workers -> Nat]
      /\ entries \in Seq(Entry)
  BY <1>2 DEF Idle
<1>4. Full(entries) = {}
  BY <1>2 DEF Full
<1>5. Listed(entries, total)
  BY <1>2, <1>3, <1>4, FS_EmptySet DEF Listed
<1>6. Pool(calls, decodeQueue, decodeWorkers, destroyed) /\ Busy(decodeQueue, decodeWorkers)
  BY <1>2 DEF Pool, Busy, Idle
<1> QED BY <1>1, <1>2, <1>3, <1>5, <1>6 DEF IInv, Types

LEMMA IInvNext == ASSUME IInv, [Next]_vars PROVE IInv'
<1>1. destroyed \in BOOLEAN
  BY DEF IInv, Types
<1>2. CASE FetchTile \/ FetchAtOnce
  <2>1. UNCHANGED <<opfsVars, destroyed>> BY <1>2 DEF FetchTile, FetchAtOnce
  <2> QED BY <1>1, <1>2, <2>1, FetchKeeps, CacheUnchanged, Kept
<1>3. ASSUME NEW c \in 1..MaxCalls, CallStep(c) \/ TimeOut(c) \/ RequestFails(c) PROVE IInv'
  <2>1. FindFile(c) \/ LoadFile(c) \/ RequestFails(c) \/ TimeOut(c) BY <1>3 DEF CallStep
  <2>2. UNCHANGED <<opfsVars, destroyed>>
    BY <2>1 DEF FindFile, LoadFile, RequestFails, TimeOut
  <2> QED BY <1>1, <2>1, <2>2, CallStepKeeps, CacheUnchanged, Kept
<1>4. ASSUME NEW c \in 1..MaxCalls, SetStep(c) PROVE IInv'
  <2>1. UNCHANGED destroyed BY <1>4 DEF SetStep
  <2> QED BY <1>1, <1>4, <2>1, SetStepKeeps, Kept
<1>5. ASSUME NEW c \in 1..MaxCalls, BytesArrive(c) PROVE IInv'
  <2>1. c \in DOMAIN calls /\ calls[c].phase \notin InPool /\ Decode(c) /\ UNCHANGED destroyed
        /\ MakeRoom(c, calls[c].key)
    BY <1>5 DEF BytesArrive, At, InPool, StartSet
  <2>2. calls[c].key \in Keys
    <3>1. calls[c] \in Call BY <2>1, CallsDomain DEF IInv, Types
    <3> QED BY <3>1 DEF Call
  <2>3. CacheKept
    BY <2>1, <2>2, MakeRoomKeeps DEF IInv, Types, CacheKept
  <2> QED BY <1>1, <2>1, <2>3, DecodeKeeps, Kept
<1>6. ASSUME NEW w \in Workers, WorkerAnswers(w) PROVE IInv'
  <2>1. UNCHANGED <<opfsVars, destroyed>> BY <1>6 DEF WorkerAnswers
  <2> QED BY <1>1, <1>6, <2>1, AnswerKeeps, CacheUnchanged, Kept
<1>7. CASE Destroy
  <2>1. UNCHANGED opfsVars BY <1>7 DEF Destroy
  <2> QED BY <1>7, <2>1, DestroyKeeps, CacheUnchanged, Kept
<1>8. CASE Reload
  BY <1>8, ReloadKeeps, Kept
<1>9. CASE UNCHANGED vars
  BY <1>9 DEF vars, opfsVars, IInv, Types, Listed, Full, Pool, Busy
<1> QED BY <1>2, <1>3, <1>4, <1>5, <1>6, <1>7, <1>8, <1>9 DEF Next

-----------------------------------------------------------------------------
(* What follows                                                            *)

LEMMA TotalHolds == ASSUME IInv PROVE TotalIsSum
  BY DEF IInv, Listed, Full, TotalIsSum

(* Where a call is: in the queue or at a worker, once, or in neither.      *)
LEMMA PlacesHold == ASSUME IInv PROVE PoolConserves
<1> DEFINE queued(c) == {i \in DOMAIN decodeQueue : decodeQueue[i] = c}
           at(c) == {w \in Workers : decodeWorkers[w] = c}
<1>1. Pool(calls, decodeQueue, decodeWorkers, destroyed) /\ Busy(decodeQueue, decodeWorkers)
      /\ \A c \in DOMAIN calls : c # Idle
  BY CallsDomain DEF IInv, Types
<1>2. ASSUME ~destroyed, NEW c \in DOMAIN calls
      PROVE  Cardinality(queued(c)) + Cardinality(at(c))
               = IF calls[c].phase \in {"queued", "decoding"} THEN 1 ELSE 0
  <2>1. CASE calls[c].phase = "queued"
    <3>1. PICK i \in DOMAIN decodeQueue : decodeQueue[i] = c BY <1>1, <1>2, <2>1 DEF Pool
    <3>2. queued(c) = {i} BY <1>1, <3>1 DEF Pool
    <3>3. at(c) = {} BY <1>1, <2>1 DEF Pool
    <3> HIDE DEF queued, at
    <3>4. Cardinality(queued(c)) = 1 BY <3>2, FS_Singleton
    <3>5. Cardinality(at(c)) = 0 BY <3>3, FS_EmptySet
    <3> QED BY <2>1, <3>4, <3>5
  <2>2. CASE calls[c].phase = "decoding"
    <3>1. PICK w \in Workers : decodeWorkers[w] = c BY <1>1, <1>2, <2>2 DEF Pool
    <3>2. at(c) = {w} BY <1>1, <3>1 DEF Pool
    <3>3. queued(c) = {} BY <1>1, <2>2 DEF Pool
    <3> HIDE DEF queued, at
    <3>4. Cardinality(at(c)) = 1 BY <3>2, FS_Singleton
    <3>5. Cardinality(queued(c)) = 0 BY <3>3, FS_EmptySet
    <3> QED BY <2>2, <3>4, <3>5
  <2>3. CASE calls[c].phase \notin {"queued", "decoding"}
    <3>1. queued(c) = {} /\ at(c) = {} BY <1>1, <2>3 DEF Pool
    <3> HIDE DEF queued, at
    <3>2. Cardinality(queued(c)) = 0 /\ Cardinality(at(c)) = 0 BY <3>1, FS_EmptySet
    <3> QED BY <2>3, <3>2
  <2> QED BY <2>1, <2>2, <2>3
<1> QED BY <1>1, <1>2 DEF PoolConserves, Busy

(* The cache's running total is the sum of its entries and no file is      *)
(* listed twice, whatever calls of set() evict, close and fail in between  *)
(* (OpfsCache.set and _evictIfNeeded).                                     *)
THEOREM TotalStaysTheSum == Spec => []TotalIsSum
<1>1. Init => IInv BY IInvInit
<1>2. IInv /\ [Next]_vars => IInv' BY IInvNext
<1>3. IInv => TotalIsSum BY TotalHolds
<1> QED BY <1>1, <1>2, <1>3, PTL DEF Spec

(* Every call that waits or is decoded is in one place of the pool, and no *)
(* call waits beside an idle worker (pumpDecodeQueue, onmessage, onerror,  *)
(* destroy).                                                               *)
THEOREM PoolKeepsItsCalls == Spec => []PoolConserves
<1>1. Init => IInv BY IInvInit
<1>2. IInv /\ [Next]_vars => IInv' BY IInvNext
<1>3. IInv => PoolConserves BY PlacesHold
<1> QED BY <1>1, <1>2, <1>3, PTL DEF Spec
=============================================================================
