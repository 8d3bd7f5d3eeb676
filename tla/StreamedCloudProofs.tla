------------------------ MODULE StreamedCloudProofs ------------------------
(***************************************************************************)
(* Proofs for any ring, points, views, styles and bounds.                  *)
(*                                                                         *)
(* The WebGL scene and its render worker lose none of the two pairs of     *)
(* buffers they send each other.  What messages contain does not matter:   *)
(* the invariant counts results that hold a pair and messages that return  *)
(* one.                                                                    *)
(*                                                                         *)
(* The WebGPU scene's mirror of the ring, with the chunks that wait, has   *)
(* what the ring has after the last point it lost, and keeps nothing from  *)
(* before a reset it has seen.  The invariant says which point each slot   *)
(* of the mirror has, by its distance behind the write pointer.            *)
(***************************************************************************)
EXTENDS StreamedCloud, SequenceTheorems, IndexSets, TLAPS

Listed(s) == s \in Seq({s[i] : i \in DOMAIN s})
Full(s) == {i \in DOMAIN s : s[i].pair}
Returns(s) == {i \in DOMAIN s : s[i].type = "RETURN"}

IInv ==
  /\ Listed(toWorker) /\ Listed(results)
  /\ freePairs \in Nat
  /\ PairsConserved

-----------------------------------------------------------------------------
(* Counting in sequences *)

(* A sequence grows by one element.                                        *)
LEMMA Appended ==
  ASSUME NEW s, Listed(s), NEW x
  PROVE  LET t == Append(s, x)
         IN /\ Listed(t)
            /\ Cardinality(Full(s)) \in Nat /\ Cardinality(Returns(s)) \in Nat
            /\ Cardinality(Full(t)) = Cardinality(Full(s)) + (IF x.pair THEN 1 ELSE 0)
            /\ Cardinality(Returns(t)) =
                 Cardinality(Returns(s)) + (IF x.type = "RETURN" THEN 1 ELSE 0)
<1> DEFINE V == {s[i] : i \in DOMAIN s}
           n == Len(s)
           t == Append(s, x)
<1>1. s \in Seq(V) /\ n \in Nat /\ DOMAIN s = 1..n
  BY DEF Listed
<1>2. s \in Seq(V \cup {x})
  BY <1>1
<1>3. /\ t \in Seq(V \cup {x}) /\ Len(t) = n + 1 /\ DOMAIN t = 1..(n + 1) /\ t[n + 1] = x
      /\ \A i \in 1..n : t[i] = s[i]
  BY <1>1, <1>2
<1> HIDE DEF t, n
<1>4. Listed(t)
  <2>1. t \in [1..(n + 1) -> {t[i] : i \in DOMAIN t}]
    BY <1>3
  <2> QED BY <1>1, <2>1, SeqDef DEF Listed
<1>5. Full(s) \in SUBSET (1..n) /\ Returns(s) \in SUBSET (1..n)
  BY <1>1 DEF Full, Returns
<1>6. /\ Full(t) = Full(s) \cup (IF x.pair THEN {n + 1} ELSE {})
      /\ Returns(t) = Returns(s) \cup (IF x.type = "RETURN" THEN {n + 1} ELSE {})
  BY <1>1, <1>3 DEF Full, Returns
<1>7. /\ Cardinality(Full(s)) \in Nat /\ Cardinality(Full(s) \cup {n + 1}) = Cardinality(Full(s)) + 1
      /\ Cardinality(Returns(s)) \in Nat
      /\ Cardinality(Returns(s) \cup {n + 1}) = Cardinality(Returns(s)) + 1
  BY <1>1, <1>5, OneMore
<1>8. Cardinality(Full(t)) = Cardinality(Full(s)) + (IF x.pair THEN 1 ELSE 0)
  <2>1. CASE x.pair BY <2>1, <1>6, <1>7
  <2>2. CASE ~x.pair
    <3>1. Full(t) = Full(s) BY <2>2, <1>6
    <3> QED BY <2>2, <3>1, <1>7
  <2> QED BY <2>1, <2>2
<1>9. Cardinality(Returns(t)) = Cardinality(Returns(s)) + (IF x.type = "RETURN" THEN 1 ELSE 0)
  <2>1. CASE x.type = "RETURN" BY <2>1, <1>6, <1>7
  <2>2. CASE x.type # "RETURN"
    <3>1. Returns(t) = Returns(s) BY <2>2, <1>6
    <3> QED BY <2>2, <3>1, <1>7
  <2> QED BY <2>1, <2>2
<1> QED BY <1>4, <1>7, <1>8, <1>9 DEF t

(* Its first element is taken.                                             *)
LEMMA Taken ==
  ASSUME NEW s, Listed(s), s # <<>>
  PROVE  LET t == Tail(s)
         IN /\ Listed(t)
            /\ Cardinality(Full(s)) \in Nat /\ Cardinality(Returns(s)) \in Nat
            /\ Cardinality(Full(t)) = Cardinality(Full(s)) - (IF Head(s).pair THEN 1 ELSE 0)
            /\ Cardinality(Returns(t)) =
                 Cardinality(Returns(s)) - (IF Head(s).type = "RETURN" THEN 1 ELSE 0)
<1> DEFINE V == {s[i] : i \in DOMAIN s}
           n == Len(s)
           t == Tail(s)
<1>1. s \in Seq(V) /\ n \in Nat \ {0} /\ DOMAIN s = 1..n /\ Head(s) = s[1]
  BY DEF Listed
<1>2. /\ t \in Seq(V) /\ DOMAIN t = 1..(n - 1) /\ Len(t) = n - 1
      /\ \A i \in 1..(n - 1) : t[i] = s[i + 1]
  BY <1>1
<1> HIDE DEF t, n
<1>3. Listed(t)
  <2>1. t \in [1..(n - 1) -> {t[i] : i \in DOMAIN t}] /\ n - 1 \in Nat
    BY <1>1, <1>2
  <2> QED BY <2>1, SeqDef DEF Listed
<1>4. Full(s) \in SUBSET (1..n) /\ Returns(s) \in SUBSET (1..n)
  BY <1>1 DEF Full, Returns
<1>5. Full(t) = {i \in 1..(n - 1) : i + 1 \in Full(s)}
  BY <1>1, <1>2 DEF Full
<1>6. Returns(t) = {i \in 1..(n - 1) : i + 1 \in Returns(s)}
  BY <1>1, <1>2 DEF Returns
<1>7. 1 \in Full(s) <=> Head(s).pair
  BY <1>1 DEF Full
<1>8. 1 \in Returns(s) <=> Head(s).type = "RETURN"
  BY <1>1 DEF Returns
<1>9. Cardinality(Full(s)) \in Nat /\ Cardinality(Returns(s)) \in Nat
  BY <1>1, <1>4, OneMore
<1>10. Cardinality(Full(t)) = Cardinality(Full(s)) - (IF 1 \in Full(s) THEN 1 ELSE 0)
  BY <1>1, <1>4, <1>5, OneLess
<1>11. Cardinality(Returns(t)) = Cardinality(Returns(s)) - (IF 1 \in Returns(s) THEN 1 ELSE 0)
  BY <1>1, <1>4, <1>6, OneLess
<1> QED BY <1>3, <1>7, <1>8, <1>9, <1>10, <1>11 DEF t
-----------------------------------------------------------------------------
(* The steps *)

LEMMA CountedPairs ==
  PairsConserved <=> freePairs + Cardinality(Full(results)) + Cardinality(Returns(toWorker)) = 2
BY DEF PairsConserved, InFlight, Full, Returns, Pairs

LEMMA CountedPairsNext ==
  PairsConserved' <=>
    freePairs' + Cardinality(Full(results')) + Cardinality(Returns(toWorker')) = 2
BY DEF PairsConserved, InFlight, Full, Returns, Pairs

(* A message other than a RETURN is sent to the worker.                    *)
LEMMA Sent ==
  ASSUME IInv, NEW m, m.type # "RETURN",
         toWorker' = Append(toWorker, m), UNCHANGED <<results, freePairs>>
  PROVE  IInv'
<1> DEFINE t == Append(toWorker, m)
<1>1. /\ Listed(t) /\ Cardinality(Returns(toWorker)) \in Nat
      /\ Cardinality(Returns(t)) =
           Cardinality(Returns(toWorker)) + (IF m.type = "RETURN" THEN 1 ELSE 0)
  BY Appended, Zenon DEF IInv
<1> HIDE DEF t
<1>2. Listed(t) /\ Cardinality(Returns(t)) = Cardinality(Returns(toWorker))
  BY <1>1
<1>3. toWorker' = t
  BY DEF t
<1> QED BY <1>2, <1>3, CountedPairs, CountedPairsNext DEF IInv, Listed, Full

(* None of the channels and pairs change.                                  *)
LEMMA Untouched ==
  ASSUME IInv, UNCHANGED <<toWorker, results, freePairs>> PROVE IInv'
BY DEF IInv, Listed, PairsConserved, InFlight

(* A new scene has a worker of its own.                                    *)
LEMMA Fresh ==
  ASSUME toWorker = <<>>, results = <<>>, freePairs = Pairs PROVE IInv
<1>1. Full(<<>>) = {} /\ Returns(<<>>) = {}
  BY DEF Full, Returns
<1> QED BY <1>1, CountedPairs, FS_EmptySet DEF IInv, Listed, Pairs

LEMMA Remounted == ASSUME NEW b, Remount(b) PROVE IInv'
<1>1. toWorker' = <<>> /\ results' = <<>> /\ freePairs' = Pairs
  BY DEF Remount, MountGL, GLFresh
<1>2. Full(<<>>) = {} /\ Returns(<<>>) = {}
  BY DEF Full, Returns
<1>3. Cardinality(Full(results')) = 0 /\ Cardinality(Returns(toWorker')) = 0
  BY <1>1, <1>2, FS_EmptySet
<1>4. Listed(toWorker') /\ Listed(results')
  BY <1>1 DEF Listed
<1> QED BY <1>1, <1>3, <1>4, CountedPairsNext DEF IInv, Listed, Pairs

LEMMA PushSafe == ASSUME IInv, NEW n \in 1..MaxChunk, Push(n) PROVE IInv'
<1>1. UNCHANGED <<results, freePairs>>
  BY DEF Push, GLIngest, glVars
<1>2. \/ toWorker' = Append(toWorker, [type |-> "INGEST", chunk |-> Chunk(n)])
      \/ UNCHANGED toWorker
  BY DEF Push, GLIngest, glVars
<1> QED BY <1>1, <1>2, Sent, Untouched

(* The main thread gives back the pair of a result, if it has one.         *)
LEMMA ResultArrivesSafe == ASSUME IInv, ResultArrives PROVE IInv'
<1> DEFINE r == Head(results)
<1>1. /\ results # <<>> /\ results' = Tail(results) /\ UNCHANGED freePairs
      /\ toWorker' = IF r.pair THEN Append(toWorker, [type |-> "RETURN"]) ELSE toWorker
  BY DEF ResultArrives, GivesBack
<1>2. /\ Listed(results') /\ Cardinality(Full(results)) \in Nat
      /\ Cardinality(Full(results')) = Cardinality(Full(results)) - (IF r.pair THEN 1 ELSE 0)
  BY <1>1, Taken DEF IInv
<1>3. /\ Listed(toWorker') /\ Cardinality(Returns(toWorker)) \in Nat
      /\ Cardinality(Returns(toWorker')) =
           Cardinality(Returns(toWorker)) + (IF r.pair THEN 1 ELSE 0)
  <2>1. CASE r.pair
    BY <1>1, <2>1, Appended DEF IInv
  <2>2. CASE ~r.pair
    <3>1. toWorker' = toWorker
      BY <1>1, <2>2
    <3>2. Cardinality(Returns(toWorker)) \in Nat
      BY Appended DEF IInv
    <3> QED BY <2>2, <3>1, <3>2 DEF IInv
  <2> QED BY <2>1, <2>2
<1> QED BY <1>1, <1>2, <1>3, CountedPairs, CountedPairsNext DEF IInv

(* The worker takes a message and answers it.                              *)
LEMMA WorkerStepSafe == ASSUME IInv, WorkerStep PROVE IInv'
<1> DEFINE m == Head(toWorker)
<1>1. toWorker # <<>> /\ toWorker' = Tail(toWorker)
  BY DEF WorkerStep, OnIngest, OnScan, OnReturn, OnReset, Receives
<1>2. /\ Listed(toWorker') /\ Cardinality(Returns(toWorker)) \in Nat
      /\ Cardinality(Returns(toWorker')) =
           Cardinality(Returns(toWorker)) - (IF m.type = "RETURN" THEN 1 ELSE 0)
  BY <1>1, Taken DEF IInv
<1>3. Cardinality(Full(results)) \in Nat
  BY Appended DEF IInv
<1>4. CASE OnIngest \/ OnReset
  BY <1>2, <1>3, <1>4, CountedPairs, CountedPairsNext DEF OnIngest, OnReset, Receives, IInv
<1>5. CASE OnReturn
  BY <1>2, <1>3, <1>5, CountedPairs, CountedPairsNext DEF OnReturn, Receives, IInv
<1>6. CASE OnScan
  <2>1. m.type # "RETURN"
    BY <1>6 DEF OnScan, Receives
  <2>2. CASE worker.total = 0 \/ freePairs = 0
    <3> DEFINE r == [scan |-> m.scan, points |-> {}, pair |-> FALSE]
    <3>1. results' = Append(results, r) /\ UNCHANGED freePairs
      BY <1>6, <2>2 DEF OnScan
    <3>2. Listed(results') /\ Cardinality(Full(results')) = Cardinality(Full(results))
      BY <1>3, <3>1, Appended DEF IInv
    <3> QED BY <1>2, <1>3, <2>1, <3>1, <3>2, CountedPairs, CountedPairsNext DEF IInv
  <2>3. CASE ~(worker.total = 0 \/ freePairs = 0)
    <3> DEFINE r == [scan |-> m.scan, points |-> Valid(worker), pair |-> TRUE]
    <3>1. results' = Append(results, r) /\ freePairs' = freePairs - 1
      BY <1>6, <2>3 DEF OnScan
    <3>2. Listed(results') /\ Cardinality(Full(results')) = Cardinality(Full(results)) + 1
      BY <3>1, Appended DEF IInv
    <3>3. freePairs' \in Nat
      BY <2>3, <3>1 DEF IInv
    <3> QED BY <1>2, <1>3, <2>1, <3>1, <3>2, <3>3, CountedPairs, CountedPairsNext DEF IInv
  <2> QED BY <2>2, <2>3
<1> QED BY <1>4, <1>5, <1>6 DEF WorkerStep

(* A frame sends a scan, after a RESET when it saw one.                    *)
LEMMA GLFrameSafe == ASSUME IInv, NEW elapsed \in BOOLEAN, GLFrame(elapsed) PROVE IInv'
<1>1. CASE FrameIdle \/ FrameRefused \/ FrameCopies
  BY <1>1, Untouched DEF FrameIdle, FrameRefused, FrameCopies
<1>2. CASE FrameScans
  <2> DEFINE reset == [type |-> "RESET"]
             scan == [type |-> "SCAN", scan |-> Request]
             t == IF ResetSignal THEN Append(toWorker, reset) ELSE toWorker
  <2>1. UNCHANGED <<results, freePairs>>
    BY <1>2 DEF FrameScans
  <2>2. Listed(t) /\ Cardinality(Returns(t)) = Cardinality(Returns(toWorker))
    BY Appended DEF IInv
  <2>3. toWorker' = Append(t, scan)
    <3>0. toWorker \o <<>> = toWorker
      BY DEF IInv, Listed
    <3>1. toWorker \in Seq({toWorker[i] : i \in DOMAIN toWorker} \cup {reset, scan})
      BY DEF IInv, Listed
    <3>2. toWorker' = toWorker \o (IF ResetSignal THEN <<reset>> ELSE <<>>) \o <<scan>>
      BY <1>2 DEF FrameScans
    <3> HIDE DEF reset, scan
    <3>3. CASE ResetSignal
      <4>1. toWorker \o <<reset>> = Append(toWorker, reset)
        BY <3>1
      <4> DEFINE u == Append(toWorker, reset)
                 W == {toWorker[i] : i \in DOMAIN toWorker} \cup {reset, scan}
      <4>2. u \in Seq(W) /\ scan \in W
        BY <3>1
      <4>3. u \o <<scan>> = Append(u, scan)
        <5> HIDE DEF u, W
        <5> QED BY <4>2
      <4> QED BY <3>2, <3>3, <4>1, <4>3
    <3>4. CASE ~ResetSignal
      BY <3>0, <3>1, <3>2, <3>4
    <3> QED BY <3>3, <3>4
  <2> HIDE DEF t
  <2>4. LET u == Append(t, scan)
        IN Listed(u) /\ Cardinality(Returns(u)) = Cardinality(Returns(t))
    BY <2>2, Appended
  <2>5. /\ Listed(toWorker')
        /\ Cardinality(Returns(toWorker')) = Cardinality(Returns(toWorker))
    BY <2>2, <2>3, <2>4
  <2> QED BY <2>1, <2>5, CountedPairs, CountedPairsNext DEF IInv, Listed
<1> QED BY <1>1, <1>2 DEF GLFrame

LEMMA InitSafe == Init => IInv
BY Fresh DEF Init, GLIs, GLFresh

LEMMA NextSafe == IInv /\ [Next]_vars => IInv'
<1> SUFFICES ASSUME IInv, [Next]_vars PROVE IInv'
  OBVIOUS
<1>1. ASSUME NEW n \in 1..MaxChunk, Push(n) PROVE IInv'
  BY <1>1, PushSafe
<1>2. CASE Reset \/ Render \/ NewStyle \/ NewView
  BY <1>2, Untouched DEF Reset, Render, NewStyle, NewView, Invalidated, glVars
<1>3. CASE InGL /\ GLStep
  BY <1>3, ResultArrivesSafe, WorkerStepSafe, GLFrameSafe DEF GLStep
<1>4. CASE InGpu
  BY <1>4, Untouched DEF InGpu, glVars
<1>5. ASSUME NEW b, Detected(b) \/ NewBackend(b) PROVE IInv'
  BY <1>5, Untouched, Remounted DEF Detected, NewBackend, glVars
<1>6. CASE FallBack
  BY <1>6, Remounted DEF FallBack
<1>7. CASE UNCHANGED vars
  BY <1>7, Untouched DEF vars, glVars
<1> QED BY <1>1, <1>2, <1>3, <1>4, <1>5, <1>6, <1>7 DEF Next

(* The two pairs of buffers are with the worker, in a result, or on their  *)
(* way back (RenderWorkerBridge, render-worker-blob.ts), whatever resets,  *)
(* refused frames and changes of backend come in between.                  *)
THEOREM NoPairIsLost == Spec => []PairsConserved
<1>1. IInv => PairsConserved
  BY DEF IInv
<1> QED BY <1>1, InitSafe, NextSafe, PTL DEF Spec

-----------------------------------------------------------------------------
(* Rings of a scene                                                        *)

(* A ring as its writers leave it; its points are all after lo, up to hi;  *)
(* how many writes before the last its slot s was written; with `last` the *)
(* last point written to it, each point after lo is that far behind the    *)
(* write pointer.                                                          *)
RingOK(r) ==
  /\ r.slots \in [SlotIndexes -> Nat] /\ r.ptr \in SlotIndexes /\ r.total \in 0..Cap
  /\ r.total < Cap => r.ptr = r.total
Within(r, lo, hi) == \A s \in 0..(r.total - 1) : lo < r.slots[s] /\ r.slots[s] <= hi
Back(r, s) == (r.ptr - 1 - s) % Cap
Placed(r, lo, last) == \A s \in SlotIndexes :
  lo < last - Back(r, s) => s < r.total /\ r.slots[s] = last - Back(r, s)

StoreOK ==
  /\ pushed \in Nat /\ born \in Nat /\ resets \in Nat /\ resetVersion \in Nat
  /\ born <= pushed /\ resetVersion <= resets
  /\ resets = 0 => born = 0

MirrorOK ==
  /\ RingOK(mirror) /\ chunks \in Seq(Nat)
  /\ gpu.seen \in Nat /\ gpu.seen <= resetVersion
  /\ since \in Nat /\ since <= pushed
  /\ gpu.uploaded => WebGPU
  /\ ~WebGPU => chunks = <<>>
  /\ ~gpu.uploaded => mirror = EmptyRing /\ drawn = {}
  /\ gpu.seen = resets =>
       /\ Within(mirror, born, pushed)
       /\ \A i \in DOMAIN chunks : born < chunks[i] /\ chunks[i] <= pushed
       /\ \A v \in drawn : born < v.point
  /\ \A i \in DOMAIN chunks :
       since < pushed - Len(chunks) + i => chunks[i] = pushed - Len(chunks) + i
  /\ gpu.uploaded => Placed(mirror, since, pushed - Len(chunks))

MirrorInv == StoreOK /\ MirrorOK

(* The bounds on the parameters, as the proofs use them                    *)
LEMMA CapIs == Cap \in Nat \ {0} /\ SlotIndexes = 0..(Cap - 1)
  BY StoreConstants DEF SlotIndexes

LEMMA KeptIs ==
  ASSUME StoreOK
  PROVE  /\ Kept = (pushed - Smaller(pushed - born, Cap) + 1)..pushed
         /\ Cardinality(Kept) = Smaller(pushed - born, Cap)
         /\ Kept = {} <=> pushed = born
<1> DEFINE n == Smaller(pushed - born, Cap)
<1>1. n \in Nat /\ n <= pushed /\ (n = 0 <=> pushed = born)
  BY CapIs DEF Smaller, StoreOK
<1>2. Kept = (pushed - n + 1)..pushed
  BY CapIs DEF Kept, Larger, Smaller, StoreOK
<1> HIDE DEF n
<1>3. Cardinality((pushed - n + 1)..pushed) = n
  <2>1. pushed - n + 1 \in Int /\ pushed \in Int BY <1>1 DEF StoreOK
  <2>2. Cardinality((pushed - n + 1)..pushed)
          = IF pushed - n + 1 > pushed THEN 0 ELSE pushed - (pushed - n + 1) + 1
    BY <2>1, FS_Interval
  <2> QED BY <1>1, <2>1, <2>2
<1>4. Kept = {} <=> n = 0
  <2>1. n # 0 => pushed \in (pushed - n + 1)..pushed BY <1>1 DEF StoreOK
  <2>2. n = 0 => (pushed - n + 1)..pushed = {} BY <1>1 DEF StoreOK
  <2> QED BY <1>2, <2>1, <2>2
<1> QED BY <1>1, <1>2, <1>3, <1>4 DEF n

LEMMA EmptyRingOK ==
  /\ RingOK(EmptyRing)
  /\ \A lo, hi : Within(EmptyRing, lo, hi)
BY CapIs DEF RingOK, EmptyRing, NoPoint, Within

LEMMA BackIs ==
  ASSUME NEW r, RingOK(r), NEW s \in SlotIndexes
  PROVE  Back(r, s) \in 0..(Cap - 1)
<1>1. r.ptr - 1 - s \in Int BY CapIs DEF RingOK
<1> QED BY <1>1, CapIs, DivMod DEF Back

(* Some slot was written any number of writes ago, up to the ring's size.  *)
LEMMA AtDistance ==
  ASSUME NEW r, RingOK(r), NEW d \in 0..(Cap - 1)
  PROVE  \E s \in SlotIndexes : Back(r, s) = d
<1>1. Cap \in Nat \ {0} /\ SlotIndexes = 0..(Cap - 1) /\ r.ptr \in 0..(Cap - 1)
  BY CapIs DEF RingOK
<1> DEFINE s == IF r.ptr - 1 - d >= 0 THEN r.ptr - 1 - d ELSE r.ptr - 1 - d + Cap
<1>2. s \in 0..(Cap - 1) BY <1>1
<1>3. CASE r.ptr - 1 - d >= 0
  <2>1. r.ptr - 1 - s = d BY <1>1, <1>3
  <2>2. d % Cap = d BY <1>1, ModBelow
  <2> HIDE DEF s
  <2>3. Back(r, s) = d BY <2>1, <2>2 DEF Back
  <2> QED BY <1>1, <1>2, <2>3
<1>4. CASE ~(r.ptr - 1 - d >= 0)
  <2>1. r.ptr - 1 - s = Cap * (-1) + d BY <1>1, <1>4
  <2>2. r.ptr - 1 - s \in Int /\ -1 \in Int BY <1>1, <1>2
  <2> HIDE DEF s
  <2>3. Back(r, s) = d BY <1>1, <2>1, <2>2, ModUnique DEF Back
  <2> QED BY <1>1, <1>2, <2>3
<1> QED BY <1>3, <1>4

(* A ring with the points after lo in their places has them, and nothing   *)
(* else when the store keeps no others.                                    *)
LEMMA PlacedKept ==
  ASSUME StoreOK, NEW r, RingOK(r), NEW lo \in Nat, Placed(r, lo, pushed)
  PROVE  /\ \A p \in Kept : lo < p => p \in Valid(r)
         /\ Within(r, born, pushed) /\ (\A p \in Kept : lo < p) => Valid(r) = Kept
<1> DEFINE n == Smaller(pushed - born, Cap)
<1>1. /\ n \in Nat /\ n <= pushed /\ n <= Cap /\ n <= pushed - born /\ (n < Cap => n = pushed - born)
      /\ Cap \in Nat \ {0} /\ pushed \in Nat /\ born \in Nat /\ SlotIndexes = 0..(Cap - 1)
      /\ r.total \in 0..Cap /\ Kept = (pushed - n + 1)..pushed
  BY CapIs, KeptIs DEF Smaller, StoreOK, RingOK
<1> HIDE DEF n
<1>2. ASSUME NEW p \in Kept, lo < p PROVE p \in Valid(r)
  <2>1. pushed - p \in 0..(Cap - 1) BY <1>1
  <2>2. PICK s \in SlotIndexes : Back(r, s) = pushed - p BY <2>1, AtDistance
  <2>3. pushed - Back(r, s) = p BY <1>1, <2>2
  <2>4. s < r.total /\ r.slots[s] = p BY <1>2, <2>3 DEF Placed
  <2>5. s \in 0..(r.total - 1) BY <1>1, <2>4
  <2> QED BY <2>4, <2>5 DEF Valid
<1>3. ASSUME Within(r, born, pushed), \A p \in Kept : lo < p, NEW s \in 0..(r.total - 1)
      PROVE  r.slots[s] \in Kept
  <2>1. s \in SlotIndexes BY <1>1
  <2>2. Back(r, s) \in 0..(Cap - 1) BY <2>1, BackIs
  <2>3. CASE n = Cap
    <3>1. pushed - Back(r, s) \in Kept BY <1>1, <2>2, <2>3
    <3>2. lo < pushed - Back(r, s) BY <1>3, <3>1
    <3> QED BY <2>1, <3>1, <3>2 DEF Placed
  <2>4. CASE n < Cap
    <3>1. r.slots[s] \in Nat BY <2>1 DEF RingOK
    <3>2. born < r.slots[s] /\ r.slots[s] <= pushed BY <1>3 DEF Within
    <3> QED BY <1>1, <2>4, <3>1, <3>2
  <2> QED BY <1>1, <2>3, <2>4
<1> QED BY <1>2, <1>3 DEF Valid

(* The whole ring of the store, copied                                     *)
LEMMA CopyOK ==
  ASSUME StoreOK, NEW r, RingOK(r)
  PROVE  /\ RingOK(FullCopy(r))
         /\ Kept = {} => FullCopy(r) = r
         /\ Kept # {} => Within(FullCopy(r), born, pushed) /\ Placed(FullCopy(r), born, pushed)
<1> DEFINE n == Smaller(pushed - born, Cap)
           c == FullCopy(r)
<1>1. n \in Nat /\ n <= pushed - born /\ n <= Cap /\ Cap \in Nat \ {0} /\ pushed \in Nat
      /\ born \in Nat /\ SlotIndexes = 0..(Cap - 1) /\ (Kept = {} <=> n = 0) /\ Cardinality(Kept) = n
  BY CapIs, KeptIs DEF Smaller, StoreOK
<1>2. CASE n = 0
  BY <1>1, <1>2 DEF FullCopy
<1>3. CASE n # 0
  <2>1. c = [slots |-> [s \in SlotIndexes |-> IF s < n THEN pushed - n + 1 + s ELSE r.slots[s]],
             ptr |-> n % Cap, total |-> n]
    BY <1>1, <1>3 DEF FullCopy
  <2>2. /\ c.slots \in [SlotIndexes -> Nat] /\ c.ptr = n % Cap /\ c.total = n
        /\ \A s \in 0..(n - 1) : c.slots[s] = pushed - n + 1 + s
    <3>1. \A s \in SlotIndexes : r.slots[s] \in Nat BY DEF RingOK
    <3>2. \A s \in SlotIndexes : s < n => pushed - n + 1 + s \in Nat BY <1>1
    <3>3. \A s \in 0..(n - 1) : s \in SlotIndexes /\ s < n BY <1>1
    <3> HIDE DEF n, c
    <3> QED BY <2>1, <3>1, <3>2, <3>3
  <2> HIDE DEF c
  <2>3. n % Cap \in 0..(Cap - 1) /\ (n < Cap => n % Cap = n)
    <3>1. n % Cap \in 0..(Cap - 1) BY <1>1, ModRange
    <3>2. n < Cap => n \in 0..(Cap - 1) BY <1>1
    <3> QED BY <1>1, <3>1, <3>2, ModBelow
  <2>4. RingOK(c)
    BY <1>1, <2>2, <2>3 DEF RingOK
  <2>5. Within(c, born, pushed)
    <3> HIDE DEF n
    <3> QED BY <1>1, <2>2 DEF Within
  <2>6. ASSUME NEW s \in 0..(n - 1) PROVE c.slots[s] = pushed - Back(c, s)
    <3> HIDE DEF n
    <3>1. n - 1 - s \in 0..(Cap - 1) /\ -1 - s \in Int /\ n \in Int BY <1>1
    <3>2. (n - 1 - s) % Cap = n - 1 - s BY <1>1, <3>1, ModBelow
    <3>3. ((n % Cap) + (-1 - s)) % Cap = (n + (-1 - s)) % Cap BY <1>1, <3>1, ModAdd
    <3>4. n + (-1 - s) = n - 1 - s /\ c.ptr - 1 - s = (n % Cap) + (-1 - s)
      <4> DEFINE m == n % Cap
      <4>1. c.ptr = m /\ m \in Int BY <2>2, <2>3
      <4> HIDE DEF m
      <4>2. c.ptr - 1 - s = m + (-1 - s) BY <4>1
      <4> QED BY <3>1, <4>2 DEF m
    <3>5. Back(c, s) = n - 1 - s BY <3>2, <3>3, <3>4, Zenon DEF Back
    <3> QED BY <1>1, <2>2, <3>5
(* A slot behind the copy has a point from before the reset.               *)
  <2>7. ASSUME NEW s \in 0..(Cap - 1), born < pushed - Back(c, s) PROVE s \in 0..(n - 1)
    <3> SUFFICES ASSUME s >= n PROVE FALSE
      BY <1>1
    <3>1. n < Cap /\ n = pushed - born /\ c.ptr = n
      BY <1>1, <2>2, <2>3 DEF Smaller
    <3> HIDE DEF n
    <3>2. n - 1 - s + Cap \in 0..(Cap - 1) /\ n - 1 - s \in Int /\ -1 \in Int
          /\ n - 1 - s = Cap * (-1) + (n - 1 - s + Cap)
      BY <1>1, <3>1
    <3>3. Back(c, s) = n - 1 - s + Cap BY <1>1, <3>1, <3>2, ModUnique DEF Back
    <3> QED BY <1>1, <2>7, <3>1, <3>3
  <2>8. Placed(c, born, pushed)
    <3> HIDE DEF n
    <3> SUFFICES ASSUME NEW s \in SlotIndexes, born < pushed - Back(c, s)
                 PROVE  s < c.total /\ c.slots[s] = pushed - Back(c, s)
      BY DEF Placed
    <3>1. s \in 0..(n - 1) BY <1>1, <2>7
    <3> QED BY <1>1, <2>2, <2>6, <3>1
  <2> QED BY <1>1, <1>3, <2>4, <2>5, <2>8 DEF c
<1> QED BY <1>2, <1>3

(* A chunk written after the points of a ring                              *)
LEMMA WriteOK ==
  ASSUME NEW r, RingOK(r), NEW pts \in Seq(Nat)
  PROVE  LET w == WriteAll(r, pts)
         IN /\ RingOK(w)
            /\ \A lo, hi \in Int :
                 Within(r, lo, hi) /\ (\A i \in DOMAIN pts : lo < pts[i] /\ pts[i] <= hi)
                   => Within(w, lo, hi)
            /\ \A lo, last \in Int :
                 /\ last <= lo \/ Placed(r, lo, last)
                 /\ \A i \in DOMAIN pts : lo < last + i => pts[i] = last + i
                 => Placed(w, lo, last + Len(pts))
<1> DEFINE n == Len(pts)
           w == WriteAll(r, pts)
           after(s) == (r.ptr + n - 1 - s) % Cap
<1>1. /\ n \in Nat /\ DOMAIN pts = 1..n /\ Cap \in Nat \ {0} /\ SlotIndexes = 0..(Cap - 1)
      /\ r.ptr \in 0..(Cap - 1) /\ r.total \in 0..Cap /\ (r.total < Cap => r.ptr = r.total)
      /\ r.slots \in [0..(Cap - 1) -> Nat] /\ \A i \in 1..n : pts[i] \in Nat
  BY CapIs DEF RingOK
<1>2. w = [slots |-> [s \in SlotIndexes |-> IF after(s) < n THEN pts[n - after(s)] ELSE r.slots[s]],
           ptr |-> (r.ptr + n) % Cap, total |-> Smaller(r.total + n, Cap)]
  BY DEF WriteAll
<1>3. /\ w.ptr = (r.ptr + n) % Cap /\ w.total = Smaller(r.total + n, Cap)
      /\ DOMAIN w.slots = 0..(Cap - 1)
      /\ w.slots = [s \in SlotIndexes |-> IF after(s) < n THEN pts[n - after(s)] ELSE r.slots[s]]
  <2> HIDE DEF after, w, n
  <2> QED BY <1>1, <1>2
<1>4. \A s \in 0..(Cap - 1) : after(s) \in 0..(Cap - 1)
  <2> TAKE s \in 0..(Cap - 1)
  <2>1. r.ptr + n - 1 - s \in Int BY <1>1
  <2> QED BY <1>1, <2>1, DivMod
<1>5. \A s \in 0..(Cap - 1) :
        w.slots[s] = IF after(s) < n THEN pts[n - after(s)] ELSE r.slots[s]
  <2> HIDE DEF after, w, n
  <2> QED BY <1>1, <1>3
<1> HIDE DEF w
<1>6. w.total = IF r.total + n < Cap THEN r.total + n ELSE Cap
  BY <1>3 DEF Smaller
<1>7. w.ptr \in 0..(Cap - 1) /\ w.total \in 0..Cap /\ (w.total < Cap => w.ptr = w.total)
  <2>1. r.ptr + n \in Nat BY <1>1
  <2>2. (r.ptr + n) % Cap \in 0..(Cap - 1) BY <1>1, <2>1, ModRange
  <2>3. CASE r.total + n < Cap
    <3>1. r.ptr + n \in 0..(Cap - 1) /\ r.ptr = r.total BY <1>1, <2>3
    <3>2. (r.ptr + n) % Cap = r.ptr + n BY <1>1, <3>1, ModBelow
    <3>3. w.ptr = r.ptr + n BY <1>3, <3>2
    <3>4. w.total = r.total + n /\ r.total + n \in 0..Cap BY <1>1, <1>6, <2>3
    <3> QED BY <3>1, <3>3, <3>4
  <2>4. CASE ~(r.total + n < Cap)
    <3>1. w.ptr \in 0..(Cap - 1) BY <1>3, <2>2
    <3>2. w.total = Cap BY <1>6, <2>4
    <3>3. Cap \in 0..Cap /\ ~(Cap < Cap) BY <1>1
    <3> QED BY <3>1, <3>2, <3>3, Zenon
  <2> QED BY <2>3, <2>4, Zenon
(* A slot that is not written was in use.                                  *)
<1>8. ASSUME NEW s \in 0..(w.total - 1), ~(after(s) < n) PROVE s \in 0..(r.total - 1)
  <2> SUFFICES ASSUME s >= r.total PROVE FALSE
    BY <1>1, <1>7
  <2>1. r.total < Cap /\ r.ptr = r.total /\ s < r.total + n
    <3> HIDE DEF n, after
    <3>1. r.total \in Nat /\ n \in Nat /\ Cap \in Nat /\ r.total <= Cap BY <1>1
    <3>2. s \in Nat /\ s < w.total BY <1>7
    <3>3. w.total <= r.total + n /\ w.total <= Cap BY <1>6, <3>1
    <3>4. w.total \in Nat BY <1>7
    <3>5. r.total < Cap /\ s < r.total + n BY <3>1, <3>2, <3>3, <3>4
    <3> QED BY <1>1, <3>5
  <2> DEFINE k == r.ptr + n - 1 - s
  <2>2. k \in Nat /\ k < n BY <1>1, <1>7, <2>1
  <2>3. after(s) <= k
    <3>1. after(s) = k % Cap OBVIOUS
    <3> HIDE DEF k, after
    <3>2. k % Cap <= k
      <4>1. CASE k < Cap
        <5>1. k \in 0..(Cap - 1) BY <1>1, <2>2, <4>1
        <5> QED BY <1>1, <2>2, <5>1, ModBelow
      <4>2. CASE ~(k < Cap)
        <5>1. k % Cap \in 0..(Cap - 1) BY <1>1, <2>2, ModRange
        <5> QED BY <1>1, <2>2, <4>2, <5>1
      <4> QED BY <4>1, <4>2
    <3> QED BY <3>1, <3>2
  <2>4. after(s) \in Int
    <3>1. s \in 0..(Cap - 1) BY <1>1, <1>7
    <3> HIDE DEF after
    <3> QED BY <1>1, <1>4, <3>1
  <2> HIDE DEF k, after
  <2> QED BY <1>1, <1>8, <2>2, <2>3, <2>4
<1>9. \A s \in 0..(Cap - 1) : after(s) < n => n - after(s) \in 1..n
  <2> HIDE DEF after, n
  <2> TAKE s \in 0..(Cap - 1)
  <2>1. after(s) \in 0..(Cap - 1) BY <1>4
  <2> QED BY <1>1, <2>1
<1>10. RingOK(w)
  <2>1. \A s \in 0..(Cap - 1) : w.slots[s] \in Nat
    <3> HIDE DEF after, n
    <3> QED BY <1>1, <1>5, <1>9
  <2>2. w.slots \in [0..(Cap - 1) -> Nat]
    <3> HIDE DEF after, n
    <3> QED BY <1>1, <1>3, <2>1
  <2> QED BY <1>1, <1>7, <2>2 DEF RingOK
<1>11. ASSUME NEW lo \in Int, NEW hi \in Int, Within(r, lo, hi),
              \A i \in DOMAIN pts : lo < pts[i] /\ pts[i] <= hi
       PROVE  Within(w, lo, hi)
  <2> SUFFICES ASSUME NEW s \in 0..(w.total - 1) PROVE lo < w.slots[s] /\ w.slots[s] <= hi
    BY DEF Within
  <2>1. s \in 0..(Cap - 1) BY <1>1, <1>7
  <2> HIDE DEF after, n
  <2>2. CASE after(s) < n BY <1>1, <1>5, <1>9, <1>11, <2>1, <2>2
  <2>3. CASE ~(after(s) < n)
    <3>1. s \in 0..(r.total - 1) BY <1>8, <2>3
    <3> QED BY <1>5, <1>11, <2>1, <2>3, <3>1 DEF Within
  <2> QED BY <2>2, <2>3
(* A slot that is written is in use.                                       *)
<1>12. ASSUME NEW s \in 0..(Cap - 1), after(s) < n PROVE s < w.total
  <2> SUFFICES ASSUME s >= w.total PROVE FALSE
    BY <1>7
  <2> DEFINE k == r.ptr + n - 1 - s
             a == after(s)
  <2>1. a \in 0..(Cap - 1) /\ a < n /\ a = k % Cap BY <1>4, <1>12
  <2>2. r.total + n < Cap /\ r.ptr = r.total /\ w.total = r.total + n
    <3> HIDE DEF n, a, k
    <3> QED BY <1>1, <1>6, <1>7
  <2>3. k + Cap \in 0..(Cap - 1) /\ k \in Int /\ -1 \in Int /\ k = Cap * (-1) + (k + Cap) /\ k + Cap >= n
    <3>1. /\ r.ptr \in Int /\ n \in Nat /\ s \in 0..(Cap - 1) /\ Cap \in Nat /\ r.ptr >= 0
          /\ s >= r.ptr + n
      BY <1>1, <2>2
    <3> HIDE DEF n, a
    <3> QED BY <3>1
  <2> HIDE DEF k, a
  <2>4. a = k + Cap BY <1>1, <2>1, <2>3, ModUnique
  <2> QED BY <1>1, <2>1, <2>3, <2>4
<1>13. ASSUME NEW lo \in Int, NEW last \in Int, last <= lo \/ Placed(r, lo, last),
              \A i \in DOMAIN pts : lo < last + i => pts[i] = last + i
       PROVE  Placed(w, lo, last + n)
  <2> SUFFICES ASSUME NEW s \in SlotIndexes, lo < (last + n) - Back(w, s)
               PROVE  s < w.total /\ w.slots[s] = (last + n) - Back(w, s)
    BY DEF Placed
  <2>1. s \in 0..(Cap - 1) /\ -1 - s \in Int /\ r.ptr + n \in Int /\ r.ptr - 1 - s \in Int
    BY <1>1
  <2>2. Back(w, s) = after(s)
    <3>1. (((r.ptr + n) % Cap) + (-1 - s)) % Cap = (r.ptr + n + (-1 - s)) % Cap
      BY <1>1, <2>1, ModAdd
    <3>2. w.ptr - 1 - s = ((r.ptr + n) % Cap) + (-1 - s)
      <4> DEFINE m == (r.ptr + n) % Cap
      <4>1. w.ptr = m /\ m \in Int BY <1>3, <1>7
      <4> HIDE DEF m
      <4>2. w.ptr - 1 - s = m + (-1 - s) BY <2>1, <4>1
      <4> QED BY <4>2 DEF m
    <3>3. r.ptr + n + (-1 - s) = r.ptr + n - 1 - s
      <4>1. r.ptr \in Int /\ n \in Int /\ s \in Int BY <1>1, <2>1
      <4> HIDE DEF n
      <4> QED BY <4>1
    <3> QED BY <3>1, <3>2, <3>3, Zenon DEF Back
  <2>3. after(s) \in 0..(Cap - 1) BY <1>4, <2>1
  <2>4. CASE after(s) < n
    <3>1. n - after(s) \in 1..n BY <1>9, <2>1, <2>4
    <3>2. s < w.total BY <1>12, <2>1, <2>4
    <3> HIDE DEF after, n
    <3>3. last + (n - after(s)) = (last + n) - after(s) BY <1>1, <1>13, <2>3
    <3>4. w.slots[s] = pts[n - after(s)] BY <1>5, <2>1, <2>4
    <3>5. pts[n - after(s)] = last + (n - after(s)) BY <1>1, <1>13, <2>2, <3>1, <3>3
    <3> QED BY <2>2, <3>2, <3>3, <3>4, <3>5
  <2>5. CASE ~(after(s) < n)
    <3> DEFINE b == Back(r, s)
    <3>1. b \in 0..(Cap - 1) BY <1>1, <2>1, DivMod DEF Back
    <3>2. (b + n) % Cap = after(s)
      <4> DEFINE x == r.ptr - 1 - s
      <4>1. (b + n) % Cap = (x + n) % Cap
        <5>1. x \in Int /\ n \in Int BY <1>1, <2>1
        <5> HIDE DEF x, n
        <5>2. ((x % Cap) + n) % Cap = (x + n) % Cap BY <1>1, <5>1, ModAdd
        <5> QED BY <5>2 DEF x, Back
      <4>2. r.ptr - 1 - s + n = r.ptr + n - 1 - s BY <1>1, <2>1
      <4> QED BY <4>1, <4>2
    <3>3. w.slots[s] = r.slots[s] BY <1>5, <2>1, <2>5
    <3> HIDE DEF after, n, b
    <3>4. after(s) = b + n
      <4>1. CASE b + n < Cap
        <5>1. b + n \in 0..(Cap - 1) BY <1>1, <3>1, <4>1
        <5> QED BY <1>1, <3>2, <5>1, ModBelow
      <4>2. CASE ~(b + n < Cap)
        <5>1. b + n - Cap \in 0..(Cap - 1) /\ b + n - Cap < n
              /\ Cap + (b + n - Cap) = b + n
          BY <1>1, <2>3, <2>5, <3>1, <4>2
        <5>2. after(s) = b + n - Cap BY <1>1, <3>2, <5>1, ModBelow
        <5> QED BY <2>5, <5>1, <5>2
      <4> QED BY <4>1, <4>2
    <3>5. (last + n) - after(s) = last - b /\ lo < last - b
      BY <1>1, <1>13, <2>2, <3>1, <3>4
    <3>6. Placed(r, lo, last) BY <1>13, <3>1, <3>5
    <3>7. s < r.total /\ r.slots[s] = last - b BY <3>5, <3>6 DEF Placed, b
    <3>8. s < w.total BY <1>1, <1>6, <2>1, <3>7
    <3> QED BY <2>2, <3>3, <3>5, <3>7, <3>8
  <2> QED BY <2>4, <2>5
<1> QED BY <1>10, <1>11, <1>13 DEF w

(* Nothing of a ring is after its last point.                              *)
LEMMA NothingAfter ==
  ASSUME NEW r, RingOK(r), NEW lo \in Int, NEW last \in Int, last <= lo
  PROVE  Placed(r, lo, last)
<1> SUFFICES ASSUME NEW s \in SlotIndexes PROVE ~(lo < last - Back(r, s))
  BY DEF Placed
<1>1. Back(r, s) \in 0..(Cap - 1)
  BY BackIs
<1> QED BY <1>1, CapIs

-----------------------------------------------------------------------------
(* The mirror's steps                                                      *)

(* The body of a frame: the initial upload, the handshake, the chunks or a *)
(* new colour.                                                             *)
LEMMA UpdatedOK ==
  ASSUME MirrorInv
  PROVE  /\ RingOK(Updated)
         /\ resetVersion = resets => Within(Updated, born, pushed)
         /\ SinceFrame \in Nat /\ SinceFrame <= pushed
         /\ Placed(Updated, SinceFrame, pushed)
<1>1. /\ StoreOK /\ RingOK(mirror) /\ chunks \in Seq(Nat) /\ pushed \in Int /\ born \in Int
      /\ born \in Nat /\ born <= pushed /\ (First => mirror = EmptyRing) /\ RingOK(EmptyRing)
      /\ pushed \in Nat /\ since \in Nat /\ since <= pushed
  BY EmptyRingOK DEF MirrorInv, MirrorOK, First, StoreOK
<1>2. Todo \in Seq(Nat) /\ (ResetSeen => Todo = <<>>) /\ (~ResetSeen => Todo = chunks)
  BY <1>1 DEF Todo
<1> DEFINE uploaded == IF First THEN FullCopy(mirror) ELSE mirror
<1>3. RingOK(uploaded)
  BY <1>1, CopyOK
<1>4. Prepared = IF ResetSeen THEN EmptyRing ELSE uploaded
  BY DEF Prepared
<1> HIDE DEF uploaded
<1>5. RingOK(Prepared)
  BY <1>1, <1>3, <1>4
<1>6. Updated = IF Recolour THEN FullCopy(Prepared) ELSE WriteAll(Prepared, Todo)
  BY DEF Updated
<1>7. RingOK(Updated)
  BY <1>1, <1>2, <1>5, <1>6, CopyOK, WriteOK
<1>8. ASSUME resetVersion = resets
      PROVE  /\ Within(Prepared, born, pushed)
             /\ \A i \in DOMAIN Todo : born < Todo[i] /\ Todo[i] <= pushed
  <2>1. CASE ResetSeen
    BY <1>2, <1>4, <2>1, EmptyRingOK
  <2>2. CASE ~ResetSeen
    <3>1. gpu.seen = resets BY <1>8, <2>2 DEF ResetSeen
    <3>2. /\ Within(mirror, born, pushed)
          /\ \A i \in DOMAIN chunks : born < chunks[i] /\ chunks[i] <= pushed
      BY <3>1 DEF MirrorInv, MirrorOK
    <3>3. Within(uploaded, born, pushed)
      BY <1>1, <3>2, CopyOK DEF uploaded
    <3> QED BY <1>2, <1>4, <2>2, <3>2, <3>3
  <2> QED BY <2>1, <2>2
<1>9. ASSUME resetVersion = resets PROVE Within(Updated, born, pushed)
  <2>1. CASE Recolour
    BY <1>1, <1>5, <1>6, <1>8, <1>9, <2>1, CopyOK
  <2>2. CASE ~Recolour
    BY <1>1, <1>2, <1>5, <1>6, <1>8, <1>9, <2>2, WriteOK
  <2> QED BY <2>1, <2>2
<1> SUFFICES SinceFrame \in Nat /\ SinceFrame <= pushed /\ Placed(Updated, SinceFrame, pushed)
  BY <1>7, <1>9
<1>10. Kept = {} => pushed = born
  BY <1>1, KeptIs
<1>11. CASE Recolour
  <2>1. SinceFrame = born BY <1>11 DEF SinceFrame
  <2>2. Placed(Updated, born, pushed)
    BY <1>1, <1>5, <1>6, <1>7, <1>10, <1>11, CopyOK, NothingAfter
  <2> QED BY <1>1, <2>1, <2>2
<1>12. CASE ~Recolour /\ ResetSeen
  <2>1. SinceFrame = pushed BY <1>12 DEF SinceFrame
  <2> QED BY <1>1, <1>7, <2>1, NothingAfter
<1> DEFINE last == pushed - Len(chunks)
<1>13. last \in Int /\ last + Len(chunks) = pushed /\ last <= pushed /\ Len(chunks) \in Nat
  BY <1>1
<1>14. \A i \in DOMAIN chunks : since < last + i => chunks[i] = last + i
  BY DEF MirrorInv, MirrorOK
<1>15. CASE ~Recolour /\ ~ResetSeen /\ ~First
  <2>1. SinceFrame = since BY <1>15 DEF SinceFrame
  <2>2. Placed(mirror, since, last) BY <1>15 DEF MirrorInv, MirrorOK, First
  <2>3. Updated = WriteAll(mirror, chunks)
    BY <1>2, <1>4, <1>6, <1>15 DEF uploaded
  <2> HIDE DEF last
  <2>4. Placed(Updated, since, last + Len(chunks)) BY <1>1, <1>13, <1>14, <2>2, <2>3, WriteOK
  <2> QED BY <1>1, <1>13, <2>1, <2>4
<1>16. CASE ~Recolour /\ ~ResetSeen /\ First /\ Todo = <<>>
  <2>1. SinceFrame = born BY <1>16 DEF SinceFrame
  <2>2. Placed(Prepared, born, pushed)
    BY <1>1, <1>4, <1>5, <1>10, <1>16, CopyOK, NothingAfter DEF uploaded
  <2>3. Updated = WriteAll(Prepared, Todo) BY <1>6, <1>16
  <2>4. Len(Todo) = 0 /\ DOMAIN Todo = {} /\ pushed + 0 = pushed
    BY <1>1, <1>16
  <2>5. Placed(Updated, born, pushed + Len(Todo))
    BY <1>1, <1>2, <1>5, <2>2, <2>3, <2>4, WriteOK
  <2> QED BY <1>1, <2>1, <2>4, <2>5
<1>17. CASE ~Recolour /\ ~ResetSeen /\ First /\ Todo # <<>>
  <2> DEFINE lo == Larger(since, last)
  <2>1. Todo = chunks BY <1>2, <1>17
  <2>2. SinceFrame = lo BY <1>17, <2>1 DEF SinceFrame
  <2>3. Updated = WriteAll(Prepared, chunks) BY <1>6, <1>17, <2>1
  <2> HIDE DEF last
  <2>4. lo \in Nat /\ lo <= pushed /\ last <= lo /\ since <= lo BY <1>1, <1>13 DEF Larger
  <2> HIDE DEF lo
  <2>5. ASSUME NEW i \in DOMAIN chunks, lo < last + i PROVE chunks[i] = last + i
    <3>1. i \in Nat BY <1>1
    <3>2. since < last + i BY <1>1, <1>13, <2>4, <2>5, <3>1
    <3> QED BY <1>14, <3>2
  <2>6. last <= lo \/ Placed(Prepared, lo, last) BY <2>4
  <2>7. lo \in Int /\ \A i \in DOMAIN chunks : lo < last + i => chunks[i] = last + i BY <2>4, <2>5
  <2>8. Placed(Updated, lo, last + Len(chunks)) BY <1>1, <1>5, <1>13, <2>3, <2>6, <2>7, WriteOK
  <2> QED BY <1>13, <2>2, <2>4, <2>8
<1> QED BY <1>11, <1>12, <1>15, <1>16, <1>17

(* What is drawn was in the mirror, and left the screen with it.           *)
LEMMA VisibleOK ==
  ASSUME MirrorInv, NEW elapsed \in BOOLEAN, resetVersion = resets
  PROVE  \A v \in Visible(elapsed) : born < v.point
<1>1. RingOK(Updated) /\ Within(Updated, born, pushed)
  BY UpdatedOK
<1>2. CASE Updated.total = 0
  BY <1>2 DEF Visible
<1>3. CASE Updated.total # 0 /\ Runs(elapsed)
  <2>1. Visible(elapsed) = {[slot |-> s, point |-> Updated.slots[s]] : s \in 0..(Updated.total - 1)}
    BY <1>3 DEF Visible
  <2> QED BY <1>1, <2>1 DEF Within
<1>4. CASE Updated.total # 0 /\ ~Runs(elapsed)
  <2>1. Visible(elapsed) = drawn
    BY <1>4 DEF Visible
  <2>2. ~NewData
    <3>1. Updated.total > 0 BY <1>1, <1>4 DEF RingOK
    <3> QED BY <1>4, <3>1 DEF Runs
  <2>3. ~ResetSeen
    <3> SUFFICES ASSUME ResetSeen PROVE FALSE
      OBVIOUS
    <3>1. Prepared = EmptyRing /\ Todo = <<>> BY DEF Prepared, Todo
    <3>2. EmptyRing.total = 0 BY DEF EmptyRing
    <3>3. CASE Recolour
      <4>1. Kept = {} BY <2>2, <3>3 DEF NewData
      <4>2. Updated = EmptyRing BY <3>1, <3>3, <4>1, CopyOK, EmptyRingOK DEF Updated, MirrorInv
      <4> QED BY <1>4, <3>2, <4>2
    <3>4. CASE ~Recolour
      <4>1. Updated = WriteAll(EmptyRing, <<>>) BY <3>1, <3>4 DEF Updated
      <4>2. Updated.total = Smaller(0 + 0, Cap) BY <3>2, <4>1 DEF WriteAll
      <4> QED BY <1>4, <4>2, CapIs DEF Smaller
    <3> QED BY <3>3, <3>4
  <2>4. gpu.seen = resets BY <2>3 DEF ResetSeen
  <2> QED BY <2>1, <2>4 DEF MirrorInv, MirrorOK
<1> QED BY <1>2, <1>3, <1>4

LEMMA FrameKeepsMirror ==
  ASSUME MirrorInv, WebGPU, NEW elapsed \in BOOLEAN, FrameBody(elapsed), UNCHANGED backend
  PROVE  MirrorInv'
<1>1. /\ mirror' = Updated /\ chunks' = <<>> /\ drawn' = Visible(elapsed)
      /\ gpu'.uploaded /\ gpu'.seen = resetVersion
      /\ since' = SinceFrame
      /\ UNCHANGED <<pushed, born, resets, resetVersion>>
  BY DEF FrameBody, MayRefresh
<1>2. StoreOK' /\ pushed \in Nat /\ born \in Nat /\ born <= pushed
      /\ resetVersion \in Nat
  BY <1>1 DEF MirrorInv, StoreOK
<1>3. /\ RingOK(Updated)
      /\ resetVersion = resets => Within(Updated, born, pushed) /\ \A v \in drawn' : born < v.point
      /\ since' \in Nat /\ since' <= pushed /\ Placed(Updated, since', pushed)
  BY <1>1, UpdatedOK, VisibleOK
<1>4. Len(chunks') = 0 /\ DOMAIN chunks' = {} /\ chunks' \in Seq(Nat)
  BY <1>1
<1>5. pushed' - Len(chunks') = pushed
  BY <1>1, <1>2, <1>4
<1>6. RingOK(mirror') /\ WebGPU'
  BY <1>1, <1>3 DEF WebGPU
<1>7. resetVersion = resets => Within(mirror', born', pushed')
  BY <1>1, <1>3
<1>8. Placed(mirror', since', pushed' - Len(chunks'))
  BY <1>1, <1>3, <1>5
<1>9. MirrorOK'
  BY <1>1, <1>2, <1>3, <1>4, <1>5, <1>6, <1>7, <1>8
  DEF MirrorOK, RingOK, Within, Placed, Back, SlotIndexes
<1> QED BY <1>2, <1>9 DEF MirrorInv

(* A step that leaves the mirror and the ring alone                        *)
LEMMA MirrorUntouched ==
  ASSUME MirrorInv, UNCHANGED <<mirror, gpu, chunks, drawn, since, backend>>,
         UNCHANGED <<pushed, born, resets>>, resetVersion' \in {resetVersion, resets}
  PROVE  MirrorInv'
<1>1. StoreOK'
  BY DEF MirrorInv, StoreOK
<1>2. gpu.seen <= resetVersion'
  BY DEF MirrorInv, MirrorOK, StoreOK
<1>3. MirrorOK'
  BY <1>2 DEF MirrorInv, MirrorOK, RingOK, Within, Placed, Back, SlotIndexes, EmptyRing, WebGPU
<1> QED BY <1>1, <1>3 DEF MirrorInv

(* reset() is ahead of what the scene has seen.                            *)
LEMMA ResetKeepsMirror ==
  ASSUME MirrorInv, Reset
  PROVE  MirrorInv'
<1>1. /\ resets' = resets + 1 /\ born' = pushed
      /\ UNCHANGED <<pushed, resetVersion, mirror, gpu, chunks, drawn, since, backend>>
  BY DEF Reset, StoreReset, gpuVars
<1>2. StoreOK'
  BY <1>1 DEF MirrorInv, StoreOK
<1>3. gpu.seen # resets'
  BY <1>1 DEF MirrorInv, MirrorOK, StoreOK
<1>4. MirrorOK'
  BY <1>1, <1>3 DEF MirrorInv, MirrorOK, RingOK, Placed, Back, SlotIndexes, EmptyRing, WebGPU
<1> QED BY <1>2, <1>4 DEF MirrorInv

LEMMA Concatenated ==
  ASSUME NEW s \in Seq(Nat), NEW c \in Seq(Nat)
  PROVE  /\ s \o c \in Seq(Nat) /\ Len(s \o c) = Len(s) + Len(c)
         /\ DOMAIN (s \o c) = 1..(Len(s) + Len(c))
         /\ \A i \in 1..Len(s) : (s \o c)[i] = s[i]
         /\ \A i \in (Len(s) + 1)..(Len(s) + Len(c)) : (s \o c)[i] = c[i - Len(s)]
<1>1. s \o c \in Seq(Nat)
  OBVIOUS
<1>2. Len(s \o c) = Len(s) + Len(c)
  OBVIOUS
<1>3. \A i \in 1..(Len(s) + Len(c)) : (s \o c)[i] = IF i <= Len(s) THEN s[i] ELSE c[i - Len(s)]
  OBVIOUS
<1>4. DOMAIN (s \o c) = 1..(Len(s) + Len(c))
  BY <1>1, <1>2
<1>5. ASSUME NEW i \in 1..Len(s) PROVE (s \o c)[i] = s[i]
  <2>1. i \in 1..(Len(s) + Len(c)) /\ i <= Len(s) OBVIOUS
  <2> QED BY <1>3, <2>1
<1>6. ASSUME NEW i \in (Len(s) + 1)..(Len(s) + Len(c)) PROVE (s \o c)[i] = c[i - Len(s)]
  <2>1. i \in 1..(Len(s) + Len(c)) /\ ~(i <= Len(s)) OBVIOUS
  <2> QED BY <1>3, <2>1
<1> QED BY <1>1, <1>2, <1>4, <1>5, <1>6

(* What is written of a chunk                                              *)
LEMMA CappedIs ==
  ASSUME NEW n \in Nat \ {0}, pushed \in Nat
  PROVE  LET c == Capped(Chunk(n))
         IN /\ c \in Seq(Nat) /\ Len(Chunk(n)) = n /\ Len(c) = Smaller(n, Cap)
            /\ \A i \in 1..Len(c) : c[i] = pushed + i
<1> DEFINE k == Smaller(n, Cap)
           b == Chunk(n)
           c == SubSeq(b, 1, k)
<1>1. k \in 1..n BY CapIs DEF Smaller
<1>2. b \in Seq(Nat) /\ Len(b) = n /\ \A i \in 1..n : b[i] = pushed + i
  <2>1. b \in [1..n -> Nat] BY DEF Chunk
  <2> QED BY <2>1, SeqDef DEF Chunk
<1>3. Capped(b) = c BY <1>2 DEF Capped
<1> HIDE DEF b, k
<1>4. c \in Seq(Nat) /\ Len(c) = k /\ \A i \in 1..k : c[i] = b[i] BY <1>1, <1>2
<1> HIDE DEF c
<1>5. \A i \in 1..Len(c) : c[i] = pushed + i BY <1>1, <1>2, <1>4
<1> QED BY <1>2, <1>3, <1>4, <1>5 DEF b, k

(* The ring takes a chunk, which the scene is given.                       *)
LEMMA PushKeepsMirror ==
  ASSUME MirrorInv, NEW n \in 1..MaxChunk, Push(n)
  PROVE  MirrorInv'
<1> DEFINE m == Len(chunks)
           c == Capped(Chunk(n))
           k == Len(c)
<1>1. /\ pushed' = pushed + n /\ pushed \in Nat /\ born \in Nat /\ n \in Nat \ {0}
      /\ born <= pushed /\ chunks \in Seq(Nat) /\ m \in Nat /\ DOMAIN chunks = 1..m
      /\ since \in Nat /\ since <= pushed
      /\ UNCHANGED <<born, resets, resetVersion, mirror, gpu, drawn, backend>>
  BY StoreConstants DEF Push, Take, GpuIngest, gpuVars, MirrorInv, MirrorOK, StoreOK
<1>2. StoreOK'
  BY <1>1 DEF MirrorInv, StoreOK
<1>3. /\ c \in Seq(Nat) /\ Len(Chunk(n)) = n /\ k = Smaller(n, Cap) /\ k \in Nat
      /\ \A i \in 1..k : c[i] = pushed + i
  BY <1>1, CappedIs
<1>4. k <= n /\ (k = n \/ n > Cap)
  BY <1>1, <1>3, CapIs DEF Smaller
<1>5. CASE WebGPU
  <2>1. chunks' = chunks \o c /\ since' = IF n > Cap THEN pushed + n ELSE since
    BY <1>3, <1>5 DEF Push, GpuIngest, CutShort, WebGPU, WebGL
  <2> HIDE DEF c, k
  <2>2. k = Len(c) /\ c \in Seq(Nat) BY <1>3 DEF k
  <2>3. /\ chunks' \in Seq(Nat) /\ Len(chunks') = m + k /\ DOMAIN chunks' = 1..(m + k)
        /\ \A i \in 1..m : chunks'[i] = chunks[i]
        /\ \A i \in (m + 1)..(m + k) : chunks'[i] = c[i - m]
    BY <1>1, <2>1, <2>2, Concatenated
  <2> HIDE DEF m
  <2>4. \A i \in (m + 1)..(m + k) : i - m \in 1..k BY <1>1, <1>3
  <2>5. \A i \in (m + 1)..(m + k) : chunks'[i] = pushed + (i - m) BY <1>3, <2>3, <2>4
  <2>6. \A i \in 1..(m + k) : i \in 1..m \/ i \in (m + 1)..(m + k) BY <1>1, <1>3
  <2>7. since' \in Nat /\ since' <= pushed' BY <1>1, <2>1, CapIs
  <2>8. ASSUME gpu.seen = resets
        PROVE  /\ Within(mirror, born, pushed')
               /\ \A i \in DOMAIN chunks' : born < chunks'[i] /\ chunks'[i] <= pushed'
    <3>1. /\ Within(mirror, born, pushed)
          /\ \A i \in 1..m : born < chunks[i] /\ chunks[i] <= pushed
      BY <1>1, <2>8 DEF MirrorInv, MirrorOK
    <3>2. ASSUME NEW s \in 0..(mirror.total - 1) PROVE mirror.slots[s] \in Nat
      BY CapIs DEF MirrorInv, MirrorOK, RingOK
    <3>3. Within(mirror, born, pushed')
      BY <1>1, <3>1, <3>2 DEF Within
    <3>4. \A i \in 1..m : chunks[i] \in Nat BY <1>1
    <3>5. \A i \in 1..m : born < chunks'[i] /\ chunks'[i] <= pushed'
      BY <1>1, <2>3, <3>1, <3>4
    <3>6. \A i \in (m + 1)..(m + k) : born < chunks'[i] /\ chunks'[i] <= pushed'
      BY <1>1, <1>3, <1>4, <2>5
    <3> QED BY <2>3, <2>6, <3>3, <3>5, <3>6
(* After a chunk that was cut nothing is in its place; else all is.        *)
  <2>9. /\ \A i \in DOMAIN chunks' :
             since' < pushed' - Len(chunks') + i => chunks'[i] = pushed' - Len(chunks') + i
        /\ gpu.uploaded => Placed(mirror, since', pushed' - Len(chunks'))
    <3> DEFINE last == pushed' - Len(chunks')
    <3>1. last = pushed + n - (m + k) /\ last \in Int BY <1>1, <1>3, <2>3
    <3>2. CASE n > Cap
      <4>1. since' = pushed + n BY <2>1, <3>2
      <4>2. last <= since' /\ since' \in Int BY <1>1, <1>3, <3>1, <4>1
      <4> HIDE DEF last
      <4>3. \A i \in 1..(m + k) : ~(since' < last + i) BY <1>1, <1>3, <3>1, <4>1
      <4>4. RingOK(mirror) BY DEF MirrorInv, MirrorOK
      <4>5. Placed(mirror, since', last) BY <3>1, <4>2, <4>4, NothingAfter
      <4> QED BY <2>3, <4>3, <4>5 DEF last
    <3>3. CASE k = n /\ ~(n > Cap)
      <4>0. since' = since BY <2>1, <3>3
      <4>1. since' = since /\ last = pushed - m
        <5> HIDE DEF last
        <5> QED BY <1>1, <1>3, <3>1, <3>3, <4>0
      <4>2. /\ \A i \in 1..m : since < pushed - m + i => chunks[i] = pushed - m + i
            /\ gpu.uploaded => Placed(mirror, since, pushed - m)
        BY <1>1 DEF MirrorInv, MirrorOK, m
      <4> HIDE DEF last
      <4>3. \A i \in 1..m : since < last + i => chunks'[i] = last + i BY <2>3, <4>1, <4>2
      <4>4. \A i \in (m + 1)..(m + k) : chunks'[i] = last + i BY <1>1, <1>3, <2>5, <4>1
      <4> QED BY <2>3, <2>6, <4>1, <4>2, <4>3, <4>4 DEF last
    <3> QED BY <1>4, <3>2, <3>3
  <2>10. MirrorOK'
    <3>1. /\ mirror' = mirror /\ gpu' = gpu /\ drawn' = drawn /\ born' = born
          /\ resets' = resets /\ resetVersion' = resetVersion
      BY <1>1
    <3>2. RingOK(mirror)' /\ EmptyRing' = EmptyRing /\ WebGPU' = WebGPU
      BY <1>1, <3>1 DEF MirrorInv, MirrorOK, RingOK, SlotIndexes, EmptyRing, WebGPU
    <3>3. gpu.seen \in Nat /\ gpu.seen <= resetVersion
          /\ (~gpu.uploaded => mirror = EmptyRing /\ drawn = {})
          /\ (gpu.seen = resets => \A v \in drawn : born < v.point)
      BY <1>1 DEF MirrorInv, MirrorOK
    <3>4. Within(mirror, born, pushed)' <=> Within(mirror, born, pushed')
      BY <3>1 DEF Within
    <3>5. Placed(mirror, since, pushed - Len(chunks))' <=> Placed(mirror, since', pushed' - Len(chunks'))
      BY <3>1 DEF Placed, Back
    <3> QED BY <1>5, <2>3, <2>7, <2>8, <2>9, <3>1, <3>2, <3>3, <3>4, <3>5 DEF MirrorOK
  <2> QED BY <1>2, <2>10 DEF MirrorInv
<1>6. CASE ~WebGPU
  <2>1. /\ ~gpu.uploaded /\ mirror = EmptyRing /\ drawn = {} /\ chunks = <<>>
        /\ UNCHANGED <<chunks, since>>
    BY <1>6 DEF MirrorInv, MirrorOK, Push, WebGPU, gpuVars
  <2>2. DOMAIN chunks' = {} /\ since <= pushed' BY <1>1, <2>1
  <2>3. Within(mirror, born, pushed') BY <2>1, EmptyRingOK
  <2> HIDE DEF m, c, k
  <2>4. MirrorOK'
    BY <1>1, <2>1, <2>2, <2>3
    DEF MirrorInv, MirrorOK, RingOK, Within, SlotIndexes, EmptyRing, WebGPU
  <2> QED BY <1>2, <2>4 DEF MirrorInv
<1> QED BY <1>5, <1>6

(* A new scene has seen no reset.                                          *)
LEMMA FreshMirror ==
  ASSUME StoreOK', NEW b, Remount(b)
  PROVE  MirrorInv'
<1>1. /\ mirror' = EmptyRing /\ chunks' = <<>> /\ drawn' = {} /\ gpu'.seen = 0 /\ ~gpu'.uploaded
      /\ since' = 0
  BY DEF Remount, MountGpu, GpuFresh
<1>2. chunks' \in Seq(Nat) /\ DOMAIN chunks' = {}
  BY <1>1
<1>3. RingOK(mirror') /\ Within(mirror', born', pushed')
  BY <1>1, EmptyRingOK
<1>4. resetVersion' \in Nat /\ 0 <= resetVersion' /\ 0 <= pushed'
  BY DEF StoreOK
<1>5. MirrorOK'
  BY <1>1, <1>2, <1>3, <1>4 DEF MirrorOK
<1> QED BY <1>5 DEF MirrorInv

LEMMA InitMirror == Init => MirrorInv
<1> SUFFICES ASSUME Init PROVE MirrorInv
  OBVIOUS
<1>1. /\ mirror = EmptyRing /\ chunks = <<>> /\ drawn = {} /\ gpu.seen = 0 /\ ~gpu.uploaded
      /\ since = 0
  BY DEF Init, GpuIs, GpuFresh
<1>2. StoreOK
  BY DEF Init, StoreInit, StoreOK
<1>3. chunks \in Seq(Nat) /\ DOMAIN chunks = {}
  BY <1>1
<1>4. MirrorOK
  BY <1>1, <1>2, <1>3, EmptyRingOK DEF MirrorOK, StoreOK
<1> QED BY <1>2, <1>4 DEF MirrorInv

LEMMA NextMirror == MirrorInv /\ [Next]_vars => MirrorInv'
<1> SUFFICES ASSUME MirrorInv, [Next]_vars PROVE MirrorInv'
  OBVIOUS
<1>1. ASSUME NEW n \in 1..MaxChunk, Push(n) PROVE MirrorInv'
  BY <1>1, PushKeepsMirror
<1>2. CASE Reset
  BY <1>2, ResetKeepsMirror
<1>3. CASE Render \/ NewStyle \/ NewView
  <2>1. /\ UNCHANGED <<mirror, gpu, chunks, drawn, since, backend, pushed, born, resets>>
        /\ resetVersion' \in {resetVersion, resets}
    BY <1>3 DEF Render, NewStyle, NewView, StoreRender, ChangeStyle, ChangeView, Invalidated, gpuVars
  <2> QED BY <2>1, MirrorUntouched
<1>4. CASE InGL /\ GLStep
  <2>1. UNCHANGED <<mirror, gpu, chunks, drawn, since, backend, pushed, born, resets, resetVersion>>
    BY <1>4 DEF InGL, gpuVars, GLStep, GLFrame, FrameIdle, FrameRefused, FrameCopies, FrameScans,
                WorkerStep, ResultArrives, MayRefresh, storeVars
  <2> QED BY <2>1, MirrorUntouched
<1>5. CASE InGpu /\ (GpuStep \/ Click)
  <2>1. ASSUME NEW elapsed \in BOOLEAN, GpuFrame(elapsed) \/ DeviceAcquired(elapsed)
        PROVE  MirrorInv'
    BY <1>5, <2>1, FrameKeepsMirror DEF InGpu, GpuFrame, DeviceAcquired
  <2>2. CASE InitFails \/ PickAnswered \/ Click
    <3>1. UNCHANGED <<mirror, gpu, chunks, drawn, since, backend, pushed, born, resets, resetVersion>>
      BY <1>5, <2>2 DEF InGpu, InitFails, PickAnswered, Click, storeVars
    <3> QED BY <3>1, MirrorUntouched
  <2> QED BY <1>5, <2>1, <2>2 DEF GpuStep
<1>6. ASSUME NEW b, Detected(b) \/ NewBackend(b) \/ FallBack PROVE MirrorInv'
  <2>1. UNCHANGED <<pushed, born, resets, resetVersion>>
    BY <1>6 DEF Detected, NewBackend, FallBack, storeVars
  <2>2. StoreOK'
    BY <2>1 DEF MirrorInv, StoreOK
  <2>3. CASE \E c : Remount(c)
    BY <2>2, <2>3, FreshMirror
  <2>4. CASE UNCHANGED <<backend, gpuVars>>
    BY <2>1, <2>4, MirrorUntouched DEF gpuVars
  <2> QED BY <1>6, <2>3, <2>4 DEF Detected, NewBackend, FallBack
<1>7. CASE UNCHANGED vars
  BY <1>7, MirrorUntouched DEF vars, storeVars, gpuVars
<1> QED BY <1>1, <1>2, <1>3, <1>4, <1>5, <1>6, <1>7 DEF Next

(* Once a frame of the WebGPU scene has seen a reset, the GPU holds and    *)
(* shows nothing from before it (WebGPUPointCloudScene's handshake drops   *)
(* the chunks that waited), whatever ingest, new scenes and refused        *)
(* devices come in between.                                                *)
THEOREM NothingSurvivesAReset == Spec => []NothingFromBeforeReset
<1>1. MirrorInv => NothingFromBeforeReset
  <2> SUFFICES ASSUME MirrorInv, gpu.seen = resets,
                      NEW p \in Valid(mirror) \cup {v.point : v \in drawn}
               PROVE  p > born
    BY DEF NothingFromBeforeReset
  <2>1. Within(mirror, born, pushed) /\ \A v \in drawn : born < v.point
    BY DEF MirrorInv, MirrorOK
  <2> QED BY <2>1 DEF Valid, Within
<1> QED BY <1>1, InitMirror, NextMirror, PTL DEF Spec

(* Between frames, the GPU's ring with the chunks that wait has every      *)
(* point the CPU's ring keeps of those after the last one it lost, and     *)
(* nothing else once the ring keeps no others: writeIncrementalChunk's two *)
(* parts and uploadFullData place them, over wraps, resets, chunks cut     *)
(* short and chunks written twice.                                         *)
THEOREM MirrorIsFaithful == Spec => []MirrorFaithful
<1>1. MirrorInv => MirrorFaithful
  <2> SUFFICES ASSUME MirrorInv, gpu.uploaded
               PROVE  LET w == Valid(WriteAll(mirror, chunks))
                      IN /\ Vouched \subseteq w
                         /\ gpu.seen = resets /\ Vouched = Kept => w = Kept
    BY DEF MirrorFaithful
  <2> DEFINE last == pushed - Len(chunks)
             w == WriteAll(mirror, chunks)
  <2>1. /\ StoreOK /\ RingOK(mirror) /\ chunks \in Seq(Nat) /\ born \in Int /\ pushed \in Int
        /\ since \in Nat /\ Placed(mirror, since, last)
        /\ \A i \in DOMAIN chunks : since < last + i => chunks[i] = last + i
    BY DEF MirrorInv, MirrorOK, StoreOK
  <2>2. last \in Int /\ last + Len(chunks) = pushed
    BY <2>1
  <2> HIDE DEF last
  <2>3. RingOK(w) /\ Placed(w, since, pushed)
    BY <2>1, <2>2, WriteOK
  <2>4. gpu.seen = resets => Within(w, born, pushed)
    <3>1. gpu.seen = resets => /\ Within(mirror, born, pushed)
                               /\ \A i \in DOMAIN chunks : born < chunks[i] /\ chunks[i] <= pushed
      BY DEF MirrorInv, MirrorOK
    <3> QED BY <2>1, <3>1, WriteOK
  <2> HIDE DEF w
  <2>5. /\ \A p \in Kept : since < p => p \in Valid(w)
        /\ Within(w, born, pushed) /\ (\A p \in Kept : since < p) => Valid(w) = Kept
    BY <2>1, <2>3, PlacedKept
  <2>6. \A p \in Kept : p > since <=> since < p
    BY <2>1 DEF Kept, Larger, StoreOK
  <2> QED BY <2>4, <2>5, <2>6 DEF Vouched, w
<1> QED BY <1>1, InitMirror, NextMirror, PTL DEF Spec
=============================================================================
