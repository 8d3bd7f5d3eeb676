----------------------------- MODULE IndexSets -----------------------------
(***************************************************************************)
(* Lemmas about integers, indexes and their number that the proofs of      *)
(* several components rest on: remainders and products, least elements,    *)
(* and the indexes and elements of a sequence that is appended to or taken *)
(* from.                                                                   *)
(***************************************************************************)
EXTENDS Listings, FiniteSetTheorems, SequenceTheorems, TLAPS

-----------------------------------------------------------------------------
(* Integers                                                                *)

(* A value below the modulus is its own remainder, also one lap later.     *)
LEMMA ModBelow ==
  ASSUME NEW c \in Nat \ {0}, NEW a \in 0..(c - 1)
  PROVE  a % c = a /\ (c + a) % c = a
  BY SMT

(* A remainder is below the modulus.                                       *)
LEMMA ModRange ==
  ASSUME NEW c \in Nat \ {0}, NEW a \in Nat
  PROVE  a % c \in 0..(c - 1)
  BY SMT

(* Division with remainder                                                 *)
LEMMA DivMod ==
  ASSUME NEW c \in Nat \ {0}, NEW a \in Int
  PROVE  a \div c \in Int /\ a % c \in 0..(c - 1) /\ a = c * (a \div c) + (a % c)
  BY SMT

(* A positive multiple of c is c or more.                                  *)
LEMMA AtLeastOnce ==
  ASSUME NEW c \in Nat \ {0}, NEW k \in Int, k >= 1
  PROVE  c * k >= c
  BY SMT

(* A remainder is unique.                                                  *)
LEMMA ModUnique ==
  ASSUME NEW c \in Nat \ {0}, NEW a \in Int, NEW q \in Int, NEW r \in 0..(c - 1), a = c * q + r
  PROVE  a % c = r
<1> DEFINE m == a % c
           p == a \div c
<1>1. p \in Int /\ m \in 0..(c - 1) /\ a = c * p + m
  BY DivMod
<1> SUFFICES m = r
  OBVIOUS
<1> HIDE DEF m, p
<1> DEFINE x == c * q
           y == c * p
<1>2. x \in Int /\ y \in Int /\ c * (q - p) = x - y /\ c * (p - q) = y - x
  BY <1>1, SMT
<1>3. a = x + r /\ a = y + m
  BY <1>1
<1> HIDE DEF x, y
<1>4. CASE q - p >= 1
  <2>1. c * (q - p) >= c BY <1>1, <1>4, AtLeastOnce
  <2>2. x - y >= c BY <1>2, <2>1
  <2> QED BY <1>1, <1>2, <1>3, <2>2
<1>5. CASE p - q >= 1
  <2>1. c * (p - q) >= c BY <1>1, <1>5, AtLeastOnce
  <2>2. y - x >= c BY <1>2, <2>1
  <2> QED BY <1>1, <1>2, <1>3, <2>2
<1>6. CASE p = q
  <2>1. x = y BY <1>6 DEF x, y
  <2> QED BY <1>1, <1>2, <1>3, <2>1
<1>7. q - p >= 1 \/ p - q >= 1 \/ p = q BY <1>1
<1> QED BY <1>4, <1>5, <1>6, <1>7

(* A remainder can be taken before or after an addition.                   *)
LEMMA ModAdd ==
  ASSUME NEW c \in Nat \ {0}, NEW a \in Int, NEW b \in Int
  PROVE  ((a % c) + b) % c = (a + b) % c
<1> DEFINE m == a % c
           p == a \div c
           r == (m + b) % c
           q == (m + b) \div c
<1>1. p \in Int /\ m \in Int /\ a = c * p + m
  BY DivMod
<1> HIDE DEF m, p
<1>2. q \in Int /\ r \in 0..(c - 1) /\ m + b = c * q + r
  <2> DEFINE k == m + b
  <2>1. k \in Int BY <1>1
  <2> HIDE DEF k
  <2>2. k \div c \in Int /\ k % c \in 0..(c - 1) /\ k = c * (k \div c) + (k % c)
    BY <2>1, DivMod
  <2> QED BY <2>2 DEF k
<1> HIDE DEF r, q
<1> DEFINE x == c * p
           y == c * q
<1>3. x \in Int /\ y \in Int /\ c * (p + q) = x + y
  BY <1>1, <1>2, SMT
<1>4. a + b = c * (p + q) + r
  <2>1. a = x + m /\ m + b = y + r BY <1>1, <1>2
  <2> HIDE DEF x, y
  <2> QED BY <1>1, <1>2, <1>3, <2>1
<1>5. p + q \in Int /\ a + b \in Int BY <1>1, <1>2
<1>6. (a + b) % c = r
  BY <1>2, <1>4, <1>5, ModUnique
<1> QED BY <1>6 DEF r, m

(* Products with one factor in common                                      *)
LEMMA Ordered ==
  ASSUME NEW x \in Int, NEW y \in Int, x <= y, NEW c \in Nat
  PROVE  c * x <= c * y
  BY SMT

(* The same of a strict order                                              *)
LEMMA Strictly ==
  ASSUME NEW x \in Int, NEW y \in Int, x < y, NEW c \in Nat \ {0}
  PROVE  c * x < c * y
  BY SMT

(* The quotient that goes with a remainder                                 *)
LEMMA Quotient ==
  ASSUME NEW c \in Nat \ {0}, NEW q \in Int, NEW r \in 0..(c - 1), NEW a \in Int, a = c * q + r
  PROVE  a \div c = q
<1> DEFINE p == a \div c
<1>1. p \in Int /\ a % c = r /\ a = c * p + (a % c) BY DivMod, ModUnique
<1> HIDE DEF p
<1> DEFINE x == c * q
           y == c * p
<1>2. x \in Int /\ y \in Int BY <1>1
<1>3. a = x + r /\ a = y + r BY <1>1
<1>4. p < q => y < x BY <1>1, Strictly
<1>5. q < p => x < y BY <1>1, Strictly
<1> HIDE DEF x, y
<1>6. x = y BY <1>2, <1>3
<1>7. ~(p < q) /\ ~(q < p) BY <1>2, <1>4, <1>5, <1>6
<1>8. p = q BY <1>1, <1>7
<1> QED BY <1>8 DEF p

(* A finite, nonempty set of integers has a least element (by the          *)
(* well-foundedness of strict inclusion on its down-sets).                 *)
LEMMA LeastExists ==
  ASSUME NEW T \in SUBSET Int, T # {}, IsFiniteSet(T)
  PROVE  \E x \in T : \A y \in T : x <= y
<1> DEFINE Below(x) == {z \in T : z <= x}
           Cones == {Below(x) : x \in T}
<1>1. PICK C \in Cones : \A D \in Cones : ~(<<D, C>> \in StrictSubsetOrdering(T))
  <2>1. IsWellFoundedOn(StrictSubsetOrdering(T), SUBSET T)
    BY FS_StrictSubsetOrderingWellFounded, FS_FiniteSubsetsOfFinite
  <2>2. Cones \subseteq SUBSET T /\ Cones # {}
    OBVIOUS
  <2> HIDE DEF Cones
  <2> QED BY <2>1, <2>2, WFMin
<1>2. PICK x \in T : C = Below(x)
  OBVIOUS
<1>3. ASSUME NEW y \in T, ~(x <= y) PROVE FALSE
  <2>1. x \in Int /\ y \in Int /\ y < x
    BY <1>3
  <2>2. Below(y) \subseteq Below(x)
    <3>1. ASSUME NEW z \in T, z <= y PROVE z <= x
      <4>1. z \in Int
        OBVIOUS
      <4> QED BY <2>1, <3>1, <4>1
    <3> QED BY <3>1
  <2>3. x \in Below(x) /\ x \notin Below(y)
    BY <2>1
  <2>4. <<Below(y), Below(x)>> \in StrictSubsetOrdering(T)
    <3>1. Below(y) \in SUBSET T /\ Below(x) \in SUBSET T /\ Below(y) # Below(x)
      BY <2>3
    <3> HIDE DEF Below
    <3> QED BY <3>1, <2>2 DEF StrictSubsetOrdering
  <2>5. Below(y) \in Cones
    OBVIOUS
  <2> QED BY <1>1, <1>2, <2>4, <2>5
<1> QED BY <1>3

(* The same of integers between two bounds                                 *)
LEMMA LeastOf ==
  ASSUME NEW a \in Int, NEW b \in Int, NEW T \in SUBSET (a..b), T # {}
  PROVE  \E x \in T : \A y \in T : x <= y
<1>1. T \in SUBSET Int OBVIOUS
<1>2. IsFiniteSet(a..b) BY FS_Interval
<1>3. IsFiniteSet(T) BY <1>2, FS_Subset
<1> QED BY <1>1, <1>3, LeastExists

(* A set of indexes has a greatest member.                                 *)
LEMMA GreatestExists ==
  ASSUME NEW n \in Nat, NEW T \in SUBSET (1..n), T # {}
  PROVE  \E x \in T : \A y \in T : y <= x
<1> DEFINE S == {z \in 0..n : \A y \in T : y <= z}
<1>1. n \in S OBVIOUS
<1>2. S \in SUBSET Int /\ S # {} /\ S \in SUBSET (0..n)
  BY <1>1
<1>3. IsFiniteSet(0..n) BY FS_Interval
<1>4. IsFiniteSet(S) BY <1>2, <1>3, FS_Subset
<1> HIDE DEF S
<1>5. PICK x \in S : \A z \in S : x <= z
  BY <1>2, <1>4, LeastExists
<1>6. x \in T
  <2> SUFFICES ASSUME x \notin T PROVE FALSE
    OBVIOUS
  <2>1. \A y \in T : y <= x - 1
    <3> TAKE y \in T
    <3>1. y <= x /\ x \in Int BY <1>2, <1>5 DEF S
    <3> QED BY <3>1
  <2>2. x - 1 \in 0..n
    <3>1. PICK y \in T : TRUE OBVIOUS
    <3>2. x \in 0..n /\ y \in 1..n /\ y <= x - 1 BY <1>2, <1>5, <2>1, <3>1
    <3> QED BY <3>2
  <2>3. x - 1 \in S BY <2>1, <2>2 DEF S
  <2> QED BY <1>2, <1>5, <2>3
<1> QED BY <1>6 DEF S

-----------------------------------------------------------------------------
(* Indexes of a sequence                                                   *)

(* Another element at the end of a sequence *)
LEMMA OneMore ==
  ASSUME NEW n \in Nat, NEW A \in SUBSET (1..n)
  PROVE  /\ Cardinality(A) \in Nat
         /\ Cardinality(A \cup {n + 1}) = Cardinality(A) + 1
<1>1. IsFiniteSet(1..n)
  BY FS_Interval
<1>2. IsFiniteSet(A)
  BY <1>1, FS_Subset
<1>3. n + 1 \notin A
  OBVIOUS
<1> QED BY <1>2, <1>3, FS_AddElement, FS_CardinalityType

(* Two finite sets that a function matches one to one *)
LEMMA SameNumber ==
  ASSUME NEW B, NEW C, IsFiniteSet(B), NEW f \in [B -> C],
         \A x, y \in B : f[x] = f[y] => x = y,
         \A z \in C : \E x \in B : f[x] = z
  PROVE  IsFiniteSet(C) /\ Cardinality(B) = Cardinality(C)
<1>1. f \in Bijection(B, C)
  BY DEF Bijection, Injection, Surjection, IsInjective
<1>2. ExistsBijection(B, C)
  BY <1>1 DEF ExistsBijection
<1> QED BY <1>2, FS_Bijection

(* An element of a sequence taken away: those after it move down by one.   *)
LEMMA OneRemoved ==
  ASSUME NEW n \in Nat \ {0}, NEW A \in SUBSET (1..n), NEW k \in 1..n,
         NEW B, B = {i \in 1..(n - 1) : (IF i < k THEN i ELSE i + 1) \in A}
  PROVE  Cardinality(B) = Cardinality(A) - (IF k \in A THEN 1 ELSE 0)
<1> DEFINE C == A \ {k}
           f == [i \in B |-> IF i < k THEN i ELSE i + 1]
<1>1. IsFiniteSet(A) /\ IsFiniteSet(C) /\ Cardinality(A) \in Nat
  BY FS_Interval, FS_Subset, FS_CardinalityType, 1 \in Int, n \in Int
<1>2. IsFiniteSet(B)
  BY FS_Interval, FS_Subset, 1 \in Int, n - 1 \in Int, B \subseteq 1..(n - 1)
<1>3. f \in [B -> C]
  OBVIOUS
<1>4. \A i, j \in B : f[i] = f[j] => i = j
  OBVIOUS
<1>5. ASSUME NEW c \in C PROVE \E i \in B : f[i] = c
  <2>1. CASE c < k
    <3>1. c \in B /\ f[c] = c BY <2>1
    <3> QED BY <3>1
  <2>2. CASE c > k
    <3>1. c - 1 \in B /\ f[c - 1] = c BY <2>2
    <3> QED BY <3>1
  <2> QED BY <2>1, <2>2
<1>6. k \notin A => C = A
  OBVIOUS
<1>7. k \in A => Cardinality(C) = Cardinality(A) - 1
  BY <1>1, FS_RemoveElement
<1> HIDE DEF C, f
<1>8. Cardinality(B) = Cardinality(C)
  BY <1>2, <1>3, <1>4, <1>5, SameNumber
<1>9. CASE k \in A BY <1>7, <1>8, <1>9
<1>10. CASE k \notin A BY <1>1, <1>6, <1>8, <1>10
<1> QED BY <1>9, <1>10

(* The first element of a sequence taken away *)
LEMMA OneLess ==
  ASSUME NEW n \in Nat \ {0}, NEW A \in SUBSET (1..n),
         NEW B, B = {i \in 1..(n - 1) : i + 1 \in A}
  PROVE  Cardinality(B) = Cardinality(A) - (IF 1 \in A THEN 1 ELSE 0)
<1>1. B = {i \in 1..(n - 1) : (IF i < 1 THEN i ELSE i + 1) \in A}
  OBVIOUS
<1>2. 1 \in 1..n
  OBVIOUS
<1> QED BY <1>1, <1>2, OneRemoved

(* The indexes of a listing at which certain elements are listed           *)
LEMMA ListedOnce ==
  ASSUME NEW n \in Nat, NEW P, NEW order \in Bijection(1..n, P), NEW W \in SUBSET P
  PROVE  Cardinality({i \in 1..n : order[i] \in W}) = Cardinality(W)
<1> DEFINE B == {i \in 1..n : order[i] \in W}
           f == [i \in B |-> order[i]]
<1>1. order \in [1..n -> P] /\ (\A i, j \in 1..n : order[i] = order[j] => i = j)
      /\ \A z \in P : \E i \in 1..n : order[i] = z
  BY DEF Bijection, Injection, Surjection, IsInjective
<1>2. IsFiniteSet(B)
  BY FS_Interval, FS_Subset, 1 \in Int, n \in Int, B \subseteq 1..n
<1>3. f \in [B -> W] /\ (\A i, j \in B : f[i] = f[j] => i = j)
      /\ \A z \in W : \E i \in B : f[i] = z
  BY <1>1
<1> HIDE DEF B, f
<1>4. Cardinality(B) = Cardinality(W)
  BY <1>2, <1>3, SameNumber
<1> QED BY <1>4 DEF B

(* Counting the members of S up to w                                       *)
LEMMA CountedUpTo ==
  ASSUME NEW n \in Nat, NEW S \in SUBSET (1..n), NEW u \in S, \A v \in S : u <= v
  PROVE  /\ Cardinality({v \in 1..u : v \in S}) = 1
         /\ \A w \in S : w # u => Cardinality({v \in 1..w : v \in S}) >= 2
         /\ Cardinality({v \in 1..n : v \in S}) >= 1
         /\ \A w \in 1..n : Cardinality({v \in 1..w : v \in S}) \in Nat
<1>1. {v \in 1..u : v \in S} = {u}
  OBVIOUS
<1>2. \A w \in 1..n : IsFiniteSet({v \in 1..w : v \in S})
                     /\ Cardinality({v \in 1..w : v \in S}) \in Nat
  <2> TAKE w \in 1..n
  <2>1. IsFiniteSet(1..w) BY FS_Interval
  <2>2. {v \in 1..w : v \in S} \in SUBSET (1..w) OBVIOUS
  <2> QED BY <2>1, <2>2, FS_Subset, FS_CardinalityType
<1>3. ASSUME NEW w \in S, w # u PROVE Cardinality({v \in 1..w : v \in S}) >= 2
  <2>1. {u, w} \subseteq {v \in 1..w : v \in S}
    BY <1>3
  <2>2. IsFiniteSet({u}) /\ Cardinality({u}) = 1 BY FS_Singleton
  <2>3. Cardinality({u} \cup {w}) = 2 /\ {u} \cup {w} = {u, w} BY <1>3, <2>2, FS_AddElement
  <2>4. w \in 1..n OBVIOUS
  <2>5. Cardinality({u, w}) <= Cardinality({v \in 1..w : v \in S})
    BY <1>2, <2>1, <2>4, FS_Subset
  <2> QED BY <1>2, <2>3, <2>4, <2>5
<1>4. Cardinality({v \in 1..n : v \in S}) >= 1
  <2>1. n \in 1..n /\ {u} \subseteq {v \in 1..n : v \in S} OBVIOUS
  <2>2. Cardinality({u}) <= Cardinality({v \in 1..n : v \in S}) BY <1>2, <2>1, FS_Subset
  <2> QED BY <1>2, <2>1, <2>2, FS_Singleton
<1> QED BY <1>1, <1>2, <1>3, <1>4, FS_Singleton

(* The members of a set of indexes have a first, a second and so on.       *)
LEMMA NthExists ==
  ASSUME NEW n \in Nat, NEW I \in SUBSET (1..n), NEW k \in 1..Cardinality(I)
  PROVE  \E i \in I : Cardinality({j \in I : j <= i}) = k
<1> DEFINE UpTo(i) == {j \in I : j <= i}
           m == Cardinality(I)
           f == [i \in I |-> Cardinality(UpTo(i))]
           C == {f[i] : i \in I}
<1>1. IsFiniteSet(I) /\ m \in Nat
  <2>1. IsFiniteSet(1..n) BY FS_Interval
  <2> QED BY <2>1, FS_Subset, FS_CardinalityType
<1>2. \A i \in I : IsFiniteSet(UpTo(i)) /\ Cardinality(UpTo(i)) \in 1..m
  <2> TAKE i \in I
  <2>1. UpTo(i) \in SUBSET I /\ i \in UpTo(i) OBVIOUS
  <2> HIDE DEF UpTo
  <2>2. IsFiniteSet(UpTo(i)) /\ Cardinality(UpTo(i)) <= m BY <1>1, <2>1, FS_Subset
  <2>3. Cardinality(UpTo(i)) \in Nat BY <2>2, FS_CardinalityType
  <2>4. Cardinality(UpTo(i)) # 0 BY <2>1, <2>2, FS_EmptySet
  <2> QED BY <1>1, <2>2, <2>3, <2>4
<1>3. ASSUME NEW i \in I, NEW j \in I, i < j PROVE f[i] # f[j]
  <2>1. UpTo(i) \in SUBSET UpTo(j) /\ j \in UpTo(j) /\ j \notin UpTo(i)
    <3>1. i \in Int /\ j \in Int OBVIOUS
    <3>2. \A v \in I : v <= i => v <= j
      <4> TAKE v \in I
      <4>1. v \in Int OBVIOUS
      <4> QED BY <1>3, <3>1, <4>1
    <3>3. j <= j /\ ~(j <= i) BY <1>3, <3>1
    <3> QED BY <3>2, <3>3
  <2>2. IsFiniteSet(UpTo(j)) BY <1>2
  <2>3. f[i] = Cardinality(UpTo(i)) /\ f[j] = Cardinality(UpTo(j)) OBVIOUS
  <2> HIDE DEF UpTo, f
  <2> QED BY <2>1, <2>2, <2>3, FS_Subset
<1>4. f \in [I -> C] /\ C \in SUBSET (1..m)
  BY <1>2
<1>5. \A i, j \in I : f[i] = f[j] => i = j
  <2> TAKE i, j \in I
  <2>1. i < j \/ j < i \/ i = j OBVIOUS
  <2> QED BY <1>3, <2>1
<1>6. \A c \in C : \E i \in I : f[i] = c OBVIOUS
<1> HIDE DEF f, C, m
<1>7. Cardinality(C) = m
  BY <1>1, <1>4, <1>5, <1>6, SameNumber DEF m
<1>8. IsFiniteSet(1..m) /\ Cardinality(1..m) = m
  BY <1>1, FS_Interval
<1>9. C = 1..m
  BY <1>4, <1>7, <1>8, FS_Subset
<1>10. PICK i \in I : f[i] = k
  BY <1>6, <1>9 DEF m
<1> QED BY <1>10 DEF f

-----------------------------------------------------------------------------
(* The elements of a sequence                                              *)

(* The elements of a sequence over S are among S.                          *)
LEMMA RangeIs == ASSUME NEW s, NEW S, s \in Seq(S)
                 PROVE  Range(s) = {s[i] : i \in 1..Len(s)} /\ Range(s) \subseteq S
BY DEF Range

(* The empty sequence has none.                                            *)
LEMMA EmptyRange == Range(<<>>) = {}
BY DEF Range

(* One appended is one more.                                               *)
LEMMA AppendedRange ==
  ASSUME NEW S, NEW s \in Seq(S), NEW x \in S
  PROVE  Append(s, x) \in Seq(S) /\ Range(Append(s, x)) = Range(s) \cup {x}
<1>1. /\ Append(s, x) \in Seq(S) /\ Len(Append(s, x)) = Len(s) + 1
      /\ \A i \in 1..Len(s) : Append(s, x)[i] = s[i]
      /\ Append(s, x)[Len(s) + 1] = x /\ Len(s) \in Nat
  BY AppendProperties
<1> HIDE DEF Range
<1>2. /\ Range(Append(s, x)) = {Append(s, x)[i] : i \in 1..(Len(s) + 1)}
      /\ Range(s) = {s[i] : i \in 1..Len(s)}
  BY <1>1, RangeIs
<1> QED BY <1>1, <1>2

(* They are the first and those of the rest.                               *)
LEMMA TakenRange ==
  ASSUME NEW S, NEW s \in Seq(S), s # <<>>
  PROVE  /\ Head(s) \in Range(s) /\ Head(s) \in S /\ Tail(s) \in Seq(S)
         /\ Range(s) = {Head(s)} \cup Range(Tail(s))
         /\ Len(Tail(s)) = Len(s) - 1
<1>1. /\ Tail(s) \in Seq(S) /\ Len(Tail(s)) = Len(s) - 1 /\ Len(s) \in Nat \ {0}
      /\ \A i \in 1..(Len(s) - 1) : Tail(s)[i] = s[i + 1]
      /\ Head(s) = s[1] /\ Head(s) \in S
  BY HeadTailProperties, EmptySeq
<1>2. /\ Range(s) = {s[i] : i \in 1..Len(s)}
      /\ Range(Tail(s)) = {Tail(s)[i] : i \in 1..(Len(s) - 1)}
  BY <1>1, RangeIs
<1>3. ASSUME NEW i \in 1..Len(s) PROVE s[i] \in {Head(s)} \cup Range(Tail(s))
  <2>1. CASE i = 1 BY <2>1, <1>1
  <2>2. CASE i # 1
    <3>1. i - 1 \in 1..(Len(s) - 1) /\ s[i] = Tail(s)[i - 1] BY <2>2, <1>1
    <3> QED BY <3>1, <1>2
  <2> QED BY <2>1, <2>2
<1>4. \A i \in 1..(Len(s) - 1) : i + 1 \in 1..Len(s) /\ Tail(s)[i] = s[i + 1]
  BY <1>1
<1> QED BY <1>1, <1>2, <1>3, <1>4

(* Two sequences have those of each.                                       *)
LEMMA JoinedRange ==
  ASSUME NEW S, NEW s \in Seq(S), NEW t \in Seq(S)
  PROVE  s \o t \in Seq(S) /\ Range(s \o t) = Range(s) \cup Range(t)
BY ConcatProperties, RangeConcatenation

-----------------------------------------------------------------------------
(* Filtered sequences                                                      *)

(* The n-th of a set of indexes has n up to it.                            *)
LEMMA NthIs ==
  ASSUME NEW n \in Nat, NEW I \in SUBSET (1..n), NEW k \in 1..Cardinality(I)
  PROVE  Nth(I, k) \in I /\ Cardinality({j \in I : j <= Nth(I, k)}) = k
<1>1. \E i \in I : Cardinality({j \in I : j <= i}) = k BY NthExists
<1> QED BY <1>1 DEF Nth

(* Every index of a set has a number.                                      *)
LEMMA NthNumber ==
  ASSUME NEW n \in Nat, NEW I \in SUBSET (1..n), NEW i \in I
  PROVE  \E k \in 1..Cardinality(I) : Nth(I, k) = i
<1> DEFINE UpTo(x) == {j \in I : j <= x}
           k == Cardinality(UpTo(i))
<1>1. IsFiniteSet(I) /\ Cardinality(I) \in Nat
  <2>1. IsFiniteSet(1..n) BY FS_Interval
  <2> QED BY <2>1, FS_Subset, FS_CardinalityType
<1>2. \A x \in I : IsFiniteSet(UpTo(x)) /\ Cardinality(UpTo(x)) \in 1..Cardinality(I)
  <2> TAKE x \in I
  <2>1. UpTo(x) \in SUBSET I /\ x \in UpTo(x) OBVIOUS
  <2>2. IsFiniteSet(UpTo(x)) /\ Cardinality(UpTo(x)) <= Cardinality(I)
        /\ Cardinality(UpTo(x)) \in Nat
    BY <1>1, <2>1, FS_Subset, FS_CardinalityType
  <2>3. Cardinality(UpTo(x)) # 0 BY <2>1, <2>2, FS_EmptySet
  <2> QED BY <1>1, <2>2, <2>3
<1>3. k \in 1..Cardinality(I) BY <1>2
<1> DEFINE m == Nth(I, k)
<1>4. m \in I /\ Cardinality(UpTo(m)) = k BY <1>3, NthIs
<1> HIDE DEF m
<1>4a. Cardinality(UpTo(m)) = Cardinality(UpTo(i)) BY <1>4
<1>4b. m \in Int /\ i \in Int BY <1>4
<1>4c. \A j \in I : j \in Int OBVIOUS
<1> HIDE DEF k
<1>5. m <= i => m = i
  <2>1. ASSUME m < i PROVE FALSE
    <3>1. \A j \in UpTo(m) : j \in UpTo(i) BY <1>4b, <1>4c, <2>1
    <3>2. i \in UpTo(i) /\ i \notin UpTo(m) BY <1>4, <1>4b, <2>1
    <3>3. UpTo(m) # UpTo(i) BY <3>2
    <3>4. IsFiniteSet(UpTo(i)) BY <1>2, <1>4
    <3> HIDE DEF UpTo
    <3>5. UpTo(m) \in SUBSET UpTo(i) BY <3>1
    <3> QED BY <1>4a, <3>5, <3>1, <3>3, <3>4, FS_Subset
  <2> QED BY <1>4, <2>1
<1>6. i <= m => m = i
  <2>1. ASSUME i < m PROVE FALSE
    <3>1. \A j \in UpTo(i) : j \in UpTo(m) BY <1>4b, <1>4c, <2>1
    <3>2. m \in UpTo(m) /\ m \notin UpTo(i) BY <1>4, <1>4b, <2>1
    <3>3. UpTo(m) # UpTo(i) BY <3>2
    <3>4. IsFiniteSet(UpTo(m)) BY <1>2, <1>4
    <3> HIDE DEF UpTo
    <3>5. UpTo(i) \in SUBSET UpTo(m) BY <3>1
    <3> QED BY <1>4a, <3>5, <3>1, <3>3, <3>4, FS_Subset
  <2> QED BY <1>4, <2>1
<1>7. m = i BY <1>4b, <1>5, <1>6
<1> QED BY <1>3, <1>7 DEF m

(* The numbers of indexes grow with them.                                  *)
LEMMA NthGrows ==
  ASSUME NEW n \in Nat, NEW I \in SUBSET (1..n),
         NEW k \in 1..Cardinality(I), NEW l \in 1..Cardinality(I), k < l
  PROVE  Nth(I, k) < Nth(I, l)
<1> DEFINE UpTo(x) == {j \in I : j <= x}
           a == Nth(I, k)
           b == Nth(I, l)
<1>1. a \in I /\ b \in I /\ Cardinality(UpTo(a)) = k /\ Cardinality(UpTo(b)) = l
  BY NthIs
<1> HIDE DEF a, b
<1>2. ASSUME b <= a PROVE FALSE
  <2>0. a \in Int /\ b \in Int BY <1>1
  <2>0a. \A j \in I : j \in Int OBVIOUS
  <2>0b. \A j \in UpTo(b) : j \in UpTo(a) BY <1>2, <2>0, <2>0a
  <2>1. UpTo(b) \in SUBSET UpTo(a) /\ UpTo(a) \in SUBSET I BY <2>0b
  <2>2. IsFiniteSet(UpTo(a))
    <3>1. IsFiniteSet(1..n) BY FS_Interval
    <3>2. UpTo(a) \in SUBSET (1..n) BY <2>1
    <3> QED BY <3>1, <3>2, FS_Subset
  <2>3. Cardinality(UpTo(b)) <= Cardinality(UpTo(a)) BY <2>1, <2>2, FS_Subset
  <2> QED BY <1>1, <2>3
<1>3. a \in Int /\ b \in Int BY <1>1
<1>4. a < b BY <1>2, <1>3
<1> QED BY <1>4 DEF a, b

(* A filtered sequence is a sequence.                                      *)
LEMMA OnlySeq ==
  ASSUME NEW T, NEW s \in Seq(T), NEW S
  PROVE  /\ Only(s, S) \in Seq(T) /\ Len(Only(s, S)) \in Nat
         /\ DOMAIN Only(s, S) = 1..Len(Only(s, S))
<1> DEFINE r == Only(s, S)
           I == {i \in DOMAIN s : s[i] \in S}
           m == Cardinality(I)
<1>1. Len(s) \in Nat /\ DOMAIN s = 1..Len(s) /\ \A i \in DOMAIN s : s[i] \in T
  OBVIOUS
<1>2. I \in SUBSET (1..Len(s)) /\ \A i \in I : i \in DOMAIN s /\ s[i] \in S BY <1>1
<1>3. m \in Nat
  <2>1. IsFiniteSet(1..Len(s)) BY <1>1, FS_Interval
  <2> QED BY <1>2, <2>1, FS_Subset, FS_CardinalityType
<1>4. r = [k \in 1..m |-> s[Nth(I, k)]] BY DEF Only
<1>5. \A i \in DOMAIN s : s[i] \in S => i \in I OBVIOUS
<1> HIDE DEF I, r, m
<1>6. \A k \in 1..m : Nth(I, k) \in I BY <1>1, <1>2, NthIs DEF m
<1>7. \A k \in 1..m : r[k] = s[Nth(I, k)] /\ r[k] \in T BY <1>1, <1>2, <1>4, <1>6
<1>8. r \in Seq(T) /\ Len(r) = m /\ DOMAIN r = 1..m
  <2>1. r \in [1..m -> T] BY <1>4, <1>7
  <2> QED BY <1>3, <2>1
<1> QED BY <1>3, <1>8 DEF r

(* Where its elements were                                                 *)
LEMMA OnlyPlaces ==
  ASSUME NEW T, NEW s \in Seq(T), NEW S
  PROVE  \E f \in [DOMAIN Only(s, S) -> DOMAIN s] :
           /\ \A k \in DOMAIN Only(s, S) : Only(s, S)[k] = s[f[k]] /\ s[f[k]] \in S
           /\ \A k, l \in DOMAIN Only(s, S) : k < l => f[k] < f[l]
           /\ \A i \in DOMAIN s : s[i] \in S => \E k \in DOMAIN Only(s, S) : f[k] = i
<1> DEFINE r == Only(s, S)
           I == {i \in DOMAIN s : s[i] \in S}
           m == Cardinality(I)
           f == [k \in 1..m |-> Nth(I, k)]
<1>1. Len(s) \in Nat /\ DOMAIN s = 1..Len(s) /\ \A i \in DOMAIN s : s[i] \in T
  OBVIOUS
<1>2. I \in SUBSET (1..Len(s)) /\ \A i \in I : i \in DOMAIN s /\ s[i] \in S BY <1>1
<1>3. m \in Nat
  <2>1. IsFiniteSet(1..Len(s)) BY <1>1, FS_Interval
  <2> QED BY <1>2, <2>1, FS_Subset, FS_CardinalityType
<1>4. r = [k \in 1..m |-> s[Nth(I, k)]] BY DEF Only
<1>5. \A i \in DOMAIN s : s[i] \in S => i \in I OBVIOUS
<1> HIDE DEF I, r, m
<1>6. \A k \in 1..m : Nth(I, k) \in I BY <1>1, <1>2, NthIs DEF m
<1>7. \A k \in 1..m : r[k] = s[Nth(I, k)] /\ r[k] \in T BY <1>1, <1>2, <1>4, <1>6
<1>8. r \in Seq(T) /\ Len(r) = m /\ DOMAIN r = 1..m
  <2>1. r \in [1..m -> T] BY <1>4, <1>7
  <2> QED BY <1>3, <2>1
<1>9. f \in [1..m -> DOMAIN s] BY <1>2, <1>6
<1>9a. \A k \in 1..m : f[k] = Nth(I, k) OBVIOUS
<1>10. \A k, l \in 1..m : k < l => f[k] < f[l]
  <2> TAKE k, l \in 1..m
  <2> HAVE k < l
  <2>1. Nth(I, k) < Nth(I, l) BY <1>1, <1>2, NthGrows DEF m
  <2> QED BY <2>1
<1>11. \A i \in DOMAIN s : s[i] \in S => \E k \in 1..m : f[k] = i
  <2> TAKE i \in DOMAIN s
  <2> HAVE s[i] \in S
  <2>1. \E k \in 1..m : Nth(I, k) = i BY <1>1, <1>2, <1>5, NthNumber DEF m
  <2> QED BY <2>1
<1>12. \A k \in 1..m : r[k] = s[f[k]] /\ s[f[k]] \in S BY <1>2, <1>6, <1>7
<1> HIDE DEF f
<1>13. \E g \in [DOMAIN r -> DOMAIN s] :
         /\ \A k \in DOMAIN r : r[k] = s[g[k]] /\ s[g[k]] \in S
         /\ \A k, l \in DOMAIN r : k < l => g[k] < g[l]
         /\ \A i \in DOMAIN s : s[i] \in S => \E k \in DOMAIN r : g[k] = i
  <2>1. f \in [DOMAIN r -> DOMAIN s] BY <1>8, <1>9
  <2>2. \A k \in DOMAIN r : r[k] = s[f[k]] /\ s[f[k]] \in S BY <1>8, <1>12
  <2>3. \A k, l \in DOMAIN r : k < l => f[k] < f[l] BY <1>8, <1>10
  <2>4. \A i \in DOMAIN s : s[i] \in S => \E k \in DOMAIN r : f[k] = i BY <1>8, <1>11
  <2> QED BY <2>1, <2>2, <2>3, <2>4, Zenon
<1> QED BY <1>13 DEF r

(* Its elements                                                            *)
LEMMA OnlyRange ==
  ASSUME NEW T, NEW s \in Seq(T), NEW S
  PROVE  Range(Only(s, S)) = Range(s) \cap S
<1> DEFINE r == Only(s, S)
<1>1. PICK f \in [DOMAIN r -> DOMAIN s] :
        /\ \A k \in DOMAIN r : r[k] = s[f[k]] /\ s[f[k]] \in S
        /\ \A i \in DOMAIN s : s[i] \in S => \E k \in DOMAIN r : f[k] = i
  BY OnlyPlaces
<1> HIDE DEF r
<1> QED BY <1>1 DEF Range, r

(* It has each of them once if the sequence has, and its length is at most *)
(* the sequence's.                                                         *)
LEMMA OnlyOnce ==
  ASSUME NEW T, NEW s \in Seq(T), NEW S, \A i, j \in DOMAIN s : s[i] = s[j] => i = j
  PROVE  \A i, j \in DOMAIN Only(s, S) : Only(s, S)[i] = Only(s, S)[j] => i = j
<1> DEFINE r == Only(s, S)
<1>1. PICK f \in [DOMAIN r -> DOMAIN s] :
        /\ \A k \in DOMAIN r : r[k] = s[f[k]]
        /\ \A k, l \in DOMAIN r : k < l => f[k] < f[l]
  BY OnlyPlaces
<1>2. DOMAIN r = 1..Len(r) /\ Len(r) \in Nat /\ DOMAIN s = 1..Len(s) /\ Len(s) \in Nat
  BY OnlySeq
<1> HIDE DEF r
<1>3. ASSUME NEW i \in DOMAIN r, NEW j \in DOMAIN r, r[i] = r[j] PROVE i = j
  <2>1. f[i] = f[j] /\ f[i] \in 1..Len(s) /\ f[j] \in 1..Len(s) BY <1>1, <1>2, <1>3
  <2>2. ~(i < j) /\ ~(j < i) BY <1>1, <2>1
  <2> QED BY <1>2, <2>2
<1> QED BY <1>3 DEF r

(* Different elements of a sequence are no more than its length.           *)
LEMMA NoMoreThan ==
  ASSUME NEW S, NEW s \in Seq(S), NEW m \in Nat, NEW f,
         \A i \in 1..m : f[i] \in Range(s),
         \A i, j \in 1..m : f[i] = f[j] => i = j
  PROVE  m <= Len(s)
<1> DEFINE at(x) == CHOOSE k \in 1..Len(s) : s[k] = x
           g == [i \in 1..m |-> at(f[i])]
<1>1. Len(s) \in Nat /\ Range(s) = {s[k] : k \in 1..Len(s)} BY RangeIs
<1>2. \A i \in 1..m : at(f[i]) \in 1..Len(s) /\ s[at(f[i])] = f[i] BY <1>1
<1> HIDE DEF at
<1>3. g \in [1..m -> 1..Len(s)] BY <1>2
<1>4. \A i, j \in 1..m : g[i] = g[j] => i = j BY <1>2
<1> HIDE DEF g
<1>5. g \in Injection(1..m, 1..Len(s)) BY <1>3, <1>4 DEF Injection, IsInjective
<1>6. /\ IsFiniteSet(1..m) /\ Cardinality(1..m) = m
      /\ IsFiniteSet(1..Len(s)) /\ Cardinality(1..Len(s)) = Len(s)
  <2>1. IsFiniteSet(1..m) /\ Cardinality(1..m) = IF 1 > m THEN 0 ELSE m - 1 + 1
    BY FS_Interval
  <2>2. IsFiniteSet(1..Len(s)) /\ Cardinality(1..Len(s)) = IF 1 > Len(s) THEN 0 ELSE Len(s) - 1 + 1
    BY <1>1, FS_Interval
  <2> QED BY <1>1, <2>1, <2>2
<1> QED BY <1>5, <1>6, FS_Injection
=============================================================================
