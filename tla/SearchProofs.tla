----------------------------- MODULE SearchProofs -----------------------------
(***************************************************************************)
(* What the proofs about the searches rest on: sums of utilities and the   *)
(* bounds made of them, and stacks of frames.                              *)
(***************************************************************************)
EXTENDS UtilityLists, FootprintProofs, SequenceTheorems, WellFoundedInduction

LEMMA Constants ==
  /\ IsFiniteSet(Items) /\ Items \subseteq Nat
  /\ IsFiniteSet(Tids) /\ Tids \subseteq Nat
  /\ MaxUtility \in Nat
BY UtilityAssumption

\* The bound of a sum over transactions.
TidMax == 2 * MaxUtility * Cardinality(Items)

LEMMA TidMaxType == TidMax \in Nat
<1>1. Cardinality(Items) \in Nat /\ MaxUtility \in Nat
  BY Constants, FS_CardinalityType
<1> QED
  BY <1>1 DEF TidMax

-----------------------------------------------------------------------------
(* Sums *)

LEMMA EmptyFootprint ==
  ASSUME NEW size, NEW max
  PROVE  Footprint({}, size, max) = 0
<1>1. Bytes({}, size, max) = {}
  BY DEF Bytes
<1> QED
  BY <1>1, FS_EmptySet DEF Footprint

\* A sum is no larger over more members that are no smaller.
LEMMA FootprintCovered ==
  ASSUME NEW S, IsFiniteSet(S), NEW T \in SUBSET S, NEW max \in Nat, NEW small, NEW large,
         \A p \in T : small[p] \in Nat /\ large[p] \in Nat /\ small[p] <= large[p]
  PROVE  Footprint(T, small, max) <= Footprint(S, large, max)
<1>1. Bytes(T, small, max) \in SUBSET Bytes(S, large, max)
  BY DEF Bytes
<1>2. IsFiniteSet(Bytes(S, large, max))
  BY BytesFinite
<1> QED
  BY <1>1, <1>2, FS_Subset DEF Footprint

\* A sum is at most two others that together are enough for each of its members.
LEMMA FootprintSum ==
  ASSUME NEW S, IsFiniteSet(S), NEW T \in SUBSET S, NEW max \in Nat, NEW one, NEW other, NEW both,
         \A p \in T : one[p] \in Nat /\ other[p] \in Nat /\ both[p] \in Nat
                        /\ both[p] <= one[p] + other[p]
  PROVE  Footprint(T, both, max) <= Footprint(S, one, max) + Footprint(S, other, max)
<1> DEFINE A == Bytes(T, one, max)
           B == Bytes(T, other, max)
           C == Bytes(T, both, max)
           shift == [b \in B |-> <<b[1], one[b[1]] + b[2]>>]
           D == {shift[b] : b \in B}
<1>1. IsFiniteSet(T)
  BY FS_Subset
<1>2. IsFiniteSet(A) /\ IsFiniteSet(B) /\ IsFiniteSet(C)
  BY <1>1, BytesFinite
<1>3. IsFiniteSet(D) /\ Cardinality(D) <= Cardinality(B)
  <2>1. shift \in Surjection(B, D)
    BY DEF Surjection
  <2> HIDE DEF B, D, shift
  <2> QED
    BY <1>2, <2>1, FS_Surjection
<1>4. C \subseteq A \cup D
  <2>1. ASSUME NEW c \in C
        PROVE  c \in A \cup D
    <3>1. /\ c \in T \X (1..max) /\ c = <<c[1], c[2]>> /\ c[1] \in T /\ c[2] \in 1..max
          /\ c[2] <= both[c[1]] /\ both[c[1]] <= one[c[1]] + other[c[1]]
          /\ one[c[1]] \in Nat /\ other[c[1]] \in Nat /\ both[c[1]] \in Nat
      BY <2>1 DEF Bytes
    <3>2. CASE c[2] <= one[c[1]]
      BY <3>1, <3>2 DEF Bytes
    <3>3. CASE ~(c[2] <= one[c[1]])
      <4> DEFINE n == c[2] - one[c[1]]
                 b == <<c[1], n>>
      <4>1. n \in 1..max /\ n <= other[c[1]] /\ one[c[1]] + n = c[2]
        BY <3>1, <3>3
      <4>2. b \in B
        BY <3>1, <4>1 DEF Bytes
      <4>3. shift[b] = c
        BY <3>1, <4>1, <4>2
      <4> QED
        BY <4>2, <4>3
    <3> QED
      BY <3>2, <3>3
  <2> QED
    BY <2>1
<1> HIDE DEF A, B, C, D
<1>5. Cardinality(C) <= Cardinality(A \cup D)
  BY <1>2, <1>3, <1>4, FS_Union, FS_Subset
<1>6. /\ Cardinality(A \cup D) = Cardinality(A) + Cardinality(D) - Cardinality(A \cap D)
      /\ Cardinality(A \cap D) \in Nat /\ Cardinality(A) \in Nat /\ Cardinality(B) \in Nat
      /\ Cardinality(C) \in Nat /\ Cardinality(D) \in Nat
  BY <1>2, <1>3, FS_Union, FS_Intersection, FS_CardinalityType
<1>7. Cardinality(C) <= Cardinality(A) + Cardinality(B)
  BY <1>3, <1>5, <1>6
<1>8. /\ Footprint(T, one, max) <= Footprint(S, one, max)
      /\ Footprint(T, other, max) <= Footprint(S, other, max)
      /\ Footprint(S, one, max) \in Nat /\ Footprint(S, other, max) \in Nat
  BY FootprintMonotone, BytesFinite
<1>9. /\ Footprint(T, one, max) = Cardinality(A) /\ Footprint(T, other, max) = Cardinality(B)
      /\ Footprint(T, both, max) = Cardinality(C)
  BY DEF Footprint, A, B, C
<1> QED
  BY <1>6, <1>7, <1>8, <1>9

\* A sum depends only on the sizes of its members.
LEMMA FootprintSame ==
  ASSUME NEW S, NEW max, NEW one, NEW other, \A p \in S : one[p] = other[p]
  PROVE  Footprint(S, one, max) = Footprint(S, other, max)
<1>1. Bytes(S, one, max) = Bytes(S, other, max)
  BY DEF Bytes
<1> QED
  BY <1>1 DEF Footprint

LEMMA ItemSums ==
  ASSUME NEW d \in Databases, NEW t \in Tids, NEW S \in SUBSET Items
  PROVE  /\ ItemSum(S, d[t]) \in Nat
         /\ ItemSum(S, d[t]) <= TransactionUtility(d, t)
         /\ TransactionUtility(d, t) \in Nat
         /\ \A x \in Items \ S : ItemSum(S \cup {x}, d[t]) = ItemSum(S, d[t]) + d[t][x]
         /\ \A x \in Items : ItemSum({x}, d[t]) = d[t][x]
<1>1. IsFiniteSet(S) /\ IsFiniteSet(Items) /\ MaxUtility \in Nat
  BY Constants, FS_Subset
<1>2. d[t] \in [Items -> 0..MaxUtility]
  BY DEF Databases
<1>3. ItemSum(S, d[t]) \in Nat /\ TransactionUtility(d, t) \in Nat
  BY <1>1, BytesFinite DEF ItemSum, TransactionUtility
<1>4. ItemSum(S, d[t]) <= TransactionUtility(d, t)
  BY <1>1, FootprintMonotone DEF ItemSum, TransactionUtility
<1>5. ASSUME NEW x \in Items, x \notin S
      PROVE  ItemSum(S \cup {x}, d[t]) = ItemSum(S, d[t]) + d[t][x]
  <2>1. d[t][x] \in 0..MaxUtility
    BY <1>2
  <2> QED
    BY <1>1, <1>5, <2>1, AddMember DEF ItemSum
<1>6. ASSUME NEW x \in Items
      PROVE  ItemSum({x}, d[t]) = d[t][x]
  <2>1. d[t][x] \in 0..MaxUtility /\ {} \cup {x} = {x} /\ x \notin {}
    BY <1>2
  <2>2. IsFiniteSet({})
    BY FS_EmptySet
  <2>3. Footprint({} \cup {x}, d[t], MaxUtility) = Footprint({}, d[t], MaxUtility) + d[t][x]
    BY <1>1, <2>1, <2>2, AddMember
  <2>4. Footprint({}, d[t], MaxUtility) = 0
    BY EmptyFootprint
  <2> QED
    BY <2>1, <2>3, <2>4 DEF ItemSum
<1> QED
  BY <1>3, <1>4, <1>5, <1>6

\* The items of two sets together are worth at most both.
LEMMA ItemSumCovered ==
  ASSUME NEW d \in Databases, NEW t \in Tids, NEW S \in SUBSET Items, NEW R \in SUBSET Items,
         NEW T \in SUBSET (S \cup R)
  PROVE  ItemSum(T, d[t]) <= ItemSum(S, d[t]) + ItemSum(R, d[t])
<1> DEFINE A == Bytes(S, d[t], MaxUtility)
           B == Bytes(R, d[t], MaxUtility)
           C == Bytes(T, d[t], MaxUtility)
<1>1. IsFiniteSet(S) /\ IsFiniteSet(R) /\ MaxUtility \in Nat
  BY Constants, FS_Subset
<1>2. IsFiniteSet(A) /\ IsFiniteSet(B) /\ C \in SUBSET (A \cup B)
  <2>1. IsFiniteSet(A) /\ IsFiniteSet(B)
    BY <1>1, BytesFinite
  <2>2. C \in SUBSET (A \cup B)
    BY DEF Bytes
  <2> QED
    BY <2>1, <2>2
<1> HIDE DEF A, B, C
<1>3. /\ IsFiniteSet(A \cup B) /\ IsFiniteSet(A \cap B)
      /\ Cardinality(A \cup B) = Cardinality(A) + Cardinality(B) - Cardinality(A \cap B)
  BY <1>2, FS_Union, FS_Intersection
<1>4. IsFiniteSet(C) /\ Cardinality(C) <= Cardinality(A \cup B)
  BY <1>2, <1>3, FS_Subset
<1>5. /\ Cardinality(A) \in Nat /\ Cardinality(B) \in Nat /\ Cardinality(C) \in Nat
      /\ Cardinality(A \cap B) \in Nat /\ Cardinality(A \cup B) \in Nat
  BY <1>2, <1>3, <1>4, FS_CardinalityType
<1>6. Cardinality(C) <= Cardinality(A) + Cardinality(B)
  BY <1>3, <1>4, <1>5
<1> QED
  BY <1>6 DEF ItemSum, Footprint, A, B, C

\* The bound of sums over transactions is no bound: nothing is cut off.
LEMMA TransactionBound ==
  ASSUME NEW d \in Databases, NEW t \in Tids
  PROVE  TransactionUtility(d, t) \in 0..TidMax
<1>1. IsFiniteSet(Items) /\ MaxUtility \in Nat /\ Cardinality(Items) \in Nat
  BY Constants, FS_CardinalityType
<1> DEFINE box == Items \X (1..MaxUtility)
<1>2. /\ IsFiniteSet(1..MaxUtility) /\ Cardinality(1..MaxUtility) = MaxUtility
  BY <1>1, FS_Interval, SMTT(30)
<1>3. /\ IsFiniteSet(box) /\ Cardinality(box) = Cardinality(Items) * MaxUtility
  BY <1>1, <1>2, FS_Product, Zenon
<1>4. Bytes(Items, d[t], MaxUtility) \in SUBSET box
  BY DEF Bytes
<1> HIDE DEF box
<1>5. /\ Cardinality(Bytes(Items, d[t], MaxUtility)) <= Cardinality(Items) * MaxUtility
      /\ Cardinality(Bytes(Items, d[t], MaxUtility)) \in Nat
  BY <1>3, <1>4, FS_Subset, FS_CardinalityType
<1>6. ASSUME NEW n \in Nat, NEW m \in Nat
      PROVE  n * m <= 2 * m * n
  <2>1. n * m \in Nat /\ 2 * m * n = 2 * (n * m)
    OBVIOUS
  <2> QED
    BY <2>1
<1>7. Cardinality(Items) * MaxUtility <= TidMax /\ TidMax \in Nat
  BY <1>1, <1>6, TidMaxType DEF TidMax
<1>8. Cardinality(Items) * MaxUtility \in Nat
  BY <1>1
<1> QED
  BY <1>5, <1>7, <1>8 DEF TransactionUtility, ItemSum, Footprint

LEMMA SupportingTids ==
  ASSUME NEW d \in Databases, NEW S \in SUBSET Items
  PROVE  /\ Supporting(d, S) \in SUBSET Tids /\ IsFiniteSet(Supporting(d, S))
         /\ \A T \in SUBSET S : Supporting(d, S) \in SUBSET Supporting(d, T)
<1>1. Supporting(d, S) \in SUBSET Tids
  BY DEF Supporting
<1>2. IsFiniteSet(Supporting(d, S))
  BY <1>1, Constants, FS_Subset
<1> QED
  BY <1>1, <1>2 DEF Supporting, HasAll

\* The bound the search prunes with: TWU is at least the utility of any larger itemset.
LEMMA TwuCovers ==
  ASSUME NEW d \in Databases, NEW S \in SUBSET Items, NEW T \in SUBSET S
  PROVE  /\ Utility(d, S) \in Nat /\ Twu(d, T) \in Nat
         /\ Utility(d, S) <= Twu(d, T)
<1> DEFINE part == [t \in Tids |-> ItemSum(S, d[t])]
           whole == [t \in Tids |-> TransactionUtility(d, t)]
<1>1. /\ Supporting(d, T) \in SUBSET Tids /\ IsFiniteSet(Supporting(d, T))
      /\ Supporting(d, S) \in SUBSET Tids /\ IsFiniteSet(Supporting(d, S))
      /\ Supporting(d, S) \in SUBSET Supporting(d, T)
  BY SupportingTids
<1>2. \A t \in Supporting(d, S) : part[t] \in Nat /\ whole[t] \in Nat /\ part[t] <= whole[t]
  BY <1>1, ItemSums
<1> HIDE DEF part, whole
<1>3. Footprint(Supporting(d, S), part, TidMax) <= Footprint(Supporting(d, T), whole, TidMax)
  BY <1>1, <1>2, TidMaxType, FootprintCovered
<1>4. /\ Footprint(Supporting(d, S), part, TidMax) \in Nat
      /\ Footprint(Supporting(d, T), whole, TidMax) \in Nat
  BY <1>1, TidMaxType, BytesFinite
<1> QED
  BY <1>3, <1>4 DEF Utility, Twu, TidSum, TidMax, part, whole

-----------------------------------------------------------------------------
(* The order of items *)

Ranks(rank) == DOMAIN rank \in SUBSET Items /\ \A x \in DOMAIN rank : rank[x] \in Nat

LEMMA RankOrder ==
  ASSUME NEW rank, Ranks(rank)
  PROVE  \A x, y \in DOMAIN rank :
           /\ x # y => Before(rank, x, y) \/ Before(rank, y, x)
           /\ ~ (Before(rank, x, y) /\ Before(rank, y, x))
           /\ ~ Before(rank, x, x)
           /\ \A z \in DOMAIN rank : Before(rank, x, y) /\ Before(rank, y, z) => Before(rank, x, z)
<1>1. \A x \in DOMAIN rank : x \in Nat /\ rank[x] \in Nat
  BY Constants DEF Ranks
<1> QED
  BY <1>1 DEF Before

LEMMA LeastNumber ==
  ASSUME NEW S \in SUBSET Nat, S # {}
  PROVE  \E n \in S : \A m \in S : n <= m
<1>1. PICK n \in S : \A m \in S : <<m, n>> \notin OpToRel(<, Nat)
  BY WFMin, NatLessThanWellFounded, Zenon
<1>2. \A m \in S : ~ (m < n)
  BY <1>1 DEF OpToRel
<1> QED
  BY <1>2

\* Items have a first one.
LEMMA FirstInRank ==
  ASSUME NEW rank, Ranks(rank), NEW S \in SUBSET DOMAIN rank, S # {}
  PROVE  \E x \in S : \A y \in S \ {x} : Before(rank, x, y)
<1>1. \A x \in S : x \in Nat /\ rank[x] \in Nat
  BY Constants DEF Ranks
<1> DEFINE values == {rank[x] : x \in S}
<1>2. values \in SUBSET Nat /\ values # {}
  BY <1>1
<1>3. PICK n \in values : \A m \in values : n <= m
  <2> HIDE DEF values
  <2> QED
    BY <1>2, LeastNumber
<1> DEFINE lowest == {x \in S : rank[x] = n}
<1>4. lowest \in SUBSET Nat /\ lowest # {}
  BY <1>1, <1>3
<1>5. PICK x \in lowest : \A y \in lowest : x <= y
  <2> HIDE DEF lowest
  <2> QED
    BY <1>4, LeastNumber
<1>6. ASSUME NEW y \in S \ {x}
      PROVE  Before(rank, x, y)
  <2>1. rank[x] = n /\ n <= rank[y] /\ x \in Nat /\ y \in Nat /\ n \in Nat /\ rank[y] \in Nat
    BY <1>1, <1>3, <1>5
  <2>2. rank[y] = n => x <= y
    BY <1>5
  <2> QED
    BY <2>1, <2>2 DEF Before
<1> QED
  BY <1>5, <1>6

-----------------------------------------------------------------------------
(* Stacks *)

Members(s) == {s[i] : i \in DOMAIN s}

\* A frame pushed on a stack.
LEMMA OnStack ==
  ASSUME NEW F, NEW s \in Seq(F), NEW f \in F
  PROVE  /\ <<f>> \o s \in Seq(F) /\ <<f>> \o s # <<>>
         /\ Members(<<f>> \o s) = {f} \cup Members(s)
         /\ (<<f>> \o s)[1] = f /\ Tail(<<f>> \o s) = s
<1>1. <<f>> \in Seq(F) /\ Len(<<f>>) = 1 /\ <<f>>[1] = f
  OBVIOUS
<1> DEFINE long == <<f>> \o s
<1>2. /\ long \in Seq(F) /\ Len(long) = 1 + Len(s)
      /\ \A i \in 1 .. 1 + Len(s) : long[i] = IF i <= 1 THEN <<f>>[i] ELSE s[i - 1]
  BY <1>1, ConcatProperties
<1>3. /\ DOMAIN long = 1 .. 1 + Len(s) /\ DOMAIN s = 1 .. Len(s) /\ Len(s) \in Nat
  BY <1>2
<1> HIDE DEF long
<1>4. long[1] = f /\ \A i \in 1 .. Len(s) : long[i + 1] = s[i]
  BY <1>1, <1>2, <1>3
<1>5. Members(long) \subseteq {f} \cup Members(s)
  <2>1. ASSUME NEW i \in DOMAIN long
        PROVE  long[i] \in {f} \cup Members(s)
    <3>1. CASE i = 1
      BY <1>4, <3>1
    <3>2. CASE i # 1
      <4>1. i - 1 \in 1 .. Len(s) /\ i = (i - 1) + 1
        BY <1>3, <2>1, <3>2
      <4>2. long[i] = s[i - 1]
        BY <1>4, <4>1
      <4> QED
        BY <1>3, <4>1, <4>2 DEF Members
    <3> QED
      BY <3>1, <3>2
  <2> QED
    BY <2>1 DEF Members
<1>6. {f} \cup Members(s) \subseteq Members(long)
  <2>1. 1 \in DOMAIN long /\ \A i \in 1 .. Len(s) : i + 1 \in DOMAIN long
    BY <1>3
  <2> QED
    BY <1>3, <1>4, <2>1 DEF Members
<1>7. long # <<>>
  BY <1>2, <1>3
<1>8. Tail(long) = s
  <2>1. /\ Tail(long) \in Seq(F) /\ Len(Tail(long)) = Len(long) - 1
        /\ \A i \in 1 .. Len(Tail(long)) : Tail(long)[i] = long[i + 1]
    BY <1>2, <1>7, HeadTailProperties
  <2>2. Len(Tail(long)) = Len(s) /\ \A i \in 1 .. Len(s) : Tail(long)[i] = s[i]
    BY <1>2, <1>3, <1>4, <2>1
  <2> QED
    BY <2>1, <2>2, SeqEqual
<1> QED
  BY <1>2, <1>4, <1>5, <1>6, <1>7, <1>8 DEF long

\* Two frames at once are one after the other.
LEMMA TwoOnStack ==
  ASSUME NEW F, NEW s \in Seq(F), NEW f \in F, NEW g \in F
  PROVE  <<f, g>> \o s = <<f>> \o (<<g>> \o s)
<1> DEFINE first == <<f>>
           second == <<g>>
<1>1. first \in Seq(F) /\ second \in Seq(F)
  OBVIOUS
<1>2. first \o second = <<f, g>>
  <2> DEFINE both == <<f, g>>
             joined == first \o second
  <2>1. /\ both \in Seq(F) /\ Len(both) = 2 /\ both[1] = f /\ both[2] = g
        /\ Len(first) = 1 /\ Len(second) = 1 /\ first[1] = f /\ second[1] = g
    OBVIOUS
  <2> HIDE DEF first, second, both
  <2>2. /\ joined \in Seq(F) /\ Len(joined) = Len(first) + Len(second)
        /\ \A i \in 1 .. Len(first) + Len(second) :
             joined[i] = IF i <= Len(first) THEN first[i] ELSE second[i - Len(first)]
    BY <1>1, ConcatProperties
  <2> HIDE DEF joined
  <2>3. \A i \in 1 .. Len(joined) : joined[i] = both[i]
    BY <2>1, <2>2
  <2>4. joined = both
    BY <2>1, <2>2, <2>3, SeqEqual
  <2> QED
    BY <2>4 DEF joined, both
<1> HIDE DEF first, second
<1>3. (first \o second) \o s = first \o (second \o s)
  BY <1>1, ConcatAssociative
<1> QED
  BY <1>2, <1>3, Zenon DEF first, second

\* A stack is its top and the rest.
LEMMA TopOfStack ==
  ASSUME NEW F, NEW s \in Seq(F), s # <<>>
  PROVE  /\ s[1] \in F /\ Tail(s) \in Seq(F)
         /\ Members(s) = {s[1]} \cup Members(Tail(s))
         /\ \A f \in F : [s EXCEPT ![1] = f] = <<f>> \o Tail(s)
<1>1. /\ Tail(s) \in Seq(F) /\ Len(Tail(s)) = Len(s) - 1
      /\ \A i \in 1 .. Len(Tail(s)) : Tail(s)[i] = s[i + 1]
  BY HeadTailProperties
<1>2. Len(s) \in Nat /\ Len(s) # 0 /\ DOMAIN s = 1 .. Len(s)
  OBVIOUS
<1>3. 1 \in 1 .. Len(s) /\ s[1] \in F
  BY <1>2
<1>4. ASSUME NEW f \in F
      PROVE  [s EXCEPT ![1] = f] = <<f>> \o Tail(s)
  <2>1. /\ [s EXCEPT ![1] = f] \in Seq(F)
        /\ Len([s EXCEPT ![1] = f]) = Len(s)
        /\ \A j \in 1 .. Len(s) : [s EXCEPT ![1] = f][j] = IF j = 1 THEN f ELSE s[j]
    BY <1>3, ExceptSeq
  <2>2. <<f>> \in Seq(F) /\ Len(<<f>>) = 1 /\ <<f>>[1] = f
    OBVIOUS
  <2>3. /\ <<f>> \o Tail(s) \in Seq(F)
        /\ Len(<<f>> \o Tail(s)) = 1 + Len(Tail(s))
        /\ \A j \in 1 .. 1 + Len(Tail(s)) :
              (<<f>> \o Tail(s))[j] = IF j <= 1 THEN <<f>>[j] ELSE Tail(s)[j - 1]
    BY <1>1, <2>2, ConcatProperties
  <2>4. ASSUME NEW j \in 1 .. Len(s)
        PROVE  [s EXCEPT ![1] = f][j] = (<<f>> \o Tail(s))[j]
    <3>1. CASE j = 1
      BY <1>1, <1>2, <2>1, <2>2, <2>3, <3>1
    <3>2. CASE j # 1
      <4>1. j - 1 \in 1 .. Len(Tail(s)) /\ (j - 1) + 1 = j
        BY <1>1, <1>2, <2>4, <3>2
      <4>2. Tail(s)[j - 1] = s[j]
        BY <1>1, <4>1
      <4>3. (<<f>> \o Tail(s))[j] = Tail(s)[j - 1]
        BY <1>1, <1>2, <2>3, <3>2
      <4> QED
        BY <2>1, <3>2, <4>2, <4>3
    <3> QED
      BY <3>1, <3>2
  <2>5. Len([s EXCEPT ![1] = f]) = Len(<<f>> \o Tail(s))
    BY <1>1, <1>2, <2>1, <2>3
  <2> DEFINE one == [s EXCEPT ![1] = f]
             other == <<f>> \o Tail(s)
  <2>6. one \in Seq(F) /\ other \in Seq(F) /\ Len(one) = Len(other)
        /\ \A j \in 1 .. Len(one) : one[j] = other[j]
    BY <2>1, <2>3, <2>4, <2>5
  <2> HIDE DEF one, other
  <2>7. one = other
    BY <2>6, SeqEqual
  <2> QED
    BY <2>7 DEF one, other
<1>5. s = <<s[1]>> \o Tail(s)
  <2>1. [s EXCEPT ![1] = s[1]] = s
    OBVIOUS
  <2> QED
    BY <1>3, <1>4, <2>1
<1>6. Members(s) = {s[1]} \cup Members(Tail(s))
  BY <1>1, <1>3, <1>5, OnStack
<1> QED
  BY <1>1, <1>3, <1>4, <1>6
=============================================================================
