-------------------------- MODULE TreeMinerProofs --------------------------
(***************************************************************************)
(* What the tree miners keep, for any database, threshold, number of nodes *)
(* on a page and with failures of the pool.                                *)
(*                                                                         *)
(* A tree holds the paths of its transactions (Holds), the trees of the    *)
(* calls of mine_tree lie in the arena one behind the other (Grove), and   *)
(* what is not a candidate yet is still to come from the frame of one of   *)
(* the calls (Forest).                                                     *)
(***************************************************************************)
EXTENDS TreeMiner, SearchProofs, FunctionTheorems

-----------------------------------------------------------------------------
(* Orders of items *)

InOrder(order) ==
  order \in Seq(Items) /\ \A i, j \in 1..Len(order) : order[i] = order[j] => i = j

Earlier(order, y, x) ==
  \E i, j \in 1..Len(order) : i < j /\ order[i] = y /\ order[j] = x

UpTo(order, X, x) == {y \in X : y = x \/ Earlier(order, y, x)}

LEMMA EarlierOrder ==
  ASSUME NEW order, InOrder(order)
  PROVE  /\ Range(order) \in SUBSET Items /\ IsFiniteSet(Range(order))
         /\ Range(order) = {order[i] : i \in 1..Len(order)} /\ Len(order) \in Nat
         /\ \A x : ~Earlier(order, x, x)
         /\ \A x, y : Earlier(order, x, y) => x \in Range(order) /\ y \in Range(order)
         /\ \A x, y : ~(Earlier(order, x, y) /\ Earlier(order, y, x))
         /\ \A x, y, z : Earlier(order, x, y) /\ Earlier(order, y, z) => Earlier(order, x, z)
         /\ \A x, y \in Range(order) : x # y => Earlier(order, x, y) \/ Earlier(order, y, x)
<1>1. /\ order \in Seq(Items) /\ Len(order) \in Nat /\ DOMAIN order = 1..Len(order)
      /\ \A i \in 1..Len(order) : order[i] \in Items
  BY DEF InOrder
<1>2. Range(order) = {order[i] : i \in 1..Len(order)} /\ Range(order) \in SUBSET Items
  BY <1>1 DEF Range
<1>3. IsFiniteSet(Range(order))
  BY <1>2, Constants, FS_Subset
<1>4. \A i, j \in 1..Len(order) : order[i] = order[j] => i = j
  BY DEF InOrder
<1>5. \A x : ~Earlier(order, x, x)
  BY <1>1, <1>4 DEF Earlier
<1>6. \A x, y : Earlier(order, x, y) => x \in Range(order) /\ y \in Range(order)
  BY <1>2 DEF Earlier
<1>7. ASSUME NEW x, NEW y, NEW z, Earlier(order, x, y), Earlier(order, y, z)
      PROVE  Earlier(order, x, z)
  <2>1. PICK i, j \in 1..Len(order) : i < j /\ order[i] = x /\ order[j] = y
    BY <1>7 DEF Earlier
  <2>2. PICK k, l \in 1..Len(order) : k < l /\ order[k] = y /\ order[l] = z
    BY <1>7 DEF Earlier
  <2>3. j = k
    BY <1>4, <2>1, <2>2
  <2>4. i < l
    BY <1>1, <2>1, <2>2, <2>3
  <2> QED
    BY <2>1, <2>2, <2>4 DEF Earlier
<1>8. ASSUME NEW x \in Range(order), NEW y \in Range(order), x # y
      PROVE  Earlier(order, x, y) \/ Earlier(order, y, x)
  <2>1. PICK i \in 1..Len(order) : order[i] = x
    BY <1>2
  <2>2. PICK j \in 1..Len(order) : order[j] = y
    BY <1>2
  <2>3. i < j \/ j < i
    BY <1>1, <1>8, <2>1, <2>2
  <2> QED
    BY <2>1, <2>2, <2>3 DEF Earlier
<1>9. \A x, y : ~(Earlier(order, x, y) /\ Earlier(order, y, x))
  BY <1>5, <1>7
<1> QED
  BY <1>1, <1>2, <1>3, <1>5, <1>6, <1>7, <1>8, <1>9

\* The members of a finite set, each at the place of the number of those ahead of it.
LEMMA SortedOrder ==
  ASSUME NEW S \in SUBSET Items, NEW weight, \A x \in S : weight[x] \in Nat
  PROVE  /\ InOrder(Sorted(S, weight)) /\ Range(Sorted(S, weight)) = S
         /\ \A x, y \in S : Earlier(Sorted(S, weight), x, y) <=> Ahead(weight, x, y)
<1> DEFINE n == Cardinality(S)
           before(x) == {y \in S : Ahead(weight, y, x)}
           rank == [x \in S |-> Cardinality(before(x))]
           s == Sorted(S, weight)
<1>1. IsFiniteSet(S) /\ n \in Nat /\ \A x \in S : x \in Nat /\ weight[x] \in Nat
  BY Constants, FS_Subset, FS_CardinalityType
<1>2. /\ \A x \in S : ~Ahead(weight, x, x)
      /\ \A x, y \in S : x # y => Ahead(weight, x, y) \/ Ahead(weight, y, x)
      /\ \A x, y \in S : ~(Ahead(weight, x, y) /\ Ahead(weight, y, x))
      /\ \A x, y, z \in S : Ahead(weight, x, y) /\ Ahead(weight, y, z) => Ahead(weight, x, z)
  BY <1>1 DEF Ahead
<1>3. ASSUME NEW x \in S
      PROVE  IsFiniteSet(before(x)) /\ Cardinality(before(x)) \in 0..n - 1
  <2>1. before(x) \in SUBSET S /\ x \notin before(x)
    BY <1>2
  <2> HIDE DEF before
  <2>2. /\ IsFiniteSet(before(x)) /\ Cardinality(before(x)) <= n
        /\ n = Cardinality(before(x)) => S = before(x)
    BY <1>1, <2>1, FS_Subset
  <2>3. Cardinality(before(x)) \in Nat
    BY <2>2, FS_CardinalityType
  <2> QED
    BY <1>1, <2>1, <2>2, <2>3
<1>4. ASSUME NEW x \in S, NEW y \in S, Ahead(weight, x, y)
      PROVE  rank[x] < rank[y]
  <2>1. before(x) \in SUBSET before(y) /\ x \in before(y) /\ x \notin before(x)
    BY <1>2, <1>4
  <2>2. /\ Cardinality(before(x)) <= Cardinality(before(y))
        /\ Cardinality(before(y)) = Cardinality(before(x)) => before(y) = before(x)
    <3> DEFINE A == before(x)
               B == before(y)
    <3>1. IsFiniteSet(B) /\ A \in SUBSET B
      BY <1>3, <2>1
    <3> HIDE DEF A, B
    <3>2. Cardinality(A) <= Cardinality(B) /\ (Cardinality(B) = Cardinality(A) => B = A)
      BY <3>1, FS_Subset
    <3> QED
      BY <3>2 DEF A, B
  <2>3. Cardinality(before(x)) \in 0..n - 1 /\ Cardinality(before(y)) \in 0..n - 1
    BY <1>3
  <2>4. rank[x] = Cardinality(before(x)) /\ rank[y] = Cardinality(before(y))
    OBVIOUS
  <2>5. Cardinality(before(x)) # Cardinality(before(y))
    BY <2>1, <2>2
  <2> HIDE DEF before, rank
  <2> QED
    BY <1>1, <2>2, <2>3, <2>4, <2>5
<1>5. rank \in [S -> 0..n - 1]
  BY <1>3
<1>6. \A x, y \in S : rank[x] = rank[y] => x = y
  <2> HIDE DEF rank
  <2> QED
    BY <1>1, <1>2, <1>4, <1>5
<1>7. \A i \in 0..n - 1 : \E x \in S : rank[x] = i
  <2> HIDE DEF rank
  <2>1. rank \in Injection(S, 0..n - 1)
    BY <1>5, <1>6 DEF Injection, IsInjective
  <2>2. IsFiniteSet(0..n - 1) /\ Cardinality(0..n - 1) = n
    BY <1>1, FS_Interval, SMTT(30)
  <2>3. rank \in Surjection(S, 0..n - 1)
    BY <2>1, <2>2, FS_Injection
  <2> QED
    BY <2>3 DEF Surjection
<1>8. s = [i \in 1..n |->
              CHOOSE x \in S : Cardinality({y \in S : Ahead(weight, y, x)}) = i - 1]
  BY DEF Sorted
<1>0. \A x \in S : rank[x] = Cardinality({y \in S : Ahead(weight, y, x)})
  OBVIOUS
<1> HIDE DEF s, rank
<1>9. \A i \in 1..n : s[i] \in S /\ rank[s[i]] = i - 1
  <2>1. ASSUME NEW i \in 1..n
        PROVE  s[i] \in S /\ rank[s[i]] = i - 1
    <3>1. i - 1 \in 0..n - 1
      BY <1>1
    <3>2. \E x \in S : Cardinality({y \in S : Ahead(weight, y, x)}) = i - 1
      BY <1>0, <1>7, <3>1
    <3>3. s[i] \in S /\ Cardinality({y \in S : Ahead(weight, y, s[i])}) = i - 1
      BY <1>8, <3>2
    <3> QED
      BY <1>0, <3>3
  <2> QED
    BY <2>1
<1>10. s \in [1..n -> S] /\ s \in Seq(S) /\ Len(s) = n /\ s \in Seq(Items) /\ DOMAIN s = 1..n
  <2>1. s \in [1..n -> S]
    BY <1>8, <1>9
  <2>2. s \in [1..n -> Items]
    BY <2>1
  <2> QED
    BY <1>1, <2>1, <2>2
<1>11. \A x \in S : rank[x] + 1 \in 1..n /\ s[rank[x] + 1] = x
  <2>1. ASSUME NEW x \in S
        PROVE  rank[x] + 1 \in 1..n /\ s[rank[x] + 1] = x
    <3>1. rank[x] \in 0..n - 1 /\ rank[x] + 1 \in 1..n /\ (rank[x] + 1) - 1 = rank[x]
      BY <1>1, <1>5
    <3> QED
      BY <1>6, <1>9, <3>1
  <2> QED
    BY <2>1
<1>12. Range(s) = S
  BY <1>9, <1>10, <1>11 DEF Range
<1>13. InOrder(s)
  <2>1. ASSUME NEW i \in 1..n, NEW j \in 1..n, s[i] = s[j]
        PROVE  i = j
    <3>1. i - 1 = j - 1 /\ i \in Int /\ j \in Int
      BY <1>1, <1>9, <2>1
    <3> QED
      BY <3>1
  <2> QED
    BY <1>10, <2>1 DEF InOrder
<1>14. ASSUME NEW x \in S, NEW y \in S
       PROVE  Earlier(s, x, y) <=> Ahead(weight, x, y)
  <2>1. ASSUME Ahead(weight, x, y) PROVE Earlier(s, x, y)
    <3>1. rank[x] + 1 < rank[y] + 1
      BY <1>1, <1>4, <1>5, <2>1
    <3> QED
      BY <1>10, <1>11, <3>1 DEF Earlier
  <2>2. ASSUME Earlier(s, x, y) PROVE Ahead(weight, x, y)
    <3>1. ~Earlier(s, y, x) /\ x # y
      BY <1>13, <2>2, EarlierOrder
    <3>2. ~Ahead(weight, y, x)
      <4>1. ASSUME Ahead(weight, y, x) PROVE FALSE
        <5>1. rank[y] + 1 < rank[x] + 1
          BY <1>1, <1>4, <1>5, <4>1
        <5> QED
          BY <1>10, <1>11, <3>1, <5>1 DEF Earlier
      <4> QED
        BY <4>1
    <3> QED
      BY <1>2, <3>1, <3>2
  <2> QED
    BY <2>1, <2>2
<1> QED
  BY <1>12, <1>13, <1>14 DEF s

\* What a path gives to the place of an item decides the item.
Lasts(order, X, x, Y) ==
  /\ InOrder(order) /\ X \subseteq Range(order) /\ x \in Range(order)
  /\ \A y \in X : Earlier(order, y, x)
  /\ Y = X \cup {x}

LEMMA LastOfPath ==
  ASSUME NEW order, NEW X, NEW x, NEW Y, Lasts(order, X, x, Y)
  PROVE  /\ x \notin X /\ UpTo(order, Y, x) = Y
         /\ \A y \in X : UpTo(order, Y, y) = UpTo(order, X, y)
         /\ \A y \in X : y # x
BY EarlierOrder DEF UpTo, Lasts

-----------------------------------------------------------------------------
(* Sums over nodes *)

NodeMax == 2 * MaxUtility * Cardinality(Items) * Cardinality(Tids)

LEMMA NodeMaxIs == NodeMax \in Nat /\ NodeMax = TidMax * Cardinality(Tids)
<1>1. Cardinality(Tids) \in Nat /\ TidMax \in Nat
  BY Constants, FS_CardinalityType, TidMaxType
<1> QED
  BY <1>1 DEF NodeMax, TidMax

LEMMA TidSumUnion ==
  ASSUME NEW A \in SUBSET Tids, NEW B \in SUBSET Tids, A \cap B = {}, NEW u
  PROVE  TidSum(A \cup B, u) = TidSum(A, u) + TidSum(B, u)
<1> DEFINE C == Bytes(A, u, TidMax)
           D == Bytes(B, u, TidMax)
<1>1. IsFiniteSet(A) /\ IsFiniteSet(B)
  BY Constants, FS_Subset
<1>2. IsFiniteSet(C) /\ IsFiniteSet(D)
  BY <1>1, TidMaxType, BytesFinite
<1>3. Bytes(A \cup B, u, TidMax) = C \cup D /\ C \cap D = {}
  BY DEF Bytes
<1> HIDE DEF C, D
<1>4. Cardinality(C \cup D) = Cardinality(C) + Cardinality(D)
  <2>1. Cardinality(C \cup D) = Cardinality(C) + Cardinality(D) - Cardinality({})
    BY <1>2, <1>3, FS_Union
  <2>2. Cardinality({}) = 0
    BY FS_EmptySet
  <2>3. Cardinality(C) \in Nat /\ Cardinality(D) \in Nat
    BY <1>2, FS_CardinalityType
  <2> QED
    BY <2>1, <2>2, <2>3
<1> QED
  BY <1>3, <1>4 DEF TidSum, Footprint, TidMax, C, D

LEMMA TidSumBound ==
  ASSUME NEW T \in SUBSET Tids, NEW u
  PROVE  TidSum(T, u) \in 0..NodeMax /\ TidSum(T, u) \in Nat
<1> DEFINE box == Tids \X (1..TidMax)
           B == Bytes(T, u, TidMax)
<1>1. IsFiniteSet(Tids) /\ TidMax \in Nat /\ Cardinality(Tids) \in Nat
  BY Constants, FS_CardinalityType, TidMaxType
<1>2. IsFiniteSet(1..TidMax) /\ Cardinality(1..TidMax) = TidMax
  BY <1>1, FS_Interval, SMTT(30)
<1>3. IsFiniteSet(box) /\ Cardinality(box) = Cardinality(Tids) * TidMax
  BY <1>1, <1>2, FS_Product, Zenon
<1>4. B \in SUBSET box
  BY DEF Bytes
<1>5. TidSum(T, u) = Cardinality(B)
  BY DEF TidSum, Footprint, TidMax
<1> HIDE DEF box, B
<1>6. Cardinality(B) <= Cardinality(box) /\ Cardinality(B) \in Nat
  BY <1>3, <1>4, FS_Subset, FS_CardinalityType
<1>7. Cardinality(Tids) * TidMax = NodeMax /\ NodeMax \in Nat
  BY <1>1, NodeMaxIs
<1> QED
  BY <1>3, <1>5, <1>6, <1>7

\* Sums of sums, over sets that have nothing in common.
LEMMA SumOfSums ==
  ASSUME NEW N, IsFiniteSet(N), NEW tau, NEW u, NEW val,
         \A p \in N : tau[p] \in SUBSET Tids /\ val[p] = TidSum(tau[p], u),
         \A p, q \in N : p # q => tau[p] \cap tau[q] = {}
  PROVE  NodeSum(N, val) = TidSum(UNION {tau[p] : p \in N}, u)
<1> DEFINE Right(M) == NodeSum(M, val) = TidSum(UNION {tau[p] : p \in M}, u)
           bad == {n \in Nat : \E M \in SUBSET N : Cardinality(M) = n /\ ~Right(M)}
<1>1. ASSUME bad # {} PROVE FALSE
  <2>0. bad \in SUBSET Nat
    OBVIOUS
  <2>1. PICK n \in bad : \A m \in bad : n <= m
    <3> HIDE DEF bad
    <3> QED
      BY <1>1, <2>0, LeastNumber
  <2>2. PICK M \in SUBSET N : Cardinality(M) = n /\ ~Right(M)
    BY <2>1
  <2>3. IsFiniteSet(M)
    BY FS_Subset
  <2>4. CASE M = {}
    <3>1. NodeSum(M, val) = 0
      BY <2>4, EmptyFootprint DEF NodeSum
    <3>2. UNION {tau[p] : p \in M} = {}
      BY <2>4
    <3>3. TidSum({}, u) = 0
      BY EmptyFootprint DEF TidSum
    <3> QED
      BY <2>2, <3>1, <3>2, <3>3
  <2>5. CASE M # {}
    <3>1. PICK p \in M : TRUE
      BY <2>5
    <3> DEFINE R == M \ {p}
               A == UNION {tau[q] : q \in R}
    <3>2. IsFiniteSet(R) /\ R \in SUBSET N /\ p \notin R /\ R \cup {p} = M /\ p \in N
      BY <2>3, FS_Difference
    <3>3. Cardinality(R) = n - 1 /\ Cardinality(R) \in Nat /\ n \in Nat
      BY <2>2, <2>3, <3>1, <3>2, FS_RemoveElement, FS_CardinalityType
    <3>4. Right(R)
      <4>1. Cardinality(R) \notin bad
        <5> HIDE DEF bad, R
        <5> QED
          BY <2>1, <3>3
      <4> QED
        BY <3>2, <3>3, <4>1
    <3>5. A \in SUBSET Tids /\ tau[p] \in SUBSET Tids /\ A \cap tau[p] = {}
      BY <3>2
    <3>6. UNION {tau[q] : q \in M} = A \cup tau[p]
      BY <3>1
    <3>7. val[p] = TidSum(tau[p], u) /\ val[p] \in 0..NodeMax
      BY <3>2, <3>5, TidSumBound
    <3> HIDE DEF A, R, Right
    <3>8. NodeSum(M, val) = NodeSum(R, val) + val[p]
      <4>1. Footprint(R \cup {p}, val, NodeMax) = Footprint(R, val, NodeMax) + val[p]
        BY <3>2, <3>7, NodeMaxIs, AddMember
      <4> QED
        BY <3>2, <4>1 DEF NodeSum, NodeMax
    <3>9. TidSum(A \cup tau[p], u) = TidSum(A, u) + TidSum(tau[p], u)
      BY <3>5, TidSumUnion
    <3>10. NodeSum(R, val) = TidSum(A, u)
      BY <3>4 DEF Right, A
    <3>11. Right(M)
      BY <3>6, <3>7, <3>8, <3>9, <3>10 DEF Right
    <3> QED
      BY <2>2, <3>11
  <2> QED
    BY <2>4, <2>5
<1>2. Cardinality(N) \in Nat
  BY FS_CardinalityType
<1>3. Right(N)
  BY <1>1, <1>2
<1> QED
  BY <1>3

-----------------------------------------------------------------------------
(* Recursive functions, as far as they are well founded *)

\* Following the parents up collects what it says.
Climbs(nodes, root, p, it) ==
  /\ root \in Nat /\ p \in Nat /\ root <= p /\ it[root] = {}
  /\ \A q \in root + 1..p :
       nodes[q].parent \in root..q - 1 /\ it[q] = {nodes[q].item} \cup it[nodes[q].parent]

LEMMA ItemsToIs ==
  ASSUME NEW nodes, NEW root, NEW p, NEW it, Climbs(nodes, root, p, it)
  PROVE  ItemsTo(nodes, root, p) = it[p]
<1>0. /\ root \in Nat /\ p \in Nat /\ root <= p /\ it[root] = {}
      /\ \A q \in root + 1..p :
           nodes[q].parent \in root..q - 1 /\ it[q] = {nodes[q].item} \cup it[nodes[q].parent]
  BY DEF Climbs
<1> DEFINE Rule(f) == f = [q \in root..p |-> IF q = root THEN {}
                                             ELSE {nodes[q].item} \cup f[nodes[q].parent]]
           g == [q \in root..p |-> it[q]]
           to == CHOOSE f : Rule(f)
<1>1. Rule(g)
  <2>1. ASSUME NEW q \in root..p
        PROVE  g[q] = IF q = root THEN {} ELSE {nodes[q].item} \cup g[nodes[q].parent]
    <3>1. CASE q = root
      BY <1>0, <3>1
    <3>2. CASE q # root
      <4>1. q \in root + 1..p
        BY <1>0, <3>2
      <4>2. nodes[q].parent \in root..p
        BY <1>0, <4>1
      <4> QED
        BY <1>0, <3>2, <4>1, <4>2
    <3> QED
      BY <3>1, <3>2
  <2> QED
    BY <2>1
<1>2. Rule(to)
  <2> HIDE DEF Rule, g
  <2> QED
    BY <1>1
<1>3. ItemsTo(nodes, root, p) = to[p]
  BY DEF ItemsTo
<1>4. /\ to[root] = {}
      /\ \A q \in root + 1..p : to[q] = {nodes[q].item} \cup to[nodes[q].parent]
  <2>1. root \in root..p /\ \A q \in root + 1..p : q \in root..p /\ q # root
    BY <1>0
  <2> HIDE DEF to
  <2> QED
    BY <1>2, <2>1
<1> HIDE DEF to, g, Rule
<1> DEFINE bad == {q \in root..p : to[q] # it[q]}
<1>5. ASSUME bad # {} PROVE FALSE
  <2>0. bad \in SUBSET Nat
    BY <1>0
  <2>1. PICK q \in bad : \A r \in bad : q <= r
    <3> HIDE DEF bad
    <3> QED
      BY <1>5, <2>0, LeastNumber
  <2>2. q # root /\ q \in root + 1..p
    <3>1. q \in root..p /\ to[q] # it[q]
      BY <2>1
    <3>2. q # root
      BY <1>0, <1>4, <3>1
    <3> QED
      BY <1>0, <3>1, <3>2
  <2>3. nodes[q].parent \in root..q - 1
    BY <1>0, <2>2
  <2>4. to[nodes[q].parent] = it[nodes[q].parent]
    BY <1>0, <2>1, <2>2, <2>3
  <2> QED
    BY <1>0, <1>4, <2>1, <2>2, <2>4
<1>6. p \in root..p
  BY <1>0
<1> QED
  BY <1>3, <1>5, <1>6

LEMMA RootOfIs ==
  ASSUME NEW nodes, NEW p \in Nat, NEW r,
         \A q \in 0..p : \/ nodes[q].parent = Null /\ r[q] = q
                         \/ nodes[q].parent \in 0..q - 1 /\ r[q] = r[nodes[q].parent]
  PROVE  RootOf(nodes, p) = r[p]
<1> DEFINE Rule(f) == f = [q \in 0..p |-> IF nodes[q].parent = Null THEN q
                                          ELSE f[nodes[q].parent]]
           g == [q \in 0..p |-> r[q]]
           to == CHOOSE f : Rule(f)
<1>0. \A q \in 0..p : nodes[q].parent # Null => nodes[q].parent \in 0..p /\ nodes[q].parent < q
  BY DEF Null
<1>1. Rule(g)
  <2>1. ASSUME NEW q \in 0..p
        PROVE  g[q] = IF nodes[q].parent = Null THEN q ELSE g[nodes[q].parent]
    BY <1>0 DEF Null
  <2> QED
    BY <2>1
<1>2. Rule(to)
  <2> HIDE DEF Rule, g
  <2> QED
    BY <1>1
<1>3. RootOf(nodes, p) = to[p]
  BY DEF RootOf
<1>4. \A q \in 0..p : to[q] = IF nodes[q].parent = Null THEN q ELSE to[nodes[q].parent]
  <2> HIDE DEF to
  <2> QED
    BY <1>2
<1> HIDE DEF to, g, Rule
<1> DEFINE bad == {q \in 0..p : to[q] # r[q]}
<1>5. ASSUME bad # {} PROVE FALSE
  <2>0. bad \in SUBSET Nat
    OBVIOUS
  <2>1. PICK q \in bad : \A s \in bad : q <= s
    <3> HIDE DEF bad
    <3> QED
      BY <1>5, <2>0, LeastNumber
  <2>2. nodes[q].parent # Null
    BY <1>4 DEF Null
  <2>3. nodes[q].parent \in 0..p /\ nodes[q].parent < q
    BY <1>0, <2>2
  <2>4. to[nodes[q].parent] = r[nodes[q].parent]
    BY <2>1, <2>3
  <2> QED
    BY <1>4, <2>2, <2>4
<1>6. p \in 0..p
  OBVIOUS
<1> QED
  BY <1>3, <1>5, <1>6

\* A path is inserted item by item, in the order of the tree.
LEMMA InsertSteps ==
  ASSUME NEW a, NEW tree, NEW items, NEW value, Len(tree.order) \in Nat
  PROVE  \E grown :
           /\ grown[0] = [arena |-> a, tree |-> tree, at |-> tree.root]
           /\ \A i \in 1..Len(tree.order) :
                grown[i] = IF tree.order[i] \in items
                             THEN Grow(grown[i - 1], tree.order[i], value[tree.order[i]])
                             ELSE grown[i - 1]
           /\ Insert(a, tree, items, value) = grown[Len(tree.order)]
<1> DEFINE start == [arena |-> a, tree |-> tree, at |-> tree.root]
           order == tree.order
           Step(f, i) == IF order[i] \in items THEN Grow(f[i - 1], order[i], value[order[i]])
                         ELSE f[i - 1]
           Upto(n, f) == f = [i \in 0..n |-> IF i = 0 THEN start ELSE Step(f, i)]
           bad == {n \in Nat : \A f : ~Upto(n, f)}
<1>1. ASSUME bad # {} PROVE FALSE
  <2>0. bad \in SUBSET Nat
    OBVIOUS
  <2>1. PICK n \in bad : \A m \in bad : n <= m
    <3> HIDE DEF bad
    <3> QED
      BY <1>1, <2>0, LeastNumber
  <2>2. n # 0
    <3> DEFINE f == [i \in 0..0 |-> start]
    <3>1. Upto(0, f)
      OBVIOUS
    <3> QED
      BY <3>1
  <2>3. n \in Nat /\ n - 1 \in Nat /\ n - 1 \notin bad
    <3>1. n \in Nat
      BY <2>1
    <3> HIDE DEF bad
    <3> QED
      BY <2>1, <2>2, <3>1
  <2>4. PICK f : Upto(n - 1, f)
    BY <2>3
  <2>5. /\ DOMAIN f = 0..n - 1 /\ f[0] = start
        /\ \A i \in 1..n - 1 : f[i] = Step(f, i)
    <3> HIDE DEF start, Step
    <3>1. 0 \in 0..n - 1 /\ \A i \in 1..n - 1 : i \in 0..n - 1 /\ i # 0
      BY <2>3
    <3> QED
      BY <2>4, <3>1
  <2> DEFINE last == Step(f, n)
             g == [i \in 0..n |-> IF i = n THEN last ELSE f[i]]
  <2>6. g[0] = start
    <3> HIDE DEF last, start
    <3> QED
      BY <2>2, <2>3, <2>5
  <2>7. ASSUME NEW i \in 1..n
        PROVE  g[i] = Step(g, i)
    <3>1. g[i - 1] = f[i - 1]
      <4> HIDE DEF last
      <4> QED
        BY <2>3
    <3>2. Step(g, i) = Step(f, i)
      <4> HIDE DEF g
      <4> QED
        BY <3>1
    <3>3. CASE i = n
      <4>1. g[n] = last
        <5> HIDE DEF last
        <5> QED
          BY <2>3
      <4> QED
        BY <3>2, <3>3, <4>1
    <3>4. CASE i # n
      <4>1. i \in 1..n - 1
        BY <2>3, <3>4
      <4>2. g[i] = f[i]
        <5> HIDE DEF last
        <5> QED
          BY <2>3, <3>4
      <4> HIDE DEF g, Step
      <4> QED
        BY <2>5, <3>2, <4>1, <4>2
    <3> QED
      BY <3>3, <3>4
  <2>8. Upto(n, g)
    <3>1. DOMAIN g = 0..n /\ g = [i \in 0..n |-> g[i]]
      OBVIOUS
    <3> HIDE DEF g, Step, start
    <3>2. \A i \in 0..n : g[i] = IF i = 0 THEN start ELSE Step(g, i)
      BY <2>6, <2>7
    <3> QED
      BY <3>1, <3>2
  <2> HIDE DEF Upto
  <2> QED
    BY <2>1, <2>8
<1>2. \E f : Upto(Len(order), f)
  <2> HIDE DEF Upto
  <2> QED
    BY <1>1
<1> DEFINE grown == CHOOSE f : Upto(Len(order), f)
<1>3. Upto(Len(order), grown)
  <2> HIDE DEF Upto
  <2> QED
    BY <1>2
<1>4. Insert(a, tree, items, value) = grown[Len(order)]
  BY DEF Insert
<1>5. /\ grown[0] = start
      /\ \A i \in 1..Len(order) : grown[i] = Step(grown, i)
  <2> HIDE DEF start, Step, grown
  <2>1. 0 \in 0..Len(order) /\ \A i \in 1..Len(order) : i \in 0..Len(order) /\ i # 0
    OBVIOUS
  <2> QED
    BY <1>3, <2>1
<1> HIDE DEF grown
<1> QED
  BY <1>4, <1>5

\* A conditional tree is built path by path.
LEMMA ConditionalSteps ==
  ASSUME NEW base, NEW order, Len(base) \in Nat
  PROVE  \E built :
           /\ built[0] = NewTree(arena, order)
           /\ \A j \in 1..Len(base) :
                built[j] = Insert(built[j - 1].arena, built[j - 1].tree, base[j].items,
                                  [y \in base[j].items |-> base[j].value])
           /\ Conditional(base, order) = built[Len(base)]
<1> DEFINE start == NewTree(arena, order)
           Step(f, j) == Insert(f[j - 1].arena, f[j - 1].tree, base[j].items,
                                [y \in base[j].items |-> base[j].value])
           Upto(n, f) == f = [j \in 0..n |-> IF j = 0 THEN start ELSE Step(f, j)]
           bad == {n \in Nat : \A f : ~Upto(n, f)}
<1>1. ASSUME bad # {} PROVE FALSE
  <2>0. bad \in SUBSET Nat
    OBVIOUS
  <2>1. PICK n \in bad : \A m \in bad : n <= m
    <3> HIDE DEF bad
    <3> QED
      BY <1>1, <2>0, LeastNumber
  <2>2. n # 0
    <3> DEFINE f == [i \in 0..0 |-> start]
    <3>1. Upto(0, f)
      OBVIOUS
    <3> QED
      BY <3>1
  <2>3. n \in Nat /\ n - 1 \in Nat /\ n - 1 \notin bad
    <3>1. n \in Nat
      BY <2>1
    <3> HIDE DEF bad
    <3> QED
      BY <2>1, <2>2, <3>1
  <2>4. PICK f : Upto(n - 1, f)
    BY <2>3
  <2>5. /\ DOMAIN f = 0..n - 1 /\ f[0] = start
        /\ \A i \in 1..n - 1 : f[i] = Step(f, i)
    <3> HIDE DEF start, Step
    <3>1. 0 \in 0..n - 1 /\ \A i \in 1..n - 1 : i \in 0..n - 1 /\ i # 0
      BY <2>3
    <3> QED
      BY <2>4, <3>1
  <2> DEFINE last == Step(f, n)
             g == [i \in 0..n |-> IF i = n THEN last ELSE f[i]]
  <2>6. g[0] = start
    <3> HIDE DEF last, start
    <3> QED
      BY <2>2, <2>3, <2>5
  <2>7. ASSUME NEW i \in 1..n
        PROVE  g[i] = Step(g, i)
    <3>1. g[i - 1] = f[i - 1]
      <4> HIDE DEF last
      <4> QED
        BY <2>3
    <3>2. Step(g, i) = Step(f, i)
      <4> HIDE DEF g
      <4> QED
        BY <3>1
    <3>3. CASE i = n
      <4>1. g[n] = last
        <5> HIDE DEF last
        <5> QED
          BY <2>3
      <4> QED
        BY <3>2, <3>3, <4>1
    <3>4. CASE i # n
      <4>1. i \in 1..n - 1
        BY <2>3, <3>4
      <4>2. g[i] = f[i]
        <5> HIDE DEF last
        <5> QED
          BY <2>3, <3>4
      <4> HIDE DEF g, Step
      <4> QED
        BY <2>5, <3>2, <4>1, <4>2
    <3> QED
      BY <3>3, <3>4
  <2>8. Upto(n, g)
    <3>1. DOMAIN g = 0..n /\ g = [i \in 0..n |-> g[i]]
      OBVIOUS
    <3> HIDE DEF g, Step, start
    <3>2. \A i \in 0..n : g[i] = IF i = 0 THEN start ELSE Step(g, i)
      BY <2>6, <2>7
    <3> QED
      BY <3>1, <3>2
  <2> HIDE DEF Upto
  <2> QED
    BY <2>1, <2>8
<1>2. \E f : Upto(Len(base), f)
  <2> HIDE DEF Upto
  <2> QED
    BY <1>1
<1> DEFINE built == CHOOSE f : Upto(Len(base), f)
<1>3. Upto(Len(base), built)
  <2> HIDE DEF Upto
  <2> QED
    BY <1>2
<1>4. Conditional(base, order) = built[Len(base)]
  BY DEF Conditional
<1>5. /\ built[0] = start
      /\ \A i \in 1..Len(base) : built[i] = Step(built, i)
  <2> HIDE DEF start, Step, built
  <2>1. 0 \in 0..Len(base) /\ \A i \in 1..Len(base) : i \in 0..Len(base) /\ i # 0
    OBVIOUS
  <2> QED
    BY <1>3, <2>1
<1> HIDE DEF built
<1> QED
  BY <1>4, <1>5

-----------------------------------------------------------------------------
(* A tree in the arena *)

NodeType == [item : Int, value : Int, parent : Int, children : SUBSET Int]

ArenaRight(a) ==
  /\ a = [nodes |-> a.nodes, next |-> a.next, pages |-> a.pages]
  /\ DOMAIN a.nodes \in SUBSET Nat /\ a.nodes \in [DOMAIN a.nodes -> NodeType]
  /\ a.next \in Nat /\ a.pages \in Int
  /\ \A p \in 0..a.next - 1 : p \in DOMAIN a.nodes /\ p \div PageNodes < a.pages

\* The slots from the root of a tree up to hi are its nodes; it gives the items on the way
\* to each.
Shape(nodes, tree, hi, it) ==
  /\ tree = [root |-> tree.root, order |-> tree.order, header |-> tree.header]
  /\ InOrder(tree.order) /\ tree.root \in Nat /\ hi \in Nat /\ tree.root < hi
  /\ it \in [tree.root..hi - 1 -> SUBSET Range(tree.order)] /\ it[tree.root] = {}
  /\ nodes[tree.root].parent = Null
  /\ \A p \in tree.root + 1..hi - 1 :
       /\ nodes[p].parent \in tree.root..p - 1
       /\ nodes[p].item \in Range(tree.order)
       /\ it[p] = {nodes[p].item} \cup it[nodes[p].parent]
       /\ \A y \in it[nodes[p].parent] : Earlier(tree.order, y, nodes[p].item)
  /\ \A p \in tree.root..hi - 1 :
       nodes[p].children = {q \in tree.root + 1..hi - 1 : nodes[q].parent = p}
  /\ \A p, q \in tree.root..hi - 1 : it[p] = it[q] => p = q
  /\ tree.header \in [Range(tree.order) -> Seq(Nat)]
  /\ \A x \in Range(tree.order) :
       /\ tree.header[x] \in Seq(Nat) /\ IsInjective(tree.header[x])
       /\ Range(tree.header[x]) = {p \in tree.root + 1..hi - 1 : nodes[p].item = x}

\* The transactions of K whose paths, which are S, pass a node.
Through(nodes, order, it, K, S, p) ==
  {t \in K : nodes[p].item \in S[t] /\ UpTo(order, S[t], nodes[p].item) = it[p]}

\* What the nodes hold: w gives what a transaction adds to a node of an item.
Content(nodes, tree, hi, it, K, S, w) ==
  /\ \A p \in tree.root + 1..hi - 1 :
       /\ nodes[p].value = TidSum(Through(nodes, tree.order, it, K, S, p), w[nodes[p].item])
       /\ Through(nodes, tree.order, it, K, S, p) # {}
  /\ \A t \in K : \A x \in S[t] :
       \E p \in tree.root + 1..hi - 1 : nodes[p].item = x /\ it[p] = UpTo(tree.order, S[t], x)

\* What a tree holds is in its own slots.
LEMMA ShapeLocal ==
  ASSUME NEW nodes, NEW other, NEW tree, NEW hi, NEW it, Shape(nodes, tree, hi, it),
         \A p \in tree.root..hi - 1 : other[p].item = nodes[p].item
           /\ other[p].parent = nodes[p].parent /\ other[p].children = nodes[p].children
  PROVE  Shape(other, tree, hi, it)
<1>1. tree.root \in Nat /\ hi \in Nat /\ tree.root < hi
  BY DEF Shape
<1>2. \A p \in tree.root + 1..hi - 1 : p \in tree.root..hi - 1
  BY <1>1
<1>3. tree.root \in tree.root..hi - 1
  BY <1>1
<1>4. \A x : {p \in tree.root + 1..hi - 1 : other[p].item = x}
               = {p \in tree.root + 1..hi - 1 : nodes[p].item = x}
  BY <1>2
<1>5. \A p : {q \in tree.root + 1..hi - 1 : other[q].parent = p}
               = {q \in tree.root + 1..hi - 1 : nodes[q].parent = p}
  BY <1>2
<1> DEFINE order == tree.order
           root == tree.root
<1>6. \A p \in root + 1..hi - 1 :
        /\ other[p].parent \in root..p - 1
        /\ other[p].item \in Range(order)
        /\ it[p] = {other[p].item} \cup it[other[p].parent]
        /\ \A y \in it[other[p].parent] : Earlier(order, y, other[p].item)
  <2>1. ASSUME NEW p \in root + 1..hi - 1
        PROVE  other[p].item = nodes[p].item /\ other[p].parent = nodes[p].parent
    BY <1>2
  <2> QED
    BY <2>1 DEF Shape
<1>7. \A p \in root..hi - 1 :
        other[p].children = {q \in root + 1..hi - 1 : other[q].parent = p}
  <2>1. ASSUME NEW p \in root..hi - 1
        PROVE  /\ other[p].children = nodes[p].children
               /\ nodes[p].children = {q \in root + 1..hi - 1 : nodes[q].parent = p}
    BY DEF Shape
  <2> QED
    BY <1>5, <2>1, SMTT(30)
<1>8. \A x \in Range(order) :
        /\ tree.header[x] \in Seq(Nat) /\ IsInjective(tree.header[x])
        /\ Range(tree.header[x]) = {p \in root + 1..hi - 1 : other[p].item = x}
  BY <1>4 DEF Shape
<1>9. other[root].parent = Null
  BY <1>3 DEF Shape
<1> QED
  BY <1>6, <1>7, <1>8, <1>9 DEF Shape

LEMMA ContentLocal ==
  ASSUME NEW nodes, NEW other, NEW tree, NEW hi, NEW it, NEW K, NEW S, NEW w,
         tree.root \in Nat, hi \in Nat, Content(nodes, tree, hi, it, K, S, w),
         \A p \in tree.root..hi - 1 : other[p].item = nodes[p].item
           /\ other[p].value = nodes[p].value
  PROVE  Content(other, tree, hi, it, K, S, w)
<1>1. \A p \in tree.root + 1..hi - 1 : p \in tree.root..hi - 1
  OBVIOUS
<1>2. \A p \in tree.root + 1..hi - 1 :
         Through(other, tree.order, it, K, S, p) = Through(nodes, tree.order, it, K, S, p)
  BY <1>1 DEF Through
<1> QED
  BY <1>1, <1>2 DEF Content

-----------------------------------------------------------------------------
(* One item of a path *)

\* The paths of the transactions of G have come to the node at, and x is next.
Growing(s, it, K, S, w, G, X, x, value) ==
  /\ s = [arena |-> s.arena, tree |-> s.tree, at |-> s.at]
  /\ ArenaRight(s.arena) /\ Shape(s.arena.nodes, s.tree, s.arena.next, it)
  /\ Content(s.arena.nodes, s.tree, s.arena.next, it, K, S, w)
  /\ K \in SUBSET Tids /\ G \in SUBSET K /\ G # {}
  /\ \A t \in K : S[t] \in SUBSET Range(s.tree.order)
  /\ X \in SUBSET Range(s.tree.order) /\ \A t \in G : S[t] = X
  /\ s.at \in s.tree.root..s.arena.next - 1 /\ it[s.at] = X
  /\ x \in Range(s.tree.order) /\ \A y \in X : Earlier(s.tree.order, y, x)
  /\ value = TidSum(G, w[x])

Lengthened(K, S, G, Y) == [t \in K |-> IF t \in G THEN Y ELSE S[t]]

LEMMA GrowChild ==
  ASSUME NEW s, NEW it, NEW K, NEW S, NEW w, NEW G, NEW X, NEW x, NEW value,
         Growing(s, it, K, S, w, G, X, x, value)
  PROVE  LET nodes == s.arena.nodes
             tree == s.tree
             hi == s.arena.next
         IN  \A p \in tree.root..hi - 1 :
               it[p] = X \cup {x} <=> p \in nodes[s.at].children /\ nodes[p].item = x
<1> DEFINE nodes == s.arena.nodes
           tree == s.tree
           order == tree.order
           hi == s.arena.next
           root == tree.root
<1> HIDE DEF nodes, tree, order, hi, root
<1>1. Shape(nodes, tree, hi, it) /\ InOrder(order)
  BY DEF Growing, Shape, nodes, tree, order, hi
<1>2. /\ root \in Nat /\ hi \in Nat /\ root < hi
      /\ it \in [root..hi - 1 -> SUBSET Range(order)] /\ it[root] = {}
      /\ \A p \in root + 1..hi - 1 :
           /\ nodes[p].parent \in root..p - 1
           /\ nodes[p].item \in Range(order)
           /\ it[p] = {nodes[p].item} \cup it[nodes[p].parent]
           /\ \A y \in it[nodes[p].parent] : Earlier(order, y, nodes[p].item)
      /\ \A p \in root..hi - 1 :
           nodes[p].children = {q \in root + 1..hi - 1 : nodes[q].parent = p}
      /\ \A p, q \in root..hi - 1 : it[p] = it[q] => p = q
  BY <1>1 DEF Shape, root, order
<1>3. /\ s.at \in root..hi - 1 /\ it[s.at] = X /\ x \in Range(order)
      /\ \A y \in X : Earlier(order, y, x)
  BY DEF Growing, tree, root, hi, order
<1>4. ASSUME NEW p \in root..hi - 1, it[p] = X \cup {x}
      PROVE  p \in nodes[s.at].children /\ nodes[p].item = x
  <2>1. p # root
    BY <1>2, <1>4
  <2>2. p \in root + 1..hi - 1
    BY <1>2, <2>1
  <2> DEFINE z == nodes[p].item
             up == nodes[p].parent
  <2>3. /\ up \in root..hi - 1 /\ it[p] = {z} \cup it[up]
        /\ \A y \in it[up] : Earlier(order, y, z)
    BY <1>2, <2>2
  <2> HIDE DEF z, up
  <2>4. z = x
    BY <1>1, <1>3, <1>4, <2>3, EarlierOrder
  <2>5. x \notin X /\ x \notin it[up]
    BY <1>1, <1>3, <2>3, <2>4, EarlierOrder
  <2>6. it[up] = X
    BY <1>4, <2>3, <2>4, <2>5
  <2>7. up = s.at
    BY <1>2, <1>3, <2>3, <2>6
  <2> QED
    BY <1>2, <1>3, <2>2, <2>4, <2>7 DEF z, up
<1>5. ASSUME NEW p \in root..hi - 1, p \in nodes[s.at].children, nodes[p].item = x
      PROVE  it[p] = X \cup {x}
  <2>1. p \in root + 1..hi - 1 /\ nodes[p].parent = s.at
    BY <1>2, <1>3, <1>5
  <2> QED
    BY <1>2, <1>3, <1>5, <2>1
<1>6. \A p \in root..hi - 1 :
        it[p] = X \cup {x} <=> p \in nodes[s.at].children /\ nodes[p].item = x
  BY <1>4, <1>5
<1> QED
  BY <1>6 DEF nodes, tree, root, hi

\* The paths of G are X, and x comes after it.
Longer(order, K, S, G, X, x, Y) ==
  /\ Y = X \cup {x}
  /\ InOrder(order) /\ G \in SUBSET K /\ X \in SUBSET Range(order) /\ x \in Range(order)
  /\ \A y \in X : Earlier(order, y, x)
  /\ \A t \in G : S[t] = X

\* The longer paths pass one node more, which the shorter ones did not.
LEMMA ThroughMore ==
  ASSUME NEW nodes, NEW order, NEW it, NEW K, NEW S, NEW G, NEW X, NEW x, NEW Y, NEW p,
         Longer(order, K, S, G, X, x, Y)
  PROVE  /\ it[p] # Y =>
              Through(nodes, order, it, K, Lengthened(K, S, G, Y), p)
                = Through(nodes, order, it, K, S, p)
         /\ it[p] = Y /\ nodes[p].item = x =>
              /\ Through(nodes, order, it, K, Lengthened(K, S, G, Y), p)
                   = Through(nodes, order, it, K, S, p) \cup G
              /\ Through(nodes, order, it, K, S, p) \cap G = {}
<1> DEFINE T == Lengthened(K, S, G, Y)
           z == nodes[p].item
<1>0. /\ Y = X \cup {x} /\ InOrder(order) /\ G \in SUBSET K /\ X \in SUBSET Range(order) /\ x \in Range(order)
      /\ \A y \in X : Earlier(order, y, x)
      /\ \A t \in G : S[t] = X
  BY DEF Longer
<1>1. /\ x \notin X /\ UpTo(order, Y, x) = Y
      /\ \A y \in X : UpTo(order, Y, y) = UpTo(order, X, y) /\ y # x
  <2>1. Lasts(order, X, x, Y)
    BY <1>0 DEF Lasts
  <2> QED
    BY <2>1, LastOfPath
<1>2. \A t \in K : T[t] = IF t \in G THEN Y ELSE S[t]
  BY DEF Lengthened
<1> HIDE DEF T, z
<1>3. CASE it[p] # Y
  <2>1. ASSUME NEW t \in K
        PROVE  (z \in T[t] /\ UpTo(order, T[t], z) = it[p])
                 <=> (z \in S[t] /\ UpTo(order, S[t], z) = it[p])
    <3>1. CASE t \in G
      <4>1. T[t] = Y /\ S[t] = X
        BY <1>0, <1>2, <3>1
      <4>2. CASE z = x
        BY <1>1, <1>3, <4>1, <4>2
      <4>3. CASE z # x
        BY <1>0, <1>1, <4>1, <4>3
      <4> QED
        BY <4>2, <4>3
    <3>2. CASE t \notin G
      BY <1>2, <3>2
    <3> QED
      BY <3>1, <3>2
  <2>2. Through(nodes, order, it, K, T, p) = Through(nodes, order, it, K, S, p)
    BY <2>1 DEF Through, z
  <2> QED
    BY <1>3, <2>2 DEF T
<1>4. CASE it[p] = Y /\ z = x
  <2>1. ASSUME NEW t \in G
        PROVE  z \in T[t] /\ UpTo(order, T[t], z) = it[p] /\ z \notin S[t]
    BY <1>0, <1>1, <1>2, <1>4, <2>1
  <2>2. \A t \in K \ G : T[t] = S[t]
    BY <1>2
  <2>3. Through(nodes, order, it, K, T, p) = Through(nodes, order, it, K, S, p) \cup G
    BY <1>0, <2>1, <2>2 DEF Through, z
  <2>4. Through(nodes, order, it, K, S, p) \cap G = {}
    BY <2>1 DEF Through, z
  <2> QED
    BY <1>4, <2>3, <2>4 DEF T
<1> QED
  BY <1>3, <1>4 DEF z

\* What one item of a path makes of the tree.
Grown(r, s, it, K, T, w, Y) ==
  /\ r = [arena |-> r.arena, tree |-> r.tree, at |-> r.at]
  /\ ArenaRight(r.arena) /\ Shape(r.arena.nodes, r.tree, r.arena.next, it)
  /\ Content(r.arena.nodes, r.tree, r.arena.next, it, K, T, w)
  /\ r.tree.root = s.tree.root /\ r.tree.order = s.tree.order
  /\ r.at \in r.tree.root..r.arena.next - 1 /\ it[r.at] = Y
  /\ r.arena.next >= s.arena.next
  /\ \A p \in 0..s.tree.root - 1 : r.arena.nodes[p] = s.arena.nodes[p]

LEMMA GrowOld ==
  ASSUME NEW s, NEW it, NEW K, NEW S, NEW w, NEW G, NEW X, NEW x, NEW value,
         Growing(s, it, K, S, w, G, X, x, value),
         {p \in s.arena.nodes[s.at].children : s.arena.nodes[p].item = x} # {}
  PROVE  Grown(Grow(s, x, value), s, it, K, Lengthened(K, S, G, X \cup {x}), w, X \cup {x})
<1> DEFINE nodes == s.arena.nodes
           tree == s.tree
           order == tree.order
           hi == s.arena.next
           root == tree.root
           Y == X \cup {x}
           T == Lengthened(K, S, G, Y)
           same == {p \in nodes[s.at].children : nodes[p].item = x}
           child == CHOOSE p \in same : TRUE
           node == [nodes[child] EXCEPT !.value = @ + value]
           new == [nodes EXCEPT ![child] = node]
           r == Grow(s, x, value)
<1>1. /\ s = [arena |-> s.arena, tree |-> tree, at |-> s.at]
      /\ s.arena = [nodes |-> nodes, next |-> hi, pages |-> s.arena.pages]
      /\ ArenaRight(s.arena) /\ Shape(nodes, tree, hi, it) /\ Content(nodes, tree, hi, it, K, S, w)
      /\ InOrder(order) /\ root \in Nat /\ hi \in Nat /\ root < hi
  BY DEF Growing, Shape, ArenaRight
<1>2. child \in nodes[s.at].children /\ nodes[child].item = x
  BY DEF same
<1>3. s.at \in root..hi - 1 /\ it[s.at] = X /\ nodes[s.at].children \in SUBSET (root + 1..hi - 1)
  BY DEF Growing, Shape
<1>4. child \in root + 1..hi - 1 /\ child \in root..hi - 1 /\ child \in 0..hi - 1 /\ child \in DOMAIN nodes
  BY <1>1, <1>2, <1>3, SMTT(30) DEF ArenaRight
<1>5. it[child] = Y
  <2> HIDE DEF child
  <2>1. \A p \in root..hi - 1 : it[p] = X \cup {x} <=> p \in nodes[s.at].children /\ nodes[p].item = x
    BY GrowChild
  <2> QED
    BY <1>2, <1>4, <2>1
<1>6. r = [arena |-> [nodes |-> new, next |-> hi, pages |-> s.arena.pages], tree |-> tree, at |-> child]
  BY <1>1 DEF Grow
<1>7. value \in Nat /\ value = TidSum(G, w[x]) /\ G \in SUBSET Tids
  BY TidSumBound DEF Growing
<1>8. /\ nodes[child] \in NodeType /\ node \in NodeType
      /\ node.item = nodes[child].item /\ node.parent = nodes[child].parent
      /\ node.children = nodes[child].children /\ node.value = nodes[child].value + value
  <2>1. nodes[child] \in NodeType
    BY <1>1, <1>4 DEF ArenaRight
  <2> HIDE DEF child, nodes
  <2> QED
    BY <1>7, <2>1 DEF NodeType
<1>9. /\ DOMAIN new = DOMAIN nodes /\ new[child] = node
      /\ \A p : p # child /\ p \in DOMAIN nodes => new[p] = nodes[p]
  <2> HIDE DEF child, node, nodes
  <2> QED
    BY <1>4
<1>10. nodes \in [DOMAIN nodes -> NodeType] /\ \A p \in 0..hi - 1 : p \in DOMAIN nodes
  BY <1>1 DEF ArenaRight
<1> HIDE DEF child, node, new, nodes, tree, order, hi, root, r, T, Y
<1>11. ArenaRight(r.arena)
  <2>1. new \in [DOMAIN new -> NodeType]
    <3>1. \A p \in DOMAIN nodes : new[p] \in NodeType
      BY <1>8, <1>9, <1>10
    <3>2. new = [p \in DOMAIN nodes |-> new[p]]
      BY <1>9 DEF new
    <3> QED
      BY <1>9, <3>1, <3>2
  <2>2. DOMAIN nodes \in SUBSET Nat /\ hi \in Nat /\ s.arena.pages \in Int
        /\ \A p \in 0..hi - 1 : p \in DOMAIN nodes /\ p \div PageNodes < s.arena.pages
    BY <1>1 DEF ArenaRight, nodes, hi
  <2> QED
    BY <1>6, <1>9, <2>1, <2>2 DEF ArenaRight
<1>12. \A p \in root..hi - 1 : p \in DOMAIN nodes
  BY <1>1, <1>10
<1>13. Shape(new, tree, hi, it)
  <2>1. \A p \in tree.root..hi - 1 : new[p].item = nodes[p].item
           /\ new[p].parent = nodes[p].parent /\ new[p].children = nodes[p].children
    BY <1>8, <1>9, <1>12 DEF root
  <2> QED
    BY <1>1, <2>1, ShapeLocal
<1>22. /\ G \in SUBSET K /\ X \in SUBSET Range(order) /\ x \in Range(order)
       /\ \A y \in X : Earlier(order, y, x)
       /\ \A t \in G : S[t] = X
  BY DEF Growing, order, tree
<1>14. ASSUME NEW p
       PROVE  /\ it[p] # Y => Through(nodes, order, it, K, T, p) = Through(nodes, order, it, K, S, p)
              /\ it[p] = Y /\ nodes[p].item = x =>
                   /\ Through(nodes, order, it, K, T, p) = Through(nodes, order, it, K, S, p) \cup G
                   /\ Through(nodes, order, it, K, S, p) \cap G = {}
  <2>1. Longer(order, K, S, G, X, x, Y)
    BY <1>1, <1>22 DEF Longer, Y
  <2> QED
    BY <2>1, ThroughMore DEF T
<1>15. \A p \in root + 1..hi - 1 :
         Through(new, order, it, K, T, p) = Through(nodes, order, it, K, T, p)
  <2>1. \A p \in root + 1..hi - 1 : new[p].item = nodes[p].item
    BY <1>1, <1>8, <1>9, <1>10
  <2> QED
    BY <2>1 DEF Through
<1>16. ASSUME NEW p \in root + 1..hi - 1
       PROVE  /\ new[p].item = nodes[p].item
              /\ new[p].value = TidSum(Through(new, order, it, K, T, p), w[nodes[p].item])
              /\ Through(new, order, it, K, T, p) # {}
  <2>1. /\ nodes[p].value = TidSum(Through(nodes, order, it, K, S, p), w[nodes[p].item])
        /\ Through(nodes, order, it, K, S, p) # {}
    BY <1>1 DEF Content, root, order
  <2>2. CASE p = child
    <3>1. Through(new, order, it, K, T, p) = Through(nodes, order, it, K, S, p) \cup G
          /\ Through(nodes, order, it, K, S, p) \cap G = {}
      BY <1>2, <1>5, <1>14, <1>15, <2>2 DEF nodes
    <3>2. Through(nodes, order, it, K, S, p) \in SUBSET Tids
      BY DEF Through, Growing
    <3>3. TidSum(Through(new, order, it, K, T, p), w[x])
            = TidSum(Through(nodes, order, it, K, S, p), w[x]) + TidSum(G, w[x])
      BY <1>7, <3>1, <3>2, TidSumUnion
    <3>4. nodes[p].item = x
      BY <1>2, <2>2 DEF nodes
    <3>5. new[p].item = nodes[p].item /\ new[p].value = nodes[p].value + value
      BY <1>8, <1>9, <2>2
    <3> QED
      BY <1>7, <2>1, <3>1, <3>3, <3>4, <3>5
  <2>3. CASE p # child
    <3>1. p \in root..hi - 1 /\ p \in DOMAIN nodes
      BY <1>1, <1>12
    <3>2. it[p] # Y
      <4>1. \A q, o \in root..hi - 1 : it[q] = it[o] => q = o
        BY <1>1 DEF Shape, root
      <4> QED
        BY <1>4, <1>5, <2>3, <3>1, <4>1
    <3>3. new[p] = nodes[p]
      BY <1>9, <2>3, <3>1
    <3>4. Through(new, order, it, K, T, p) = Through(nodes, order, it, K, S, p)
      BY <1>14, <1>15, <3>2
    <3> QED
      BY <2>1, <3>3, <3>4
  <2> QED
    BY <2>2, <2>3
<1>17. ASSUME NEW t \in K, NEW y \in T[t]
       PROVE  \E p \in root + 1..hi - 1 : new[p].item = y /\ it[p] = UpTo(order, T[t], y)
  <2>1. \A z \in S[t] : \E p \in root + 1..hi - 1 :
          nodes[p].item = z /\ it[p] = UpTo(order, S[t], z)
    BY <1>1 DEF Content, root, order
  <2>2. CASE t \in G
    <3>1. T[t] = Y /\ S[t] = X
      BY <2>2 DEF T, Lengthened, Growing
    <3>2. /\ UpTo(order, Y, x) = Y
          /\ \A z \in X : UpTo(order, Y, z) = UpTo(order, X, z)
      <4>1. Lasts(order, X, x, Y)
        BY <1>1, <1>22 DEF Lasts, Y
      <4> QED
        BY <4>1, LastOfPath
    <3>3. CASE y = x
      BY <1>2, <1>4, <1>5, <1>16, <3>1, <3>2, <3>3 DEF nodes
    <3>4. CASE y # x
      <4>1. y \in X
        BY <3>1, <3>4 DEF Y
      <4> QED
        BY <1>16, <2>1, <3>1, <3>2, <4>1
    <3> QED
      BY <3>3, <3>4
  <2>3. CASE t \notin G
    <3>1. T[t] = S[t]
      BY <2>3 DEF T, Lengthened
    <3> QED
      BY <1>16, <2>1, <3>1
  <2> QED
    BY <2>2, <2>3
<1>18. Content(new, tree, hi, it, K, T, w)
  <2>1. \A p \in root + 1..hi - 1 :
           /\ new[p].value = TidSum(Through(new, order, it, K, T, p), w[new[p].item])
           /\ Through(new, order, it, K, T, p) # {}
    BY <1>16
  <2> QED
    BY <1>17, <2>1 DEF Content, root, order
<1>19. \A p \in 0..root - 1 : new[p] = nodes[p]
  <2>1. \A p \in 0..root - 1 : p # child /\ p \in DOMAIN nodes
    BY <1>1, <1>4, <1>10
  <2> QED
    BY <1>9, <2>1
<1>20. /\ r.arena = [nodes |-> new, next |-> hi, pages |-> s.arena.pages] /\ r.tree = tree
       /\ r.at = child /\ r.arena.nodes = new /\ r.arena.next = hi
       /\ r = [arena |-> r.arena, tree |-> r.tree, at |-> r.at]
  BY <1>6
<1>21. hi >= s.arena.next /\ tree.root = root /\ tree = s.tree /\ nodes = s.arena.nodes
  BY <1>1 DEF hi, root, tree, nodes
<1> QED
  BY <1>4, <1>5, <1>11, <1>13, <1>18, <1>19, <1>20, <1>21 DEF Grown, r, T, Y

\* A node joins the list of its item once.
LEMMA LinkedList ==
  ASSUME NEW list \in Seq(Nat), NEW p \in Nat, IsInjective(list), p \notin Range(list)
  PROVE  /\ Linked(list, p) \in Seq(Nat) /\ IsInjective(Linked(list, p))
         /\ Range(Linked(list, p)) = Range(list) \cup {p}
<1>1. Len(list) \in Nat /\ DOMAIN list = 1..Len(list) /\ \A i \in 1..Len(list) : list[i] \in Nat
  OBVIOUS
<1>2. \A i \in 1..Len(list) : list[i] # p
  BY <1>1 DEF Range
<1>3. \A i, j \in 1..Len(list) : list[i] = list[j] => i = j
  BY <1>1 DEF IsInjective
<1>4. Range(list) = {list[i] : i \in 1..Len(list)}
  BY <1>1 DEF Range
<1> DEFINE n == Len(list)
           long == Append(list, p)
           other == <<p>> \o list
<1>5. /\ long \in Seq(Nat) /\ DOMAIN long = 1..n + 1 /\ long[n + 1] = p
      /\ \A i \in 1..n : long[i] = list[i]
  BY <1>1, AppendProperties
<1>6. IsInjective(long) /\ Range(long) = Range(list) \cup {p}
  <2> HIDE DEF long
  <2>1. \A i \in 1..n + 1 : i \in 1..n \/ i = n + 1
    BY <1>1
  <2>2. \A i \in 1..n : i \in 1..n + 1
    BY <1>1
  <2>3. n + 1 \in 1..n + 1
    BY <1>1
  <2>4. IsInjective(long)
    <3>1. ASSUME NEW i \in 1..n + 1, NEW j \in 1..n + 1, long[i] = long[j]
          PROVE  i = j
      BY <1>2, <1>3, <1>5, <2>1, <3>1
    <3> QED
      BY <1>5, <3>1 DEF IsInjective
  <2>5. \A y \in Range(long) : y \in Range(list) \cup {p}
    BY <1>4, <1>5, <2>1 DEF Range
  <2>6. \A y \in Range(list) \cup {p} : y \in Range(long)
    BY <1>4, <1>5, <2>2, <2>3 DEF Range
  <2> QED
    BY <2>4, <2>5, <2>6
<1>7. /\ other \in Seq(Nat) /\ DOMAIN other = 1..n + 1 /\ other[1] = p
      /\ \A i \in 1..n : other[i + 1] = list[i]
  <2>1. <<p>> \in Seq(Nat) /\ Len(<<p>>) = 1 /\ <<p>>[1] = p
    OBVIOUS
  <2>2. /\ other \in Seq(Nat) /\ Len(other) = 1 + n
        /\ \A i \in 1..1 + n : other[i] = IF i <= 1 THEN <<p>>[i] ELSE list[i - 1]
    BY <2>1, ConcatProperties
  <2> HIDE DEF other
  <2>3. DOMAIN other = 1..n + 1
    BY <1>1, <2>2
  <2>4. ASSUME NEW i \in 1..n
        PROVE  other[i + 1] = list[i]
    <3>1. i + 1 \in 1..1 + n /\ ~(i + 1 <= 1) /\ (i + 1) - 1 = i
      BY <1>1
    <3> QED
      BY <2>2, <3>1
  <2>5. other[1] = p
    BY <1>1, <2>1, <2>2
  <2> QED
    BY <2>2, <2>3, <2>4, <2>5
<1>8. IsInjective(other) /\ Range(other) = Range(list) \cup {p}
  <2> HIDE DEF other
  <2>1. \A i \in 1..n + 1 : i = 1 \/ (i - 1 \in 1..n /\ (i - 1) + 1 = i)
    BY <1>1
  <2>2. \A i \in 1..n : i + 1 \in 1..n + 1
    BY <1>1
  <2>3. 1 \in 1..n + 1
    BY <1>1
  <2>4. \A i \in 1..n + 1 : i # 1 => i - 1 \in 1..n /\ other[i] = list[i - 1]
    <3>1. ASSUME NEW i \in 1..n + 1, i # 1
          PROVE  i - 1 \in 1..n /\ other[i] = list[i - 1]
      <4>1. i - 1 \in 1..n /\ (i - 1) + 1 = i
        BY <2>1, <3>1
      <4>2. other[(i - 1) + 1] = list[i - 1]
        BY <1>7, <4>1
      <4> QED
        BY <4>1, <4>2
    <3> QED
      BY <3>1
  <2>5. IsInjective(other)
    <3>1. ASSUME NEW i \in 1..n + 1, NEW j \in 1..n + 1, other[i] = other[j]
          PROVE  i = j
      <4>0. ASSUME NEW k \in 1..n + 1, other[k] = p
            PROVE  k = 1
        BY <1>2, <2>4, <4>0
      <4>1. CASE i = 1 \/ j = 1
        BY <1>7, <3>1, <4>0, <4>1
      <4>2. CASE i # 1 /\ j # 1
        <5>1. i - 1 = j - 1
          BY <1>3, <2>4, <3>1, <4>2
        <5> QED
          BY <5>1
      <4> QED
        BY <4>1, <4>2
    <3> QED
      BY <1>7, <3>1 DEF IsInjective
  <2>8. Range(other) = {other[i] : i \in 1..n + 1}
    BY <1>7 DEF Range
  <2>6. \A y \in Range(other) : y \in Range(list) \cup {p}
    <3>1. ASSUME NEW i \in 1..n + 1
          PROVE  other[i] \in Range(list) \cup {p}
      BY <1>4, <1>7, <2>4
    <3> QED
      BY <2>8, <3>1
  <2>7. \A y \in Range(list) \cup {p} : y \in Range(other)
    <3>1. p \in Range(other)
      BY <1>7, <2>3, <2>8
    <3>2. ASSUME NEW i \in 1..n
          PROVE  list[i] \in Range(other)
      BY <1>7, <2>2, <2>8
    <3> QED
      BY <1>4, <3>1, <3>2
  <2> QED
    BY <2>5, <2>6, <2>7
<1> HIDE DEF long, other
<1> QED
  BY <1>5, <1>6, <1>7, <1>8 DEF Linked, long, other

\* Taking a slot leaves the arena in order.
LEMMA AllocateRight ==
  ASSUME NEW a, ArenaRight(a), NEW node \in NodeType
  PROVE  /\ ArenaRight(Allocate(a, node)) /\ Allocate(a, node).next = a.next + 1
         /\ Allocate(a, node).nodes[a.next] = node
         /\ DOMAIN Allocate(a, node).nodes = DOMAIN a.nodes \cup {a.next}
         /\ \A p \in DOMAIN a.nodes : p # a.next => Allocate(a, node).nodes[p] = a.nodes[p]
<1> DEFINE new == Put(a.nodes, a.next, node)
           b == Allocate(a, node)
           pages == IF a.next \div PageNodes >= a.pages THEN a.next \div PageNodes + 1 ELSE a.pages
<1>1. /\ DOMAIN a.nodes \in SUBSET Nat /\ a.nodes \in [DOMAIN a.nodes -> NodeType]
      /\ a.next \in Nat /\ a.pages \in Int
      /\ \A p \in 0..a.next - 1 : p \in DOMAIN a.nodes /\ p \div PageNodes < a.pages
  BY DEF ArenaRight
<1>2. b = [nodes |-> new, next |-> a.next + 1, pages |-> pages]
  BY DEF Allocate
<1>3. /\ DOMAIN new = DOMAIN a.nodes \cup {a.next} /\ new[a.next] = node
      /\ \A p \in DOMAIN a.nodes : p # a.next => new[p] = a.nodes[p]
      /\ new \in [DOMAIN new -> NodeType] /\ DOMAIN new \in SUBSET Nat
  BY <1>1 DEF Put
<1>4. PageNodes \in Nat \ {0}
  BY ContextAssumption
<1>5. \A p \in Nat : p \div PageNodes \in Int
  BY <1>4
<1>6. a.next \div PageNodes < pages /\ a.pages <= pages /\ pages \in Int
  BY <1>1, <1>5
<1> HIDE DEF new, pages, b
<1>7. \A p \in 0..(a.next + 1) - 1 : p \in DOMAIN new /\ p \div PageNodes < pages
  <2>1. ASSUME NEW p \in 0..(a.next + 1) - 1
        PROVE  p \in DOMAIN new /\ p \div PageNodes < pages
    <3>1. CASE p = a.next
      BY <1>3, <1>6, <3>1
    <3>2. CASE p # a.next
      <4>1. p \in 0..a.next - 1
        BY <1>1, <3>2
      <4>2. p \in DOMAIN a.nodes /\ p \div PageNodes < a.pages /\ p \div PageNodes \in Int
        BY <1>1, <1>5, <4>1
      <4> QED
        BY <1>1, <1>3, <1>6, <4>2
    <3> QED
      BY <3>1, <3>2
  <2> QED
    BY <2>1
<1>8. ArenaRight(b)
  BY <1>1, <1>2, <1>3, <1>6, <1>7 DEF ArenaRight
<1> QED
  BY <1>2, <1>3, <1>8 DEF b

LEMMA GrowNew ==
  ASSUME NEW s, NEW it, NEW K, NEW S, NEW w, NEW G, NEW X, NEW x, NEW value,
         Growing(s, it, K, S, w, G, X, x, value),
         {p \in s.arena.nodes[s.at].children : s.arena.nodes[p].item = x} = {}
  PROVE  Grown(Grow(s, x, value), s,
               [p \in s.tree.root..s.arena.next |-> IF p = s.arena.next THEN X \cup {x} ELSE it[p]],
               K, Lengthened(K, S, G, X \cup {x}), w, X \cup {x})
<1> DEFINE nodes == s.arena.nodes
           tree == s.tree
           order == tree.order
           hi == s.arena.next
           root == tree.root
           Y == X \cup {x}
           T == Lengthened(K, S, G, Y)
           node == Node(x, value, s.at)
           a == Allocate(s.arena, node)
           parent == [nodes[s.at] EXCEPT !.children = @ \cup {hi}]
           new == [a.nodes EXCEPT ![s.at] = parent]
           header == [tree.header EXCEPT ![x] = Linked(@, hi)]
           wood == [tree EXCEPT !.header = header]
           r == Grow(s, x, value)
           jt == [p \in root..hi |-> IF p = hi THEN Y ELSE it[p]]
<1>1. /\ s = [arena |-> s.arena, tree |-> tree, at |-> s.at]
      /\ s.arena = [nodes |-> nodes, next |-> hi, pages |-> s.arena.pages]
      /\ ArenaRight(s.arena) /\ Shape(nodes, tree, hi, it) /\ Content(nodes, tree, hi, it, K, S, w)
      /\ InOrder(order) /\ root \in Nat /\ hi \in Nat /\ root < hi
  BY DEF Growing, Shape, ArenaRight
<1>2. /\ s.at \in root..hi - 1 /\ it[s.at] = X /\ K \in SUBSET Tids
      /\ G \in SUBSET K /\ X \in SUBSET Range(order) /\ x \in Range(order) /\ G # {}
      /\ \A y \in X : Earlier(order, y, x)
      /\ \A t \in G : S[t] = X
  BY DEF Growing
<1>3. s.at \in 0..hi - 1 /\ s.at \in DOMAIN nodes /\ s.at # hi
  <2>1. s.at \in 0..hi - 1
    BY <1>1, <1>2
  <2> QED
    BY <1>1, <2>1 DEF ArenaRight
<1>4. value \in Nat /\ value = TidSum(G, w[x]) /\ G \in SUBSET Tids
  BY TidSumBound DEF Growing
<1>5. /\ node \in NodeType /\ node.item = x /\ node.value = value /\ node.parent = s.at
      /\ node.children = {}
  <2>1. x \in Int /\ s.at \in Int
    <3>1. Range(order) \in SUBSET Items
      BY <1>1, EarlierOrder
    <3>2. x \in Items
      BY <1>2, <3>1
    <3>3. x \in Int
      BY <3>2, Constants
    <3>4. s.at \in Int
      BY <1>3
    <3> QED
      BY <3>3, <3>4
  <2> QED
    BY <1>4, <2>1 DEF NodeType, Node
<1>6. /\ ArenaRight(a) /\ a.next = hi + 1 /\ a.nodes[hi] = node
      /\ DOMAIN a.nodes = DOMAIN nodes \cup {hi}
      /\ \A p \in DOMAIN nodes : p # hi => a.nodes[p] = nodes[p]
  <2> HIDE DEF node
  <2> QED
    BY <1>1, <1>5, AllocateRight
<1>7. r = [arena |-> [a EXCEPT !.nodes = new], tree |-> wood, at |-> hi]
  <2>1. a.nodes[s.at] = nodes[s.at]
    BY <1>3, <1>6
  <2>2. {p \in nodes[s.at].children : nodes[p].item = x} = {}
    OBVIOUS
  <2>3. r = [arena |-> [a EXCEPT !.nodes[s.at].children = @ \cup {hi}],
             tree |-> [tree EXCEPT !.header[x] = Linked(@, hi)], at |-> hi]
    BY <2>2 DEF Grow
  <2>4. [a EXCEPT !.nodes[s.at].children = @ \cup {hi}] = [a EXCEPT !.nodes = new]
    <3> HIDE DEF a
    <3> QED
      BY <2>1
  <2>5. [tree EXCEPT !.header[x] = Linked(@, hi)] = wood
    OBVIOUS
  <2> HIDE DEF a, new, wood, r
  <2> QED
    BY <2>3, <2>4, <2>5
<1>8. /\ parent \in NodeType /\ parent.item = nodes[s.at].item /\ parent.value = nodes[s.at].value
      /\ parent.parent = nodes[s.at].parent /\ parent.children = nodes[s.at].children \cup {hi}
  <2>1. nodes[s.at] \in NodeType
    BY <1>1, <1>3 DEF ArenaRight
  <2> HIDE DEF nodes, hi
  <2> QED
    BY <1>1, <2>1 DEF NodeType
<1> HIDE DEF a, parent, new, header, wood, node, nodes, tree, order, hi, root, r, T, Y, jt
<1>9. /\ DOMAIN new = DOMAIN nodes \cup {hi} /\ new[s.at] = parent /\ new[hi] = node
      /\ \A p \in DOMAIN nodes : p # hi /\ p # s.at => new[p] = nodes[p]
      /\ new \in [DOMAIN new -> NodeType]
  <2>1. a.nodes \in [DOMAIN a.nodes -> NodeType]
    BY <1>6 DEF ArenaRight
  <2> QED
    BY <1>3, <1>6, <1>8, <2>1 DEF new
<1>10. \A p \in 0..hi - 1 : /\ new[p].item = nodes[p].item /\ new[p].value = nodes[p].value
                            /\ new[p].parent = nodes[p].parent
                            /\ new[p].children = nodes[p].children \cup
                                                   (IF p = s.at THEN {hi} ELSE {})
  <2>1. ASSUME NEW p \in 0..hi - 1
        PROVE  /\ new[p].item = nodes[p].item /\ new[p].value = nodes[p].value
               /\ new[p].parent = nodes[p].parent
               /\ new[p].children = nodes[p].children \cup (IF p = s.at THEN {hi} ELSE {})
    <3>1. p \in DOMAIN nodes /\ p # hi
      BY <1>1 DEF ArenaRight, nodes, hi
    <3>2. CASE p = s.at
      BY <1>8, <1>9, <3>2
    <3>3. CASE p # s.at
      BY <1>9, <3>1, <3>3
    <3> QED
      BY <3>2, <3>3
  <2> QED
    BY <2>1
<1>11. /\ r.arena.nodes = new /\ r.arena.next = hi + 1 /\ r.arena.pages = a.pages /\ r.tree = wood
       /\ r.at = hi /\ r = [arena |-> r.arena, tree |-> r.tree, at |-> r.at]
       /\ r.arena = [nodes |-> new, next |-> hi + 1, pages |-> a.pages]
  <2>1. a = [nodes |-> a.nodes, next |-> a.next, pages |-> a.pages]
    BY <1>6 DEF ArenaRight
  <2>2. [a EXCEPT !.nodes = new] = [nodes |-> new, next |-> hi + 1, pages |-> a.pages]
    BY <1>6, <2>1
  <2> QED
    BY <1>7, <2>2
<1>12. ArenaRight(r.arena)
  <2>1. /\ DOMAIN a.nodes \in SUBSET Nat /\ a.next \in Nat /\ a.pages \in Int
        /\ \A p \in 0..a.next - 1 : p \in DOMAIN a.nodes /\ p \div PageNodes < a.pages
    BY <1>6 DEF ArenaRight
  <2> QED
    BY <1>6, <1>9, <1>11, <2>1 DEF ArenaRight
<1>13. /\ wood = [root |-> root, order |-> order, header |-> header]
       /\ wood.root = root /\ wood.order = order /\ wood.header = header
  <2>1. tree = [root |-> tree.root, order |-> tree.order, header |-> tree.header]
    BY <1>1 DEF Shape
  <2> QED
    BY <2>1 DEF wood, root, order
<1>14. /\ it \in [root..hi - 1 -> SUBSET Range(order)] /\ it[root] = {}
       /\ nodes[root].parent = Null
       /\ \A p \in root + 1..hi - 1 :
            /\ nodes[p].parent \in root..p - 1
            /\ nodes[p].item \in Range(order)
            /\ it[p] = {nodes[p].item} \cup it[nodes[p].parent]
            /\ \A y \in it[nodes[p].parent] : Earlier(order, y, nodes[p].item)
       /\ \A p \in root..hi - 1 :
            nodes[p].children = {q \in root + 1..hi - 1 : nodes[q].parent = p}
       /\ \A p, q \in root..hi - 1 : it[p] = it[q] => p = q
       /\ DOMAIN tree.header = Range(order) /\ tree.header \in [Range(order) -> Seq(Nat)]
       /\ \A y \in Range(order) :
            /\ tree.header[y] \in Seq(Nat) /\ IsInjective(tree.header[y])
            /\ Range(tree.header[y]) = {p \in root + 1..hi - 1 : nodes[p].item = y}
  BY <1>1 DEF Shape, root, order
<1>15. /\ \A p \in root..hi - 1 : jt[p] = it[p] /\ p \in 0..hi - 1 /\ p # hi
       /\ jt[hi] = Y
       /\ \A p \in root..hi : p \in root..hi - 1 \/ p = hi
       /\ \A p \in root + 1..hi : p \in root + 1..hi - 1 \/ p = hi
       /\ \A p \in root + 1..hi - 1 : p \in root..hi - 1 /\ p \in root + 1..hi
       /\ hi \in root + 1..hi /\ hi \in root..hi /\ root \in root..hi - 1
  BY <1>1 DEF jt
<1>16. \A p \in root..hi - 1 : it[p] # Y
  <2>1. \A p \in root..hi - 1 : it[p] = X \cup {x} <=> p \in nodes[s.at].children /\ nodes[p].item = x
    BY GrowChild DEF nodes, root, hi, tree
  <2>2. \A p : ~(p \in nodes[s.at].children /\ nodes[p].item = x)
    BY DEF nodes
  <2> QED
    BY <2>1, <2>2 DEF Y
<1>17. ASSUME NEW p \in root + 1..hi
       PROVE  /\ new[p].parent \in root..p - 1
              /\ new[p].item \in Range(order)
              /\ jt[p] = {new[p].item} \cup jt[new[p].parent]
              /\ \A y \in jt[new[p].parent] : Earlier(order, y, new[p].item)
  <2>1. CASE p = hi
    <3>1. new[p].parent = s.at /\ new[p].item = x /\ jt[s.at] = X /\ jt[p] = Y
      BY <1>2, <1>5, <1>9, <1>15, <2>1 DEF root, hi, tree
    <3> QED
      BY <1>2, <2>1, <3>1 DEF Y, root, hi, order, tree
  <2>2. CASE p \in root + 1..hi - 1
    <3>1. new[p].parent = nodes[p].parent /\ new[p].item = nodes[p].item /\ jt[p] = it[p]
      BY <1>10, <1>15, <2>2
    <3>2. nodes[p].parent \in root..p - 1 /\ nodes[p].parent \in root..hi - 1
      BY <1>1, <1>14, <2>2
    <3>3. jt[nodes[p].parent] = it[nodes[p].parent]
      BY <1>15, <3>2
    <3> QED
      BY <1>14, <2>2, <3>1, <3>2, <3>3
  <2> QED
    BY <1>15, <2>1, <2>2
<1>18. ASSUME NEW p \in root..hi
       PROVE  new[p].children = {q \in root + 1..hi : new[q].parent = p}
  <2>1. new[hi].parent = s.at /\ new[hi].children = {}
    BY <1>5, <1>9
  <2>2. \A q \in root + 1..hi - 1 : new[q].parent = nodes[q].parent
    BY <1>10, <1>15
  <2>3. CASE p = hi
    <3>1. \A q \in root + 1..hi : new[q].parent # hi
      <4>1. \A q \in root + 1..hi : new[q].parent \in root..q - 1
        BY <1>17
      <4> QED
        BY <1>1, <4>1
    <3> QED
      BY <2>1, <2>3, <3>1
  <2>4. CASE p \in root..hi - 1
    <3>1. /\ new[p].children = nodes[p].children \cup (IF p = s.at THEN {hi} ELSE {})
          /\ nodes[p].children = {q \in root + 1..hi - 1 : nodes[q].parent = p}
      BY <1>10, <1>14, <1>15, <2>4
    <3> QED
      BY <1>15, <2>1, <2>2, <3>1
  <2> QED
    BY <1>15, <2>3, <2>4
<1>19. \A p, q \in root..hi : jt[p] = jt[q] => p = q
  BY <1>14, <1>15, <1>16
<1>20. ASSUME NEW y \in Range(order)
       PROVE  /\ header[y] \in Seq(Nat) /\ IsInjective(header[y])
              /\ Range(header[y]) = {p \in root + 1..hi : new[p].item = y}
  <2>1. new[hi].item = x
    BY <1>5, <1>9
  <2>2. \A q \in root + 1..hi - 1 : new[q].item = nodes[q].item
    BY <1>10, <1>15
  <2>3. /\ tree.header[y] \in Seq(Nat) /\ IsInjective(tree.header[y])
        /\ Range(tree.header[y]) = {p \in root + 1..hi - 1 : nodes[p].item = y}
    BY <1>14
  <2>4. CASE y = x
    <3>1. header[y] = Linked(tree.header[y], hi)
      BY <1>14, <2>4 DEF header
    <3>2. hi \notin Range(tree.header[y]) /\ hi \in Nat
      BY <1>1, <1>15, <2>3
    <3> DEFINE old == tree.header[y]
    <3>3. old \in Seq(Nat) /\ IsInjective(old) /\ hi \notin Range(old)
      BY <2>3, <3>2
    <3> HIDE DEF old
    <3>4. /\ Linked(old, hi) \in Seq(Nat) /\ IsInjective(Linked(old, hi))
          /\ Range(Linked(old, hi)) = Range(old) \cup {hi}
      BY <3>2, <3>3, LinkedList
    <3>5. Range(old) \cup {hi} = {p \in root + 1..hi : new[p].item = y}
      BY <1>15, <2>1, <2>2, <2>3, <2>4 DEF old
    <3> QED
      BY <3>1, <3>4, <3>5 DEF old
  <2>5. CASE y # x
    <3>1. header[y] = tree.header[y]
      BY <1>14, <2>5 DEF header
    <3>2. {p \in root + 1..hi : new[p].item = y} = {p \in root + 1..hi - 1 : nodes[p].item = y}
      BY <1>15, <2>1, <2>2, <2>5
    <3> QED
      BY <2>3, <3>1, <3>2
  <2> QED
    BY <2>4, <2>5
<1>21. Shape(new, wood, hi + 1, jt)
  <2>1. (hi + 1) - 1 = hi /\ root < hi + 1 /\ hi + 1 \in Nat
    BY <1>1
  <2>2. jt \in [root..hi -> SUBSET Range(order)]
    <3>1. Y \in SUBSET Range(order)
      BY <1>2 DEF Y, order, tree
    <3>2. \A p \in root..hi : jt[p] \in SUBSET Range(order)
      BY <1>14, <1>15, <3>1
    <3>3. jt = [p \in root..hi |-> jt[p]]
      BY DEF jt
    <3> QED
      BY <3>2, <3>3
  <2>3. jt[root] = {} /\ new[root].parent = Null
    BY <1>10, <1>14, <1>15
  <2>4. header \in [Range(order) -> Seq(Nat)]
    <3>1. DOMAIN header = Range(order) /\ header = [y \in DOMAIN header |-> header[y]]
      BY <1>14 DEF header
    <3> HIDE DEF header
    <3> QED
      BY <1>20, <3>1
  <2> DEFINE end == hi + 1
  <2>5. end - 1 = hi /\ root < end /\ end \in Nat
    BY <2>1
  <2> HIDE DEF end
  <2>6. Shape(new, wood, end, jt)
    BY <1>1, <1>13, <1>17, <1>18, <1>19, <1>20, <2>2, <2>3, <2>4, <2>5 DEF Shape
  <2> QED
    BY <2>6 DEF end
<1>22. ASSUME NEW p
       PROVE  /\ it[p] # Y => Through(nodes, order, it, K, T, p) = Through(nodes, order, it, K, S, p)
  <2>1. Longer(order, K, S, G, X, x, Y)
    BY <1>1, <1>2 DEF Longer, Y, order, tree
  <2> QED
    BY <2>1, ThroughMore DEF T
<1>23. ASSUME NEW p \in root + 1..hi - 1
       PROVE  Through(new, order, jt, K, T, p) = Through(nodes, order, it, K, S, p)
  <2>1. new[p].item = nodes[p].item /\ jt[p] = it[p]
    BY <1>10, <1>15
  <2>2. Through(new, order, jt, K, T, p) = Through(nodes, order, it, K, T, p)
    BY <2>1 DEF Through
  <2>3. it[p] # Y
    BY <1>15, <1>16
  <2> QED
    BY <1>22, <2>2, <2>3
<1>24. /\ UpTo(order, Y, x) = Y
       /\ \A z \in X : UpTo(order, Y, z) = UpTo(order, X, z)
  <2>1. Lasts(order, X, x, Y)
    BY <1>1, <1>2 DEF Lasts, Y, order, tree
  <2> QED
    BY <2>1, LastOfPath
<1>25. /\ \A t \in G : T[t] = Y /\ S[t] = X
       /\ \A t \in K \ G : T[t] = S[t]
  BY <1>2 DEF T, Lengthened
<1>26. \A t \in K : \A z \in S[t] :
         \E p \in root + 1..hi - 1 : nodes[p].item = z /\ it[p] = UpTo(order, S[t], z)
  BY <1>1 DEF Content, root, order
<1>27. Through(new, order, jt, K, T, hi) = G
  <2>1. new[hi].item = x /\ jt[hi] = Y
    BY <1>5, <1>9, <1>15
  <2>2. \A t \in G : t \in Through(new, order, jt, K, T, hi)
    BY <1>2, <1>24, <1>25, <2>1 DEF Through, Y
  <2>3. ASSUME NEW t \in K, t \notin G
        PROVE  t \notin Through(new, order, jt, K, T, hi)
    <3>1. x \in S[t] => UpTo(order, S[t], x) # Y
      BY <1>15, <1>16, <1>26
    <3> QED
      BY <1>25, <2>1, <2>3, <3>1 DEF Through
  <2> QED
    BY <2>2, <2>3 DEF Through
<1>28. ASSUME NEW p \in root + 1..hi
       PROVE  /\ new[p].value = TidSum(Through(new, order, jt, K, T, p), w[new[p].item])
              /\ Through(new, order, jt, K, T, p) # {}
  <2>1. CASE p = hi
    BY <1>2, <1>4, <1>5, <1>9, <1>27, <2>1
  <2>2. CASE p \in root + 1..hi - 1
    <3>1. new[p].item = nodes[p].item /\ new[p].value = nodes[p].value
      BY <1>10, <1>15, <2>2
    <3>2. /\ nodes[p].value = TidSum(Through(nodes, order, it, K, S, p), w[nodes[p].item])
          /\ Through(nodes, order, it, K, S, p) # {}
      BY <1>1, <2>2 DEF Content, root, order
    <3> QED
      BY <1>23, <2>2, <3>1, <3>2
  <2> QED
    BY <1>15, <2>1, <2>2
<1>29. ASSUME NEW t \in K, NEW y \in T[t]
       PROVE  \E p \in root + 1..hi : new[p].item = y /\ jt[p] = UpTo(order, T[t], y)
  <2>1. ASSUME y \in S[t], UpTo(order, T[t], y) = UpTo(order, S[t], y)
        PROVE  \E p \in root + 1..hi : new[p].item = y /\ jt[p] = UpTo(order, T[t], y)
    <3>1. PICK p \in root + 1..hi - 1 : nodes[p].item = y /\ it[p] = UpTo(order, S[t], y)
      BY <1>26, <2>1
    <3>2. new[p].item = nodes[p].item /\ jt[p] = it[p] /\ p \in root + 1..hi
      BY <1>10, <1>15
    <3> QED
      BY <2>1, <3>1, <3>2
  <2>2. CASE t \in G
    <3>1. CASE y = x
      <4>1. new[hi].item = x /\ jt[hi] = Y
        BY <1>5, <1>9, <1>15
      <4> QED
        BY <1>15, <1>24, <1>25, <2>2, <3>1, <4>1
    <3>2. CASE y # x
      <4>1. y \in X
        BY <1>25, <2>2, <3>2 DEF Y
      <4> QED
        BY <1>24, <1>25, <2>1, <2>2, <4>1
    <3> QED
      BY <3>1, <3>2
  <2>3. CASE t \notin G
    BY <1>25, <2>1, <2>3
  <2> QED
    BY <2>2, <2>3
<1>30. Content(new, wood, hi + 1, jt, K, T, w)
  <2>1. (hi + 1) - 1 = hi
    BY <1>1
  <2> QED
    BY <1>13, <1>28, <1>29, <2>1 DEF Content
<1>31. \A p \in 0..root - 1 : new[p] = nodes[p]
  <2>1. \A p \in 0..root - 1 : p \in DOMAIN nodes /\ p # hi /\ p # s.at
    <3>1. s.at \in root..hi - 1
      BY <1>2 DEF root, hi, tree
    <3>2. \A p \in 0..root - 1 : p \in 0..hi - 1 /\ p # s.at /\ p # hi
      BY <1>1, <3>1
    <3> QED
      BY <1>1, <3>2 DEF ArenaRight, nodes, hi
  <2> QED
    BY <1>9, <2>1
<1>32. hi \in root..(hi + 1) - 1 /\ hi + 1 >= hi
  BY <1>1
<1>33. Grown(r, s, jt, K, T, w, Y)
  BY <1>11, <1>12, <1>13, <1>15, <1>21, <1>30, <1>31, <1>32 DEF Grown, root, order, tree, hi, nodes
<1> QED
  BY <1>33 DEF r, jt, T, Y, root, hi, tree

-----------------------------------------------------------------------------
(* A path *)

\* Content asks only for the paths of K.
LEMMA ContentSame ==
  ASSUME NEW nodes, NEW tree, NEW hi, NEW it, NEW K, NEW S, NEW T, NEW w, NEW v,
         Content(nodes, tree, hi, it, K, S, w), \A t \in K : T[t] = S[t],
         \A p \in tree.root + 1..hi - 1 : TidSum(Through(nodes, tree.order, it, K, S, p), v[nodes[p].item])
                              = TidSum(Through(nodes, tree.order, it, K, S, p), w[nodes[p].item])
  PROVE  Content(nodes, tree, hi, it, K, T, v)
<1>1. \A p : Through(nodes, tree.order, it, K, T, p) = Through(nodes, tree.order, it, K, S, p)
  BY DEF Through
<1> QED
  BY <1>1 DEF Content

\* Transactions of which nothing is in the tree.
LEMMA ContentEmpty ==
  ASSUME NEW nodes, NEW tree, NEW hi, NEW it, NEW K, NEW G, NEW S, NEW T, NEW w,
         Content(nodes, tree, hi, it, K, S, w), \A t \in K : t \notin G /\ T[t] = S[t],
         \A t \in G : T[t] = {}
  PROVE  Content(nodes, tree, hi, it, K \cup G, T, w)
<1>1. \A p : Through(nodes, tree.order, it, K \cup G, T, p) = Through(nodes, tree.order, it, K, S, p)
  BY DEF Through
<1>2. ASSUME NEW t \in K \cup G, NEW x \in T[t]
      PROVE  t \in K /\ x \in S[t] /\ T[t] = S[t]
  BY <1>2
<1> HIDE DEF Through
<1>3. \A t \in K \cup G : \A x \in T[t] :
        \E p \in tree.root + 1..hi - 1 : nodes[p].item = x /\ it[p] = UpTo(tree.order, T[t], x)
  BY <1>2 DEF Content
<1> QED
  BY <1>1, <1>3 DEF Content

\* What the insertion of a path may change.
Going(s, a, tree, it, K, T, w, Y) ==
  /\ s = [arena |-> s.arena, tree |-> s.tree, at |-> s.at]
  /\ ArenaRight(s.arena) /\ Shape(s.arena.nodes, s.tree, s.arena.next, it)
  /\ Content(s.arena.nodes, s.tree, s.arena.next, it, K, T, w)
  /\ s.tree.root = tree.root /\ s.tree.order = tree.order
  /\ s.at \in s.tree.root..s.arena.next - 1 /\ it[s.at] = Y
  /\ s.arena.next >= a.next
  /\ \A p \in 0..tree.root - 1 : s.arena.nodes[p] = a.nodes[p]

\* x is the next item of the paths of G.
Onward(s, a, tree, it, K, S, w, G, X, x, value, Y) ==
  /\ Going(s, a, tree, it, K, S, w, X) /\ a.next \in Nat
  /\ K \in SUBSET Tids /\ G \in SUBSET K /\ G # {}
  /\ \A t \in K : S[t] \in SUBSET Range(tree.order)
  /\ X \in SUBSET Range(tree.order) /\ \A t \in G : S[t] = X
  /\ x \in Range(tree.order) /\ \A y \in X : Earlier(tree.order, y, x)
  /\ value = TidSum(G, w[x]) /\ Y = X \cup {x}

LEMMA GoingOn ==
  ASSUME NEW s, NEW a, NEW tree, NEW it, NEW K, NEW S, NEW w, NEW G, NEW X, NEW x, NEW value, NEW Y,
         Onward(s, a, tree, it, K, S, w, G, X, x, value, Y)
  PROVE  \E jt : Going(Grow(s, x, value), a, tree, jt, K, Lengthened(K, S, G, Y), w, Y)
<1>0. Going(s, a, tree, it, K, S, w, X) /\ a.next \in Nat /\ Y = X \cup {x}
  BY DEF Onward
<1>1. Growing(s, it, K, S, w, G, X, x, value)
  BY DEF Growing, Going, Onward
<1> DEFINE same == {p \in s.arena.nodes[s.at].children : s.arena.nodes[p].item = x}
           r == Grow(s, x, value)
           T == Lengthened(K, S, G, Y)
           kt == [p \in s.tree.root..s.arena.next |-> IF p = s.arena.next THEN X \cup {x} ELSE it[p]]
<1> HIDE DEF same, r, T, kt
<1>2. \E jt : Grown(r, s, jt, K, T, w, Y)
  <2>1. CASE same # {}
    <3>1. Grown(r, s, it, K, T, w, Y)
      BY <1>0, <1>1, <2>1, GrowOld DEF same, r, T
    <3> QED
      BY <3>1
  <2>2. CASE same = {}
    <3>1. Grown(r, s, kt, K, T, w, Y)
      BY <1>0, <1>1, <2>2, GrowNew DEF same, r, T, kt
    <3> QED
      BY <3>1
  <2> QED
    BY <2>1, <2>2
<1>3. PICK jt : Grown(r, s, jt, K, T, w, Y)
  BY <1>2
<1>4. s.arena.next \in Nat /\ r.arena.next \in Nat /\ s.arena.next >= a.next
  BY <1>0, <1>3 DEF Grown, Going, ArenaRight
<1>5. r.arena.next >= a.next
  BY <1>0, <1>3, <1>4 DEF Grown
<1>6. \A p \in 0..tree.root - 1 : r.arena.nodes[p] = a.nodes[p]
  BY <1>0, <1>3 DEF Grown, Going
<1>7. Going(r, a, tree, jt, K, T, w, Y)
  <2>1. r.tree.root = tree.root /\ r.tree.order = tree.order
    BY <1>0, <1>3 DEF Grown, Going
  <2> QED
    BY <1>3, <1>5, <1>6, <2>1 DEF Grown, Going
<1> QED
  BY <1>7 DEF r, T

\* A tree holds what it has to.
Holds(nodes, tree, hi, K, S, w) ==
  \E it : Shape(nodes, tree, hi, it) /\ Content(nodes, tree, hi, it, K, S, w)

\* items are a path of the transactions of G.
Inserting(a, tree, items, value, K, G, S, w) ==
  /\ ArenaRight(a) /\ Holds(a.nodes, tree, a.next, K, S, w)
  /\ K \in SUBSET Tids /\ G \in SUBSET Tids /\ G # {} /\ K \cap G = {}
  /\ \A t \in K : S[t] \in SUBSET Range(tree.order)
  /\ \A t \in G : S[t] = items \cap Range(tree.order)
  /\ \A x \in items \cap Range(tree.order) : value[x] = TidSum(G, w[x])

Inserted(r, a, tree, K, S, w) ==
  /\ ArenaRight(r.arena) /\ Holds(r.arena.nodes, r.tree, r.arena.next, K, S, w)
  /\ r.tree.root = tree.root /\ r.tree.order = tree.order
  /\ r.arena.next >= a.next
  /\ \A p \in 0..tree.root - 1 : r.arena.nodes[p] = a.nodes[p]

\* A path is in the tree once it is inserted.
LEMMA InsertHolds ==
  ASSUME NEW a, NEW tree, NEW items, NEW value, NEW K, NEW G, NEW S, NEW w,
         Inserting(a, tree, items, value, K, G, S, w)
  PROVE  Inserted(Insert(a, tree, items, value), a, tree, K \cup G, S, w)
<1>0. /\ ArenaRight(a) /\ Holds(a.nodes, tree, a.next, K, S, w)
      /\ K \in SUBSET Tids /\ G \in SUBSET Tids /\ G # {} /\ K \cap G = {}
      /\ \A t \in K : S[t] \in SUBSET Range(tree.order)
      /\ \A t \in G : S[t] = items \cap Range(tree.order)
      /\ \A x \in items \cap Range(tree.order) : value[x] = TidSum(G, w[x])
  BY DEF Inserting
<1> DEFINE order == tree.order
           n == Len(order)
           L == K \cup G
           X(i) == {x \in items : \E j \in 1..i : order[j] = x}
           T(i) == [t \in L |-> IF t \in G THEN X(i) ELSE S[t]]
           r == Insert(a, tree, items, value)
<1>1. PICK it : Shape(a.nodes, tree, a.next, it) /\ Content(a.nodes, tree, a.next, it, K, S, w)
  BY <1>0 DEF Holds
<1>2. /\ InOrder(order) /\ n \in Nat /\ Range(order) = {order[i] : i \in 1..n}
      /\ tree.root \in Nat /\ a.next \in Nat /\ tree.root < a.next /\ it[tree.root] = {}
      /\ \A i, j \in 1..n : order[i] = order[j] => i = j
  BY <1>1, EarlierOrder DEF Shape, InOrder
<1>3. PICK grown :
        /\ grown[0] = [arena |-> a, tree |-> tree, at |-> tree.root]
        /\ \A i \in 1..n :
             grown[i] = IF order[i] \in items THEN Grow(grown[i - 1], order[i], value[order[i]])
                        ELSE grown[i - 1]
        /\ r = grown[n]
  BY <1>2, InsertSteps
<1> HIDE DEF r
<1> DEFINE Good(i) == \E jt : Going(grown[i], a, tree, jt, L, T(i), w, X(i))
<1>4. Good(0)
  <2>1. X(0) = {} /\ \A t \in G : T(0)[t] = {}
    OBVIOUS
  <2>2. \A t \in K : t \notin G /\ T(0)[t] = S[t]
    BY <1>0
  <2> DEFINE T0 == T(0)
  <2> HIDE DEF T0
  <2>3. Content(a.nodes, tree, a.next, it, L, T0, w)
    BY <1>1, <2>1, <2>2, ContentEmpty DEF T0
  <2>4. tree.root \in tree.root..a.next - 1
    BY <1>2
  <2>5. Going(grown[0], a, tree, it, L, T0, w, X(0))
    BY <1>0, <1>1, <1>2, <1>3, <2>1, <2>3, <2>4 DEF Going
  <2> QED
    BY <2>5 DEF T0
<1>5. ASSUME NEW i \in 1..n, Good(i - 1)
      PROVE  Good(i)
  <2> DEFINE x == order[i]
             X0 == X(i - 1)
             X1 == X(i)
             T0 == T(i - 1)
             T1 == T(i)
  <2>1. x \in Range(order) /\ i - 1 \in 0..n - 1
    BY <1>2
  <2>2. X0 \in SUBSET Range(order) /\ \A y \in X0 : Earlier(order, y, x)
    <3>1. ASSUME NEW y \in X0
          PROVE  y \in Range(order) /\ Earlier(order, y, x)
      <4>1. PICK j \in 1..i - 1 : order[j] = y
        OBVIOUS
      <4>2. j \in 1..n /\ j < i
        BY <1>2, <4>1
      <4> QED
        BY <1>2, <4>1, <4>2 DEF Earlier
    <3> QED
      BY <3>1
  <2>3. /\ x \in items => X1 = X0 \cup {x}
        /\ x \notin items => X1 = X0
    <3>1. \A j \in 1..i : j \in 1..i - 1 \/ j = i
      BY <1>2
    <3>2. i \in 1..i /\ \A j \in 1..i - 1 : j \in 1..i
      BY <1>2
    <3> QED
      BY <3>1, <3>2
  <2>4. \A t \in G : T0[t] = X0 /\ T1[t] = X1
    OBVIOUS
  <2>5. \A t \in L : T0[t] \in SUBSET Range(order)
    BY <1>0, <2>2
  <2>6. L \in SUBSET Tids /\ G \in SUBSET L
    BY <1>0
  <2>7. T1 = Lengthened(L, T0, G, X1)
    BY DEF Lengthened
  <2>8. x \in items => value[x] = TidSum(G, w[x])
    BY <1>0, <2>1
  <2>9. PICK jt : Going(grown[i - 1], a, tree, jt, L, T0, w, X0)
    BY <1>5
  <2>10. grown[i] = IF x \in items THEN Grow(grown[i - 1], x, value[x]) ELSE grown[i - 1]
    BY <1>3
  <2> HIDE DEF T0, T1, X0, X1, L, x
  <2>11. CASE x \in items
    <3> DEFINE s == grown[i - 1]
               v == value[x]
    <3>0. Onward(s, a, tree, jt, L, T0, w, G, X0, x, v, X1)
      BY <1>0, <1>2, <2>1, <2>2, <2>3, <2>4, <2>5, <2>6, <2>8, <2>9, <2>11 DEF Onward
    <3> HIDE DEF s, v
    <3>1. \E kt : Going(Grow(s, x, v), a, tree, kt, L, Lengthened(L, T0, G, X1), w, X1)
      BY <3>0, GoingOn
    <3> QED
      BY <2>7, <2>10, <2>11, <3>1 DEF T1, X1, L, s, v
  <2>12. CASE x \notin items
    <3>1. T1 = T0
      BY <2>3, <2>12 DEF T1, T0, X0, X1
    <3> QED
      BY <2>3, <2>9, <2>10, <2>12, <3>1 DEF T1, X1, L
  <2> QED
    BY <2>11, <2>12
<1> DEFINE bad == {i \in 0..n : ~Good(i)}
<1> HIDE DEF Good
<1>6. ASSUME bad # {} PROVE FALSE
  <2>0. bad \in SUBSET Nat
    OBVIOUS
  <2>1. PICK i \in bad : \A j \in bad : i <= j
    <3> HIDE DEF bad
    <3> QED
      BY <1>6, <2>0, LeastNumber
  <2>2. i \in 0..n /\ ~Good(i) /\ i # 0
    BY <1>4, <2>1
  <2>3. i \in 1..n /\ i - 1 \in 0..n
    BY <1>2, <2>2
  <2>4. Good(i - 1)
    <3>1. i - 1 \notin bad
      <4> HIDE DEF bad
      <4> QED
        BY <1>2, <2>1, <2>3
    <3> QED
      BY <2>3, <3>1
  <2> QED
    BY <1>5, <2>2, <2>3, <2>4
<1>7. Good(n)
  BY <1>2, <1>6
<1>8. PICK jt : Going(r, a, tree, jt, L, T(n), w, X(n))
  BY <1>3, <1>7 DEF Good
<1>9. X(n) = items \cap Range(order)
  BY <1>2
<1>10. \A t \in L : S[t] = T(n)[t]
  BY <1>0, <1>9
<1> DEFINE Tn == T(n)
<1>11. Shape(r.arena.nodes, r.tree, r.arena.next, jt) /\ Content(r.arena.nodes, r.tree, r.arena.next, jt, L, Tn, w)
  BY <1>8 DEF Going
<1>12. Content(r.arena.nodes, r.tree, r.arena.next, jt, L, S, w)
  <2> HIDE DEF Tn, L
  <2> QED
    BY <1>10, <1>11, ContentSame DEF Tn
<1>13. Holds(r.arena.nodes, r.tree, r.arena.next, K \cup G, S, w)
  BY <1>11, <1>12 DEF Holds
<1> QED
  BY <1>8, <1>13 DEF Going, Inserted, r

-----------------------------------------------------------------------------
(* The conditional tree *)

Above(order, X, x) == {y \in X : Earlier(order, y, x)}

\* A tree read from the arena.
Reading(tree, hi, it, K, S, w) ==
  /\ Shape(arena.nodes, tree, hi, it) /\ Content(arena.nodes, tree, hi, it, K, S, w)
  /\ K \in SUBSET Tids /\ \A t \in K : S[t] \in SUBSET Range(tree.order)

\* The base of x: tau gives the transactions of each of its paths.
BaseRight(base, tau, order, x, K, S, u) ==
  /\ Len(base) \in Nat /\ DOMAIN base = 1..Len(base)
  /\ \A i \in 1..Len(base) :
       /\ tau[i] \in SUBSET K /\ tau[i] # {} /\ base[i].value = TidSum(tau[i], u)
       /\ base[i].items \in SUBSET Range(order)
       /\ \A t \in tau[i] : x \in S[t] /\ base[i].items = Above(order, S[t], x)
  /\ \A i, j \in 1..Len(base) : i # j => tau[i] \cap tau[j] = {}
  /\ UNION {tau[i] : i \in 1..Len(base)} = {t \in K : x \in S[t]}

LEMMA InjectiveList ==
  ASSUME NEW list \in Seq(Nat), IsInjective(list)
  PROVE  /\ Len(list) \in Nat /\ DOMAIN list = 1..Len(list)
         /\ \A i \in 1..Len(list) : list[i] \in Range(list)
         /\ Range(list) = {list[i] : i \in 1..Len(list)}
         /\ \A i, j \in 1..Len(list) : list[i] = list[j] => i = j
<1>1. Len(list) \in Nat /\ DOMAIN list = 1..Len(list)
  OBVIOUS
<1>2. Range(list) = {list[i] : i \in 1..Len(list)}
  BY <1>1 DEF Range
<1>3. \A i, j \in 1..Len(list) : list[i] = list[j] => i = j
  BY <1>1 DEF IsInjective
<1> QED
  BY <1>1, <1>2, <1>3

LEMMA BaseIs ==
  ASSUME NEW tree, NEW hi, NEW it, NEW K, NEW S, NEW w, NEW x \in Range(tree.order),
         Reading(tree, hi, it, K, S, w)
  PROVE  /\ BaseRight(Base(tree, x),
                      [i \in DOMAIN tree.header[x] |->
                         Through(arena.nodes, tree.order, it, K, S, tree.header[x][i])],
                      tree.order, x, K, S, w[x])
         /\ Weight(tree, x) = TidSum({t \in K : x \in S[t]}, w[x])
<1> DEFINE nodes == arena.nodes
           order == tree.order
           root == tree.root
           list == tree.header[x]
           base == Base(tree, x)
           n == Len(list)
           tau == [i \in DOMAIN list |-> Through(nodes, order, it, K, S, list[i])]
           thru == [p \in Range(list) |-> Through(nodes, order, it, K, S, p)]
           N == Range(list)
<1>1. /\ InOrder(order) /\ root \in Nat /\ hi \in Nat /\ root < hi
      /\ it \in [root..hi - 1 -> SUBSET Range(order)] /\ it[root] = {}
      /\ \A p \in root + 1..hi - 1 :
           /\ nodes[p].parent \in root..p - 1
           /\ it[p] = {nodes[p].item} \cup it[nodes[p].parent]
           /\ \A y \in it[nodes[p].parent] : Earlier(order, y, nodes[p].item)
      /\ \A p, q \in root..hi - 1 : it[p] = it[q] => p = q
      /\ list \in Seq(Nat) /\ IsInjective(list)
      /\ N = {p \in root + 1..hi - 1 : nodes[p].item = x}
  BY DEF Reading, Shape
<1>2. /\ \A p \in root + 1..hi - 1 :
           /\ nodes[p].value = TidSum(Through(nodes, order, it, K, S, p), w[nodes[p].item])
           /\ Through(nodes, order, it, K, S, p) # {}
      /\ \A t \in K : \A y \in S[t] :
           \E p \in root + 1..hi - 1 : nodes[p].item = y /\ it[p] = UpTo(order, S[t], y)
      /\ K \in SUBSET Tids /\ \A t \in K : S[t] \in SUBSET Range(order)
  BY DEF Reading, Content
<1>3. /\ n \in Nat /\ DOMAIN list = 1..n /\ \A i \in 1..n : list[i] \in N
      /\ N = {list[i] : i \in 1..n} /\ \A i, j \in 1..n : list[i] = list[j] => i = j
  <2>1. list \in Seq(Nat) /\ IsInjective(list)
    BY <1>1
  <2> HIDE DEF list
  <2> QED
    BY <2>1, InjectiveList
<1> HIDE DEF N
<1>4. ASSUME NEW p \in N
      PROVE  /\ ItemsAbove(nodes, root, p) \in SUBSET Range(order)
             /\ \A t \in Through(nodes, order, it, K, S, p) :
                  x \in S[t] /\ ItemsAbove(nodes, root, p) = Above(order, S[t], x)
             /\ nodes[p].value = TidSum(Through(nodes, order, it, K, S, p), w[x])
             /\ Through(nodes, order, it, K, S, p) # {}
             /\ Through(nodes, order, it, K, S, p) \in SUBSET K
  <2>1. p \in root + 1..hi - 1 /\ nodes[p].item = x
    BY <1>1
  <2> DEFINE up == nodes[p].parent
  <2>2. /\ up \in root..p - 1 /\ it[p] = {x} \cup it[up]
        /\ \A y \in it[up] : Earlier(order, y, x)
    BY <1>1, <2>1
  <2>3. up \in Nat /\ root <= up /\ up \in root..hi - 1 /\ root \in Nat
    BY <1>1, <2>1, <2>2
  <2>4. \A q \in root + 1..up :
          nodes[q].parent \in root..q - 1 /\ it[q] = {nodes[q].item} \cup it[nodes[q].parent]
    <3>1. \A q \in root + 1..up : q \in root + 1..hi - 1
      BY <1>1, <2>3
    <3> QED
      BY <1>1, <3>1
  <2>5. ItemsAbove(nodes, root, p) = it[up]
    <3>1. it[root] = {}
      BY <1>1
    <3> DEFINE m == up
               nn == nodes
               rr == root
    <3>2. m \in Nat /\ rr \in Nat /\ rr <= m /\ it[rr] = {}
      BY <2>3, <3>1
    <3>3. \A q \in rr + 1..m :
            nn[q].parent \in rr..q - 1 /\ it[q] = {nn[q].item} \cup it[nn[q].parent]
      BY <2>4
    <3>5. Climbs(nn, rr, m, it)
      BY <3>2, <3>3 DEF Climbs
    <3> HIDE DEF m, nn, rr
    <3>4. ItemsTo(nn, rr, m) = it[m]
      BY <3>5, ItemsToIs
    <3> QED
      BY <3>4 DEF ItemsAbove, m, nn, rr
  <2>6. it[up] \in SUBSET Range(order)
    BY <1>1, <2>3
  <2>7. ASSUME NEW t \in Through(nodes, order, it, K, S, p)
        PROVE  x \in S[t] /\ it[up] = Above(order, S[t], x) /\ t \in K
    <3>1. t \in K /\ x \in S[t] /\ UpTo(order, S[t], x) = it[p]
      BY <2>1 DEF Through
    <3>2. ~Earlier(order, x, x)
      BY <1>1, EarlierOrder
    <3> QED
      BY <2>2, <3>1, <3>2 DEF UpTo, Above
  <2> QED
    BY <1>2, <2>1, <2>5, <2>6, <2>7
<1>5. ASSUME NEW p \in N, NEW q \in N, p # q
      PROVE  Through(nodes, order, it, K, S, p) \cap Through(nodes, order, it, K, S, q) = {}
  <2>1. it[p] # it[q] /\ nodes[p].item = x /\ nodes[q].item = x
    BY <1>1, <1>5
  <2> QED
    BY <2>1 DEF Through
<1>6. UNION {Through(nodes, order, it, K, S, p) : p \in N} = {t \in K : x \in S[t]}
  <2>1. ASSUME NEW t \in K, x \in S[t]
        PROVE  \E p \in N : t \in Through(nodes, order, it, K, S, p)
    <3>1. PICK p \in root + 1..hi - 1 : nodes[p].item = x /\ it[p] = UpTo(order, S[t], x)
      BY <1>2, <2>1
    <3> QED
      BY <1>1, <2>1, <3>1 DEF Through
  <2>2. ASSUME NEW p \in N, NEW t \in Through(nodes, order, it, K, S, p)
        PROVE  t \in K /\ x \in S[t]
    BY <1>4, <2>2
  <2> QED
    BY <2>1, <2>2
<1>7. base = [i \in 1..n |-> [items |-> ItemsAbove(nodes, root, list[i]), value |-> nodes[list[i]].value]]
  BY <1>3 DEF Base
<1>8. Len(base) = n /\ DOMAIN base = 1..n
  <2> HIDE DEF base, list, nodes, root
  <2>1. DOMAIN base = 1..n
    BY <1>7
  <2>2. base \in [1..n -> {base[i] : i \in 1..n}]
    BY <1>7
  <2>3. base \in Seq({base[i] : i \in 1..n}) /\ Len(base) = n
    BY <1>3, <2>2
  <2> QED
    BY <2>1, <2>3
<1>9. BaseRight(base, tau, order, x, K, S, w[x])
  <2>1. \A i \in 1..n : tau[i] = Through(nodes, order, it, K, S, list[i]) /\ list[i] \in N
    BY <1>3
  <2>2. \A i \in 1..n : base[i].items = ItemsAbove(nodes, root, list[i]) /\ base[i].value = nodes[list[i]].value
    BY <1>7, SMTT(30)
  <2>3. UNION {tau[i] : i \in 1..n} = {t \in K : x \in S[t]}
    <3>1. \A i \in 1..n : tau[i] = Through(nodes, order, it, K, S, list[i]) /\ list[i] \in N
      BY <2>1
    <3>2. \A p \in N : \E i \in 1..n : p = list[i]
      BY <1>3
    <3> HIDE DEF tau
    <3>3. ASSUME NEW p \in N
          PROVE  \E i \in 1..n : tau[i] = Through(nodes, order, it, K, S, p)
      BY <3>1, <3>2
    <3> QED
      BY <1>6, <3>1, <3>3, SMTT(30)
  <2>4. \A i, j \in 1..n : i # j => tau[i] \cap tau[j] = {}
    BY <1>3, <1>5, <2>1
  <2> HIDE DEF base, tau, list, nodes, root, order
  <2>5. \A i \in 1..n :
          /\ tau[i] \in SUBSET K /\ tau[i] # {} /\ base[i].value = TidSum(tau[i], w[x])
          /\ base[i].items \in SUBSET Range(order)
          /\ \A t \in tau[i] : x \in S[t] /\ base[i].items = Above(order, S[t], x)
    BY <1>4, <2>1, <2>2
  <2> QED
    BY <1>3, <1>8, <2>3, <2>4, <2>5 DEF BaseRight
<1>10. Weight(tree, x) = TidSum({t \in K : x \in S[t]}, w[x])
  <2> DEFINE val == [p \in N |-> nodes[p].value]
             th == [p \in N |-> Through(nodes, order, it, K, S, p)]
             u == w[x]
  <2>1. IsFiniteSet(N)
    <3>1. N \in SUBSET (root + 1..hi - 1)
      BY <1>1
    <3>2. IsFiniteSet(root + 1..hi - 1)
      <4>1. root + 1 \in Int /\ hi - 1 \in Int
        BY <1>1
      <4> QED
        BY <4>1, FS_Interval
    <3> QED
      BY <3>1, <3>2, FS_Subset
  <2>2. \A p \in N : th[p] \in SUBSET Tids /\ val[p] = TidSum(th[p], u)
    BY <1>2, <1>4
  <2>3. \A p, q \in N : p # q => th[p] \cap th[q] = {}
    BY <1>5
  <2>4. UNION {th[p] : p \in N} = {t \in K : x \in S[t]}
    BY <1>6
  <2>5. Weight(tree, x) = NodeSum(N, val)
    BY DEF Weight, N
  <2> HIDE DEF val, th, u
  <2>6. NodeSum(N, val) = TidSum(UNION {th[p] : p \in N}, u)
    BY <2>1, <2>2, <2>3, SumOfSums
  <2> QED
    BY <2>4, <2>5, <2>6 DEF u
<1> QED
  BY <1>9, <1>10

LocalRight(local, order, x, K, S, u) ==
  /\ DOMAIN local = {y \in Range(order) : \E t \in K : x \in S[t] /\ y \in Above(order, S[t], x)}
  /\ \A y \in DOMAIN local :
       local[y] = TidSum({t \in K : x \in S[t] /\ y \in Above(order, S[t], x)}, u)

\* The weights of the items of a base.
LEMMA LocalIs ==
  ASSUME NEW base, NEW tau, NEW order, NEW x, NEW K, NEW S, NEW u, K \in SUBSET Tids,
         BaseRight(base, tau, order, x, K, S, u)
  PROVE  LocalRight(LocalTwu(base), order, x, K, S, u)
<1> DEFINE n == Len(base)
           dom == UNION {base[i].items : i \in DOMAIN base}
           val == [i \in DOMAIN base |-> base[i].value]
<1>1. /\ n \in Nat /\ DOMAIN base = 1..n
      /\ \A i \in 1..n :
           /\ tau[i] \in SUBSET K /\ tau[i] # {} /\ base[i].value = TidSum(tau[i], u)
           /\ base[i].items \in SUBSET Range(order)
           /\ \A t \in tau[i] : x \in S[t] /\ base[i].items = Above(order, S[t], x)
      /\ \A i, j \in 1..n : i # j => tau[i] \cap tau[j] = {}
      /\ UNION {tau[i] : i \in 1..n} = {t \in K : x \in S[t]}
  BY DEF BaseRight
<1>2. /\ DOMAIN LocalTwu(base) = dom
      /\ \A y \in dom : LocalTwu(base)[y] = NodeSum({i \in 1..n : y \in base[i].items}, val)
  BY <1>1 DEF LocalTwu
<1>3. dom = {y \in Range(order) : \E t \in K : x \in S[t] /\ y \in Above(order, S[t], x)}
  <2>1. ASSUME NEW y \in dom
        PROVE  y \in Range(order) /\ \E t \in K : x \in S[t] /\ y \in Above(order, S[t], x)
    <3>1. PICK i \in 1..n : y \in base[i].items
      BY <1>1
    <3>2. PICK t \in tau[i] : TRUE
      BY <1>1
    <3> QED
      BY <1>1, <3>1, <3>2
  <2>2. ASSUME NEW y \in Range(order), NEW t \in K, x \in S[t], y \in Above(order, S[t], x)
        PROVE  y \in dom
    <3>1. PICK i \in 1..n : t \in tau[i]
      BY <1>1, <2>2
    <3>2. y \in base[i].items
      BY <1>1, <2>2, <3>1
    <3> QED
      BY <1>1, <3>2
  <2> QED
    BY <2>1, <2>2
<1>4. ASSUME NEW y \in dom
      PROVE  NodeSum({i \in 1..n : y \in base[i].items}, val)
               = TidSum({t \in K : x \in S[t] /\ y \in Above(order, S[t], x)}, u)
  <2> DEFINE N == {i \in 1..n : y \in base[i].items}
  <2>1. IsFiniteSet(N)
    <3>1. IsFiniteSet(1..n)
      <4>1. 1 \in Int /\ n \in Int
        BY <1>1
      <4> QED
        BY <4>1, FS_Interval
    <3> QED
      BY <3>1, FS_Subset
  <2>2. \A i \in N : tau[i] \in SUBSET Tids /\ val[i] = TidSum(tau[i], u)
    BY <1>1
  <2>3. \A i, j \in N : i # j => tau[i] \cap tau[j] = {}
    BY <1>1
  <2>4. UNION {tau[i] : i \in N} = {t \in K : x \in S[t] /\ y \in Above(order, S[t], x)}
    <3>1. ASSUME NEW i \in N, NEW t \in tau[i]
          PROVE  t \in K /\ x \in S[t] /\ y \in Above(order, S[t], x)
      BY <1>1
    <3>2. ASSUME NEW t \in K, x \in S[t], y \in Above(order, S[t], x)
          PROVE  \E i \in N : t \in tau[i]
      <4>1. PICK i \in 1..n : t \in tau[i]
        BY <1>1, <3>2
      <4>2. y \in base[i].items
        BY <1>1, <3>2, <4>1
      <4> QED
        BY <4>1, <4>2
    <3> QED
      BY <3>1, <3>2
  <2> HIDE DEF N, val
  <2>5. NodeSum(N, val) = TidSum(UNION {tau[i] : i \in N}, u)
    BY <2>1, <2>2, <2>3, SumOfSums
  <2> QED
    BY <2>4, <2>5 DEF N
<1> QED
  BY <1>2, <1>3, <1>4 DEF LocalRight

\* A tree behind the others.
Raised(r, next, nodes, own, K, R, v) ==
  /\ ArenaRight(r.arena) /\ Holds(r.arena.nodes, r.tree, r.arena.next, K, R, v)
  /\ r.tree.root = next /\ r.tree.order = own /\ r.arena.next > next
  /\ \A p \in 0..next - 1 : r.arena.nodes[p] = nodes[p]

\* A tree of nothing.
LEMMA NewTreeHolds ==
  ASSUME NEW a, ArenaRight(a), NEW order, InOrder(order), NEW S, NEW w
  PROVE  Raised(NewTree(a, order), a.next, a.nodes, order, {}, S, w)
<1> DEFINE node == Node(0, 0, Null)
           b == Allocate(a, node)
           wood == [root |-> a.next, order |-> order, header |-> [x \in Range(order) |-> <<>>]]
           it == [p \in {a.next} |-> {}]
           r == NewTree(a, order)
<1>1. node \in NodeType /\ node.parent = Null /\ node.children = {}
  BY DEF Node, NodeType, Null
<1> HIDE DEF node
<1>2. /\ ArenaRight(b) /\ b.next = a.next + 1 /\ b.nodes[a.next] = node
      /\ \A p \in DOMAIN a.nodes : p # a.next => b.nodes[p] = a.nodes[p]
  BY <1>1, AllocateRight
<1> HIDE DEF b
<1>3. r.arena = b /\ r.tree = wood
  BY DEF NewTree, b, node
<1>4. a.next \in Nat /\ b.next \in Nat
  BY <1>2 DEF ArenaRight
<1>5. /\ a.next..b.next - 1 = {a.next} /\ a.next + 1..b.next - 1 = {}
      /\ a.next < b.next
  BY <1>2, <1>4
<1>6. Shape(b.nodes, wood, b.next, it)
  <2>1. it \in [a.next..b.next - 1 -> SUBSET Range(order)] /\ it[a.next] = {}
    BY <1>5
  <2>2. \A x \in Range(order) :
          /\ wood.header[x] \in Seq(Nat) /\ IsInjective(wood.header[x])
          /\ Range(wood.header[x]) = {}
    BY DEF IsInjective, Range
  <2>3. \A p \in a.next..b.next - 1 : p = a.next /\ b.nodes[p].children = {} /\ b.nodes[p].parent = Null
    BY <1>1, <1>2, <1>5
  <2>4. wood.root = a.next /\ wood.order = order /\ wood.header \in [Range(order) -> Seq(Nat)]
    OBVIOUS
  <2>5. wood = [root |-> wood.root, order |-> wood.order, header |-> wood.header]
    OBVIOUS
  <2>6. a.next \in a.next..b.next - 1
    BY <1>5
  <2> HIDE DEF wood, it
  <2>7. \A p, q \in a.next..b.next - 1 : it[p] = it[q] => p = q
    BY <2>3
  <2>8. \A p \in a.next..b.next - 1 :
           b.nodes[p].children = {q \in a.next + 1..b.next - 1 : b.nodes[q].parent = p}
    BY <1>5, <2>3
  <2>9. \A x \in Range(order) :
           Range(wood.header[x]) = {p \in a.next + 1..b.next - 1 : b.nodes[p].item = x}
    BY <1>5, <2>2
  <2>10. \A p \in a.next + 1..b.next - 1 : FALSE
    BY <1>5
  <2> QED
    BY <1>4, <1>5, <2>1, <2>2, <2>3, <2>4, <2>5, <2>6, <2>7, <2>8, <2>9, <2>10 DEF Shape
<1>7. Content(b.nodes, wood, b.next, it, {}, S, w)
  <2>1. wood.root = a.next
    OBVIOUS
  <2> HIDE DEF wood, it
  <2> QED
    BY <1>5, <2>1 DEF Content
<1>8. \A p \in 0..a.next - 1 : p \in DOMAIN a.nodes /\ p # a.next
  BY <1>4 DEF ArenaRight
<1>9. Holds(b.nodes, wood, b.next, {}, S, w)
  BY <1>6, <1>7 DEF Holds
<1>10. wood.root = a.next /\ wood.order = order
  OBVIOUS
<1> HIDE DEF wood, r
<1> QED
  BY <1>2, <1>3, <1>4, <1>5, <1>8, <1>9, <1>10 DEF Raised, r

\* What an order of its own makes of a base.
Rebuilding(base, tau, order, x, K, S, u, own, R, v) ==
  /\ BaseRight(base, tau, order, x, K, S, u) /\ K \in SUBSET Tids
  /\ InOrder(order) /\ InOrder(own)
  /\ \A y \in Range(own) : Earlier(order, y, x)
  /\ \A t \in K : x \in S[t] => R[t] = S[t] \cap Range(own)
  /\ \A y \in Range(own) : \A G \in SUBSET {t \in K : x \in S[t]} : TidSum(G, v[y]) = TidSum(G, u)

LEMMA HoldsNext ==
  ASSUME NEW nodes, NEW tree, NEW hi, NEW K, NEW S, NEW w, Holds(nodes, tree, hi, K, S, w)
  PROVE  tree.root \in Nat /\ hi \in Nat /\ tree.root < hi /\ InOrder(tree.order)
BY DEF Holds, Shape

LEMMA ConditionalHolds ==
  ASSUME NEW base, NEW tau, NEW order, NEW x, NEW K, NEW S, NEW u, NEW own, NEW R, NEW v,
         ArenaRight(arena), Rebuilding(base, tau, order, x, K, S, u, own, R, v)
  PROVE  Raised(Conditional(base, own), arena.next, arena.nodes, own, {t \in K : x \in S[t]}, R, v)
<1> DEFINE n == Len(base)
           U(j) == {t \in K : \E i \in 1..j : t \in tau[i]}
           nodes == arena.nodes
           next == arena.next
<1>1. /\ n \in Nat /\ DOMAIN base = 1..n
      /\ \A i \in 1..n :
           /\ tau[i] \in SUBSET K /\ tau[i] # {} /\ base[i].value = TidSum(tau[i], u)
           /\ base[i].items \in SUBSET Range(order)
           /\ \A t \in tau[i] : x \in S[t] /\ base[i].items = Above(order, S[t], x)
      /\ \A i, j \in 1..n : i # j => tau[i] \cap tau[j] = {}
      /\ UNION {tau[i] : i \in 1..n} = {t \in K : x \in S[t]}
  BY DEF Rebuilding, BaseRight
<1>2. /\ K \in SUBSET Tids /\ InOrder(own)
      /\ \A y \in Range(own) : Earlier(order, y, x)
      /\ \A t \in K : x \in S[t] => R[t] = S[t] \cap Range(own)
      /\ \A y \in Range(own) : \A G \in SUBSET {t \in K : x \in S[t]} : TidSum(G, v[y]) = TidSum(G, u)
  BY DEF Rebuilding
<1>3. PICK built :
        /\ built[0] = NewTree(arena, own)
        /\ \A j \in 1..n :
             built[j] = Insert(built[j - 1].arena, built[j - 1].tree, base[j].items,
                               [y \in base[j].items |-> base[j].value])
        /\ Conditional(base, own) = built[n]
  BY <1>1, ConditionalSteps
<1> DEFINE Good(j) == Raised(built[j], next, nodes, own, U(j), R, v)
<1>4. next \in Nat
  BY DEF ArenaRight
<1>5. Good(0)
  <2>1. Raised(NewTree(arena, own), next, nodes, own, {}, R, v)
    BY <1>2, NewTreeHolds
  <2>2. U(0) = {}
    OBVIOUS
  <2> HIDE DEF U, next, nodes
  <2> QED
    BY <1>3, <2>1, <2>2
<1>6. ASSUME NEW j \in 1..n, Good(j - 1)
      PROVE  Good(j)
  <2> DEFINE b == built[j - 1]
             r == built[j]
             a == b.arena
             tree == b.tree
             items == base[j].items
             value == [y \in items |-> base[j].value]
             G == tau[j]
             U0 == U(j - 1)
             U1 == U(j)
  <2>1. r = Insert(a, tree, items, value)
    BY <1>3
  <2>2. /\ ArenaRight(a) /\ Holds(a.nodes, tree, a.next, U0, R, v)
        /\ tree.root = next /\ tree.order = own /\ a.next > next /\ a.next \in Nat
        /\ \A p \in 0..next - 1 : a.nodes[p] = nodes[p]
    BY <1>6 DEF Raised, ArenaRight
  <2>3. /\ G \in SUBSET K /\ G \in SUBSET Tids /\ G # {} /\ U0 \in SUBSET K /\ U0 \in SUBSET Tids
        /\ \A t \in U0 : x \in S[t]
        /\ \A t \in G : x \in S[t] /\ items = Above(order, S[t], x)
    <3>1. \A i \in 1..j - 1 : i \in 1..n
      BY <1>1
    <3> QED
      BY <1>1, <1>2, <3>1
  <2>4. U0 \cap G = {}
    <3>1. \A i \in 1..j - 1 : i \in 1..n /\ i # j
      BY <1>1
    <3> QED
      BY <1>1, <3>1
  <2>5. U1 = U0 \cup G
    <3>1. \A i \in 1..j : i \in 1..j - 1 \/ i = j
      BY <1>1
    <3>2. j \in 1..j /\ \A i \in 1..j - 1 : i \in 1..j
      BY <1>1
    <3> QED
      BY <2>3, <3>1, <3>2
  <2>6. /\ \A t \in U0 : R[t] \in SUBSET Range(own)
        /\ \A t \in G : R[t] = items \cap Range(own)
    <3>1. ASSUME NEW t \in G
          PROVE  R[t] = items \cap Range(own)
      <4>1. R[t] = S[t] \cap Range(own) /\ items = Above(order, S[t], x)
        BY <1>2, <2>3
      <4> QED
        BY <1>2, <4>1 DEF Above
    <3>2. \A t \in U0 : R[t] \in SUBSET Range(own)
      BY <1>2, <2>3
    <3> QED
      BY <3>1, <3>2
  <2>7. ASSUME NEW y \in items \cap Range(own)
        PROVE  value[y] = TidSum(G, v[y])
    <3>1. value[y] = TidSum(G, u)
      BY <1>1
    <3>2. G \in SUBSET {t \in K : x \in S[t]}
      BY <2>3
    <3> HIDE DEF value, G
    <3> QED
      BY <1>2, <3>1, <3>2
  <2> HIDE DEF U0, U1, G, value, items, a, tree, r
  <2>11. Inserting(a, tree, items, value, U0, G, R, v)
    BY <2>2, <2>3, <2>4, <2>6, <2>7 DEF Inserting
  <2>12. Inserted(r, a, tree, U0 \cup G, R, v)
    BY <2>1, <2>11, InsertHolds
  <2>8. /\ ArenaRight(r.arena) /\ Holds(r.arena.nodes, r.tree, r.arena.next, U0 \cup G, R, v)
        /\ r.tree.root = tree.root /\ r.tree.order = tree.order
        /\ r.arena.next >= a.next
        /\ \A p \in 0..tree.root - 1 : r.arena.nodes[p] = a.nodes[p]
    BY <2>12 DEF Inserted
  <2>9. r.arena.next > next
    <3>1. r.arena.next \in Nat
      BY <2>8 DEF ArenaRight
    <3> QED
      BY <1>4, <2>2, <2>8, <3>1
  <2>10. Raised(r, next, nodes, own, U1, R, v)
    BY <2>2, <2>5, <2>8, <2>9 DEF Raised
  <2> QED
    BY <2>10 DEF r, U1
<1> DEFINE bad == {i \in 0..n : ~Good(i)}
<1> HIDE DEF Good
<1>7. ASSUME bad # {} PROVE FALSE
  <2>0. bad \in SUBSET Nat
    OBVIOUS
  <2>1. PICK i \in bad : \A j \in bad : i <= j
    <3> HIDE DEF bad
    <3> QED
      BY <1>7, <2>0, LeastNumber
  <2>2. i \in 0..n /\ ~Good(i) /\ i # 0
    BY <1>5, <2>1
  <2>3. i \in 1..n /\ i - 1 \in 0..n
    BY <1>1, <2>2
  <2>4. Good(i - 1)
    <3>1. i - 1 \notin bad
      <4> HIDE DEF bad
      <4> QED
        BY <1>1, <2>1, <2>3
    <3> QED
      BY <2>3, <3>1
  <2> QED
    BY <1>6, <2>2, <2>3, <2>4
<1>8. Good(n)
  BY <1>1, <1>7
<1>9. U(n) = {t \in K : x \in S[t]}
  BY <1>1
<1> DEFINE Un == U(n)
<1>10. Raised(built[n], next, nodes, own, Un, R, v)
  BY <1>8 DEF Good
<1> HIDE DEF Un
<1>11. Un = {t \in K : x \in S[t]}
  BY <1>9 DEF Un
<1> QED
  BY <1>3, <1>10, <1>11

-----------------------------------------------------------------------------
(* Trees of prefixes *)

\* The paths of transactions in a tree of this order.
Paths(order) == [t \in Tids |-> PathOf(t, order)]

\* What transactions add to the nodes of items, in the tree of a frame.
Shares(frame) ==
  [x \in Items |-> [t \in Tids |->
     Share(t, frame, UpTo(frame.tree.order, PathOf(t, frame.tree.order), x))]]

\* The transactions that are in the tree of a frame.
Group(frame) ==
  Supporting(db, Range(frame.itemset)) \ (IF frame.itemset = <<>> THEN unread ELSE {})

\* The tree of a frame is in the slots up to hi.
Stands(a, frame, hi) ==
  Holds(a.nodes, frame.tree, hi, Group(frame), Paths(frame.tree.order), Shares(frame))

\* The items that may stand with the first of a prefix.
Company(frame) == {y \in DOMAIN twu : y = frame.itemset[1] \/ Ahead(twu, y, frame.itemset[1])}

Woods == [root : Nat, order : Seq(Items), header : UNION {[X -> Seq(Nat)] : X \in SUBSET Items}]

TreeFrames == [tree : Woods, itemset : Seq(Items), at : Nat, saved : Nat, bytes : Nat]

FrameRight(frame) ==
  LET order == frame.tree.order
      P == Range(frame.itemset)
  IN  /\ frame \in TreeFrames
      /\ InOrder(order) /\ Range(order) \subseteq DOMAIN twu /\ frame.at \in 0..Len(order)
      /\ InOrder(frame.itemset) /\ P \subseteq DOMAIN twu /\ P \cap Range(order) = {}
      /\ Grows /\ frame.itemset # <<>> => P \cup Range(order) \subseteq Company(frame)
      /\ ~Grows => frame.bytes = 0
      /\ frame.itemset = <<>> => order = Sorted(DOMAIN twu, twu)

\* The database and what its first pass has found.
Surveyed ==
  /\ db \in Databases /\ mode.minUtility \in Nat \ {0}
  /\ DOMAIN twu \in SUBSET Items /\ \A x \in DOMAIN twu : twu[x] \in Nat

LEMMA OfTid ==
  ASSUME Surveyed, NEW t \in Tids
  PROVE  db[t] \in [Items -> 0..MaxUtility] /\ \A x \in Items : db[t][x] \in Nat
<1>1. db[t] \in [Items -> 0..MaxUtility] /\ MaxUtility \in Nat
  BY Constants DEF Surveyed, Databases
<1> QED
  BY <1>1

\* An item that a transaction does not have adds nothing.
LEMMA ItemSumPresent ==
  ASSUME NEW d, NEW A, NEW B, \A x \in A \cup B : d[x] \in Nat,
         \A x \in A \cup B : d[x] > 0 => (x \in A <=> x \in B)
  PROVE  ItemSum(A, d) = ItemSum(B, d)
<1> DEFINE C == Bytes(A, d, MaxUtility)
           D == Bytes(B, d, MaxUtility)
<1>1. C = D
  <2>1. \A b \in (A \cup B) \X (1..MaxUtility) : b[2] <= d[b[1]] => d[b[1]] > 0
    BY Constants
  <2>2. C \in SUBSET ((A \cup B) \X (1..MaxUtility)) /\ D \in SUBSET ((A \cup B) \X (1..MaxUtility))
    BY DEF Bytes
  <2>3. \A b \in (A \cup B) \X (1..MaxUtility) : b \in C <=> b \in D
    BY <2>1 DEF Bytes
  <2> HIDE DEF C, D
  <2> QED
    BY <2>2, <2>3
<1> QED
  BY <1>1 DEF ItemSum, Footprint

LEMMA ShareType ==
  ASSUME Surveyed, NEW frame, NEW t \in Tids, NEW part \in SUBSET Items
  PROVE  Share(t, frame, part) \in Nat
<1>1. db \in Databases
  BY DEF Surveyed
<1> DEFINE A == {y \in DOMAIN twu : y = frame.itemset[1] \/ Ahead(twu, y, frame.itemset[1])}
<1>2. A \in SUBSET Items
  BY DEF Surveyed
<1> HIDE DEF A
<1>3. ItemSum(A, db[t]) \in Nat /\ ItemSum(part, db[t]) \in Nat /\ TransactionUtility(db, t) \in Nat
  BY <1>1, <1>2, ItemSums
<1> QED
  BY <1>3 DEF Share, A

LEMMA PathTypes ==
  ASSUME Surveyed, NEW order, InOrder(order), NEW t \in Tids
  PROVE  /\ Paths(order)[t] = PathOf(t, order) /\ PathOf(t, order) \in SUBSET Range(order)
         /\ Range(order) \in SUBSET Items
         /\ \A x : UpTo(order, PathOf(t, order), x) \in SUBSET Items
<1>1. Range(order) \in SUBSET Items
  BY EarlierOrder
<1>2. PathOf(t, order) \in SUBSET Range(order)
  BY DEF PathOf
<1> QED
  BY <1>1, <1>2 DEF UpTo, Paths

\* What a prefix has to add covers the utility of every itemset that it goes on to.
LEMMA ShareCovers ==
  ASSUME Surveyed, NEW frame, FrameRight(frame), NEW t \in Tids, NEW x \in Range(frame.tree.order),
         NEW H \in SUBSET Items, HasAll(db, t, H), x \in H,
         \A y \in H : y \in Range(frame.itemset) \/ y = x
                        \/ (y \in Range(frame.tree.order) /\ Earlier(frame.tree.order, y, x))
  PROVE  ItemSum(H, db[t]) <= Shares(frame)[x][t] /\ Shares(frame)[x][t] \in Nat
<1> DEFINE order == frame.tree.order
           part == UpTo(order, PathOf(t, order), x)
           P == Range(frame.itemset)
<1>0. /\ InOrder(order) /\ Range(order) \in SUBSET DOMAIN twu /\ P \in SUBSET DOMAIN twu
      /\ Grows /\ frame.itemset # <<>> => P \cup Range(order) \in SUBSET Company(frame)
  BY DEF FrameRight
<1>1. db \in Databases /\ part \in SUBSET Items /\ x \in Items /\ Range(order) \in SUBSET Items
  BY <1>0, PathTypes DEF Surveyed
<1>2. Shares(frame)[x][t] = Share(t, frame, part) /\ Share(t, frame, part) \in Nat
  <2>1. Share(t, frame, part) \in Nat
    BY <1>1, ShareType
  <2> QED
    BY <1>1, <2>1 DEF Shares
<1>3. CASE ~Grows
  <2>1. ItemSum(H, db[t]) <= TransactionUtility(db, t)
    BY <1>1, ItemSums
  <2>2. Share(t, frame, part) = TransactionUtility(db, t)
    BY <1>3 DEF Share
  <2> QED
    BY <1>2, <2>1, <2>2
<1>4. CASE Grows /\ frame.itemset = <<>>
  <2>1. P = {}
    BY <1>4 DEF Range
  <2>2. H \in SUBSET part
    <3>1. ASSUME NEW y \in H
          PROVE  y \in part
      <4>1. db[t][y] > 0 /\ y \in Range(order) /\ (y = x \/ Earlier(order, y, x))
        BY <2>1 DEF HasAll
      <4> QED
        BY <4>1 DEF UpTo, PathOf
    <3> QED
      BY <3>1
  <2>3. Share(t, frame, part) = ItemSum(part, db[t])
    BY <1>4 DEF Share
  <2>4. IsFiniteSet(part) /\ MaxUtility \in Nat
    BY <1>1, Constants, FS_Subset
  <2> DEFINE d == db[t]
  <2> HIDE DEF part, d
  <2>5. ItemSum(H, d) <= ItemSum(part, d)
    BY <2>2, <2>4, FootprintMonotone DEF ItemSum
  <2> QED
    BY <1>2, <2>3, <2>5 DEF d
<1>5. CASE Grows /\ frame.itemset # <<>>
  <2> DEFINE C == Company(frame)
  <2>1. H \in SUBSET C
    BY <1>0, <1>5
  <2>2. C \in SUBSET Items
    BY DEF Company, Surveyed
  <2>3. Share(t, frame, part) = ItemSum(C, db[t])
    BY <1>5 DEF Share, Company
  <2>4. IsFiniteSet(C) /\ MaxUtility \in Nat
    BY <2>2, Constants, FS_Subset
  <2> DEFINE d == db[t]
  <2> HIDE DEF C, d
  <2>5. ItemSum(H, d) <= ItemSum(C, d)
    BY <2>1, <2>4, FootprintMonotone DEF ItemSum
  <2> QED
    BY <1>2, <2>3, <2>5 DEF d
<1> QED
  BY <1>3, <1>4, <1>5

LEMMA AppendOrder ==
  ASSUME NEW s, InOrder(s), NEW x \in Items, x \notin Range(s)
  PROVE  /\ InOrder(Append(s, x)) /\ Range(Append(s, x)) = Range(s) \cup {x}
         /\ Append(s, x) # <<>> /\ Append(s, x)[1] = IF s = <<>> THEN x ELSE s[1]
         /\ Len(Append(s, x)) = Len(s) + 1
<1> DEFINE n == Len(s)
           r == Append(s, x)
<1>1. /\ s \in Seq(Items) /\ n \in Nat /\ Range(s) = {s[i] : i \in 1..n}
      /\ \A i, j \in 1..n : s[i] = s[j] => i = j
  BY EarlierOrder DEF InOrder
<1>2. /\ r \in Seq(Items) /\ Len(r) = n + 1 /\ r[n + 1] = x /\ \A i \in 1..n : r[i] = s[i]
      /\ DOMAIN r = 1..n + 1
  BY <1>1, AppendProperties
<1>3. \A i \in 1..n + 1 : i \in 1..n \/ i = n + 1
  BY <1>1
<1>4. n + 1 \in 1..n + 1 /\ \A i \in 1..n : i \in 1..n + 1
  BY <1>1
<1> HIDE DEF r
<1>5. \A i \in 1..n : s[i] # x
  BY <1>1
<1>6. InOrder(r)
  <2>1. ASSUME NEW i \in 1..n + 1, NEW j \in 1..n + 1, r[i] = r[j]
        PROVE  i = j
    BY <1>1, <1>2, <1>3, <1>5, <2>1
  <2> QED
    BY <1>2, <2>1 DEF InOrder
<1>7. Range(r) = {r[i] : i \in 1..n + 1}
  BY <1>2 DEF Range
<1>8. Range(r) = Range(s) \cup {x}
  <2>1. \A i \in 1..n + 1 : r[i] \in Range(s) \cup {x}
    BY <1>1, <1>2, <1>3
  <2>2. \A y \in Range(s) \cup {x} : y \in Range(r)
    <3>1. x \in Range(r)
      BY <1>2, <1>4, <1>7
    <3>2. \A i \in 1..n : s[i] \in Range(r)
      BY <1>2, <1>4, <1>7
    <3> QED
      BY <1>1, <3>1, <3>2
  <2> QED
    BY <1>7, <2>1, <2>2
<1>9. r # <<>> /\ r[1] = IF s = <<>> THEN x ELSE s[1]
  <2>1. CASE s = <<>>
    <3>1. n = 0
      BY <2>1
    <3> QED
      BY <1>2, <2>1, <3>1
  <2>2. CASE s # <<>>
    <3>1. n > 0 /\ 1 \in 1..n
      BY <1>1, <2>2
    <3>2. Len(r) # 0
      BY <1>1, <1>2
    <3> QED
      BY <1>2, <2>2, <3>1, <3>2
  <2> QED
    BY <2>1, <2>2
<1> QED
  BY <1>2, <1>6, <1>8, <1>9 DEF r

\* An item is mined.
MiningOf(f, x) ==
  /\ Surveyed /\ unread = {} /\ ArenaRight(arena)
  /\ FrameRight(f) /\ Stands(arena, f, arena.next)
  /\ f.at > 0 /\ x = f.tree.order[f.at]

LEMMA ItemBefore ==
  ASSUME NEW order, InOrder(order), NEW at \in 1..Len(order), NEW x, x = order[at]
  PROVE  /\ x \in Range(order)
         /\ {order[i] : i \in 1..at - 1} = {y \in Range(order) : Earlier(order, y, x)}
         /\ {order[i] : i \in 1..at} = {y \in Range(order) : Earlier(order, y, x)} \cup {x}
<1>1. /\ Len(order) \in Nat /\ Range(order) = {order[i] : i \in 1..Len(order)}
      /\ \A i, j \in 1..Len(order) : order[i] = order[j] => i = j
  BY EarlierOrder DEF InOrder
<1>2. \A i \in 1..at - 1 : i \in 1..Len(order) /\ i < at
  BY <1>1
<1>3. ASSUME NEW y, Earlier(order, y, x)
      PROVE  \E i \in 1..at - 1 : order[i] = y
  <2>1. PICK i, j \in 1..Len(order) : i < j /\ order[i] = y /\ order[j] = x
    BY <1>3 DEF Earlier
  <2>2. j = at /\ i \in 1..at - 1
    BY <1>1, <2>1
  <2> QED
    BY <2>1, <2>2
<1>4. \A i \in 1..at - 1 : Earlier(order, order[i], x) /\ order[i] \in Range(order)
  BY <1>1, <1>2 DEF Earlier
<1>5. \A i \in 1..at : i \in 1..at - 1 \/ i = at
  BY <1>1
<1>6. at \in 1..at /\ \A i \in 1..at - 1 : i \in 1..at
  BY <1>1
<1>7. {order[i] : i \in 1..at - 1} = {y \in Range(order) : Earlier(order, y, x)}
  BY <1>3, <1>4
<1>8. {order[i] : i \in 1..at} = {order[i] : i \in 1..at - 1} \cup {x}
  BY <1>5, <1>6
<1> QED
  BY <1>1, <1>7, <1>8

LEMMA MiningFacts ==
  ASSUME NEW f, NEW x, MiningOf(f, x)
  PROVE  LET order == f.tree.order
             P == Range(f.itemset)
             K == Group(f)
             S == Paths(order)
         IN  /\ InOrder(order) /\ Range(order) \in SUBSET DOMAIN twu /\ f.at \in 1..Len(order)
             /\ InOrder(f.itemset) /\ P \in SUBSET DOMAIN twu /\ P \cap Range(order) = {}
             /\ x \in Range(order) /\ x \in Items /\ x \notin P /\ P \in SUBSET Items
             /\ K = Supporting(db, P) /\ K \in SUBSET Tids
             /\ \A t \in K : S[t] \in SUBSET Range(order)
             /\ {t \in K : x \in S[t]} = Supporting(db, P \cup {x})
             /\ \A y : Earlier(order, y, x) =>
                  {t \in K : x \in S[t] /\ y \in Above(order, S[t], x)} = Supporting(db, P \cup {x, y})
<1> DEFINE order == f.tree.order
           P == Range(f.itemset)
           K == Group(f)
           S == Paths(order)
<1>1. /\ InOrder(order) /\ Range(order) \in SUBSET DOMAIN twu /\ f.at \in 1..Len(order)
      /\ InOrder(f.itemset) /\ P \in SUBSET DOMAIN twu /\ P \cap Range(order) = {}
      /\ Surveyed /\ unread = {}
  BY DEF MiningOf, FrameRight
<1>2. x \in Range(order) /\ x \in Items /\ P \in SUBSET Items /\ x \notin P
  <2>1. x = order[f.at]
    BY DEF MiningOf
  <2>2. x \in Range(order)
    BY <1>1, <2>1, ItemBefore
  <2> QED
    BY <1>1, <2>2 DEF Surveyed
<1>3. K = Supporting(db, P) /\ K \in SUBSET Tids
  BY <1>1 DEF Group, Supporting
<1>4. \A t \in Tids : S[t] = PathOf(t, order)
  BY DEF Paths
<1>5. \A t \in K : S[t] \in SUBSET Range(order)
  BY <1>3, <1>4 DEF PathOf
<1>6. {t \in K : x \in S[t]} = Supporting(db, P \cup {x})
  BY <1>2, <1>3, <1>4 DEF PathOf, Supporting, HasAll
<1>7. ASSUME NEW y, Earlier(order, y, x)
      PROVE  {t \in K : x \in S[t] /\ y \in Above(order, S[t], x)} = Supporting(db, P \cup {x, y})
  <2>1. y \in Range(order)
    BY <1>1, <1>7, EarlierOrder
  <2>2. \A t \in Tids : x \in S[t] /\ y \in Above(order, S[t], x) <=> db[t][x] > 0 /\ db[t][y] > 0
    BY <1>2, <1>4, <1>7, <2>1 DEF PathOf, Above
  <2> QED
    BY <1>3, <2>2 DEF Supporting, HasAll
<1> QED
  BY <1>1, <1>2, <1>3, <1>5, <1>6, <1>7

\* The items of the conditional tree: those the prefix can go on with.
LEMMA MinedBase ==
  ASSUME NEW f, NEW x, MiningOf(f, x)
  PROVE  LET order == f.tree.order
             P == Range(f.itemset)
             base == Base(f.tree, x)
             u == Shares(f)[x]
             own == LocalOrder(LocalTwu(base))
         IN  /\ Weight(f.tree, x) = TidSum(Supporting(db, P \cup {x}), u)
             /\ \E tau : BaseRight(base, tau, order, x, Group(f), Paths(order), u)
             /\ InOrder(own)
             /\ Range(own) = {y \in Range(order) : Earlier(order, y, x)
                                /\ TidSum(Supporting(db, P \cup {x, y}), u) >= mode.minUtility}
<1> DEFINE order == f.tree.order
           tree == f.tree
           P == Range(f.itemset)
           K == Group(f)
           S == Paths(order)
           w == Shares(f)
           base == Base(tree, x)
           local == LocalTwu(base)
           own == LocalOrder(local)
           min == mode.minUtility
<1>1. /\ InOrder(order) /\ Range(order) \in SUBSET DOMAIN twu
      /\ x \in Range(order) /\ x \in Items
      /\ K = Supporting(db, P) /\ K \in SUBSET Tids
      /\ \A t \in K : S[t] \in SUBSET Range(order)
      /\ {t \in K : x \in S[t]} = Supporting(db, P \cup {x})
      /\ \A y : Earlier(order, y, x) =>
           {t \in K : x \in S[t] /\ y \in Above(order, S[t], x)} = Supporting(db, P \cup {x, y})
  BY MiningFacts
<1>0. /\ DOMAIN twu \in SUBSET Items /\ \A y \in DOMAIN twu : twu[y] \in Nat
      /\ min \in Nat \ {0}
  BY DEF MiningOf, Surveyed
<1>2. PICK it : Shape(arena.nodes, tree, arena.next, it) /\ Content(arena.nodes, tree, arena.next, it, K, S, w)
  BY DEF MiningOf, Stands, Holds
<1>3. Reading(tree, arena.next, it, K, S, w)
  BY <1>1, <1>2 DEF Reading
<1> DEFINE tau == [i \in DOMAIN tree.header[x] |->
                     Through(arena.nodes, tree.order, it, K, S, tree.header[x][i])]
           next == arena.next
           u == w[x]
<1> HIDE DEF K, S, w
<1>4. /\ BaseRight(base, tau, order, x, K, S, u)
      /\ Weight(tree, x) = TidSum({t \in K : x \in S[t]}, u)
  <2> DEFINE wood == tree
  <2>1. Reading(wood, next, it, K, S, w) /\ x \in Range(wood.order)
    BY <1>1, <1>3
  <2> DEFINE t0 == [i \in DOMAIN wood.header[x] |->
                      Through(arena.nodes, wood.order, it, K, S, wood.header[x][i])]
  <2> HIDE DEF wood, next
  <2>2. /\ BaseRight(Base(wood, x), t0, wood.order, x, K, S, w[x])
        /\ Weight(wood, x) = TidSum({t \in K : x \in S[t]}, w[x])
    BY <2>1, BaseIs
  <2> QED
    BY <2>2 DEF wood
<1> HIDE DEF tau, base, u
<1>5. /\ DOMAIN local = {y \in Range(order) : \E t \in K : x \in S[t] /\ y \in Above(order, S[t], x)}
      /\ \A y \in DOMAIN local :
           local[y] = TidSum({t \in K : x \in S[t] /\ y \in Above(order, S[t], x)}, u)
  <2> DEFINE oo == order
  <2>1. BaseRight(base, tau, oo, x, K, S, u) /\ K \in SUBSET Tids
    BY <1>1, <1>4
  <2> HIDE DEF oo
  <2>2. LocalRight(LocalTwu(base), oo, x, K, S, u)
    BY <2>1, LocalIs
  <2> QED
    BY <2>2 DEF oo, LocalRight
<1> HIDE DEF local
<1>6. \A y \in DOMAIN local : Earlier(order, y, x) /\ y \in Range(order)
  BY <1>5 DEF Above
<1>7. \A y \in DOMAIN local : local[y] = TidSum(Supporting(db, P \cup {x, y}), u) /\ local[y] \in Nat
  <2>1. \A A : Supporting(db, A) \in SUBSET Tids
    BY DEF Supporting
  <2>2. ASSUME NEW y \in DOMAIN local
        PROVE  local[y] = TidSum(Supporting(db, P \cup {x, y}), u)
    BY <1>1, <1>5, <1>6
  <2>3. \A A \in SUBSET Tids : TidSum(A, u) \in Nat
    BY TidSumBound
  <2> QED
    BY <2>1, <2>2, <2>3
<1>8. ASSUME NEW y \in Range(order), Earlier(order, y, x), y \notin DOMAIN local
      PROVE  TidSum(Supporting(db, P \cup {x, y}), u) = 0
  <2>1. Supporting(db, P \cup {x, y}) = {}
    <3>1. {t \in K : x \in S[t] /\ y \in Above(order, S[t], x)} = {}
      BY <1>5, <1>8
    <3> QED
      BY <1>1, <1>8, <3>1
  <2> QED
    BY <2>1, EmptyFootprint DEF TidSum
<1> DEFINE A == {y \in DOMAIN local : local[y] >= min}
           weight == IF Grows THEN local ELSE twu
<1>9. A \in SUBSET Items /\ \A y \in A : weight[y] \in Nat
  BY <1>0, <1>1, <1>6, <1>7
<1>10. own = Sorted(A, weight)
  BY DEF LocalOrder
<1>11. A = {y \in Range(order) : Earlier(order, y, x) /\ TidSum(Supporting(db, P \cup {x, y}), u) >= min}
  <2>1. ASSUME NEW y \in A
        PROVE  y \in Range(order) /\ Earlier(order, y, x) /\ TidSum(Supporting(db, P \cup {x, y}), u) >= min
    BY <1>6, <1>7
  <2>2. ASSUME NEW y \in Range(order), Earlier(order, y, x),
               TidSum(Supporting(db, P \cup {x, y}), u) >= min
        PROVE  y \in A
    BY <1>0, <1>7, <1>8, <2>2
  <2> QED
    BY <2>1, <2>2
<1> HIDE DEF A, weight, own
<1>12. InOrder(own) /\ Range(own) = A
  BY <1>9, <1>10, SortedOrder
<1> QED
  BY <1>1, <1>4, <1>11, <1>12 DEF K, S, w, u, base, local, own

\* What its paths add is what they add to the tree that is mined.
LEMMA ChildShares ==
  ASSUME NEW f, NEW x, MiningOf(f, x), NEW g, g.itemset = Append(f.itemset, x),
         NEW y \in Items
  PROVE  \A G \in SUBSET Tids : TidSum(G, Shares(g)[y]) = TidSum(G, Shares(f)[x])
<1> DEFINE order == f.tree.order
           own == g.tree.order
           P == f.itemset
<1>1. /\ InOrder(order) /\ Range(order) \in SUBSET DOMAIN twu
      /\ InOrder(P) /\ x \in Range(order) /\ x \in Items /\ x \notin Range(P)
  BY MiningFacts
<1>2. /\ Surveyed /\ (P = <<>> => order = Sorted(DOMAIN twu, twu))
  BY DEF MiningOf, FrameRight
<1>3. g.itemset # <<>> /\ g.itemset[1] = IF P = <<>> THEN x ELSE P[1]
  BY <1>1, AppendOrder
<1>0. SUFFICES ASSUME NEW G \in SUBSET Tids
               PROVE  TidSum(G, Shares(g)[y]) = TidSum(G, Shares(f)[x])
  OBVIOUS
<1>4. ASSUME NEW t \in G
      PROVE  Shares(g)[y][t] = Shares(f)[x][t]
  <2> DEFINE part == UpTo(own, PathOf(t, own), y)
             whole == UpTo(order, PathOf(t, order), x)
  <2>1. Shares(g)[y][t] = Share(t, g, part) /\ Shares(f)[x][t] = Share(t, f, whole)
    BY <1>1 DEF Shares
  <2>2. CASE ~Grows
    BY <2>1, <2>2 DEF Share
  <2>3. CASE Grows /\ P # <<>>
    BY <1>3, <2>1, <2>3 DEF Share
  <2>4. CASE Grows /\ P = <<>>
    <3> DEFINE C == {z \in DOMAIN twu : z = g.itemset[1] \/ Ahead(twu, z, g.itemset[1])}
               d == db[t]
    <3>1. Share(t, g, part) = ItemSum(C, d) /\ Share(t, f, whole) = ItemSum(whole, d)
      BY <1>3, <2>4 DEF Share
    <3>2. DOMAIN twu \in SUBSET Items /\ \A z \in DOMAIN twu : twu[z] \in Nat
      BY <1>2 DEF Surveyed
    <3>3. /\ Range(order) = DOMAIN twu
          /\ \A a, b \in DOMAIN twu : Earlier(order, a, b) <=> Ahead(twu, a, b)
      <4> DEFINE D == DOMAIN twu
      <4> HIDE DEF D
      <4>1. D \in SUBSET Items /\ \A z \in D : twu[z] \in Nat
        BY <3>2 DEF D
      <4>2. Range(Sorted(D, twu)) = D /\ \A a, b \in D : Earlier(Sorted(D, twu), a, b) <=> Ahead(twu, a, b)
        BY <4>1, SortedOrder
      <4> QED
        BY <1>2, <2>4, <4>2 DEF D
    <3>4. g.itemset[1] = x
      BY <1>3, <2>4
    <3>5. whole = {z \in C : d[z] > 0}
      BY <1>1, <3>3, <3>4 DEF UpTo, PathOf
    <3>6. \A z \in C \cup whole : d[z] \in Nat
      <4>1. \A z \in Items : d[z] \in Nat
        BY <1>2, OfTid
      <4>2. C \cup whole \in SUBSET Items
        BY <3>2, <3>5
      <4> QED
        BY <4>1, <4>2
    <3>7. \A z \in C \cup whole : d[z] > 0 => (z \in C <=> z \in whole)
      BY <3>5
    <3> HIDE DEF C, d, whole
    <3>8. ItemSum(C, d) = ItemSum(whole, d)
      BY <3>6, <3>7, ItemSumPresent
    <3> QED
      BY <2>1, <3>1, <3>8
  <2> QED
    BY <2>2, <2>3, <2>4
<1> DEFINE one == Shares(g)[y]
           other == Shares(f)[x]
<1> HIDE DEF one, other
<1>5. \A t \in G : one[t] = other[t]
  BY <1>4 DEF one, other
<1>6. TidSum(G, one) = TidSum(G, other)
  BY <1>5, FootprintSame DEF TidSum
<1> QED
  BY <1>6 DEF one, other

LEMMA WoodOf ==
  ASSUME NEW nodes, NEW tree, NEW hi, NEW K, NEW S, NEW w, Holds(nodes, tree, hi, K, S, w)
  PROVE  tree \in Woods
<1>1. PICK it : Shape(nodes, tree, hi, it)
  BY DEF Holds
<1>2. /\ tree = [root |-> tree.root, order |-> tree.order, header |-> tree.header]
      /\ InOrder(tree.order) /\ tree.root \in Nat /\ tree.header \in [Range(tree.order) -> Seq(Nat)]
  BY <1>1 DEF Shape
<1>3. tree.order \in Seq(Items) /\ Range(tree.order) \in SUBSET Items
  BY <1>2, EarlierOrder DEF InOrder
<1>4. tree.header \in UNION {[X -> Seq(Nat)] : X \in SUBSET Items}
  BY <1>2, <1>3
<1> QED
  BY <1>2, <1>3, <1>4 DEF Woods

\* The frame of a mined item.
LEMMA MinedFrame ==
  ASSUME NEW f, NEW x, MiningOf(f, x), NEW bytes \in Nat, ~Grows => bytes = 0
  PROVE  LET base == Base(f.tree, x)
             own == LocalOrder(LocalTwu(base))
             made == Conditional(base, own)
             g == TreeFrame(made.tree, Append(f.itemset, x), arena.next, bytes)
         IN  /\ Raised(made, arena.next, arena.nodes, own, Group(g), Paths(own), Shares(g))
             /\ FrameRight(g) /\ g.tree.order = own
<1> DEFINE order == f.tree.order
           P == f.itemset
           base == Base(f.tree, x)
           own == LocalOrder(LocalTwu(base))
           made == Conditional(base, own)
           g == TreeFrame(made.tree, Append(P, x), arena.next, bytes)
           g0 == [itemset |-> Append(P, x), tree |-> [order |-> own]]
           K == Group(f)
           S == Paths(order)
           u == Shares(f)[x]
           R == Paths(own)
           v == Shares(g0)
           next == arena.next
           nodes == arena.nodes
           Q == Supporting(db, Range(P) \cup {x})
<1>1. /\ InOrder(order) /\ Range(order) \in SUBSET DOMAIN twu
      /\ InOrder(P) /\ Range(P) \in SUBSET DOMAIN twu /\ Range(P) \cap Range(order) = {}
      /\ x \in Range(order) /\ x \in Items /\ x \notin Range(P)
      /\ K \in SUBSET Tids
      /\ {t \in K : x \in S[t]} = Q
  BY MiningFacts
<1>2. /\ Surveyed /\ ArenaRight(arena) /\ (P = <<>> => order = Sorted(DOMAIN twu, twu))
      /\ Grows /\ P # <<>> => Range(P) \cup Range(order) \in SUBSET Company(f)
  BY DEF MiningOf, FrameRight
<1>3. /\ InOrder(own)
      /\ \A y \in Range(own) : y \in Range(order) /\ Earlier(order, y, x)
  BY MinedBase
<1>4. PICK tau : BaseRight(base, tau, order, x, K, S, u)
  BY MinedBase
<1>5. /\ InOrder(Append(P, x)) /\ Range(Append(P, x)) = Range(P) \cup {x}
      /\ Append(P, x) # <<>> /\ Append(P, x)[1] = IF P = <<>> THEN x ELSE P[1]
  BY <1>1, AppendOrder
<1>6. \A t \in K : x \in S[t] => R[t] = S[t] \cap Range(own)
  BY <1>1, <1>3 DEF Paths, PathOf
<1>7. \A y \in Range(own) : \A G \in SUBSET {t \in K : x \in S[t]} : TidSum(G, v[y]) = TidSum(G, u)
  <2>1. ASSUME NEW y \in Range(own)
        PROVE  \A G \in SUBSET Tids : TidSum(G, v[y]) = TidSum(G, u)
    <3>1. y \in Items /\ g0.itemset = Append(f.itemset, x)
      BY <1>1, <1>2, <1>3 DEF Surveyed
    <3> HIDE DEF g0
    <3> QED
      BY <3>1, ChildShares, SMTT(30)
  <2> HIDE DEF v, u, K, S, own
  <2> QED
    BY <1>1, <2>1
<1>8. Rebuilding(base, tau, order, x, K, S, u, own, R, v)
  <2> HIDE DEF v, u, K, S, own, R, base
  <2> QED
    BY <1>1, <1>3, <1>4, <1>6, <1>7 DEF Rebuilding
<1>9. Raised(made, next, nodes, own, Q, R, v)
  <2> HIDE DEF v, u, K, S, own, R, base
  <2>1. Raised(Conditional(base, own), next, nodes, own, {t \in K : x \in S[t]}, R, v)
    BY <1>2, <1>8, ConditionalHolds
  <2> QED
    BY <1>1, <2>1
<1> HIDE DEF made, own, base
<1>10. made.tree.order = own /\ made.tree \in Woods /\ next \in Nat
  <2>1. Holds(made.arena.nodes, made.tree, made.arena.next, Q, R, v) /\ made.tree.order = own
    BY <1>9 DEF Raised
  <2>2. made.tree \in Woods
    <3> HIDE DEF Q, R, v
    <3> QED
      BY <2>1, WoodOf
  <2> QED
    BY <1>2, <2>1, <2>2 DEF ArenaRight
<1>11. /\ g = [tree |-> made.tree, itemset |-> Append(P, x), at |-> Len(own), saved |-> next, bytes |-> bytes]
       /\ g.tree.order = own
  BY <1>10 DEF TreeFrame
<1>12. Shares(g) = v
  <2>2. g.tree.order = g0.tree.order /\ g.itemset = g0.itemset
    BY <1>11
  <2> HIDE DEF g, g0
  <2>1. \A t, part : Share(t, g, part) = Share(t, g0, part)
    BY <2>2 DEF Share
  <2> QED
    BY <2>1, <2>2 DEF Shares
<1>13. Group(g) = Q
  <2>1. g.itemset # <<>> /\ Range(g.itemset) = Range(P) \cup {x}
    BY <1>5, <1>11
  <2>2. \A A : A \ {} = A
    OBVIOUS
  <2> HIDE DEF g
  <2>3. Group(g) = Supporting(db, Range(g.itemset)) \ {}
    BY <2>1 DEF Group
  <2> QED
    BY <2>1, <2>2, <2>3
<1>14. Raised(made, next, nodes, own, Group(g), Paths(own), Shares(g))
  BY <1>9, <1>12, <1>13
<1>15. x \notin Range(own) /\ Range(own) \in SUBSET Range(order)
  BY <1>1, <1>3, EarlierOrder
<1>16. Grows => Range(Append(P, x)) \cup Range(own) \subseteq Company(g)
  <2>1. CASE P = <<>>
    <3> DEFINE D == DOMAIN twu
    <3> HIDE DEF D
    <3>1. D \in SUBSET Items /\ \A z \in D : twu[z] \in Nat
      BY <1>2 DEF Surveyed, D
    <3>2. \A a, b \in D : Earlier(Sorted(D, twu), a, b) <=> Ahead(twu, a, b)
      BY <3>1, SortedOrder
    <3>3. order = Sorted(D, twu) /\ Range(order) \in SUBSET D
      BY <1>1, <1>2, <2>1 DEF D
    <3>4. \A y \in Range(own) : Ahead(twu, y, x)
      BY <1>1, <1>3, <3>2, <3>3
    <3>5. g.itemset[1] = x /\ Range(P) = {}
      BY <1>5, <1>11, <2>1 DEF Range
    <3> QED
      BY <1>1, <1>3, <1>5, <3>4, <3>5 DEF Company
  <2>2. CASE P # <<>> /\ Grows
    <3>1. g.itemset[1] = P[1]
      BY <1>5, <1>11, <2>2
    <3>2. Company(g) = Company(f)
      BY <3>1 DEF Company
    <3> QED
      BY <1>1, <1>2, <1>5, <1>15, <2>2, <3>2
  <2> QED
    BY <2>1, <2>2
<1>17. Append(P, x) \in Seq(Items) /\ Len(own) \in Nat /\ Len(own) \in 0..Len(own)
  <2>1. Len(own) \in Nat
    BY <1>3 DEF InOrder
  <2> QED
    BY <1>5, <2>1 DEF InOrder
<1>18. g \in TreeFrames
  BY <1>10, <1>11, <1>17 DEF TreeFrames
<1>19. FrameRight(g)
  <2>1. /\ g.tree.order = own /\ g.itemset = Append(P, x) /\ g.at = Len(own) /\ g.bytes = bytes
    BY <1>11
  <2> DEFINE long == Append(P, x)
  <2>2. Range(long) \subseteq DOMAIN twu /\ Range(long) \cap Range(own) = {}
    BY <1>1, <1>5, <1>15
  <2>3. Range(own) \subseteq DOMAIN twu
    BY <1>1, <1>15
  <2>4. long # <<>> /\ InOrder(long) /\ InOrder(own) /\ g.at \in 0..Len(own)
    BY <1>3, <1>5, <1>17, <2>1
  <2> HIDE DEF g, long
  <2> QED
    BY <1>16, <1>18, <2>1, <2>2, <2>3, <2>4 DEF FrameRight, long
<1> QED
  BY <1>11, <1>14, <1>19 DEF made, own, base

\* Nothing that reaches the threshold is lost.
LEMMA MinedCovers ==
  ASSUME NEW f, NEW x, MiningOf(f, x), NEW H \in SUBSET Items, Utility(db, H) >= mode.minUtility,
         Range(f.itemset) \cup {x} \in SUBSET H,
         \A y \in H : y \in Range(f.itemset) \/ y = x
                        \/ (y \in Range(f.tree.order) /\ Earlier(f.tree.order, y, x))
  PROVE  /\ Weight(f.tree, x) >= mode.minUtility
         /\ \A y \in H : y \in Range(f.itemset) \/ y = x
                           \/ y \in Range(LocalOrder(LocalTwu(Base(f.tree, x))))
<1> DEFINE order == f.tree.order
           P == Range(f.itemset)
           u == Shares(f)[x]
           min == mode.minUtility
           own == LocalOrder(LocalTwu(Base(f.tree, x)))
           small == [t \in Tids |-> ItemSum(H, db[t])]
<1>1. x \in Range(order) /\ P \in SUBSET Items /\ x \in Items
  BY MiningFacts
<1>2. Surveyed /\ FrameRight(f) /\ db \in Databases /\ min \in Nat
  BY DEF MiningOf, Surveyed
<1>3. /\ Weight(f.tree, x) = TidSum(Supporting(db, P \cup {x}), u)
      /\ Range(own) = {y \in Range(order) : Earlier(order, y, x)
                         /\ TidSum(Supporting(db, P \cup {x, y}), u) >= min}
  BY MinedBase
<1>4. ASSUME NEW A \in SUBSET H
      PROVE  TidSum(Supporting(db, A), u) >= min
  <2>1. /\ Supporting(db, H) \in SUBSET Tids /\ Supporting(db, A) \in SUBSET Tids
        /\ IsFiniteSet(Supporting(db, A)) /\ Supporting(db, H) \in SUBSET Supporting(db, A)
    BY <1>2, SupportingTids
  <2>2. ASSUME NEW t \in Supporting(db, H)
        PROVE  small[t] \in Nat /\ u[t] \in Nat /\ small[t] <= u[t]
    <3>1. t \in Tids /\ HasAll(db, t, H) /\ x \in H
      BY DEF Supporting
    <3>2. ItemSum(H, db[t]) <= u[t] /\ u[t] \in Nat
      BY <1>1, <1>2, <3>1, ShareCovers
    <3>3. ItemSum(H, db[t]) \in Nat
      BY <1>2, <3>1, ItemSums
    <3> QED
      BY <3>1, <3>2, <3>3
  <2>3. Utility(db, H) = TidSum(Supporting(db, H), small)
    BY DEF Utility
  <2> DEFINE SA == Supporting(db, A)
             SH == Supporting(db, H)
  <2> HIDE DEF SA, SH, small, u
  <2>4. TidSum(SH, small) <= TidSum(SA, u)
    <3>1. IsFiniteSet(SA) /\ SH \in SUBSET SA /\ TidMax \in Nat
      BY <2>1, TidMaxType DEF SA, SH
    <3>2. \A t \in SH : small[t] \in Nat /\ u[t] \in Nat /\ small[t] <= u[t]
      BY <2>2 DEF SH
    <3>3. Footprint(SH, small, TidMax) <= Footprint(SA, u, TidMax)
      BY <3>1, <3>2, FootprintCovered
    <3> QED
      BY <3>3 DEF TidSum, TidMax
  <2>5. TidSum(SA, u) \in Nat /\ TidSum(SH, small) \in Nat
    BY <2>1, TidSumBound DEF SA, SH
  <2> QED
    BY <1>2, <2>3, <2>4, <2>5 DEF SA, SH
<1>5. Weight(f.tree, x) >= min
  BY <1>3, <1>4
<1>6. ASSUME NEW y \in H, y \notin P, y # x
      PROVE  y \in Range(own)
  <2>1. y \in Range(order) /\ Earlier(order, y, x) /\ P \cup {x, y} \in SUBSET H
    BY <1>6
  <2>2. TidSum(Supporting(db, P \cup {x, y}), u) >= min
    BY <1>4, <2>1
  <2> QED
    BY <1>3, <2>1, <2>2
<1> QED
  BY <1>5, <1>6

-----------------------------------------------------------------------------
(* The frames of the calls, and their trees one behind the other *)

Hi(a, ts, i) == IF i = 1 THEN a.next ELSE ts[i - 1].tree.root

Grove(a, ts) ==
  /\ ArenaRight(a) /\ ts \in Seq(TreeFrames) /\ ts # <<>>
  /\ \A i \in 1..Len(ts) :
       /\ FrameRight(ts[i]) /\ Stands(a, ts[i], Hi(a, ts, i))
       /\ ts[i].itemset = <<>> <=> i = Len(ts)
       /\ i < Len(ts) => ts[i].saved = ts[i].tree.root
  /\ ts[Len(ts)].tree.root = 0
  /\ \A i, j \in 1..Len(ts) : i < j =>
       /\ ts[j].tree.root < ts[i].tree.root
       /\ ts[j].at < Len(ts[j].tree.order)
       /\ ts[j].tree.order[ts[j].at + 1] \in Range(ts[i].itemset)

LEMMA PushIndex ==
  ASSUME NEW F, NEW f \in F, NEW s \in Seq(F)
  PROVE  /\ <<f>> \o s \in Seq(F) /\ Len(<<f>> \o s) = Len(s) + 1 /\ Len(s) \in Nat
         /\ <<f>> \o s # <<>> /\ (<<f>> \o s)[1] = f
         /\ \A i \in 1..Len(s) : (<<f>> \o s)[i + 1] = s[i]
         /\ \A k \in 1..Len(s) + 1 : k # 1 => k - 1 \in 1..Len(s) /\ (<<f>> \o s)[k] = s[k - 1]
<1> DEFINE one == <<f>>
           r == one \o s
           n == Len(s)
<1>1. one \in Seq(F) /\ Len(one) = 1 /\ one[1] = f /\ n \in Nat
  OBVIOUS
<1>2. /\ r \in Seq(F) /\ Len(r) = 1 + n
      /\ \A i \in 1..1 + n : r[i] = IF i <= 1 THEN one[i] ELSE s[i - 1]
  <2>1. s \in Seq(F)
    OBVIOUS
  <2> HIDE DEF one
  <2>2. /\ r \in Seq(F) /\ Len(r) = Len(one) + Len(s)
        /\ \A i \in 1..Len(one) + Len(s) : r[i] = IF i <= Len(one) THEN one[i] ELSE s[i - Len(one)]
    BY <1>1, <2>1, ConcatProperties
  <2> QED
    BY <1>1, <2>2
<1> HIDE DEF one
<1> HIDE DEF r, n
<1>3. r[1] = f /\ r # <<>> /\ Len(r) = n + 1
  BY <1>1, <1>2
<1>4. ASSUME NEW k \in 1..n + 1, k # 1
      PROVE  k - 1 \in 1..n /\ r[k] = s[k - 1]
  BY <1>1, <1>2, <1>4
<1>5. ASSUME NEW i \in 1..n
      PROVE  r[i + 1] = s[i]
  <2>1. i + 1 \in 1..n + 1 /\ i + 1 # 1 /\ (i + 1) - 1 = i
    BY <1>1
  <2> QED
    BY <1>4, <2>1
<1> QED
  BY <1>1, <1>2, <1>3, <1>4, <1>5 DEF r, n, one

\* A tree stays if the slots below its end stay.
LEMMA StandsStill ==
  ASSUME NEW a, NEW b, NEW f, NEW hi, Stands(a, f, hi),
         \A p \in 0..hi - 1 : b.nodes[p] = a.nodes[p]
  PROVE  Stands(b, f, hi)
<1> DEFINE tree == f.tree
           K == Group(f)
           S == Paths(tree.order)
           w == Shares(f)
           m == a.nodes
           n == b.nodes
<1>1. PICK it : Shape(m, tree, hi, it) /\ Content(m, tree, hi, it, K, S, w)
  BY DEF Stands, Holds
<1>2. tree.root \in Nat /\ hi \in Nat
  BY <1>1 DEF Shape
<1>3. \A p \in tree.root..hi - 1 : n[p] = m[p]
  <2>1. \A p \in tree.root..hi - 1 : p \in 0..hi - 1
    BY <1>2
  <2> QED
    BY <2>1
<1> HIDE DEF tree, K, S, w, m, n
<1>4. \A p \in tree.root..hi - 1 : n[p].item = m[p].item /\ n[p].value = m[p].value
         /\ n[p].parent = m[p].parent /\ n[p].children = m[p].children
  BY <1>3
<1>5. Shape(n, tree, hi, it)
  BY <1>1, <1>4, ShapeLocal
<1>6. Content(n, tree, hi, it, K, S, w)
  BY <1>1, <1>2, <1>4, ContentLocal
<1> QED
  BY <1>5, <1>6 DEF Stands, Holds, tree, K, S, w, m, n

\* What a tree is has nothing to do with how far it is mined.
LEMMA StandsSame ==
  ASSUME NEW a, NEW f, NEW g, NEW hi, Stands(a, f, hi), g.tree = f.tree, g.itemset = f.itemset
  PROVE  Stands(a, g, hi)
<1>1. Group(g) = Group(f)
  BY DEF Group
<1>2. Shares(g) = Shares(f)
  <2>1. \A t, part : Share(t, g, part) = Share(t, f, part)
    BY DEF Share
  <2> QED
    BY <2>1 DEF Shares
<1> QED
  BY <1>1, <1>2 DEF Stands

LEMMA GroveFacts ==
  ASSUME NEW a, NEW ts, Grove(a, ts)
  PROVE  /\ a.next \in Nat /\ ts \in Seq(TreeFrames) /\ Len(ts) \in Nat /\ 1 \in 1..Len(ts)
         /\ FrameRight(ts[1]) /\ Stands(a, ts[1], a.next)
         /\ \A i \in 1..Len(ts) : ts[i].tree.root \in Nat /\ ts[i].tree.root < a.next
                                    /\ ts[i].tree.root < Hi(a, ts, i)
                                    /\ Hi(a, ts, i) \in Nat /\ Hi(a, ts, i) <= a.next
<1>1. a.next \in Nat /\ ts \in Seq(TreeFrames) /\ Len(ts) \in Nat /\ ts # <<>>
  BY DEF Grove, ArenaRight
<1>2. 1 \in 1..Len(ts)
  BY <1>1
<1>3. \A i \in 1..Len(ts) : FrameRight(ts[i]) /\ Stands(a, ts[i], Hi(a, ts, i))
  BY DEF Grove
<1>4. Hi(a, ts, 1) = a.next
  BY DEF Hi
<1>5. ASSUME NEW i \in 1..Len(ts)
      PROVE  ts[i].tree.root \in Nat /\ ts[i].tree.root < Hi(a, ts, i) /\ Hi(a, ts, i) \in Nat
  BY <1>3, HoldsNext DEF Stands
<1>6. ts[1].tree.root < a.next
  BY <1>2, <1>4, <1>5
<1>7. ASSUME NEW i \in 1..Len(ts)
      PROVE  ts[i].tree.root < a.next
  <2>1. CASE i = 1
    BY <1>6, <2>1
  <2>2. CASE i # 1
    <3>1. 1 < i
      BY <2>2
    <3>2. ts[i].tree.root < ts[1].tree.root
      BY <1>2, <3>1 DEF Grove
    <3> QED
      BY <1>1, <1>2, <1>5, <1>6, <3>2
  <2> QED
    BY <2>1, <2>2
<1>8. ASSUME NEW i \in 1..Len(ts)
      PROVE  Hi(a, ts, i) <= a.next
  <2>1. CASE i = 1
    BY <1>1, <1>4, <2>1
  <2>2. CASE i # 1
    <3>1. i - 1 \in 1..Len(ts)
      BY <1>1, <2>2
    <3>2. Hi(a, ts, i) = ts[i - 1].tree.root
      BY <2>2 DEF Hi
    <3> QED
      BY <1>1, <1>5, <1>7, <3>1, <3>2
  <2> QED
    BY <2>1, <2>2
<1> QED
  BY <1>1, <1>2, <1>3, <1>4, <1>5, <1>7, <1>8

Lowered(ts) == [ts EXCEPT ![1].at = @ - 1]

LEMMA LoweredFrames ==
  ASSUME NEW ts \in Seq(TreeFrames), ts # <<>>
  PROVE  /\ Len(Lowered(ts)) = Len(ts) /\ DOMAIN Lowered(ts) = 1..Len(ts)
         /\ \A i \in 1..Len(ts) : i # 1 => Lowered(ts)[i] = ts[i]
         /\ Lowered(ts)[1].tree = ts[1].tree /\ Lowered(ts)[1].itemset = ts[1].itemset
         /\ Lowered(ts)[1].at = ts[1].at - 1 /\ Lowered(ts)[1].saved = ts[1].saved
         /\ Lowered(ts)[1].bytes = ts[1].bytes
         /\ Lowered(ts)[1] = [ts[1] EXCEPT !.at = @ - 1]
         /\ ts[1] \in TreeFrames /\ 1 \in 1..Len(ts) /\ Len(ts) \in Nat
         /\ ts[1].at - 1 \in Nat => Lowered(ts) \in Seq(TreeFrames)
<1>1. /\ Len(ts) \in Nat /\ DOMAIN ts = 1..Len(ts) /\ 1 \in 1..Len(ts)
      /\ \A i \in 1..Len(ts) : ts[i] \in TreeFrames
  OBVIOUS
<1> DEFINE f == [ts[1] EXCEPT !.at = @ - 1]
           us == [ts EXCEPT ![1] = f]
<1>2. Lowered(ts) = us
  BY <1>1 DEF Lowered
<1>3. ts[1] \in TreeFrames
  BY <1>1
<1>4. /\ f.tree = ts[1].tree /\ f.itemset = ts[1].itemset /\ f.at = ts[1].at - 1
      /\ f.saved = ts[1].saved /\ f.bytes = ts[1].bytes
      /\ ts[1].at - 1 \in Nat => f \in TreeFrames
  BY <1>3 DEF TreeFrames
<1> HIDE DEF f
<1>5. /\ DOMAIN us = 1..Len(ts) /\ us[1] = f /\ \A i \in 1..Len(ts) : i # 1 => us[i] = ts[i]
      /\ us = [i \in 1..Len(ts) |-> us[i]]
  BY <1>1
<1>6. Len(us) = Len(ts)
  BY <1>1
<1>7. f \in TreeFrames => us \in Seq(TreeFrames)
  BY <1>1
<1> HIDE DEF us
<1> QED
  BY <1>1, <1>2, <1>3, <1>4, <1>5, <1>6, <1>7 DEF f

LEMMA LowerGrove ==
  ASSUME NEW a, NEW ts, Grove(a, ts), ts[1].at > 0
  PROVE  Grove(a, Lowered(ts))
<1> DEFINE us == Lowered(ts)
           n == Len(ts)
<1>1. ts \in Seq(TreeFrames) /\ ts # <<>>
  BY DEF Grove
<1>2. /\ Len(us) = n /\ \A i \in 1..n : i # 1 => us[i] = ts[i]
      /\ us[1].tree = ts[1].tree /\ us[1].itemset = ts[1].itemset
      /\ us[1].at = ts[1].at - 1 /\ us[1].saved = ts[1].saved /\ us[1].bytes = ts[1].bytes
      /\ 1 \in 1..n /\ n \in Nat
      /\ ts[1].at - 1 \in Nat => us \in Seq(TreeFrames)
  BY <1>1, LoweredFrames
<1>3. FrameRight(ts[1])
  BY <1>2 DEF Grove
<1>4. ts[1].at \in 0..Len(ts[1].tree.order) /\ InOrder(ts[1].tree.order)
  BY <1>3 DEF FrameRight
<1>5. Len(ts[1].tree.order) \in Nat /\ ts[1].at - 1 \in 0..Len(ts[1].tree.order)
  BY <1>4 DEF InOrder
<1>6. us \in Seq(TreeFrames) /\ us # <<>> /\ us[1] \in TreeFrames
  <2>1. us \in Seq(TreeFrames)
    BY <1>2, <1>5
  <2> HIDE DEF us
  <2> QED
    BY <1>2, <2>1
<1> HIDE DEF us
<1>7. FrameRight(us[1])
  <2> DEFINE f == ts[1]
             g == us[1]
  <2>1. g.tree = f.tree /\ g.itemset = f.itemset /\ g.bytes = f.bytes /\ g.at \in 0..Len(g.tree.order)
    BY <1>2, <1>5
  <2>2. Company(g) = Company(f)
    BY <2>1 DEF Company
  <2>3. FrameRight(f) /\ g \in TreeFrames
    BY <1>3, <1>6
  <2> HIDE DEF f, g
  <2>4. /\ InOrder(f.tree.order) /\ Range(f.tree.order) \subseteq DOMAIN twu
        /\ InOrder(f.itemset) /\ Range(f.itemset) \subseteq DOMAIN twu
        /\ Range(f.itemset) \cap Range(f.tree.order) = {}
        /\ Grows /\ f.itemset # <<>> => Range(f.itemset) \cup Range(f.tree.order) \subseteq Company(f)
        /\ ~Grows => f.bytes = 0
        /\ f.itemset = <<>> => f.tree.order = Sorted(DOMAIN twu, twu)
    BY <2>3 DEF FrameRight
  <2> DEFINE order == f.tree.order
             P == f.itemset
  <2>5. /\ InOrder(order) /\ Range(order) \subseteq DOMAIN twu
        /\ InOrder(P) /\ Range(P) \subseteq DOMAIN twu /\ Range(P) \cap Range(order) = {}
        /\ Grows /\ P # <<>> => Range(P) \cup Range(order) \subseteq Company(g)
        /\ ~Grows => g.bytes = 0
        /\ P = <<>> => order = Sorted(DOMAIN twu, twu)
    BY <2>1, <2>2, <2>4
  <2>6. g.tree.order = order /\ g.itemset = P /\ g.at \in 0..Len(order)
    BY <2>1
  <2>7. g \in TreeFrames
    BY <2>3
  <2> HIDE DEF order, P
  <2>8. LET r == g.tree.order
            Q == Range(g.itemset)
        IN  /\ InOrder(r) /\ Range(r) \subseteq DOMAIN twu /\ g.at \in 0..Len(r)
            /\ InOrder(g.itemset) /\ Q \subseteq DOMAIN twu /\ Q \cap Range(r) = {}
            /\ Grows /\ g.itemset # <<>> => Q \cup Range(r) \subseteq Company(g)
            /\ ~Grows => g.bytes = 0
            /\ g.itemset = <<>> => r = Sorted(DOMAIN twu, twu)
    <3> DEFINE company == Company(g)
               free == g.bytes
               sorted == Sorted(DOMAIN twu, twu)
    <3> HIDE DEF company, free, sorted
    <3>1. /\ InOrder(order) /\ Range(order) \subseteq DOMAIN twu
          /\ InOrder(P) /\ Range(P) \subseteq DOMAIN twu /\ Range(P) \cap Range(order) = {}
          /\ Grows /\ P # <<>> => Range(P) \cup Range(order) \subseteq company
          /\ ~Grows => free = 0
          /\ P = <<>> => order = sorted
      BY <2>5 DEF company, free, sorted
    <3> QED
      BY <2>6, <3>1 DEF company, free, sorted
  <2> QED
    BY <2>7, <2>8 DEF FrameRight, g
<1>8. ASSUME NEW i \in 1..n
      PROVE  us[i].tree = ts[i].tree /\ us[i].itemset = ts[i].itemset /\ us[i].saved = ts[i].saved
  BY <1>2
<1>9. \A i \in 1..n : Hi(a, us, i) = Hi(a, ts, i)
  <2>1. \A i \in 1..n : i # 1 => i - 1 \in 1..n
    BY <1>2
  <2> QED
    BY <1>8, <2>1 DEF Hi
<1>10. ASSUME NEW i \in 1..n
       PROVE  /\ FrameRight(us[i]) /\ Stands(a, us[i], Hi(a, us, i))
              /\ us[i].itemset = <<>> <=> i = n
              /\ i < n => us[i].saved = us[i].tree.root
  <2>1. /\ FrameRight(ts[i]) /\ Stands(a, ts[i], Hi(a, ts, i))
        /\ ts[i].itemset = <<>> <=> i = n
        /\ i < n => ts[i].saved = ts[i].tree.root
    BY DEF Grove
  <2>2. FrameRight(us[i])
    BY <1>2, <1>7, <2>1
  <2>3. Stands(a, us[i], Hi(a, us, i))
    <3> DEFINE f == ts[i]
               g == us[i]
               hi == Hi(a, ts, i)
    <3>1. Stands(a, f, hi) /\ g.tree = f.tree /\ g.itemset = f.itemset
      BY <1>8, <2>1
    <3> HIDE DEF f, g, hi
    <3>2. Stands(a, g, hi)
      BY <3>1, StandsSame
    <3> QED
      BY <1>9, <3>2 DEF f, g, hi
  <2> QED
    BY <1>8, <2>1, <2>2, <2>3
<1>11. us[n].tree.root = 0
  <2>1. ts[n].tree.root = 0 /\ n \in 1..n
    BY <1>2 DEF Grove
  <2> QED
    BY <1>8, <2>1
<1>12. ASSUME NEW i \in 1..n, NEW j \in 1..n, i < j
       PROVE  /\ us[j].tree.root < us[i].tree.root
              /\ us[j].at < Len(us[j].tree.order)
              /\ us[j].tree.order[us[j].at + 1] \in Range(us[i].itemset)
  <2>1. us[j] = ts[j]
    BY <1>2, <1>12
  <2>2. /\ ts[j].tree.root < ts[i].tree.root
        /\ ts[j].at < Len(ts[j].tree.order)
        /\ ts[j].tree.order[ts[j].at + 1] \in Range(ts[i].itemset)
    BY <1>12 DEF Grove
  <2> QED
    BY <1>8, <2>1, <2>2
<1>13. ArenaRight(a)
  BY DEF Grove
<1> QED
  BY <1>2, <1>6, <1>10, <1>11, <1>12, <1>13 DEF Grove, us

\* The frame of an item stands behind the others.
Pushed(a, us, b, g) ==
  LET f == us[1]
      x == f.tree.order[f.at + 1]
  IN  /\ f.at < Len(f.tree.order) /\ FrameRight(g) /\ ArenaRight(b)
      /\ Stands(b, g, b.next) /\ g.tree.root = a.next /\ g.saved = a.next
      /\ Range(g.itemset) = Range(f.itemset) \cup {x} /\ g.itemset # <<>>
      /\ \A p \in 0..a.next - 1 : b.nodes[p] = a.nodes[p]

LEMMA PushGrove ==
  ASSUME NEW a, NEW us, Grove(a, us), NEW b, NEW g, Pushed(a, us, b, g)
  PROVE  Grove(b, <<g>> \o us)
<1> DEFINE ts == <<g>> \o us
           n == Len(us)
           f == us[1]
           x == f.tree.order[f.at + 1]
<1>1. us \in Seq(TreeFrames) /\ us # <<>> /\ ArenaRight(a)
  BY DEF Grove
<1>2. /\ f.at < Len(f.tree.order) /\ FrameRight(g) /\ ArenaRight(b)
      /\ Stands(b, g, b.next) /\ g.tree.root = a.next /\ g.saved = a.next
      /\ Range(g.itemset) = Range(f.itemset) \cup {x} /\ g.itemset # <<>>
      /\ \A p \in 0..a.next - 1 : b.nodes[p] = a.nodes[p]
  BY DEF Pushed
<1>3. g \in TreeFrames
  BY <1>2 DEF FrameRight
<1>4. /\ ts \in Seq(TreeFrames) /\ Len(ts) = n + 1 /\ n \in Nat /\ ts # <<>> /\ ts[1] = g
      /\ \A i \in 1..n : ts[i + 1] = us[i]
      /\ \A k \in 1..n + 1 : k # 1 => k - 1 \in 1..n /\ ts[k] = us[k - 1]
  BY <1>1, <1>3, PushIndex
<1>5. /\ a.next \in Nat /\ 1 \in 1..n
      /\ \A i \in 1..n : us[i].tree.root \in Nat /\ us[i].tree.root < a.next
                           /\ Hi(a, us, i) \in Nat /\ Hi(a, us, i) <= a.next
  BY GroveFacts
<1> HIDE DEF ts
<1>6. Hi(b, ts, 1) = b.next
  BY DEF Hi
<1>7. ASSUME NEW k \in 1..n + 1, k # 1
      PROVE  Hi(b, ts, k) = Hi(a, us, k - 1)
  <2>1. Hi(b, ts, k) = ts[k - 1].tree.root /\ k - 1 \in 1..n
    BY <1>4, <1>7 DEF Hi
  <2>2. CASE k - 1 = 1
    <3>1. Hi(a, us, k - 1) = a.next
      BY <2>2 DEF Hi
    <3>2. ts[k - 1] = g
      BY <1>4, <2>2
    <3> QED
      BY <1>2, <2>1, <3>1, <3>2
  <2>3. CASE k - 1 # 1
    <3>1. k - 1 \in 1..n + 1
      BY <1>4, <2>1
    <3>2. ts[k - 1] = us[k - 1 - 1]
      BY <1>4, <2>3, <3>1
    <3> QED
      BY <2>1, <2>3, <3>2 DEF Hi
  <2> QED
    BY <2>2, <2>3
<1>8. ASSUME NEW k \in 1..n + 1
      PROVE  /\ FrameRight(ts[k]) /\ Stands(b, ts[k], Hi(b, ts, k))
             /\ ts[k].itemset = <<>> <=> k = n + 1
             /\ k < n + 1 => ts[k].saved = ts[k].tree.root
  <2>1. CASE k = 1
    <3>1. k # n + 1
      BY <1>5, <2>1
    <3> QED
      BY <1>2, <1>4, <1>6, <2>1, <3>1
  <2>2. CASE k # 1
    <3> DEFINE i == k - 1
    <3>1. i \in 1..n /\ ts[k] = us[i] /\ Hi(b, ts, k) = Hi(a, us, i)
      BY <1>4, <1>7, <2>2
    <3>2. (k = n + 1 <=> i = n) /\ (k < n + 1 => i < n)
      BY <1>4
    <3> HIDE DEF i
    <3>3. /\ FrameRight(us[i]) /\ Stands(a, us[i], Hi(a, us, i))
          /\ us[i].itemset = <<>> <=> i = n
          /\ i < n => us[i].saved = us[i].tree.root
      BY <3>1 DEF Grove
    <3>4. Stands(b, us[i], Hi(a, us, i))
      <4> DEFINE hi == Hi(a, us, i)
                 u == us[i]
      <4>1. hi \in Nat /\ hi <= a.next /\ Stands(a, u, hi)
        BY <1>5, <3>1, <3>3
      <4> HIDE DEF hi, u
      <4>2. \A p \in 0..hi - 1 : b.nodes[p] = a.nodes[p]
        BY <1>2, <1>5, <4>1
      <4>3. Stands(b, u, hi)
        BY <4>1, <4>2, StandsStill
      <4> QED
        BY <4>3 DEF hi, u
    <3> QED
      BY <3>1, <3>2, <3>3, <3>4
  <2> QED
    BY <2>1, <2>2
<1>9. ts[n + 1].tree.root = 0
  <2>1. us[n].tree.root = 0 /\ n \in 1..n
    BY <1>4, <1>5 DEF Grove
  <2> QED
    BY <1>4, <2>1
<1>10. ASSUME NEW j \in 1..n
       PROVE  /\ us[j].tree.root < g.tree.root
              /\ us[j].at < Len(us[j].tree.order)
              /\ us[j].tree.order[us[j].at + 1] \in Range(g.itemset)
  <2>1. CASE j = 1
    BY <1>2, <1>5, <2>1
  <2>2. CASE j # 1
    <3>1. 1 < j
      BY <2>2
    <3>2. /\ us[j].at < Len(us[j].tree.order)
          /\ us[j].tree.order[us[j].at + 1] \in Range(us[1].itemset)
      BY <1>5, <3>1 DEF Grove
    <3> QED
      BY <1>2, <1>5, <3>2
  <2> QED
    BY <2>1, <2>2
<1>11. ASSUME NEW i \in 1..n + 1, NEW j \in 1..n + 1, i < j
       PROVE  /\ ts[j].tree.root < ts[i].tree.root
              /\ ts[j].at < Len(ts[j].tree.order)
              /\ ts[j].tree.order[ts[j].at + 1] \in Range(ts[i].itemset)
  <2>1. j # 1
    BY <1>11
  <2>2. j - 1 \in 1..n /\ ts[j] = us[j - 1]
    BY <1>4, <2>1
  <2>3. CASE i = 1
    BY <1>4, <1>10, <2>2, <2>3
  <2>4. CASE i # 1
    <3>1. i - 1 \in 1..n /\ ts[i] = us[i - 1] /\ i - 1 < j - 1
      BY <1>4, <1>11, <2>4
    <3>2. /\ us[j - 1].tree.root < us[i - 1].tree.root
          /\ us[j - 1].at < Len(us[j - 1].tree.order)
          /\ us[j - 1].tree.order[us[j - 1].at + 1] \in Range(us[i - 1].itemset)
      BY <2>2, <3>1 DEF Grove
    <3> QED
      BY <2>2, <3>1, <3>2
  <2> QED
    BY <2>3, <2>4
<1> QED
  BY <1>2, <1>4, <1>8, <1>9, <1>11 DEF Grove, ts

\* The slots of a tree are taken back with its frame.
LEMMA PopGrove ==
  ASSUME NEW a, NEW ts, Grove(a, ts), Len(ts) > 1, NEW b, b = [a EXCEPT !.next = ts[1].saved]
  PROVE  Grove(b, Tail(ts)) /\ Len(Tail(ts)) = Len(ts) - 1
         /\ \A k \in 1..Len(ts) - 1 : Tail(ts)[k] = ts[k + 1]
<1> DEFINE us == Tail(ts)
           n == Len(ts)
<1>1. ts \in Seq(TreeFrames) /\ ts # <<>> /\ ArenaRight(a) /\ n \in Nat
  BY DEF Grove
<1>2. /\ us \in Seq(TreeFrames) /\ Len(us) = n - 1 /\ \A k \in 1..n - 1 : us[k] = ts[k + 1]
  BY <1>1, HeadTailProperties
<1>3. /\ 1 \in 1..n /\ 1 < n
      /\ \A i \in 1..n : ts[i].tree.root \in Nat /\ ts[i].tree.root < a.next
      /\ a.next \in Nat
      /\ \A i \in 1..n : Hi(a, ts, i) \in Nat /\ Hi(a, ts, i) <= a.next
  BY GroveFacts
<1>4. ts[1].saved = ts[1].tree.root
  BY <1>3 DEF Grove
<1>5. b.next = ts[1].tree.root /\ b.nodes = a.nodes /\ ArenaRight(b)
  <2>1. a = [nodes |-> a.nodes, next |-> a.next, pages |-> a.pages]
    BY <1>1 DEF ArenaRight
  <2>2. b = [nodes |-> a.nodes, next |-> ts[1].saved, pages |-> a.pages]
    BY <2>1
  <2>3. b.next = ts[1].tree.root /\ b.nodes = a.nodes /\ b.pages = a.pages
    BY <1>4, <2>2
  <2>4. \A p \in 0..b.next - 1 : p \in 0..a.next - 1
    BY <1>3, <2>3
  <2> QED
    BY <1>1, <1>3, <2>2, <2>3, <2>4 DEF ArenaRight
<1> HIDE DEF us
<1>6. ASSUME NEW k \in 1..n - 1
      PROVE  k + 1 \in 1..n /\ us[k] = ts[k + 1] /\ Hi(b, us, k) = Hi(a, ts, k + 1)
  <2>1. k + 1 \in 1..n /\ k + 1 # 1 /\ (k + 1) - 1 = k
    BY <1>1
  <2>2. Hi(a, ts, k + 1) = ts[k].tree.root
    BY <2>1 DEF Hi
  <2>3. CASE k = 1
    BY <1>2, <1>5, <2>1, <2>2, <2>3 DEF Hi
  <2>4. CASE k # 1
    <3>1. k - 1 \in 1..n - 1 /\ (k - 1) + 1 = k
      BY <1>1, <2>4
    <3>2. us[k - 1] = ts[k]
      BY <1>2, <3>1
    <3> QED
      BY <1>2, <2>1, <2>2, <2>4, <3>2 DEF Hi
  <2> QED
    BY <2>3, <2>4
<1>7. ASSUME NEW k \in 1..n - 1
      PROVE  /\ FrameRight(us[k]) /\ Stands(b, us[k], Hi(b, us, k))
             /\ us[k].itemset = <<>> <=> k = n - 1
             /\ k < n - 1 => us[k].saved = us[k].tree.root
  <2> DEFINE i == k + 1
  <2>1. i \in 1..n /\ us[k] = ts[i] /\ Hi(b, us, k) = Hi(a, ts, i)
    BY <1>6
  <2>2. (k = n - 1 <=> i = n) /\ (k < n - 1 => i < n)
    BY <1>1
  <2> HIDE DEF i
  <2>3. /\ FrameRight(ts[i]) /\ Stands(a, ts[i], Hi(a, ts, i))
        /\ ts[i].itemset = <<>> <=> i = n
        /\ i < n => ts[i].saved = ts[i].tree.root
    BY <2>1 DEF Grove
  <2>4. Stands(b, ts[i], Hi(a, ts, i))
    BY <1>5, <2>3 DEF Stands
  <2> QED
    BY <2>1, <2>2, <2>3, <2>4
<1>8. us[n - 1].tree.root = 0 /\ us # <<>>
  <2>1. ts[n].tree.root = 0 /\ n - 1 \in 1..n - 1 /\ (n - 1) + 1 = n
    BY <1>1, <1>3 DEF Grove
  <2> QED
    BY <1>2, <2>1
<1>9. ASSUME NEW i \in 1..n - 1, NEW j \in 1..n - 1, i < j
      PROVE  /\ us[j].tree.root < us[i].tree.root
             /\ us[j].at < Len(us[j].tree.order)
             /\ us[j].tree.order[us[j].at + 1] \in Range(us[i].itemset)
  <2>1. i + 1 \in 1..n /\ j + 1 \in 1..n /\ i + 1 < j + 1
    BY <1>1, <1>9
  <2>2. us[i] = ts[i + 1] /\ us[j] = ts[j + 1]
    BY <1>2
  <2> DEFINE k == i + 1
             l == j + 1
  <2> HIDE DEF k, l
  <2>3. k \in 1..n /\ l \in 1..n /\ k < l
    BY <2>1 DEF k, l
  <2>4. /\ ts[l].tree.root < ts[k].tree.root
        /\ ts[l].at < Len(ts[l].tree.order)
        /\ ts[l].tree.order[ts[l].at + 1] \in Range(ts[k].itemset)
    BY <2>3 DEF Grove
  <2> QED
    BY <2>2, <2>4 DEF k, l
<1> QED
  BY <1>2, <1>5, <1>7, <1>8, <1>9 DEF Grove, us

-----------------------------------------------------------------------------
(* Candidates, and what the frames still have to come to *)

\* The items of a frame that are not mined yet.
Left(f) == {f.tree.order[i] : i \in 1..f.at}

\* The itemsets that a frame has still to come to.
GoesOn(f, H) ==
  LET P == Range(f.itemset) IN P \subseteq H /\ H # P /\ H \subseteq P \cup Left(f)

TreeWanted == {S \in (SUBSET Items) \ {{}} : Utility(db, S) >= mode.minUtility}
TreeEntry(S) == [itemset |-> S, utility |-> Utility(db, S)]

Once(c) ==
  /\ c \in Seq(Seq(Items))
  /\ \A k \in 1..Len(c) : InOrder(c[k]) /\ c[k] # <<>>
  /\ \A j, k \in 1..Len(c) : j # k => Range(c[j]) # Range(c[k])

\* No frame comes to a candidate again.
Unmet(c, ts) == \A k \in 1..Len(c) : \A i \in 1..Len(ts) : ~GoesOn(ts[i], Range(c[k]))

Coming(c, ts, H) ==
  \/ \E k \in 1..Len(c) : Range(c[k]) = H
  \/ \E i \in 1..Len(ts) : GoesOn(ts[i], H)

\* What the memory guard has been asked for: by UP-Growth for the frames, by IHUP for the
\* candidates.
Asked(ts, n) ==
  \E sum \in [1..Len(ts) -> Nat] :
    /\ sum[1] = n /\ sum[Len(ts)] = ts[Len(ts)].bytes
    /\ \A i \in 1..Len(ts) - 1 : sum[i] = ts[i].bytes + sum[i + 1]

ListBytes(c) ==
  CandidateItemBytes
    * Footprint(DOMAIN c, [i \in DOMAIN c |-> Len(c[i])], Cardinality(Items))

Owed(c, ts, n) ==
  IF Grows THEN Asked(ts, n) ELSE n = IF Counts THEN ListBytes(c) ELSE 0

Forest(a, ts, c, n) ==
  /\ Grove(a, ts) /\ Once(c) /\ Unmet(c, ts)
  /\ \A H \in TreeWanted : Coming(c, ts, H)
  /\ Owed(c, ts, n)

LEMMA GoesOnLess ==
  ASSUME NEW f, NEW g, FrameRight(f), f.at > 0, NEW x, x = f.tree.order[f.at],
         g.tree = f.tree, g.itemset = f.itemset, g.at = f.at - 1
  PROVE  /\ x \in Range(f.tree.order) /\ x \notin Range(f.itemset) /\ x \notin Left(g)
         /\ Left(f) = Left(g) \cup {x}
         /\ Left(g) = {y \in Range(f.tree.order) : Earlier(f.tree.order, y, x)}
         /\ \A H : GoesOn(g, H) => GoesOn(f, H) /\ x \notin H
         /\ \A H : GoesOn(f, H) /\ ~GoesOn(g, H) => x \in H
<1> DEFINE order == f.tree.order
           P == Range(f.itemset)
           at == f.at
<1>1. /\ InOrder(order) /\ at \in 0..Len(order) /\ P \cap Range(order) = {} /\ at > 0
      /\ x = order[at]
  BY DEF FrameRight
<1>2. at \in 1..Len(order)
  BY <1>1
<1>3. Left(g) = {order[i] : i \in 1..at - 1} /\ Left(f) = {order[i] : i \in 1..at}
  BY DEF Left
<1>4. Range(g.itemset) = P
  OBVIOUS
<1> HIDE DEF order, P, at
<1>5. /\ x \in Range(order)
      /\ Left(g) = {y \in Range(order) : Earlier(order, y, x)}
      /\ Left(f) = Left(g) \cup {x}
  BY <1>1, <1>2, <1>3, ItemBefore
<1>6. x \notin Left(g) /\ x \notin P
  BY <1>1, <1>5, EarlierOrder
<1>7. /\ \A H : GoesOn(g, H) => GoesOn(f, H) /\ x \notin H
      /\ \A H : GoesOn(f, H) /\ ~GoesOn(g, H) => x \in H
  <2>1. /\ \A H : GoesOn(g, H) <=> P \subseteq H /\ H # P /\ H \subseteq P \cup Left(g)
        /\ \A H : GoesOn(f, H) <=> P \subseteq H /\ H # P /\ H \subseteq P \cup Left(f)
    BY <1>4 DEF GoesOn, P
  <2> QED
    BY <1>5, <1>6, <2>1
<1> QED
  BY <1>5, <1>6, <1>7 DEF order, P

\* The itemsets of a frame behind are those that the item it is for leads to.
LEMMA GoesOnChild ==
  ASSUME NEW f, NEW g, NEW x, NEW h, FrameRight(f), f.at > 0, x = f.tree.order[f.at],
         g.tree = f.tree, g.itemset = f.itemset, g.at = f.at - 1,
         FrameRight(h), h.itemset = Append(f.itemset, x), h.at = Len(h.tree.order),
         Range(h.tree.order) \subseteq Left(g)
  PROVE  /\ \A H : GoesOn(h, H) => GoesOn(f, H) /\ H # Range(f.itemset) \cup {x}
         /\ \A H : Range(f.itemset) \cup {x} \subseteq H /\ H # Range(f.itemset) \cup {x}
                     /\ H \subseteq Range(f.itemset) \cup {x} \cup Range(h.tree.order) => GoesOn(h, H)
<1> DEFINE own == h.tree.order
           P == Range(f.itemset)
<1>1. /\ x \in Range(f.tree.order) /\ x \notin P /\ Left(f) = Left(g) \cup {x}
  BY GoesOnLess
<1>2. InOrder(f.itemset) /\ InOrder(own) /\ Range(f.tree.order) \in SUBSET Items
  <2>1. InOrder(f.itemset) /\ InOrder(f.tree.order) /\ InOrder(own)
    BY DEF FrameRight
  <2> QED
    BY <2>1, EarlierOrder
<1>3. Range(h.itemset) = P \cup {x}
  <2> DEFINE s == f.itemset
  <2>1. InOrder(s) /\ x \in Items /\ x \notin Range(s)
    BY <1>1, <1>2
  <2> HIDE DEF s
  <2>2. Range(Append(s, x)) = Range(s) \cup {x}
    BY <2>1, AppendOrder
  <2> QED
    BY <2>2 DEF s
<1>4. Left(h) = Range(own)
  BY <1>2, EarlierOrder DEF Left
<1>5. Range(own) \subseteq Left(g)
  OBVIOUS
<1> HIDE DEF own, P
<1>6. /\ \A H : GoesOn(h, H) <=> P \cup {x} \subseteq H /\ H # P \cup {x}
                                   /\ H \subseteq P \cup {x} \cup Range(own)
      /\ \A H : GoesOn(f, H) <=> P \subseteq H /\ H # P /\ H \subseteq P \cup Left(f)
  BY <1>3, <1>4 DEF GoesOn, P
<1>7. \A H : GoesOn(h, H) => GoesOn(f, H) /\ H # P \cup {x}
  BY <1>1, <1>5, <1>6
<1>8. \A H : P \cup {x} \subseteq H /\ H # P \cup {x} /\ H \subseteq P \cup {x} \cup Range(own)
               => GoesOn(h, H)
  BY <1>6
<1> QED
  BY <1>7, <1>8 DEF own, P

\* An outer frame does not come to what holds the item that it is at.
LEMMA OuterFrame ==
  ASSUME NEW f, FrameRight(f), f.at < Len(f.tree.order), NEW H, f.tree.order[f.at + 1] \in H
  PROVE  ~GoesOn(f, H)
<1> DEFINE order == f.tree.order
           P == Range(f.itemset)
           at == f.at
           y == order[at + 1]
<1>1. InOrder(order) /\ at \in 0..Len(order) /\ P \cap Range(order) = {} /\ at < Len(order) /\ y \in H
  BY DEF FrameRight
<1>2. GoesOn(f, H) => H \subseteq P \cup {order[i] : i \in 1..at}
  BY DEF GoesOn, Left
<1> HIDE DEF order, P, at
<1>3. /\ Len(order) \in Nat /\ Range(order) = {order[i] : i \in 1..Len(order)}
      /\ \A i, j \in 1..Len(order) : order[i] = order[j] => i = j
  BY <1>1, EarlierOrder DEF InOrder
<1>4. at + 1 \in 1..Len(order) /\ \A i \in 1..at : i \in 1..Len(order) /\ i # at + 1
  BY <1>1, <1>3
<1>5. y \in Range(order) /\ \A i \in 1..at : order[i] # y
  BY <1>3, <1>4
<1> QED
  BY <1>1, <1>2, <1>5

-----------------------------------------------------------------------------
(* What the memory guard was asked for *)

LEMMA AskedSame ==
  ASSUME NEW ts, NEW us, NEW n, Asked(ts, n), Len(us) = Len(ts), Len(ts) \in Nat \ {0},
         \A i \in 1..Len(ts) : us[i].bytes = ts[i].bytes
  PROVE  Asked(us, n)
<1>1. PICK sum \in [1..Len(ts) -> Nat] :
        /\ sum[1] = n /\ sum[Len(ts)] = ts[Len(ts)].bytes
        /\ \A i \in 1..Len(ts) - 1 : sum[i] = ts[i].bytes + sum[i + 1]
  BY DEF Asked
<1>2. Len(ts) \in 1..Len(ts) /\ \A i \in 1..Len(ts) - 1 : i \in 1..Len(ts)
  OBVIOUS
<1>3. sum[Len(us)] = us[Len(us)].bytes
  BY <1>1, <1>2
<1>4. \A i \in 1..Len(us) - 1 : sum[i] = us[i].bytes + sum[i + 1]
  BY <1>1, <1>2
<1> QED
  BY <1>1, <1>3, <1>4 DEF Asked

LEMMA AskedPush ==
  ASSUME NEW F, NEW us \in Seq(F), us # <<>>, NEW g \in F, g.bytes \in Nat, NEW n \in Nat, Asked(us, n)
  PROVE  Asked(<<g>> \o us, n + g.bytes)
<1> DEFINE ts == <<g>> \o us
           m == Len(us)
<1>1. /\ Len(ts) = m + 1 /\ m \in Nat /\ ts[1] = g
      /\ \A k \in 1..m + 1 : k # 1 => k - 1 \in 1..m /\ ts[k] = us[k - 1]
  BY PushIndex
<1>2. m # 0
  OBVIOUS
<1> HIDE DEF ts, m
<1>3. PICK sum \in [1..m -> Nat] :
        /\ sum[1] = n /\ sum[m] = us[m].bytes
        /\ \A i \in 1..m - 1 : sum[i] = us[i].bytes + sum[i + 1]
  BY DEF Asked, m
<1> DEFINE all == [k \in 1..m + 1 |-> IF k = 1 THEN n + g.bytes ELSE sum[k - 1]]
<1>4. all \in [1..m + 1 -> Nat]
  BY <1>1, <1>3
<1>5. all[1] = n + g.bytes /\ \A k \in 1..m + 1 : k # 1 => all[k] = sum[k - 1]
  BY <1>1
<1> HIDE DEF all
<1>6. all[m + 1] = ts[m + 1].bytes
  <2>1. m + 1 \in 1..m + 1 /\ m + 1 # 1 /\ (m + 1) - 1 = m
    BY <1>1, <1>2
  <2> QED
    BY <1>1, <1>3, <1>5, <2>1
<1>7. ASSUME NEW k \in 1..(m + 1) - 1
      PROVE  all[k] = ts[k].bytes + all[k + 1]
  <2>1. k \in 1..m /\ k + 1 \in 1..m + 1 /\ k + 1 # 1 /\ (k + 1) - 1 = k /\ k \in 1..m + 1
    BY <1>1
  <2>2. all[k + 1] = sum[k]
    BY <1>5, <2>1
  <2>3. CASE k = 1
    BY <1>1, <1>3, <1>5, <2>2, <2>3
  <2>4. CASE k # 1
    <3>1. k - 1 \in 1..m - 1 /\ (k - 1) + 1 = k
      BY <1>1, <2>1, <2>4
    <3>2. sum[k - 1] = us[k - 1].bytes + sum[k]
      BY <1>3, <3>1
    <3> QED
      BY <1>1, <1>5, <2>1, <2>2, <2>4, <3>2
  <2> QED
    BY <2>3, <2>4
<1> QED
  BY <1>1, <1>4, <1>5, <1>6, <1>7 DEF Asked, ts

LEMMA AskedPop ==
  ASSUME NEW ts, NEW us, NEW n, Asked(ts, n), Len(ts) \in Nat, Len(ts) > 1, Len(us) = Len(ts) - 1,
         \A k \in 1..Len(ts) - 1 : us[k] = ts[k + 1], ts[1].bytes \in Nat
  PROVE  n - ts[1].bytes \in Nat /\ Asked(us, n - ts[1].bytes)
<1> DEFINE m == Len(ts)
<1>1. m \in Nat /\ m > 1 /\ Len(us) = m - 1
  OBVIOUS
<1>2. PICK sum \in [1..m -> Nat] :
        /\ sum[1] = n /\ sum[m] = ts[m].bytes
        /\ \A i \in 1..m - 1 : sum[i] = ts[i].bytes + sum[i + 1]
  BY DEF Asked
<1>3. \A k \in 1..m - 1 : us[k] = ts[k + 1]
  OBVIOUS
<1> HIDE DEF m
<1> DEFINE rest == [k \in 1..m - 1 |-> sum[k + 1]]
<1>4. rest \in [1..m - 1 -> Nat]
  BY <1>1, <1>2
<1>5. rest[1] = n - ts[1].bytes /\ n - ts[1].bytes \in Nat
  <2>1. 1 \in 1..m - 1 /\ 2 \in 1..m
    BY <1>1
  <2>2. sum[1] = ts[1].bytes + sum[2] /\ sum[2] \in Nat
    BY <1>2, <2>1
  <2> QED
    BY <1>2, <2>1, <2>2
<1>6. rest[m - 1] = us[m - 1].bytes
  <2>1. m - 1 \in 1..m - 1 /\ (m - 1) + 1 = m
    BY <1>1
  <2> QED
    BY <1>2, <1>3, <2>1
<1>7. ASSUME NEW k \in 1..(m - 1) - 1
      PROVE  rest[k] = us[k].bytes + rest[k + 1]
  <2>1. k \in 1..m - 1 /\ k + 1 \in 1..m - 1
    BY <1>1
  <2> QED
    BY <1>2, <1>3, <2>1
<1> HIDE DEF rest
<1> QED
  BY <1>1, <1>4, <1>5, <1>6, <1>7 DEF Asked

LEMMA AskedOne ==
  ASSUME NEW ts, NEW n, Asked(ts, n), Len(ts) = 1
  PROVE  n = ts[1].bytes
BY DEF Asked

LEMMA OrderLength ==
  ASSUME NEW s, InOrder(s)
  PROVE  Len(s) \in 0..Cardinality(Items) /\ Cardinality(Items) \in Nat
<1> DEFINE n == Len(s)
<1>1. /\ n \in Nat /\ s \in Seq(Items) /\ \A i \in 1..n : s[i] \in Items
      /\ \A i, j \in 1..n : s[i] = s[j] => i = j
  BY DEF InOrder
<1>2. IsFiniteSet(Items) /\ Cardinality(Items) \in Nat
  BY Constants, FS_CardinalityType
<1>3. IsFiniteSet(1..n) /\ Cardinality(1..n) = n
  <2>1. 1 \in Int /\ n \in Int
    BY <1>1
  <2>2. IsFiniteSet(1..n) /\ Cardinality(1..n) = IF 1 > n THEN 0 ELSE n - 1 + 1
    BY <2>1, FS_Interval
  <2> QED
    BY <1>1, <2>2
<1>4. s \in Injection(1..n, Items)
  <2>1. s \in [1..n -> Items]
    BY <1>1
  <2> QED
    BY <1>1, <2>1 DEF Injection, IsInjective
<1> HIDE DEF n
<1>5. Cardinality(1..n) <= Cardinality(Items)
  BY <1>2, <1>4, FS_Injection
<1> QED
  BY <1>1, <1>2, <1>3, <1>5 DEF n

LEMMA ListBytesMore ==
  ASSUME NEW c, Once(c), NEW s, InOrder(s)
  PROVE  ListBytes(Append(c, s)) = ListBytes(c) + CandidateItemBytes * Len(s)
<1> DEFINE n == Len(c)
           d == Append(c, s)
           max == Cardinality(Items)
           size == [i \in DOMAIN c |-> Len(c[i])]
           more == [i \in DOMAIN d |-> Len(d[i])]
<1>1. c \in Seq(Seq(Items)) /\ n \in Nat /\ DOMAIN c = 1..n /\ s \in Seq(Items)
  BY DEF Once, InOrder
<1>2. /\ Len(d) = n + 1 /\ DOMAIN d = 1..n + 1 /\ d[n + 1] = s
      /\ \A i \in 1..n : d[i] = c[i]
  BY <1>1, AppendProperties
<1> HIDE DEF d
<1>3. max \in Nat /\ Len(s) \in 0..max
  BY OrderLength
<1>4. 1..n + 1 = 1..n \cup {n + 1} /\ n + 1 \notin 1..n /\ n + 1 \in 1..n + 1
  BY <1>1
<1>5. more[n + 1] = Len(s) /\ \A i \in 1..n : more[i] = size[i]
  BY <1>1, <1>2, <1>4
<1> HIDE DEF size, more, max
<1>6. IsFiniteSet(1..n)
  BY FS_Interval
<1> DEFINE p == n + 1
           S == 1..n
<1>7. more[p] \in 0..max /\ p \notin S /\ IsFiniteSet(S)
  BY <1>3, <1>4, <1>5, <1>6
<1> HIDE DEF p, S
<1>8. Footprint(S \cup {p}, more, max) = Footprint(S, more, max) + more[p]
  BY <1>3, <1>7, AddMember
<1>9. Footprint(S, more, max) = Footprint(S, size, max)
  <2>1. \A i \in S : more[i] = size[i]
    BY <1>5 DEF S
  <2> QED
    BY <2>1, FootprintSame
<1>10. Footprint(S, size, max) \in Nat
  BY <1>3, <1>7, BytesFinite
<1>11. Footprint(DOMAIN d, more, max) = Footprint(DOMAIN c, size, max) + Len(s)
  BY <1>1, <1>2, <1>4, <1>5, <1>8, <1>9 DEF p, S
<1>12. Footprint(DOMAIN c, size, max) \in Nat /\ Len(s) \in Nat
  BY <1>1, <1>3, <1>10 DEF S
<1> DEFINE A == Footprint(DOMAIN d, more, max)
           B == Footprint(DOMAIN c, size, max)
<1>13. ListBytes(d) = CandidateItemBytes * A /\ ListBytes(c) = CandidateItemBytes * B
  BY DEF ListBytes, size, more, max
<1>14. A = B + Len(s) /\ B \in Nat
  BY <1>11, <1>12
<1> HIDE DEF A, B
<1> QED
  BY <1>12, <1>13, <1>14 DEF CandidateItemBytes, d

-----------------------------------------------------------------------------
(* An item is mined *)

Mined == trees[1].tree.order[trees[1].at]
Prefix == trees[1].itemset

MiningNow ==
  /\ Surveyed /\ unread = {} /\ used \in Nat
  /\ Forest(arena, trees, candidates, used) /\ trees[1].at > 0

LEMMA NowMining ==
  ASSUME MiningNow
  PROVE  /\ MiningOf(trees[1], Mined) /\ Grove(arena, trees) /\ Grove(arena, Lowered(trees))
         /\ FrameRight(trees[1]) /\ Len(trees) \in Nat /\ 1 \in 1..Len(trees)
         /\ Len(Lowered(trees)) = Len(trees)
         /\ \A i \in 1..Len(trees) : i # 1 => Lowered(trees)[i] = trees[i]
         /\ Lowered(trees)[1].tree = trees[1].tree /\ Lowered(trees)[1].itemset = trees[1].itemset
         /\ Lowered(trees)[1].at = trees[1].at - 1
         /\ \A i \in 1..Len(trees) : Lowered(trees)[i].bytes = trees[i].bytes
<1>1. Grove(arena, trees) /\ trees[1].at > 0 /\ Surveyed /\ unread = {}
  BY DEF MiningNow, Forest
<1>2. /\ trees \in Seq(TreeFrames) /\ trees # <<>> /\ ArenaRight(arena)
  BY <1>1 DEF Grove
<1>3. /\ Len(Lowered(trees)) = Len(trees) /\ Len(trees) \in Nat /\ 1 \in 1..Len(trees)
      /\ \A i \in 1..Len(trees) : i # 1 => Lowered(trees)[i] = trees[i]
      /\ Lowered(trees)[1].tree = trees[1].tree /\ Lowered(trees)[1].itemset = trees[1].itemset
      /\ Lowered(trees)[1].at = trees[1].at - 1 /\ Lowered(trees)[1].bytes = trees[1].bytes
  BY <1>2, LoweredFrames
<1>4. FrameRight(trees[1]) /\ Stands(arena, trees[1], arena.next)
  BY <1>1, GroveFacts
<1>5. MiningOf(trees[1], Mined)
  BY <1>1, <1>2, <1>4 DEF MiningOf, Mined
<1>6. \A i \in 1..Len(trees) : Lowered(trees)[i].bytes = trees[i].bytes
  BY <1>3
<1> QED
  BY <1>1, <1>3, <1>4, <1>5, <1>6, LowerGrove

\* Itemsets go on as before, but those that have the item that is mined.
LEMMA LowerGoesOn ==
  ASSUME MiningNow
  PROVE  LET us == Lowered(trees)
             f == trees[1]
             P == Range(Prefix)
         IN  /\ \A i \in 1..Len(us) : \A H : GoesOn(us[i], H) => GoesOn(trees[i], H)
             /\ \A i \in 1..Len(us) : \A H : GoesOn(trees[i], H) =>
                  \/ GoesOn(us[i], H)
                  \/ i = 1 /\ P \cup {Mined} \subseteq H /\ H \subseteq P \cup {Mined} \cup Left(us[1])
             /\ GoesOn(f, P \cup {Mined})
             /\ \A i \in 1..Len(us) : ~GoesOn(us[i], P \cup {Mined})
             /\ Left(us[1]) = {y \in Range(f.tree.order) : Earlier(f.tree.order, y, Mined)}
<1> DEFINE us == Lowered(trees)
           f == trees[1]
           g == us[1]
           P == Range(Prefix)
           x == Mined
<1>1. /\ Grove(arena, trees) /\ Grove(arena, us) /\ FrameRight(f)
      /\ Len(us) = Len(trees) /\ Len(trees) \in Nat /\ 1 \in 1..Len(trees)
      /\ \A i \in 1..Len(trees) : i # 1 => us[i] = trees[i]
      /\ g.tree = f.tree /\ g.itemset = f.itemset /\ g.at = f.at - 1
  BY NowMining
<1>2. f.at > 0 /\ x = f.tree.order[f.at] /\ P = Range(f.itemset)
  BY DEF MiningNow, Mined, Prefix
<1> HIDE DEF us, f, g, x
<1>3. /\ x \in Range(f.tree.order) /\ x \notin P /\ x \notin Left(g)
      /\ Left(f) = Left(g) \cup {x}
      /\ Left(g) = {y \in Range(f.tree.order) : Earlier(f.tree.order, y, x)}
      /\ \A H : GoesOn(g, H) => GoesOn(f, H) /\ x \notin H
      /\ \A H : GoesOn(f, H) /\ ~GoesOn(g, H) => x \in H
  BY <1>1, <1>2, GoesOnLess
<1>4. \A i \in 1..Len(us) : \A H : GoesOn(us[i], H) => GoesOn(trees[i], H)
  BY <1>1, <1>3 DEF f, g
<1>5. \A H : GoesOn(f, H) <=> P \subseteq H /\ H # P /\ H \subseteq P \cup Left(f)
  BY <1>2 DEF GoesOn
<1> HIDE DEF P
<1>6. ASSUME NEW i \in 1..Len(us), NEW H, GoesOn(trees[i], H), ~GoesOn(us[i], H)
      PROVE  i = 1 /\ P \cup {x} \subseteq H /\ H \subseteq P \cup {x} \cup Left(g)
  <2>1. i = 1
    BY <1>1, <1>6
  <2>2. GoesOn(f, H) /\ ~GoesOn(g, H)
    BY <1>6, <2>1 DEF f, g
  <2> QED
    BY <1>3, <1>5, <2>1, <2>2
<1>7. GoesOn(f, P \cup {x})
  BY <1>3, <1>5
<1>8. ASSUME NEW i \in 1..Len(us)
      PROVE  ~GoesOn(us[i], P \cup {x})
  <2>1. CASE i = 1
    BY <1>3, <2>1 DEF g
  <2>2. CASE i # 1
    <3> DEFINE j == us[i]
    <3>1. 1 < i /\ 1 \in 1..Len(us) /\ i \in 1..Len(us)
      BY <1>1, <2>2
    <3>2. /\ FrameRight(j) /\ j.at < Len(j.tree.order)
          /\ j.tree.order[j.at + 1] \in Range(us[1].itemset)
      BY <1>1, <3>1 DEF Grove
    <3>3. j.tree.order[j.at + 1] \in P \cup {x}
      BY <1>1, <1>2, <3>2 DEF g
    <3> HIDE DEF j
    <3>4. ~GoesOn(j, P \cup {x})
      BY <3>2, <3>3, OuterFrame
    <3> QED
      BY <3>4 DEF j
  <2> QED
    BY <2>1, <2>2
<1> QED
  BY <1>3, <1>4, <1>6, <1>7, <1>8 DEF us, f, g, P, x

\* An item of too little weight.
LEMMA LightItem ==
  ASSUME MiningNow, Weight(trees[1].tree, Mined) < mode.minUtility
  PROVE  Forest(arena, Lowered(trees), candidates, used)
<1> DEFINE us == Lowered(trees)
           P == Range(Prefix)
           n == Len(trees)
           f == trees[1]
           x == Mined
<1>1. Grove(arena, us) /\ Len(us) = n /\ n \in Nat /\ 1 \in 1..n /\ MiningOf(f, x)
      /\ \A i \in 1..n : us[i].bytes = trees[i].bytes
  BY NowMining
<1>2. /\ \A i \in 1..Len(us) : \A H : GoesOn(us[i], H) => GoesOn(trees[i], H)
      /\ \A i \in 1..Len(us) : \A H : GoesOn(trees[i], H) =>
           \/ GoesOn(us[i], H)
           \/ i = 1 /\ P \cup {x} \subseteq H /\ H \subseteq P \cup {x} \cup Left(us[1])
      /\ Left(us[1]) = {y \in Range(f.tree.order) : Earlier(f.tree.order, y, x)}
  BY LowerGoesOn
<1>3. Once(candidates) /\ Unmet(candidates, trees) /\ Owed(candidates, trees, used)
      /\ \A H \in TreeWanted : Coming(candidates, trees, H)
  BY DEF MiningNow, Forest
<1> HIDE DEF us
<1>4. Unmet(candidates, us)
  BY <1>1, <1>2, <1>3 DEF Unmet
<1>5. ASSUME NEW H \in TreeWanted
      PROVE  Coming(candidates, us, H)
  <2>1. ~(P \cup {x} \subseteq H /\ H \subseteq P \cup {x} \cup Left(us[1]))
    <3>1. SUFFICES ASSUME P \cup {x} \subseteq H, H \subseteq P \cup {x} \cup Left(us[1])
                   PROVE  FALSE
      OBVIOUS
    <3>2. \A y \in H : y \in Range(f.itemset) \/ y = x
                         \/ (y \in Range(f.tree.order) /\ Earlier(f.tree.order, y, x))
      BY <1>2, <3>1 DEF Prefix
    <3>3. H \in SUBSET Items /\ Utility(db, H) >= mode.minUtility /\ Range(f.itemset) \cup {x} \in SUBSET H
      BY <3>1 DEF TreeWanted, Prefix
    <3> HIDE DEF f, x
    <3>4. Weight(f.tree, x) >= mode.minUtility
      BY <1>1, <3>2, <3>3, MinedCovers
    <3>5. Weight(f.tree, x) \in Nat /\ mode.minUtility \in Nat
      <4>1. mode.minUtility \in Nat
        BY DEF MiningNow, Surveyed
      <4>2. Weight(f.tree, x) = TidSum(Supporting(db, Range(f.itemset) \cup {x}), Shares(f)[x])
        BY <1>1, MinedBase
      <4>3. Supporting(db, Range(f.itemset) \cup {x}) \in SUBSET Tids
        BY DEF Supporting
      <4> QED
        BY <4>1, <4>2, <4>3, TidSumBound
    <3> QED
      BY <3>4, <3>5 DEF f, x
  <2>2. Coming(candidates, trees, H)
    BY <1>3
  <2> QED
    BY <1>1, <1>2, <2>1, <2>2 DEF Coming
<1>6. Owed(candidates, us, used)
  <2>1. CASE Grows
    <3>1. Asked(trees, used) /\ n \in Nat \ {0}
      BY <1>1, <1>3, <2>1 DEF Owed
    <3>2. Asked(us, used)
      BY <1>1, <3>1, AskedSame
    <3> QED
      BY <2>1, <3>2 DEF Owed
  <2>2. CASE ~Grows
    BY <1>3, <2>2 DEF Owed
  <2> QED
    BY <2>1, <2>2
<1> QED
  BY <1>1, <1>3, <1>4, <1>5, <1>6 DEF Forest, us

Itemset == Append(Prefix, Mined)
Listing == Append(candidates, Itemset)
MinedOrder == LocalOrder(LocalTwu(Base(trees[1].tree, Mined)))
Entire == Range(Prefix) \cup {Mined}

LEMMA ItemsetFacts ==
  ASSUME MiningNow
  PROVE  /\ InOrder(Itemset) /\ Itemset # <<>> /\ Range(Itemset) = Entire /\ Itemset \in Seq(Items)
         /\ Entire \in SUBSET Items
         /\ Len(Listing) = Len(candidates) + 1 /\ Len(candidates) \in Nat
         /\ Listing[Len(candidates) + 1] = Itemset
         /\ \A k \in 1..Len(candidates) : Listing[k] = candidates[k]
         /\ \A k \in 1..Len(candidates) + 1 : k \in 1..Len(candidates) \/ k = Len(candidates) + 1
         /\ Len(candidates) + 1 \in 1..Len(Listing)
         /\ \A k \in 1..Len(candidates) : k \in 1..Len(Listing)
<1>1. MiningOf(trees[1], Mined) /\ Prefix = trees[1].itemset
  BY NowMining DEF Prefix
<1>2. InOrder(Prefix) /\ Mined \in Items /\ Mined \notin Range(Prefix)
  <2> DEFINE f == trees[1]
             x == Mined
  <2> HIDE DEF f, x
  <2>1. MiningOf(f, x)
    BY <1>1 DEF f, x
  <2>2. InOrder(f.itemset) /\ x \in Items /\ x \notin Range(f.itemset)
    BY <2>1, MiningFacts
  <2> QED
    BY <1>1, <2>2 DEF f, x
<1> DEFINE s == Prefix
           x == Mined
<1> HIDE DEF s, x
<1>3. InOrder(s) /\ x \in Items /\ x \notin Range(s)
  BY <1>2 DEF s, x
<1>4. /\ InOrder(Append(s, x)) /\ Range(Append(s, x)) = Range(s) \cup {x} /\ Append(s, x) # <<>>
  BY <1>3, AppendOrder
<1>5. InOrder(Itemset) /\ Itemset # <<>> /\ Range(Itemset) = Entire
  BY <1>4 DEF Itemset, Entire, s, x
<1>6. Itemset \in Seq(Items) /\ Entire \in SUBSET Items
  <2>1. Itemset \in Seq(Items)
    BY <1>5 DEF InOrder
  <2>2. Range(Itemset) \in SUBSET Items
    BY <1>5, EarlierOrder
  <2> QED
    BY <1>5, <2>1, <2>2
<1>7. candidates \in Seq(Seq(Items))
  BY DEF MiningNow, Forest, Once
<1> DEFINE c == candidates
           S == Seq(Items)
           e == Itemset
<1> HIDE DEF c, S, e
<1>8. c \in Seq(S) /\ e \in S
  BY <1>6, <1>7 DEF c, S, e
<1>9. /\ Len(Append(c, e)) = Len(c) + 1 /\ Len(c) \in Nat /\ Append(c, e)[Len(c) + 1] = e
      /\ \A k \in 1..Len(c) : Append(c, e)[k] = c[k]
  BY <1>8, AppendProperties
<1>10. /\ \A k \in 1..Len(c) + 1 : k \in 1..Len(c) \/ k = Len(c) + 1
       /\ Len(c) + 1 \in 1..Len(c) + 1 /\ \A k \in 1..Len(c) : k \in 1..Len(c) + 1
  BY <1>9
<1> QED
  BY <1>5, <1>6, <1>9, <1>10 DEF Listing, c, e

\* The prefix and the item are a candidate that was not one before.
LEMMA HeavyItem ==
  ASSUME MiningNow
  PROVE  /\ Once(Listing) /\ Unmet(Listing, Lowered(trees)) /\ Unmet(candidates, trees)
         /\ \A H \in TreeWanted :
              \/ Coming(Listing, Lowered(trees), H)
              \/ Entire \subseteq H /\ H # Entire /\ H \subseteq Entire \cup Range(MinedOrder)
         /\ ListBytes(Listing) = ListBytes(candidates) + CandidateItemBytes * Len(Itemset)
<1> DEFINE us == Lowered(trees)
           P == Range(Prefix)
           n == Len(trees)
           f == trees[1]
           x == Mined
           m == Len(candidates)
<1>1. Grove(arena, us) /\ Len(us) = n /\ n \in Nat /\ 1 \in 1..n /\ MiningOf(f, x)
  BY NowMining
<1>2. /\ \A i \in 1..Len(us) : \A H : GoesOn(us[i], H) => GoesOn(trees[i], H)
      /\ \A i \in 1..Len(us) : \A H : GoesOn(trees[i], H) =>
           \/ GoesOn(us[i], H)
           \/ i = 1 /\ P \cup {x} \subseteq H /\ H \subseteq P \cup {x} \cup Left(us[1])
      /\ GoesOn(f, P \cup {x})
      /\ \A i \in 1..Len(us) : ~GoesOn(us[i], P \cup {x})
      /\ Left(us[1]) = {y \in Range(f.tree.order) : Earlier(f.tree.order, y, x)}
  BY LowerGoesOn
<1>3. Once(candidates) /\ Unmet(candidates, trees) /\ \A H \in TreeWanted : Coming(candidates, trees, H)
  BY DEF MiningNow, Forest
<1>4. /\ InOrder(Itemset) /\ Itemset # <<>> /\ Range(Itemset) = Entire /\ Itemset \in Seq(Items)
      /\ Len(Listing) = m + 1 /\ m \in Nat
      /\ Listing[m + 1] = Itemset
      /\ \A k \in 1..m : Listing[k] = candidates[k]
      /\ \A k \in 1..m + 1 : k \in 1..m \/ k = m + 1
      /\ m + 1 \in 1..m + 1 /\ \A k \in 1..m : k \in 1..m + 1
  BY ItemsetFacts
<1>5. Entire = P \cup {x}
  BY DEF Entire
<1> HIDE DEF us, m
<1>6. \A k \in 1..m : Range(candidates[k]) # Entire
  <2>1. GoesOn(f, Entire)
    BY <1>2, <1>5
  <2>2. \A k \in 1..m : ~GoesOn(f, Range(candidates[k]))
    BY <1>1, <1>3 DEF Unmet, m
  <2> HIDE DEF f
  <2> QED
    BY <2>1, <2>2
<1>7. Once(Listing)
  <2>1. Listing \in Seq(Seq(Items))
    <3> DEFINE S == Seq(Items)
    <3>1. candidates \in Seq(S) /\ Itemset \in S
      BY <1>3, <1>4 DEF Once
    <3> HIDE DEF S
    <3>2. Append(candidates, Itemset) \in Seq(S)
      BY <3>1, AppendProperties
    <3> QED
      BY <3>2 DEF Listing, S
  <2>2. \A k \in 1..m : InOrder(candidates[k]) /\ candidates[k] # <<>>
    BY <1>3 DEF Once, m
  <2>3. \A j, k \in 1..m : j # k => Range(candidates[j]) # Range(candidates[k])
    BY <1>3 DEF Once, m
  <2>4. ASSUME NEW k \in 1..m + 1
        PROVE  InOrder(Listing[k]) /\ Listing[k] # <<>>
    BY <1>4, <2>2
  <2>5. ASSUME NEW j \in 1..m + 1, NEW k \in 1..m + 1, j # k
        PROVE  Range(Listing[j]) # Range(Listing[k])
    <3>1. (j \in 1..m \/ j = m + 1) /\ (k \in 1..m \/ k = m + 1)
      BY <1>4
    <3>2. CASE j \in 1..m /\ k \in 1..m
      BY <1>4, <2>3, <2>5, <3>2
    <3>3. CASE j \in 1..m /\ k = m + 1
      BY <1>4, <1>6, <3>3
    <3>4. CASE j = m + 1 /\ k \in 1..m
      BY <1>4, <1>6, <3>4
    <3> QED
      BY <2>5, <3>1, <3>2, <3>3, <3>4
  <2> QED
    BY <1>4, <2>1, <2>4, <2>5 DEF Once
<1>8. Unmet(Listing, us)
  <2>1. \A k \in 1..m : \A i \in 1..n : ~GoesOn(us[i], Range(candidates[k]))
    BY <1>1, <1>2, <1>3 DEF Unmet, m
  <2>2. \A i \in 1..n : ~GoesOn(us[i], Entire)
    BY <1>1, <1>2, <1>5
  <2>3. \A k \in 1..m + 1 : \A i \in 1..n : ~GoesOn(us[i], Range(Listing[k]))
    BY <1>4, <2>1, <2>2
  <2> QED
    BY <1>1, <1>4, <2>3 DEF Unmet
<1>9. ASSUME NEW H \in TreeWanted, ~Coming(Listing, us, H)
      PROVE  Entire \subseteq H /\ H # Entire /\ H \subseteq Entire \cup Range(MinedOrder)
  <2>1. Coming(candidates, trees, H)
    BY <1>3
  <2>2. \A k \in 1..m : Range(candidates[k]) # H
    BY <1>4, <1>9 DEF Coming
  <2>3. H # Entire
    BY <1>4, <1>9 DEF Coming
  <2>4. PICK i \in 1..n : GoesOn(trees[i], H)
    BY <2>1, <2>2 DEF Coming, m
  <2>5. ~GoesOn(us[i], H)
    BY <1>1, <1>9 DEF Coming
  <2>6. Entire \subseteq H /\ H \subseteq Entire \cup Left(us[1])
    BY <1>1, <1>2, <1>5, <2>4, <2>5
  <2>7. \A y \in H : y \in Range(f.itemset) \/ y = x
                       \/ (y \in Range(f.tree.order) /\ Earlier(f.tree.order, y, x))
    BY <1>2, <1>5, <2>6 DEF Prefix
  <2>8. H \in SUBSET Items /\ Utility(db, H) >= mode.minUtility /\ Range(f.itemset) \cup {x} \in SUBSET H
    BY <1>5, <2>6 DEF TreeWanted, Prefix
  <2> HIDE DEF f, x
  <2>9. \A y \in H : y \in Range(f.itemset) \/ y = x \/ y \in Range(LocalOrder(LocalTwu(Base(f.tree, x))))
    BY <1>1, <2>7, <2>8, MinedCovers
  <2>10. \A y \in H : y \in Entire \/ y \in Range(MinedOrder)
    BY <2>9 DEF Entire, MinedOrder, Prefix, f, x
  <2> QED
    BY <2>3, <2>6, <2>10
<1>10. ListBytes(Listing) = ListBytes(candidates) + CandidateItemBytes * Len(Itemset)
  <2> DEFINE c == candidates
             e == Itemset
  <2>1. Once(c) /\ InOrder(e)
    BY <1>3, <1>4
  <2> HIDE DEF c, e
  <2>2. ListBytes(Append(c, e)) = ListBytes(c) + CandidateItemBytes * Len(e)
    BY <2>1, ListBytesMore
  <2> QED
    BY <2>2 DEF Listing, c, e
<1> QED
  BY <1>3, <1>7, <1>8, <1>9, <1>10 DEF us

ItemBytesAsked == IF Counts THEN CandidateItemBytes * Len(Itemset) ELSE 0

LEMMA AskedItem ==
  ASSUME MiningNow
  PROVE  /\ ItemBytesAsked \in Nat /\ (Grows => ItemBytesAsked = 0)
         /\ ~Grows => used + ItemBytesAsked = IF Counts THEN ListBytes(Listing) ELSE 0
<1>1. Len(Itemset) \in Nat
  BY ItemsetFacts
<1>2. ~(Grows /\ Counts)
  BY DEF Grows, Counts
<1>3. ListBytes(Listing) = ListBytes(candidates) + CandidateItemBytes * Len(Itemset)
  BY HeavyItem
<1>4. ~Grows => used = IF Counts THEN ListBytes(candidates) ELSE 0
  BY DEF MiningNow, Forest, Owed
<1>5. CandidateItemBytes * Len(Itemset) \in Nat
  BY <1>1 DEF CandidateItemBytes
<1> DEFINE more == CandidateItemBytes * Len(Itemset)
           old == ListBytes(candidates)
           new == ListBytes(Listing)
<1> HIDE DEF more, old, new
<1>6. ItemBytesAsked = (IF Counts THEN more ELSE 0) /\ more \in Nat /\ new = old + more
      /\ (~Grows => used = IF Counts THEN old ELSE 0)
  BY <1>3, <1>4, <1>5 DEF more, old, new, ItemBytesAsked
<1>7. ItemBytesAsked \in Nat /\ (Grows => ItemBytesAsked = 0)
  BY <1>2, <1>6
<1>8. ~Grows => used + ItemBytesAsked = IF Counts THEN new ELSE 0
  BY <1>6
<1> QED
  BY <1>7, <1>8 DEF new

\* An item that nothing goes on from.
LEMMA BarrenItem ==
  ASSUME MiningNow, MinedOrder = <<>>, ~Grows
  PROVE  Forest(arena, Lowered(trees), Listing, used + ItemBytesAsked)
<1> DEFINE us == Lowered(trees)
<1>1. Grove(arena, us)
  BY NowMining
<1>2. /\ Once(Listing) /\ Unmet(Listing, us)
      /\ \A H \in TreeWanted :
           \/ Coming(Listing, us, H)
           \/ Entire \subseteq H /\ H # Entire /\ H \subseteq Entire \cup Range(MinedOrder)
  BY HeavyItem
<1>3. Range(MinedOrder) = {}
  BY DEF Range
<1>4. \A H \in TreeWanted : Coming(Listing, us, H)
  BY <1>2, <1>3
<1>5. used + ItemBytesAsked = IF Counts THEN ListBytes(Listing) ELSE 0
  BY AskedItem
<1>6. Owed(Listing, us, used + ItemBytesAsked)
  BY <1>5 DEF Owed
<1> QED
  BY <1>1, <1>2, <1>4, <1>6 DEF Forest

\* An item with a conditional tree.
LEMMA FertileItem ==
  ASSUME MiningNow, NEW bytes \in Nat, ~Grows => bytes = 0
  PROVE  LET made == Conditional(Base(trees[1].tree, Mined), MinedOrder)
         IN  Forest(made.arena,
                    <<TreeFrame(made.tree, Itemset, arena.next, bytes)>> \o Lowered(trees),
                    Listing, used + bytes + ItemBytesAsked)
<1> DEFINE us == Lowered(trees)
           f == trees[1]
           x == Mined
           made == Conditional(Base(f.tree, x), MinedOrder)
           g == TreeFrame(made.tree, Itemset, arena.next, bytes)
           ts == <<g>> \o us
           n == Len(trees)
<1>1. /\ MiningOf(f, x) /\ Grove(arena, us) /\ FrameRight(f) /\ n \in Nat /\ 1 \in 1..n
      /\ Len(us) = n /\ us[1].tree = f.tree /\ us[1].itemset = f.itemset
      /\ us[1].at = f.at - 1 /\ \A i \in 1..n : us[i].bytes = trees[i].bytes
  BY NowMining
<1>2. f.at > 0 /\ x = f.tree.order[f.at] /\ used \in Nat
  BY DEF MiningNow, Mined
<1>3. /\ Raised(made, arena.next, arena.nodes, MinedOrder, Group(g), Paths(MinedOrder), Shares(g))
      /\ FrameRight(g) /\ g.tree.order = MinedOrder
  <2> HIDE DEF f, x
  <2>1. MiningOf(f, x) /\ bytes \in Nat /\ (~Grows => bytes = 0)
    BY <1>1
  <2> DEFINE base == Base(f.tree, x)
             own == LocalOrder(LocalTwu(base))
             m == Conditional(base, own)
             h == TreeFrame(m.tree, Append(f.itemset, x), arena.next, bytes)
  <2>2. /\ Raised(m, arena.next, arena.nodes, own, Group(h), Paths(own), Shares(h))
        /\ FrameRight(h) /\ h.tree.order = own
    BY <2>1, MinedFrame
  <2>3. own = MinedOrder /\ m = made /\ h = g
    BY DEF MinedOrder, Itemset, Prefix, f, x
  <2> HIDE DEF base, own, m, h, made, g
  <2> QED
    BY <2>2, <2>3
<1>4. /\ g.itemset = Itemset /\ g.at = Len(MinedOrder) /\ g.saved = arena.next /\ g.bytes = bytes
      /\ g.tree = made.tree
  BY <1>3 DEF TreeFrame
<1>5. /\ InOrder(Itemset) /\ Itemset # <<>> /\ Range(Itemset) = Entire /\ Len(Listing) \in Nat
  BY ItemsetFacts
<1>6. g \in TreeFrames
  BY <1>3 DEF FrameRight
<1>7. Left(us[1]) = {y \in Range(f.tree.order) : Earlier(f.tree.order, y, x)}
  BY LowerGoesOn
<1>8. Range(MinedOrder) \subseteq Left(us[1])
  <2> HIDE DEF f, x
  <2>1. Range(LocalOrder(LocalTwu(Base(f.tree, x)))) =
          {y \in Range(f.tree.order) : Earlier(f.tree.order, y, x)
             /\ TidSum(Supporting(db, Range(f.itemset) \cup {x, y}), Shares(f)[x]) >= mode.minUtility}
    BY <1>1, MinedBase
  <2>2. MinedOrder = LocalOrder(LocalTwu(Base(f.tree, x)))
    BY DEF MinedOrder, f, x
  <2> QED
    BY <1>7, <2>1, <2>2
<1>9. Entire = Range(f.itemset) \cup {x}
  BY DEF Entire, Prefix
<1>10. g.itemset = Append(f.itemset, x)
  BY <1>4 DEF Itemset, Prefix
<1> HIDE DEF us, f, x, made, g
<1>11. /\ \A H : GoesOn(g, H) => GoesOn(f, H) /\ H # Entire
       /\ \A H : Entire \subseteq H /\ H # Entire /\ H \subseteq Entire \cup Range(MinedOrder) => GoesOn(g, H)
  <2> DEFINE low == us[1]
  <2>1. /\ FrameRight(f) /\ f.at > 0 /\ x = f.tree.order[f.at]
        /\ low.tree = f.tree /\ low.itemset = f.itemset /\ low.at = f.at - 1
        /\ FrameRight(g) /\ g.itemset = Append(f.itemset, x) /\ g.at = Len(g.tree.order)
        /\ Range(g.tree.order) \subseteq Left(low)
    BY <1>1, <1>2, <1>3, <1>4, <1>8, <1>10
  <2> HIDE DEF low
  <2>2. /\ \A H : GoesOn(g, H) => GoesOn(f, H) /\ H # Range(f.itemset) \cup {x}
        /\ \A H : Range(f.itemset) \cup {x} \subseteq H /\ H # Range(f.itemset) \cup {x}
                    /\ H \subseteq Range(f.itemset) \cup {x} \cup Range(g.tree.order) => GoesOn(g, H)
    BY <2>1, GoesOnChild, SMTT(30)
  <2> QED
    BY <1>3, <1>9, <2>2
<1>12. Pushed(arena, us, made.arena, g)
  <2> DEFINE low == us[1]
             y == low.tree.order[low.at + 1]
  <2>1. low.at < Len(low.tree.order) /\ y = x
    <3>1. f.at \in 0..Len(f.tree.order) /\ InOrder(f.tree.order)
      BY <1>1 DEF FrameRight
    <3>2. Len(f.tree.order) \in Nat
      BY <3>1 DEF InOrder
    <3>3. f.at - 1 < Len(f.tree.order) /\ (f.at - 1) + 1 = f.at
      BY <1>2, <3>1, <3>2
    <3> QED
      BY <1>1, <1>2, <3>3
  <2>2. ArenaRight(made.arena) /\ Stands(made.arena, g, made.arena.next)
        /\ g.tree.root = arena.next /\ \A p \in 0..arena.next - 1 : made.arena.nodes[p] = arena.nodes[p]
    BY <1>3, <1>4 DEF Raised, Stands
  <2>3. Range(g.itemset) = Range(low.itemset) \cup {y} /\ g.itemset # <<>>
    BY <1>1, <1>4, <1>5, <1>9, <2>1
  <2> DEFINE b == made.arena
  <2>4. /\ low.at < Len(low.tree.order) /\ FrameRight(g) /\ ArenaRight(b)
        /\ Stands(b, g, b.next) /\ g.tree.root = arena.next /\ g.saved = arena.next
        /\ Range(g.itemset) = Range(low.itemset) \cup {y} /\ g.itemset # <<>>
        /\ \A p \in 0..arena.next - 1 : b.nodes[p] = arena.nodes[p]
    BY <1>3, <1>4, <2>1, <2>2, <2>3
  <2> HIDE DEF b
  <2>5. Pushed(arena, us, b, g)
    BY <2>4 DEF Pushed
  <2> QED
    BY <2>5 DEF b
<1>13. Grove(made.arena, ts)
  <2> DEFINE b == made.arena
  <2> HIDE DEF b
  <2>1. Grove(arena, us) /\ Pushed(arena, us, b, g)
    BY <1>1, <1>12 DEF b
  <2>2. Grove(b, <<g>> \o us)
    BY <2>1, PushGrove
  <2> QED
    BY <2>2 DEF b
<1>14. us \in Seq(TreeFrames) /\ us # <<>>
  BY <1>1 DEF Grove
<1>15. /\ Len(ts) = n + 1 /\ ts[1] = g
       /\ \A i \in 1..n : ts[i + 1] = us[i]
       /\ \A k \in 1..n + 1 : k # 1 => k - 1 \in 1..n /\ ts[k] = us[k - 1]
  BY <1>1, <1>6, <1>14, PushIndex
<1> HIDE DEF ts
<1>16. /\ Once(Listing) /\ Unmet(Listing, us) /\ Unmet(candidates, trees)
       /\ \A H \in TreeWanted :
            \/ Coming(Listing, us, H)
            \/ Entire \subseteq H /\ H # Entire /\ H \subseteq Entire \cup Range(MinedOrder)
  BY HeavyItem DEF us
<1>17. ASSUME NEW k \in 1..Len(Listing)
       PROVE  ~GoesOn(g, Range(Listing[k]))
  <2>1. CASE k \in 1..Len(candidates)
    <3>1. Listing[k] = candidates[k]
      BY <2>1, ItemsetFacts
    <3>2. ~GoesOn(f, Range(candidates[k]))
      BY <1>1, <1>16, <2>1 DEF Unmet, f
    <3> QED
      BY <1>11, <3>1, <3>2
  <2>2. CASE k = Len(candidates) + 1
    <3>1. Range(Listing[k]) = Entire
      BY <1>5, <2>2, ItemsetFacts
    <3> QED
      BY <1>11, <3>1
  <2> QED
    BY <2>1, <2>2, ItemsetFacts
<1>18. Unmet(Listing, ts)
  <2>1. ASSUME NEW k \in 1..Len(Listing), NEW i \in 1..n + 1
        PROVE  ~GoesOn(ts[i], Range(Listing[k]))
    <3>1. CASE i = 1
      BY <1>15, <1>17, <3>1
    <3>2. CASE i # 1
      BY <1>1, <1>15, <1>16, <3>2 DEF Unmet
    <3> QED
      BY <3>1, <3>2
  <2> QED
    BY <1>15, <2>1 DEF Unmet
<1>19. ASSUME NEW H \in TreeWanted
       PROVE  Coming(Listing, ts, H)
  <2>1. CASE Coming(Listing, us, H)
    <3>1. CASE \E k \in 1..Len(Listing) : Range(Listing[k]) = H
      BY <3>1 DEF Coming
    <3>2. CASE \E i \in 1..Len(us) : GoesOn(us[i], H)
      <4>1. PICK i \in 1..n : GoesOn(us[i], H)
        BY <1>1, <3>2
      <4>2. i + 1 \in 1..n + 1 /\ ts[i + 1] = us[i]
        BY <1>1, <1>15
      <4> QED
        BY <1>15, <4>1, <4>2 DEF Coming
    <3> QED
      BY <2>1, <3>1, <3>2 DEF Coming
  <2>2. CASE Entire \subseteq H /\ H # Entire /\ H \subseteq Entire \cup Range(MinedOrder)
    <3>1. GoesOn(ts[1], H) /\ 1 \in 1..n + 1
      BY <1>1, <1>11, <1>15, <2>2
    <3> QED
      BY <1>15, <3>1 DEF Coming
  <2> QED
    BY <1>16, <2>1, <2>2
<1>20. /\ ItemBytesAsked \in Nat /\ (Grows => ItemBytesAsked = 0)
       /\ ~Grows => used + ItemBytesAsked = IF Counts THEN ListBytes(Listing) ELSE 0
  BY AskedItem
<1>21. Owed(Listing, ts, used + bytes + ItemBytesAsked)
  <2>1. CASE Grows
    <3>1. Asked(trees, used)
      BY <2>1 DEF MiningNow, Forest, Owed
    <3>2. n \in Nat \ {0} /\ \A i \in 1..n : us[i].bytes = trees[i].bytes
      BY <1>1
    <3>3. Asked(us, used)
      BY <1>1, <3>1, <3>2, AskedSame
    <3>4. Asked(ts, used + g.bytes)
      BY <1>2, <1>4, <1>6, <1>14, <3>3, AskedPush DEF ts
    <3>5. used + bytes + ItemBytesAsked = used + g.bytes
      BY <1>2, <1>4, <1>20, <2>1
    <3> QED
      BY <2>1, <3>4, <3>5 DEF Owed
  <2>2. CASE ~Grows
    <3>1. used + bytes + ItemBytesAsked = used + ItemBytesAsked
      BY <1>2, <1>20, <2>2
    <3> QED
      BY <1>20, <2>2, <3>1 DEF Owed
  <2> QED
    BY <2>1, <2>2
<1> QED
  BY <1>13, <1>16, <1>18, <1>19, <1>21 DEF Forest, ts, g, made, us, f, x

-----------------------------------------------------------------------------
(* What no step of a mining changes *)

SameRun == UNCHANGED <<db, mode, twu>>

LEMMA TreesKept ==
  ASSUME SameRun
  PROVE  /\ Grows' = Grows /\ Counts' = Counts /\ GrowsTrees' = GrowsTrees /\ Surveyed' = Surveyed
         /\ TreeWanted' = TreeWanted /\ \A S : TreeEntry(S)' = TreeEntry(S)
         /\ \A f : FrameRight(f)' = FrameRight(f)
         /\ \A f : Shares(f)' = Shares(f)
         /\ \A o : Paths(o)' = Paths(o)
         /\ \A c, ts, n : Owed(c, ts, n)' = Owed(c, ts, n)
<1>1. db' = db /\ mode' = mode /\ twu' = twu
  BY DEF SameRun
<1>2. Grows' = Grows /\ Counts' = Counts /\ GrowsTrees' = GrowsTrees
  BY <1>1 DEF Grows, Counts, GrowsTrees
<1>3. Surveyed' = Surveyed /\ TreeWanted' = TreeWanted /\ \A S : TreeEntry(S)' = TreeEntry(S)
  BY <1>1 DEF Surveyed, TreeWanted, TreeEntry
<1>4. \A f : Company(f)' = Company(f)
  BY <1>1 DEF Company
<1>5. \A f : FrameRight(f)' = FrameRight(f)
  BY <1>1, <1>2, <1>4 DEF FrameRight
<1>6. \A o : \A t : PathOf(t, o)' = PathOf(t, o)
  BY <1>1 DEF PathOf
<1>7. \A o : Paths(o)' = Paths(o)
  BY <1>6 DEF Paths
<1>8. \A t, f, part : Share(t, f, part)' = Share(t, f, part)
  BY <1>1, <1>2 DEF Share
<1>9. \A f : Shares(f)' = Shares(f)
  BY <1>6, <1>8 DEF Shares
<1>10. \A c, ts, n : Owed(c, ts, n)' = Owed(c, ts, n)
  BY <1>2 DEF Owed
<1> QED
  BY <1>2, <1>3, <1>5, <1>7, <1>9, <1>10

LEMMA ForestKept ==
  ASSUME SameRun, unread' = unread
  PROVE  /\ \A a, ts : Grove(a, ts)' = Grove(a, ts)
         /\ \A a, ts, c, n : Forest(a, ts, c, n)' = Forest(a, ts, c, n)
<1>1. /\ \A f : FrameRight(f)' = FrameRight(f)
      /\ \A f : Shares(f)' = Shares(f)
      /\ \A o : Paths(o)' = Paths(o)
      /\ \A c, ts, n : Owed(c, ts, n)' = Owed(c, ts, n)
      /\ TreeWanted' = TreeWanted
  BY TreesKept
<1>2. \A f : Group(f)' = Group(f)
  BY DEF Group, SameRun
<1>3. \A a, f, hi : Stands(a, f, hi)' = Stands(a, f, hi)
  BY <1>1, <1>2 DEF Stands
<1>4. \A a, ts : Grove(a, ts)' = Grove(a, ts)
  BY <1>1, <1>3 DEF Grove
<1>5. \A a, ts, c, n : Forest(a, ts, c, n)' = Forest(a, ts, c, n)
  BY <1>1, <1>4 DEF Forest
<1> QED
  BY <1>4, <1>5

-----------------------------------------------------------------------------
(* A conditional tree is mined *)

LEMMA PopForest ==
  ASSUME NEW a, NEW ts, NEW c, NEW n \in Nat, Forest(a, ts, c, n), ts[1].at = 0, Len(ts) > 1,
         NEW b, b = [a EXCEPT !.next = ts[1].saved],
         NEW m, m = IF n < ts[1].bytes THEN 0 ELSE n - ts[1].bytes
  PROVE  Forest(b, Tail(ts), c, m) /\ m \in Nat
<1> DEFINE us == Tail(ts)
           k == Len(ts)
<1>1. /\ Grove(a, ts) /\ Once(c) /\ Unmet(c, ts) /\ Owed(c, ts, n)
      /\ \A H \in TreeWanted : Coming(c, ts, H)
  BY DEF Forest
<1>2. Grove(b, us) /\ Len(us) = k - 1 /\ \A i \in 1..k - 1 : us[i] = ts[i + 1]
  BY <1>1, PopGrove
<1>3. k \in Nat /\ k > 1 /\ 1 \in 1..k /\ FrameRight(ts[1])
  BY <1>1, GroveFacts
<1> HIDE DEF us
<1>4. \A H : ~GoesOn(ts[1], H)
  <2> DEFINE f == ts[1]
  <2>1. Left(f) = {}
    <3>1. f.at = 0 /\ 1..0 = {}
      OBVIOUS
    <3>2. 1..f.at = {}
      BY <3>1
    <3> QED
      BY <3>2 DEF Left
  <2> HIDE DEF f
  <2> QED
    BY <2>1 DEF GoesOn, f
<1>5. Unmet(c, us)
  <2>1. ASSUME NEW j \in 1..Len(c), NEW i \in 1..k - 1
        PROVE  ~GoesOn(us[i], Range(c[j]))
    <3>1. i + 1 \in 1..k
      BY <1>3
    <3> QED
      BY <1>1, <1>2, <3>1 DEF Unmet
  <2> QED
    BY <1>2, <2>1 DEF Unmet
<1>6. ASSUME NEW H \in TreeWanted
      PROVE  Coming(c, us, H)
  <2>1. CASE \E j \in 1..Len(c) : Range(c[j]) = H
    BY <2>1 DEF Coming
  <2>2. CASE \E i \in 1..k : GoesOn(ts[i], H)
    <3>1. PICK i \in 1..k : GoesOn(ts[i], H)
      BY <2>2
    <3>2. i # 1
      BY <1>4, <3>1
    <3>3. i - 1 \in 1..k - 1 /\ (i - 1) + 1 = i
      BY <1>3, <3>2
    <3>4. us[i - 1] = ts[i]
      BY <1>2, <3>3
    <3> QED
      BY <1>2, <3>1, <3>3, <3>4 DEF Coming
  <2> QED
    BY <1>1, <2>1, <2>2 DEF Coming
<1>7. ts[1].bytes \in Nat /\ (~Grows => ts[1].bytes = 0)
  <2>1. ts[1] \in TreeFrames /\ (~Grows => ts[1].bytes = 0)
    BY <1>3 DEF FrameRight
  <2> QED
    BY <2>1 DEF TreeFrames
<1>8. m \in Nat /\ Owed(c, us, m)
  <2>1. CASE Grows
    <3>1. Asked(ts, n)
      BY <1>1, <2>1 DEF Owed
    <3>2. n - ts[1].bytes \in Nat /\ Asked(us, n - ts[1].bytes)
      BY <1>2, <1>3, <1>7, <3>1, AskedPop
    <3>3. m = n - ts[1].bytes
      BY <1>7, <3>2
    <3> QED
      BY <2>1, <3>2, <3>3 DEF Owed
  <2>2. CASE ~Grows
    <3>1. m = n
      BY <1>7, <2>2
    <3> QED
      BY <1>1, <2>2, <3>1 DEF Owed
  <2> QED
    BY <2>1, <2>2
<1> QED
  BY <1>1, <1>2, <1>5, <1>6, <1>8 DEF Forest, us

-----------------------------------------------------------------------------
(* The tree of the database *)

\* Every item of a wanted itemset has passed the filter.
LEMMA WantedPass ==
  ASSUME Surveyed, twu = TwuFilter(db, mode.minUtility), NEW H \in TreeWanted
  PROVE  H \in SUBSET DOMAIN twu /\ H # {} /\ Supporting(db, H) # {}
<1>1. /\ db \in Databases /\ mode.minUtility \in Nat \ {0}
      /\ H \in SUBSET Items /\ H # {} /\ Utility(db, H) >= mode.minUtility
  BY DEF Surveyed, TreeWanted
<1>2. Supporting(db, H) # {}
  <2>1. SUFFICES ASSUME Supporting(db, H) = {} PROVE FALSE
    OBVIOUS
  <2>2. Utility(db, H) = 0
    BY <2>1, EmptyFootprint DEF Utility, TidSum
  <2> QED
    BY <1>1, <2>2
<1>3. ASSUME NEW x \in H
      PROVE  x \in DOMAIN twu
  <2>1. {x} \in SUBSET H
    OBVIOUS
  <2>2. Utility(db, H) \in Nat /\ Twu(db, {x}) \in Nat /\ Utility(db, H) <= Twu(db, {x})
    BY <1>1, <2>1, TwuCovers
  <2>3. Supporting(db, {x}) # {}
    BY <1>1, <1>2, <2>1, SupportingTids
  <2> DEFINE u == Utility(db, H)
             v == Twu(db, {x})
             min == mode.minUtility
  <2>4. u \in Nat /\ v \in Nat /\ u <= v /\ u >= min /\ min \in Nat
    BY <1>1, <2>2
  <2> HIDE DEF u, v, min
  <2>5. v >= min
    BY <2>4
  <2> QED
    BY <1>1, <2>3, <2>5 DEF TwuFilter, v, min
<1> QED
  BY <1>1, <1>2, <1>3

EmptyArena == [nodes |-> [p \in {} |-> Null], next |-> 0, pages |-> 0]

\* The first pass is over, and the tree is empty.
Planted ==
  /\ Surveyed /\ twu = TwuFilter(db, mode.minUtility)
  /\ unread = Tids /\ candidates = <<>>
  /\ LET order == Sorted(DOMAIN twu, twu)
         made == NewTree(EmptyArena, order)
         bytes == IF Grows THEN HeaderBytes * Len(order) ELSE 0
     IN  /\ arena = made.arena
         /\ trees = <<TreeFrame(made.tree, <<>>, 0, bytes)>>
         /\ used = bytes

Rooted ==
  /\ Forest(arena, trees, candidates, used) /\ used \in Nat
  /\ Len(trees) = 1 /\ trees[1].at = Len(trees[1].tree.order)

LEMMA PlantedForest == Planted => Rooted
<1> SUFFICES ASSUME Planted PROVE Rooted
  OBVIOUS
<1> DEFINE order == Sorted(DOMAIN twu, twu)
           made == NewTree(EmptyArena, order)
           bytes == IF Grows THEN HeaderBytes * Len(order) ELSE 0
           f == TreeFrame(made.tree, <<>>, 0, bytes)
           g == [itemset |-> <<>>, tree |-> [order |-> order]]
           w == Shares(g)
           S == Paths(order)
<1>1. /\ Surveyed /\ twu = TwuFilter(db, mode.minUtility)
      /\ unread = Tids /\ candidates = <<>>
      /\ arena = made.arena /\ trees = <<f>> /\ used = bytes
  BY DEF Planted
<1>2. InOrder(order) /\ Range(order) = DOMAIN twu /\ Len(order) \in Nat
  <2>1. DOMAIN twu \in SUBSET Items /\ \A x \in DOMAIN twu : twu[x] \in Nat
    BY <1>1 DEF Surveyed
  <2>2. InOrder(order) /\ Range(order) = DOMAIN twu
    BY <2>1, SortedOrder
  <2> QED
    BY <2>2 DEF InOrder
<1>3. ArenaRight(EmptyArena) /\ EmptyArena.next = 0
  <2>1. EmptyArena.nodes \in [{} -> NodeType] /\ DOMAIN EmptyArena.nodes = {}
    BY DEF EmptyArena
  <2>2. \A p \in 0..-1 : FALSE
    OBVIOUS
  <2>3. EmptyArena = [nodes |-> EmptyArena.nodes, next |-> EmptyArena.next, pages |-> EmptyArena.pages]
        /\ EmptyArena.next = 0 /\ EmptyArena.pages = 0
    BY DEF EmptyArena
  <2> QED
    BY <2>1, <2>2, <2>3 DEF ArenaRight
<1> HIDE DEF order
<1>4. Raised(made, EmptyArena.next, EmptyArena.nodes, order, {}, S, w)
  <2> HIDE DEF S, w, made
  <2>1. Raised(NewTree(EmptyArena, order), EmptyArena.next, EmptyArena.nodes, order, {}, S, w)
    BY <1>2, <1>3, NewTreeHolds
  <2> QED
    BY <2>1 DEF made
<1>5. bytes \in Nat /\ (~Grows => bytes = 0)
  BY <1>2 DEF HeaderBytes
<1> HIDE DEF made, bytes
<1>6. /\ ArenaRight(made.arena) /\ Holds(made.arena.nodes, made.tree, made.arena.next, {}, S, w)
      /\ made.tree.root = 0 /\ made.tree.order = order /\ made.arena.next > 0
  BY <1>3, <1>4 DEF Raised
<1>7. made.tree \in Woods
  <2> DEFINE nodes == made.arena.nodes
             tree == made.tree
             hi == made.arena.next
  <2> HIDE DEF nodes, tree, hi, S, w
  <2>1. Holds(nodes, tree, hi, {}, S, w)
    BY <1>6 DEF nodes, tree, hi
  <2>2. tree \in Woods
    BY <2>1, WoodOf
  <2> QED
    BY <2>2 DEF tree
<1>8. /\ f = [tree |-> made.tree, itemset |-> <<>>, at |-> Len(order), saved |-> 0, bytes |-> bytes]
      /\ f.tree = made.tree /\ f.itemset = <<>> /\ f.at = Len(order) /\ f.saved = 0 /\ f.bytes = bytes
  BY <1>6 DEF TreeFrame
<1> HIDE DEF f
<1>9. f \in TreeFrames
  <2>1. <<>> \in Seq(Items)
    OBVIOUS
  <2> QED
    BY <1>2, <1>5, <1>7, <1>8, <2>1 DEF TreeFrames
<1>10. Range(<<>>) = {} /\ InOrder(<<>>)
  BY DEF Range, InOrder
<1>11. FrameRight(f)
  <2>1. f.tree.order = order /\ f.itemset = <<>> /\ f.at \in 0..Len(order)
    BY <1>2, <1>6, <1>8
  <2>2. Range(f.itemset) = {} /\ InOrder(f.itemset)
    BY <1>8, <1>10
  <2>3. f.itemset = <<>> => order = Sorted(DOMAIN twu, twu)
    BY DEF order
  <2> QED
    BY <1>2, <1>5, <1>8, <1>9, <2>1, <2>2, <2>3 DEF FrameRight
<1>12. Group(f) = {} /\ Shares(f) = w
  <2>1. Group(f) = {}
    BY <1>1, <1>8 DEF Group, Supporting
  <2>2. f.tree.order = order /\ g.tree.order = order /\ g.itemset = f.itemset
    BY <1>6, <1>8
  <2> HIDE DEF g
  <2>3. \A t, part : Share(t, f, part) = Share(t, g, part)
    BY <2>2 DEF Share
  <2>4. Shares(f) = Shares(g)
    BY <2>2, <2>3 DEF Shares
  <2> QED
    BY <2>1, <2>4 DEF w
<1> HIDE DEF S, w
<1>13. Stands(arena, f, arena.next)
  BY <1>1, <1>6, <1>8, <1>12 DEF Stands, S
<1>14. /\ trees \in Seq(TreeFrames) /\ trees # <<>> /\ Len(trees) = 1 /\ trees[1] = f
  BY <1>1, <1>9
<1>15. Grove(arena, trees)
  <2>1. \A i \in 1..1 : i = 1
    OBVIOUS
  <2>2. Hi(arena, trees, 1) = arena.next
    BY DEF Hi
  <2>3. ArenaRight(arena) /\ trees[1].tree.root = 0
    BY <1>1, <1>6, <1>8, <1>14
  <2> QED
    BY <1>8, <1>11, <1>13, <1>14, <2>1, <2>2, <2>3 DEF Grove
<1>16. Len(candidates) = 0 /\ Once(candidates) /\ Unmet(candidates, trees)
  <2>1. candidates = <<>> /\ Len(candidates) = 0 /\ candidates \in Seq(Seq(Items))
    BY <1>1
  <2>2. \A k \in 1..0 : FALSE
    OBVIOUS
  <2> QED
    BY <2>1, <2>2 DEF Once, Unmet
<1>17. ASSUME NEW H \in TreeWanted
       PROVE  Coming(candidates, trees, H)
  <2>1. H \in SUBSET DOMAIN twu /\ H # {}
    BY <1>1, WantedPass
  <2>2. Left(f) = Range(order)
    <3>1. Range(order) = {order[i] : i \in 1..Len(order)}
      BY <1>2, EarlierOrder
    <3>2. f.tree.order = order /\ f.at = Len(order)
      BY <1>6, <1>8
    <3> QED
      BY <3>1, <3>2 DEF Left
  <2>3. GoesOn(f, H)
    BY <1>2, <1>8, <1>10, <2>1, <2>2 DEF GoesOn
  <2> QED
    BY <1>14, <2>3 DEF Coming
<1>18. used \in Nat /\ Owed(candidates, trees, used)
  <2>1. used = bytes
    BY <1>1
  <2>2. CASE Grows
    <3> DEFINE sum == [i \in 1..1 |-> bytes]
    <3>1. sum \in [1..1 -> Nat] /\ sum[1] = bytes
      BY <1>5
    <3> HIDE DEF sum
    <3>2. \A i \in 1..1 - 1 : FALSE
      OBVIOUS
    <3>3. Asked(trees, used)
      BY <1>8, <1>14, <2>1, <3>1, <3>2 DEF Asked
    <3> QED
      BY <1>5, <2>1, <2>2, <3>3 DEF Owed
  <2>3. CASE ~Grows
    <3>1. used = 0
      BY <1>5, <2>1, <2>3
    <3>2. ListBytes(candidates) = 0
      <4> DEFINE size == [i \in DOMAIN candidates |-> Len(candidates[i])]
      <4>1. DOMAIN candidates = {}
        BY <1>1
      <4> HIDE DEF size
      <4>2. Footprint({}, size, Cardinality(Items)) = 0
        BY EmptyFootprint
      <4> QED
        BY <4>1, <4>2 DEF ListBytes, CandidateItemBytes, size
    <3> QED
      BY <2>3, <3>1, <3>2 DEF Owed
  <2> QED
    BY <2>2, <2>3
<1>19. trees[1].at = Len(trees[1].tree.order)
  BY <1>6, <1>8, <1>14
<1> QED
  BY <1>14, <1>15, <1>16, <1>17, <1>18, <1>19 DEF Forest, Rooted

\* What one transaction adds.
LEMMA TidSumOne ==
  ASSUME NEW t, NEW u, u[t] \in 0..TidMax
  PROVE  TidSum({t}, u) = u[t]
<1>1. IsFiniteSet({}) /\ TidMax \in Nat
  BY FS_EmptySet, TidMaxType
<1>2. Footprint({} \cup {t}, u, TidMax) = Footprint({}, u, TidMax) + u[t]
  BY <1>1, AddMember
<1>3. Footprint({}, u, TidMax) = 0 /\ {} \cup {t} = {t}
  BY EmptyFootprint
<1>4. Footprint({t}, u, TidMax) = u[t]
  BY <1>2, <1>3
<1> QED
  BY <1>4 DEF TidSum, TidMax

\* A transaction adds to a node of its path what the node has to hold of it.
LEMMA ValuesRight ==
  ASSUME Surveyed, NEW f, FrameRight(f), f.itemset = <<>>, NEW t \in Tids,
         NEW x \in PathOf(t, f.tree.order)
  PROVE  Values(t, PathOf(t, f.tree.order))[x] = TidSum({t}, Shares(f)[x])
<1> DEFINE order == f.tree.order
           path == PathOf(t, order)
           part == UpTo(order, path, x)
           u == Shares(f)[x]
<1>1. InOrder(order) /\ order = Sorted(DOMAIN twu, twu) /\ db \in Databases
      /\ DOMAIN twu \in SUBSET Items /\ \A y \in DOMAIN twu : twu[y] \in Nat
  BY DEF FrameRight, Surveyed
<1>2. Range(order) = DOMAIN twu /\ \A y, z \in DOMAIN twu : Earlier(order, y, z) <=> Ahead(twu, y, z)
  BY <1>1, SortedOrder
<1>3. path \in SUBSET DOMAIN twu /\ x \in path /\ part \in SUBSET Items /\ x \in Items
  BY <1>1, <1>2 DEF PathOf, UpTo
<1>4. u[t] = Share(t, f, part)
  BY <1>3 DEF Shares
<1> HIDE DEF u, order
<1>5. Values(t, path)[x] = u[t]
  <2>1. CASE Grows
    <3>1. part = {y \in path : y = x \/ Ahead(twu, y, x)}
      BY <1>2, <1>3 DEF UpTo
    <3>2. u[t] = ItemSum(part, db[t])
      BY <1>4, <2>1 DEF Share
    <3> HIDE DEF path, part
    <3>3. Values(t, path)[x] = ItemSum({y \in path : y = x \/ Ahead(twu, y, x)}, db[t])
      BY <1>3, <2>1 DEF Values
    <3> QED
      BY <3>1, <3>2, <3>3
  <2>2. CASE ~Grows
    <3> HIDE DEF path, part
    <3> QED
      BY <1>3, <1>4, <2>2 DEF Values, Share
  <2> QED
    BY <2>1, <2>2
<1>6. u[t] \in 0..TidMax
  <2>1. CASE Grows
    <3>1. u[t] = ItemSum(part, db[t])
      BY <1>4, <2>1 DEF Share
    <3>2. ItemSum(part, db[t]) \in Nat /\ ItemSum(part, db[t]) <= TransactionUtility(db, t)
      BY <1>1, <1>3, ItemSums
    <3>3. TransactionUtility(db, t) \in 0..TidMax /\ TidMax \in Nat
      BY <1>1, TransactionBound, TidMaxType
    <3> QED
      BY <3>1, <3>2, <3>3
  <2>2. CASE ~Grows
    <3>1. u[t] = TransactionUtility(db, t)
      BY <1>4, <2>2 DEF Share
    <3> QED
      BY <1>1, <3>1, TransactionBound
  <2> QED
    BY <2>1, <2>2
<1>7. TidSum({t}, u) = u[t]
  BY <1>6, TidSumOne
<1> QED
  BY <1>5, <1>7 DEF u, order

\* A transaction is read: its path is in the tree.
LEMMA ReadForest ==
  ASSUME Surveyed, Rooted, candidates = <<>>, unread \in SUBSET Tids, NEW t \in unread,
         LET path == PathOf(t, trees[1].tree.order)
             grown == Insert(arena, trees[1].tree, path, Values(t, path))
         IN  arena' = grown.arena /\ trees' = [trees EXCEPT ![1].tree = grown.tree],
         unread' = unread \ {t}, UNCHANGED contextVars, UNCHANGED candidates
  PROVE  Rooted'
<1> DEFINE f == trees[1]
           order == f.tree.order
           path == PathOf(t, order)
           r == Insert(arena, f.tree, path, Values(t, path))
           S == Paths(order)
           w == Shares(f)
           K == Group(f)
<1>1. /\ Grove(arena, trees) /\ Once(candidates) /\ Owed(candidates, trees, used) /\ used \in Nat
      /\ \A H \in TreeWanted : Coming(candidates, trees, H)
      /\ Len(trees) = 1 /\ f.at = Len(order)
  BY DEF Rooted, Forest
<1>2. /\ trees \in Seq(TreeFrames) /\ ArenaRight(arena) /\ FrameRight(f)
      /\ Stands(arena, f, arena.next) /\ f.itemset = <<>> /\ f.tree.root = 0
      /\ f \in TreeFrames
  <2>1. 1 \in 1..Len(trees)
    BY <1>1
  <2>2. Hi(arena, trees, 1) = arena.next
    BY DEF Hi
  <2> QED
    BY <1>1, <2>1, <2>2 DEF Grove, FrameRight
<1>3. SameRun /\ UNCHANGED <<used, candidates>>
  BY DEF SameRun, contextVars
<1>4. InOrder(order) /\ Len(order) \in Nat
  BY <1>2 DEF FrameRight, InOrder
<1>5. t \in Tids /\ K \in SUBSET Tids /\ t \notin K /\ K = Tids \ unread
  <2>1. K = Tids \ unread
    BY <1>2 DEF Group, Supporting, HasAll, Range
  <2> QED
    BY <2>1
<1>6. Inserted(r, arena, f.tree, K \cup {t}, S, w)
  <2> DEFINE value == Values(t, path)
             tree == f.tree
             G == {t}
             items == path
  <2>1. path \in SUBSET Range(order)
    BY DEF PathOf
  <2>2. \A x \in path : value[x] = TidSum(G, w[x])
    <3> SUFFICES ASSUME NEW x \in path PROVE value[x] = TidSum(G, w[x])
      OBVIOUS
    <3> DEFINE ff == f
    <3> HIDE DEF ff
    <3>1. FrameRight(ff) /\ ff.itemset = <<>> /\ x \in PathOf(t, ff.tree.order)
      BY <1>2 DEF ff
    <3>2. Values(t, PathOf(t, ff.tree.order))[x] = TidSum({t}, Shares(ff)[x])
      BY <1>5, <3>1, ValuesRight
    <3> QED
      BY <3>2 DEF ff
  <2>3. items \cap Range(order) = path
    BY <2>1
  <2>4. S[t] = path /\ \A u \in K : S[u] \in SUBSET Range(order)
    BY <1>5 DEF Paths, PathOf
  <2>5. Holds(arena.nodes, tree, arena.next, K, S, w)
    BY <1>2 DEF Stands
  <2> HIDE DEF value, tree, items, K, S, w, G
  <2>6. /\ \A u \in K : S[u] \in SUBSET Range(tree.order)
        /\ \A u \in G : S[u] = items \cap Range(tree.order)
        /\ \A x \in items \cap Range(tree.order) : value[x] = TidSum(G, w[x])
    BY <2>2, <2>3, <2>4 DEF tree, items, G
  <2>7. G \in SUBSET Tids /\ G # {} /\ K \cap G = {}
    BY <1>5 DEF G
  <2>8. Inserting(arena, tree, items, value, K, G, S, w)
    BY <1>2, <1>5, <2>5, <2>6, <2>7 DEF Inserting
  <2>9. Inserted(Insert(arena, tree, items, value), arena, tree, K \cup G, S, w)
    BY <2>8, InsertHolds
  <2> QED
    BY <2>9 DEF tree, items, value, G
<1>7. PICK b : b = r.arena
  OBVIOUS
<1>8. PICK wood : wood = r.tree
  OBVIOUS
<1>9. PICK h : h = [f EXCEPT !.tree = wood]
  OBVIOUS
<1>10. PICK ts : ts = [trees EXCEPT ![1] = h]
  OBVIOUS
<1>11. arena' = b /\ trees' = ts
  <2>1. arena' = r.arena /\ trees' = [trees EXCEPT ![1].tree = r.tree]
    OBVIOUS
  <2> HIDE DEF r
  <2> QED
    BY <1>7, <1>8, <1>9, <1>10, <2>1
<1>12. /\ ArenaRight(b) /\ Holds(b.nodes, wood, b.next, K \cup {t}, S, w)
       /\ wood.root = 0 /\ wood.order = order
  BY <1>2, <1>6, <1>7, <1>8 DEF Inserted
<1> HIDE DEF r, S, w, K
<1>13. wood \in Woods
  <2> DEFINE nodes == b.nodes
             hi == b.next
             L == K \cup {t}
  <2> HIDE DEF nodes, hi, L
  <2>1. Holds(nodes, wood, hi, L, S, w)
    BY <1>12 DEF nodes, hi, L
  <2> QED
    BY <2>1, WoodOf
<1>14. /\ h \in TreeFrames /\ h.tree = wood /\ h.itemset = <<>> /\ h.at = f.at
       /\ h.saved = f.saved /\ h.bytes = f.bytes
  BY <1>2, <1>9, <1>13 DEF TreeFrames
<1>15. ts \in Seq(TreeFrames) /\ ts # <<>> /\ Len(ts) = 1 /\ ts[1] = h
  <2> DEFINE us == trees
  <2>1. us \in Seq(TreeFrames) /\ Len(us) = 1 /\ ts = [us EXCEPT ![1] = h] /\ h \in TreeFrames
    BY <1>1, <1>2, <1>10, <1>14
  <2> HIDE DEF us
  <2>2. DOMAIN us = 1..1 /\ us \in [1..1 -> TreeFrames]
    BY <2>1
  <2>3. ts \in [1..1 -> TreeFrames] /\ ts[1] = h /\ DOMAIN ts = 1..1
    BY <2>1, <2>2
  <2>4. ts = [i \in 1..1 |-> ts[i]]
    BY <2>3
  <2> DEFINE F == TreeFrames
             vs == [i \in 1..1 |-> ts[i]]
  <2>5. vs \in Seq(F) /\ Len(vs) = 1 /\ vs # <<>>
    <3>1. \A i \in 1..1 : ts[i] \in F
      BY <2>3
    <3> HIDE DEF F
    <3> QED
      BY <3>1
  <2> HIDE DEF vs
  <2> QED
    BY <2>3, <2>4, <2>5 DEF vs
<1>16. FrameRight(h)
  <2>1. /\ h.tree.order = order /\ h.itemset = f.itemset /\ h.bytes = f.bytes /\ h.at = f.at
    BY <1>2, <1>12, <1>14
  <2>2. /\ InOrder(order) /\ Range(order) \subseteq DOMAIN twu /\ f.at \in 0..Len(order)
        /\ InOrder(f.itemset) /\ Range(f.itemset) \subseteq DOMAIN twu
        /\ Range(f.itemset) \cap Range(order) = {}
        /\ ~Grows => f.bytes = 0
        /\ f.itemset = <<>> => order = Sorted(DOMAIN twu, twu)
    BY <1>2 DEF FrameRight
  <2> DEFINE P == f.itemset
             at == f.at
             bytes == f.bytes
  <2>3. /\ InOrder(order) /\ Range(order) \subseteq DOMAIN twu /\ at \in 0..Len(order)
        /\ InOrder(P) /\ Range(P) \subseteq DOMAIN twu
        /\ Range(P) \cap Range(order) = {}
        /\ ~Grows => bytes = 0
        /\ P = <<>> => order = Sorted(DOMAIN twu, twu)
        /\ P = <<>>
        /\ h.tree.order = order /\ h.itemset = P /\ h.bytes = bytes /\ h.at = at
    BY <1>2, <2>1, <2>2
  <2> HIDE DEF P, at, bytes, order
  <2> QED
    BY <1>14, <2>3 DEF FrameRight
<1>17. Shares(h) = w /\ Paths(h.tree.order) = S
  <2>1. h.tree.order = order /\ h.itemset = f.itemset
    BY <1>2, <1>12, <1>14
  <2>2. \A u, part : Share(u, h, part) = Share(u, f, part)
    BY <2>1 DEF Share
  <2>3. Shares(h) = Shares(f)
    BY <2>1, <2>2 DEF Shares
  <2> QED
    BY <2>1, <2>3 DEF w, S
<1>18. Group(h)' = K \cup {t}
  <2>1. Range(h.itemset) = {}
    BY <1>14 DEF Range
  <2>2. Group(h)' = Tids \ unread'
    BY <1>14, <2>1 DEF Group, Supporting, HasAll
  <2> QED
    BY <1>5, <2>2
<1>19. /\ FrameRight(h)' /\ Shares(h)' = w /\ Paths(h.tree.order)' = S
       /\ \A c, us, n : Owed(c, us, n)' = Owed(c, us, n)
       /\ TreeWanted' = TreeWanted
  BY <1>3, <1>16, <1>17, TreesKept
<1>20. Stands(b, h, b.next)'
  <2>1. Stands(b, h, b.next)' <=> Holds(b.nodes, h.tree, b.next, Group(h)', Paths(h.tree.order)', Shares(h)')
    BY DEF Stands
  <2> QED
    BY <1>12, <1>14, <1>18, <1>19, <2>1
<1>21. Grove(b, ts)'
  <2>1. \A i \in 1..1 : i = 1
    OBVIOUS
  <2>2. Hi(b, ts, 1) = b.next
    BY DEF Hi
  <2>3. ts[1].tree.root = 0
    BY <1>12, <1>14, <1>15
  <2> QED
    BY <1>12, <1>14, <1>15, <1>19, <1>20, <2>1, <2>2, <2>3 DEF Grove
<1>22. Once(candidates) /\ Len(candidates) = 0 /\ Unmet(candidates, ts)
  <2>1. Len(candidates) = 0
    OBVIOUS
  <2>2. \A k \in 1..0 : FALSE
    OBVIOUS
  <2> QED
    BY <1>1, <2>1, <2>2 DEF Unmet
<1>23. ASSUME NEW H \in TreeWanted
       PROVE  Coming(candidates, ts, H)
  <2>1. \E i \in 1..1 : GoesOn(trees[i], H)
    BY <1>1, <1>22 DEF Coming
  <2>2. GoesOn(f, H)
    BY <2>1
  <2>3. h.tree.order = f.tree.order /\ h.itemset = f.itemset /\ h.at = f.at
    BY <1>2, <1>12, <1>14
  <2>4. GoesOn(h, H)
    BY <2>2, <2>3 DEF GoesOn, Left
  <2> QED
    BY <1>15, <2>4 DEF Coming
<1>24. Owed(candidates, ts, used)
  <2>1. CASE Grows
    <3>1. Asked(trees, used)
      BY <1>1, <2>1 DEF Owed
    <3>2. \A i \in 1..1 : ts[i].bytes = trees[i].bytes
      BY <1>14, <1>15
    <3>3. Asked(ts, used)
      BY <1>1, <1>15, <3>1, <3>2, AskedSame
    <3> QED
      BY <2>1, <3>3 DEF Owed
  <2>2. CASE ~Grows
    BY <1>1, <2>2 DEF Owed
  <2> QED
    BY <2>1, <2>2
<1>25. PICK c : c = candidates
  OBVIOUS
<1>26. PICK n : n = used
  OBVIOUS
<1>27. Forest(b, ts, c, n)'
  <2>1. Owed(c, ts, n)'
    BY <1>19, <1>24, <1>25, <1>26
  <2>2. \A H \in TreeWanted' : Coming(c, ts, H)
    BY <1>19, <1>23, <1>25
  <2> QED
    BY <1>21, <1>22, <1>25, <2>1, <2>2 DEF Forest
<1>28. Forest(arena, trees, candidates, used)'
  BY <1>3, <1>11, <1>25, <1>26, <1>27
<1>29. used' \in Nat /\ Len(trees') = 1 /\ trees'[1].at = Len(trees'[1].tree.order)
  <2>1. h.at = Len(h.tree.order)
    BY <1>1, <1>12, <1>14
  <2> QED
    BY <1>1, <1>3, <1>11, <1>15, <2>1
<1> QED
  BY <1>28, <1>29 DEF Rooted

-----------------------------------------------------------------------------
(* The inductive invariant of the tree miners *)

TreeGiven ==
  /\ db \in MinedDatabases /\ mode \in Modes /\ GrowsTrees
  /\ phase \in {"filter", "build", "mine", "done"}
  /\ DOMAIN twu \subseteq Items /\ todo = {} /\ used \in Nat
  /\ refused = FALSE /\ failed \in BOOLEAN

TreePhases ==
  /\ phase = "filter" => NoTree /\ used = 0
  /\ phase # "done" => found = {} /\ failed = FALSE
  /\ phase \in {"build", "mine"} =>
       /\ twu = TwuFilter(db, mode.minUtility) /\ unread \in SUBSET Tids
       /\ Forest(arena, trees, candidates, used)
  /\ phase = "build" => candidates = <<>> /\ Rooted
  /\ phase = "mine" => unread = {}

TreeSound == \A e \in found : \E S \in TreeWanted : e = TreeEntry(S)

TreeComplete ==
  phase = "done" /\ ~failed => used = 0 /\ \A S \in TreeWanted : TreeEntry(S) \in found

TreeIInv == TreeGiven /\ TreePhases /\ Once(candidates) /\ TreeSound /\ TreeComplete

LEMMA TreeRunConstants ==
  ASSUME NEW d \in MinedDatabases, NEW m \in Modes
  PROVE  d \in Databases /\ m.minUtility \in Nat \ {0}
BY ContextAssumption

\* What the first pass finds.
LEMMA PassedSurveyed ==
  db \in MinedDatabases /\ mode \in Modes /\ twu = TwuFilter(db, mode.minUtility) => Surveyed
<1> SUFFICES ASSUME db \in MinedDatabases, mode \in Modes, twu = TwuFilter(db, mode.minUtility)
             PROVE  Surveyed
  OBVIOUS
<1>1. db \in Databases /\ mode.minUtility \in Nat \ {0}
  BY TreeRunConstants
<1>2. /\ DOMAIN twu = {y \in Items : Supporting(db, {y}) # {} /\ Twu(db, {y}) >= mode.minUtility}
      /\ \A x \in DOMAIN twu : twu[x] = Twu(db, {x})
  BY DEF TwuFilter
<1>3. ASSUME NEW x \in DOMAIN twu
      PROVE  twu[x] \in Nat
  <2>1. {x} \in SUBSET Items /\ {x} \in SUBSET {x}
    BY <1>2
  <2>2. Twu(db, {x}) \in Nat
    BY <1>1, <2>1, TwuCovers
  <2> QED
    BY <1>2, <2>2
<1> QED
  BY <1>1, <1>2, <1>3 DEF Surveyed

LEMMA NoCandidates ==
  ASSUME NEW c, c = <<>>
  PROVE  Once(c)
<1>1. c \in Seq(Seq(Items)) /\ Len(c) = 0
  OBVIOUS
<1>2. \A k \in 1..0 : FALSE
  OBVIOUS
<1> QED
  BY <1>1, <1>2 DEF Once

LEMMA TreeInitIInv == TreeInit => TreeIInv
<1> SUFFICES ASSUME TreeInit PROVE TreeIInv
  OBVIOUS
<1>1. /\ db \in MinedDatabases /\ mode \in Modes /\ mode.algorithm \in TreeAlgorithms
      /\ phase = "filter" /\ DOMAIN twu = {} /\ todo = {} /\ used = 0
      /\ refused = FALSE /\ failed = FALSE /\ found = {} /\ NoTree
  BY DEF TreeInit, Start
<1>2. TreeGiven
  BY <1>1 DEF TreeGiven, GrowsTrees
<1>3. Once(candidates)
  BY <1>1, NoCandidates DEF NoTree
<1>4. TreePhases /\ TreeSound /\ TreeComplete
  BY <1>1 DEF TreePhases, TreeSound, TreeComplete
<1> QED
  BY <1>2, <1>3, <1>4 DEF TreeIInv

LEMMA TreeFilterStep ==
  ASSUME TreeIInv, TreeFilter
  PROVE  TreeIInv'
<1>1. /\ phase = "filter" /\ phase' = "build" /\ twu' = TwuFilter(db, mode.minUtility)
      /\ UNCHANGED <<db, mode, todo, refused, failed, found, unread, candidates>>
  BY DEF TreeFilter, FilterTo
<1>2. TreeGiven /\ NoTree /\ used = 0 /\ found = {} /\ failed = FALSE
  BY <1>1 DEF TreeIInv, TreePhases
<1>3. arena = EmptyArena /\ unread = Tids /\ candidates = <<>>
  BY <1>2 DEF NoTree, EmptyArena
<1>4. Surveyed'
  <2>1. (db \in MinedDatabases /\ mode \in Modes /\ twu = TwuFilter(db, mode.minUtility))' => Surveyed'
    BY PassedSurveyed, PTL
  <2>2. (db \in MinedDatabases /\ mode \in Modes /\ twu = TwuFilter(db, mode.minUtility))'
    BY <1>1, <1>2 DEF TreeGiven
  <2> QED
    BY <2>1, <2>2
<1>5. Grows' = Grows /\ GrowsTrees' = GrowsTrees
  BY <1>1 DEF Grows, GrowsTrees
<1>6. Planted'
  <2> DEFINE order == Sorted(DOMAIN twu', twu')
             made == NewTree(EmptyArena, order)
             bytes == IF Grows THEN HeaderBytes * Len(order) ELSE 0
  <2>1. /\ arena' = made.arena
        /\ trees' = <<TreeFrame(made.tree, <<>>, 0, bytes)>>
        /\ used' = used + bytes
    BY <1>3 DEF TreeFilter
  <2>2. bytes \in Nat
    <3>1. DOMAIN twu' \in SUBSET Items /\ \A x \in DOMAIN twu' : twu'[x] \in Nat
      BY <1>4 DEF Surveyed
    <3> DEFINE D == DOMAIN twu'
               v == twu'
    <3> HIDE DEF D, v
    <3>2. InOrder(Sorted(D, v))
      BY <3>1, SortedOrder DEF D, v
    <3>3. Len(Sorted(D, v)) \in Nat
      BY <3>2 DEF InOrder
    <3>4. Len(order) \in Nat
      BY <3>3 DEF D, v
    <3> HIDE DEF order
    <3> QED
      BY <3>4 DEF HeaderBytes
  <2>3. used' = bytes
    <3> HIDE DEF bytes
    <3> QED
      BY <1>2, <2>1, <2>2
  <2>4. bytes = IF Grows' THEN HeaderBytes * Len(order) ELSE 0
    BY <1>5
  <2>5. unread' = Tids /\ candidates' = <<>> /\ twu' = TwuFilter(db', mode'.minUtility)
    BY <1>1, <1>3
  <2> QED
    BY <1>4, <2>1, <2>3, <2>4, <2>5 DEF Planted
<1>7. Planted' => Rooted'
  BY PlantedForest, PTL
<1>8. Rooted'
  BY <1>6, <1>7
<1>9. Forest(arena, trees, candidates, used)' /\ used' \in Nat
  BY <1>8 DEF Rooted
<1>10. TreeGiven'
  <2>1. DOMAIN twu' \subseteq Items
    BY <1>4 DEF Surveyed
  <2> QED
    BY <1>1, <1>2, <1>5, <1>9, <2>1 DEF TreeGiven
<1>11. TreePhases'
  <2>1. unread' \in SUBSET Tids /\ candidates' = <<>> /\ twu' = TwuFilter(db', mode'.minUtility)
    BY <1>1, <1>3
  <2> QED
    BY <1>1, <1>2, <1>8, <1>9, <2>1 DEF TreePhases
<1>12. TreeSound' /\ TreeComplete'
  BY <1>1, <1>2 DEF TreeSound, TreeComplete
<1>13. Once(candidates')
  BY <1>1, <1>3, NoCandidates
<1> QED
  BY <1>10, <1>11, <1>12, <1>13 DEF TreeIInv

\* A step between the first pass and the last.
LEMMA TreeMoveStep ==
  ASSUME TreeIInv, phase \in {"build", "mine"}, phase' \in {"build", "mine"},
         UNCHANGED <<db, mode, twu, todo, refused, failed, found>>, used' \in Nat,
         unread' \in SUBSET Tids, Forest(arena, trees, candidates, used)',
         phase' = "build" => candidates' = <<>> /\ Rooted',
         phase' = "mine" => unread' = {}
  PROVE  TreeIInv'
<1>1. TreeGiven /\ TreePhases /\ found = {} /\ failed = FALSE /\ twu = TwuFilter(db, mode.minUtility)
  BY DEF TreeIInv, TreePhases
<1>2. TreeGiven'
  BY <1>1 DEF TreeGiven, GrowsTrees
<1>3. twu' = TwuFilter(db', mode'.minUtility)
  BY <1>1
<1>4. TreePhases'
  BY <1>1, <1>3 DEF TreePhases
<1>5. TreeSound' /\ TreeComplete'
  BY <1>1 DEF TreeSound, TreeComplete
<1>6. Once(candidates')
  BY DEF Forest
<1> QED
  BY <1>2, <1>4, <1>5, <1>6 DEF TreeIInv

LEMMA ReadStep ==
  ASSUME TreeIInv, NEW t \in Tids, ReadTransaction(t)
  PROVE  TreeIInv'
<1>1. /\ phase = "build" /\ t \in unread /\ unread' = unread \ {t}
      /\ UNCHANGED contextVars /\ UNCHANGED candidates
  BY DEF ReadTransaction
<1>2. /\ TreeGiven /\ twu = TwuFilter(db, mode.minUtility) /\ unread \in SUBSET Tids
      /\ candidates = <<>> /\ Rooted
  BY <1>1 DEF TreeIInv, TreePhases
<1>3. Surveyed
  BY <1>2, PassedSurveyed DEF TreeGiven
<1>4. LET path == PathOf(t, trees[1].tree.order)
          grown == Insert(arena, trees[1].tree, path, Values(t, path))
      IN  arena' = grown.arena /\ trees' = [trees EXCEPT ![1].tree = grown.tree]
  BY DEF ReadTransaction
<1>5. Rooted'
  BY <1>1, <1>2, <1>3, <1>4, ReadForest
<1>6. UNCHANGED <<db, mode, twu, todo, refused, failed, found, phase, used>>
  BY <1>1 DEF contextVars
<1>7. Forest(arena, trees, candidates, used)' /\ used' \in Nat
  BY <1>5 DEF Rooted
<1> QED
  BY <1>1, <1>2, <1>5, <1>6, <1>7, TreeMoveStep

LEMMA StartMiningStep ==
  ASSUME TreeIInv, StartMining
  PROVE  TreeIInv'
<1>1. /\ phase = "build" /\ unread = {} /\ phase' = "mine"
      /\ UNCHANGED <<db, mode, twu, todo, used, refused, failed, found, arena, trees, unread, candidates>>
  BY DEF StartMining, treeVars
<1>2. TreeGiven /\ Forest(arena, trees, candidates, used)
  BY <1>1 DEF TreeIInv, TreePhases
<1>3. Forest(arena, trees, candidates, used)'
  BY <1>1, <1>2, ForestKept DEF SameRun
<1>4. used' \in Nat
  BY <1>1, <1>2 DEF TreeGiven
<1> QED
  BY <1>1, <1>3, <1>4, TreeMoveStep

LEMMA BaseBytesType ==
  ASSUME MiningNow
  PROVE  LET base == Base(trees[1].tree, Mined)
         IN  BaseBytes * BaseLength(base) + HeaderBytes * Len(MinedOrder) \in Nat
<1> DEFINE f == trees[1]
           x == Mined
           base == Base(f.tree, x)
<1>1. MiningOf(f, x)
  BY NowMining
<1>2. InOrder(MinedOrder) /\ \E tau : BaseRight(base, tau, f.tree.order, x, Group(f), Paths(f.tree.order), Shares(f)[x])
  <2> DEFINE ff == f
             xx == x
  <2> HIDE DEF ff, xx
  <2>1. MiningOf(ff, xx)
    BY <1>1 DEF ff, xx
  <2>2. /\ InOrder(LocalOrder(LocalTwu(Base(ff.tree, xx))))
        /\ \E tau : BaseRight(Base(ff.tree, xx), tau, ff.tree.order, xx, Group(ff), Paths(ff.tree.order), Shares(ff)[xx])
    BY <2>1, MinedBase
  <2> QED
    BY <2>2 DEF ff, xx, MinedOrder
<1> HIDE DEF base, f, x
<1>3. Len(base) \in Nat /\ DOMAIN base = 1..Len(base)
  BY <1>2 DEF BaseRight
<1> DEFINE n == Len(base)
           some == {i \in DOMAIN base : base[i].items # {}}
<1>4. IsFiniteSet(some)
  <2>1. some \in SUBSET (1..n)
    BY <1>3
  <2>2. IsFiniteSet(1..n)
    BY FS_Interval
  <2> QED
    BY <2>1, <2>2, FS_Subset
<1>5. BaseLength(base) \in Nat
  BY <1>4, FS_CardinalityType DEF BaseLength
<1>6. Len(MinedOrder) \in Nat
  BY <1>2 DEF InOrder
<1> DEFINE p == BaseLength(base)
           q == Len(MinedOrder)
<1>7. p \in Nat /\ q \in Nat
  BY <1>5, <1>6
<1> HIDE DEF p, q
<1>8. BaseBytes * p + HeaderBytes * q \in Nat
  BY <1>7 DEF BaseBytes, HeaderBytes
<1> QED
  BY <1>8 DEF p, q, base, f, x

LEMMA MineItemStep ==
  ASSUME TreeIInv, MineItem
  PROVE  TreeIInv'
<1>1. /\ phase = "mine" /\ trees[1].at > 0
      /\ UNCHANGED <<db, mode, phase, twu, todo, refused, failed, found, unread>>
  BY DEF MineItem
<1>2. /\ TreeGiven /\ twu = TwuFilter(db, mode.minUtility) /\ unread = {}
      /\ Forest(arena, trees, candidates, used)
  BY <1>1 DEF TreeIInv, TreePhases
<1>3. Surveyed
  BY <1>2, PassedSurveyed DEF TreeGiven
<1>4. MiningNow
  BY <1>1, <1>2, <1>3 DEF MiningNow, TreeGiven
<1> DEFINE base == Base(trees[1].tree, Mined)
           made == Conditional(base, MinedOrder)
           bytes == IF Grows THEN BaseBytes * BaseLength(base) + HeaderBytes * Len(MinedOrder) ELSE 0
           us == Lowered(trees)
           g == TreeFrame(made.tree, Itemset, arena.next, bytes)
<1>5. IF Weight(trees[1].tree, Mined) < mode.minUtility
        THEN /\ trees' = us
             /\ UNCHANGED <<used, arena, candidates>>
        ELSE /\ candidates' = Listing
             /\ used' = used + bytes + ItemBytesAsked
             /\ IF MinedOrder = <<>> /\ ~Grows
                  THEN trees' = us /\ UNCHANGED arena
                  ELSE arena' = made.arena /\ trees' = <<g>> \o us
  BY DEF MineItem, Mined, MinedOrder, Itemset, Prefix, Listing, ItemBytesAsked, Lowered
<1>6. bytes \in Nat /\ (~Grows => bytes = 0) /\ used \in Nat
  BY <1>2, <1>4, BaseBytesType DEF TreeGiven
<1>7. ItemBytesAsked \in Nat
  BY <1>4, AskedItem
<1>8. Forest(arena', trees', candidates', used') /\ used' \in Nat
  <2>1. CASE Weight(trees[1].tree, Mined) < mode.minUtility
    BY <1>4, <1>5, <1>6, <2>1, LightItem
  <2>2. CASE ~(Weight(trees[1].tree, Mined) < mode.minUtility)
    <3> HIDE DEF bytes, made, us
    <3>1. used' \in Nat
      BY <1>5, <1>6, <1>7, <2>2
    <3>2. CASE MinedOrder = <<>> /\ ~Grows
      <4>1. used' = used + ItemBytesAsked
        BY <1>5, <1>6, <1>7, <2>2, <3>2
      <4>2. arena' = arena /\ trees' = us /\ candidates' = Listing
        BY <1>5, <2>2, <3>2
      <4>3. Forest(arena, us, Listing, used + ItemBytesAsked)
        BY <1>4, <3>2, BarrenItem DEF us
      <4> QED
        BY <3>1, <4>1, <4>2, <4>3
    <3>3. CASE ~(MinedOrder = <<>> /\ ~Grows)
      <4>1. arena' = made.arena /\ trees' = <<g>> \o us /\ candidates' = Listing
            /\ used' = used + bytes + ItemBytesAsked
        BY <1>5, <2>2, <3>3
      <4>2. Forest(made.arena, <<g>> \o us, Listing, used + bytes + ItemBytesAsked)
        BY <1>4, <1>6, FertileItem DEF made, us
      <4> QED
        BY <3>1, <4>1, <4>2
    <3> QED
      BY <3>2, <3>3
  <2> QED
    BY <2>1, <2>2
<1>9. Forest(arena, trees, candidates, used)'
  BY <1>1, <1>8, ForestKept DEF SameRun
<1>10. unread' \in SUBSET Tids /\ unread' = {} /\ phase' = "mine"
  BY <1>1, <1>2
<1> QED
  BY <1>1, <1>8, <1>9, <1>10, TreeMoveStep

LEMMA TreeReturnStep ==
  ASSUME TreeIInv, TreeReturn
  PROVE  TreeIInv'
<1>1. /\ phase = "mine" /\ trees[1].at = 0 /\ Len(trees) > 1
      /\ trees' = Tail(trees) /\ arena' = [arena EXCEPT !.next = trees[1].saved]
      /\ used' = Without(trees[1].bytes)
      /\ UNCHANGED <<db, mode, phase, twu, todo, refused, failed, found, unread, candidates>>
  BY DEF TreeReturn
<1>2. /\ TreeGiven /\ unread = {} /\ Forest(arena, trees, candidates, used) /\ used \in Nat
  BY <1>1 DEF TreeIInv, TreePhases, TreeGiven
<1>3. used' = IF used < trees[1].bytes THEN 0 ELSE used - trees[1].bytes
  BY <1>1 DEF Without
<1>4. Forest(arena', Tail(trees), candidates, used') /\ used' \in Nat
  BY <1>1, <1>2, <1>3, PopForest
<1>5. Forest(arena, trees, candidates, used)'
  BY <1>1, <1>4, ForestKept DEF SameRun
<1>6. unread' \in SUBSET Tids /\ unread' = {} /\ phase' = "mine"
  BY <1>1, <1>2
<1> QED
  BY <1>1, <1>4, <1>5, <1>6, TreeMoveStep

LEMMA MeasureStep ==
  ASSUME TreeIInv, Measure
  PROVE  TreeIInv'
<1>1. /\ phase = "mine" /\ Len(trees) = 1 /\ trees[1].at = 0 /\ phase' = "done"
      /\ found' = {e \in {[itemset |-> Range(candidates[i]),
                           utility |-> Utility(db, Range(candidates[i]))] : i \in DOMAIN candidates} :
                     e.utility >= mode.minUtility}
      /\ used' = IF Grows THEN Without(trees[1].bytes) ELSE Without(CandidateBytes)
      /\ UNCHANGED <<db, mode, twu, todo, refused, failed, arena, trees, unread, candidates>>
  BY DEF Measure, treeVars
<1>2. /\ TreeGiven /\ Forest(arena, trees, candidates, used) /\ used \in Nat /\ Once(candidates)
  BY <1>1 DEF TreeIInv, TreePhases, TreeGiven
<1>3. TreeWanted' = TreeWanted /\ \A S : TreeEntry(S)' = TreeEntry(S)
  BY <1>1, TreesKept DEF SameRun
<1>4. candidates \in Seq(Seq(Items)) /\ DOMAIN candidates = 1..Len(candidates)
  BY <1>2 DEF Once
<1>5. found' = {e \in {TreeEntry(Range(candidates[i])) : i \in DOMAIN candidates} :
                  e.utility >= mode.minUtility}
  BY <1>1 DEF TreeEntry
<1>6. \A S : TreeEntry(S).utility = Utility(db, S) /\ TreeEntry(S).itemset = S
  BY DEF TreeEntry
<1>7. ASSUME NEW e \in found'
      PROVE  \E S \in TreeWanted : e = TreeEntry(S)
  <2>1. PICK i \in DOMAIN candidates : e = TreeEntry(Range(candidates[i]))
    BY <1>5
  <2> DEFINE s == candidates[i]
             S == Range(s)
  <2>2. InOrder(s) /\ s # <<>>
    BY <1>2, <1>4, <2>1 DEF Once
  <2>3. S \in SUBSET Items /\ S # {}
    <3> HIDE DEF s
    <3>1. S \in SUBSET Items /\ S = {s[j] : j \in 1..Len(s)} /\ s \in Seq(Items)
      BY <2>2, EarlierOrder DEF InOrder
    <3>2. 1 \in 1..Len(s)
      BY <2>2, <3>1
    <3> QED
      BY <3>1, <3>2
  <2>4. Utility(db, S) >= mode.minUtility
    BY <1>5, <1>6, <2>1
  <2> QED
    BY <2>1, <2>3, <2>4 DEF TreeWanted
<1>8. ASSUME NEW H \in TreeWanted
      PROVE  TreeEntry(H) \in found'
  <2>1. Coming(candidates, trees, H)
    BY <1>2 DEF Forest
  <2>2. ~GoesOn(trees[1], H)
    <3> DEFINE f == trees[1]
    <3>1. f.at = 0 /\ 1..0 = {}
      BY <1>1
    <3>2. 1..f.at = {}
      BY <3>1
    <3>3. Left(f) = {}
      BY <3>2 DEF Left
    <3> HIDE DEF f
    <3> QED
      BY <3>3 DEF GoesOn, f
  <2>3. \A i \in 1..1 : i = 1
    OBVIOUS
  <2>4. PICK k \in 1..Len(candidates) : Range(candidates[k]) = H
    BY <1>1, <2>1, <2>2, <2>3 DEF Coming
  <2>5. k \in DOMAIN candidates /\ TreeEntry(H).utility >= mode.minUtility
    BY <1>4, <1>6 DEF TreeWanted
  <2> QED
    BY <1>5, <2>4, <2>5
<1>9. used' = 0
  <2>1. Owed(candidates, trees, used)
    BY <1>2 DEF Forest
  <2>2. CASE Grows
    <3>1. used = trees[1].bytes
      BY <1>1, <2>1, <2>2, AskedOne DEF Owed
    <3> QED
      BY <1>1, <1>2, <2>2, <3>1 DEF Without
  <2>3. CASE ~Grows
    <3> DEFINE n == CandidateBytes
    <3>1. n = ListBytes(candidates)
      BY DEF CandidateBytes, ListBytes
    <3>2. used = IF Counts THEN n ELSE 0
      BY <2>1, <2>3, <3>1 DEF Owed
    <3>3. n \in Nat
      <4> DEFINE size == [i \in DOMAIN candidates |-> Len(candidates[i])]
                 max == Cardinality(Items)
      <4>1. IsFiniteSet(DOMAIN candidates)
        <5>1. IsFiniteSet(1..Len(candidates))
          BY FS_Interval
        <5> QED
          BY <1>4, <5>1
      <4>2. max \in Nat
        BY Constants, FS_CardinalityType
      <4> HIDE DEF size, max
      <4>3. Footprint(DOMAIN candidates, size, max) \in Nat
        BY <4>1, <4>2, BytesFinite
      <4> DEFINE p == Footprint(DOMAIN candidates, size, max)
      <4>4. n = CandidateItemBytes * p /\ p \in Nat
        BY <4>3 DEF CandidateBytes, size, max
      <4> HIDE DEF p
      <4> QED
        BY <4>4 DEF CandidateItemBytes
    <3>4. used' = Without(n)
      BY <1>1, <2>3
    <3> HIDE DEF n
    <3> QED
      BY <3>2, <3>3, <3>4 DEF Without
  <2> QED
    BY <2>2, <2>3
<1>10. TreeGiven'
  BY <1>1, <1>2, <1>9 DEF TreeGiven, GrowsTrees
<1>11. TreePhases' /\ TreeSound' /\ TreeComplete'
  BY <1>1, <1>3, <1>7, <1>8, <1>9 DEF TreePhases, TreeSound, TreeComplete
<1>12. Once(candidates')
  BY <1>1, <1>2
<1> QED
  BY <1>10, <1>11, <1>12 DEF TreeIInv

LEMMA ArenaFailsStep ==
  ASSUME TreeIInv, ArenaFails
  PROVE  TreeIInv'
<1>1. /\ phase \in {"filter", "build", "mine"} /\ failed' = TRUE /\ phase' = "done"
      /\ UNCHANGED <<db, mode, twu, todo, used, refused, found, arena, trees, unread, candidates>>
  BY DEF ArenaFails, treeVars
<1>2. TreeGiven /\ Once(candidates) /\ found = {}
  BY <1>1 DEF TreeIInv, TreePhases
<1>3. TreeGiven'
  BY <1>1, <1>2 DEF TreeGiven, GrowsTrees
<1>4. TreePhases' /\ TreeSound' /\ TreeComplete'
  BY <1>1, <1>2 DEF TreePhases, TreeSound, TreeComplete
<1>5. Once(candidates')
  BY <1>1, <1>2
<1> QED
  BY <1>3, <1>4, <1>5 DEF TreeIInv

LEMMA TreeStill ==
  ASSUME TreeIInv, UNCHANGED treeMinerVars
  PROVE  TreeIInv'
<1>1. UNCHANGED <<db, mode, phase, twu, todo, used, refused, failed, found, arena, trees, unread, candidates>>
  BY DEF treeMinerVars, contextVars, treeVars
<1>2. TreeWanted' = TreeWanted /\ \A S : TreeEntry(S)' = TreeEntry(S)
  BY <1>1, TreesKept DEF SameRun
<1>3. \A a, ts, c, n : Forest(a, ts, c, n)' = Forest(a, ts, c, n)
  BY <1>1, ForestKept DEF SameRun
<1>4. TreeGiven'
  BY <1>1 DEF TreeIInv, TreeGiven, GrowsTrees
<1>5. NoTree' <=> NoTree
  BY <1>1 DEF NoTree
<1>6. Forest(arena, trees, candidates, used)' <=> Forest(arena, trees, candidates, used)
  BY <1>1, <1>3
<1>7. Rooted' <=> Rooted
  BY <1>1, <1>6 DEF Rooted
<1>8. TreePhases'
  BY <1>1, <1>5, <1>6, <1>7 DEF TreeIInv, TreePhases
<1>9. TreeSound' /\ TreeComplete'
  BY <1>1, <1>2 DEF TreeIInv, TreeSound, TreeComplete
<1>10. Once(candidates')
  BY <1>1 DEF TreeIInv
<1> QED
  BY <1>4, <1>8, <1>9, <1>10 DEF TreeIInv

LEMMA TreeNextIInv == TreeIInv /\ [TreeNext]_treeMinerVars => TreeIInv'
<1> SUFFICES ASSUME TreeIInv, [TreeNext]_treeMinerVars PROVE TreeIInv'
  OBVIOUS
<1>1. CASE UNCHANGED treeMinerVars
  BY <1>1, TreeStill
<1>2. CASE TreeNext
  BY <1>2, TreeFilterStep, ReadStep, StartMiningStep, MineItemStep, TreeReturnStep, MeasureStep,
     ArenaFailsStep DEF TreeNext
<1> QED
  BY <1>1, <1>2

LEMMA TreeFoundType == TreeIInv => \A e \in found : e.itemset \subseteq Items /\ e.utility \in Nat
<1>1. SUFFICES ASSUME TreeIInv, NEW e \in found
               PROVE  e.itemset \subseteq Items /\ e.utility \in Nat
  OBVIOUS
<1>2. PICK S \in TreeWanted : e = TreeEntry(S)
  BY <1>1 DEF TreeIInv, TreeSound
<1>3. S \in SUBSET Items /\ db \in Databases /\ S \in SUBSET S
  BY <1>1, TreeRunConstants DEF TreeWanted, TreeIInv, TreeGiven
<1>4. Utility(db, S) \in Nat
  BY <1>3, TwuCovers
<1> QED
  BY <1>2, <1>3, <1>4 DEF TreeEntry

LEMMA TreeTypes == TreeIInv => TypeOK
BY TreeFoundType DEF TreeIInv, TreeGiven, TypeOK

LEMMA TreeLedger == TreeIInv => LedgerClosed
BY DEF TreeIInv, TreeComplete, LedgerClosed

LEMMA TreeCandidatesOnce == TreeIInv => CandidatesOnce
<1> SUFFICES ASSUME TreeIInv PROVE CandidatesOnce
  OBVIOUS
<1>1. Once(candidates)
  BY DEF TreeIInv
<1>2. DOMAIN candidates = 1..Len(candidates)
  BY <1>1 DEF Once
<1> QED
  BY <1>1, <1>2 DEF CandidatesOnce, Once

-----------------------------------------------------------------------------
(* The promise *)

LEMMA TreePromisedResults ==
  ASSUME GrowsTrees, db \in MinedDatabases, mode \in Modes
  PROVE  Promise!Results = {TreeEntry(S) : S \in TreeWanted}
<1>1. \A S : Promise!Supporting(db, S) = Supporting(db, S)
  BY DEF Promise!Supporting, Promise!HasAll, Supporting, HasAll
<1>2. \A S : Promise!Utility(db, S) = Utility(db, S)
  <2>1. ASSUME NEW T, NEW size, NEW max
        PROVE  Promise!Footprint(T, size, max) = Footprint(T, size, max)
    <3>1. Promise!Bytes(T, size, max) = Bytes(T, size, max)
      BY DEF Promise!Bytes, Bytes
    <3> QED
      BY <3>1 DEF Promise!Footprint, Footprint, Promise!Cardinality, Cardinality
  <2>2. ASSUME NEW S
        PROVE  [t \in Tids |-> Promise!ItemSum(S, db[t])] = [t \in Tids |-> ItemSum(S, db[t])]
    BY <2>1 DEF Promise!ItemSum, ItemSum
  <2>3. ASSUME NEW T, NEW utility
        PROVE  Promise!TidSum(T, utility) = TidSum(T, utility)
    BY <2>1 DEF Promise!TidSum, TidSum, Promise!Cardinality, Cardinality
  <2> QED
    BY <1>1, <2>2, <2>3 DEF Promise!Utility, Utility
<1>3. ~Closes
  BY DEF Closes, GrowsTrees, TreeAlgorithms
<1>4. \A S \in TreeWanted : Supporting(db, S) # {}
  <2>1. ASSUME NEW S \in TreeWanted, Supporting(db, S) = {}
        PROVE  FALSE
    <3>1. Utility(db, S) = 0
      BY <2>1, EmptyFootprint DEF Utility, TidSum
    <3>2. Utility(db, S) >= mode.minUtility /\ mode.minUtility \in Nat \ {0}
      BY TreeRunConstants DEF TreeWanted
    <3> QED
      BY <3>1, <3>2
  <2> QED
    BY <2>1
<1>5. Promise!HighUtility = TreeWanted
  BY <1>1, <1>2, <1>3, <1>4 DEF Promise!HighUtility, TreeWanted
<1> QED
  BY <1>2, <1>5 DEF Promise!Results, TreeEntry

\* What no step does, wherever it is.
LEMMA TreeSteps ==
  ASSUME TreeNext
  PROVE  phase # "done" /\ UNCHANGED <<db, mode>> /\ (failed => failed')
<1>1. CASE TreeFilter
  BY <1>1 DEF TreeFilter, FilterTo
<1>2. CASE \E t \in Tids : ReadTransaction(t)
  <2>1. PICK t \in Tids : ReadTransaction(t)
    BY <1>2
  <2>2. phase = "build" /\ UNCHANGED contextVars
    BY <2>1 DEF ReadTransaction
  <2> QED
    BY <2>2 DEF contextVars
<1>3. CASE StartMining
  BY <1>3 DEF StartMining
<1>4. CASE MineItem
  <2>1. phase = "mine" /\ UNCHANGED <<db, mode, phase, twu, todo, refused, failed, found, unread>>
    BY <1>4 DEF MineItem
  <2> QED
    BY <2>1
<1>5. CASE TreeReturn
  BY <1>5 DEF TreeReturn
<1>6. CASE Measure
  BY <1>6 DEF Measure
<1>7. CASE ArenaFails
  BY <1>7 DEF ArenaFails
<1> QED
  BY <1>1, <1>2, <1>3, <1>4, <1>5, <1>6, <1>7 DEF TreeNext

LEMMA TreeStepPromised ==
  ASSUME TreeIInv, TreeIInv', [TreeNext]_treeMinerVars
  PROVE  [Promise!Mine]_(Promise!vars)
<1>1. CASE TreeNext
  <2>1. phase # "done" /\ UNCHANGED <<db, mode>> /\ (failed => failed')
    BY <1>1, TreeSteps
  <2>2. found = {}
    BY <2>1 DEF TreeIInv, TreePhases
  <2>3. TreeWanted' = TreeWanted /\ (\A S : TreeEntry(S)' = TreeEntry(S)) /\ Closes' = Closes
    BY <2>1 DEF TreeWanted, TreeEntry, Closes
  <2>4. Promise!Results = {TreeEntry(S) : S \in TreeWanted}
    BY TreePromisedResults DEF TreeIInv, TreeGiven
  <2>5. found' \subseteq Promise!Results
    BY <2>3, <2>4 DEF TreeIInv, TreeSound
  <2>6. ASSUME phase' = "done", ~failed'
        PROVE  Promise!Results \subseteq found'
    BY <2>3, <2>4, <2>6 DEF TreeIInv, TreeComplete
  <2>7. UNCHANGED <<db, mode.minUtility, Closes>>
    BY <2>1, <2>3
  <2> QED
    BY <2>1, <2>2, <2>5, <2>6, <2>7 DEF Promise!Mine
<1>2. CASE UNCHANGED treeMinerVars
  BY <1>2 DEF treeMinerVars, contextVars, Promise!vars, Closes
<1> QED
  BY <1>1, <1>2

-----------------------------------------------------------------------------
(* The trees as they are read from the arena *)

\* The trees of the frames lie one behind the other: each slot is in one of them.
LEMMA SlotFrame ==
  ASSUME NEW a, NEW ts, Grove(a, ts), NEW q \in 0..a.next - 1
  PROVE  /\ \E i \in 1..Len(ts) : q \in ts[i].tree.root..Hi(a, ts, i) - 1
         /\ \A i, j \in 1..Len(ts) :
              q \in ts[i].tree.root..Hi(a, ts, i) - 1 /\ q \in ts[j].tree.root..Hi(a, ts, j) - 1
                => i = j
<1> DEFINE n == Len(ts)
           root(i) == ts[i].tree.root
<1>1. /\ n \in Nat /\ n # 0 /\ a.next \in Nat
      /\ \A i \in 1..n : root(i) \in Nat /\ root(i) < a.next /\ Hi(a, ts, i) \in Nat
  <2>1. n \in Nat /\ 1 \in 1..n
    BY GroveFacts
  <2> QED
    BY <2>1, GroveFacts
<1>2. root(n) = 0 /\ \A i, j \in 1..n : i < j => root(j) < root(i)
  BY DEF Grove
<1>3. Hi(a, ts, 1) = a.next /\ \A i \in 2..n : Hi(a, ts, i) = root(i - 1) /\ i - 1 \in 1..n
  BY <1>1 DEF Hi
<1> DEFINE S == {i \in 1..n : root(i) <= q}
<1>4. S # {} /\ S \in SUBSET Nat
  <2>1. n \in S
    BY <1>1, <1>2
  <2> QED
    BY <2>1, <1>1
<1> HIDE DEF S
<1>5. PICK i \in S : \A j \in S : <<j, i>> \notin OpToRel(<, Nat)
  BY <1>4, WFMin, NatLessThanWellFounded, Zenon
<1>6. i \in 1..n /\ root(i) <= q /\ \A j \in 1..n : j < i => q < root(j)
  <2>1. \A j : j \in S <=> j \in 1..n /\ root(j) <= q
    BY DEF S
  <2>2. \A j \in S : ~(j < i)
    BY <1>4, <1>5 DEF OpToRel
  <2>3. q \in Nat /\ \A j \in 1..n : root(j) \in Nat
    BY <1>1
  <2>4. ASSUME NEW j \in 1..n, j < i
        PROVE  q < root(j)
    <3>1. j \notin S
      BY <2>2, <2>4
    <3>2. ~(root(j) <= q)
      BY <2>1, <2>4, <3>1
    <3>3. root(j) \in Nat
      BY <2>3, <2>4
    <3> HIDE DEF root
    <3> QED
      BY <2>3, <3>2, <3>3
  <2>5. i \in 1..n /\ root(i) <= q
    BY <1>5, <2>1
  <2> QED
    BY <2>4, <2>5
<1>7. q \in root(i)..Hi(a, ts, i) - 1
  <2>1. q < Hi(a, ts, i)
    <3>1. CASE i = 1
      BY <1>1, <1>3, <3>1
    <3>2. CASE i # 1
      <4>1. i \in 2..n /\ i - 1 < i
        BY <1>1, <1>6, <3>2
      <4> QED
        BY <1>3, <1>6, <4>1
    <3> QED
      BY <3>1, <3>2
  <2> HIDE DEF root
  <2> QED
    BY <1>1, <1>6, <2>1
<1>8. ASSUME NEW k \in 1..n, NEW j \in 1..n, k < j,
             q \in root(k)..Hi(a, ts, k) - 1, q \in root(j)..Hi(a, ts, j) - 1
      PROVE  FALSE
  <2>1. j \in 2..n
    BY <1>1, <1>8
  <2>2. q < root(j - 1) /\ j - 1 \in 1..n
    BY <1>1, <1>3, <1>8, <2>1, SMTT(30)
  <2>3. k = j - 1 \/ k < j - 1
    BY <1>8
  <2>4. k < j - 1 => root(j - 1) < root(k)
    BY <1>2, <2>2
  <2>5. root(k) \in Nat /\ root(j - 1) \in Nat /\ Hi(a, ts, k) \in Nat
    BY <1>1, <2>2
  <2>6. root(k) <= q
    <3> HIDE DEF root
    <3> QED
      BY <1>8, <2>5
  <2> HIDE DEF root
  <2> QED
    BY <2>2, <2>3, <2>4, <2>5, <2>6
<1>9. \A k, j \in 1..n :
        q \in root(k)..Hi(a, ts, k) - 1 /\ q \in root(j)..Hi(a, ts, j) - 1 => k = j
  <2>1. ASSUME NEW k \in 1..n, NEW j \in 1..n, k # j,
               q \in root(k)..Hi(a, ts, k) - 1, q \in root(j)..Hi(a, ts, j) - 1
        PROVE  FALSE
    <3>1. k < j \/ j < k
      BY <1>1, <2>1
    <3> HIDE DEF root
    <3> QED
      BY <1>8, <2>1, <3>1
  <2> HIDE DEF root
  <2> QED
    BY <2>1
<1> QED
  BY <1>6, <1>7, <1>9

\* The parents lead from a slot to the root of its tree.
LEMMA SlotRoot ==
  ASSUME NEW a, NEW ts, Grove(a, ts), NEW i \in 1..Len(ts),
         NEW p \in ts[i].tree.root..Hi(a, ts, i) - 1
  PROVE  RootOf(a.nodes, p) = ts[i].tree.root
<1> DEFINE n == Len(ts)
           slots(k) == ts[k].tree.root..Hi(a, ts, k) - 1
           r == [q \in 0..a.next - 1 |-> ts[CHOOSE k \in 1..n : q \in slots(k)].tree.root]
<1>1. /\ a.next \in Nat
      /\ \A k \in 1..n : ts[k].tree.root \in Nat /\ Hi(a, ts, k) \in Nat /\ Hi(a, ts, k) <= a.next
  BY GroveFacts
<1>2. ASSUME NEW k \in 1..n, NEW q \in slots(k)
      PROVE  q \in 0..a.next - 1 /\ r[q] = ts[k].tree.root
  <2>1. q \in 0..a.next - 1
    BY <1>1, SMTT(30)
  <2>2. \A j \in 1..n : q \in slots(j) => j = k
    BY <2>1, SlotFrame
  <2>3. (CHOOSE j \in 1..n : q \in slots(j)) = k
    <3> HIDE DEF slots, n
    <3> QED
      BY <1>2, <2>2
  <2> QED
    BY <2>1, <2>3
<1>3. \A q \in 0..a.next - 1 : \E k \in 1..n : q \in slots(k)
  BY SlotFrame
<1> HIDE DEF r
<1>4. p \in Nat /\ p \in 0..a.next - 1
  BY <1>1
<1>5. ASSUME NEW q \in 0..p
      PROVE  \/ a.nodes[q].parent = Null /\ r[q] = q
             \/ a.nodes[q].parent \in 0..q - 1 /\ r[q] = r[a.nodes[q].parent]
  <2>1. q \in 0..a.next - 1
    BY <1>1, <1>4
  <2>2. PICK k \in 1..n : q \in slots(k)
    BY <1>3, <2>1
  <2> DEFINE tree == ts[k].tree
             hi == Hi(a, ts, k)
  <2>3. r[q] = tree.root
    BY <1>2, <2>2
  <2>4. Stands(a, ts[k], hi)
    BY DEF Grove
  <2>5. PICK it : Shape(a.nodes, tree, hi, it)
    BY <2>4 DEF Stands, Holds
  <2>6. tree.root \in Nat /\ hi \in Nat
    BY <1>1
  <2>7. CASE q = tree.root
    BY <2>3, <2>5, <2>7 DEF Shape
  <2>8. CASE q # tree.root
    <3>1. q \in tree.root + 1..hi - 1
      BY <2>2, <2>6, <2>8
    <3>2. a.nodes[q].parent \in tree.root..q - 1
      BY <2>5, <3>1 DEF Shape
    <3>3. a.nodes[q].parent \in slots(k) /\ a.nodes[q].parent \in 0..q - 1
      BY <2>6, <3>1, <3>2, SMTT(30)
    <3> QED
      BY <1>2, <2>3, <3>3
  <2> QED
    BY <2>7, <2>8
<1>6. RootOf(a.nodes, p) = r[p]
  BY <1>4, <1>5, RootOfIs
<1> QED
  BY <1>2, <1>6

LEMMA TreeSlots ==
  ASSUME Grove(arena, trees), NEW i \in 1..Len(trees)
  PROVE  NodesOf(trees[i].tree) = trees[i].tree.root..Hi(arena, trees, i) - 1
<1> DEFINE n == Len(trees)
           slots(k) == trees[k].tree.root..Hi(arena, trees, k) - 1
<1>1. /\ arena.next \in Nat
      /\ \A k \in 1..n : trees[k].tree.root \in Nat /\ Hi(arena, trees, k) \in Nat
           /\ Hi(arena, trees, k) <= arena.next
  BY GroveFacts
<1>2. slots(i) \subseteq 0..arena.next - 1
  BY <1>1
<1>3. \A p \in slots(i) : RootOf(arena.nodes, p) = trees[i].tree.root
  BY SlotRoot
<1>4. ASSUME NEW p \in 0..arena.next - 1, RootOf(arena.nodes, p) = trees[i].tree.root
      PROVE  p \in slots(i)
  <2>1. PICK k \in 1..n : p \in slots(k)
    BY <1>4, SlotFrame
  <2>2. trees[k].tree.root = trees[i].tree.root
    BY <1>4, <2>1, SlotRoot
  <2>3. \A u, v \in 1..n : u < v => trees[v].tree.root < trees[u].tree.root
    BY DEF Grove
  <2>4. ~(k < i) /\ ~(i < k)
    BY <1>1, <2>2, <2>3
  <2>5. n \in Nat
    BY GroveFacts
  <2>6. k = i
    BY <2>4, <2>5
  <2> QED
    BY <2>1, <2>6
<1> HIDE DEF slots
<1>5. NodesOf(trees[i].tree) = slots(i)
  BY <1>2, <1>3, <1>4 DEF NodesOf
<1> QED
  BY <1>5 DEF slots

LEMMA TreeGrove ==
  ASSUME TreeIInv, phase \in {"build", "mine"}
  PROVE  Grove(arena, trees) /\ Surveyed
<1>1. db \in MinedDatabases /\ mode \in Modes /\ twu = TwuFilter(db, mode.minUtility)
      /\ Forest(arena, trees, candidates, used)
  BY DEF TreeIInv, TreeGiven, TreePhases
<1> QED
  BY <1>1, PassedSurveyed DEF Forest

LEMMA TreeArena == TreeIInv => ArenaTight
<1> SUFFICES ASSUME TreeIInv, phase \in {"build", "mine"}
             PROVE  /\ \A i \in DOMAIN trees :
                         NodesOf(trees[i].tree) =
                           trees[i].tree.root .. (IF i = 1 THEN arena.next ELSE trees[i - 1].tree.root) - 1
                    /\ \A p \in 0..arena.next - 1 : p \div PageNodes < arena.pages
  BY DEF ArenaTight
<1>1. Grove(arena, trees)
  BY TreeGrove
<1>2. DOMAIN trees = 1..Len(trees) /\ ArenaRight(arena)
  BY <1>1 DEF Grove
<1>3. \A i \in 1..Len(trees) :
        NodesOf(trees[i].tree) = trees[i].tree.root..Hi(arena, trees, i) - 1
  BY <1>1, TreeSlots
<1> QED
  BY <1>2, <1>3 DEF Hi, ArenaRight

\* The initial part of a path, up to a place in the order, is the path up to the item there.
LEMMA InitialIs ==
  ASSUME NEW order, InOrder(order), NEW t, NEW k \in 1..Len(order), db[t][order[k]] > 0
  PROVE  /\ order[k] \in PathOf(t, order)
         /\ Initial(t, order, k) = UpTo(order, PathOf(t, order), order[k])
<1> DEFINE x == order[k]
           path == PathOf(t, order)
<1>1. /\ Len(order) \in Nat /\ Range(order) = {order[i] : i \in 1..Len(order)}
      /\ \A i, j \in 1..Len(order) : order[i] = order[j] => i = j
  BY EarlierOrder DEF InOrder
<1>2. path = {order[i] : i \in {j \in 1..Len(order) : db[t][order[j]] > 0}}
  BY <1>1 DEF PathOf
<1>3. x \in path
  BY <1>2
<1>4. ASSUME NEW y \in Initial(t, order, k)
      PROVE  y \in UpTo(order, path, x)
  <2>1. PICK j \in 1..k : db[t][order[j]] > 0 /\ y = order[j]
    BY <1>4 DEF Initial
  <2>2. j \in 1..Len(order) /\ (j = k \/ j < k)
    BY <1>1
  <2>3. y \in path
    BY <1>2, <2>1, <2>2
  <2>4. y = x \/ Earlier(order, y, x)
    BY <2>1, <2>2 DEF Earlier
  <2> QED
    BY <2>3, <2>4 DEF UpTo
<1>5. ASSUME NEW y \in UpTo(order, path, x)
      PROVE  y \in Initial(t, order, k)
  <2>1. y \in path /\ (y = x \/ Earlier(order, y, x))
    BY <1>5 DEF UpTo
  <2>2. PICK j \in 1..Len(order) : db[t][order[j]] > 0 /\ y = order[j]
    BY <1>2, <2>1
  <2>3. j <= k
    <3>1. CASE y = x
      <4>1. order[j] = order[k]
        BY <2>2, <3>1
      <4>2. j = k
        BY <1>1, <2>2, <4>1
      <4> QED
        BY <1>1, <4>2
    <3>2. CASE Earlier(order, y, x)
      <4>1. PICK u, v \in 1..Len(order) : u < v /\ order[u] = y /\ order[v] = x
        BY <3>2 DEF Earlier
      <4>2. u = j /\ v = k
        BY <1>1, <2>2, <4>1
      <4> QED
        BY <4>1, <4>2
    <3> QED
      BY <2>1, <3>1, <3>2
  <2>4. j \in 1..k
    BY <1>1, <2>3
  <2> QED
    BY <2>2, <2>4 DEF Initial
<1> QED
  BY <1>3, <1>4, <1>5

\* The initial parts of the path of a transaction.
Parts(t, order) == {UpTo(order, PathOf(t, order), x) : x \in PathOf(t, order)}

LEMMA PartsAre ==
  ASSUME NEW order, InOrder(order), NEW t
  PROVE  {Initial(t, order, i) : i \in {k \in DOMAIN order : db[t][order[k]] > 0}} = Parts(t, order)
<1> DEFINE path == PathOf(t, order)
           places == {k \in 1..Len(order) : db[t][order[k]] > 0}
<1>1. DOMAIN order = 1..Len(order) /\ Range(order) = {order[i] : i \in 1..Len(order)}
  BY EarlierOrder DEF InOrder
<1>2. path = {order[k] : k \in places}
  BY <1>1 DEF PathOf
<1>3. \A k \in places : Initial(t, order, k) = UpTo(order, path, order[k])
  BY InitialIs
<1>4. {Initial(t, order, k) : k \in places} = {UpTo(order, path, x) : x \in path}
  <2> HIDE DEF path, places
  <2> QED
    BY <1>2, <1>3
<1> QED
  BY <1>1, <1>4 DEF Parts

ProjectionEntry(f, part) ==
  [items |-> part,
   value |-> TidSum({t \in Group(f) : part \in Parts(t, f.tree.order)},
                    [t \in Tids |-> Share(t, f, part)])]

LEMMA ProjectionIs ==
  ASSUME NEW f, InOrder(f.tree.order)
  PROVE  Projection(f) =
           {ProjectionEntry(f, part) : part \in UNION {Parts(t, f.tree.order) : t \in Group(f)}}
<1> DEFINE order == f.tree.order
           parts(t) == {Initial(t, order, i) : i \in {k \in DOMAIN order : db[t][order[k]] > 0}}
           from == Group(f)
<1>1. \A t : parts(t) = Parts(t, order)
  BY PartsAre
<1>2. Projection(f) =
        {[items |-> part,
          value |-> TidSum({t \in from : part \in parts(t)}, [t \in Tids |-> Share(t, f, part)])] :
           part \in UNION {parts(t) : t \in from}}
  BY DEF Projection, Group
<1>3. UNION {parts(t) : t \in from} = UNION {Parts(t, order) : t \in from}
  BY <1>1
<1>4. \A part : {t \in from : part \in parts(t)} = {t \in from : part \in Parts(t, order)}
  BY <1>1
<1> HIDE DEF parts, from
<1>5. Projection(f) =
        {[items |-> part,
          value |-> TidSum({t \in from : part \in Parts(t, order)}, [t \in Tids |-> Share(t, f, part)])] :
           part \in UNION {Parts(t, order) : t \in from}}
  BY <1>2, <1>3, <1>4
<1> QED
  BY <1>5 DEF ProjectionEntry, from

\* What a frame's tree holds in its nodes is what it has to.
FrameStands(f, hi, it) ==
  /\ Surveyed /\ FrameRight(f)
  /\ Shape(arena.nodes, f.tree, hi, it)
  /\ Content(arena.nodes, f.tree, hi, it, Group(f), Paths(f.tree.order), Shares(f))

NodeEntry(it, p) == [items |-> it[p], value |-> arena.nodes[p].value]

LEMMA ThroughIs ==
  ASSUME NEW f, NEW hi, NEW it, FrameStands(f, hi, it), NEW p \in f.tree.root + 1..hi - 1
  PROVE  Through(arena.nodes, f.tree.order, it, Group(f), Paths(f.tree.order), p)
           = {t \in Group(f) : it[p] \in Parts(t, f.tree.order)}
<1> DEFINE order == f.tree.order
           item == arena.nodes[p].item
           part == it[p]
           K == Group(f)
<1>1. InOrder(order) /\ Surveyed /\ db \in Databases
  BY DEF FrameStands, FrameRight, Surveyed
<1>2. K \in SUBSET Tids /\ \A t \in K : Paths(order)[t] = PathOf(t, order)
  <2>1. \A P : Supporting(db, P) \in SUBSET Tids
    BY DEF Supporting
  <2>2. K \in SUBSET Tids
    BY <2>1 DEF Group
  <2> QED
    BY <2>2 DEF Paths
<1>3. /\ item \in Range(order) /\ part = {item} \cup it[arena.nodes[p].parent]
      /\ \A y \in it[arena.nodes[p].parent] : Earlier(order, y, item)
  BY DEF FrameStands, Shape
<1>4. item \in part /\ \A y \in part : y = item \/ Earlier(order, y, item)
  BY <1>3
<1> HIDE DEF item, part
<1>5. Through(arena.nodes, order, it, K, Paths(order), p)
        = {t \in K : item \in PathOf(t, order) /\ UpTo(order, PathOf(t, order), item) = part}
  BY <1>2 DEF Through, item, part
<1>6. ASSUME NEW t \in K, part \in Parts(t, order)
      PROVE  item \in PathOf(t, order) /\ UpTo(order, PathOf(t, order), item) = part
  <2>1. PICK x \in PathOf(t, order) : part = UpTo(order, PathOf(t, order), x)
    BY <1>6 DEF Parts
  <2>2. x \in part /\ \A y \in part : y = x \/ Earlier(order, y, x)
    BY <2>1 DEF UpTo
  <2>3. x = item
    <3>1. \A y, z : ~(Earlier(order, y, z) /\ Earlier(order, z, y))
      BY <1>1, EarlierOrder
    <3> QED
      BY <1>4, <2>2, <3>1
  <2> QED
    BY <2>1, <2>3
<1>7. ASSUME NEW t \in K, item \in PathOf(t, order), UpTo(order, PathOf(t, order), item) = part
      PROVE  part \in Parts(t, order)
  BY <1>7 DEF Parts
<1>8. {t \in K : item \in PathOf(t, order) /\ UpTo(order, PathOf(t, order), item) = part}
        = {t \in K : part \in Parts(t, order)}
  BY <1>6, <1>7
<1> QED
  BY <1>5, <1>8 DEF part

LEMMA NodeEntryIs ==
  ASSUME NEW f, NEW hi, NEW it, FrameStands(f, hi, it), NEW p \in f.tree.root + 1..hi - 1
  PROVE  NodeEntry(it, p) = ProjectionEntry(f, it[p])
<1> DEFINE order == f.tree.order
           item == arena.nodes[p].item
           part == it[p]
           K == Group(f)
           T == Through(arena.nodes, order, it, K, Paths(order), p)
           u == [t \in Tids |-> Share(t, f, part)]
           v == Shares(f)[item]
<1>1. T = {t \in K : part \in Parts(t, order)}
  BY ThroughIs
<1>2. arena.nodes[p].value = TidSum(T, v)
  BY DEF FrameStands, Content
<1>3. item \in Items
  <2>1. item \in Range(order) /\ InOrder(order)
    BY DEF FrameStands, Shape
  <2> QED
    BY <2>1, EarlierOrder
<1>4. K \in SUBSET Tids
  <2>1. \A P : Supporting(db, P) \in SUBSET Tids
    BY DEF Supporting
  <2> QED
    BY <2>1 DEF Group
<1>5. ASSUME NEW t \in T
      PROVE  v[t] = u[t]
  <2>1. t \in Tids /\ UpTo(order, Paths(order)[t], item) = part
    BY <1>4 DEF Through
  <2>2. Paths(order)[t] = PathOf(t, order)
    BY <2>1 DEF Paths
  <2>3. v[t] = Share(t, f, UpTo(order, PathOf(t, order), item))
    BY <1>3, <2>1 DEF Shares
  <2> QED
    BY <2>1, <2>2, <2>3
<1>6. TidSum(T, v) = TidSum(T, u)
  <2> HIDE DEF T, u, v
  <2> QED
    BY <1>5, FootprintSame DEF TidSum
<1> QED
  BY <1>1, <1>2, <1>6 DEF NodeEntry, ProjectionEntry

LEMMA NodesProjection ==
  ASSUME NEW f, NEW hi, NEW it, FrameStands(f, hi, it)
  PROVE  {NodeEntry(it, p) : p \in f.tree.root + 1..hi - 1} = Projection(f)
<1> DEFINE order == f.tree.order
           K == Group(f)
           nodes == f.tree.root + 1..hi - 1
<1>1. Projection(f) = {ProjectionEntry(f, part) : part \in UNION {Parts(t, order) : t \in K}}
  <2>1. InOrder(order)
    BY DEF FrameStands, FrameRight
  <2> QED
    BY <2>1, ProjectionIs
<1>2. ASSUME NEW p \in nodes
      PROVE  it[p] \in UNION {Parts(t, order) : t \in K}
  <2>1. Through(arena.nodes, order, it, K, Paths(order), p) # {}
    BY DEF FrameStands, Content
  <2>2. {t \in K : it[p] \in Parts(t, order)} # {}
    BY <2>1, ThroughIs
  <2> QED
    BY <2>2
<1>3. ASSUME NEW t \in K, NEW part \in Parts(t, order)
      PROVE  \E p \in nodes : it[p] = part
  <2>1. PICK x \in PathOf(t, order) : part = UpTo(order, PathOf(t, order), x)
    BY <1>3 DEF Parts
  <2>2. Paths(order)[t] = PathOf(t, order)
    <3>1. \A P : Supporting(db, P) \in SUBSET Tids
      BY DEF Supporting
    <3>2. t \in Tids
      BY <1>3, <3>1 DEF Group
    <3> QED
      BY <3>2 DEF Paths
  <2>3. \E p \in nodes : arena.nodes[p].item = x /\ it[p] = UpTo(order, Paths(order)[t], x)
    BY <2>1, <2>2 DEF FrameStands, Content
  <2> QED
    BY <2>1, <2>2, <2>3
<1>4. {it[p] : p \in nodes} = UNION {Parts(t, order) : t \in K}
  BY <1>2, <1>3
<1>5. \A p \in nodes : NodeEntry(it, p) = ProjectionEntry(f, it[p])
  BY NodeEntryIs
<1> HIDE DEF nodes, K
<1>6. {NodeEntry(it, p) : p \in nodes} = {ProjectionEntry(f, part) : part \in {it[p] : p \in nodes}}
  BY <1>5
<1> QED
  BY <1>1, <1>4, <1>6 DEF nodes, K

\* What is read from the arena.
LEMMA HeldIs ==
  ASSUME NEW f, NEW hi, NEW it, FrameStands(f, hi, it),
         NodesOf(f.tree) = f.tree.root..hi - 1
  PROVE  /\ DOMAIN Held(f.tree) = f.tree.root + 1..hi - 1
         /\ \A p \in f.tree.root + 1..hi - 1 : Held(f.tree)[p] = NodeEntry(it, p)
<1> DEFINE tree == f.tree
           root == tree.root
<1>1. /\ root \in Nat /\ hi \in Nat /\ it[root] = {}
      /\ \A p \in root + 1..hi - 1 :
           /\ arena.nodes[p].parent \in root..p - 1
           /\ it[p] = {arena.nodes[p].item} \cup it[arena.nodes[p].parent]
  BY DEF FrameStands, Shape
<1>2. NodesOf(tree) \ {root} = root + 1..hi - 1
  <2> HIDE DEF root, tree
  <2>1. (root..hi - 1) \ {root} = root + 1..hi - 1
    BY <1>1
  <2>2. NodesOf(tree) = root..hi - 1
    BY DEF tree, root
  <2> QED
    BY <2>1, <2>2
<1>3. ASSUME NEW p \in root + 1..hi - 1
      PROVE  ItemsTo(arena.nodes, root, p) = it[p]
  <2> HIDE DEF root, tree
  <2>1. p \in Nat /\ root <= p /\ \A q \in root + 1..p : q \in root + 1..hi - 1
    BY <1>1
  <2>2. Climbs(arena.nodes, root, p, it)
    BY <1>1, <2>1 DEF Climbs
  <2> QED
    BY <2>2, ItemsToIs
<1>4. Held(tree) = [p \in root + 1..hi - 1 |->
                      [items |-> ItemsTo(arena.nodes, root, p), value |-> arena.nodes[p].value]]
  BY <1>2 DEF Held
<1> HIDE DEF root, tree
<1>5. DOMAIN Held(tree) = root + 1..hi - 1
  BY <1>4
<1>6. ASSUME NEW p \in root + 1..hi - 1
      PROVE  Held(tree)[p] = NodeEntry(it, p)
  BY <1>3, <1>4 DEF NodeEntry
<1> QED
  BY <1>5, <1>6 DEF tree, root

FrameReads(f) ==
  /\ Range(Held(f.tree)) = Projection(f)
  /\ \A p, q \in DOMAIN Held(f.tree) :
       Held(f.tree)[p].items = Held(f.tree)[q].items => p = q
  /\ \A p \in NodesOf(f.tree) :
       arena.nodes[p].children = {q \in NodesOf(f.tree) : arena.nodes[q].parent = p}
  /\ \A x \in DOMAIN f.tree.header :
       /\ IsInjective(f.tree.header[x])
       /\ Range(f.tree.header[x])
            = {p \in NodesOf(f.tree) : p # f.tree.root /\ arena.nodes[p].item = x}

LEMMA FrameExact ==
  ASSUME NEW f, NEW hi, NEW it, FrameStands(f, hi, it),
         NodesOf(f.tree) = f.tree.root..hi - 1
  PROVE  FrameReads(f)
<1> DEFINE tree == f.tree
           root == tree.root
           below == root + 1..hi - 1
           nodes == arena.nodes
<1>1. Shape(nodes, tree, hi, it) /\ root \in Nat /\ hi \in Nat
  BY DEF FrameStands, Shape
<1>2. /\ \A q \in root..hi - 1 : q \in below <=> q # root
      /\ \A q \in below : q \in root..hi - 1
      /\ \A p \in root..hi - 1 : p # Null
  <2> HIDE DEF root
  <2> QED
    BY <1>1 DEF Null
<1>3. DOMAIN Held(tree) = below /\ \A p \in below : Held(tree)[p] = NodeEntry(it, p)
  BY HeldIs
<1>4. Range(Held(tree)) = Projection(f)
  <2>1. Projection(f) = {NodeEntry(it, p) : p \in below}
    BY NodesProjection
  <2> DEFINE h == Held(tree)
  <2> HIDE DEF h, below
  <2>2. Range(h) = {h[p] : p \in below}
    BY <1>3 DEF Range, h
  <2>3. {h[p] : p \in below} = {NodeEntry(it, p) : p \in below}
    BY <1>3 DEF h
  <2> QED
    BY <2>1, <2>2, <2>3 DEF h
<1>5. ASSUME NEW p \in DOMAIN Held(tree), NEW q \in DOMAIN Held(tree),
             Held(tree)[p].items = Held(tree)[q].items
      PROVE  p = q
  <2>1. it[p] = it[q]
    <3>1. p \in below /\ q \in below
      BY <1>3
    <3>2. NodeEntry(it, p).items = NodeEntry(it, q).items
      BY <1>3, <1>5, <3>1
    <3> QED
      BY <3>2 DEF NodeEntry
  <2>2. p \in root..hi - 1 /\ q \in root..hi - 1
    BY <1>2, <1>3
  <2> QED
    BY <1>1, <2>1, <2>2 DEF Shape
<1>6. ASSUME NEW p \in NodesOf(tree)
      PROVE  nodes[p].children = {q \in NodesOf(tree) : nodes[q].parent = p}
  <2>1. nodes[p].children = {q \in below : nodes[q].parent = p}
    BY <1>1 DEF Shape
  <2>2. nodes[root].parent = Null /\ p # Null
    BY <1>1, <1>2 DEF Shape
  <2>3. \A q : q \in below <=> q \in NodesOf(tree) /\ q # root
    BY <1>2
  <2> HIDE DEF below, nodes, root, tree
  <2> QED
    BY <2>1, <2>2, <2>3
<1>7. ASSUME NEW x \in DOMAIN tree.header
      PROVE  /\ IsInjective(tree.header[x])
             /\ Range(tree.header[x]) = {p \in NodesOf(tree) : p # root /\ nodes[p].item = x}
  <2>1. x \in Range(tree.order)
    BY <1>1 DEF Shape
  <2>2. IsInjective(tree.header[x]) /\ Range(tree.header[x]) = {p \in below : nodes[p].item = x}
    BY <1>1, <2>1 DEF Shape
  <2>3. \A q : q \in below <=> q \in NodesOf(tree) /\ q # root
    BY <1>2
  <2> HIDE DEF below, nodes, root, tree
  <2> QED
    BY <2>2, <2>3
<1> QED
  BY <1>4, <1>5, <1>6, <1>7 DEF FrameReads

LEMMA TreeExact == TreeIInv => TreesExact
<1> SUFFICES ASSUME TreeIInv, phase \in {"build", "mine"}, NEW i \in DOMAIN trees
             PROVE  LET tree == trees[i].tree
                        nodes == arena.nodes
                    IN
                    /\ Range(Held(tree)) = Projection(trees[i])
                    /\ \A p, q \in DOMAIN Held(tree) :
                         Held(tree)[p].items = Held(tree)[q].items => p = q
                    /\ \A p \in NodesOf(tree) :
                         nodes[p].children = {q \in NodesOf(tree) : nodes[q].parent = p}
                    /\ \A x \in DOMAIN tree.header :
                         /\ IsInjective(tree.header[x])
                         /\ Range(tree.header[x])
                              = {p \in NodesOf(tree) : p # tree.root /\ nodes[p].item = x}
  BY DEF TreesExact
<1> DEFINE f == trees[i]
           hi == Hi(arena, trees, i)
<1>1. Grove(arena, trees) /\ Surveyed
  BY TreeGrove
<1>2. i \in 1..Len(trees)
  BY <1>1 DEF Grove
<1>3. FrameRight(f) /\ Stands(arena, f, hi)
  BY <1>1, <1>2 DEF Grove
<1>4. NodesOf(f.tree) = f.tree.root..hi - 1
  BY <1>1, <1>2, TreeSlots
<1> HIDE DEF f, hi
<1>5. PICK it : FrameStands(f, hi, it)
  BY <1>1, <1>3 DEF Stands, Holds, FrameStands
<1>6. FrameReads(f)
  BY <1>4, <1>5, FrameExact
<1> QED
  BY <1>6 DEF FrameReads, f
=============================================================================
