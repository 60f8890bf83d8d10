------------------------ MODULE UtilityListMinerProofs ------------------------
(***************************************************************************)
(* The utility-list miners are right for any database, threshold, k,       *)
(* number of threads and order of tasks: their lists are those of their    *)
(* itemsets, mining with a threshold finds exactly the itemsets that reach *)
(* it, and top-k mining ends with k of the best.  What is assumed is what  *)
(* the runs that show a violation lack: room for the co-occurrence         *)
(* structure, and no minimum utility for the top-k miners.                 *)
(***************************************************************************)
EXTENDS UtilityListMiner, SearchProofs, WellFoundedInduction

LEMMA MinerConstants ==
  /\ IsFiniteSet(Threads) /\ MinedDatabases \subseteq Databases
  /\ EucsRoom \in Nat
  /\ \A m \in Modes :
       /\ m.algorithm \in Algorithms /\ m.topK \in BOOLEAN /\ m.k \in Nat
       /\ m.minUtility \in Nat /\ m.minLength \in Nat /\ m.maxLength \in Nat
       /\ m.topK => m.algorithm.heap
       /\ ~m.algorithm.lengths => m.minLength <= 1 /\ m.maxLength >= Cardinality(Items)
BY MinerAssumption DEF ModeType

\* The top-k miners do not bound lengths.
LEMMA HeapHasNoLengths ==
  ASSUME NEW a \in Algorithms, a.heap
  PROVE  ~a.lengths
BY DEF Algorithms, Fhm, FhmPlus, HuiMiner, HupMiner, MHuiMiner, Tko, Tku, Rept

-----------------------------------------------------------------------------
(* The order of items *)

TwuType == DOMAIN twu \in SUBSET Items /\ \A x \in DOMAIN twu : twu[x] \in Nat

LEMMA BeforeOrder ==
  ASSUME TwuType
  PROVE  \A x, y \in DOMAIN twu :
           /\ x # y => Before(twu, x, y) \/ Before(twu, y, x)
           /\ ~ (Before(twu, x, y) /\ Before(twu, y, x))
           /\ ~ Before(twu, x, x)
           /\ \A z \in DOMAIN twu : Before(twu, x, y) /\ Before(twu, y, z) => Before(twu, x, z)
BY RankOrder DEF TwuType, Ranks

LEMMA FirstExists ==
  ASSUME TwuType, NEW S \in SUBSET DOMAIN twu, S # {}
  PROVE  \E x \in S : \A y \in S \ {x} : Before(twu, x, y)
BY FirstInRank DEF TwuType, Ranks

-----------------------------------------------------------------------------
(* Lists *)

ListEntry == [iutils : Nat, rutils : Nat]
Lists == UNION {[T -> ListEntry] : T \in SUBSET Tids}
ListMaps == UNION {[X -> Lists] : X \in SUBSET Items}

After(x) == {y \in DOMAIN twu : Before(twu, x, y)}

LEMMA ListOfType ==
  ASSUME db \in Databases, TwuType, NEW S \in SUBSET Items, NEW x
  PROVE  /\ ListOf(S, x) \in Lists /\ DOMAIN ListOf(S, x) = Supporting(db, S)
         /\ \A t \in Supporting(db, S) :
              /\ ListOf(S, x)[t].iutils = ItemSum(S, db[t])
              /\ ListOf(S, x)[t].rutils = ItemSum(After(x), db[t])
              /\ ItemSum(S, db[t]) \in Nat /\ ItemSum(After(x), db[t]) \in Nat
<1>1. Supporting(db, S) \in SUBSET Tids
  BY SupportingTids
<1>2. \A t \in Tids : ItemSum(S, db[t]) \in Nat /\ ItemSum(After(x), db[t]) \in Nat
  <2>1. After(x) \in SUBSET Items
    BY DEF After, TwuType
  <2> QED
    BY <2>1, ItemSums
<1>3. ListOf(S, x) = [t \in Supporting(db, S) |->
                        [iutils |-> ItemSum(S, db[t]), rutils |-> ItemSum(After(x), db[t])]]
  BY DEF ListOf, After
<1>4. ListOf(S, x) \in [Supporting(db, S) -> ListEntry]
  BY <1>1, <1>2, <1>3 DEF ListEntry
<1> QED
  BY <1>1, <1>2, <1>3, <1>4 DEF Lists

\* The list of an item is that of the itemset with this item alone.
LEMMA ItemListOf ==
  ASSUME db \in Databases, NEW x \in Items
  PROVE  ItemList(db, twu, x) = ListOf({x}, x)
<1>1. Supporting(db, {x}) \in SUBSET Tids
  BY SupportingTids
<1>2. \A t \in Supporting(db, {x}) : db[t][x] = ItemSum({x}, db[t])
  BY <1>1, ItemSums
<1> QED
  BY <1>2 DEF ItemList, ListOf

\* What the join needs to know of the list of the prefix.
BodyRight(body, S) ==
  /\ DOMAIN body = IF S = {} THEN {} ELSE Supporting(db, S)
  /\ \A t \in DOMAIN body : body[t].iutils = ItemSum(S, db[t])

\* The join of the lists of two extensions of a prefix is the list of both together.
LEMMA JoinOf ==
  ASSUME db \in Databases, TwuType, NEW S \in SUBSET Items, NEW x \in Items \ S,
         NEW y \in Items \ (S \cup {x}), NEW body, BodyRight(body, S)
  PROVE  Join(body, ListOf(S \cup {x}, x), ListOf(S \cup {y}, y)) = ListOf(S \cup {x, y}, y)
<1> DEFINE lx == ListOf(S \cup {x}, x)
           ly == ListOf(S \cup {y}, y)
           both == S \cup {x, y}
           minus(t) == IF t \in DOMAIN body THEN body[t].iutils ELSE 0
<1>1. /\ DOMAIN lx = Supporting(db, S \cup {x}) /\ DOMAIN ly = Supporting(db, S \cup {y})
      /\ \A t \in DOMAIN lx : lx[t].iutils = ItemSum(S \cup {x}, db[t])
      /\ \A t \in DOMAIN ly : /\ ly[t].iutils = ItemSum(S \cup {y}, db[t])
                              /\ ly[t].rutils = ItemSum(After(y), db[t])
  <2> DEFINE Sx == S \cup {x}
             Sy == S \cup {y}
  <2>1. Sx \in SUBSET Items /\ Sy \in SUBSET Items /\ x \in Items /\ y \in Items
    OBVIOUS
  <2> HIDE DEF Sx, Sy
  <2>2. /\ DOMAIN ListOf(Sx, x) = Supporting(db, Sx)
        /\ \A t \in DOMAIN ListOf(Sx, x) : ListOf(Sx, x)[t].iutils = ItemSum(Sx, db[t])
    <3>1. DOMAIN ListOf(Sx, x) = Supporting(db, Sx)
      BY <2>1, ListOfType
    <3>2. \A t \in DOMAIN ListOf(Sx, x) : ListOf(Sx, x)[t].iutils = ItemSum(Sx, db[t])
      BY <2>1, ListOfType
    <3> QED
      BY <3>1, <3>2
  <2>3. /\ DOMAIN ListOf(Sy, y) = Supporting(db, Sy)
        /\ \A t \in DOMAIN ListOf(Sy, y) : /\ ListOf(Sy, y)[t].iutils = ItemSum(Sy, db[t])
                                          /\ ListOf(Sy, y)[t].rutils = ItemSum(After(y), db[t])
    <3>1. DOMAIN ListOf(Sy, y) = Supporting(db, Sy)
      BY <2>1, ListOfType
    <3>2. \A t \in DOMAIN ListOf(Sy, y) : /\ ListOf(Sy, y)[t].iutils = ItemSum(Sy, db[t])
                                          /\ ListOf(Sy, y)[t].rutils = ItemSum(After(y), db[t])
      BY <2>1, ListOfType
    <3> QED
      BY <3>1, <3>2
  <2> QED
    BY <2>2, <2>3 DEF Sx, Sy
<1> HIDE DEF lx, ly
<1>2. DOMAIN lx \cap DOMAIN ly = Supporting(db, both)
  BY <1>1 DEF Supporting, HasAll
<1>3. ASSUME NEW t \in Supporting(db, both)
      PROVE  /\ lx[t].iutils + ly[t].iutils - minus(t) = ItemSum(both, db[t])
             /\ ly[t].rutils = ItemSum(After(y), db[t])
  <2>1. t \in Tids /\ t \in DOMAIN lx /\ t \in DOMAIN ly /\ t \in Supporting(db, S)
    BY <1>2 DEF Supporting, HasAll
  <2>2. /\ ItemSum(S, db[t]) \in Nat
        /\ ItemSum(S \cup {x}, db[t]) = ItemSum(S, db[t]) + db[t][x]
        /\ ItemSum(S \cup {y}, db[t]) = ItemSum(S, db[t]) + db[t][y]
    <3>1. \A z \in Items \ S : ItemSum(S \cup {z}, db[t]) = ItemSum(S, db[t]) + db[t][z]
      BY <2>1, ItemSums
    <3>2. ItemSum(S, db[t]) \in Nat
      BY <2>1, ItemSums
    <3>3. x \in Items \ S /\ y \in Items \ S
      OBVIOUS
    <3> QED
      BY <3>1, <3>2, <3>3
  <2>3. ItemSum(both, db[t]) = ItemSum(S \cup {x}, db[t]) + db[t][y]
    <3> DEFINE Sx == S \cup {x}
    <3>1. both = Sx \cup {y} /\ Sx \in SUBSET Items /\ y \in Items \ Sx
      OBVIOUS
    <3> HIDE DEF both, Sx
    <3>2. \A z \in Items \ Sx : ItemSum(Sx \cup {z}, db[t]) = ItemSum(Sx, db[t]) + db[t][z]
      BY <2>1, <3>1, ItemSums
    <3>3. ItemSum(both, db[t]) = ItemSum(Sx, db[t]) + db[t][y]
      BY <3>1, <3>2
    <3> QED
      BY <3>3 DEF Sx
  <2>4. db[t][x] \in Nat /\ db[t][y] \in Nat
    BY <2>1, Constants DEF Databases
  <2>5. minus(t) = ItemSum(S, db[t])
    <3>1. CASE S = {}
      BY <3>1, EmptyFootprint DEF BodyRight, ItemSum
    <3>2. CASE S # {}
      BY <2>1, <3>2 DEF BodyRight
    <3> QED
      BY <3>1, <3>2
  <2>6. /\ lx[t].iutils = ItemSum(S, db[t]) + db[t][x]
        /\ ly[t].iutils = ItemSum(S, db[t]) + db[t][y]
        /\ ly[t].rutils = ItemSum(After(y), db[t])
    BY <1>1, <2>1, <2>2
  <2> HIDE DEF minus, both
  <2> QED
    BY <2>2, <2>3, <2>4, <2>5, <2>6
<1>4. Join(body, lx, ly) =
        [t \in DOMAIN lx \cap DOMAIN ly |->
           [iutils |-> lx[t].iutils + ly[t].iutils - minus(t), rutils |-> ly[t].rutils]]
  BY DEF Join
<1>5. ListOf(both, y) =
        [t \in Supporting(db, both) |->
           [iutils |-> ItemSum(both, db[t]), rutils |-> ItemSum(After(y), db[t])]]
  BY DEF ListOf, After
<1> HIDE DEF minus, both
<1>6. Join(body, lx, ly) = ListOf(both, y)
  BY <1>2, <1>3, <1>4, <1>5
<1> QED
  BY <1>6 DEF lx, ly, both

-----------------------------------------------------------------------------
(* What the sums of a list say *)

LEMMA ListSums ==
  ASSUME db \in Databases, TwuType, NEW S \in SUBSET Items, NEW x
  PROVE  /\ SumIutils(ListOf(S, x)) = Utility(db, S)
         /\ SumIutils(ListOf(S, x)) \in Nat /\ SumRutils(ListOf(S, x)) \in Nat
<1> DEFINE list == ListOf(S, x)
           own == [t \in DOMAIN list |-> list[t].iutils]
           rest == [t \in DOMAIN list |-> list[t].rutils]
           part == [t \in Tids |-> ItemSum(S, db[t])]
<1>1. /\ DOMAIN list = Supporting(db, S)
      /\ \A t \in Supporting(db, S) : list[t].iutils = ItemSum(S, db[t])
  BY ListOfType
<1>2. Supporting(db, S) \in SUBSET Tids /\ IsFiniteSet(Supporting(db, S))
  BY SupportingTids
<1>3. \A t \in Supporting(db, S) : own[t] = part[t]
  BY <1>1, <1>2
<1> HIDE DEF list, own, rest, part
<1>4. Footprint(Supporting(db, S), own, TidMax) = Footprint(Supporting(db, S), part, TidMax)
  BY <1>3, FootprintSame
<1>5. /\ Footprint(Supporting(db, S), own, TidMax) \in Nat
      /\ Footprint(Supporting(db, S), rest, TidMax) \in Nat
  BY <1>2, TidMaxType, BytesFinite
<1>6. /\ SumIutils(list) = Footprint(Supporting(db, S), own, TidMax)
      /\ SumRutils(list) = Footprint(Supporting(db, S), rest, TidMax)
      /\ Utility(db, S) = Footprint(Supporting(db, S), part, TidMax)
  BY <1>1 DEF SumIutils, SumRutils, Utility, TidSum, TidMax, own, rest, part
<1> QED
  BY <1>4, <1>5, <1>6 DEF list

\* The bound of a list is at least the utility of every itemset below it.
LEMMA BoundCovers ==
  ASSUME db \in Databases, TwuType, NEW S \in SUBSET Items, NEW x,
         NEW T \in SUBSET Items, S \in SUBSET T, T \ S \in SUBSET After(x)
  PROVE  Utility(db, T) <= SumIutils(ListOf(S, x)) + SumRutils(ListOf(S, x))
<1> DEFINE list == ListOf(S, x)
           own == [t \in DOMAIN list |-> list[t].iutils]
           rest == [t \in DOMAIN list |-> list[t].rutils]
           whole == [t \in Tids |-> ItemSum(T, db[t])]
<1>1. /\ DOMAIN list = Supporting(db, S)
      /\ \A t \in Supporting(db, S) :
           /\ list[t].iutils = ItemSum(S, db[t]) /\ list[t].rutils = ItemSum(After(x), db[t])
           /\ ItemSum(S, db[t]) \in Nat /\ ItemSum(After(x), db[t]) \in Nat
  BY ListOfType
<1>2. /\ Supporting(db, S) \in SUBSET Tids /\ IsFiniteSet(Supporting(db, S))
      /\ Supporting(db, T) \in SUBSET Supporting(db, S)
  BY SupportingTids
<1>3. ASSUME NEW t \in Supporting(db, T)
      PROVE  /\ own[t] \in Nat /\ rest[t] \in Nat /\ whole[t] \in Nat
             /\ whole[t] <= own[t] + rest[t]
  <2>1. t \in Supporting(db, S) /\ t \in Tids
    BY <1>2
  <2>2. ItemSum(T, db[t]) \in Nat
    BY <2>1, ItemSums
  <2>3. After(x) \in SUBSET Items /\ T \in SUBSET (S \cup After(x))
    BY DEF After, TwuType
  <2>4. ItemSum(T, db[t]) <= ItemSum(S, db[t]) + ItemSum(After(x), db[t])
    BY <2>1, <2>3, ItemSumCovered
  <2>5. /\ own[t] = ItemSum(S, db[t]) /\ rest[t] = ItemSum(After(x), db[t])
        /\ whole[t] = ItemSum(T, db[t])
    BY <1>1, <2>1
  <2> HIDE DEF own, rest, whole
  <2> QED
    BY <1>1, <2>1, <2>2, <2>4, <2>5
<1> HIDE DEF list, own, rest, whole
<1>4. Footprint(Supporting(db, T), whole, TidMax)
        <= Footprint(Supporting(db, S), own, TidMax) + Footprint(Supporting(db, S), rest, TidMax)
  BY <1>2, <1>3, TidMaxType, FootprintSum
<1>5. /\ SumIutils(list) = Footprint(Supporting(db, S), own, TidMax)
      /\ SumRutils(list) = Footprint(Supporting(db, S), rest, TidMax)
      /\ Utility(db, T) = Footprint(Supporting(db, T), whole, TidMax)
  BY <1>1 DEF SumIutils, SumRutils, Utility, TidSum, TidMax, own, rest, whole
<1> QED
  BY <1>4, <1>5 DEF list

-----------------------------------------------------------------------------
(* The co-occurrence structure *)

AllPairs == {k \in SUBSET Items : Cardinality(k) = 2}

\* The guard has room for every pair of items.
Ample == EucsRoom >= Cardinality(AllPairs)

PairsOfListed == {k \in SUBSET DOMAIN twu : \E x, y \in DOMAIN twu : x # y /\ k = {x, y}}

\* The pairs that occur in what has been read, and the utility of the transactions they
\* occur in.
Seen(left) == {k \in PairsOfListed : Supporting(db, k) \ left # {}}
SeenTwu(k, left) ==
  TidSum(Supporting(db, k) \ left, [t \in Tids |-> TransactionUtility(db, t)])

SeenRight(table, left) ==
  DOMAIN table = Seen(left) /\ \A k \in Seen(left) : table[k] = SeenTwu(k, left)

LEMMA PairSize ==
  ASSUME NEW x, NEW y, x # y
  PROVE  Cardinality({x, y}) = 2
<1>1. IsFiniteSet({x}) /\ Cardinality({x}) = 1 /\ y \notin {x} /\ {x} \cup {y} = {x, y}
  BY FS_Singleton
<1>2. Cardinality({x} \cup {y}) = Cardinality({x}) + 1
  BY <1>1, FS_AddElement
<1> QED
  BY <1>1, <1>2

\* The pairs of a transaction are its pairs of listed items, each once.
LEMMA KeysOf ==
  ASSUME db \in Databases, TwuType, NEW t \in Tids
  PROVE  /\ \A p \in PairsOf(t) : Key(p) \in PairsOfListed /\ t \in Supporting(db, Key(p))
         /\ \A k \in PairsOfListed : t \in Supporting(db, k) => \E p \in PairsOf(t) : Key(p) = k
         /\ \A p, q \in PairsOf(t) : Key(p) = Key(q) => p = q
         /\ \A p \in PairsOf(t) : Key(p) \in AllPairs
<1>1. ASSUME NEW p \in PairsOf(t)
      PROVE  /\ p[1] \in DOMAIN twu /\ p[2] \in DOMAIN twu /\ p = <<p[1], p[2]>>
             /\ Before(twu, p[1], p[2]) /\ p[1] # p[2] /\ ~Before(twu, p[2], p[1])
             /\ db[t][p[1]] > 0 /\ db[t][p[2]] > 0
  <2>1. p \in Present(t) \X Present(t) /\ Before(twu, p[1], p[2])
    BY DEF PairsOf
  <2>2. /\ p[1] \in DOMAIN twu /\ p[2] \in DOMAIN twu /\ p = <<p[1], p[2]>>
        /\ db[t][p[1]] > 0 /\ db[t][p[2]] > 0
    BY <2>1 DEF Present
  <2> QED
    BY <2>1, <2>2, BeforeOrder
<1>2. ASSUME NEW p \in PairsOf(t)
      PROVE  /\ Key(p) \in PairsOfListed /\ t \in Supporting(db, Key(p)) /\ Key(p) \in AllPairs
  <2>1. Key(p) \in PairsOfListed /\ t \in Supporting(db, Key(p))
    BY <1>1 DEF Key, PairsOfListed, Supporting, HasAll
  <2>2. Cardinality(Key(p)) = 2
    BY <1>1, PairSize DEF Key
  <2>3. Key(p) \in SUBSET Items
    BY <1>1 DEF Key, TwuType
  <2> QED
    BY <2>1, <2>2, <2>3 DEF AllPairs
<1>3. ASSUME NEW k \in PairsOfListed, t \in Supporting(db, k)
      PROVE  \E p \in PairsOf(t) : Key(p) = k
  <2>1. PICK x, y \in DOMAIN twu : x # y /\ k = {x, y}
    BY DEF PairsOfListed
  <2>2. x \in Present(t) /\ y \in Present(t)
    BY <1>3, <2>1 DEF Present, Supporting, HasAll
  <2>3. CASE Before(twu, x, y)
    <3>1. <<x, y>> \in PairsOf(t)
      BY <2>2, <2>3 DEF PairsOf
    <3>2. Key(<<x, y>>) = k
      BY <2>1 DEF Key
    <3> QED
      BY <3>1, <3>2
  <2>4. CASE Before(twu, y, x)
    <3>1. <<y, x>> \in PairsOf(t)
      BY <2>2, <2>4 DEF PairsOf
    <3>2. Key(<<y, x>>) = k
      BY <2>1 DEF Key
    <3> QED
      BY <3>1, <3>2
  <2> QED
    BY <2>1, <2>3, <2>4, BeforeOrder
<1>4. ASSUME NEW p \in PairsOf(t), NEW q \in PairsOf(t), Key(p) = Key(q)
      PROVE  p = q
  <2>1. {p[1], p[2]} = {q[1], q[2]}
    BY <1>4 DEF Key
  <2>2. (p[1] = q[1] /\ p[2] = q[2]) \/ (p[1] = q[2] /\ p[2] = q[1])
    BY <2>1, <1>1
  <2>3. ~(p[1] = q[2] /\ p[2] = q[1])
    BY <1>1
  <2> QED
    BY <1>1, <2>2, <2>3
<1> QED
  BY <1>2, <1>3, <1>4

\* With room for all pairs none is refused.
LEMMA AllReached ==
  ASSUME db \in Databases, TwuType, Ample, DOMAIN eucs \in SUBSET AllPairs, NEW t \in Tids
  PROVE  Reached(t) = PairsOf(t)
<1>1. IsFiniteSet(AllPairs) /\ IsFiniteSet(DOMAIN eucs)
  <2>1. IsFiniteSet(SUBSET Items)
    BY Constants, FS_SUBSET
  <2>2. AllPairs \in SUBSET SUBSET Items
    BY DEF AllPairs
  <2> QED
    BY <2>1, <2>2, FS_Subset
<1> DEFINE free == AllPairs \ DOMAIN eucs
<1>2. /\ IsFiniteSet(free)
      /\ Cardinality(free) = Cardinality(AllPairs) - Cardinality(DOMAIN eucs)
      /\ Cardinality(AllPairs) \in Nat /\ Cardinality(DOMAIN eucs) \in Nat
  <2>1. AllPairs \cap DOMAIN eucs = DOMAIN eucs
    OBVIOUS
  <2>2. /\ IsFiniteSet(free)
        /\ Cardinality(free) = Cardinality(AllPairs) - Cardinality(AllPairs \cap DOMAIN eucs)
    BY <1>1, FS_Difference
  <2> QED
    BY <1>1, <2>1, <2>2, FS_CardinalityType
<1>3. ASSUME NEW q \in PairsOf(t)
      PROVE  q \in Reached(t)
  <2> DEFINE new == {p \in PairsOf(t) : New(p) /\ UpTo(p, q)}
             key == [p \in new |-> Key(p)]
  <2>1. key \in Injection(new, free)
    <3>1. \A p \in new : p \in PairsOf(t) /\ Key(p) \in free
      BY KeysOf DEF New
    <3>2. \A p, r \in new : Key(p) = Key(r) => p = r
      BY KeysOf
    <3> QED
      BY <3>1, <3>2 DEF Injection, IsInjective
  <2>2. IsFiniteSet(new) /\ Cardinality(new) <= Cardinality(free)
    <3> HIDE DEF new, free, key
    <3> QED
      BY <1>2, <2>1, FS_Injection
  <2>3. Cardinality(new) \in Nat
    <3> HIDE DEF new
    <3> QED
      BY <2>2, FS_CardinalityType
  <2>4. Cardinality(new) <= Room
    <3> HIDE DEF new, free
    <3> QED
      BY <1>2, <2>2, <2>3, MinerConstants DEF Ample, Room
  <2> QED
    BY <2>4 DEF Reached
<1> QED
  BY <1>3 DEF Reached

\* Reading one more transaction brings the structure up to date.
LEMMA PairsAdded ==
  ASSUME db \in Databases, TwuType, Ample, unread \in SUBSET Tids, NEW t \in unread,
         DOMAIN eucs \in SUBSET AllPairs, SeenRight(eucs, unread)
  PROVE  SeenRight(Added(t), unread \ {t})
<1> DEFINE keys == {Key(p) : p \in Reached(t)}
           left == unread \ {t}
<1>1. /\ t \in Tids
      /\ keys = {k \in PairsOfListed : t \in Supporting(db, k)}
  BY AllReached, KeysOf
<1> HIDE DEF keys
<1>2. ASSUME NEW k
      PROVE  Supporting(db, k) \ left = IF t \in Supporting(db, k)
                                          THEN (Supporting(db, k) \ unread) \cup {t}
                                          ELSE Supporting(db, k) \ unread
  OBVIOUS
<1>3. Seen(left) = Seen(unread) \cup keys
  BY <1>1, <1>2 DEF Seen
<1>4. ASSUME NEW k \in Seen(left)
      PROVE  SeenTwu(k, left) = (IF k \in Seen(unread) THEN SeenTwu(k, unread) ELSE 0)
                                  + (IF k \in keys THEN TransactionUtility(db, t) ELSE 0)
  <2> DEFINE utility == [u \in Tids |-> TransactionUtility(db, u)]
             before == Supporting(db, k) \ unread
  <2>1. k \in PairsOfListed /\ k \in SUBSET Items
    BY DEF Seen, PairsOfListed, TwuType
  <2>2. Supporting(db, k) \in SUBSET Tids /\ IsFiniteSet(Supporting(db, k))
    BY <2>1, SupportingTids
  <2>3. IsFiniteSet(before) /\ before \in SUBSET Tids /\ t \notin before
    BY <2>2, FS_Subset
  <2>4. utility[t] = TransactionUtility(db, t) /\ utility[t] \in 0..TidMax /\ TidMax \in Nat
    BY <1>1, TransactionBound, TidMaxType
  <2> HIDE DEF utility
  <2>5. /\ Footprint(before \cup {t}, utility, TidMax) = Footprint(before, utility, TidMax) + utility[t]
        /\ Footprint(before, utility, TidMax) \in Nat
    <3> HIDE DEF before
    <3> QED
      BY <2>3, <2>4, AddMember, BytesFinite
  <2>6. k \notin Seen(unread) => Footprint(before, utility, TidMax) = 0
    <3>1. k \notin Seen(unread) => before = {}
      BY <2>1 DEF Seen
    <3> QED
      BY <3>1, EmptyFootprint
  <2>7. SeenTwu(k, unread) = Footprint(before, utility, TidMax)
    BY DEF SeenTwu, TidSum, TidMax, utility
  <2>8. SeenTwu(k, left) = Footprint(Supporting(db, k) \ left, utility, TidMax)
    BY DEF SeenTwu, TidSum, TidMax, utility
  <2>9. CASE k \in keys
    <3>1. Supporting(db, k) \ left = before \cup {t}
      BY <1>1, <1>2, <2>9
    <3> HIDE DEF before, left
    <3> QED
      BY <2>4, <2>5, <2>6, <2>7, <2>8, <2>9, <3>1
  <2>10. CASE k \notin keys
    <3>1. Supporting(db, k) \ left = before
      BY <1>1, <1>2, <2>1, <2>10
    <3>2. k \in Seen(unread)
      BY <1>3, <2>10
    <3> HIDE DEF before, left
    <3> QED
      BY <2>5, <2>7, <2>8, <2>10, <3>1, <3>2
  <2> QED
    BY <2>9, <2>10
<1>5. Added(t) = [k \in DOMAIN eucs \cup keys |->
                    (IF k \in DOMAIN eucs THEN eucs[k] ELSE 0)
                      + (IF k \in keys THEN TransactionUtility(db, t) ELSE 0)]
  BY DEF Added, keys
<1>6. DOMAIN eucs = Seen(unread) /\ \A k \in Seen(unread) : eucs[k] = SeenTwu(k, unread)
  BY DEF SeenRight
<1> HIDE DEF left
<1> QED
  BY <1>3, <1>4, <1>5, <1>6 DEF SeenRight, left

\* What the structure is right about it never prunes wrongly.
LEMMA PairsCover ==
  ASSUME db \in Databases, TwuType, SeenRight(eucs, {}),
         NEW x \in DOMAIN twu, NEW y \in DOMAIN twu, x # y, NEW min \in Nat,
         NEW S \in SUBSET Items, {x, y} \in SUBSET S, CanPruneJoin(x, y, min)
  PROVE  Supporting(db, S) = {} \/ Utility(db, S) < min
<1> DEFINE k == {x, y}
<1>1. k \in PairsOfListed /\ k \in SUBSET Items
  BY DEF PairsOfListed, TwuType
<1>2. Supporting(db, S) \in SUBSET Supporting(db, k)
  BY SupportingTids
<1>3. CASE k \in DOMAIN eucs
  <2>1. eucs[k] < min /\ eucs[k] = SeenTwu(k, {})
    BY <1>3 DEF CanPruneJoin, SeenRight
  <2>2. Supporting(db, k) \ {} = Supporting(db, k)
    OBVIOUS
  <2>3. SeenTwu(k, {}) = Twu(db, k)
    BY <2>2 DEF SeenTwu, Twu
  <2>4. Utility(db, S) \in Nat /\ Twu(db, k) \in Nat /\ Utility(db, S) <= Twu(db, k)
    BY TwuCovers
  <2> HIDE DEF k
  <2> QED
    BY <2>1, <2>3, <2>4
<1>4. CASE k \notin DOMAIN eucs
  <2>1. Supporting(db, k) \ {} = {}
    BY <1>1, <1>4 DEF SeenRight, Seen
  <2> QED
    BY <1>2, <2>1
<1> QED
  BY <1>3, <1>4

-----------------------------------------------------------------------------
(* The invariant *)

Frames == [itemset : SUBSET Items, body : Lists, extensions : ListMaps, left : SUBSET Items]

\* What a run looks for: all itemsets that occur, or those that reach the threshold.
Wanted ==
  {S \in (SUBSET Items) \ {{}} :
     /\ Supporting(db, S) # {}
     /\ mode.topK \/ (Utility(db, S) >= mode.minUtility /\ LengthFits(S))}

EntryOf(S) == [itemset |-> S, utility |-> Utility(db, S)]

\* What a run has found so far: TKO has it in its heap until the end.
Best == IF mode.topK /\ phase # "done" THEN heap ELSE found

\* An itemset is among the best, or they are k that are no worse.
SettledIn(best, S) ==
  \/ EntryOf(S) \in best
  \/ mode.topK /\ Cardinality(best) = mode.k /\ \A e \in best : Utility(db, S) <= e.utility

\* The threshold beside a heap prunes nothing that would get into it.
HeapGuarded(best, min) ==
  /\ IsFiniteSet(best) /\ Cardinality(best) <= mode.k
  /\ min > 0 => Cardinality(best) = mode.k /\ \A e \in best : min <= e.utility

\* A threshold that a thread may prune with.
MayPruneWith(n, min) == n \in Nat /\ IF mode.topK THEN n <= min ELSE n = mode.minUtility

Given == db \in Databases /\ db \in MinedDatabases /\ mode \in Modes

Types ==
  /\ phase \in {"filter", "read", "search", "done"}
  /\ TwuType
  /\ unread \in SUBSET Tids /\ DOMAIN eucs \in SUBSET AllPairs
  /\ lists \in ListMaps /\ todo \in SUBSET DOMAIN lists
  /\ stack \in [Threads -> Seq(Frames)]
  /\ local \in [Threads -> Nat] /\ pc \in [Threads -> {"look", "expand"}]
  /\ threshold \in Nat

Phases ==
  /\ phase = "filter" => DOMAIN eucs = {} /\ unread = Tids
  /\ phase # "filter" => twu = TwuFilter(db, FilterThreshold)
  /\ phase \in {"search", "done"} =>
       unread = {} /\ lists = [x \in Listed |-> ItemList(db, twu, x)]
  /\ phase # "search" => \A w \in Threads : ~Busy(w)
  /\ phase = "done" => todo = {}

\* A thread about to visit an extension has one, and a threshold it may prune with.
Ready(s, n, min) == s # <<>> /\ s[1].left # {} /\ MayPruneWith(n, min)

ThreadsReady ==
  \A w \in Threads : pc[w] = "expand" => Ready(stack[w], local[w], threshold)

PairsRight == phase # "filter" /\ mode.algorithm.eucs /\ Ample => SeenRight(eucs, unread)

\* The lists of a frame are right, and its extensions come after its items.
FrameRight(f) ==
  /\ f.left \in SUBSET DOMAIN f.extensions /\ DOMAIN f.extensions \in SUBSET DOMAIN twu
  /\ f.itemset \in SUBSET DOMAIN twu
  /\ \A x \in f.itemset : \A y \in DOMAIN f.extensions : Before(twu, x, y)
  /\ BodyRight(f.body, f.itemset)
  /\ \A x \in DOMAIN f.extensions : f.extensions[x] = ListOf(f.itemset \cup {x}, x)

FramesRight == \A w \in Threads : \A f \in Members(stack[w]) : FrameRight(f)

\* What is found is right.
Sound == \A e \in Best : \E S \in Wanted : e = EntryOf(S)

HeapRight == mode.topK => HeapGuarded(Best, threshold)

\* The root items whose tasks have not started, as a frame.
Root(rest) == Frame({}, NoList, lists, rest)

ToCome(S) ==
  \/ LeadsTo(Root(todo), S)
  \/ \E w \in Threads : \E f \in Members(stack[w]) : LeadsTo(f, S)

\* The runs that lose nothing.
Scope ==
  /\ mode.algorithm.heap => mode.topK
  /\ mode.algorithm.eucs => Ample

\* What is looked for is settled, or a task or a frame still comes to it.
Complete ==
  Scope /\ phase \in {"search", "done"} =>
    \A S \in Wanted : SettledIn(Best, S) \/ ToCome(S)

IInv ==
  /\ Given /\ Types /\ Phases /\ ThreadsReady /\ PairsRight /\ FramesRight
  /\ Sound /\ HeapRight /\ Complete

-----------------------------------------------------------------------------
(* What is settled *)

LEMMA GivenFacts ==
  ASSUME Given
  PROVE  /\ mode.algorithm \in Algorithms /\ mode.topK \in BOOLEAN /\ mode.k \in Nat
         /\ mode.minUtility \in Nat /\ mode.minLength \in Nat /\ mode.maxLength \in Nat
         /\ mode.topK => mode.algorithm.heap
         /\ ~mode.algorithm.lengths => mode.minLength <= 1 /\ mode.maxLength >= Cardinality(Items)
BY MinerConstants DEF Given

LEMMA WantedFacts ==
  ASSUME Given, NEW S \in Wanted
  PROVE  /\ S \in SUBSET Items /\ S # {} /\ IsFiniteSet(S) /\ Supporting(db, S) # {}
         /\ Utility(db, S) \in Nat /\ Cardinality(S) <= mode.maxLength
         /\ ~mode.topK => Utility(db, S) >= mode.minUtility
<1>1. S \in SUBSET Items /\ S # {} /\ Supporting(db, S) # {} /\ db \in Databases
  BY DEF Wanted, Given
<1>2. IsFiniteSet(S) /\ Cardinality(S) <= Cardinality(Items) /\ IsFiniteSet(Items)
  BY <1>1, Constants, FS_Subset
<1>3. Utility(db, S) \in Nat
  BY <1>1, TwuCovers
<1>4. Cardinality(S) \in Nat /\ Cardinality(Items) \in Nat
  BY <1>2, FS_CardinalityType
<1>5. Cardinality(S) <= mode.maxLength
  <2>1. CASE mode.topK
    <3>1. mode.maxLength >= Cardinality(Items) /\ mode.maxLength \in Nat
      BY <2>1, GivenFacts, HeapHasNoLengths
    <3> QED
      BY <1>2, <1>4, <3>1
  <2>2. CASE ~mode.topK
    BY <2>2 DEF Wanted, LengthFits
  <2> QED
    BY <2>1, <2>2
<1>6. ~mode.topK => Utility(db, S) >= mode.minUtility
  BY DEF Wanted
<1> QED
  BY <1>1, <1>2, <1>3, <1>5, <1>6

\* What is below a threshold that a thread may prune with is settled.
LEMMA PruneSettles ==
  ASSUME Given, NEW best, NEW min \in Nat, mode.topK => HeapGuarded(best, min),
         NEW n, MayPruneWith(n, min), NEW S \in Wanted, Utility(db, S) < n,
         \A e \in best : e.utility \in Nat
  PROVE  SettledIn(best, S)
<1>1. Utility(db, S) \in Nat /\ (~mode.topK => Utility(db, S) >= mode.minUtility)
  BY WantedFacts
<1>2. mode.minUtility \in Nat /\ n \in Nat
  BY GivenFacts DEF MayPruneWith
<1>3. mode.topK /\ n <= min
  BY <1>1, <1>2 DEF MayPruneWith
<1>4. min > 0 /\ Utility(db, S) <= min
  BY <1>1, <1>2, <1>3
<1>5. Cardinality(best) = mode.k /\ \A e \in best : min <= e.utility
  BY <1>3, <1>4 DEF HeapGuarded
<1>6. \A e \in best : Utility(db, S) <= e.utility
  BY <1>1, <1>4, <1>5
<1> QED
  BY <1>3, <1>5, <1>6 DEF SettledIn

\* One more entry for the heap.
LEMMA HeapPushed ==
  ASSUME Given, mode.topK, NEW min \in Nat, min = threshold, HeapGuarded(heap, min),
         \A f \in heap : f.utility \in Nat,
         NEW e, e.utility \in Nat, NEW best \in Pushed(e)
  PROVE  /\ best \in SUBSET (heap \cup {e}) /\ \A f \in best : f.utility \in Nat
         /\ Raised(best) \in Nat /\ min <= Raised(best) /\ HeapGuarded(best, Raised(best))
         /\ \A S \in Wanted : SettledIn(heap, S) => SettledIn(best, S)
         /\ \A S \in Wanted : EntryOf(S) = e => SettledIn(best, S)
<1> DEFINE h == heap \cup {e}
<1>1. /\ IsFiniteSet(heap) /\ Cardinality(heap) \in Nat /\ Cardinality(heap) <= mode.k
      /\ IsFiniteSet(h) /\ Cardinality(h) \in Nat
      /\ Cardinality(h) = IF e \in heap THEN Cardinality(heap) ELSE Cardinality(heap) + 1
      /\ mode.k \in Nat
  BY FS_CardinalityType, FS_AddElement, GivenFacts DEF HeapGuarded
<1>2. \A f \in h : f.utility \in Nat
  OBVIOUS
\* Either nothing is given up, or one of the lowest of k + 1.
<1> DEFINE Whole == best = h /\ Cardinality(h) <= mode.k
           Popped(low) == /\ low \in h /\ (\A f \in h : low.utility <= f.utility)
                          /\ best = h \ {low} /\ Cardinality(best) = mode.k
                          /\ IsFiniteSet(best) /\ Cardinality(heap) = mode.k /\ e \notin heap
<1>3. Whole \/ \E low : Popped(low)
  <2>1. CASE Cardinality(h) > mode.k
    <3>1. PICK low \in Lowest(h) : best = h \ {low}
      BY <2>1 DEF Pushed
    <3>2. low \in h /\ \A f \in h : low.utility <= f.utility
      BY <3>1 DEF Lowest
    <3>3. Cardinality(h) = mode.k + 1 /\ Cardinality(heap) = mode.k /\ e \notin heap
      BY <1>1, <2>1
    <3> HIDE DEF h
    <3>4. IsFiniteSet(best) /\ Cardinality(best) = Cardinality(h) - 1
      BY <1>1, <3>1, <3>2, FS_RemoveElement
    <3>5. Cardinality(best) = mode.k
      BY <1>1, <3>3, <3>4
    <3> QED
      BY <3>1, <3>2, <3>3, <3>4, <3>5
  <2>2. CASE ~(Cardinality(h) > mode.k)
    <3>1. best \in {h}
      BY <2>2 DEF Pushed
    <3> QED
      BY <1>1, <2>2, <3>1
  <2> QED
    BY <2>1, <2>2
<1>4. best \in SUBSET h /\ \A f \in best : f.utility \in Nat
  BY <1>2, <1>3
<1>5. IsFiniteSet(best) /\ Cardinality(best) <= mode.k
  BY <1>1, <1>3
<1>6. min > 0 => Cardinality(best) = mode.k /\ \A f \in best : min <= f.utility
  <2>1. SUFFICES ASSUME min > 0
                 PROVE  Cardinality(best) = mode.k /\ \A f \in best : min <= f.utility
    OBVIOUS
  <2>2. Cardinality(heap) = mode.k /\ \A f \in heap : min <= f.utility
    BY <2>1 DEF HeapGuarded
  <2>3. CASE Whole
    <3>1. e \in heap
      BY <1>1, <2>2, <2>3
    <3>2. h = heap
      BY <3>1
    <3> QED
      BY <2>2, <2>3, <3>2
  <2>4. ASSUME NEW low, Popped(low)
        PROVE  Cardinality(best) = mode.k /\ \A f \in best : min <= f.utility
    <3>1. ASSUME NEW f \in best
          PROVE  min <= f.utility
      <4>1. CASE f \in heap
        BY <2>2, <4>1
      <4>2. CASE f = e
        <5>1. low \in heap /\ low.utility <= e.utility
          BY <2>4, <4>2, <3>1
        <5>2. min <= low.utility /\ low.utility \in Nat
          BY <2>2, <5>1
        <5> QED
          BY <4>2, <5>1, <5>2
      <4> QED
        BY <3>1, <1>4, <4>1, <4>2
    <3> QED
      BY <2>4, <3>1
  <2> QED
    BY <1>3, <2>3, <2>4
<1>7. Raised(best) \in Nat /\ min <= Raised(best) /\ HeapGuarded(best, Raised(best))
  <2>1. CASE best = {} \/ Cardinality(best) # mode.k
    <3>1. Raised(best) = min
      BY <2>1 DEF Raised
    <3> QED
      BY <1>5, <1>6, <3>1 DEF HeapGuarded
  <2>2. CASE best # {} /\ Cardinality(best) = mode.k
    <3>1. \E f \in best : \A g \in best : f.utility <= g.utility
      <4> DEFINE values == {f.utility : f \in best}
      <4>1. values \in SUBSET Nat /\ values # {}
        BY <1>4, <2>2
      <4>2. PICK n \in values : \A m \in values : n <= m
        <5> HIDE DEF values
        <5> QED
          BY <4>1, LeastNumber
      <4> QED
        BY <4>2
    <3> DEFINE low == CHOOSE f \in Lowest(best) : TRUE
    <3>2. low \in Lowest(best)
      <4>1. \E f : f \in Lowest(best)
        BY <3>1 DEF Lowest
      <4> QED
        BY <4>1
    <3>3. low \in best /\ \A f \in best : low.utility <= f.utility
      BY <3>2 DEF Lowest
    <3>4. Raised(best) = IF low.utility > min THEN low.utility ELSE min
      BY <2>2 DEF Raised
    <3> HIDE DEF low
    <3>5. Raised(best) \in Nat /\ min <= Raised(best)
      BY <1>4, <3>3, <3>4
    <3>6. Raised(best) > 0 => \A f \in best : Raised(best) <= f.utility
      BY <1>6, <3>3, <3>4
    <3> QED
      BY <1>5, <2>2, <3>5, <3>6 DEF HeapGuarded
  <2> QED
    BY <2>1, <2>2
<1>8. ASSUME NEW S \in Wanted, SettledIn(heap, S)
      PROVE  SettledIn(best, S)
  <2>1. Utility(db, S) \in Nat
    BY WantedFacts
  <2>2. CASE EntryOf(S) \in heap
    <3>1. CASE Whole
      BY <2>2, <3>1 DEF SettledIn
    <3>2. ASSUME NEW low, Popped(low)
          PROVE  SettledIn(best, S)
      <4>1. EntryOf(S) \in best \/ EntryOf(S) = low
        BY <2>2, <3>2
      <4>2. EntryOf(S).utility = Utility(db, S)
        BY DEF EntryOf
      <4> QED
        BY <3>2, <4>1, <4>2 DEF SettledIn
    <3> QED
      BY <1>3, <3>1, <3>2
  <2>3. CASE Cardinality(heap) = mode.k /\ \A f \in heap : Utility(db, S) <= f.utility
    <3>1. CASE Whole
      <4>1. e \in heap
        BY <1>1, <2>3, <3>1
      <4>2. h = heap
        BY <4>1
      <4> QED
        BY <2>3, <3>1, <4>2 DEF SettledIn
    <3>2. ASSUME NEW low, Popped(low)
          PROVE  SettledIn(best, S)
      <4>1. ASSUME NEW f \in best
            PROVE  Utility(db, S) <= f.utility
        <5>1. CASE f \in heap
          BY <2>3, <5>1
        <5>2. CASE f = e
          <6>1. low \in heap /\ low.utility <= e.utility
            BY <3>2, <4>1, <5>2
          <6>2. Utility(db, S) <= low.utility /\ low.utility \in Nat
            BY <2>3, <6>1
          <6> QED
            BY <2>1, <5>2, <6>1, <6>2
        <5> QED
          BY <1>4, <4>1, <5>1, <5>2
      <4> QED
        BY <3>2, <4>1 DEF SettledIn
    <3> QED
      BY <1>3, <3>1, <3>2
  <2> QED
    BY <1>8, <2>2, <2>3 DEF SettledIn
<1>9. ASSUME NEW S \in Wanted, EntryOf(S) = e
      PROVE  SettledIn(best, S)
  <2>1. CASE Whole
    BY <1>9, <2>1 DEF SettledIn
  <2>2. ASSUME NEW low, Popped(low)
        PROVE  SettledIn(best, S)
    <3>1. e \in best \/ e = low
      BY <2>2
    <3>2. e.utility = Utility(db, S)
      BY <1>9 DEF EntryOf
    <3> QED
      BY <1>9, <2>2, <3>1, <3>2 DEF SettledIn
  <2> QED
    BY <1>3, <2>1, <2>2
<1> QED
  BY <1>4, <1>7, <1>8, <1>9

-----------------------------------------------------------------------------
(* Steps of the search *)

\* What a step leaves as it is, because it does not change the database and the order.
LEMMA Kept ==
  ASSUME UNCHANGED <<db, mode>>
  PROVE  /\ Given => Given'
         /\ Wanted' = Wanted /\ (\A S : EntryOf(S)' = EntryOf(S)) /\ Scope' = Scope
         /\ \A best, S : SettledIn(best, S)' <=> SettledIn(best, S)
         /\ \A s, n, min : Ready(s, n, min)' <=> Ready(s, n, min)
         /\ twu' = twu =>
              /\ \A S, x : ListOf(S, x)' = ListOf(S, x)
              /\ \A f : FrameRight(f)' <=> FrameRight(f)
              /\ \A f, S : LeadsTo(f, S)' <=> LeadsTo(f, S)
<1>1. Given => Given'
  BY DEF Given
<1>2. /\ \A S : Supporting(db, S)' = Supporting(db, S) /\ Utility(db, S)' = Utility(db, S)
      /\ \A S : LengthFits(S)' <=> LengthFits(S)
  BY DEF Supporting, HasAll, Utility, TidSum, ItemSum, LengthFits
<1>3. Wanted' = Wanted
  BY <1>2 DEF Wanted
<1>4. \A S : EntryOf(S)' = EntryOf(S)
  BY <1>2 DEF EntryOf
<1>5. Scope' = Scope
  BY DEF Scope, Ample
<1>6. \A best, S : SettledIn(best, S)' <=> SettledIn(best, S)
  BY <1>2, <1>4 DEF SettledIn
<1>7. \A s, n, min : Ready(s, n, min)' <=> Ready(s, n, min)
  BY DEF Ready, MayPruneWith
<1>8. ASSUME twu' = twu
      PROVE  /\ \A S, x : ListOf(S, x)' = ListOf(S, x)
             /\ \A f : FrameRight(f)' <=> FrameRight(f)
             /\ \A f, S : LeadsTo(f, S)' <=> LeadsTo(f, S)
  <2>1. \A S, x : ListOf(S, x)' = ListOf(S, x)
    BY <1>8 DEF ListOf, Supporting, HasAll, ItemSum, Before
  <2>2. \A body, S : BodyRight(body, S)' <=> BodyRight(body, S)
    BY <1>8 DEF BodyRight, Supporting, HasAll, ItemSum
  <2>3. \A f : FrameRight(f)' <=> FrameRight(f)
    BY <1>8, <2>1, <2>2 DEF FrameRight
  <2>4. \A f, S : LeadsTo(f, S)' <=> LeadsTo(f, S)
    BY <1>8 DEF LeadsTo
  <2> QED
    BY <2>1, <2>3, <2>4
<1> QED
  BY <1>1, <1>3, <1>4, <1>5, <1>6, <1>7, <1>8

\* A step of a thread keeps the invariant if its new stack has right frames and leads to
\* what the old one led to and is not settled.
LEMMA SearchStep ==
  ASSUME IInv, phase = "search", NEW w \in Threads, NEW s \in Seq(Frames),
         NEW n \in Nat, NEW p \in {"look", "expand"},
         UNCHANGED <<db, mode, phase, twu, unread, eucs, lists>>,
         stack' = [stack EXCEPT ![w] = s],
         local' = [local EXCEPT ![w] = n], pc' = [pc EXCEPT ![w] = p],
         p = "expand" => Ready(s, n, threshold'),
         todo' \in SUBSET todo, threshold' \in Nat, threshold <= threshold',
         Sound', HeapRight',
         \A S \in Wanted : SettledIn(Best, S) => SettledIn(Best', S),
         \A f \in Members(s) : FrameRight(f),
         Scope => \A S \in Wanted :
           \/ LeadsTo(Root(todo), S) /\ ~LeadsTo(Root(todo'), S)
           \/ \E f \in Members(stack[w]) : LeadsTo(f, S)
           => SettledIn(Best', S) \/ \E f \in Members(s) : LeadsTo(f, S)
  PROVE  IInv'
<1> HIDE DEF Frames
<1>1. /\ Wanted' = Wanted /\ Scope' = Scope /\ Given'
      /\ \A best, S : SettledIn(best, S)' <=> SettledIn(best, S)
      /\ \A z, m, min : Ready(z, m, min)' <=> Ready(z, m, min)
      /\ \A f : FrameRight(f)' <=> FrameRight(f)
      /\ \A f, S : LeadsTo(f, S)' <=> LeadsTo(f, S)
  BY Kept DEF IInv
<1>2. /\ stack \in [Threads -> Seq(Frames)] /\ local \in [Threads -> Nat]
      /\ pc \in [Threads -> {"look", "expand"}] /\ threshold \in Nat
  BY DEF IInv, Types
<1>3. /\ stack'[w] = s /\ local'[w] = n /\ pc'[w] = p
      /\ \A v \in Threads \ {w} :
           stack'[v] = stack[v] /\ local'[v] = local[v] /\ pc'[v] = pc[v]
  BY <1>2
<1>4. Types'
  <2>1. stack' \in [Threads -> Seq(Frames)] /\ local' \in [Threads -> Nat]
        /\ pc' \in [Threads -> {"look", "expand"}]
    BY <1>2
  <2>2. TwuType /\ TwuType'
    BY DEF IInv, Types, TwuType
  <2> QED
    BY <2>1, <2>2 DEF IInv, Types
<1>5. Phases'
  <2>1. FilterThreshold' = FilterThreshold
    BY DEF FilterThreshold
  <2>2. TwuFilter(db, FilterThreshold)' = TwuFilter(db, FilterThreshold)
    BY <2>1 DEF TwuFilter, Supporting, HasAll, Twu, TidSum, TransactionUtility, ItemSum
  <2>3. [x \in Listed |-> ItemList(db, twu, x)]' = [x \in Listed |-> ItemList(db, twu, x)]
    BY <2>1
    DEF Listed, ItemList, Supporting, HasAll, ItemSum, Before, SumIutils, SumRutils, TidSum
  <2> QED
    BY <2>2, <2>3 DEF IInv, Phases
<1>6. ThreadsReady'
  <2>1. ASSUME NEW v \in Threads, pc'[v] = "expand"
        PROVE  Ready(stack'[v], local'[v], threshold')
    <3>1. CASE v = w
      BY <1>3, <2>1, <3>1
    <3>2. CASE v # w
      <4>1. Ready(stack[v], local[v], threshold)
        BY <1>3, <2>1, <3>2 DEF IInv, ThreadsReady
      <4>2. stack'[v] = stack[v] /\ local'[v] = local[v]
        BY <1>3, <3>2
      <4>3. MayPruneWith(local[v], threshold')
        BY <1>2, <4>1 DEF Ready, MayPruneWith
      <4> QED
        BY <4>1, <4>2, <4>3 DEF Ready
    <3> QED
      BY <3>1, <3>2
  <2> QED
    BY <1>1, <2>1 DEF ThreadsReady
<1>7. PairsRight'
  <2>1. SeenRight(eucs, unread)' <=> SeenRight(eucs, unread)
    BY DEF SeenRight, Seen, SeenTwu, PairsOfListed, Supporting, HasAll, TidSum,
           TransactionUtility, ItemSum
  <2> QED
    BY <2>1 DEF IInv, PairsRight, Ample
<1>8. FramesRight'
  <2>1. ASSUME NEW v \in Threads, NEW f \in Members(stack'[v])
        PROVE  FrameRight(f)
    BY <1>3, <2>1 DEF IInv, FramesRight
  <2> QED
    BY <1>1, <2>1 DEF FramesRight
<1>9. Complete'
  <2>1. SUFFICES ASSUME Scope, NEW S \in Wanted
                 PROVE  SettledIn(Best', S) \/ ToCome(S)'
    BY <1>1 DEF Complete
  <2>2. SettledIn(Best, S) \/ ToCome(S)
    BY <2>1 DEF IInv, Complete
  <2>3. Root(todo') = Root(todo)'
    BY DEF Root
  <2>4. CASE LeadsTo(Root(todo), S) /\ LeadsTo(Root(todo'), S)
    BY <1>1, <2>3, <2>4 DEF ToCome
  <2>5. CASE LeadsTo(Root(todo), S) /\ ~LeadsTo(Root(todo'), S)
    <3>1. SettledIn(Best', S) \/ \E f \in Members(s) : LeadsTo(f, S)
      BY <2>1, <2>5
    <3> QED
      BY <1>1, <1>3, <3>1 DEF ToCome
  <2>6. CASE \E v \in Threads : \E f \in Members(stack[v]) : LeadsTo(f, S)
    <3>1. PICK v \in Threads : \E f \in Members(stack[v]) : LeadsTo(f, S)
      BY <2>6
    <3>2. CASE v # w
      <4>1. stack'[v] = stack[v]
        BY <1>3, <3>2
      <4>2. \E f \in Members(stack'[v]) : LeadsTo(f, S)
        BY <3>1, <4>1
      <4> QED
        BY <1>1, <4>2 DEF ToCome
    <3>3. CASE v = w
      <4>1. SettledIn(Best', S) \/ \E f \in Members(s) : LeadsTo(f, S)
        BY <2>1, <3>1, <3>3
      <4> QED
        BY <1>1, <1>3, <4>1 DEF ToCome
    <3> QED
      BY <3>2, <3>3
  <2>7. CASE SettledIn(Best, S)
    BY <2>7
  <2> QED
    BY <2>2, <2>4, <2>5, <2>6, <2>7 DEF ToCome
<1> QED
  BY <1>1, <1>4, <1>5, <1>6, <1>7, <1>8, <1>9 DEF IInv

\* The top frame of a thread at work.
LEMMA TopFrame ==
  ASSUME IInv, NEW w \in Threads, Busy(w)
  PROVE  /\ phase = "search" /\ stack[w] \in Seq(Frames) /\ stack[w] # <<>>
         /\ Top(w) \in Frames /\ Top(w) = stack[w][1] /\ Tail(stack[w]) \in Seq(Frames)
         /\ Members(stack[w]) = {Top(w)} \cup Members(Tail(stack[w]))
         /\ FrameRight(Top(w)) /\ \A f \in Members(Tail(stack[w])) : FrameRight(f)
         /\ \A f \in Frames : [stack[w] EXCEPT ![1] = f] = <<f>> \o Tail(stack[w])
<1> HIDE DEF Frames
<1>1. phase = "search"
  BY DEF IInv, Phases
<1>2. stack[w] \in Seq(Frames) /\ stack[w] # <<>>
  BY DEF IInv, Types, Busy
<1>3. /\ stack[w][1] \in Frames /\ Tail(stack[w]) \in Seq(Frames)
      /\ Members(stack[w]) = {stack[w][1]} \cup Members(Tail(stack[w]))
      /\ \A f \in Frames : [stack[w] EXCEPT ![1] = f] = <<f>> \o Tail(stack[w])
  BY <1>2, TopOfStack
<1>4. \A f \in Members(stack[w]) : FrameRight(f)
  BY DEF IInv, FramesRight
<1> QED
  BY <1>1, <1>2, <1>3, <1>4 DEF Top

\* An itemset that the search comes to through an extension.
Through(f, x, S) ==
  /\ f.itemset \in SUBSET S /\ S \ f.itemset \in SUBSET DOMAIN f.extensions
  /\ x \in S \ f.itemset
  /\ \A y \in S \ (f.itemset \cup {x}) : Before(twu, x, y)

\* A frame that is done with an extension.
Less(f, x) == [f EXCEPT !.left = @ \ {x}]

LEMMA LessFrame ==
  ASSUME NEW f \in Frames, FrameRight(f), NEW x
  PROVE  /\ Less(f, x) \in Frames /\ FrameRight(Less(f, x))
         /\ Less(f, x).left = f.left \ {x}
         /\ \A S : LeadsTo(f, S) => LeadsTo(Less(f, x), S) \/ Through(f, x, S)
<1> DEFINE g == Less(f, x)
<1>1. /\ g \in Frames /\ g.itemset = f.itemset /\ g.body = f.body
      /\ g.extensions = f.extensions /\ g.left = f.left \ {x}
  BY DEF Frames, Less
<1> HIDE DEF g, Frames
<1>2. FrameRight(g)
  BY <1>1 DEF FrameRight
<1>3. ASSUME NEW S, LeadsTo(f, S)
      PROVE  LeadsTo(g, S) \/ Through(f, x, S)
  <2>1. PICK y \in f.left \cap (S \ f.itemset) :
          \A z \in S \ (f.itemset \cup {y}) : Before(twu, y, z)
    BY <1>3 DEF LeadsTo
  <2>2. f.itemset \subseteq S /\ S \ f.itemset \subseteq DOMAIN f.extensions
    BY <1>3 DEF LeadsTo
  <2>3. CASE y = x
    BY <2>1, <2>2, <2>3 DEF Through
  <2>4. CASE y # x
    <3>1. y \in g.left \cap (S \ g.itemset)
      BY <1>1, <2>1, <2>4
    <3> QED
      BY <1>1, <2>1, <2>2, <3>1 DEF LeadsTo
  <2> QED
    BY <2>3, <2>4
<1> QED
  BY <1>1, <1>2, <1>3 DEF g

\* The items of a frame and of its extensions.
LEMMA FrameItems ==
  ASSUME TwuType, NEW f, FrameRight(f), NEW x \in DOMAIN f.extensions
  PROVE  /\ f.itemset \in SUBSET Items /\ x \in Items \ f.itemset /\ x \in DOMAIN twu
         /\ f.itemset \cup {x} \in SUBSET Items
         /\ f.extensions[x] = ListOf(f.itemset \cup {x}, x)
         /\ \A y \in DOMAIN f.extensions : Before(twu, x, y) => y \in Items \ (f.itemset \cup {x})
<1>1. /\ DOMAIN twu \in SUBSET Items /\ f.itemset \in SUBSET DOMAIN twu
      /\ DOMAIN f.extensions \in SUBSET DOMAIN twu
      /\ \A y \in f.itemset : \A z \in DOMAIN f.extensions : Before(twu, y, z)
      /\ f.extensions[x] = ListOf(f.itemset \cup {x}, x)
  BY DEF FrameRight, TwuType
<1>2. \A y \in DOMAIN twu : ~Before(twu, y, y)
  BY BeforeOrder
<1>3. \A y \in DOMAIN f.extensions : y \notin f.itemset
  BY <1>1, <1>2
<1> QED
  BY <1>1, <1>2, <1>3

\* What a list says of the itemset it belongs to, and of those below.
LEMMA ListSays ==
  ASSUME Given, TwuType, NEW f, FrameRight(f), NEW x \in DOMAIN f.extensions,
         NEW S \in Wanted, Through(f, x, S)
  PROVE  /\ DOMAIN f.extensions[x] # {}
         /\ SumIutils(f.extensions[x]) \in Nat /\ SumRutils(f.extensions[x]) \in Nat
         /\ Utility(db, S) <= SumIutils(f.extensions[x]) + SumRutils(f.extensions[x])
         /\ S = f.itemset \cup {x} => SumIutils(f.extensions[x]) = Utility(db, S)
<1> DEFINE T == f.itemset \cup {x}
<1>1. /\ T \in SUBSET Items /\ f.extensions[x] = ListOf(T, x) /\ x \in DOMAIN twu
      /\ DOMAIN f.extensions \in SUBSET DOMAIN twu
  BY FrameItems DEF FrameRight
<1>2. S \in SUBSET Items /\ Supporting(db, S) # {} /\ db \in Databases
  BY WantedFacts DEF Given
<1>3. T \in SUBSET S /\ S \ T \in SUBSET After(x)
  BY <1>1 DEF Through, After
<1> HIDE DEF T
<1>4. /\ SumIutils(ListOf(T, x)) = Utility(db, T) /\ DOMAIN ListOf(T, x) = Supporting(db, T)
      /\ SumIutils(ListOf(T, x)) \in Nat /\ SumRutils(ListOf(T, x)) \in Nat
  BY <1>1, <1>2, ListSums, ListOfType
<1>5. Supporting(db, T) # {}
  BY <1>2, <1>3, SupportingTids
<1>6. Utility(db, S) <= SumIutils(ListOf(T, x)) + SumRutils(ListOf(T, x))
  BY <1>1, <1>2, <1>3, BoundCovers
<1> QED
  BY <1>1, <1>4, <1>5, <1>6 DEF T

LEMMA CurrentLeft ==
  ASSUME TwuType, NEW w, Top(w).left \in SUBSET DOMAIN twu, Top(w).left # {}
  PROVE  Current(w) \in Top(w).left
<1>1. \E x \in Top(w).left : \A y \in Top(w).left \ {x} : Before(twu, x, y)
  BY FirstExists
<1> QED
  BY <1>1 DEF Current

\* The best of a search are entries of itemsets.
LEMMA BestNumbers ==
  ASSUME Given, Sound
  PROVE  \A e \in Best : e.utility \in Nat
<1>1. ASSUME NEW e \in Best
      PROVE  e.utility \in Nat
  <2>1. PICK S \in Wanted : e = EntryOf(S)
    BY DEF Sound
  <2> QED
    BY <2>1, WantedFacts DEF EntryOf
<1> QED
  BY <1>1

LEMMA BackStep ==
  ASSUME IInv, NEW w \in Threads, Back(w)
  PROVE  IInv'
<1> HIDE DEF Frames
<1>1. /\ Busy(w) /\ pc[w] = "look" /\ Top(w).left = {}
      /\ stack' = [stack EXCEPT ![w] = Tail(stack[w])]
      /\ UNCHANGED <<db, mode, phase, twu, unread, eucs, lists, todo, local, pc, heap,
                     threshold, found>>
  BY DEF Back
<1> DEFINE s == Tail(stack[w])
<1>2. /\ phase = "search" /\ s \in Seq(Frames)
      /\ Members(stack[w]) = {Top(w)} \cup Members(s)
      /\ \A f \in Members(s) : FrameRight(f)
  BY <1>1, TopFrame
<1>3. /\ local \in [Threads -> Nat] /\ pc \in [Threads -> {"look", "expand"}] /\ threshold \in Nat
  BY DEF IInv, Types
<1>4. /\ local' = [local EXCEPT ![w] = local[w]] /\ pc' = [pc EXCEPT ![w] = "look"]
      /\ local[w] \in Nat /\ threshold' \in Nat /\ threshold <= threshold'
  BY <1>1, <1>3
<1>5. Best' = Best /\ Sound' /\ HeapRight'
  <2>1. Best' = Best
    BY <1>1 DEF Best
  <2> QED
    BY <1>1, <2>1, Kept DEF IInv, Sound, HeapRight, HeapGuarded
<1>6. \A S : ~LeadsTo(Top(w), S)
  BY <1>1 DEF LeadsTo
<1>7. \A S : (\E f \in Members(stack[w]) : LeadsTo(f, S)) => \E f \in Members(s) : LeadsTo(f, S)
  BY <1>2, <1>6
<1> HIDE DEF s
<1>8. Root(todo') = Root(todo) /\ stack' = [stack EXCEPT ![w] = s]
  BY <1>1 DEF s
<1> QED
  BY <1>1, <1>2, <1>4, <1>5, <1>7, <1>8, SearchStep

LEMMA LookStep ==
  ASSUME IInv, NEW w \in Threads, Look(w)
  PROVE  IInv'
<1> HIDE DEF Frames
<1> DEFINE f == Top(w)
           x == Current(w)
           min == IF mode.topK THEN threshold ELSE mode.minUtility
           list == f.extensions[x]
<1>1. /\ Busy(w) /\ pc[w] = "look" /\ f.left # {}
      /\ UNCHANGED <<db, mode, phase, twu, unread, eucs, lists, todo, heap, threshold, found>>
  BY DEF Look
<1>2. /\ phase = "search" /\ stack[w] \in Seq(Frames) /\ stack[w] # <<>>
      /\ f \in Frames /\ f = stack[w][1] /\ Tail(stack[w]) \in Seq(Frames)
      /\ Members(stack[w]) = {f} \cup Members(Tail(stack[w]))
      /\ FrameRight(f) /\ \A g \in Members(Tail(stack[w])) : FrameRight(g)
      /\ \A g \in Frames : [stack[w] EXCEPT ![1] = g] = <<g>> \o Tail(stack[w])
  BY <1>1, TopFrame
<1>3. /\ local \in [Threads -> Nat] /\ pc \in [Threads -> {"look", "expand"}] /\ threshold \in Nat
      /\ TwuType /\ Given /\ Sound /\ stack \in [Threads -> Seq(Frames)]
  BY DEF IInv, Types
<1>4. min \in Nat /\ MayPruneWith(min, threshold) /\ threshold <= threshold' /\ threshold' = threshold
  BY <1>1, <1>3, GivenFacts DEF MayPruneWith
<1>5. x \in f.left /\ x \in DOMAIN f.extensions
  <2>1. f.left \in SUBSET DOMAIN f.extensions /\ f.left \in SUBSET DOMAIN twu
    BY <1>2 DEF FrameRight
  <2> QED
    BY <1>1, <1>3, <2>1, CurrentLeft
<1>6. Best' = Best /\ Sound' /\ HeapRight'
  <2>1. Best' = Best
    BY <1>1 DEF Best
  <2> QED
    BY <1>1, <2>1, Kept DEF IInv, Sound, HeapRight, HeapGuarded
<1>7. Root(todo') = Root(todo)
  BY <1>1 DEF Root
<1>8. CASE CanPrune(list, min)
  <2> DEFINE g == Less(f, x)
             s == <<g>> \o Tail(stack[w])
  <2>1. /\ stack' = [stack EXCEPT ![w][1].left = @ \ {x}]
        /\ UNCHANGED <<local, pc>>
    BY <1>8 DEF Look
  <2>2. /\ g \in Frames /\ FrameRight(g)
        /\ \A S : LeadsTo(f, S) => LeadsTo(g, S) \/ Through(f, x, S)
    BY <1>2, LessFrame
  <2>3. stack' = [stack EXCEPT ![w] = s]
    <3>1. stack' = [stack EXCEPT ![w] = [stack[w] EXCEPT ![1] = [stack[w][1] EXCEPT !.left = @ \ {x}]]]
      BY <2>1
    <3>2. [stack[w] EXCEPT ![1] = g] = s
      BY <1>2, <2>2
    <3>3. [stack[w][1] EXCEPT !.left = @ \ {x}] = g
      BY <1>2 DEF Less
    <3> QED
      BY <3>1, <3>2, <3>3, Zenon
  <2> HIDE DEF g
  <2>4. s \in Seq(Frames) /\ Members(s) = {g} \cup Members(Tail(stack[w]))
    <3> DEFINE t == Tail(stack[w])
    <3>1. t \in Seq(Frames) /\ g \in Frames
      BY <1>2, <2>2
    <3> HIDE DEF t
    <3>2. <<g>> \o t \in Seq(Frames) /\ Members(<<g>> \o t) = {g} \cup Members(t)
      BY <3>1, OnStack
    <3> QED
      BY <3>2 DEF t
  <2>5. ASSUME NEW S \in Wanted, Through(f, x, S)
        PROVE  SettledIn(Best, S)
    <3>1. /\ DOMAIN list # {} /\ SumIutils(list) \in Nat /\ SumRutils(list) \in Nat
          /\ Utility(db, S) <= SumIutils(list) + SumRutils(list)
      BY <1>2, <1>3, <1>5, <2>5, ListSays
    <3>2. SumIutils(list) + SumRutils(list) < min
      BY <1>8, <3>1 DEF CanPrune
    <3>3. Utility(db, S) \in Nat
      BY <1>3, WantedFacts
    <3>4. Utility(db, S) < min
      BY <1>4, <3>1, <3>2, <3>3
    <3>5. mode.topK => HeapGuarded(Best, threshold)
      BY DEF IInv, HeapRight
    <3>6. \A e \in Best : e.utility \in Nat
      BY <1>3, BestNumbers
    <3> HIDE DEF min
    <3> QED
      BY <1>3, <1>4, <3>4, <3>5, <3>6, PruneSettles
  <2>6. \A S \in Wanted : (\E h \in Members(stack[w]) : LeadsTo(h, S)) =>
          SettledIn(Best, S) \/ \E h \in Members(s) : LeadsTo(h, S)
    BY <1>2, <2>2, <2>4, <2>5
  <2>7. \A h \in Members(s) : FrameRight(h)
    BY <1>2, <2>2, <2>4
  <2>8. /\ local' = [local EXCEPT ![w] = local[w]] /\ pc' = [pc EXCEPT ![w] = "look"]
        /\ local[w] \in Nat
    BY <1>1, <1>3, <2>1
  <2> HIDE DEF s, f, min
  <2> QED
    BY <1>1, <1>2, <1>3, <1>4, <1>6, <1>7, <2>3, <2>4, <2>6, <2>7, <2>8, SearchStep
<1>9. CASE ~CanPrune(list, min)
  <2>1. /\ local' = [local EXCEPT ![w] = min] /\ pc' = [pc EXCEPT ![w] = "expand"]
        /\ UNCHANGED stack
    BY <1>9 DEF Look
  <2> DEFINE s == stack[w]
  <2>2. stack' = [stack EXCEPT ![w] = s]
    BY <1>3, <2>1
  <2>3. Ready(s, min, threshold')
    BY <1>1, <1>2, <1>4 DEF Ready
  <2>4. \A h \in Members(s) : FrameRight(h)
    BY <1>2
  <2> HIDE DEF f, min, s
  <2>5. s \in Seq(Frames) /\ \A S : (\E h \in Members(stack[w]) : LeadsTo(h, S)) => \E h \in Members(s) : LeadsTo(h, S)
    BY <1>2 DEF s
  <2> QED
    BY <1>1, <1>2, <1>3, <1>4, <1>6, <1>7, <2>1, <2>2, <2>3, <2>4, <2>5, SearchStep
<1> QED
  BY <1>8, <1>9

LEMMA FrameIs ==
  ASSUME NEW S \in SUBSET Items, NEW body \in Lists, NEW extensions \in ListMaps,
         NEW left \in SUBSET Items
  PROVE  /\ Frame(S, body, extensions, left) \in Frames
         /\ Frame(S, body, extensions, left).itemset = S
         /\ Frame(S, body, extensions, left).body = body
         /\ Frame(S, body, extensions, left).extensions = extensions
         /\ Frame(S, body, extensions, left).left = left
BY DEF Frame, Frames

LEMMA NoListType == NoList \in Lists /\ DOMAIN NoList = {}
<1>1. NoList \in [{} -> ListEntry] /\ {} \in SUBSET Tids
  BY DEF NoList
<1> QED
  BY <1>1 DEF Lists

\* The frame of the root items.
LEMMA RootFrame ==
  ASSUME IInv, phase = "search", NEW rest \in SUBSET DOMAIN lists
  PROVE  /\ Root(rest) \in Frames /\ FrameRight(Root(rest))
         /\ \A S : LeadsTo(Root(rest), S) <=>
              /\ S \subseteq DOMAIN lists
              /\ \E x \in rest \cap S : \A y \in S \ {x} : Before(twu, x, y)
<1>1. /\ db \in Databases /\ TwuType /\ lists \in ListMaps
      /\ lists = [x \in Listed |-> ItemList(db, twu, x)]
  BY DEF IInv, Given, Types, Phases
<1>2. DOMAIN lists \in SUBSET DOMAIN twu /\ DOMAIN twu \in SUBSET Items
  BY <1>1 DEF Listed, TwuType
<1> DEFINE f == Root(rest)
<1>3. /\ f \in Frames /\ f.itemset = {} /\ f.body = NoList /\ f.extensions = lists /\ f.left = rest
  <2>1. {} \in SUBSET Items /\ rest \in SUBSET Items
    BY <1>2
  <2> QED
    BY <1>1, <2>1, NoListType, FrameIs DEF Root
<1> HIDE DEF f, Frames
<1>4. BodyRight(NoList, {})
  BY NoListType DEF BodyRight
<1>5. ASSUME NEW x \in DOMAIN lists
      PROVE  lists[x] = ListOf({} \cup {x}, x)
  <2>1. x \in Listed /\ x \in Items
    BY <1>1, <1>2
  <2>2. lists[x] = ItemList(db, twu, x)
    BY <1>1, <2>1
  <2>3. ItemList(db, twu, x) = ListOf({x}, x) /\ {} \cup {x} = {x}
    BY <1>1, <2>1, ItemListOf
  <2> QED
    BY <2>2, <2>3, Zenon
<1>6. FrameRight(f)
  BY <1>2, <1>3, <1>4, <1>5 DEF FrameRight
<1>7. \A S : LeadsTo(f, S) <=>
        /\ S \subseteq DOMAIN lists
        /\ \E x \in rest \cap S : \A y \in S \ {x} : Before(twu, x, y)
  BY <1>3 DEF LeadsTo
<1> QED
  BY <1>3, <1>6, <1>7 DEF f

LEMMA TakeStep ==
  ASSUME IInv, NEW w \in Threads, NEW x \in Items, Take(w, x)
  PROVE  IInv'
<1> HIDE DEF Frames
<1>1. /\ phase = "search" /\ ~Busy(w) /\ x \in todo /\ todo' = todo \ {x}
      /\ stack' = [stack EXCEPT ![w] = <<Root({x})>>]
      /\ UNCHANGED <<db, mode, phase, twu, unread, eucs, lists, local, pc, heap, threshold, found>>
  BY DEF Take, Root
<1> DEFINE f == Root({x})
           s == <<f>>
<1>2. /\ local \in [Threads -> Nat] /\ pc \in [Threads -> {"look", "expand"}] /\ threshold \in Nat
      /\ todo \in SUBSET DOMAIN lists
  BY DEF IInv, Types
<1>3. /\ local' = [local EXCEPT ![w] = local[w]] /\ pc' = [pc EXCEPT ![w] = "look"]
      /\ local[w] \in Nat /\ threshold' \in Nat /\ threshold <= threshold'
  <2>1. pc[w] # "expand"
    BY <1>1 DEF IInv, ThreadsReady, Ready, Busy
  <2>2. pc[w] = "look"
    BY <1>2, <2>1
  <2> QED
    BY <1>1, <1>2, <2>2
<1>4. Best' = Best /\ Sound' /\ HeapRight'
  <2>1. Best' = Best
    BY <1>1 DEF Best
  <2> QED
    BY <1>1, <2>1, Kept DEF IInv, Sound, HeapRight, HeapGuarded
<1>5. /\ f \in Frames /\ FrameRight(f)
      /\ \A S : LeadsTo(f, S) <=> S \subseteq DOMAIN lists /\ x \in S /\ \A y \in S \ {x} : Before(twu, x, y)
  <2>1. {x} \in SUBSET DOMAIN lists
    BY <1>1, <1>2
  <2>2. /\ f \in Frames /\ FrameRight(f)
        /\ \A S : LeadsTo(f, S) <=>
             /\ S \subseteq DOMAIN lists
             /\ \E z \in {x} \cap S : \A y \in S \ {z} : Before(twu, z, y)
    BY <1>1, <2>1, RootFrame
  <2> HIDE DEF f
  <2> QED
    BY <2>2
<1>6. /\ todo' \in SUBSET todo /\ todo' \in SUBSET DOMAIN lists
  BY <1>1, <1>2
<1>7. ASSUME NEW S, LeadsTo(Root(todo), S), ~LeadsTo(Root(todo'), S)
      PROVE  LeadsTo(f, S)
  <2>1. /\ S \subseteq DOMAIN lists
        /\ \E z \in todo \cap S : \A y \in S \ {z} : Before(twu, z, y)
    BY <1>1, <1>2, <1>7, RootFrame
  <2>2. ~ \E z \in todo' \cap S : \A y \in S \ {z} : Before(twu, z, y)
    BY <1>1, <1>6, <1>7, <2>1, RootFrame
  <2> HIDE DEF f
  <2> QED
    BY <1>1, <1>5, <2>1, <2>2
<1> HIDE DEF f
<1>8. s \in Seq(Frames) /\ Members(s) = {f}
  BY <1>5 DEF Members
<1>9. Members(stack[w]) = {}
  BY <1>1 DEF Busy, Members
<1>10. stack' = [stack EXCEPT ![w] = s]
  BY <1>1 DEF f
<1>11. /\ \A h \in Members(s) : FrameRight(h)
       /\ \A S \in Wanted :
           \/ LeadsTo(Root(todo), S) /\ ~LeadsTo(Root(todo'), S)
           \/ \E h \in Members(stack[w]) : LeadsTo(h, S)
           => SettledIn(Best', S) \/ \E h \in Members(s) : LeadsTo(h, S)
  BY <1>5, <1>7, <1>8, <1>9
<1> HIDE DEF s
<1> QED
  BY <1>1, <1>3, <1>4, <1>6, <1>8, <1>10, <1>11, SearchStep

\* What a visit reports is right, and settles its itemset.
LEMMA Reports ==
  ASSUME IInv, phase = "search", UNCHANGED <<db, mode, phase>>,
         NEW S \in SUBSET Items, S # {}, NEW x, NEW n, MayPruneWith(n, threshold),
         Report(S, ListOf(S, x), n)
  PROVE  /\ threshold' \in Nat /\ threshold <= threshold' /\ Sound' /\ HeapRight'
         /\ \A T \in Wanted : SettledIn(Best, T) => SettledIn(Best', T)
         /\ S \in Wanted => SettledIn(Best', S)
         /\ mode.topK => HeapGuarded(Best', threshold')
         /\ \A e \in Best' : e.utility \in Nat
         /\ MayPruneWith(IF mode.topK /\ IsHighUtility(ListOf(S, x), n) THEN threshold' ELSE n,
                         threshold')
<1> DEFINE list == ListOf(S, x)
           high == IsHighUtility(list, n)
<1>1. /\ Given /\ TwuType /\ Sound /\ HeapRight /\ threshold \in Nat /\ db \in Databases
  BY DEF IInv, Given, Types
<1>2. /\ SumIutils(list) = Utility(db, S) /\ Utility(db, S) \in Nat
      /\ DOMAIN list = Supporting(db, S)
  BY <1>1, ListSums, ListOfType
<1>3. /\ n \in Nat /\ mode.minUtility \in Nat /\ IF mode.topK THEN n <= threshold ELSE n = mode.minUtility
  BY <1>1, GivenFacts DEF MayPruneWith
<1>4. high <=> Supporting(db, S) # {} /\ Utility(db, S) >= n
  BY <1>2 DEF IsHighUtility
<1>5. Entry(S, list) = EntryOf(S)
  BY <1>2 DEF Entry, EntryOf
<1>6. /\ Best = IF mode.topK THEN heap ELSE found
      /\ Best' = IF mode.topK THEN heap' ELSE found'
  BY DEF Best
<1>7. /\ Wanted' = Wanted /\ \A T : EntryOf(T)' = EntryOf(T)
  BY Kept
<1>8. /\ \A e \in Best : e.utility \in Nat
      /\ \A e \in Best : \E T \in Wanted : e = EntryOf(T)
      /\ mode.topK => HeapGuarded(Best, threshold)
  BY <1>1, BestNumbers DEF Sound, HeapRight
<1>9. Report(S, list, n)
  OBVIOUS
<1> HIDE DEF list, high
<1>10. CASE mode.topK /\ high
  <2>1. heap' \in Pushed(EntryOf(S)) /\ threshold' = Raised(heap')
    BY <1>5, <1>9, <1>10 DEF Report, high
  <2>2. S \in Wanted
    BY <1>4, <1>10 DEF Wanted
  <2>3. EntryOf(S).utility \in Nat
    BY <1>2 DEF EntryOf
  <2>4. /\ heap' \in SUBSET (heap \cup {EntryOf(S)}) /\ \A f \in heap' : f.utility \in Nat
        /\ Raised(heap') \in Nat /\ threshold <= Raised(heap') /\ HeapGuarded(heap', Raised(heap'))
        /\ \A T \in Wanted : SettledIn(heap, T) => SettledIn(heap', T)
        /\ \A T \in Wanted : EntryOf(T) = EntryOf(S) => SettledIn(heap', T)
    <3>1. HeapGuarded(heap, threshold) /\ \A f \in heap : f.utility \in Nat
      BY <1>6, <1>8, <1>10
    <3> QED
      BY <1>1, <1>10, <2>1, <2>3, <3>1, HeapPushed
  <2>5. Best' = heap' /\ Best = heap
    BY <1>6, <1>10
  <2>6. \A e \in Best' : \E T \in Wanted : e = EntryOf(T)
    BY <1>8, <2>2, <2>4, <2>5
  <2>7. Sound'
    BY <1>7, <2>6 DEF Sound
  <2>8. HeapRight'
    BY <2>1, <2>4, <2>5 DEF HeapRight, HeapGuarded
  <2>9. MayPruneWith(threshold', threshold')
    BY <1>10, <2>1, <2>4 DEF MayPruneWith
  <2> QED
    BY <1>10, <2>1, <2>2, <2>4, <2>5, <2>7, <2>8, <2>9 DEF high, list
<1>11. CASE mode.topK /\ ~high
  <2>1. UNCHANGED <<heap, threshold>>
    BY <1>9, <1>11 DEF Report, high
  <2>2. Best' = Best
    BY <1>6, <1>11, <2>1
  <2>3. Sound' /\ HeapRight'
    BY <1>1, <1>7, <2>1, <2>2 DEF Sound, HeapRight, HeapGuarded
  <2>4. ASSUME S \in Wanted
        PROVE  SettledIn(Best, S)
    <3>1. Utility(db, S) < n
      BY <1>1, <1>2, <1>3, <1>4, <1>11, <2>4, WantedFacts
    <3> QED
      BY <1>1, <1>8, <2>4, <3>1, PruneSettles
  <2>5. threshold' = threshold
    BY <2>1
  <2> QED
    BY <1>1, <1>8, <1>11, <2>2, <2>3, <2>4, <2>5 DEF high, list
<1>12. CASE ~mode.topK
  <2>1. UNCHANGED <<heap, threshold>>
        /\ found' = IF high /\ LengthFits(S) THEN found \cup {EntryOf(S)} ELSE found
    BY <1>5, <1>9, <1>12 DEF Report, high
  <2>2. Best' = found' /\ Best = found
    BY <1>6, <1>12
  <2>3. high /\ LengthFits(S) <=> S \in Wanted
    BY <1>2, <1>3, <1>4, <1>12 DEF Wanted
  <2>4. \A e \in Best' : \E T \in Wanted : e = EntryOf(T)
    BY <1>8, <2>1, <2>2, <2>3
  <2>5. Sound' /\ HeapRight'
    BY <1>7, <1>12, <2>4 DEF Sound, HeapRight
  <2>6. \A T \in Wanted : SettledIn(Best, T) => SettledIn(Best', T)
    BY <1>12, <2>1, <2>2 DEF SettledIn
  <2>7. S \in Wanted => SettledIn(Best', S)
    BY <2>1, <2>2, <2>3 DEF SettledIn
  <2>8. \A e \in Best' : e.utility \in Nat
    BY <1>2, <1>8, <2>1, <2>2 DEF EntryOf
  <2> QED
    BY <1>1, <1>3, <1>12, <2>1, <2>5, <2>6, <2>7, <2>8 DEF MayPruneWith
<1> QED
  BY <1>10, <1>11, <1>12, <1>1 DEF Given

\* The frame of the next level: its lists are those of its itemsets.
LEMMA DeeperFrame ==
  ASSUME db \in Databases, TwuType, NEW f \in Frames, FrameRight(f),
         NEW x \in DOMAIN f.extensions, NEW min
  PROVE  /\ Deeper(f, x, min) \in Frames /\ FrameRight(Deeper(f, x, min))
         /\ Deeper(f, x, min).itemset = f.itemset \cup {x}
         /\ DOMAIN Deeper(f, x, min).extensions = Deeper(f, x, min).left
         /\ Deeper(f, x, min).left
              = {y \in DOMAIN f.extensions : Before(twu, x, y) /\ ~CanPruneJoin(x, y, min)}
<1> HIDE DEF Frames
<1> DEFINE list == f.extensions[x]
           S == f.itemset \cup {x}
           next == {y \in DOMAIN f.extensions : Before(twu, x, y) /\ ~CanPruneJoin(x, y, min)}
           joined == [y \in next |-> Join(f.body, list, f.extensions[y])]
           g == Frame(S, list, joined, next)
<1>1. Deeper(f, x, min) = g
  BY DEF Deeper
<1>2. /\ f.itemset \in SUBSET Items /\ x \in Items \ f.itemset /\ x \in DOMAIN twu
      /\ S \in SUBSET Items /\ list = ListOf(S, x)
      /\ \A y \in DOMAIN f.extensions : Before(twu, x, y) => y \in Items \ S
  BY FrameItems
<1>3. /\ DOMAIN f.extensions \in SUBSET DOMAIN twu /\ f.itemset \in SUBSET DOMAIN twu
      /\ BodyRight(f.body, f.itemset)
      /\ \A z \in f.itemset : \A y \in DOMAIN f.extensions : Before(twu, z, y)
      /\ \A y \in DOMAIN f.extensions : f.extensions[y] = ListOf(f.itemset \cup {y}, y)
      /\ DOMAIN twu \in SUBSET Items
  BY DEF FrameRight, TwuType
<1>4. ASSUME NEW y \in next
      PROVE  /\ joined[y] = ListOf(S \cup {y}, y) /\ joined[y] \in Lists
             /\ y \in Items \ S /\ y \in DOMAIN twu /\ Before(twu, x, y)
  <2>1. y \in DOMAIN f.extensions /\ Before(twu, x, y) /\ y \in Items \ S /\ y \in DOMAIN twu
    BY <1>2, <1>3
  <2>2. Join(f.body, ListOf(f.itemset \cup {x}, x), ListOf(f.itemset \cup {y}, y))
          = ListOf(f.itemset \cup {x, y}, y)
    BY <1>2, <1>3, <2>1, JoinOf
  <2>3. f.itemset \cup {x, y} = S \cup {y} /\ S \cup {y} \in SUBSET Items
    BY <1>2, <2>1
  <2>4. joined[y] = Join(f.body, list, f.extensions[y])
    OBVIOUS
  <2>5. list = ListOf(f.itemset \cup {x}, x) /\ f.extensions[y] = ListOf(f.itemset \cup {y}, y)
    BY <1>2, <1>3, <2>1
  <2>6. joined[y] = ListOf(S \cup {y}, y)
    BY <2>2, <2>3, <2>4, <2>5, Zenon
  <2>7. ListOf(S \cup {y}, y) \in Lists
    <3> HIDE DEF S, list, next, joined, g
    <3> QED
      BY <2>3, ListOfType
  <2> QED
    BY <2>1, <2>6, <2>7
<1>5. list \in Lists /\ BodyRight(list, S)
  <2>1. /\ ListOf(S, x) \in Lists /\ DOMAIN ListOf(S, x) = Supporting(db, S)
        /\ \A t \in Supporting(db, S) : ListOf(S, x)[t].iutils = ItemSum(S, db[t])
    <3> HIDE DEF S, list, next, joined, g
    <3> QED
      BY <1>2, ListOfType
  <2>2. S # {}
    OBVIOUS
  <2> HIDE DEF S
  <2> QED
    BY <1>2, <2>1, <2>2 DEF BodyRight
<1>6. joined \in ListMaps /\ DOMAIN joined = next /\ next \in SUBSET Items
  <2>1. next \in SUBSET Items
    BY <1>3
  <2>2. joined \in [next -> Lists]
    BY <1>4
  <2> QED
    BY <2>1, <2>2 DEF ListMaps
<1>7. next \in SUBSET DOMAIN twu /\ S \in SUBSET DOMAIN twu
  BY <1>2, <1>3
<1>8. \A z \in S : \A y \in next : Before(twu, z, y)
  BY <1>3, <1>4
<1> HIDE DEF S, next, joined, list
<1>9. /\ g \in Frames /\ g.itemset = S /\ g.body = list /\ g.extensions = joined /\ g.left = next
  BY <1>2, <1>5, <1>6, FrameIs
<1> HIDE DEF g
<1>10. FrameRight(g)
  BY <1>4, <1>5, <1>6, <1>7, <1>8, <1>9 DEF FrameRight
<1> QED
  BY <1>1, <1>6, <1>9, <1>10 DEF S, next

\* The next level leads to what is below, unless it is below the threshold.
LEMMA DeeperLeads ==
  ASSUME IInv, Scope, phase = "search", NEW f \in Frames, FrameRight(f),
         NEW x \in DOMAIN f.extensions, NEW min \in Nat,
         NEW T \in Wanted, Through(f, x, T), T # f.itemset \cup {x}, ~(Utility(db, T) < min)
  PROVE  /\ LeadsTo(Deeper(f, x, min), T) /\ Deeper(f, x, min).left # {}
         /\ Extends(f.itemset \cup {x})
<1> HIDE DEF Frames
<1> DEFINE S == f.itemset \cup {x}
           more == T \ S
           g == Deeper(f, x, min)
<1>1. /\ Given /\ TwuType /\ db \in Databases /\ unread = {}
  BY DEF IInv, Given, Types, Phases
<1>2. /\ T \in SUBSET Items /\ IsFiniteSet(T) /\ Supporting(db, T) # {}
      /\ Cardinality(T) <= mode.maxLength /\ mode.maxLength \in Nat
  BY <1>1, WantedFacts, GivenFacts
<1>3. /\ S \in SUBSET T /\ more # {} /\ more \in SUBSET DOMAIN f.extensions
      /\ \A y \in more : Before(twu, x, y)
  BY DEF Through
<1>4. DOMAIN f.extensions \in SUBSET DOMAIN twu
  BY DEF FrameRight
<1>5. /\ g.itemset = S /\ DOMAIN g.extensions = g.left
      /\ g.left = {y \in DOMAIN f.extensions : Before(twu, x, y) /\ ~CanPruneJoin(x, y, min)}
  BY <1>1, DeeperFrame
<1>6. ASSUME NEW y \in more, CanPruneJoin(x, y, min)
      PROVE  FALSE
  <2>1. SeenRight(eucs, {})
    BY <1>1, <1>6 DEF IInv, PairsRight, Scope, CanPruneJoin
  <2>2. x \in DOMAIN twu /\ y \in DOMAIN twu /\ x # y /\ {x, y} \in SUBSET T
    BY <1>3, <1>4
  <2>3. Supporting(db, T) = {} \/ Utility(db, T) < min
    BY <1>1, <1>2, <1>6, <2>1, <2>2, PairsCover
  <2> QED
    BY <1>2, <2>3
<1>7. more \in SUBSET g.left
  BY <1>3, <1>5, <1>6
<1>8. PICK y \in more : \A z \in more \ {y} : Before(twu, y, z)
  <2>1. more \in SUBSET DOMAIN twu
    BY <1>3, <1>4
  <2> HIDE DEF more
  <2> QED
    BY <1>1, <1>3, <2>1, FirstExists
<1>9. Extends(S)
  <2>1. IsFiniteSet(S) /\ Cardinality(S) <= Cardinality(T) /\ Cardinality(S) # Cardinality(T)
    <3>1. S # T
      BY <1>3
    <3> HIDE DEF S
    <3> QED
      BY <1>2, <1>3, <3>1, FS_Subset
  <2> HIDE DEF S
  <2>2. Cardinality(S) \in Nat /\ Cardinality(T) \in Nat
    BY <1>2, <2>1, FS_CardinalityType
  <2> QED
    BY <1>2, <2>1, <2>2 DEF Extends
<1> HIDE DEF g
<1>10. LeadsTo(g, T)
  <2>1. y \in g.left \cap (T \ g.itemset)
    BY <1>5, <1>7, <1>8
  <2>2. \A z \in T \ (g.itemset \cup {y}) : Before(twu, y, z)
    BY <1>5, <1>8
  <2>3. g.itemset \subseteq T /\ T \ g.itemset \subseteq DOMAIN g.extensions
    BY <1>3, <1>5, <1>7
  <2> QED
    BY <2>1, <2>2, <2>3 DEF LeadsTo
<1>11. g.left # {}
  BY <1>7, <1>8
<1> QED
  BY <1>9, <1>10, <1>11 DEF g

LEMMA ExpandStep ==
  ASSUME IInv, NEW w \in Threads, Expand(w)
  PROVE  IInv'
<1> HIDE DEF Frames
<1> DEFINE f == Top(w)
           x == Current(w)
           S == f.itemset \cup {x}
           list == f.extensions[x]
           n == local[w]
           t == Tail(stack[w])
           less == Less(f, x)
           rest == <<less>> \o t
           min == IF mode.topK /\ IsHighUtility(list, n) THEN threshold' ELSE n
           g == Deeper(f, x, min)
           s == IF Extends(S) /\ g.left # {} THEN <<g>> \o rest ELSE rest
<1>1. /\ pc[w] = "expand" /\ pc' = [pc EXCEPT ![w] = "look"]
      /\ UNCHANGED <<db, mode, phase, twu, unread, eucs, lists, todo, local>>
      /\ Report(S, list, n)
      /\ stack' = [stack EXCEPT ![w] =
                     IF Extends(S) /\ g.left # {}
                       THEN Push([stack[w] EXCEPT ![1].left = @ \ {x}], g)
                       ELSE [stack[w] EXCEPT ![1].left = @ \ {x}]]
  BY DEF Expand
<1>2. Busy(w) /\ f.left # {} /\ MayPruneWith(n, threshold)
  BY <1>1 DEF IInv, ThreadsReady, Ready, Busy, Top
<1>3. /\ phase = "search" /\ f \in Frames /\ f = stack[w][1] /\ t \in Seq(Frames)
      /\ Members(stack[w]) = {f} \cup Members(t)
      /\ FrameRight(f) /\ \A h \in Members(t) : FrameRight(h)
      /\ \A h \in Frames : [stack[w] EXCEPT ![1] = h] = <<h>> \o t
  BY <1>2, TopFrame
<1>4. /\ local \in [Threads -> Nat] /\ threshold \in Nat /\ TwuType /\ Given /\ db \in Databases
      /\ stack \in [Threads -> Seq(Frames)]
  BY DEF IInv, Types, Given
<1>5. x \in f.left /\ x \in DOMAIN f.extensions
  <2>1. f.left \in SUBSET DOMAIN f.extensions /\ f.left \in SUBSET DOMAIN twu
    BY <1>3 DEF FrameRight
  <2> QED
    BY <1>2, <1>4, <2>1, CurrentLeft
<1> HIDE DEF f, x
<1>6. S \in SUBSET Items /\ S # {} /\ list = ListOf(S, x)
  <2>1. f.itemset \cup {x} \in SUBSET Items /\ f.extensions[x] = ListOf(f.itemset \cup {x}, x)
    BY <1>3, <1>4, <1>5, FrameItems
  <2> QED
    BY <2>1
<1>7. /\ less \in Frames /\ FrameRight(less)
      /\ \A T : LeadsTo(f, T) => LeadsTo(less, T) \/ Through(f, x, T)
  BY <1>3, LessFrame
<1>8. /\ g \in Frames /\ FrameRight(g)
  BY <1>3, <1>4, <1>5, DeeperFrame
<1>9. /\ rest \in Seq(Frames) /\ Members(rest) = {less} \cup Members(t)
  <2> HIDE DEF less, t
  <2> QED
    BY <1>3, <1>7, OnStack
<1>10. stack' = [stack EXCEPT ![w] = s]
  <2>1. [stack[w] EXCEPT ![1].left = @ \ {x}] = rest
    <3>1. [stack[w] EXCEPT ![1].left = @ \ {x}]
            = [stack[w] EXCEPT ![1] = [stack[w][1] EXCEPT !.left = @ \ {x}]]
      OBVIOUS
    <3>2. [stack[w][1] EXCEPT !.left = @ \ {x}] = less
      BY <1>3 DEF Less
    <3>3. [stack[w] EXCEPT ![1] = less] = rest
      BY <1>3, <1>7
    <3> HIDE DEF rest, less
    <3> QED
      BY <3>1, <3>2, <3>3, Zenon
  <2> HIDE DEF rest, g, S
  <2> QED
    BY <1>1, <2>1 DEF Push
<1> HIDE DEF S, rest, t, less, min, g
<1>11. /\ s \in Seq(Frames) /\ Members(rest) \in SUBSET Members(s)
       /\ Members(s) \in SUBSET ({g} \cup Members(rest))
       /\ Extends(S) /\ g.left # {} => g \in Members(s)
  <2>1. <<g>> \o rest \in Seq(Frames) /\ Members(<<g>> \o rest) = {g} \cup Members(rest)
    BY <1>8, <1>9, OnStack
  <2>2. CASE Extends(S) /\ g.left # {}
    BY <2>1, <2>2
  <2>3. CASE ~(Extends(S) /\ g.left # {})
    BY <1>9, <2>3
  <2> QED
    BY <2>2, <2>3
<1> HIDE DEF s
<1>12. /\ threshold' \in Nat /\ threshold <= threshold' /\ Sound' /\ HeapRight'
       /\ \A T \in Wanted : SettledIn(Best, T) => SettledIn(Best', T)
       /\ S \in Wanted => SettledIn(Best', S)
       /\ mode.topK => HeapGuarded(Best', threshold')
       /\ \A e \in Best' : e.utility \in Nat
       /\ MayPruneWith(min, threshold')
  <2>1. Report(S, ListOf(S, x), n)
    BY <1>1, <1>6
  <2>2. UNCHANGED <<db, mode, phase>>
    BY <1>1
  <2>3. min = IF mode.topK /\ IsHighUtility(ListOf(S, x), n) THEN threshold' ELSE n
    BY <1>6 DEF min
  <2> HIDE DEF n, list
  <2> QED
    BY <1>2, <1>3, <1>6, <2>1, <2>2, <2>3, Reports
<1>13. min \in Nat
  BY <1>12 DEF MayPruneWith
<1>14. ASSUME Scope, NEW T \in Wanted, Through(f, x, T)
       PROVE  SettledIn(Best', T) \/ \E h \in Members(s) : LeadsTo(h, T)
  <2>1. CASE T = S
    BY <1>12, <2>1
  <2>2. CASE Utility(db, T) < min
    BY <1>4, <1>12, <2>2, PruneSettles
  <2>3. CASE T # S /\ ~(Utility(db, T) < min)
    <3>1. T # f.itemset \cup {x}
      BY <2>3 DEF S
    <3>2. LeadsTo(g, T) /\ g.left # {} /\ Extends(S)
      BY <1>3, <1>5, <1>13, <1>14, <2>3, <3>1, DeeperLeads DEF g, S
    <3> QED
      BY <1>11, <3>2
  <2> QED
    BY <2>1, <2>2, <2>3
<1>15. Scope => \A T \in Wanted :
         (\E h \in Members(stack[w]) : LeadsTo(h, T)) =>
           SettledIn(Best', T) \/ \E h \in Members(s) : LeadsTo(h, T)
  BY <1>3, <1>7, <1>9, <1>11, <1>14
<1>16. \A h \in Members(s) : FrameRight(h)
  BY <1>3, <1>7, <1>8, <1>9, <1>11
<1>17. /\ local' = [local EXCEPT ![w] = n] /\ n \in Nat /\ todo' = todo
  BY <1>1, <1>4
<1>18. Root(todo') = Root(todo)
  BY <1>17
<1> HIDE DEF n
<1> QED
  BY <1>1, <1>3, <1>10, <1>11, <1>12, <1>15, <1>16, <1>17, <1>18, SearchStep

-----------------------------------------------------------------------------
(* The two passes, and the end *)

\* What a step of the passes does not disturb while no thread is at work.
LEMMA PassStep ==
  ASSUME IInv, \A w \in Threads : ~Busy(w),
         UNCHANGED <<db, mode, stack, local, pc, threshold>>, Best' = Best,
         Types', Phases', PairsRight', Complete'
  PROVE  IInv'
<1>1. /\ Given' /\ Wanted' = Wanted /\ \A S : EntryOf(S)' = EntryOf(S)
  BY Kept DEF IInv
<1>2. \A w \in Threads : stack'[w] = <<>> /\ stack[w] = <<>>
  BY DEF Busy
<1>3. ThreadsReady' /\ FramesRight'
  BY <1>2 DEF IInv, ThreadsReady, Ready, FramesRight, Members
<1>4. Sound' /\ HeapRight'
  BY <1>1 DEF IInv, Sound, HeapRight, HeapGuarded
<1> QED
  BY <1>1, <1>3, <1>4 DEF IInv

LEMMA FilterKept ==
  ASSUME UNCHANGED <<db, mode>>
  PROVE  TwuFilter(db, FilterThreshold)' = TwuFilter(db, FilterThreshold)
<1>1. FilterThreshold' = FilterThreshold
  BY DEF FilterThreshold
<1> QED
  BY <1>1 DEF TwuFilter, Supporting, HasAll, Twu, TidSum, TransactionUtility, ItemSum

LEMMA FilterType ==
  ASSUME db \in Databases
  PROVE  /\ DOMAIN TwuFilter(db, FilterThreshold) \in SUBSET Items
         /\ \A x \in DOMAIN TwuFilter(db, FilterThreshold) : TwuFilter(db, FilterThreshold)[x] \in Nat
<1> DEFINE d == {y \in Items : Supporting(db, {y}) # {} /\ Twu(db, {y}) >= FilterThreshold}
<1>1. TwuFilter(db, FilterThreshold) = [x \in d |-> Twu(db, {x})]
  BY DEF TwuFilter
<1>2. \A x \in Items : Twu(db, {x}) \in Nat
  BY TwuCovers
<1> QED
  BY <1>1, <1>2

LEMMA SeenKept ==
  ASSUME UNCHANGED <<db, twu>>
  PROVE  SeenRight(eucs, unread)' <=> SeenRight(eucs', unread')
<1>1. \A k : Supporting(db, k)' = Supporting(db, k)
  BY DEF Supporting, HasAll
<1>2. SeenRight(eucs, unread)'
        <=> DOMAIN eucs' = Seen(unread)' /\ \A k \in Seen(unread)' : eucs'[k] = SeenTwu(k, unread)'
  BY DEF SeenRight
<1>3. Seen(unread)' = Seen(unread')
  BY <1>1 DEF Seen, PairsOfListed
<1>4. \A k : SeenTwu(k, unread)' = SeenTwu(k, unread')
  BY <1>1 DEF SeenTwu, TidSum, TransactionUtility, ItemSum
<1> QED
  BY <1>2, <1>3, <1>4 DEF SeenRight

LEMMA FilterStep ==
  ASSUME IInv, Filter
  PROVE  IInv'
<1>1. /\ phase = "filter" /\ phase' = "read" /\ twu' = TwuFilter(db, FilterThreshold)
      /\ UNCHANGED <<db, mode, unread, eucs, lists, search>>
  BY DEF Filter
<1>2. UNCHANGED <<todo, stack, local, pc, heap, threshold, found>>
  BY <1>1 DEF search
<1>3. /\ Types /\ db \in Databases /\ DOMAIN eucs = {} /\ unread = Tids
      /\ \A w \in Threads : ~Busy(w)
  BY <1>1 DEF IInv, Given, Phases
<1>4. Types'
  <2>1. TwuType'
    BY <1>1, <1>3, FilterType DEF TwuType
  <2> QED
    BY <1>1, <1>2, <1>3, <2>1 DEF Types
<1>5. Phases'
  BY <1>1, <1>2, <1>3, FilterKept DEF Phases, Busy
<1>6. PairsRight'
  <2>1. \A k : Supporting(db, k)' \ unread' = {}
    BY <1>1, <1>3 DEF Supporting
  <2>2. Seen(unread)' = {}
    BY <2>1 DEF Seen
  <2> QED
    BY <1>1, <1>3, <2>2 DEF PairsRight, SeenRight
<1>7. Best' = Best /\ Complete'
  BY <1>1, <1>2 DEF Best, Complete
<1> QED
  BY <1>1, <1>2, <1>3, <1>4, <1>5, <1>6, <1>7, PassStep

LEMMA ReadStep ==
  ASSUME IInv, NEW t \in Tids, ReadTransaction(t)
  PROVE  IInv'
<1>1. /\ phase = "read" /\ phase' = "read" /\ t \in unread /\ unread' = unread \ {t}
      /\ eucs' = IF mode.algorithm.eucs THEN Added(t) ELSE eucs
      /\ UNCHANGED <<db, mode, twu, lists, search>>
  BY DEF ReadTransaction
<1>2. UNCHANGED <<todo, stack, local, pc, heap, threshold, found>>
  BY <1>1 DEF search
<1>3. /\ Types /\ TwuType /\ db \in Databases /\ unread \in SUBSET Tids
      /\ DOMAIN eucs \in SUBSET AllPairs /\ twu = TwuFilter(db, FilterThreshold)
      /\ \A w \in Threads : ~Busy(w)
  BY <1>1 DEF IInv, Given, Phases, Types
<1>4. Types'
  <2>1. DOMAIN Added(t) \in SUBSET AllPairs
    <3>1. \A p \in Reached(t) : Key(p) \in AllPairs
      BY <1>3, KeysOf DEF Reached
    <3>2. DOMAIN Added(t) = DOMAIN eucs \cup {Key(p) : p \in Reached(t)}
      BY DEF Added
    <3> QED
      BY <1>3, <3>1, <3>2
  <2>2. DOMAIN eucs' \in SUBSET AllPairs
    BY <1>1, <1>3, <2>1
  <2>3. TwuType'
    BY <1>1, <1>3 DEF TwuType
  <2> QED
    BY <1>1, <1>2, <1>3, <2>2, <2>3 DEF Types
<1>5. Phases'
  BY <1>1, <1>2, <1>3, FilterKept DEF Phases, Busy
<1>6. PairsRight'
  <2>1. SUFFICES ASSUME mode.algorithm.eucs, Ample
                 PROVE  SeenRight(eucs', unread')
    <3>1. UNCHANGED <<db, twu>>
      BY <1>1
    <3>2. SeenRight(eucs, unread)' <=> SeenRight(eucs', unread')
      BY <3>1, SeenKept
    <3> QED
      BY <1>1, <3>2 DEF PairsRight, Ample
  <2>2. SeenRight(eucs, unread)
    BY <1>1, <2>1 DEF IInv, PairsRight
  <2> QED
    BY <1>1, <1>3, <2>1, <2>2, PairsAdded
<1>7. Best' = Best /\ Complete'
  BY <1>1, <1>2 DEF Best, Complete
<1> QED
  BY <1>1, <1>2, <1>3, <1>4, <1>5, <1>6, <1>7, PassStep

\* The items of what is looked for pass the filter.
LEMMA WantedListed ==
  ASSUME Given, Scope, TwuType, twu = TwuFilter(db, FilterThreshold), NEW S \in Wanted
  PROVE  S \in SUBSET Listed
<1>1. /\ S \in SUBSET Items /\ Supporting(db, S) # {} /\ Utility(db, S) \in Nat /\ db \in Databases
      /\ ~mode.topK => Utility(db, S) >= mode.minUtility
  BY WantedFacts DEF Given
<1>2. FilterThreshold \in Nat /\ FilterThreshold <= Utility(db, S)
      /\ (mode.algorithm.heap => FilterThreshold = 0)
  BY <1>1, GivenFacts DEF FilterThreshold, Scope
<1>3. ASSUME NEW x \in S
      PROVE  x \in Listed
  <2>1. x \in Items /\ {x} \in SUBSET S
    BY <1>1
  <2>2. Supporting(db, {x}) # {}
    BY <1>1, <2>1, SupportingTids
  <2>3. Twu(db, {x}) \in Nat /\ Utility(db, S) <= Twu(db, {x})
    BY <1>1, <2>1, TwuCovers
  <2>4. Twu(db, {x}) >= FilterThreshold
    BY <1>1, <1>2, <2>3
  <2>5. x \in DOMAIN twu
    BY <2>1, <2>2, <2>4 DEF TwuFilter
  <2>6. SumIutils(ListOf({x}, x)) \in Nat /\ SumRutils(ListOf({x}, x)) \in Nat
    BY <1>1, <2>1, ListSums
  <2>7. ItemList(db, twu, x) = ListOf({x}, x)
    BY <1>1, <2>1, ItemListOf
  <2>8. SumIutils(ItemList(db, twu, x)) + SumRutils(ItemList(db, twu, x)) >= 0
    BY <2>6, <2>7
  <2> QED
    BY <1>2, <2>5, <2>8 DEF Listed
<1> QED
  BY <1>3

LEMMA StartSearchStep ==
  ASSUME IInv, StartSearch
  PROVE  IInv'
<1>1. /\ phase = "read" /\ unread = {} /\ phase' = "search"
      /\ lists' = [x \in Listed |-> ItemList(db, twu, x)] /\ todo' = Listed
      /\ UNCHANGED <<db, mode, twu, unread, eucs, stack, local, pc, heap, threshold, found>>
  BY DEF StartSearch
<1>2. /\ Types /\ TwuType /\ Given /\ db \in Databases /\ twu = TwuFilter(db, FilterThreshold)
      /\ \A w \in Threads : ~Busy(w)
  BY <1>1 DEF IInv, Given, Phases, Types
<1>3. Listed \in SUBSET DOMAIN twu /\ Listed \in SUBSET Items
  BY <1>2 DEF Listed, TwuType
<1>4. lists' \in ListMaps /\ DOMAIN lists' = Listed
  <2>1. ASSUME NEW x \in Listed
        PROVE  ItemList(db, twu, x) \in Lists
    <3>1. x \in Items /\ {x} \in SUBSET Items
      BY <1>3
    <3>2. ItemList(db, twu, x) = ListOf({x}, x)
      BY <1>2, <3>1, ItemListOf
    <3>3. ListOf({x}, x) \in Lists
      BY <1>2, <3>1, ListOfType
    <3> QED
      BY <3>2, <3>3
  <2>2. lists' \in [Listed -> Lists]
    BY <1>1, <2>1
  <2> QED
    BY <1>3, <2>2 DEF ListMaps
<1>5. Types'
  <2>1. TwuType'
    BY <1>1, <1>2 DEF TwuType
  <2> QED
    BY <1>1, <1>2, <1>4, <2>1 DEF Types
<1>6. Phases'
  <2>1. lists' = [x \in Listed |-> ItemList(db, twu, x)]'
    BY <1>1, SMTT(30) DEF Listed, FilterThreshold, ItemList, Supporting, HasAll, ItemSum, Before,
                SumIutils, SumRutils, TidSum
  <2> QED
    BY <1>1, <1>2, <2>1, FilterKept DEF Phases, Busy
<1>7. PairsRight'
  <2>1. UNCHANGED <<db, twu, eucs, unread>>
    BY <1>1
  <2>2. SeenRight(eucs, unread)' <=> SeenRight(eucs, unread)
    BY <2>1, SeenKept, Zenon
  <2> QED
    BY <1>1, <2>2 DEF IInv, PairsRight, Ample
<1>8. Best' = Best
  BY <1>1 DEF Best
<1>9. Complete'
  <2>1. Wanted' = Wanted /\ Scope' = Scope /\ (\A f, S : LeadsTo(f, S)' <=> LeadsTo(f, S))
    BY <1>1, Kept
  <2>2. ASSUME Scope, NEW S \in Wanted
        PROVE  LeadsTo(Root(todo)', S)
    <3>1. S \in SUBSET Listed /\ S # {}
      BY <1>2, <2>2, WantedListed, WantedFacts
    <3>2. PICK x \in S : \A y \in S \ {x} : Before(twu, x, y)
      <4>1. S \in SUBSET DOMAIN twu
        BY <1>3, <3>1
      <4> QED
        BY <1>2, <3>1, <4>1, FirstExists
    <3> DEFINE f == Root(todo)'
    <3>3. f.itemset = {} /\ f.extensions = lists' /\ f.left = Listed
      BY <1>1 DEF Root, Frame
    <3> HIDE DEF f
    <3> QED
      BY <1>4, <3>1, <3>2, <3>3 DEF LeadsTo, f
  <2> QED
    BY <2>1, <2>2 DEF Complete, ToCome
<1> QED
  BY <1>1, <1>2, <1>5, <1>6, <1>7, <1>8, <1>9, PassStep

LEMMA FinishStep ==
  ASSUME IInv, Finish
  PROVE  IInv'
<1>1. /\ phase = "search" /\ todo = {} /\ (\A w \in Threads : ~Busy(w)) /\ phase' = "done"
      /\ found' = IF mode.topK THEN heap ELSE found
      /\ UNCHANGED <<db, mode, twu, unread, eucs, lists, todo, stack, local, pc, threshold>>
  BY DEF Finish
<1>2. Best' = Best
  BY <1>1 DEF Best
<1>3. Types'
  <2>1. Types /\ TwuType'
    BY <1>1 DEF IInv, Types, TwuType
  <2> QED
    BY <1>1, <2>1 DEF Types
<1>4. Phases'
  <2>1. [x \in Listed |-> ItemList(db, twu, x)]' = [x \in Listed |-> ItemList(db, twu, x)]
    BY <1>1 DEF Listed, FilterThreshold, ItemList, Supporting, HasAll, ItemSum, Before,
                SumIutils, SumRutils, TidSum
  <2> QED
    BY <1>1, <2>1, FilterKept DEF IInv, Phases, Busy
<1>5. PairsRight'
  <2>1. UNCHANGED <<db, twu, eucs, unread>>
    BY <1>1
  <2>2. SeenRight(eucs, unread)' <=> SeenRight(eucs, unread)
    BY <2>1, SeenKept, Zenon
  <2> QED
    BY <1>1, <2>2 DEF IInv, PairsRight, Ample
<1>6. Complete'
  <2>1. /\ Wanted' = Wanted /\ Scope' = Scope
        /\ \A best, S : SettledIn(best, S)' <=> SettledIn(best, S)
    BY <1>1, Kept
  <2>2. \A S : ~ToCome(S)
    <3>1. Root(todo).left = {}
      BY <1>1 DEF Root, Frame
    <3>2. \A w \in Threads : Members(stack[w]) = {}
      BY <1>1 DEF Busy, Members
    <3> QED
      BY <3>1, <3>2 DEF ToCome, LeadsTo
  <2>3. Scope => \A S \in Wanted : SettledIn(Best, S)
    BY <1>1, <2>2 DEF IInv, Complete
  <2> QED
    BY <1>2, <2>1, <2>3 DEF Complete
<1> QED
  BY <1>1, <1>2, <1>3, <1>4, <1>5, <1>6, PassStep

-----------------------------------------------------------------------------
(* The theorems *)

LEMMA InitIInv == Init => IInv
<1>1. SUFFICES ASSUME Init PROVE IInv
  OBVIOUS
<1> HIDE DEF Frames
<1>2. /\ db \in MinedDatabases /\ mode \in Modes /\ phase = "filter"
      /\ DOMAIN twu = {} /\ DOMAIN eucs = {} /\ lists = [x \in {} |-> NoList]
      /\ unread = Tids /\ todo = {}
      /\ stack = [w \in Threads |-> <<>>] /\ local = [w \in Threads |-> 0]
      /\ pc = [w \in Threads |-> "look"]
      /\ heap = {} /\ threshold = 0 /\ found = {}
  BY <1>1 DEF Init
<1>3. Given
  BY <1>2, MinerConstants DEF Given
<1>4. Types
  <2>1. <<>> \in Seq(Frames)
    OBVIOUS
  <2>2. stack \in [Threads -> Seq(Frames)]
    BY <1>2, <2>1
  <2>3. lists \in [{} -> Lists] /\ {} \in SUBSET Items
    BY <1>2
  <2>4. lists \in ListMaps
    BY <2>3 DEF ListMaps
  <2> QED
    BY <1>2, <2>2, <2>4 DEF Types, TwuType
<1>5. Phases /\ ThreadsReady /\ PairsRight /\ FramesRight /\ Complete
  BY <1>2 DEF Phases, Busy, ThreadsReady, PairsRight, FramesRight, Members, Complete
<1>6. Sound /\ HeapRight
  <2>1. Best = {}
    BY <1>2 DEF Best
  <2> QED
    BY <1>2, <1>3, <2>1, GivenFacts, FS_EmptySet DEF Sound, HeapRight, HeapGuarded
<1> QED
  BY <1>3, <1>4, <1>5, <1>6 DEF IInv

LEMMA NextIInv == IInv /\ [Next]_vars => IInv'
<1>1. SUFFICES ASSUME IInv, [Next]_vars PROVE IInv'
  OBVIOUS
<1>2. CASE Passes
  BY <1>1, <1>2, FilterStep, ReadStep, StartSearchStep, FinishStep DEF Passes
<1>3. ASSUME NEW w \in Threads, Thread(w)
      PROVE  IInv'
  BY <1>1, <1>3, TakeStep, LookStep, ExpandStep, BackStep DEF Thread
<1>4. CASE UNCHANGED vars
  <2>1. UNCHANGED <<db, mode, phase, twu, unread, eucs, lists, todo, stack, local, pc, heap,
                    threshold, found>>
    BY <1>4 DEF vars, search
  <2>2. Types'
    BY <1>1, <2>1 DEF IInv, Types, TwuType
  <2>3. Phases'
    <3>1. [x \in Listed |-> ItemList(db, twu, x)]' = [x \in Listed |-> ItemList(db, twu, x)]
      BY <2>1 DEF Listed, FilterThreshold, ItemList, Supporting, HasAll, ItemSum, Before,
                  SumIutils, SumRutils, TidSum
    <3> QED
      BY <1>1, <2>1, <3>1, FilterKept DEF IInv, Phases, Busy
  <2>4. PairsRight'
    <3>1. SeenRight(eucs, unread)' <=> SeenRight(eucs, unread)
      BY <2>1, SeenKept, Zenon
    <3> QED
      BY <1>1, <2>1, <3>1 DEF IInv, PairsRight, Ample
  <2>5. Best' = Best
    BY <2>1 DEF Best
  <2>6. Given' /\ Sound' /\ HeapRight'
    BY <1>1, <2>1, <2>5, Kept DEF IInv, Sound, HeapRight, HeapGuarded
  <2>7. ThreadsReady'
    BY <1>1, <2>1, Kept DEF IInv, ThreadsReady
  <2>8. FramesRight'
    BY <1>1, <2>1, Kept DEF IInv, FramesRight
  <2>9. Complete'
    <3>1. Root(todo)' = Root(todo)
      BY <2>1 DEF Root
    <3>2. \A S : ToCome(S)' <=> ToCome(S)
      BY <2>1, <3>1, Kept DEF ToCome
    <3> QED
      BY <1>1, <2>1, <2>5, <3>2, Kept DEF IInv, Complete
  <2> QED
    BY <2>2, <2>3, <2>4, <2>6, <2>7, <2>8, <2>9 DEF IInv
<1> QED
  BY <1>1, <1>2, <1>3, <1>4 DEF Next

LEMMA Inductive == Spec => []IInv
<1> QED
  BY InitIInv, NextIInv, PTL DEF Spec

\* The miner's variables keep their types.
THEOREM MinerTypeOK == Spec => []TypeOK
<1>1. ASSUME IInv
      PROVE  TypeOK
  <2>1. DOMAIN lists \in SUBSET Items
    BY <1>1 DEF IInv, Types, ListMaps
  <2> QED
    BY <1>1, <2>1 DEF IInv, Given, Types, TwuType, AllPairs, TypeOK
<1> QED
  BY <1>1, Inductive, PTL

\* Every list that a chain of joins makes is that of its itemset, for any database, number of
\* threads and order of tasks, and in every mode.
THEOREM MinerListsExact == Spec => []ListsExact
<1>1. IInv => ListsExact
  BY DEF IInv, FramesRight, FrameRight, Members, ListsExact
<1> QED
  BY <1>1, Inductive, PTL

LEMMA WantedEntries ==
  ASSUME Given
  PROVE  /\ Entries = {EntryOf(S) : S \in {T \in (SUBSET Items) \ {{}} : Supporting(db, T) # {}}}
         /\ mode.topK => Entries = {EntryOf(S) : S \in Wanted}
         /\ ~mode.topK =>
              {EntryOf(S) : S \in Wanted}
                = {e \in Entries : e.utility >= mode.minUtility /\ LengthFits(e.itemset)}
<1> DEFINE occurring == {T \in (SUBSET Items) \ {{}} : Supporting(db, T) # {}}
<1>1. Entries = {EntryOf(S) : S \in occurring}
  BY DEF Entries, EntryOf
<1>2. mode.topK => Wanted = occurring
  BY DEF Wanted
<1>3. ASSUME ~mode.topK
      PROVE  Wanted = {S \in occurring : Utility(db, S) >= mode.minUtility /\ LengthFits(S)}
  BY <1>3 DEF Wanted
<1>4. \A S : EntryOf(S).utility = Utility(db, S) /\ EntryOf(S).itemset = S
  BY DEF EntryOf
<1> HIDE DEF occurring
<1> QED
  BY <1>1, <1>2, <1>3, <1>4 DEF occurring

\* Mining with a threshold finds exactly the itemsets that reach it: for any database,
\* threshold, bounds on the length, number of threads and order of tasks, if the guard has
\* room for the co-occurrence structure, and for all algorithms but those of the top-k family.
THEOREM MinerExact == Spec => [](Scope => Exact)
<1>1. ASSUME IInv, Scope, phase = "done", ~mode.topK
      PROVE  found = {e \in Entries : e.utility >= mode.minUtility /\ LengthFits(e.itemset)}
  <2>1. Best = found
    BY <1>1 DEF Best
  <2>2. \A S \in Wanted : EntryOf(S) \in found
    <3>1. \A S : ~ToCome(S)
      <4>1. todo = {} /\ \A w \in Threads : stack[w] = <<>>
        BY <1>1 DEF IInv, Phases, Busy
      <4>2. Root(todo).left = {} /\ \A w \in Threads : Members(stack[w]) = {}
        BY <4>1 DEF Root, Frame, Members
      <4> QED
        BY <4>2 DEF ToCome, LeadsTo
    <3>2. \A S \in Wanted : SettledIn(Best, S)
      BY <1>1, <3>1 DEF IInv, Complete
    <3> QED
      BY <1>1, <2>1, <3>2 DEF SettledIn
  <2>3. \A e \in found : \E S \in Wanted : e = EntryOf(S)
    BY <1>1, <2>1 DEF IInv, Sound
  <2>4. found = {EntryOf(S) : S \in Wanted}
    BY <2>2, <2>3
  <2> QED
    BY <1>1, <2>4, WantedEntries DEF IInv
<1>2. IInv => (Scope => Exact)
  BY <1>1 DEF Exact
<1> QED
  BY <1>2, Inductive, PTL

\* Top-k mining ends with k of the best itemsets, whatever the k and the order in which the
\* threads raise and read the threshold.
THEOREM MinerTopKExact == Spec => [](Scope => TopKExact)
<1>1. ASSUME IInv, Scope, phase = "done", mode.topK
      PROVE  /\ found \subseteq Entries
             /\ Cardinality(found) = IF Cardinality(Entries) < mode.k THEN Cardinality(Entries) ELSE mode.k
             /\ \A e \in Entries \ found : \A f \in found : e.utility <= f.utility
  <2>1. Best = found /\ Given /\ mode.k \in Nat
    BY <1>1, GivenFacts DEF Best, IInv
  <2>2. Entries = {EntryOf(S) : S \in Wanted}
    BY <1>1, <2>1, WantedEntries
  <2>3. \A S \in Wanted :
          \/ EntryOf(S) \in found
          \/ Cardinality(found) = mode.k /\ \A f \in found : EntryOf(S).utility <= f.utility
    <3>1. \A S : ~ToCome(S)
      <4>1. todo = {} /\ \A w \in Threads : stack[w] = <<>>
        BY <1>1 DEF IInv, Phases, Busy
      <4>2. Root(todo).left = {} /\ \A w \in Threads : Members(stack[w]) = {}
        BY <4>1 DEF Root, Frame, Members
      <4> QED
        BY <4>2 DEF ToCome, LeadsTo
    <3>2. \A S \in Wanted : SettledIn(Best, S)
      BY <1>1, <3>1 DEF IInv, Complete
    <3>3. \A S : EntryOf(S).utility = Utility(db, S)
      BY DEF EntryOf
    <3> QED
      BY <2>1, <3>2, <3>3 DEF SettledIn
  <2>4. found \subseteq Entries
    BY <1>1, <2>1, <2>2 DEF IInv, Sound
  <2>5. IsFiniteSet(Entries) /\ Cardinality(Entries) \in Nat
    <3> DEFINE entry == [S \in Wanted |-> EntryOf(S)]
    <3>1. entry \in Surjection(Wanted, Entries)
      BY <2>2 DEF Surjection
    <3>2. IsFiniteSet(Wanted)
      <4>1. IsFiniteSet(SUBSET Items)
        BY Constants, FS_SUBSET
      <4>2. Wanted \in SUBSET SUBSET Items
        BY DEF Wanted
      <4> QED
        BY <4>1, <4>2, FS_Subset
    <3> HIDE DEF entry
    <3> QED
      BY <3>1, <3>2, FS_Surjection, FS_CardinalityType
  <2>6. /\ Cardinality(found) \in Nat /\ Cardinality(found) <= Cardinality(Entries)
        /\ Cardinality(found) <= mode.k
    BY <1>1, <2>1, <2>4, <2>5, FS_Subset, FS_CardinalityType DEF IInv, HeapRight, HeapGuarded
  <2>7. Cardinality(found) = IF Cardinality(Entries) < mode.k THEN Cardinality(Entries) ELSE mode.k
    <3>1. CASE found = Entries
      BY <2>1, <2>5, <2>6, <3>1
    <3>2. CASE found # Entries
      <4>1. Cardinality(found) = mode.k
        BY <2>2, <2>3, <2>4, <3>2
      <4> QED
        BY <2>1, <2>5, <2>6, <4>1
    <3> QED
      BY <3>1, <3>2
  <2>8. \A e \in Entries \ found : \A f \in found : e.utility <= f.utility
    BY <2>2, <2>3
  <2> QED
    BY <2>4, <2>7, <2>8
<1>2. IInv => (Scope => TopKExact)
  BY <1>1 DEF TopKExact
<1> QED
  BY <1>2, Inductive, PTL

\* At every moment of a top-k search, what is not in the heap is still to be visited or
\* cannot enter it.
THEOREM MinerNothingMissed == Spec => [](Scope => NothingMissed)
<1>1. ASSUME IInv, Scope, phase = "search", mode.topK, NEW e \in Entries \ heap
      PROVE  \/ ToVisit(e.itemset)
             \/ Cardinality(heap) = mode.k /\ \A f \in heap : e.utility <= f.utility
  <2>1. Best = heap /\ Given
    BY <1>1 DEF Best, IInv
  <2>2. PICK S \in Wanted : e = EntryOf(S)
    BY <1>1, <2>1, WantedEntries
  <2>3. SettledIn(heap, S) \/ ToCome(S)
    BY <1>1, <2>1 DEF IInv, Complete
  <2>4. e.itemset = S /\ e.utility = Utility(db, S)
    BY <2>2 DEF EntryOf
  <2>5. CASE SettledIn(heap, S)
    BY <1>1, <2>2, <2>4, <2>5 DEF SettledIn
  <2>6. CASE LeadsTo(Root(todo), S)
    <3>1. S \cap todo # {}
      BY <2>6 DEF LeadsTo, Root, Frame
    <3> QED
      BY <2>4, <2>6, <3>1 DEF ToVisit, Root
  <2>7. CASE \E w \in Threads : \E f \in Members(stack[w]) : LeadsTo(f, S)
    BY <2>4, <2>7 DEF ToVisit, Members
  <2> QED
    BY <2>3, <2>5, <2>6, <2>7 DEF ToCome
<1>2. IInv => (Scope => NothingMissed)
  BY <1>1 DEF NothingMissed
<1> QED
  BY <1>2, Inductive, PTL
=============================================================================
