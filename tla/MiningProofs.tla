---------------------------- MODULE MiningProofs ----------------------------
(***************************************************************************)
(* A run of any algorithm keeps the promise of Huim and the invariants of  *)
(* Mining, for any database, threshold, budget, number of threads and      *)
(* nodes on a page, with failures of the pool.                             *)
(*                                                                         *)
(* EFIM, EFIM-Closed and HAUI-Miner: projections are those of their        *)
(* itemsets, the bounds cover all that is searched below an extension, the *)
(* test for closed itemsets is right, and what has not been written yet is *)
(* still to come.  TwoPhase: its lists are those of their itemsets, what   *)
(* it writes is right, and what it has not written yet is still to come.   *)
(* The tree miners have their invariant in TreeMinerProofs.                *)
(***************************************************************************)
EXTENDS Mining, TreeMinerProofs

-----------------------------------------------------------------------------
(* EFIM and its relatives *)

LEMMA EfimRunConstants ==
  /\ MinedDatabases \subseteq Databases
  /\ \A m \in Modes : m.minUtility \in Nat \ {0} /\ m.budget \in Nat
  /\ PoolFails \in BOOLEAN
  /\ OffsetLimit \in Nat /\ Cardinality(Items) < OffsetLimit
BY ContextAssumption

-----------------------------------------------------------------------------
(* The order of a transaction *)

\* What is mined, and an order of its items.
Ordered == db \in Databases /\ Ranks(twu)

Preceding(t, x) == {y \in Present(t) : Before(twu, y, x)}
Following(t, x) == {y \in Present(t) : Before(twu, x, y)}

LEMMA PresentItems ==
  ASSUME Ordered, NEW t \in Tids
  PROVE  /\ Present(t) \in SUBSET DOMAIN twu /\ DOMAIN twu \in SUBSET Items
         /\ IsFiniteSet(Present(t)) /\ db[t] \in [Items -> 0..MaxUtility]
         /\ \A x : Preceding(t, x) \in SUBSET Items /\ IsFiniteSet(Preceding(t, x))
         /\ \A x : Following(t, x) \in SUBSET Items /\ IsFiniteSet(Following(t, x))
<1>1. /\ Present(t) \in SUBSET DOMAIN twu /\ DOMAIN twu \in SUBSET Items
      /\ db[t] \in [Items -> 0..MaxUtility]
  BY DEF Ordered, Ranks, Present, Databases
<1>2. \A S \in SUBSET Items : IsFiniteSet(S)
  BY Constants, FS_Subset
<1>3. \A x : Preceding(t, x) \in SUBSET Items /\ Following(t, x) \in SUBSET Items
  BY <1>1 DEF Preceding, Following
<1> QED
  BY <1>1, <1>2, <1>3

\* The position of an item in its transaction tells what comes after it, and is never cut
\* by the width of an offset.
LEMMA Places ==
  ASSUME Ordered, NEW t \in Tids, NEW x \in Present(t)
  PROVE  /\ Position(t, x) \in Nat /\ Position(t, x) + 1 < OffsetLimit
         /\ \A y \in Present(t) : Position(t, y) >= Position(t, x) + 1 <=> Before(twu, x, y)
<1>1. /\ \A y : IsFiniteSet(Preceding(t, y)) /\ Preceding(t, y) \in SUBSET Items
      /\ Present(t) \in SUBSET DOMAIN twu /\ DOMAIN twu \in SUBSET Items
  BY PresentItems
<1>2. \A y : Position(t, y) = Cardinality(Preceding(t, y)) /\ Position(t, y) \in Nat
  BY <1>1, FS_CardinalityType DEF Position, Preceding
<1>3. /\ x \notin Preceding(t, x)
      /\ IsFiniteSet(Preceding(t, x) \cup {x})
      /\ Cardinality(Preceding(t, x) \cup {x}) = Position(t, x) + 1
  <2>1. x \notin Preceding(t, x)
    BY <1>1, RankOrder DEF Preceding, Ordered
  <2> QED
    BY <1>1, <1>2, <2>1, FS_AddElement
<1>4. Position(t, x) + 1 < OffsetLimit
  <2>1. Preceding(t, x) \cup {x} \in SUBSET Items
    BY <1>1
  <2>2. /\ Cardinality(Preceding(t, x) \cup {x}) <= Cardinality(Items)
        /\ Cardinality(Items) \in Nat
    BY <2>1, Constants, FS_Subset, FS_CardinalityType
  <2> QED
    BY <1>2, <1>3, <2>2, EfimRunConstants
<1>5. ASSUME NEW y \in Present(t), Before(twu, x, y)
      PROVE  Position(t, y) >= Position(t, x) + 1
  <2>1. Preceding(t, x) \cup {x} \in SUBSET Preceding(t, y)
    BY <1>1, <1>5, RankOrder DEF Preceding, Ordered
  <2>2. Cardinality(Preceding(t, x) \cup {x}) <= Cardinality(Preceding(t, y))
    BY <1>1, <2>1, FS_Subset
  <2> QED
    BY <1>2, <1>3, <2>2
<1>6. ASSUME NEW y \in Present(t), ~Before(twu, x, y)
      PROVE  ~(Position(t, y) >= Position(t, x) + 1)
  <2>1. Preceding(t, y) \in SUBSET Preceding(t, x)
    BY <1>1, <1>6, RankOrder DEF Preceding, Ordered
  <2>2. Cardinality(Preceding(t, y)) <= Cardinality(Preceding(t, x))
    BY <1>1, <2>1, FS_Subset
  <2> QED
    BY <1>2, <2>2
<1> QED
  BY <1>2, <1>4, <1>5, <1>6

LEMMA OneMore ==
  ASSUME Ordered, NEW t \in Tids, NEW S \in SUBSET Items, NEW x \in Items, x \notin S
  PROVE  ItemSum(S \cup {x}, db[t]) = ItemSum(S, db[t]) + db[t][x]
<1>1. x \in Items \ S /\ db \in Databases
  BY DEF Ordered
<1> QED
  BY <1>1, ItemSums

\* What is behind an item in its transaction, and what it is worth.
LEMMA Rest ==
  ASSUME Ordered, NEW t \in Tids, NEW x \in Present(t)
  PROVE  /\ From(t, Position(t, x) + 1) = Following(t, x)
         /\ From(t, 0) = Present(t)
         /\ Remaining(t, x) = ItemSum(Following(t, x), db[t])
         /\ Remaining(t, x) \in Nat /\ db[t][x] \in Nat
         /\ (Position(t, x) + 1) % OffsetLimit = Position(t, x) + 1
         /\ \A y \in Following(t, x) : db[t][y] + Remaining(t, y) <= Remaining(t, x)
<1>1. /\ \A y : IsFiniteSet(Following(t, y)) /\ Following(t, y) \in SUBSET Items
      /\ Present(t) \in SUBSET DOMAIN twu /\ DOMAIN twu \in SUBSET Items
      /\ db[t] \in [Items -> 0..MaxUtility]
  BY PresentItems
<1>2. From(t, Position(t, x) + 1) = Following(t, x)
  BY Places DEF From, Following
<1>3. From(t, 0) = Present(t)
  <2>1. \A y \in Present(t) : Position(t, y) >= 0
    BY Places
  <2> QED
    BY <2>1 DEF From
<1>4. \A y : Remaining(t, y) = ItemSum(Following(t, y), db[t])
  BY DEF Remaining, Following
<1>5. \A y : Remaining(t, y) \in Nat
  BY <1>1, <1>4, ItemSums DEF Ordered
<1>6. (Position(t, x) + 1) % OffsetLimit = Position(t, x) + 1
  <2>1. \A n \in Nat : \A m \in Nat : n < m => n % m = n
    OBVIOUS
  <2> QED
    BY <2>1, Places, EfimRunConstants
<1>7. ASSUME NEW y \in Following(t, x)
      PROVE  db[t][y] + Remaining(t, y) <= Remaining(t, x)
  <2>1. y \in Items /\ y \in Present(t) /\ y \notin Following(t, y)
    BY <1>1, <1>7, RankOrder DEF Following, Ordered
  <2>2. ItemSum(Following(t, y) \cup {y}, db[t]) = ItemSum(Following(t, y), db[t]) + db[t][y]
    BY <1>1, <2>1, OneMore
  <2>3. Following(t, y) \cup {y} \in SUBSET Following(t, x)
    BY <1>1, <1>7, RankOrder DEF Following, Ordered
  <2>4. ItemSum(Following(t, y) \cup {y}, db[t]) <= ItemSum(Following(t, x), db[t])
    BY <1>1, <2>3, Constants, FootprintMonotone DEF ItemSum
  <2>5. db[t][y] \in Nat
    BY <1>1, <2>1
  <2> QED
    BY <1>4, <1>5, <2>2, <2>4, <2>5
<1>8. db[t][x] \in Nat
  BY <1>1
<1> QED
  BY <1>2, <1>3, <1>4, <1>5, <1>6, <1>7, <1>8

-----------------------------------------------------------------------------
(* Projections *)

\* The last item of an itemset.
EndsWith(S, x) == x \in S /\ \A y \in S \ {x} : Before(twu, y, x)

LEMMA LastIs ==
  ASSUME Ranks(twu), NEW S \in SUBSET DOMAIN twu, NEW x, EndsWith(S, x)
  PROVE  LastIn(S) = x
<1>1. x \in S /\ \A y \in S \ {x} : Before(twu, y, x)
  BY DEF EndsWith
<1>2. \A y \in S : (\A z \in S \ {y} : Before(twu, z, y)) => y = x
  BY <1>1, RankOrder
<1> QED
  BY <1>1, <1>2 DEF LastIn

LEMMA Extended ==
  ASSUME Ranks(twu), NEW S \in SUBSET DOMAIN twu, NEW l, EndsWith(S, l),
         NEW x \in DOMAIN twu, Before(twu, l, x)
  PROVE  /\ x \notin S /\ EndsWith(S \cup {x}, x)
         /\ \A y \in S : Before(twu, y, x)
BY RankOrder DEF EndsWith

\* The transactions that have an itemset, and an item behind it.
LEMMA HoldingOf ==
  ASSUME Ordered, NEW S \in SUBSET DOMAIN twu, NEW l, EndsWith(S, l), NEW x \in DOMAIN twu
  PROVE  /\ Holding(ProjectionOf(S), x)
              = IF Before(twu, l, x) THEN Supporting(db, S \cup {x}) ELSE {}
         /\ Holding(Whole, x) = Supporting(db, {x})
<1>1. DOMAIN twu \in SUBSET Items /\ LastIn(S) = l /\ l \in S
  BY LastIs DEF Ordered, Ranks, EndsWith
<1>2. Supporting(db, S) \in SUBSET Tids
  BY DEF Supporting
<1>3. \A t \in Tids : x \in Present(t) <=> db[t][x] > 0
  BY DEF Present
<1>4. ASSUME NEW t \in Supporting(db, S)
      PROVE  x \in From(t, ProjectionOf(S)[t].offset) <=> x \in Present(t) /\ Before(twu, l, x)
  <2>1. t \in Tids /\ l \in Present(t) /\ l \in DOMAIN twu
    BY <1>1, <1>2, <1>4 DEF Supporting, HasAll, Present
  <2>2. ProjectionOf(S)[t].offset = Position(t, l) + 1
    BY <1>1, <1>4 DEF ProjectionOf
  <2> QED
    BY <2>1, <2>2, Rest DEF Following
<1>5. Holding(ProjectionOf(S), x)
        = {t \in Supporting(db, S) : x \in Present(t) /\ Before(twu, l, x)}
  BY <1>4 DEF Holding, ProjectionOf
<1>6. Supporting(db, S \cup {x}) = {t \in Supporting(db, S) : x \in Present(t)}
  BY <1>2, <1>3 DEF Supporting, HasAll
<1>7. Holding(Whole, x) = Supporting(db, {x})
  <2>1. \A t \in Tids : x \in From(t, 0) <=> x \in Present(t)
    BY Rest DEF From
  <2> QED
    BY <1>3, <2>1 DEF Holding, Whole, Supporting, HasAll
<1> QED
  BY <1>5, <1>6, <1>7

LEMMA ProjectionType ==
  ASSUME Ordered, NEW S \in SUBSET DOMAIN twu, NEW x, EndsWith(S, x)
  PROVE  /\ DOMAIN ProjectionOf(S) = Supporting(db, S) /\ Supporting(db, S) \in SUBSET Tids
         /\ \A t \in Supporting(db, S) :
              /\ x \in Present(t) /\ t \in Tids
              /\ ProjectionOf(S)[t].offset = Position(t, x) + 1
              /\ ProjectionOf(S)[t].prefix = ItemSum(S, db[t])
              /\ ProjectionOf(S)[t].path = ItemSum(S, db[t]) + Remaining(t, x)
              /\ Position(t, x) \in Nat /\ ItemSum(S, db[t]) \in Nat /\ Remaining(t, x) \in Nat
<1>1. LastIn(S) = x /\ x \in S /\ DOMAIN twu \in SUBSET Items
  BY LastIs DEF Ordered, Ranks, EndsWith
<1>2. Supporting(db, S) \in SUBSET Tids
  BY DEF Supporting
<1>3. ASSUME NEW t \in Supporting(db, S)
      PROVE  /\ x \in Present(t) /\ t \in Tids
             /\ Position(t, x) \in Nat /\ ItemSum(S, db[t]) \in Nat /\ Remaining(t, x) \in Nat
  <2>1. x \in Present(t) /\ t \in Tids
    BY <1>1, <1>2 DEF Supporting, HasAll, Present
  <2>2. ItemSum(S, db[t]) \in Nat
    BY <1>1, <2>1, ItemSums DEF Ordered
  <2> QED
    BY <2>1, <2>2, Places, Rest
<1> QED
  BY <1>1, <1>2, <1>3 DEF ProjectionOf

\* What Projected makes of the projection of an itemset is the projection of the itemset
\* and the item.
LEMMA ProjectedOf ==
  ASSUME Ordered, NEW S \in SUBSET DOMAIN twu, NEW l, EndsWith(S, l),
         NEW x \in DOMAIN twu, Before(twu, l, x)
  PROVE  Projected(ProjectionOf(S), x) = ProjectionOf(S \cup {x})
<1> DEFINE T == S \cup {x}
<1>1. /\ T \in SUBSET DOMAIN twu /\ EndsWith(T, x) /\ x \notin S
      /\ DOMAIN twu \in SUBSET Items /\ db \in Databases
  BY Extended DEF Ordered, Ranks
<1>2. LastIn(T) = x
  BY <1>1, LastIs DEF Ordered
<1>3. Holding(ProjectionOf(S), x) = Supporting(db, T)
  BY HoldingOf
<1>4. ASSUME NEW t \in Supporting(db, T)
      PROVE  /\ (Position(t, x) + 1) % OffsetLimit = Position(t, x) + 1
             /\ ProjectionOf(S)[t].prefix + db[t][x] = ItemSum(T, db[t])
  <2>1. t \in Supporting(db, S) /\ t \in Tids /\ x \in Present(t)
    BY <1>1, <1>4 DEF Supporting, HasAll, Present
  <2>2. (Position(t, x) + 1) % OffsetLimit = Position(t, x) + 1
    BY <2>1, Rest
  <2>3. ItemSum(T, db[t]) = ItemSum(S, db[t]) + db[t][x]
    BY <1>1, <2>1, OneMore
  <2>4. ProjectionOf(S)[t].prefix = ItemSum(S, db[t])
    BY <2>1 DEF ProjectionOf
  <2> QED
    BY <2>2, <2>3, <2>4
<1> HIDE DEF T
<1>5. Projected(ProjectionOf(S), x) = ProjectionOf(T)
  BY <1>2, <1>3, <1>4 DEF Projected, ProjectionOf
<1> QED
  BY <1>5 DEF T

LEMMA ProjectedWhole ==
  ASSUME Ordered, NEW x \in DOMAIN twu
  PROVE  /\ Projected(Whole, x) = ProjectionOf({x})
         /\ EndsWith({x}, x) /\ {x} \in SUBSET DOMAIN twu
<1>1. EndsWith({x}, x) /\ {x} \in SUBSET DOMAIN twu
  BY DEF EndsWith
<1>2. LastIn({x}) = x /\ DOMAIN twu \in SUBSET Items
  BY <1>1, LastIs DEF Ordered, Ranks
<1>3. Holding(Whole, x) = Supporting(db, {x})
  BY <1>1, HoldingOf
<1>4. ASSUME NEW t \in Supporting(db, {x})
      PROVE  /\ (Position(t, x) + 1) % OffsetLimit = Position(t, x) + 1
             /\ Whole[t].prefix + db[t][x] = ItemSum({x}, db[t])
  <2>1. t \in Tids /\ x \in Present(t)
    BY <1>4 DEF Supporting, HasAll, Present
  <2>2. (Position(t, x) + 1) % OffsetLimit = Position(t, x) + 1 /\ db[t][x] \in Nat
    BY <2>1, Rest
  <2>3. ItemSum({x}, db[t]) = db[t][x]
    BY <1>2, <2>1, ItemSums DEF Ordered
  <2>4. Whole[t].prefix = 0
    BY <2>1 DEF Whole
  <2> QED
    BY <2>2, <2>3, <2>4
<1>5. Projected(Whole, x) = ProjectionOf({x})
  BY <1>2, <1>3, <1>4 DEF Projected, ProjectionOf
<1> QED
  BY <1>1, <1>5

LEMMA UtilityOf ==
  ASSUME Ordered, NEW S \in SUBSET DOMAIN twu, NEW x, EndsWith(S, x)
  PROVE  UtilityIn(ProjectionOf(S)) = Utility(db, S)
<1> DEFINE own == [t \in Supporting(db, S) |-> ProjectionOf(S)[t].prefix]
           part == [t \in Tids |-> ItemSum(S, db[t])]
<1>1. DOMAIN ProjectionOf(S) = Supporting(db, S)
  BY ProjectionType
<1>2. \A t \in Supporting(db, S) : own[t] = part[t]
  BY ProjectionType
<1> HIDE DEF own, part
<1>3. Footprint(Supporting(db, S), own, TidMax) = Footprint(Supporting(db, S), part, TidMax)
  BY <1>2, FootprintSame
<1> QED
  BY <1>1, <1>3 DEF UtilityIn, Utility, TidSum, TidMax, own, part

\* The bound that decides whether an extension is visited covers everything that is searched
\* below it, and the other bound is no smaller.
LEMMA Bounds ==
  ASSUME Ordered, NEW S \in SUBSET DOMAIN twu, NEW l, EndsWith(S, l),
         NEW x \in DOMAIN twu, Before(twu, l, x)
  PROVE  /\ SubtreeUtility(ProjectionOf(S), x) \in Nat
         /\ LocalUtility(ProjectionOf(S), x) \in Nat
         /\ SubtreeUtility(ProjectionOf(S), x) <= LocalUtility(ProjectionOf(S), x)
         /\ \A T \in SUBSET DOMAIN twu :
              S \cup {x} \in SUBSET T /\ (\A y \in T \ (S \cup {x}) : Before(twu, x, y))
                => Utility(db, T) <= SubtreeUtility(ProjectionOf(S), x)
<1> DEFINE holding == Supporting(db, S \cup {x})
           proj == ProjectionOf(S)
           below == [t \in holding |-> proj[t].prefix + db[t][x] + Remaining(t, x)]
           local == [t \in holding |-> proj[t].path]
<1>1. Holding(proj, x) = holding
  BY HoldingOf
<1>2. /\ x \notin S /\ DOMAIN twu \in SUBSET Items /\ db \in Databases
      /\ S \cup {x} \in SUBSET Items /\ TidMax \in Nat
  BY Extended, TidMaxType DEF Ordered, Ranks
<1>3. holding \in SUBSET Tids /\ IsFiniteSet(holding) /\ holding \in SUBSET Supporting(db, S)
  BY <1>2, SupportingTids
<1>4. ASSUME NEW t \in holding
      PROVE  /\ below[t] = ItemSum(S \cup {x}, db[t]) + Remaining(t, x)
             /\ below[t] \in Nat /\ local[t] \in Nat /\ below[t] <= local[t]
             /\ t \in Tids /\ x \in Present(t)
  <2>1. t \in Supporting(db, S) /\ t \in Tids /\ x \in Present(t)
    BY <1>3 DEF Supporting, HasAll, Present
  <2>2. /\ l \in Present(t) /\ proj[t].prefix = ItemSum(S, db[t])
        /\ proj[t].path = ItemSum(S, db[t]) + Remaining(t, l)
        /\ ItemSum(S, db[t]) \in Nat /\ Remaining(t, l) \in Nat
    BY <2>1, ProjectionType
  <2>3. ItemSum(S \cup {x}, db[t]) = ItemSum(S, db[t]) + db[t][x]
    BY <1>2, <2>1, OneMore
  <2>4. Remaining(t, x) \in Nat /\ db[t][x] \in Nat
    BY <2>1, Rest
  <2>5. db[t][x] + Remaining(t, x) <= Remaining(t, l)
    <3>1. x \in Following(t, l)
      BY <2>1 DEF Following
    <3> QED
      BY <2>1, <2>2, <3>1, Rest
  <2>6. below[t] = ItemSum(S, db[t]) + db[t][x] + Remaining(t, x)
        /\ local[t] = ItemSum(S, db[t]) + Remaining(t, l)
    BY <1>4, <2>2
  <2> HIDE DEF below, local
  <2> QED
    BY <2>1, <2>2, <2>3, <2>4, <2>5, <2>6
<1>5. /\ SubtreeUtility(proj, x) = Footprint(holding, below, TidMax)
      /\ LocalUtility(proj, x) = Footprint(holding, local, TidMax)
  BY <1>1 DEF SubtreeUtility, LocalUtility, TidSum, TidMax
<1> HIDE DEF below, local, proj
<1>6. /\ Footprint(holding, below, TidMax) \in Nat
      /\ Footprint(holding, local, TidMax) \in Nat
      /\ Footprint(holding, below, TidMax) <= Footprint(holding, local, TidMax)
  <2> HIDE DEF holding
  <2>1. holding \in SUBSET holding
    OBVIOUS
  <2> QED
    BY <1>2, <1>3, <1>4, <2>1, BytesFinite, FootprintCovered
<1>7. ASSUME NEW T \in SUBSET DOMAIN twu,
             S \cup {x} \in SUBSET T, \A y \in T \ (S \cup {x}) : Before(twu, x, y)
      PROVE  Utility(db, T) <= Footprint(holding, below, TidMax)
  <2> DEFINE part == [t \in Tids |-> ItemSum(T, db[t])]
  <2>1. T \in SUBSET Items /\ Supporting(db, T) \in SUBSET holding
        /\ Supporting(db, T) \in SUBSET Tids
    BY <1>2, <1>7, SupportingTids
  <2>2. ASSUME NEW t \in Supporting(db, T)
        PROVE  part[t] \in Nat /\ part[t] <= below[t]
    <3>1. /\ t \in Tids /\ t \in holding /\ x \in Present(t)
          /\ below[t] = ItemSum(S \cup {x}, db[t]) + Remaining(t, x) /\ below[t] \in Nat
      BY <1>4, <2>1
    <3>2. part[t] = ItemSum(T, db[t]) /\ ItemSum(T, db[t]) \in Nat
      BY <1>2, <2>1, <3>1, ItemSums
    <3>3. T \in SUBSET (S \cup {x} \cup Following(t, x))
      <4>1. T \in SUBSET Present(t)
        BY <1>7, <2>2 DEF Supporting, HasAll, Present
      <4> QED
        BY <1>7, <4>1 DEF Following
    <3>4. Following(t, x) \in SUBSET Items
      BY <3>1, PresentItems
    <3>5. ItemSum(T, db[t]) <= ItemSum(S \cup {x}, db[t]) + ItemSum(Following(t, x), db[t])
      BY <1>2, <3>1, <3>3, <3>4, ItemSumCovered
    <3>6. Remaining(t, x) = ItemSum(Following(t, x), db[t])
      BY <3>1, Rest
    <3> QED
      BY <3>1, <3>2, <3>5, <3>6
  <2>3. Utility(db, T) = Footprint(Supporting(db, T), part, TidMax)
    BY DEF Utility, TidSum, TidMax
  <2> HIDE DEF part, holding
  <2>4. Footprint(Supporting(db, T), part, TidMax) <= Footprint(holding, below, TidMax)
    BY <1>2, <1>3, <1>4, <2>1, <2>2, FootprintCovered
  <2> QED
    BY <2>3, <2>4
<1> QED
  BY <1>5, <1>6, <1>7 DEF proj

-----------------------------------------------------------------------------
(* The invariant *)

Sealed(S) == \A x \in Items \ S : Supporting(db, S \cup {x}) # Supporting(db, S)

\* What the run has to write.
EfimWanted ==
  {S \in (SUBSET Items) \ {{}} :
     /\ Supporting(db, S) # {} /\ Utility(db, S) >= mode.minUtility
     /\ Closes => Sealed(S)}

EfimEntry(S) == [itemset |-> S, utility |-> Utility(db, S)]

EfimGiven ==
  /\ db \in Databases /\ db \in MinedDatabases
  /\ mode \in Modes /\ mode.algorithm \in EfimAlgorithms

Filtered == twu = TwuFilter(db, mode.minUtility)

Projections == UNION {[T -> [offset : Nat, prefix : Nat, path : Nat]] : T \in SUBSET Tids}

EfimFrames == [itemset : SUBSET Items, proj : Projections, onDisk : BOOLEAN, begun : BOOLEAN,
           left : SUBSET Items]

EfimTypes ==
  /\ phase \in {"filter", "load", "search", "done"}
  /\ DOMAIN twu \in SUBSET Items /\ todo \in SUBSET DOMAIN twu
  /\ used \in Nat /\ refused \in BOOLEAN /\ failed \in BOOLEAN
  /\ stack \in [Threads -> Seq(EfimFrames)]

EfimPhases ==
  /\ phase = "filter" => todo = {}
  /\ phase # "filter" => Filtered
  /\ phase # "search" => \A w \in Threads : ~Busy(w)
  /\ phase = "done" => todo = {}

\* A call has the projection of its itemset, some transaction has the itemset, and what it
\* still visits has passed the bound.
EfimFrameRight(f) ==
  /\ f.itemset \in SUBSET DOMAIN twu /\ \E x \in f.itemset : EndsWith(f.itemset, x)
  /\ Supporting(db, f.itemset) # {}
  /\ f.proj = ProjectionOf(f.itemset)
  /\ f.left \in SUBSET Valid(f.proj)

EfimFramesRight == \A w \in Threads : \A f \in Members(stack[w]) : EfimFrameRight(f)

\* Nothing is written that is not to be.
EfimSound == \A e \in found : \E S \in EfimWanted : e = EfimEntry(S)

Begins(S, x) == x \in S /\ \A y \in S \ {x} : Before(twu, x, y)

\* An itemset is an itemset and items behind it.
Extends(T, S) == S \in SUBSET T /\ T # S /\ \A x \in S : \A y \in T \ S : Before(twu, x, y)

\* The search below a call comes to an itemset: through the first item it adds.
EfimLeadsTo(f, T) ==
  /\ Extends(T, f.itemset)
  /\ f.begun => \E x \in f.left : Begins(T \ f.itemset, x)

EfimToCome(T) ==
  \/ \E x \in todo : Begins(T, x)
  \/ \E w \in Threads : \E f \in Members(stack[w]) : EfimLeadsTo(f, T)

\* What is to be written is written, or a task or a call still comes to it.
EfimComplete ==
  failed \/ phase \in {"filter", "load"} \/ \A S \in EfimWanted : EfimEntry(S) \in found \/ EfimToCome(S)

EfimIInv == EfimGiven /\ EfimTypes /\ EfimPhases /\ EfimFramesRight /\ EfimSound /\ EfimComplete

-----------------------------------------------------------------------------
(* Facts of the search *)

\* What the filter leaves.
LEMMA FilterFacts ==
  ASSUME EfimGiven, Filtered
  PROVE  /\ Ordered /\ DOMAIN twu \in SUBSET Items
         /\ mode.minUtility \in Nat \ {0}
         /\ \A x \in Items :
              x \in DOMAIN twu <=> Supporting(db, {x}) # {} /\ Twu(db, {x}) >= mode.minUtility
<1>1. db \in Databases /\ mode.minUtility \in Nat \ {0}
  BY EfimRunConstants DEF EfimGiven
<1>2. /\ DOMAIN twu = {y \in Items : Supporting(db, {y}) # {} /\ Twu(db, {y}) >= mode.minUtility}
      /\ \A x \in DOMAIN twu : twu[x] = Twu(db, {x})
  BY DEF Filtered, TwuFilter
<1>3. \A x \in DOMAIN twu : twu[x] \in Nat
  <2>1. ASSUME NEW x \in DOMAIN twu
        PROVE  Twu(db, {x}) \in Nat
    <3>1. {x} \in SUBSET Items
      BY <1>2
    <3> QED
      BY <1>1, <3>1, TwuCovers
  <2> QED
    BY <1>2, <2>1
<1> QED
  BY <1>1, <1>2, <1>3 DEF Ordered, Ranks

\* An item that is in all transactions of an itemset of high utility has passed the filter.
LEMMA SharedItem ==
  ASSUME EfimGiven, Filtered, NEW S \in SUBSET Items, Supporting(db, S) # {},
         Utility(db, S) >= mode.minUtility,
         NEW x \in Items, \A t \in Supporting(db, S) : db[t][x] > 0
  PROVE  x \in DOMAIN twu
<1> DEFINE part == [t \in Tids |-> ItemSum(S, db[t])]
           whole == [t \in Tids |-> TransactionUtility(db, t)]
<1>1. db \in Databases /\ mode.minUtility \in Nat /\ {x} \in SUBSET Items
  BY FilterFacts DEF EfimGiven
<1>2. /\ Supporting(db, S) \in SUBSET Tids
      /\ Supporting(db, {x}) \in SUBSET Tids /\ IsFiniteSet(Supporting(db, {x}))
  BY <1>1, SupportingTids
<1>3. Supporting(db, S) \in SUBSET Supporting(db, {x})
  BY <1>2 DEF Supporting, HasAll
<1>4. \A t \in Supporting(db, S) : part[t] \in Nat /\ whole[t] \in Nat /\ part[t] <= whole[t]
  BY <1>1, <1>2, ItemSums
<1> HIDE DEF part, whole
<1>5. Footprint(Supporting(db, S), part, TidMax) <= Footprint(Supporting(db, {x}), whole, TidMax)
  BY <1>2, <1>3, <1>4, TidMaxType, FootprintCovered
<1>6. Utility(db, S) <= Twu(db, {x})
  BY <1>5 DEF Utility, Twu, TidSum, TidMax, part, whole
<1>7. Utility(db, S) \in Nat /\ Twu(db, {x}) \in Nat
  <2>1. S \in SUBSET S /\ {x} \in SUBSET {x}
    OBVIOUS
  <2> QED
    BY <1>1, <2>1, TwuCovers
<1>8. Twu(db, {x}) >= mode.minUtility /\ Supporting(db, {x}) # {}
  <2> DEFINE u == Utility(db, S)
             bound == Twu(db, {x})
  <2>1. u \in Nat /\ bound \in Nat /\ u <= bound /\ u >= mode.minUtility
    BY <1>6, <1>7
  <2> HIDE DEF u, bound
  <2>2. bound >= mode.minUtility
    BY <1>1, <2>1
  <2>3. Supporting(db, {x}) # {}
    BY <1>3
  <2> QED
    BY <2>2, <2>3 DEF bound
<1> QED
  BY <1>8, FilterFacts

LEMMA FirstTid ==
  ASSUME NEW proj \in Projections, DOMAIN proj # {}
  PROVE  First(proj) \in DOMAIN proj
<1>1. DOMAIN proj \in SUBSET Nat
  BY Constants DEF Projections
<1>2. \E t \in DOMAIN proj : \A u \in DOMAIN proj : t <= u
  BY <1>1, LeastNumber
<1> QED
  BY <1>2 DEF First

LEMMA ProjectionIn ==
  ASSUME Ordered, NEW S \in SUBSET DOMAIN twu, NEW x, EndsWith(S, x)
  PROVE  ProjectionOf(S) \in Projections
<1> DEFINE entry == [offset : Nat, prefix : Nat, path : Nat]
<1>1. ASSUME NEW t \in Supporting(db, S)
      PROVE  ProjectionOf(S)[t] \in entry
  <2>1. /\ LastIn(S) = x /\ Position(t, x) \in Nat /\ ItemSum(S, db[t]) \in Nat
        /\ Remaining(t, x) \in Nat
    BY <1>1, ProjectionType, LastIs DEF Ordered
  <2> QED
    BY <1>1, <2>1 DEF ProjectionOf
<1> HIDE DEF entry
<1>2. ProjectionOf(S) \in [Supporting(db, S) -> entry] /\ Supporting(db, S) \in SUBSET Tids
  BY <1>1, ProjectionType DEF ProjectionOf
<1> QED
  BY <1>2 DEF Projections, entry

\* EFIM-Closed looks at the items of the first transaction only, and only at those the
\* filter has left: that is enough for an itemset it would write.
LEMMA ClosedTest ==
  ASSUME EfimGiven, Filtered, NEW S \in SUBSET DOMAIN twu, NEW l, EndsWith(S, l),
         Supporting(db, S) # {}, Utility(db, S) >= mode.minUtility
  PROVE  IsClosed(S, ProjectionOf(S)) <=> Sealed(S)
<1> DEFINE proj == ProjectionOf(S)
<1>1. Ordered /\ S \in SUBSET Items /\ db \in Databases /\ DOMAIN twu \in SUBSET Items
  BY FilterFacts DEF EfimGiven
<1>2. DOMAIN proj = Supporting(db, S) /\ Supporting(db, S) \in SUBSET Tids
  BY <1>1, ProjectionType
<1>3. First(proj) \in Supporting(db, S)
  <2>1. proj \in Projections
    BY <1>1, ProjectionIn
  <2> HIDE DEF proj
  <2> QED
    BY <1>2, <2>1, FirstTid
<1>4. IsClosed(S, proj)
        <=> ~ \E y \in DOMAIN twu \ S : \A t \in Supporting(db, S) : db[t][y] > 0
  <2> HIDE DEF proj
  <2> QED
    BY <1>2, <1>3 DEF IsClosed, Present
<1>5. Sealed(S) <=> ~ \E y \in Items \ S : \A t \in Supporting(db, S) : db[t][y] > 0
  <2>1. ASSUME NEW y \in Items \ S
        PROVE  Supporting(db, S \cup {y}) = Supporting(db, S)
                 <=> \A t \in Supporting(db, S) : db[t][y] > 0
    <3>1. Supporting(db, S \cup {y}) = {t \in Supporting(db, S) : db[t][y] > 0}
      BY <1>2 DEF Supporting, HasAll
    <3> QED
      BY <3>1
  <2> QED
    BY <2>1 DEF Sealed
<1>6. \A y \in Items : (\A t \in Supporting(db, S) : db[t][y] > 0) => y \in DOMAIN twu
  BY <1>1, SharedItem
<1> QED
  BY <1>1, <1>4, <1>5, <1>6

LEMMA WantedItems ==
  ASSUME EfimGiven, Filtered, NEW S \in EfimWanted
  PROVE  /\ S \in SUBSET DOMAIN twu /\ S # {}
         /\ Utility(db, S) \in Nat /\ Utility(db, S) >= mode.minUtility
         /\ \A T \in SUBSET S : Supporting(db, T) # {}
<1>1. /\ S \in SUBSET Items /\ S # {} /\ Supporting(db, S) # {} /\ db \in Databases
      /\ Utility(db, S) >= mode.minUtility
  BY DEF EfimWanted, EfimGiven
<1>2. \A T \in SUBSET S : Supporting(db, T) # {}
  BY <1>1, SupportingTids
<1>3. ASSUME NEW x \in S
      PROVE  x \in DOMAIN twu
  <2>1. \A t \in Supporting(db, S) : db[t][x] > 0
    BY <1>3 DEF Supporting, HasAll
  <2> QED
    BY <1>1, <2>1, SharedItem
<1>4. Utility(db, S) \in Nat
  <2>1. S \in SUBSET S
    OBVIOUS
  <2> QED
    BY <1>1, <2>1, TwuCovers
<1> QED
  BY <1>1, <1>2, <1>3, <1>4

\* What Report does with the projection of an itemset.
LEMMA Reports ==
  ASSUME EfimGiven, Filtered, EfimSound, NEW S \in SUBSET DOMAIN twu, NEW l, EndsWith(S, l),
         Supporting(db, S) # {}, Report(S, ProjectionOf(S))
  PROVE  /\ \A e \in found' : \E T \in EfimWanted : e = EfimEntry(T)
         /\ found \subseteq found'
         /\ S \in EfimWanted => EfimEntry(S) \in found'
<1>1. Ordered /\ S \in SUBSET Items /\ S # {}
  BY FilterFacts DEF EndsWith
<1>2. UtilityIn(ProjectionOf(S)) = Utility(db, S)
  BY <1>1, UtilityOf
<1>3. found' = IF Closes /\ ~IsClosed(S, ProjectionOf(S)) THEN found
               ELSE IF Utility(db, S) >= mode.minUtility THEN found \cup {EfimEntry(S)}
               ELSE found
  BY <1>2 DEF Report, FoundWith, EfimEntry
<1>4. Utility(db, S) >= mode.minUtility => (IsClosed(S, ProjectionOf(S)) <=> Sealed(S))
  BY ClosedTest
<1>5. S \in EfimWanted <=> Utility(db, S) >= mode.minUtility /\ (Closes => Sealed(S))
  BY <1>1 DEF EfimWanted
<1>6. \A e \in found : \E T \in EfimWanted : e = EfimEntry(T)
  BY DEF EfimSound
<1> QED
  BY <1>3, <1>4, <1>5, <1>6

-----------------------------------------------------------------------------
(* Steps of the search *)

\* What a step does not change, because it does not change the database.
LEMMA EfimKept ==
  ASSUME UNCHANGED <<db, mode>>
  PROVE  /\ EfimWanted' = EfimWanted /\ \A S : EfimEntry(S)' = EfimEntry(S)
         /\ Closes' = Closes /\ (EfimGiven => EfimGiven')
         /\ TwuFilter(db, mode.minUtility)' = TwuFilter(db, mode.minUtility)
<1>1. \A S : Supporting(db, S)' = Supporting(db, S)
  BY DEF Supporting, HasAll
<1>2. \A S : Utility(db, S)' = Utility(db, S) /\ Twu(db, S)' = Twu(db, S)
  BY <1>1 DEF Utility, Twu, TidSum, ItemSum, TransactionUtility
<1>3. Closes' = Closes /\ (EfimGiven => EfimGiven')
  BY DEF Closes, EfimGiven
<1>4. \A S : Sealed(S)' = Sealed(S)
  BY <1>1 DEF Sealed
<1>5. EfimWanted' = EfimWanted /\ \A S : EfimEntry(S)' = EfimEntry(S)
  BY <1>1, <1>2, <1>3, <1>4 DEF EfimWanted, EfimEntry
<1>6. TwuFilter(db, mode.minUtility)' = TwuFilter(db, mode.minUtility)
  BY <1>1, <1>2 DEF TwuFilter
<1> QED
  BY <1>3, <1>5, <1>6

\* Nor does it change what is made of the database, unless it filters it.
LEMMA FramesKept ==
  ASSUME UNCHANGED <<db, mode, twu>>
  PROVE  /\ \A f : EfimFrameRight(f)' = EfimFrameRight(f)
         /\ \A f, S : EfimLeadsTo(f, S)' = EfimLeadsTo(f, S)
         /\ \A S, x : Begins(S, x)' = Begins(S, x)
<1>1. /\ \A S : Supporting(db, S)' = Supporting(db, S)
      /\ \A x, y : Before(twu, x, y)' = Before(twu, x, y)
      /\ \A t : Present(t)' = Present(t)
  BY DEF Supporting, HasAll, Before, Present
<1>2. /\ \A S, x : EndsWith(S, x)' = EndsWith(S, x) /\ Begins(S, x)' = Begins(S, x)
      /\ \A f, S : EfimLeadsTo(f, S)' = EfimLeadsTo(f, S)
      /\ \A S : LastIn(S)' = LastIn(S)
  BY <1>1 DEF EndsWith, Begins, EfimLeadsTo, Extends, LastIn
<1>3. \A t, x : Position(t, x)' = Position(t, x) /\ Remaining(t, x)' = Remaining(t, x)
  BY <1>1 DEF Position, Remaining, ItemSum
<1>4. \A S : ProjectionOf(S)' = ProjectionOf(S)
  BY <1>1, <1>2, <1>3 DEF ProjectionOf, ItemSum
<1>5. \A proj, x : Holding(proj, x)' = Holding(proj, x)
  BY <1>1, <1>3 DEF Holding, From
<1>6. \A proj, x : SubtreeUtility(proj, x)' = SubtreeUtility(proj, x)
  BY <1>3, <1>5 DEF SubtreeUtility, TidSum
<1>7. \A proj : Valid(proj)' = Valid(proj)
  BY <1>5, <1>6 DEF Valid
<1>8. \A f : EfimFrameRight(f)' = EfimFrameRight(f)
  BY <1>1, <1>2, <1>4, <1>7 DEF EfimFrameRight
<1> QED
  BY <1>2, <1>8

\* A step of a thread keeps the invariant if its new stack has right frames and still
\* leads to what the old one led to.
LEMMA EfimSearchStep ==
  ASSUME EfimIInv, phase = "search", NEW w \in Threads, NEW s \in Seq(EfimFrames),
         UNCHANGED <<db, mode, phase, twu>>,
         stack' = [stack EXCEPT ![w] = s],
         todo' \in SUBSET todo, used' \in Nat, refused' \in BOOLEAN,
         failed' \in BOOLEAN, failed => failed',
         found \subseteq found', \A e \in found' : \E T \in EfimWanted : e = EfimEntry(T),
         \A f \in Members(s) : EfimFrameRight(f),
         failed' \/ \A T \in EfimWanted :
           \/ \E x \in todo \ todo' : Begins(T, x)
           \/ \E f \in Members(stack[w]) : EfimLeadsTo(f, T)
           => EfimEntry(T) \in found' \/ \E f \in Members(s) : EfimLeadsTo(f, T)
  PROVE  EfimIInv'
<1> HIDE DEF EfimFrames
<1>1. /\ EfimWanted' = EfimWanted /\ \A S : EfimEntry(S)' = EfimEntry(S)
      /\ TwuFilter(db, mode.minUtility)' = TwuFilter(db, mode.minUtility)
      /\ EfimGiven'
  BY EfimKept DEF EfimIInv
<1>2. /\ \A f : EfimFrameRight(f)' = EfimFrameRight(f)
      /\ \A f, S : EfimLeadsTo(f, S)' = EfimLeadsTo(f, S)
      /\ \A S, x : Begins(S, x)' = Begins(S, x)
  BY FramesKept
<1>3. stack \in [Threads -> Seq(EfimFrames)]
  BY DEF EfimIInv, EfimTypes
<1>4. stack'[w] = s /\ \A v \in Threads \ {w} : stack'[v] = stack[v]
  BY <1>3
<1>5. EfimTypes'
  <2>1. stack' \in [Threads -> Seq(EfimFrames)]
    BY <1>3
  <2> QED
    BY <2>1 DEF EfimIInv, EfimTypes
<1>6. EfimPhases'
  BY <1>1 DEF EfimIInv, EfimPhases, Filtered
<1>7. EfimFramesRight'
  <2>1. ASSUME NEW v \in Threads, NEW f \in Members(stack'[v])
        PROVE  EfimFrameRight(f)
    BY <1>4, <2>1 DEF EfimIInv, EfimFramesRight
  <2> QED
    BY <1>2, <2>1 DEF EfimFramesRight
<1>8. EfimSound'
  BY <1>1 DEF EfimSound
<1>9. EfimComplete'
  <2>1. SUFFICES ASSUME ~failed', NEW T \in EfimWanted
                 PROVE  \/ EfimEntry(T) \in found'
                        \/ \E x \in todo' : Begins(T, x)
                        \/ \E v \in Threads : \E f \in Members(stack'[v]) : EfimLeadsTo(f, T)
    BY <1>1, <1>2 DEF EfimComplete, EfimToCome
  <2>2. EfimEntry(T) \in found \/ EfimToCome(T)
    BY <2>1 DEF EfimIInv, EfimComplete
  <2>3. CASE EfimEntry(T) \in found
    BY <2>3
  <2>4. ASSUME NEW x \in todo, Begins(T, x)
        PROVE  \/ EfimEntry(T) \in found'
               \/ \E y \in todo' : Begins(T, y)
               \/ \E v \in Threads : \E f \in Members(stack'[v]) : EfimLeadsTo(f, T)
    <3>1. CASE x \in todo'
      BY <2>4, <3>1
    <3>2. CASE x \notin todo'
      <4>1. EfimEntry(T) \in found' \/ \E f \in Members(s) : EfimLeadsTo(f, T)
        BY <2>1, <2>4, <3>2
      <4> QED
        BY <1>4, <4>1
    <3> QED
      BY <3>1, <3>2
  <2>5. ASSUME NEW v \in Threads, \E f \in Members(stack[v]) : EfimLeadsTo(f, T)
        PROVE  \/ EfimEntry(T) \in found'
               \/ \E u \in Threads : \E f \in Members(stack'[u]) : EfimLeadsTo(f, T)
    <3>1. CASE v # w
      BY <1>4, <2>5, <3>1
    <3>2. CASE v = w
      <4>1. EfimEntry(T) \in found' \/ \E f \in Members(s) : EfimLeadsTo(f, T)
        BY <2>1, <2>5, <3>2
      <4> QED
        BY <1>4, <4>1
    <3> QED
      BY <3>1, <3>2
  <2> QED
    BY <2>2, <2>3, <2>4, <2>5 DEF EfimToCome
<1> QED
  BY <1>1, <1>5, <1>6, <1>7, <1>8, <1>9 DEF EfimIInv

\* The top call of a thread at work.
LEMMA EfimTopFrame ==
  ASSUME EfimIInv, NEW w \in Threads, Busy(w)
  PROVE  /\ phase = "search" /\ stack[w] \in Seq(EfimFrames) /\ stack[w] # <<>>
         /\ Top(w) \in EfimFrames /\ Top(w) = stack[w][1] /\ Tail(stack[w]) \in Seq(EfimFrames)
         /\ Members(stack[w]) = {Top(w)} \cup Members(Tail(stack[w]))
         /\ EfimFrameRight(Top(w)) /\ \A f \in Members(Tail(stack[w])) : EfimFrameRight(f)
         /\ \A f \in EfimFrames : [stack[w] EXCEPT ![1] = f] = <<f>> \o Tail(stack[w])
<1> HIDE DEF EfimFrames
<1>1. phase = "search"
  BY DEF EfimIInv, EfimPhases
<1>2. stack[w] \in Seq(EfimFrames) /\ stack[w] # <<>>
  BY DEF EfimIInv, EfimTypes, Busy
<1>3. /\ stack[w][1] \in EfimFrames /\ Tail(stack[w]) \in Seq(EfimFrames)
      /\ Members(stack[w]) = {stack[w][1]} \cup Members(Tail(stack[w]))
      /\ \A f \in EfimFrames : [stack[w] EXCEPT ![1] = f] = <<f>> \o Tail(stack[w])
  BY <1>2, TopOfStack
<1>4. \A f \in Members(stack[w]) : EfimFrameRight(f)
  BY DEF EfimIInv, EfimFramesRight
<1> QED
  BY <1>1, <1>2, <1>3, <1>4 DEF Top

LEMMA BytesType ==
  /\ \A proj \in Projections : ProjectionBytes(proj) \in Nat
  /\ DOMAIN twu \in SUBSET Items => DatabaseBytes \in Nat
<1>1. ASSUME NEW proj \in Projections
      PROVE  ProjectionBytes(proj) \in Nat
  <2>1. DOMAIN proj \in SUBSET Tids
    BY DEF Projections
  <2>2. Cardinality(DOMAIN proj) \in Nat
    BY <2>1, Constants, FS_Subset, FS_CardinalityType
  <2> QED
    BY <2>2 DEF ProjectionBytes, EntryBytes
<1>2. ASSUME DOMAIN twu \in SUBSET Items
      PROVE  DatabaseBytes \in Nat
  <2>1. IsFiniteSet(Tids) /\ IsFiniteSet(DOMAIN twu)
    BY <1>2, Constants, FS_Subset
  <2>2. IsFiniteSet(Tids \X DOMAIN twu)
    BY <2>1, FS_Product
  <2>3. {e \in Tids \X DOMAIN twu : db[e[1]][e[2]] > 0} \in SUBSET (Tids \X DOMAIN twu)
    OBVIOUS
  <2>4. Cardinality({e \in Tids \X DOMAIN twu : db[e[1]][e[2]] > 0}) \in Nat
    BY <2>2, <2>3, FS_Subset, FS_CardinalityType
  <2> QED
    BY <2>4 DEF DatabaseBytes, ItemBytes
<1> QED
  BY <1>1, <1>2

\* The call that searches an itemset, before it begins.
LEMMA NewFrame ==
  ASSUME EfimGiven, Filtered, NEW S \in SUBSET DOMAIN twu, NEW x, EndsWith(S, x),
         Supporting(db, S) # {}, NEW onDisk \in BOOLEAN,
         NEW f, f = EfimFrame(S, ProjectionOf(S), onDisk)
  PROVE  /\ f \in EfimFrames /\ EfimFrameRight(f)
         /\ \A T : EfimLeadsTo(f, T) <=> Extends(T, S)
<1>1. Ordered /\ S \in SUBSET Items /\ ProjectionOf(S) \in Projections
  BY FilterFacts, ProjectionIn
<1>2. f = [itemset |-> S, proj |-> ProjectionOf(S), onDisk |-> onDisk, begun |-> FALSE,
           left |-> {}]
  BY DEF EfimFrame
<1>3. f \in EfimFrames
  BY <1>1, <1>2 DEF EfimFrames
<1>4. EfimFrameRight(f)
  BY <1>2 DEF EfimFrameRight, EndsWith
<1> QED
  BY <1>2, <1>3, <1>4 DEF EfimLeadsTo

\* An itemset is reported, and its projection goes on the stack or is given up: the rest of
\* what was to come is the itemset and what extends it.
LEMMA PushStep ==
  ASSUME EfimIInv, phase = "search", NEW w \in Threads,
         NEW S \in SUBSET DOMAIN twu, NEW x, EndsWith(S, x), Supporting(db, S) # {},
         NEW rest \in Seq(EfimFrames), \A f \in Members(rest) : EfimFrameRight(f),
         Report(S, ProjectionOf(S)), Search(w, S, ProjectionOf(S), rest),
         UNCHANGED <<db, mode, phase, twu>>, todo' \in SUBSET todo,
         \A T \in EfimWanted :
           \/ \E y \in todo \ todo' : Begins(T, y)
           \/ \E f \in Members(stack[w]) : EfimLeadsTo(f, T)
           => T = S \/ Extends(T, S) \/ \E f \in Members(rest) : EfimLeadsTo(f, T)
  PROVE  EfimIInv'
<1> HIDE DEF EfimFrames, Projections
<1>1. /\ EfimGiven /\ Filtered /\ EfimSound /\ used \in Nat /\ failed \in BOOLEAN /\ refused \in BOOLEAN
  BY DEF EfimIInv, EfimPhases, EfimTypes
<1>2. /\ \A e \in found' : \E T \in EfimWanted : e = EfimEntry(T)
      /\ found \subseteq found' /\ (S \in EfimWanted => EfimEntry(S) \in found')
  BY <1>1, Reports
<1>3. ProjectionBytes(ProjectionOf(S)) \in Nat
  BY <1>1, FilterFacts, ProjectionIn, BytesType
<1>4. /\ used' \in Nat /\ refused' \in BOOLEAN
      /\ \/ \E b \in BOOLEAN :
              /\ stack' = [stack EXCEPT ![w] = <<EfimFrame(S, ProjectionOf(S), b)>> \o rest]
              /\ failed' = failed
         \/ stack' = [stack EXCEPT ![w] = rest] /\ failed' = TRUE
  <2> DEFINE proj == ProjectionOf(S)
             bytes == ProjectionBytes(proj)
  <2> HIDE DEF proj
  <2>1. CASE /\ used' = used + bytes
             /\ stack' = [stack EXCEPT ![w] = <<EfimFrame(S, proj, FALSE)>> \o rest]
             /\ UNCHANGED <<refused, failed>>
    <3> HIDE DEF bytes
    <3>1. used' \in Nat
      BY <1>1, <1>3, <2>1 DEF bytes, proj
    <3> QED
      BY <1>1, <2>1, <3>1 DEF proj
  <2>2. CASE /\ refused' = TRUE /\ UNCHANGED used
             /\ \/ /\ stack' = [stack EXCEPT ![w] = <<EfimFrame(S, proj, TRUE)>> \o rest]
                   /\ UNCHANGED failed
                \/ failed' = TRUE /\ stack' = [stack EXCEPT ![w] = rest]
    BY <1>1, <2>2 DEF proj
  <2> QED
    BY <2>1, <2>2 DEF Search, proj
<1>5. CASE stack' = [stack EXCEPT ![w] = rest] /\ failed' = TRUE
  BY <1>2, <1>4, <1>5, EfimSearchStep
<1>6. ASSUME NEW b \in BOOLEAN,
             stack' = [stack EXCEPT ![w] = <<EfimFrame(S, ProjectionOf(S), b)>> \o rest],
             failed' = failed
      PROVE  EfimIInv'
  <2> DEFINE f == EfimFrame(S, ProjectionOf(S), b)
             s == <<f>> \o rest
  <2>1. f \in EfimFrames /\ EfimFrameRight(f) /\ \A T : EfimLeadsTo(f, T) <=> Extends(T, S)
    <3> HIDE DEF EfimFrames
    <3> QED
      BY <1>1, NewFrame
  <2> HIDE DEF f
  <2>2. s \in Seq(EfimFrames) /\ Members(s) = {f} \cup Members(rest)
    BY <2>1, OnStack
  <2>3. stack' = [stack EXCEPT ![w] = s]
    BY <1>6 DEF f
  <2> HIDE DEF s
  <2>4. \A g \in Members(s) : EfimFrameRight(g)
    BY <2>1, <2>2
  <2>5. \A T \in EfimWanted :
          \/ \E y \in todo \ todo' : Begins(T, y)
          \/ \E g \in Members(stack[w]) : EfimLeadsTo(g, T)
          => EfimEntry(T) \in found' \/ \E g \in Members(s) : EfimLeadsTo(g, T)
    BY <1>2, <2>1, <2>2
  <2>6. failed' \in BOOLEAN /\ (failed => failed')
    BY <1>1, <1>6
  <2> QED
    BY <1>2, <1>4, <2>2, <2>3, <2>4, <2>5, <2>6, EfimSearchStep
<1> QED
  BY <1>4, <1>5, <1>6

LEMMA EfimTakeStep ==
  ASSUME EfimIInv, NEW w \in Threads, NEW x \in Items, EfimTake(w, x)
  PROVE  EfimIInv'
<1> HIDE DEF EfimFrames
<1>1. /\ phase = "search" /\ ~Busy(w) /\ x \in todo /\ todo' = todo \ {x}
      /\ Report({x}, Projected(Whole, x)) /\ Search(w, {x}, Projected(Whole, x), <<>>)
      /\ UNCHANGED <<db, mode, phase, twu>>
  BY DEF EfimTake
<1>2. EfimGiven /\ Filtered /\ x \in DOMAIN twu
  BY <1>1 DEF EfimIInv, EfimPhases, EfimTypes
<1>3. /\ Ordered
      /\ Projected(Whole, x) = ProjectionOf({x})
      /\ EndsWith({x}, x) /\ {x} \in SUBSET DOMAIN twu
  BY <1>2, FilterFacts, ProjectedWhole
<1>4. Supporting(db, {x}) # {}
  BY <1>2, FilterFacts
<1>5. <<>> \in Seq(EfimFrames) /\ Members(<<>>) = {} /\ Members(stack[w]) = {}
  BY <1>1 DEF Members, Busy
<1>6. ASSUME NEW T \in EfimWanted, Begins(T, x)
      PROVE  T = {x} \/ Extends(T, {x})
  BY <1>6 DEF Begins, Extends
<1>7. \A T \in EfimWanted :
        \/ \E y \in todo \ todo' : Begins(T, y)
        \/ \E f \in Members(stack[w]) : EfimLeadsTo(f, T)
        => T = {x} \/ Extends(T, {x}) \/ \E f \in Members(<<>>) : EfimLeadsTo(f, T)
  BY <1>1, <1>5, <1>6
<1>8. todo' \in SUBSET todo
  BY <1>1
<1> DEFINE none == <<>>
           S == {x}
<1>9. /\ none \in Seq(EfimFrames) /\ (\A f \in Members(none) : EfimFrameRight(f))
      /\ Report(S, ProjectionOf(S)) /\ Search(w, S, ProjectionOf(S), none)
      /\ \A T \in EfimWanted :
           \/ \E y \in todo \ todo' : Begins(T, y)
           \/ \E f \in Members(stack[w]) : EfimLeadsTo(f, T)
           => T = S \/ Extends(T, S) \/ \E f \in Members(none) : EfimLeadsTo(f, T)
      /\ EndsWith(S, x) /\ S \in SUBSET DOMAIN twu /\ Supporting(db, S) # {}
  BY <1>1, <1>3, <1>4, <1>5, <1>7
<1> HIDE DEF none, S
<1> QED
  BY <1>1, <1>8, <1>9, PushStep

\* What is searched below a call begins with an extension that has passed the bound.
LEMMA FirstIsValid ==
  ASSUME EfimGiven, Filtered, NEW f, EfimFrameRight(f), NEW T \in EfimWanted, Extends(T, f.itemset)
  PROVE  \E x \in Valid(f.proj) : Begins(T \ f.itemset, x)
<1> DEFINE S == f.itemset
<1>1. Ordered /\ mode.minUtility \in Nat /\ DOMAIN twu \in SUBSET Items
  BY FilterFacts
<1>2. /\ T \in SUBSET DOMAIN twu /\ Utility(db, T) \in Nat /\ Utility(db, T) >= mode.minUtility
      /\ \A R \in SUBSET T : Supporting(db, R) # {}
  BY WantedItems
<1>3. /\ S \in SUBSET DOMAIN twu /\ f.proj = ProjectionOf(S)
      /\ S \in SUBSET T /\ T # S /\ \A x \in S : \A y \in T \ S : Before(twu, x, y)
  BY DEF EfimFrameRight, Extends
<1>4. PICK l \in S : EndsWith(S, l)
  BY DEF EfimFrameRight
<1>5. T \ S \in SUBSET DOMAIN twu /\ T \ S # {}
  BY <1>2, <1>3
<1> HIDE DEF S
<1>6. PICK x \in T \ S : \A y \in (T \ S) \ {x} : Before(twu, x, y)
  BY <1>1, <1>5, FirstInRank DEF Ordered
<1>7. x \in DOMAIN twu /\ Before(twu, l, x) /\ S \cup {x} \in SUBSET T
  BY <1>3, <1>4, <1>5, <1>6
<1>8. Holding(ProjectionOf(S), x) # {}
  <2>1. Holding(ProjectionOf(S), x) = Supporting(db, S \cup {x})
    BY <1>1, <1>3, <1>4, <1>7, HoldingOf
  <2> QED
    BY <1>2, <1>7, <2>1
<1>9. SubtreeUtility(ProjectionOf(S), x) >= mode.minUtility
  <2>1. \A y \in T \ (S \cup {x}) : Before(twu, x, y)
    BY <1>6
  <2>2. /\ SubtreeUtility(ProjectionOf(S), x) \in Nat
        /\ Utility(db, T) <= SubtreeUtility(ProjectionOf(S), x)
    BY <1>1, <1>2, <1>3, <1>4, <1>7, <2>1, Bounds
  <2> QED
    BY <1>1, <1>2, <2>2
<1>10. x \in Valid(f.proj)
  BY <1>3, <1>7, <1>8, <1>9 DEF Valid
<1> QED
  BY <1>6, <1>10 DEF Begins, S

\* An extension that has passed the bound comes after the itemset, some transaction has
\* both, and it passes the other bound.
LEMMA ValidSays ==
  ASSUME EfimGiven, Filtered, NEW f, EfimFrameRight(f), NEW x \in Valid(f.proj)
  PROVE  /\ x \in DOMAIN twu /\ f.itemset \cup {x} \in SUBSET DOMAIN twu
         /\ EndsWith(f.itemset \cup {x}, x) /\ Supporting(db, f.itemset \cup {x}) # {}
         /\ Projected(f.proj, x) = ProjectionOf(f.itemset \cup {x})
         /\ ~ (LocalUtility(f.proj, x) < mode.minUtility)
<1> DEFINE S == f.itemset
<1>1. Ordered /\ mode.minUtility \in Nat
  BY FilterFacts
<1>2. PICK l \in S : EndsWith(S, l)
  BY DEF EfimFrameRight
<1>3. S \in SUBSET DOMAIN twu /\ f.proj = ProjectionOf(S)
  BY DEF EfimFrameRight
<1> HIDE DEF S
<1>4. /\ x \in DOMAIN twu /\ Holding(ProjectionOf(S), x) # {}
      /\ SubtreeUtility(ProjectionOf(S), x) >= mode.minUtility
  BY <1>3 DEF Valid
<1>5. Before(twu, l, x) /\ Supporting(db, S \cup {x}) # {}
  BY <1>1, <1>2, <1>3, <1>4, HoldingOf
<1>6. EndsWith(S \cup {x}, x)
  BY <1>1, <1>2, <1>3, <1>4, <1>5, Extended DEF Ordered
<1>7. Projected(ProjectionOf(S), x) = ProjectionOf(S \cup {x})
  BY <1>1, <1>2, <1>3, <1>4, <1>5, ProjectedOf
<1>8. ~ (LocalUtility(ProjectionOf(S), x) < mode.minUtility)
  <2>1. /\ SubtreeUtility(ProjectionOf(S), x) \in Nat
        /\ LocalUtility(ProjectionOf(S), x) \in Nat
        /\ SubtreeUtility(ProjectionOf(S), x) <= LocalUtility(ProjectionOf(S), x)
    BY <1>1, <1>2, <1>3, <1>4, <1>5, Bounds
  <2> QED
    BY <1>1, <1>4, <2>1
<1> QED
  BY <1>3, <1>4, <1>5, <1>6, <1>7, <1>8 DEF S

\* A call that has nothing left to come to returns, or a call fails, and the guard is given
\* back what it has granted.
LEMMA PopStep ==
  ASSUME EfimIInv, phase = "search", NEW w \in Threads, Busy(w), Pop(w),
         UNCHANGED <<db, mode, phase, twu, todo, refused, found>>,
         (failed' = failed /\ \A T : ~EfimLeadsTo(Top(w), T)) \/ failed' = TRUE
  PROVE  EfimIInv'
<1> HIDE DEF EfimFrames, Projections
<1>1. /\ stack[w] \in Seq(EfimFrames) /\ Tail(stack[w]) \in Seq(EfimFrames) /\ Top(w) \in EfimFrames
      /\ Members(stack[w]) = {Top(w)} \cup Members(Tail(stack[w]))
      /\ \A f \in Members(Tail(stack[w])) : EfimFrameRight(f)
  BY EfimTopFrame
<1>2. /\ used \in Nat /\ failed \in BOOLEAN /\ refused \in BOOLEAN
      /\ \A e \in found : \E T \in EfimWanted : e = EfimEntry(T)
  BY DEF EfimIInv, EfimTypes, EfimSound
<1> DEFINE rest == Tail(stack[w])
<1>3. stack' = [stack EXCEPT ![w] = rest]
  BY DEF Pop
<1>4. used' \in Nat
  <2>1. Top(w).proj \in Projections
    BY <1>1 DEF EfimFrames
  <2>2. ProjectionBytes(Top(w).proj) \in Nat
    BY <2>1, BytesType
  <2>3. used' = IF used < ProjectionBytes(Top(w).proj) THEN 0
                ELSE used - ProjectionBytes(Top(w).proj)
    BY DEF Pop, Without
  <2> QED
    BY <1>2, <2>2, <2>3
<1>5. failed' \/ \A T \in EfimWanted :
        (\E f \in Members(stack[w]) : EfimLeadsTo(f, T)) => \E f \in Members(rest) : EfimLeadsTo(f, T)
  BY <1>1
<1>6. failed' \in BOOLEAN /\ (failed => failed')
  BY <1>2
<1> HIDE DEF rest
<1>7. rest \in Seq(EfimFrames) /\ \A f \in Members(rest) : EfimFrameRight(f)
  BY <1>1 DEF rest
<1> QED
  BY <1>2, <1>3, <1>4, <1>5, <1>6, <1>7, EfimSearchStep

LEMMA EfimReturnStep ==
  ASSUME EfimIInv, NEW w \in Threads, EfimReturn(w)
  PROVE  EfimIInv'
<1>1. /\ Busy(w) /\ Top(w).begun /\ Top(w).left = {} /\ Pop(w)
      /\ UNCHANGED <<db, mode, phase, twu, todo, refused, failed, found>>
  BY DEF EfimReturn
<1>2. \A T : ~EfimLeadsTo(Top(w), T)
  BY <1>1 DEF EfimLeadsTo
<1>3. phase = "search"
  BY <1>1, EfimTopFrame
<1> QED
  BY <1>1, <1>2, <1>3, PopStep

LEMMA BeginStep ==
  ASSUME EfimIInv, NEW w \in Threads, Begin(w)
  PROVE  EfimIInv'
<1> HIDE DEF EfimFrames, Projections
<1> DEFINE f == Top(w)
           g == [f EXCEPT !.begun = TRUE, !.left = Valid(f.proj)]
<1>1. /\ Busy(w) /\ ~f.begun /\ UNCHANGED <<db, mode, phase, twu, todo, refused, found>>
      /\ \/ /\ stack' = [stack EXCEPT ![w][1] = g]
            /\ UNCHANGED <<used, failed>>
         \/ failed' = TRUE /\ Pop(w)
  BY DEF Begin
<1>2. /\ phase = "search" /\ stack[w] \in Seq(EfimFrames) /\ stack[w] # <<>>
      /\ f \in EfimFrames /\ f = stack[w][1] /\ Tail(stack[w]) \in Seq(EfimFrames)
      /\ Members(stack[w]) = {f} \cup Members(Tail(stack[w]))
      /\ EfimFrameRight(f) /\ (\A h \in Members(Tail(stack[w])) : EfimFrameRight(h))
      /\ \A h \in EfimFrames : [stack[w] EXCEPT ![1] = h] = <<h>> \o Tail(stack[w])
  BY <1>1, EfimTopFrame
<1>3. CASE failed' = TRUE /\ Pop(w)
  BY <1>1, <1>2, <1>3, PopStep
<1>4. CASE /\ stack' = [stack EXCEPT ![w][1] = g]
           /\ UNCHANGED <<used, failed>>
  <2>1. /\ EfimGiven /\ Filtered /\ used \in Nat /\ failed \in BOOLEAN /\ refused \in BOOLEAN
        /\ (\A e \in found : \E T \in EfimWanted : e = EfimEntry(T))
        /\ stack \in [Threads -> Seq(EfimFrames)]
    BY <1>2 DEF EfimIInv, EfimPhases, EfimTypes, EfimSound
  <2>2. Valid(f.proj) \in SUBSET Items
    BY <2>1, FilterFacts DEF Valid
  <2>3. /\ g \in EfimFrames /\ g.itemset = f.itemset /\ g.proj = f.proj /\ g.begun
        /\ g.left = Valid(f.proj)
    <3> HIDE DEF f
    <3> QED
      BY <1>2, <2>2 DEF EfimFrames
  <2>4. EfimFrameRight(g)
    <3> HIDE DEF f, g
    <3> QED
      BY <1>2, <2>3 DEF EfimFrameRight
  <2>5. stack' = [stack EXCEPT ![w] = <<g>> \o Tail(stack[w])]
    <3>1. [stack[w] EXCEPT ![1] = g] = <<g>> \o Tail(stack[w])
      BY <1>2, <2>3
    <3>2. stack' = [stack EXCEPT ![w] = [stack[w] EXCEPT ![1] = g]]
      BY <1>2, <1>4, <2>1
    <3> QED
      BY <3>1, <3>2
  <2> DEFINE s == <<g>> \o Tail(stack[w])
  <2>6. s \in Seq(EfimFrames) /\ Members(s) = {g} \cup Members(Tail(stack[w]))
    <3> DEFINE t == Tail(stack[w])
    <3>1. t \in Seq(EfimFrames) /\ g \in EfimFrames
      BY <1>2, <2>3
    <3> HIDE DEF g, t
    <3>2. <<g>> \o t \in Seq(EfimFrames) /\ Members(<<g>> \o t) = {g} \cup Members(t)
      BY <3>1, OnStack
    <3> QED
      BY <3>2 DEF t
  <2> HIDE DEF f, g
  <2>7. \A T \in EfimWanted : EfimLeadsTo(f, T) => EfimLeadsTo(g, T)
    <3>1. ASSUME NEW T \in EfimWanted, EfimLeadsTo(f, T)
          PROVE  EfimLeadsTo(g, T)
      <4>1. Extends(T, f.itemset)
        BY <3>1 DEF EfimLeadsTo
      <4>2. \E x \in Valid(f.proj) : Begins(T \ f.itemset, x)
        BY <1>2, <2>1, <4>1, FirstIsValid
      <4> QED
        BY <2>3, <4>1, <4>2 DEF EfimLeadsTo
    <3> QED
      BY <3>1
  <2>8. /\ stack' = [stack EXCEPT ![w] = s]
        /\ \A h \in Members(s) : EfimFrameRight(h)
        /\ \A T \in EfimWanted : (\E h \in Members(stack[w]) : EfimLeadsTo(h, T))
                               => \E h \in Members(s) : EfimLeadsTo(h, T)
    BY <1>2, <2>4, <2>5, <2>6, <2>7
  <2> HIDE DEF s
  <2>9. todo \ todo' = {} /\ todo' \in SUBSET todo /\ found \subseteq found' /\ found' = found
    BY <1>1
  <2> QED
    BY <1>1, <1>2, <1>4, <2>1, <2>6, <2>8, <2>9, EfimSearchStep
<1> QED
  BY <1>1, <1>3, <1>4

LEMMA VisitStep ==
  ASSUME EfimIInv, NEW w \in Threads, NEW x \in Items, Visit(w, x)
  PROVE  EfimIInv'
<1> HIDE DEF EfimFrames, Projections
<1> DEFINE f == Top(w)
           g == [f EXCEPT !.left = @ \ {x}]
           rest == <<g>> \o Tail(stack[w])
           S == f.itemset \cup {x}
<1>1. /\ Busy(w) /\ f.begun /\ x \in f.left /\ UNCHANGED <<db, mode, phase, twu, todo>>
  BY DEF Visit
<1>2. /\ phase = "search" /\ stack[w] \in Seq(EfimFrames) /\ stack[w] # <<>>
      /\ f \in EfimFrames /\ f = stack[w][1] /\ Tail(stack[w]) \in Seq(EfimFrames)
      /\ Members(stack[w]) = {f} \cup Members(Tail(stack[w]))
      /\ EfimFrameRight(f) /\ (\A h \in Members(Tail(stack[w])) : EfimFrameRight(h))
      /\ \A h \in EfimFrames : [stack[w] EXCEPT ![1] = h] = <<h>> \o Tail(stack[w])
  BY <1>1, EfimTopFrame
<1>3. EfimGiven /\ Filtered
  BY <1>2 DEF EfimIInv, EfimPhases
<1>4. /\ S \in SUBSET DOMAIN twu /\ EndsWith(S, x) /\ Supporting(db, S) # {}
      /\ Projected(f.proj, x) = ProjectionOf(S)
      /\ ~ (LocalUtility(f.proj, x) < mode.minUtility)
  <2>1. x \in Valid(f.proj)
    BY <1>1, <1>2 DEF EfimFrameRight
  <2> HIDE DEF f
  <2> QED
    BY <1>2, <1>3, <2>1, ValidSays
<1>5. /\ g \in EfimFrames /\ g.itemset = f.itemset /\ g.proj = f.proj /\ g.begun
      /\ g.left = f.left \ {x}
  <2> HIDE DEF f
  <2> QED
    BY <1>1, <1>2 DEF EfimFrames
<1>6. [stack[w] EXCEPT ![1].left = @ \ {x}] = rest
  BY <1>2, <1>5
<1>7. Report(S, ProjectionOf(S)) /\ Search(w, S, ProjectionOf(S), rest)
  BY <1>4, <1>6 DEF Visit
<1>8. rest \in Seq(EfimFrames) /\ Members(rest) = {g} \cup Members(Tail(stack[w]))
  <2> DEFINE t == Tail(stack[w])
  <2>1. t \in Seq(EfimFrames) /\ g \in EfimFrames
    BY <1>2, <1>5
  <2> HIDE DEF g, t
  <2>2. <<g>> \o t \in Seq(EfimFrames) /\ Members(<<g>> \o t) = {g} \cup Members(t)
    BY <2>1, OnStack
  <2> QED
    BY <2>2 DEF t
<1> HIDE DEF f, g, rest
<1>9. \A h \in Members(rest) : EfimFrameRight(h)
  <2>1. EfimFrameRight(g)
    BY <1>2, <1>5 DEF EfimFrameRight
  <2> QED
    BY <1>2, <1>8, <2>1
<1>10. ASSUME NEW T \in EfimWanted, EfimLeadsTo(f, T)
       PROVE  T = S \/ Extends(T, S) \/ EfimLeadsTo(g, T)
  <2>1. Extends(T, f.itemset)
    BY <1>10 DEF EfimLeadsTo
  <2>2. PICK y \in f.left : Begins(T \ f.itemset, y)
    BY <1>1, <1>10 DEF EfimLeadsTo
  <2>3. CASE y # x
    BY <1>5, <2>1, <2>2, <2>3 DEF EfimLeadsTo
  <2>4. CASE y = x
    <3>1. /\ x \in T /\ x \notin f.itemset
          /\ \A z \in T \ S : Before(twu, x, z)
      BY <2>2, <2>4 DEF Begins
    <3> QED
      BY <2>1, <3>1 DEF Extends
  <2> QED
    BY <2>3, <2>4
<1>11. \A T \in EfimWanted :
         \/ \E y \in todo \ todo' : Begins(T, y)
         \/ \E h \in Members(stack[w]) : EfimLeadsTo(h, T)
         => T = S \/ Extends(T, S) \/ \E h \in Members(rest) : EfimLeadsTo(h, T)
  BY <1>1, <1>2, <1>8, <1>10
<1> HIDE DEF S
<1>12. todo' \in SUBSET todo
  BY <1>1
<1> QED
  BY <1>1, <1>2, <1>4, <1>7, <1>8, <1>9, <1>11, <1>12, PushStep

-----------------------------------------------------------------------------
(* The passes *)

\* A step of a pass, outside the search: no thread is at work.
LEMMA EfimPassStep ==
  ASSUME EfimIInv, UNCHANGED <<db, mode, found, stack>>, \A w \in Threads : ~Busy(w),
         EfimTypes', EfimPhases', EfimComplete'
  PROVE  EfimIInv'
<1>1. EfimWanted' = EfimWanted /\ (\A S : EfimEntry(S)' = EfimEntry(S)) /\ EfimGiven'
  BY EfimKept DEF EfimIInv
<1>2. EfimSound'
  BY <1>1 DEF EfimIInv, EfimSound
<1>3. EfimFramesRight'
  BY DEF EfimFramesRight, Busy, Members
<1> QED
  BY <1>1, <1>2, <1>3 DEF EfimIInv

LEMMA EfimFilterStep ==
  ASSUME EfimIInv, EfimFilter
  PROVE  EfimIInv'
<1> HIDE DEF EfimFrames
<1>1. /\ phase = "filter" /\ phase' = "load" /\ twu' = TwuFilter(db, mode.minUtility)
      /\ UNCHANGED <<db, mode, todo, used, refused, failed, found, stack>>
  BY DEF EfimFilter, FilterTo
<1>2. DOMAIN twu' \in SUBSET Items
  BY <1>1 DEF TwuFilter
<1>3. todo = {} /\ \A w \in Threads : ~Busy(w)
  BY <1>1 DEF EfimIInv, EfimPhases
<1>4. EfimTypes'
  BY <1>1, <1>2, <1>3 DEF EfimIInv, EfimTypes
<1>5. twu' = TwuFilter(db, mode.minUtility)'
  BY <1>1, EfimKept
<1>6. EfimPhases' /\ EfimComplete'
  BY <1>1, <1>3, <1>5 DEF EfimPhases, EfimComplete, Filtered, Busy
<1> QED
  BY <1>1, <1>3, <1>4, <1>6, EfimPassStep

LEMMA LoadStep ==
  ASSUME EfimIInv, Load
  PROVE  EfimIInv'
<1> HIDE DEF EfimFrames
<1>1. /\ phase = "load" /\ used' = used + DatabaseBytes /\ todo' = DOMAIN twu
      /\ phase' = "search" /\ UNCHANGED <<db, mode, twu, stack, refused, failed, found>>
  BY DEF Load
<1>2. EfimGiven /\ Filtered /\ EfimTypes /\ \A w \in Threads : ~Busy(w)
  BY <1>1 DEF EfimIInv, EfimPhases
<1>3. DatabaseBytes \in Nat
  BY <1>2, BytesType DEF EfimTypes
<1>4. EfimTypes'
  <2>1. used' \in Nat
    BY <1>1, <1>2, <1>3 DEF EfimTypes
  <2> QED
    BY <1>1, <1>2, <2>1 DEF EfimTypes
<1>5. EfimPhases'
  BY <1>1, <1>2, EfimKept DEF EfimPhases, Filtered
<1>6. EfimComplete'
  <2>1. ASSUME NEW S \in EfimWanted
        PROVE  \E x \in DOMAIN twu : Begins(S, x)
    <3>1. S \in SUBSET DOMAIN twu /\ S # {} /\ Ranks(twu)
      BY <1>2, WantedItems, FilterFacts DEF Ordered
    <3>2. \E x \in S : \A y \in S \ {x} : Before(twu, x, y)
      BY <3>1, FirstInRank
    <3> QED
      BY <3>1, <3>2 DEF Begins
  <2>2. EfimWanted' = EfimWanted /\ \A S, x : Begins(S, x)' = Begins(S, x)
    BY <1>1, EfimKept, FramesKept
  <2> QED
    BY <1>1, <2>1, <2>2 DEF EfimComplete, EfimToCome
<1> QED
  BY <1>1, <1>2, <1>4, <1>5, <1>6, EfimPassStep

LEMMA EfimFinishStep ==
  ASSUME EfimIInv, EfimFinish
  PROVE  EfimIInv'
<1> HIDE DEF EfimFrames
<1>1. /\ phase = "search" /\ todo = {} /\ (\A w \in Threads : ~Busy(w))
      /\ used' = Without(DatabaseBytes) /\ phase' = "done"
      /\ UNCHANGED <<db, mode, twu, todo, stack, refused, failed, found>>
  BY DEF EfimFinish
<1>2. EfimTypes /\ Filtered
  BY <1>1 DEF EfimIInv, EfimPhases
<1>3. DatabaseBytes \in Nat
  BY <1>2, BytesType DEF EfimTypes
<1>4. EfimTypes'
  <2>1. used' \in Nat
    BY <1>1, <1>2, <1>3 DEF EfimTypes, Without
  <2> QED
    BY <1>1, <1>2, <2>1 DEF EfimTypes
<1>5. EfimPhases'
  BY <1>1, <1>2, EfimKept DEF EfimPhases, Filtered, Busy
<1>6. EfimComplete'
  <2>1. \A S : ~EfimToCome(S)
    BY <1>1 DEF EfimToCome, Busy, Members
  <2>2. failed \/ \A S \in EfimWanted : EfimEntry(S) \in found
    BY <1>1, <2>1 DEF EfimIInv, EfimComplete
  <2>3. EfimWanted' = EfimWanted /\ \A S : EfimEntry(S)' = EfimEntry(S)
    BY <1>1, EfimKept
  <2> QED
    BY <1>1, <2>2, <2>3 DEF EfimComplete
<1> QED
  BY <1>1, <1>4, <1>5, <1>6, EfimPassStep

-----------------------------------------------------------------------------
(* The theorems *)

LEMMA EfimInitIInv == EfimInit => EfimIInv
<1>1. SUFFICES ASSUME EfimInit PROVE EfimIInv
  OBVIOUS
<1> HIDE DEF EfimFrames
<1>2. /\ db \in MinedDatabases /\ mode \in Modes /\ mode.algorithm \in EfimAlgorithms
      /\ phase = "filter" /\ DOMAIN twu = {} /\ todo = {} /\ used = 0
      /\ refused = FALSE /\ failed = FALSE /\ found = {}
      /\ stack = [w \in Threads |-> <<>>]
  BY <1>1 DEF EfimInit, StartSearch, NoStack, Start
<1>3. EfimGiven
  BY <1>2, EfimRunConstants DEF EfimGiven
<1>4. EfimTypes
  <2>1. <<>> \in Seq(EfimFrames)
    OBVIOUS
  <2>2. stack \in [Threads -> Seq(EfimFrames)]
    BY <1>2, <2>1
  <2> QED
    BY <1>2, <2>2 DEF EfimTypes
<1>5. EfimPhases /\ EfimFramesRight /\ EfimSound /\ EfimComplete
  BY <1>2 DEF EfimPhases, Busy, EfimFramesRight, Members, EfimSound, EfimComplete
<1> QED
  BY <1>3, <1>4, <1>5 DEF EfimIInv

LEMMA EfimNextIInv == EfimIInv /\ [EfimNext]_searchVars => EfimIInv'
<1>1. SUFFICES ASSUME EfimIInv, [EfimNext]_searchVars PROVE EfimIInv'
  OBVIOUS
<1>2. CASE EfimPasses
  BY <1>1, <1>2, EfimFilterStep, LoadStep, EfimFinishStep DEF EfimPasses
<1>3. ASSUME NEW w \in Threads, EfimThread(w)
      PROVE  EfimIInv'
  BY <1>1, <1>3, EfimTakeStep, VisitStep, BeginStep, EfimReturnStep DEF EfimThread
<1>4. CASE UNCHANGED searchVars
  <2> HIDE DEF EfimFrames
  <2>1. UNCHANGED <<db, mode, phase, twu, todo, used, refused, failed, found, stack>>
    BY <1>4 DEF searchVars, contextVars
  <2>2. /\ EfimWanted' = EfimWanted /\ (\A S : EfimEntry(S)' = EfimEntry(S)) /\ (EfimGiven => EfimGiven')
        /\ TwuFilter(db, mode.minUtility)' = TwuFilter(db, mode.minUtility)
    BY <2>1, EfimKept
  <2>3. /\ \A f : EfimFrameRight(f)' = EfimFrameRight(f)
        /\ \A f, S : EfimLeadsTo(f, S)' = EfimLeadsTo(f, S)
        /\ \A S, x : Begins(S, x)' = Begins(S, x)
    BY <2>1, FramesKept
  <2>4. EfimTypes'
    BY <1>1, <2>1 DEF EfimIInv, EfimTypes
  <2>5. EfimPhases' /\ EfimSound'
    BY <1>1, <2>1, <2>2 DEF EfimIInv, EfimPhases, Busy, Filtered, EfimSound
  <2>6. EfimFramesRight' /\ EfimComplete'
    BY <1>1, <2>1, <2>2, <2>3 DEF EfimIInv, EfimFramesRight, EfimComplete, EfimToCome
  <2> QED
    BY <1>1, <2>2, <2>4, <2>5, <2>6 DEF EfimIInv
<1> QED
  BY <1>1, <1>2, <1>3, <1>4 DEF EfimNext

LEMMA EfimInductive == EfimSpec => []EfimIInv
<1> QED
  BY EfimInitIInv, EfimNextIInv, PTL DEF EfimSpec

LEMMA EfimFoundType == EfimIInv => \A e \in found : e.itemset \subseteq Items /\ e.utility \in Nat
<1>1. SUFFICES ASSUME EfimIInv, NEW e \in found
               PROVE  e.itemset \subseteq Items /\ e.utility \in Nat
  OBVIOUS
<1>2. PICK S \in EfimWanted : e = EfimEntry(S)
  BY <1>1 DEF EfimIInv, EfimSound
<1>3. S \in SUBSET Items /\ db \in Databases /\ S \in SUBSET S
  BY <1>1 DEF EfimWanted, EfimIInv, EfimGiven
<1>4. Utility(db, S) \in Nat
  BY <1>3, TwuCovers
<1> QED
  BY <1>2, <1>3, <1>4 DEF EfimEntry

LEMMA EfimTypesRight == EfimIInv => TypeOK
BY EfimFoundType DEF EfimIInv, EfimGiven, EfimTypes, TypeOK

LEMMA EfimExact == EfimIInv => ProjectionsExact
BY DEF EfimIInv, EfimFramesRight, EfimFrameRight, Members, ProjectionsExact

\* The variables of EFIM and its relatives keep their types.
THEOREM ProjectionTypeOK == EfimSpec => []TypeOK
BY EfimTypesRight, EfimInductive, PTL

\* Every projection that a chain of extensions has made, in memory or spilled, is that of
\* its itemset.
THEOREM ProjectionsAreExact == EfimSpec => []ProjectionsExact
BY EfimExact, EfimInductive, PTL

-----------------------------------------------------------------------------
(* The promise *)

LEMMA EfimPromisedResults == Promise!Results = {EfimEntry(S) : S \in EfimWanted}
<1>1. \A S : Promise!Supporting(db, S) = Supporting(db, S)
  BY DEF Promise!Supporting, Promise!HasAll, Supporting, HasAll
<1>2. \A S : Promise!Utility(db, S) = Utility(db, S)
  <2>1. ASSUME NEW T, NEW size, NEW max
        PROVE  Promise!Footprint(T, size, max) = Footprint(T, size, max)
    <3>1. Promise!Bytes(T, size, max) = Bytes(T, size, max)
      BY DEF Promise!Bytes, Bytes
    <3> QED
      BY <3>1 DEF Promise!Footprint, Footprint, Promise!Cardinality, Cardinality
  <2>2. ASSUME NEW S
        PROVE  [t \in Tids |-> Promise!ItemSum(S, db[t])] = [t \in Tids |-> ItemSum(S, db[t])]
    BY <2>1 DEF Promise!ItemSum, ItemSum
  <2>3. ASSUME NEW T, NEW utility
        PROVE  Promise!TidSum(T, utility) = TidSum(T, utility)
    BY <2>1 DEF Promise!TidSum, TidSum, Promise!Cardinality, Cardinality
  <2> QED
    BY <1>1, <2>2, <2>3 DEF Promise!Utility, Utility
<1>3. \A S : Promise!Closed(S) <=> Sealed(S)
  BY <1>1 DEF Promise!Closed, Sealed
<1>4. Promise!HighUtility = EfimWanted
  BY <1>1, <1>2, <1>3 DEF Promise!HighUtility, EfimWanted
<1> QED
  BY <1>2, <1>4 DEF Promise!Results, EfimEntry

\* What no step does, wherever it is.
LEMMA EfimSteps ==
  ASSUME EfimIInv, EfimNext
  PROVE  phase # "done" /\ UNCHANGED <<db, mode>> /\ (failed => failed') /\ found \subseteq found'
<1>1. CASE EfimPasses
  BY <1>1 DEF EfimPasses, EfimFilter, FilterTo, Load, EfimFinish
<1>2. ASSUME NEW w \in Threads, EfimThread(w)
      PROVE  phase # "done" /\ UNCHANGED <<db, mode>> /\ (failed => failed')
             /\ found \subseteq found'
  <2>1. Busy(w) => phase = "search"
    BY DEF EfimIInv, EfimPhases
  <2>2. \A S, proj : Report(S, proj) => found \subseteq found'
    BY DEF Report, FoundWith
  <2>3. \A S, proj, rest : Search(w, S, proj, rest) => (failed => failed')
    BY DEF Search
  <2>4. ASSUME NEW x \in Items, EfimTake(w, x)
        PROVE  phase # "done" /\ UNCHANGED <<db, mode>> /\ (failed => failed')
               /\ found \subseteq found'
    BY <2>2, <2>3, <2>4 DEF EfimTake
  <2>5. ASSUME NEW x \in Items, Visit(w, x)
        PROVE  phase # "done" /\ UNCHANGED <<db, mode>> /\ (failed => failed')
               /\ found \subseteq found'
    BY <2>1, <2>2, <2>3, <2>5 DEF Visit
  <2>6. CASE Begin(w) \/ EfimReturn(w)
    BY <2>1, <2>6 DEF Begin, EfimReturn
  <2> QED
    BY <1>2, <2>4, <2>5, <2>6 DEF EfimThread
<1> QED
  BY <1>1, <1>2 DEF EfimNext

LEMMA EfimStepPromised ==
  ASSUME EfimIInv, EfimIInv', [EfimNext]_searchVars
  PROVE  [Promise!Mine]_(Promise!vars)
<1>1. CASE EfimNext
  <2>1. /\ phase # "done" /\ UNCHANGED <<db, mode>> /\ (failed => failed')
        /\ found \subseteq found'
    BY <1>1, EfimSteps
  <2>2. EfimWanted' = EfimWanted /\ (\A S : EfimEntry(S)' = EfimEntry(S)) /\ Closes' = Closes
    BY <2>1, EfimKept
  <2>3. Promise!Results = {EfimEntry(S) : S \in EfimWanted}
    BY EfimPromisedResults
  <2>4. found' \subseteq Promise!Results
    BY <2>2, <2>3 DEF EfimIInv, EfimSound
  <2>5. ASSUME phase' = "done", ~failed'
        PROVE  Promise!Results \subseteq found'
    <3>1. todo' = {} /\ \A w \in Threads : stack'[w] = <<>>
      BY <2>5 DEF EfimIInv, EfimPhases, Busy
    <3>2. \A S : ~EfimToCome(S)'
      BY <3>1 DEF EfimToCome, Members
    <3>3. \A S \in EfimWanted : EfimEntry(S) \in found'
      BY <2>2, <2>5, <3>2 DEF EfimIInv, EfimComplete
    <3> QED
      BY <2>3, <3>3
  <2>6. UNCHANGED <<db, mode.minUtility, Closes>>
    BY <2>1, <2>2
  <2> QED
    BY <2>1, <2>4, <2>5, <2>6 DEF Promise!Mine
<1>2. CASE UNCHANGED searchVars
  BY <1>2 DEF searchVars, contextVars, Promise!vars, Closes
<1> QED
  BY <1>1, <1>2

\* EFIM, EFIM-Closed and HAUI-Miner write only itemsets that reach the threshold (the
\* closed ones, for EFIM-Closed), with their utilities, and when nothing has failed they
\* have written all of them at the end: for every database, threshold, budget and number of
\* threads, in every order of tasks, whatever is spilled, with any calls of the pool failing.
THEOREM ProjectionKeepsPromise == EfimSpec => PromiseKept
<1>1. EfimInit => Promise!Init
  BY DEF EfimInit, StartSearch, NoStack, Start, Promise!Init
<1> QED
  BY <1>1, EfimStepPromised, EfimInductive, PTL DEF EfimSpec, PromiseKept, Promise!Spec

-----------------------------------------------------------------------------
(* The memory guard *)

\* The entries of all projections on the stacks of the threads.
Entries(st) ==
  {e \in Threads \X Nat \X Tids :
     e[2] \in DOMAIN st[e[1]] /\ e[3] \in DOMAIN st[e[1]][e[2]].proj}

Stacks == [Threads -> Seq(EfimFrames)]

LEMMA EntriesFinite ==
  ASSUME NEW st \in Stacks
  PROVE  IsFiniteSet(Entries(st)) /\ Cardinality(Entries(st)) \in Nat
<1> HIDE DEF EfimFrames
<1> DEFINE box == [w \in Threads |-> {w} \X (DOMAIN st[w]) \X Tids]
           boxes == {box[w] : w \in Threads}
<1>1. IsFiniteSet(Threads) /\ IsFiniteSet(Tids)
  BY ContextAssumption, Constants
<1>2. ASSUME NEW w \in Threads
      PROVE  IsFiniteSet(box[w]) /\ DOMAIN st[w] \in SUBSET Nat
  <2>1. st[w] \in Seq(EfimFrames)
    BY DEF Stacks
  <2>2. DOMAIN st[w] = 1 .. Len(st[w]) /\ Len(st[w]) \in Nat
    BY <2>1
  <2>3. IsFiniteSet(DOMAIN st[w]) /\ IsFiniteSet({w})
    <3> DEFINE n == Len(st[w])
    <3>1. n \in Int /\ DOMAIN st[w] = 1 .. n /\ 1 \in Int
      BY <2>2
    <3> HIDE DEF n
    <3>2. IsFiniteSet(1 .. n)
      BY <3>1, FS_Interval
    <3> QED
      BY <3>1, <3>2, FS_Singleton
  <2>4. IsFiniteSet({w} \X (DOMAIN st[w]))
    BY <2>3, FS_Product
  <2> DEFINE flat == ({w} \X (DOMAIN st[w])) \X Tids
             nest == [e \in flat |-> <<e[1][1], e[1][2], e[2]>>]
  <2>5. IsFiniteSet(flat)
    BY <1>1, <2>4, FS_Product
  <2>6. nest \in Surjection(flat, box[w])
    <3>1. \A e \in flat : nest[e] \in box[w]
      OBVIOUS
    <3>2. ASSUME NEW e \in box[w]
          PROVE  \E g \in flat : nest[g] = e
      <4>1. e = <<e[1], e[2], e[3]>> /\ e[1] = w /\ e[2] \in DOMAIN st[w] /\ e[3] \in Tids
        OBVIOUS
      <4>2. <<<<e[1], e[2]>>, e[3]>> \in flat /\ nest[<<<<e[1], e[2]>>, e[3]>>] = e
        BY <4>1
      <4> QED
        BY <4>2
    <3> HIDE DEF flat, box
    <3> QED
      BY <3>1, <3>2 DEF Surjection
  <2> HIDE DEF flat, nest, box
  <2> QED
    BY <2>2, <2>5, <2>6, FS_Surjection
<1>3. IsFiniteSet(boxes)
  <2> HIDE DEF box
  <2> DEFINE f == [w \in Threads |-> box[w]]
  <2>1. f \in Surjection(Threads, boxes)
    BY DEF Surjection
  <2> HIDE DEF f, boxes
  <2> QED
    BY <1>1, <2>1, FS_Surjection
<1>4. IsFiniteSet(UNION boxes)
  <2> HIDE DEF box
  <2>1. \A B \in boxes : IsFiniteSet(B)
    BY <1>2
  <2> HIDE DEF boxes
  <2> QED
    BY <1>3, <2>1, FS_UNION
<1>5. Entries(st) \in SUBSET UNION boxes
  <2>1. ASSUME NEW e \in Entries(st)
        PROVE  e \in box[e[1]] /\ e[1] \in Threads
    BY DEF Entries
  <2> HIDE DEF box
  <2> QED
    BY <2>1
<1> HIDE DEF boxes
<1> QED
  BY <1>4, <1>5, FS_Subset, FS_CardinalityType

\* A projection pushed on a stack adds its entries, and moves those below by one.
LEMMA EntriesPushed ==
  ASSUME NEW st \in Stacks, NEW w \in Threads, NEW f \in EfimFrames
  PROVE  LET long == [st EXCEPT ![w] = <<f>> \o st[w]] IN
         /\ long \in Stacks
         /\ Cardinality(Entries(long))
              = Cardinality(Entries(st)) + Cardinality(DOMAIN f.proj)
         /\ Cardinality(DOMAIN f.proj) \in Nat
<1> DEFINE long == [st EXCEPT ![w] = <<f>> \o st[w]]
           moved == [e \in Entries(st) |->
                       IF e[1] = w THEN <<e[1], e[2] + 1, e[3]>> ELSE e]
           lower == {moved[e] : e \in Entries(st)}
           top == {w} \X {1} \X (DOMAIN f.proj)
<1>1. DOMAIN f.proj \in SUBSET Tids
  BY DEF EfimFrames, Projections
<1> HIDE DEF EfimFrames
<1>2. /\ st[w] \in Seq(EfimFrames) /\ long \in Stacks /\ long[w] = <<f>> \o st[w]
      /\ \A v \in Threads \ {w} : long[v] = st[v]
  <2>1. st[w] \in Seq(EfimFrames)
    BY DEF Stacks
  <2>2. <<f>> \o st[w] \in Seq(EfimFrames)
    BY <2>1, OnStack
  <2> QED
    BY <2>1, <2>2 DEF Stacks
<1>3. /\ DOMAIN long[w] = 1 .. Len(st[w]) + 1 /\ DOMAIN st[w] = 1 .. Len(st[w])
      /\ Len(st[w]) \in Nat /\ long[w][1] = f
      /\ \A i \in DOMAIN st[w] : long[w][i + 1] = st[w][i]
  <2> DEFINE one == <<f>>
             short == st[w]
  <2>1. one \in Seq(EfimFrames) /\ Len(one) = 1 /\ one[1] = f /\ short \in Seq(EfimFrames)
    BY <1>2
  <2> HIDE DEF one, short
  <2>2. /\ one \o short \in Seq(EfimFrames) /\ Len(one \o short) = Len(one) + Len(short)
        /\ \A i \in 1 .. Len(one) + Len(short) :
             (one \o short)[i] = IF i <= Len(one) THEN one[i] ELSE short[i - Len(one)]
    BY <2>1, ConcatProperties
  <2>3. Len(short) \in Nat /\ DOMAIN short = 1 .. Len(short)
        /\ DOMAIN (one \o short) = 1 .. 1 + Len(short)
    BY <2>1, <2>2
  <2>4. \A i \in 1 .. Len(short) : (one \o short)[i + 1] = short[i]
    BY <2>1, <2>2, <2>3
  <2>5. (one \o short)[1] = f
    BY <2>1, <2>2, <2>3
  <2>6. 1 + Len(short) = Len(short) + 1
    BY <2>3
  <2> QED
    BY <1>2, <2>3, <2>4, <2>5, <2>6 DEF one, short
<1> HIDE DEF long
<1>4. Entries(long) = lower \cup top
  <2>1. ASSUME NEW e \in Entries(long)
        PROVE  e \in lower \cup top
    <3>1. /\ e \in Threads \X Nat \X Tids /\ e = <<e[1], e[2], e[3]>>
          /\ e[1] \in Threads /\ e[2] \in Nat /\ e[3] \in Tids
          /\ e[2] \in DOMAIN long[e[1]] /\ e[3] \in DOMAIN long[e[1]][e[2]].proj
      BY DEF Entries
    <3>2. CASE e[1] # w
      <4>1. e \in Entries(st)
        BY <1>2, <3>1, <3>2 DEF Entries
      <4>2. moved[e] = e
        BY <3>2, <4>1
      <4> QED
        BY <4>1, <4>2
    <3>3. CASE e[1] = w /\ e[2] = 1
      <4>1. e[3] \in DOMAIN f.proj
        BY <1>3, <3>1, <3>3
      <4> QED
        BY <3>1, <3>3, <4>1
    <3>4. CASE e[1] = w /\ e[2] # 1
      <4> DEFINE i == e[2] - 1
                 g == <<w, i, e[3]>>
      <4>1. i \in DOMAIN st[w] /\ i \in Nat /\ i + 1 = e[2]
        BY <1>3, <3>1, <3>4
      <4>2. e[3] \in DOMAIN st[w][i].proj
        BY <1>3, <3>1, <3>4, <4>1
      <4> HIDE DEF i
      <4>3. g \in Threads \X Nat \X Tids /\ g[1] = w /\ g[2] = i /\ g[3] = e[3]
        BY <3>1, <4>1
      <4>4. g \in Entries(st)
        BY <4>1, <4>2, <4>3 DEF Entries
      <4>5. moved[g] = e
        BY <3>1, <3>4, <4>1, <4>3, <4>4
      <4> QED
        BY <4>4, <4>5
    <3> QED
      BY <3>2, <3>3, <3>4
  <2>2. ASSUME NEW e \in Entries(st)
        PROVE  moved[e] \in Entries(long)
    <3>1. /\ e = <<e[1], e[2], e[3]>>
          /\ e[1] \in Threads /\ e[2] \in Nat /\ e[3] \in Tids
          /\ e[2] \in DOMAIN st[e[1]] /\ e[3] \in DOMAIN st[e[1]][e[2]].proj
      BY DEF Entries
    <3>2. CASE e[1] # w
      BY <1>2, <2>2, <3>1, <3>2 DEF Entries
    <3>3. CASE e[1] = w
      <4> DEFINE g == <<w, e[2] + 1, e[3]>>
      <4>1. g \in Threads \X Nat \X Tids /\ g[1] = w /\ g[2] = e[2] + 1 /\ g[3] = e[3]
        BY <3>1
      <4>2. e[2] + 1 \in DOMAIN long[w] /\ long[w][e[2] + 1] = st[w][e[2]]
        BY <1>3, <3>1, <3>3
      <4>3. g \in Entries(long)
        BY <3>1, <3>3, <4>1, <4>2 DEF Entries
      <4>4. moved[e] = g
        BY <3>3
      <4> QED
        BY <4>3, <4>4
    <3> QED
      BY <3>2, <3>3
  <2>3. top \in SUBSET Entries(long)
    BY <1>1, <1>3 DEF Entries
  <2> HIDE DEF moved, top
  <2> QED
    BY <2>1, <2>2, <2>3
<1>5. lower \cap top = {}
  <2>1. ASSUME NEW e \in Entries(st), moved[e] \in top
        PROVE  FALSE
    <3>1. /\ e = <<e[1], e[2], e[3]>> /\ e[1] \in Threads /\ e[2] \in DOMAIN st[e[1]]
      BY DEF Entries
    <3>2. moved[e][1] = w /\ moved[e][2] = 1
      BY <2>1
    <3>3. CASE e[1] = w
      BY <1>3, <3>1, <3>2, <3>3
    <3>4. CASE e[1] # w
      BY <3>2, <3>4
    <3> QED
      BY <3>3, <3>4
  <2> HIDE DEF moved, top
  <2> QED
    BY <2>1
<1>6. IsFiniteSet(lower) /\ Cardinality(lower) = Cardinality(Entries(st))
  <2>1. \A e, g \in Entries(st) : moved[e] = moved[g] => e = g
    <3>1. ASSUME NEW e \in Entries(st), NEW g \in Entries(st), moved[e] = moved[g]
          PROVE  e = g
      <4>1. /\ e = <<e[1], e[2], e[3]>> /\ e[2] \in Nat
            /\ g = <<g[1], g[2], g[3]>> /\ g[2] \in Nat
        BY DEF Entries
      <4>2. /\ moved[e] = <<e[1], IF e[1] = w THEN e[2] + 1 ELSE e[2], e[3]>>
            /\ moved[g] = <<g[1], IF g[1] = w THEN g[2] + 1 ELSE g[2], g[3]>>
        BY <4>1
      <4> QED
        BY <3>1, <4>1, <4>2
    <3> QED
      BY <3>1
  <2>2. moved \in [Entries(st) -> lower] /\ \A b \in lower : \E e \in Entries(st) : moved[e] = b
    OBVIOUS
  <2> HIDE DEF moved, lower
  <2>3. moved \in Bijection(Entries(st), lower)
    BY <2>1, <2>2, Fun_IsBij
  <2>4. ExistsBijection(Entries(st), lower)
    BY <2>3 DEF ExistsBijection
  <2> QED
    BY <2>4, EntriesFinite, FS_Bijection
<1>7. /\ IsFiniteSet(top) /\ Cardinality(top) = Cardinality(DOMAIN f.proj)
      /\ Cardinality(DOMAIN f.proj) \in Nat
  <2> DEFINE place == [t \in DOMAIN f.proj |-> <<w, 1, t>>]
             tids == DOMAIN f.proj
  <2>1. IsFiniteSet(tids) /\ Cardinality(tids) \in Nat
    BY <1>1, Constants, FS_Subset, FS_CardinalityType
  <2>2. /\ place \in [tids -> top] /\ (\A t, u \in tids : place[t] = place[u] => t = u)
        /\ \A b \in top : \E t \in tids : place[t] = b
    OBVIOUS
  <2> HIDE DEF place, tids, top
  <2>3. place \in Bijection(tids, top)
    BY <2>2, Fun_IsBij
  <2>4. ExistsBijection(tids, top)
    BY <2>3 DEF ExistsBijection
  <2>5. IsFiniteSet(top) /\ Cardinality(top) = Cardinality(tids)
    BY <2>1, <2>4, FS_Bijection
  <2> QED
    BY <2>1, <2>5 DEF tids
<1> HIDE DEF lower, top
<1>8. Cardinality(Entries(long)) = Cardinality(lower) + Cardinality(top)
  <2>1. Cardinality(lower \cap top) = 0
    BY <1>5, FS_EmptySet
  <2>2. Cardinality(lower \cup top)
          = Cardinality(lower) + Cardinality(top) - Cardinality(lower \cap top)
    BY <1>6, <1>7, FS_Union
  <2>3. Cardinality(lower) \in Nat /\ Cardinality(top) \in Nat
    BY <1>6, <1>7, FS_CardinalityType
  <2> QED
    BY <1>4, <2>1, <2>2, <2>3
<1> QED
  BY <1>2, <1>6, <1>7, <1>8 DEF long

\* A stack without its top has the entries of the top less.
LEMMA EntriesPopped ==
  ASSUME NEW st \in Stacks, NEW w \in Threads, st[w] # <<>>
  PROVE  LET short == [st EXCEPT ![w] = Tail(st[w])] IN
         /\ short \in Stacks
         /\ Cardinality(Entries(st))
              = Cardinality(Entries(short)) + Cardinality(DOMAIN st[w][1].proj)
         /\ Cardinality(DOMAIN st[w][1].proj) \in Nat
         /\ \A f \in EfimFrames : DOMAIN f.proj = DOMAIN st[w][1].proj =>
              LET other == [st EXCEPT ![w] = <<f>> \o Tail(st[w])] IN
              other \in Stacks /\ Cardinality(Entries(other)) = Cardinality(Entries(st))
<1> HIDE DEF EfimFrames
<1> DEFINE short == [st EXCEPT ![w] = Tail(st[w])]
           top == st[w][1]
           rest == Tail(st[w])
<1>1. st \in [Threads -> Seq(EfimFrames)] /\ st[w] \in Seq(EfimFrames)
  BY DEF Stacks
<1>2. top \in EfimFrames /\ rest \in Seq(EfimFrames) /\ [st[w] EXCEPT ![1] = top] = <<top>> \o rest
  BY <1>1, TopOfStack
<1>3. short \in Stacks /\ short[w] = rest
  BY <1>1, <1>2 DEF Stacks
<1>4. [st[w] EXCEPT ![1] = top] = st[w]
  BY <1>1
<1>5. \A f : [short EXCEPT ![w] = <<f>> \o short[w]] = [st EXCEPT ![w] = <<f>> \o rest]
  BY <1>1, <1>3
<1>6. [short EXCEPT ![w] = <<top>> \o short[w]] = st
  BY <1>1, <1>2, <1>4, <1>5
<1> HIDE DEF short, top, rest
<1>7. /\ Cardinality(Entries(st)) = Cardinality(Entries(short)) + Cardinality(DOMAIN top.proj)
      /\ Cardinality(DOMAIN top.proj) \in Nat
  BY <1>2, <1>3, <1>6, EntriesPushed
<1>8. ASSUME NEW f \in EfimFrames, DOMAIN f.proj = DOMAIN top.proj
      PROVE  /\ [st EXCEPT ![w] = <<f>> \o rest] \in Stacks
             /\ Cardinality(Entries([st EXCEPT ![w] = <<f>> \o rest])) = Cardinality(Entries(st))
  <2> DEFINE long == [short EXCEPT ![w] = <<f>> \o short[w]]
  <2>1. /\ long \in Stacks
        /\ Cardinality(Entries(long)) = Cardinality(Entries(short)) + Cardinality(DOMAIN f.proj)
    BY <1>3, EntriesPushed
  <2> QED
    BY <1>5, <1>7, <1>8, <2>1
<1> QED
  BY <1>3, <1>7, <1>8 DEF short, top, rest

\* While nothing has been refused, the counter is the bytes of the database and of all
\* projections.
EfimHeld ==
  ~refused =>
    used = (IF phase = "search" THEN DatabaseBytes ELSE 0)
             + EntryBytes * Cardinality(Entries(stack))

LEMMA NoEntries ==
  ASSUME \A w \in Threads : ~Busy(w)
  PROVE  Cardinality(Entries(stack)) = 0
<1>1. Entries(stack) = {}
  BY DEF Entries, Busy
<1> QED
  BY <1>1, FS_EmptySet

LEMMA DatabaseKept ==
  ASSUME UNCHANGED <<db, twu>>
  PROVE  DatabaseBytes' = DatabaseBytes
BY DEF DatabaseBytes, ItemBytes

\* A request that is granted adds what its projection adds to the stack.
LEMMA SearchHeld ==
  ASSUME EfimIInv, EfimHeld, phase = "search", NEW w \in Threads, NEW S \in SUBSET Items,
         NEW proj \in Projections, NEW rest \in Seq(EfimFrames), Search(w, S, proj, rest),
         UNCHANGED <<db, twu, phase>>,
         Cardinality(Entries([stack EXCEPT ![w] = rest])) = Cardinality(Entries(stack))
  PROVE  EfimHeld'
<1> HIDE DEF EfimFrames, Projections
<1>1. CASE refused'
  BY <1>1 DEF EfimHeld
<1>2. CASE ~refused'
  <2> DEFINE f == EfimFrame(S, proj, FALSE)
             st == [stack EXCEPT ![w] = rest]
  <2>1. /\ used' = used + ProjectionBytes(proj) /\ ~refused
        /\ stack' = [stack EXCEPT ![w] = <<f>> \o rest]
    <3> HIDE DEF f
    <3>1. \/ /\ used' = used + ProjectionBytes(proj)
             /\ stack' = [stack EXCEPT ![w] = <<f>> \o rest]
             /\ refused' = refused
          \/ refused' = TRUE
      BY DEF Search, f
    <3> QED
      BY <1>2, <3>1
  <2>2. f \in EfimFrames /\ f.proj = proj
    BY DEF EfimFrame, EfimFrames
  <2>3. stack \in [Threads -> Seq(EfimFrames)]
    BY DEF EfimIInv, EfimTypes
  <2>4. st \in Stacks /\ st[w] = rest /\ stack' = [st EXCEPT ![w] = <<f>> \o st[w]]
    BY <2>1, <2>3 DEF Stacks
  <2> HIDE DEF f, st
  <2>5. /\ Cardinality(Entries(stack')) = Cardinality(Entries(st)) + Cardinality(DOMAIN proj)
        /\ Cardinality(DOMAIN proj) \in Nat
    BY <2>2, <2>4, EntriesPushed
  <2>6. /\ Cardinality(Entries(stack')) = Cardinality(Entries(stack)) + Cardinality(DOMAIN proj)
        /\ Cardinality(Entries(stack)) \in Nat
    BY <2>3, <2>5, EntriesFinite DEF st, Stacks
  <2>7. DatabaseBytes' = DatabaseBytes /\ DatabaseBytes \in Nat
    BY DatabaseKept, BytesType DEF EfimIInv, EfimTypes
  <2>8. used = DatabaseBytes + EntryBytes * Cardinality(Entries(stack))
    BY <2>1 DEF EfimHeld
  <2>9. used' = DatabaseBytes + EntryBytes * Cardinality(Entries(stack'))
    BY <2>1, <2>5, <2>6, <2>7, <2>8 DEF ProjectionBytes, EntryBytes
  <2>10. Cardinality(Entries(stack))' = Cardinality(Entries(stack'))
    BY DEF Entries
  <2> QED
    BY <2>7, <2>9, <2>10 DEF EfimHeld, EntryBytes
<1> QED
  BY <1>1, <1>2

\* A return takes off the counter what it takes off the stack: nothing is cut off.
LEMMA PopHeld ==
  ASSUME EfimIInv, EfimHeld, NEW w \in Threads, Busy(w), Pop(w), UNCHANGED <<db, twu, phase, refused>>
  PROVE  EfimHeld'
<1> HIDE DEF EfimFrames
<1> DEFINE st == [stack EXCEPT ![w] = Tail(stack[w])]
           n == Cardinality(DOMAIN stack[w][1].proj)
<1>1. SUFFICES ASSUME ~refused
               PROVE  EfimHeld'
  BY DEF EfimHeld
<1>2. stack \in Stacks /\ stack[w] # <<>> /\ phase = "search"
  BY EfimTopFrame DEF EfimIInv, EfimTypes, Stacks, Busy
<1>3. stack' = st /\ used' = Without(EntryBytes * n)
  BY DEF Pop, Top, ProjectionBytes
<1>4. /\ Cardinality(Entries(stack)) = Cardinality(Entries(st)) + n /\ n \in Nat
      /\ st \in Stacks
  BY <1>2, EntriesPopped
<1> HIDE DEF st, n
<1>5. Cardinality(Entries(st)) \in Nat
  BY <1>4, EntriesFinite
<1>6. DatabaseBytes' = DatabaseBytes /\ DatabaseBytes \in Nat
  BY DatabaseKept, BytesType DEF EfimIInv, EfimTypes
<1>7. used = DatabaseBytes + EntryBytes * Cardinality(Entries(stack))
  BY <1>1, <1>2 DEF EfimHeld
<1>8. used' = DatabaseBytes + EntryBytes * Cardinality(Entries(st))
  BY <1>3, <1>4, <1>5, <1>6, <1>7 DEF Without, EntryBytes
<1>9. Cardinality(Entries(stack))' = Cardinality(Entries(st))
  BY <1>3 DEF Entries
<1> QED
  BY <1>2, <1>6, <1>8, <1>9 DEF EfimHeld, EntryBytes

\* A step that touches neither the counter nor what is on the stacks.
LEMMA SameHeld ==
  ASSUME EfimHeld, UNCHANGED <<db, twu, phase, used, refused>>,
         Cardinality(Entries(stack')) = Cardinality(Entries(stack))
  PROVE  EfimHeld'
<1>1. DatabaseBytes' = DatabaseBytes
  BY DatabaseKept
<1>2. Cardinality(Entries(stack))' = Cardinality(Entries(stack'))
  BY DEF Entries
<1> QED
  BY <1>1, <1>2 DEF EfimHeld, EntryBytes

LEMMA PassesHeld ==
  ASSUME EfimIInv, EfimHeld, EfimPasses
  PROVE  EfimHeld'
<1> HIDE DEF EfimFrames
<1>1. (\A w \in Threads : ~Busy(w)) /\ UNCHANGED <<stack, refused>>
  BY DEF EfimPasses, EfimFilter, FilterTo, Load, EfimFinish, EfimIInv, EfimPhases
<1>2. Cardinality(Entries(stack)) = 0 /\ Cardinality(Entries(stack))' = 0
  <2>1. Entries(stack)' = Entries(stack)
    BY <1>1 DEF Entries
  <2> QED
    BY <1>1, <2>1, NoEntries
<1>3. DatabaseBytes \in Nat
  BY BytesType DEF EfimIInv, EfimTypes
<1>4. CASE EfimFilter
  BY <1>1, <1>2, <1>4 DEF EfimFilter, FilterTo, EfimHeld, EntryBytes
<1>5. CASE Load \/ EfimFinish
  <2>1. UNCHANGED <<db, twu>> /\ DatabaseBytes' = DatabaseBytes
    BY <1>5, DatabaseKept DEF Load, EfimFinish
  <2>2. \/ phase = "load" /\ phase' = "search" /\ used' = used + DatabaseBytes
        \/ phase = "search" /\ phase' = "done" /\ used' = Without(DatabaseBytes)
    BY <1>5 DEF Load, EfimFinish
  <2> QED
    BY <1>1, <1>2, <1>3, <2>1, <2>2 DEF EfimHeld, EntryBytes, Without
<1> QED
  BY <1>4, <1>5 DEF EfimPasses

LEMMA ThreadHeld ==
  ASSUME EfimIInv, EfimHeld, NEW w \in Threads, EfimThread(w)
  PROVE  EfimHeld'
<1> HIDE DEF EfimFrames, Projections
<1>1. stack \in [Threads -> Seq(EfimFrames)] /\ stack \in Stacks
  BY DEF EfimIInv, EfimTypes, Stacks
<1>2. ASSUME NEW x \in Items, EfimTake(w, x)
      PROVE  EfimHeld'
  <2>1. /\ phase = "search" /\ stack[w] = <<>> /\ x \in DOMAIN twu
        /\ Search(w, {x}, Projected(Whole, x), <<>>) /\ UNCHANGED <<db, twu, phase>>
    BY <1>2 DEF EfimTake, Busy, EfimIInv, EfimTypes
  <2>2. Ordered
    BY <2>1, FilterFacts DEF EfimIInv, EfimPhases
  <2>3. Projected(Whole, x) \in Projections
    BY <2>1, <2>2, ProjectedWhole, ProjectionIn
  <2> DEFINE none == <<>>
             S == {x}
             proj == Projected(Whole, x)
  <2>4. [stack EXCEPT ![w] = none] = stack
    BY <1>1, <2>1
  <2>5. /\ none \in Seq(EfimFrames) /\ S \in SUBSET Items /\ proj \in Projections
        /\ Search(w, S, proj, none)
    BY <2>1, <2>3
  <2> HIDE DEF none, S, proj
  <2> QED
    BY <2>1, <2>4, <2>5, SearchHeld
<1>3. ASSUME NEW x \in Items, Visit(w, x)
      PROVE  EfimHeld'
  <2> DEFINE f == Top(w)
             g == [f EXCEPT !.left = @ \ {x}]
             rest == <<g>> \o Tail(stack[w])
             S == f.itemset \cup {x}
  <2>1. Busy(w) /\ x \in f.left /\ UNCHANGED <<db, mode, phase, twu>>
    BY <1>3 DEF Visit
  <2>2. /\ phase = "search" /\ stack[w] # <<>> /\ f \in EfimFrames /\ f = stack[w][1]
        /\ Tail(stack[w]) \in Seq(EfimFrames) /\ EfimFrameRight(f)
        /\ \A h \in EfimFrames : [stack[w] EXCEPT ![1] = h] = <<h>> \o Tail(stack[w])
    BY <2>1, EfimTopFrame
  <2>3. EfimGiven /\ Filtered
    BY <2>2 DEF EfimIInv, EfimPhases
  <2>4. /\ EndsWith(S, x) /\ S \in SUBSET DOMAIN twu
        /\ Projected(f.proj, x) = ProjectionOf(S)
        /\ ~ (LocalUtility(f.proj, x) < mode.minUtility)
    <3>1. x \in Valid(f.proj)
      BY <2>1, <2>2 DEF EfimFrameRight
    <3> HIDE DEF f
    <3> QED
      BY <2>2, <2>3, <3>1, ValidSays
  <2>5. Ordered /\ S \in SUBSET Items
    BY <2>3, <2>4, FilterFacts
  <2>6. Projected(f.proj, x) \in Projections
    <3> HIDE DEF f, S
    <3> QED
      BY <2>4, <2>5, ProjectionIn
  <2>7. g \in EfimFrames /\ g.proj = f.proj
    <3> HIDE DEF f
    <3> QED
      BY <2>2 DEF EfimFrames
  <2>8. [stack[w] EXCEPT ![1].left = @ \ {x}] = rest
    BY <2>2, <2>7
  <2>9. Search(w, S, Projected(f.proj, x), rest)
    BY <1>3, <2>4, <2>8 DEF Visit
  <2>10. rest \in Seq(EfimFrames)
    <3> HIDE DEF g
    <3> QED
      BY <2>2, <2>7, OnStack
  <2>11. Cardinality(Entries([stack EXCEPT ![w] = rest])) = Cardinality(Entries(stack))
    <3> HIDE DEF g, f
    <3> QED
      BY <1>1, <2>2, <2>7, EntriesPopped
  <2> DEFINE proj == Projected(f.proj, x)
  <2>12. proj \in Projections /\ Search(w, S, proj, rest)
    BY <2>6, <2>9
  <2> HIDE DEF rest, S, proj, f, g
  <2> QED
    BY <2>1, <2>2, <2>5, <2>10, <2>11, <2>12, SearchHeld
<1>4. CASE Begin(w)
  <2> DEFINE g == [Top(w) EXCEPT !.begun = TRUE, !.left = Valid(Top(w).proj)]
  <2>1. /\ Busy(w) /\ UNCHANGED <<db, mode, phase, twu, refused>>
        /\ \/ stack' = [stack EXCEPT ![w][1] = g] /\ UNCHANGED used
           \/ Pop(w)
    BY <1>4 DEF Begin
  <2>2. CASE Pop(w)
    BY <2>1, <2>2, PopHeld
  <2>3. CASE stack' = [stack EXCEPT ![w][1] = g] /\ UNCHANGED used
    <3>1. /\ phase = "search" /\ stack[w] # <<>> /\ Top(w) \in EfimFrames /\ Top(w) = stack[w][1]
          /\ \A h \in EfimFrames : [stack[w] EXCEPT ![1] = h] = <<h>> \o Tail(stack[w])
      BY <2>1, EfimTopFrame
    <3>2. Valid(Top(w).proj) \in SUBSET Items
      BY DEF Valid, EfimIInv, EfimTypes
    <3>3. g \in EfimFrames /\ g.proj = Top(w).proj
      BY <3>1, <3>2 DEF EfimFrames
    <3>4. stack' = [stack EXCEPT ![w] = <<g>> \o Tail(stack[w])]
      <4>1. [stack[w] EXCEPT ![1] = g] = <<g>> \o Tail(stack[w])
        BY <3>1, <3>3
      <4>2. stack' = [stack EXCEPT ![w] = [stack[w] EXCEPT ![1] = g]]
        BY <1>1, <2>3, <3>1
      <4> QED
        BY <4>1, <4>2
    <3> HIDE DEF g
    <3>5. Cardinality(Entries([stack EXCEPT ![w] = <<g>> \o Tail(stack[w])]))
            = Cardinality(Entries(stack))
      <4>1. DOMAIN g.proj = DOMAIN stack[w][1].proj /\ g \in EfimFrames /\ stack[w] # <<>>
        BY <3>1, <3>3
      <4> QED
        BY <1>1, <4>1, EntriesPopped
    <3>6. Cardinality(Entries(stack')) = Cardinality(Entries(stack))
      BY <3>4, <3>5
    <3> QED
      BY <2>1, <2>3, <3>6, SameHeld
  <2> QED
    BY <2>1, <2>2, <2>3
<1>5. CASE EfimReturn(w)
  BY <1>5, PopHeld DEF EfimReturn
<1> QED
  BY <1>2, <1>3, <1>4, <1>5 DEF EfimThread

LEMMA EfimHeldInit == EfimInit => EfimHeld
<1>1. EfimInit => \A w \in Threads : ~Busy(w)
  BY DEF EfimInit, StartSearch, NoStack, Busy
<1>2. EfimInit => used = 0 /\ phase # "search"
  BY DEF EfimInit, StartSearch, NoStack, Start
<1> QED
  BY <1>1, <1>2, NoEntries DEF EfimHeld, EntryBytes

LEMMA EfimHeldStep ==
  ASSUME EfimIInv, EfimHeld, [EfimNext]_searchVars
  PROVE  EfimHeld'
<1>1. CASE UNCHANGED searchVars
  BY <1>1, SameHeld DEF searchVars, contextVars
<1> QED
  BY <1>1, PassesHeld, ThreadHeld DEF EfimNext

LEMMA EfimAlways == EfimSpec => [](EfimIInv /\ EfimHeld)
BY EfimHeldInit, EfimHeldStep, EfimInductive, PTL DEF EfimSpec

LEMMA EfimLedger == EfimIInv /\ EfimHeld => LedgerExact
<1>1. SUFFICES ASSUME EfimIInv, EfimHeld, ~refused
               PROVE  used = IF phase # "search" THEN 0
                             ELSE DatabaseBytes +
                                  EntryBytes * Cardinality({l \in Live :
                                     l[3] \in DOMAIN stack[l[1]][l[2]].proj})
  BY DEF LedgerExact
<1>2. {l \in Live : l[3] \in DOMAIN stack[l[1]][l[2]].proj} = Entries(stack)
  <2>1. \A w \in Threads : DOMAIN stack[w] \in SUBSET Nat
    <3>1. \A w \in Threads : stack[w] \in Seq(EfimFrames)
      BY <1>1 DEF EfimIInv, EfimTypes
    <3> HIDE DEF EfimFrames
    <3> QED
      BY <3>1
  <2> QED
    BY <2>1 DEF Live, Entries
<1>3. phase # "search" => Cardinality(Entries(stack)) = 0
  BY <1>1, NoEntries DEF EfimIInv, EfimPhases
<1>4. DatabaseBytes \in Nat /\ Cardinality(Entries(stack)) \in Nat
  BY <1>1, BytesType, EntriesFinite DEF EfimIInv, EfimTypes, Stacks
<1>5. used = IF phase # "search" THEN 0
             ELSE DatabaseBytes + EntryBytes * Cardinality(Entries(stack))
  BY <1>1, <1>3, <1>4 DEF EfimHeld, EntryBytes
<1> QED
  BY <1>2, <1>5

LEMMA EfimLedgerEnd == EfimIInv /\ EfimHeld => LedgerClosed
<1>1. SUFFICES ASSUME EfimIInv, EfimHeld, phase = "done", ~refused
               PROVE  used = 0
  BY DEF LedgerClosed
<1>2. Cardinality(Entries(stack)) = 0
  BY <1>1, NoEntries DEF EfimIInv, EfimPhases
<1> QED
  BY <1>1, <1>2 DEF EfimHeld, EntryBytes

\* While the memory guard has refused nothing, its counter is exactly the bytes of the
\* database and of the projections on the stacks of all threads.
THEOREM ProjectionLedgerExact == EfimSpec => []LedgerExact
BY EfimLedger, EfimAlways, PTL

\* A run of EFIM or a relative in which nothing was refused ends with the counter at zero.
THEOREM ProjectionLedgerClosed == EfimSpec => []LedgerClosed
BY EfimLedgerEnd, EfimAlways, PTL

-----------------------------------------------------------------------------
(* TwoPhase *)

LEMMA TwoPhaseRunConstants ==
  /\ MinedDatabases \subseteq Databases
  /\ \A m \in Modes : m.minUtility \in Nat \ {0} /\ m.budget \in Nat
  /\ PoolFails \in BOOLEAN
BY ContextAssumption

-----------------------------------------------------------------------------
(* Lists *)

Lists == UNION {[T -> Nat] : T \in SUBSET Tids}
ListMaps == UNION {[X -> Lists] : X \in SUBSET Items}

Nothing == [t \in {} |-> 0]

LEMMA ListTypes ==
  ASSUME db \in Databases
  PROVE  /\ \A S \in SUBSET Items : TidsOf(S) \in Lists /\ DOMAIN TidsOf(S) = Supporting(db, S)
         /\ \A l \in Lists : DOMAIN l = {} => \A x \in Items : Intersect(l, x) = Nothing
         /\ Nothing \in Lists
<1>1. ASSUME NEW S \in SUBSET Items
      PROVE  TidsOf(S) \in Lists /\ DOMAIN TidsOf(S) = Supporting(db, S)
  <2>1. Supporting(db, S) \in SUBSET Tids
    BY SupportingTids
  <2>2. \A t \in Supporting(db, S) : ItemSum(S, db[t]) \in Nat
    BY <2>1, ItemSums
  <2>3. TidsOf(S) \in [Supporting(db, S) -> Nat]
    BY <2>2 DEF TidsOf
  <2> QED
    BY <2>1, <2>3 DEF Lists
<1>2. ASSUME NEW l \in Lists, DOMAIN l = {}, NEW x \in Items
      PROVE  Intersect(l, x) = Nothing
  <2>1. DOMAIN l \cap Supporting(db, {x}) = {}
    BY <1>2
  <2> QED
    BY <2>1 DEF Intersect, Nothing
<1>3. Nothing \in [{} -> Nat] /\ {} \in SUBSET Tids
  BY DEF Nothing
<1>4. Nothing \in Lists
  BY <1>3 DEF Lists
<1> QED
  BY <1>1, <1>2, <1>4

LEMMA MapTypes ==
  ASSUME NEW m \in ListMaps
  PROVE  /\ DOMAIN m \in SUBSET Items /\ m \in [DOMAIN m -> Lists]
         /\ \A x \in Items : \A l \in Lists :
              LET n == [y \in DOMAIN m \cup {x} |-> IF y = x THEN l ELSE m[y]] IN
              n \in ListMaps /\ DOMAIN n = DOMAIN m \cup {x}
<1>1. PICK X \in SUBSET Items : m \in [X -> Lists]
  BY DEF ListMaps
<1>2. DOMAIN m \in SUBSET Items /\ m \in [DOMAIN m -> Lists]
  BY <1>1
<1>3. ASSUME NEW x \in Items, NEW l \in Lists
      PROVE  [y \in DOMAIN m \cup {x} |-> IF y = x THEN l ELSE m[y]] \in ListMaps
  <2>1. [y \in DOMAIN m \cup {x} |-> IF y = x THEN l ELSE m[y]] \in [DOMAIN m \cup {x} -> Lists]
    BY <1>2
  <2>2. DOMAIN m \cup {x} \in SUBSET Items
    BY <1>2
  <2> QED
    BY <2>1, <2>2 DEF ListMaps
<1> QED
  BY <1>2, <1>3

\* The list of an item, and the list of an extension of an itemset by another item.
LEMMA ListsOf ==
  ASSUME db \in Databases, NEW x \in Items
  PROVE  /\ ItemTids(x) = TidsOf({x})
         /\ \A S \in SUBSET Items : x \notin S => Intersect(TidsOf(S), x) = TidsOf(S \cup {x})
<1>1. ItemTids(x) = TidsOf({x})
  <2>1. Supporting(db, {x}) \in SUBSET Tids
    BY SupportingTids
  <2>2. \A t \in Supporting(db, {x}) : db[t][x] = ItemSum({x}, db[t])
    BY <2>1, ItemSums
  <2> QED
    BY <2>2 DEF ItemTids, TidsOf
<1>2. ASSUME NEW S \in SUBSET Items, x \notin S
      PROVE  Intersect(TidsOf(S), x) = TidsOf(S \cup {x})
  <2>1. DOMAIN TidsOf(S) \cap Supporting(db, {x}) = Supporting(db, S \cup {x})
    BY DEF TidsOf, Supporting, HasAll
  <2>2. /\ Supporting(db, S) \in SUBSET Tids
        /\ Supporting(db, S \cup {x}) \in SUBSET Supporting(db, S)
    BY SupportingTids, <2>1, ListTypes
  <2>3. ASSUME NEW t \in Supporting(db, S \cup {x})
        PROVE  TidsOf(S)[t] + db[t][x] = ItemSum(S \cup {x}, db[t])
    <3>1. t \in Tids /\ t \in Supporting(db, S)
      BY <2>2
    <3>2. TidsOf(S)[t] = ItemSum(S, db[t])
      BY <3>1 DEF TidsOf
    <3>3. ItemSum(S \cup {x}, db[t]) = ItemSum(S, db[t]) + db[t][x]
      BY <1>2, <3>1, ItemSums
    <3> QED
      BY <3>2, <3>3
  <2> QED
    BY <2>1, <2>3 DEF Intersect, TidsOf
<1> QED
  BY <1>1, <1>2

\* What the search computes from a list is the utility and the TWU of its itemset.
LEMMA ListSums ==
  ASSUME db \in Databases, NEW S \in SUBSET Items
  PROVE  Exact(TidsOf(S)) = Utility(db, S) /\ WholeTwu(TidsOf(S)) = Twu(db, S)
<1>1. DOMAIN TidsOf(S) = Supporting(db, S) /\ Supporting(db, S) \in SUBSET Tids
  BY ListTypes, SupportingTids
<1> DEFINE part == [t \in Tids |-> ItemSum(S, db[t])]
           whole == [t \in Tids |-> TransactionUtility(db, t)]
           own == [t \in Supporting(db, S) |-> TransactionUtility(db, t)]
<1>2. \A t \in Supporting(db, S) : TidsOf(S)[t] = part[t] /\ own[t] = whole[t]
  BY <1>1 DEF TidsOf
<1> HIDE DEF part, whole, own
<1>3. /\ Footprint(Supporting(db, S), TidsOf(S), TidMax) = Footprint(Supporting(db, S), part, TidMax)
      /\ Footprint(Supporting(db, S), own, TidMax) = Footprint(Supporting(db, S), whole, TidMax)
  BY <1>2, FootprintSame
<1> QED
  BY <1>1, <1>3 DEF Exact, WholeTwu, Utility, Twu, TidSum, TidMax, part, whole, own

-----------------------------------------------------------------------------
(* Least elements, and stacks of frames *)

LEMMA LeastExists ==
  ASSUME NEW S \in SUBSET Items, S # {}
  PROVE  \E x \in S : Least(S, x)
<1>1. S \subseteq Nat
  BY Constants
<1>2. PICK x \in S : \A y \in S : <<y, x>> \notin OpToRel(<, Nat)
  BY <1>1, WFMin, NatLessThanWellFounded, Zenon
<1>3. \A y \in S : ~ (y < x)
  BY <1>1, <1>2 DEF OpToRel
<1> QED
  BY <1>1, <1>3 DEF Least

TwoPhaseFrames == [itemset : SUBSET Items, tids : Lists, left : SUBSET Items,
           lists : ListMaps, open : SUBSET Items]

-----------------------------------------------------------------------------
(* The invariant *)

\* What the run has to write.
TwoPhaseWanted ==
  {S \in (SUBSET Items) \ {{}} : Supporting(db, S) # {} /\ Utility(db, S) >= mode.minUtility}

TwoPhaseEntry(S) == [itemset |-> S, utility |-> Utility(db, S)]

Written(S) == TwoPhaseEntry(S) \in found

TwoPhaseGiven ==
  /\ db \in Databases /\ db \in MinedDatabases
  /\ mode \in Modes /\ mode.algorithm = "two-phase"

TwoPhaseTypes ==
  /\ phase \in {"filter", "index", "search", "done"}
  /\ DOMAIN twu \in SUBSET Items /\ todo \in SUBSET DOMAIN twu
  /\ used \in Nat /\ refused \in BOOLEAN /\ failed \in BOOLEAN
  /\ stack \in [Threads -> Seq(TwoPhaseFrames)]

TwoPhasePhases ==
  /\ phase = "filter" => todo = {}
  /\ phase # "filter" => twu = TwuFilter(db, mode.minUtility)
  /\ phase # "search" => \A w \in Threads : ~Busy(w)
  /\ phase = "done" => failed \/ todo = {}

\* The lists of a frame are right, and its extensions come after its items.
TwoPhaseFrameRight(f) ==
  /\ f.open \in SUBSET DOMAIN f.lists
  /\ \A x \in f.itemset : \A y \in f.left \cup DOMAIN f.lists : x < y
  /\ \/ /\ f.tids = TidsOf(f.itemset)
        /\ \A x \in DOMAIN f.lists : f.lists[x] = TidsOf(f.itemset \cup {x})
     \/ failed /\ DOMAIN f.tids = {} /\ DOMAIN f.lists = {}

TwoPhaseFramesRight == \A w \in Threads : \A f \in Members(stack[w]) : TwoPhaseFrameRight(f)

\* Nothing is written that is not to be.
TwoPhaseSound == \A e \in found : \E S \in TwoPhaseWanted : e = TwoPhaseEntry(S)

\* The search below a frame comes to an itemset: through the least item it adds.
TwoPhaseLeadsTo(f, S) ==
  /\ f.itemset \in SUBSET S
  /\ S \ f.itemset \in SUBSET (f.left \cup DOMAIN f.lists)
  /\ \E x \in S \ f.itemset :
       /\ Least(S \ f.itemset, x)
       /\ x \in f.left \/ (x \in f.open /\ S \ f.itemset # {x})

TwoPhaseToCome(S) ==
  \/ \E x \in todo : Least(S, x)
  \/ \E w \in Threads : \E f \in Members(stack[w]) : TwoPhaseLeadsTo(f, S)

\* What is to be written is written, or a task or a call of dfs still comes to it.
TwoPhaseComplete ==
  failed \/ phase \in {"filter", "index"} \/ \A S \in TwoPhaseWanted : Written(S) \/ TwoPhaseToCome(S)

TwoPhaseIInv == TwoPhaseGiven /\ TwoPhaseTypes /\ TwoPhasePhases /\ TwoPhaseFramesRight /\ TwoPhaseSound /\ TwoPhaseComplete

-----------------------------------------------------------------------------
(* Facts of the search *)

LEMMA GivenFacts ==
  ASSUME TwoPhaseGiven
  PROVE  mode.minUtility \in Nat \ {0} /\ mode.budget \in Nat
BY Constants, TwoPhaseRunConstants DEF TwoPhaseGiven

Fresh(f, S, tids, left) ==
  /\ f \in TwoPhaseFrames /\ f.itemset = S /\ f.tids = tids /\ f.left = left
  /\ DOMAIN f.lists = {} /\ f.open = {}

LEMMA FreshFrame ==
  ASSUME NEW S \in SUBSET Items, NEW tids \in Lists, NEW left \in SUBSET Items
  PROVE  Fresh(TwoPhaseFrame(S, tids, left), S, tids, left)
<1> DEFINE none == [x \in {} |-> ItemTids(x)]
<1>1. none \in [{} -> Lists] /\ {} \in SUBSET Items /\ DOMAIN none = {}
  OBVIOUS
<1>2. none \in ListMaps
  BY <1>1 DEF ListMaps
<1> HIDE DEF none
<1>3. TwoPhaseFrame(S, tids, left)
        = [itemset |-> S, tids |-> tids, left |-> left, lists |-> none, open |-> {}]
  BY DEF TwoPhaseFrame, none
<1> QED
  BY <1>1, <1>2, <1>3 DEF TwoPhaseFrames, Fresh

\* A list that is empty sums to nothing, which is below the threshold.
LEMMA EmptyList ==
  ASSUME TwoPhaseGiven
  PROVE  /\ \A S : FoundWith(S, Exact(Nothing)) = found
         /\ ~Worth(Nothing)
<1>1. DOMAIN Nothing = {}
  BY DEF Nothing
<1>2. Exact(Nothing) = 0
  BY <1>1, EmptyFootprint DEF Exact, TidSum
<1>3. ~(0 >= mode.minUtility)
  BY GivenFacts
<1> QED
  BY <1>1, <1>2, <1>3 DEF FoundWith, Worth

\* The list of an itemset below which, or at which, something is to be written.
LEMMA WantedWorth ==
  ASSUME TwoPhaseGiven, NEW S \in TwoPhaseWanted, NEW T \in SUBSET S
  PROVE  /\ Worth(TidsOf(T)) /\ DOMAIN TidsOf(T) # {}
         /\ Exact(TidsOf(S)) = Utility(db, S) /\ Utility(db, S) >= mode.minUtility
         /\ Supporting(db, T) # {} /\ Twu(db, T) >= mode.minUtility
<1>1. /\ S \in SUBSET Items /\ T \in SUBSET Items /\ Supporting(db, S) # {}
      /\ Utility(db, S) >= mode.minUtility /\ db \in Databases
  BY DEF TwoPhaseWanted, TwoPhaseGiven
<1>2. Supporting(db, T) # {}
  BY <1>1, SupportingTids
<1>3. /\ Utility(db, S) \in Nat /\ Twu(db, T) \in Nat /\ Utility(db, S) <= Twu(db, T)
      /\ mode.minUtility \in Nat
  BY <1>1, TwuCovers, GivenFacts
<1>4. Twu(db, T) >= mode.minUtility
  BY <1>1, <1>3
<1>5. DOMAIN TidsOf(T) = Supporting(db, T) /\ WholeTwu(TidsOf(T)) = Twu(db, T)
  BY <1>1, ListTypes, ListSums
<1>6. Exact(TidsOf(S)) = Utility(db, S)
  BY <1>1, ListSums
<1> QED
  BY <1>1, <1>2, <1>4, <1>5, <1>6 DEF Worth

\* What FoundWith does with the list of an itemset.
LEMMA Writes ==
  ASSUME TwoPhaseGiven, TwoPhaseSound, NEW S \in SUBSET Items, S # {}
  PROVE  /\ \A e \in FoundWith(S, Exact(TidsOf(S))) : \E T \in TwoPhaseWanted : e = TwoPhaseEntry(T)
         /\ found \subseteq FoundWith(S, Exact(TidsOf(S)))
         /\ S \in TwoPhaseWanted => TwoPhaseEntry(S) \in FoundWith(S, Exact(TidsOf(S)))
<1>1. db \in Databases
  BY DEF TwoPhaseGiven
<1>2. Exact(TidsOf(S)) = Utility(db, S) /\ DOMAIN TidsOf(S) = Supporting(db, S)
  BY <1>1, ListSums, ListTypes
<1>3. Utility(db, S) >= mode.minUtility => Supporting(db, S) # {}
  <2>1. Supporting(db, S) = {} => Utility(db, S) = 0
    BY EmptyFootprint DEF Utility, TidSum
  <2> QED
    BY <2>1, GivenFacts
<1>4. FoundWith(S, Utility(db, S))
        = IF Utility(db, S) >= mode.minUtility THEN found \cup {TwoPhaseEntry(S)} ELSE found
  BY DEF FoundWith, TwoPhaseEntry
<1>5. Utility(db, S) >= mode.minUtility => S \in TwoPhaseWanted
  BY <1>3 DEF TwoPhaseWanted
<1>6. S \in TwoPhaseWanted => Utility(db, S) >= mode.minUtility
  BY DEF TwoPhaseWanted
<1>7. \A e \in found : \E T \in TwoPhaseWanted : e = TwoPhaseEntry(T)
  BY DEF TwoPhaseSound
<1> QED
  BY <1>2, <1>4, <1>5, <1>6, <1>7

-----------------------------------------------------------------------------
(* Steps of the search *)

\* What a step does not change, because it does not change the database.
LEMMA TwoPhaseKept ==
  ASSUME UNCHANGED <<db, mode>>, failed => failed'
  PROVE  /\ TwoPhaseWanted' = TwoPhaseWanted /\ \A S : TwoPhaseEntry(S)' = TwoPhaseEntry(S)
         /\ \A S : TidsOf(S)' = TidsOf(S)
         /\ \A f : TwoPhaseFrameRight(f) => TwoPhaseFrameRight(f)'
         /\ TwoPhaseGiven => TwoPhaseGiven'
<1>1. \A S : TidsOf(S)' = TidsOf(S)
  BY DEF TidsOf, Supporting, HasAll
<1>2. TwoPhaseWanted' = TwoPhaseWanted /\ \A S : TwoPhaseEntry(S)' = TwoPhaseEntry(S)
  BY DEF TwoPhaseWanted, TwoPhaseEntry, Supporting, HasAll, Utility, TidSum, ItemSum
<1>3. ASSUME NEW f, TwoPhaseFrameRight(f)
      PROVE  TwoPhaseFrameRight(f)'
  BY <1>1, <1>3 DEF TwoPhaseFrameRight
<1>4. TwoPhaseGiven => TwoPhaseGiven'
  BY DEF TwoPhaseGiven
<1> QED
  BY <1>1, <1>2, <1>3, <1>4

\* A step of a thread keeps the invariant if its new stack has right frames and still
\* leads to what the old one led to.
LEMMA TwoPhaseSearchStep ==
  ASSUME TwoPhaseIInv, phase = "search", NEW w \in Threads, NEW s \in Seq(TwoPhaseFrames),
         UNCHANGED <<db, mode, phase, twu, used, refused>>,
         stack' = [stack EXCEPT ![w] = s],
         todo' \in SUBSET todo, failed' \in BOOLEAN, failed => failed',
         found \subseteq found', TwoPhaseSound',
         \A f \in Members(s) : TwoPhaseFrameRight(f)',
         failed' \/ \A S \in TwoPhaseWanted :
           \/ \E x \in todo \ todo' : Least(S, x)
           \/ \E f \in Members(stack[w]) : TwoPhaseLeadsTo(f, S)
           => TwoPhaseEntry(S) \in found' \/ \E f \in Members(s) : TwoPhaseLeadsTo(f, S)
  PROVE  TwoPhaseIInv'
<1> HIDE DEF TwoPhaseFrames
<1>1. /\ TwoPhaseWanted' = TwoPhaseWanted /\ \A S : TwoPhaseEntry(S)' = TwoPhaseEntry(S)
      /\ \A f : TwoPhaseFrameRight(f) => TwoPhaseFrameRight(f)'
      /\ TwoPhaseGiven'
  BY TwoPhaseKept DEF TwoPhaseIInv
<1>2. stack \in [Threads -> Seq(TwoPhaseFrames)]
  BY DEF TwoPhaseIInv, TwoPhaseTypes
<1>3. stack'[w] = s /\ \A v \in Threads \ {w} : stack'[v] = stack[v]
  BY <1>2
<1>4. TwoPhaseTypes'
  <2>1. stack' \in [Threads -> Seq(TwoPhaseFrames)]
    BY <1>2
  <2> QED
    BY <2>1 DEF TwoPhaseIInv, TwoPhaseTypes
<1>5. TwoPhasePhases'
  BY DEF TwoPhaseIInv, TwoPhasePhases, TwuFilter, Supporting, HasAll, Twu, TidSum, TransactionUtility, ItemSum
<1>6. TwoPhaseFramesRight'
  <2>1. ASSUME NEW v \in Threads, NEW f \in Members(stack'[v])
        PROVE  TwoPhaseFrameRight(f)'
    BY <1>1, <1>3, <2>1 DEF TwoPhaseIInv, TwoPhaseFramesRight
  <2> QED
    BY <2>1 DEF TwoPhaseFramesRight
<1>7. TwoPhaseComplete'
  <2>1. SUFFICES ASSUME ~failed', NEW S \in TwoPhaseWanted
                 PROVE  TwoPhaseEntry(S) \in found' \/ TwoPhaseToCome(S)'
    BY <1>1 DEF TwoPhaseComplete, Written
  <2>2. TwoPhaseEntry(S) \in found \/ TwoPhaseToCome(S)
    BY <2>1 DEF TwoPhaseIInv, TwoPhaseComplete, Written
  <2>3. CASE TwoPhaseEntry(S) \in found
    BY <2>3
  <2>4. CASE \E x \in todo : Least(S, x)
    <3>1. PICK x \in todo : Least(S, x)
      BY <2>4
    <3>2. CASE x \in todo'
      BY <3>1, <3>2 DEF TwoPhaseToCome
    <3>3. CASE x \notin todo'
      <4>1. TwoPhaseEntry(S) \in found' \/ \E f \in Members(s) : TwoPhaseLeadsTo(f, S)
        BY <2>1, <3>1, <3>3
      <4> QED
        BY <4>1, <1>3 DEF TwoPhaseToCome
    <3> QED
      BY <3>2, <3>3
  <2>5. CASE \E v \in Threads : \E f \in Members(stack[v]) : TwoPhaseLeadsTo(f, S)
    <3>1. PICK v \in Threads : \E f \in Members(stack[v]) : TwoPhaseLeadsTo(f, S)
      BY <2>5
    <3>2. CASE v # w
      <4>1. stack'[v] = stack[v]
        BY <1>3, <3>2
      <4>2. \E f \in Members(stack'[v]) : TwoPhaseLeadsTo(f, S)
        BY <3>1, <4>1
      <4> QED
        BY <4>2 DEF TwoPhaseToCome
    <3>3. CASE v = w
      <4>1. TwoPhaseEntry(S) \in found' \/ \E f \in Members(s) : TwoPhaseLeadsTo(f, S)
        BY <2>1, <3>1, <3>3
      <4> QED
        BY <4>1, <1>3 DEF TwoPhaseToCome
    <3> QED
      BY <3>2, <3>3
  <2> QED
    BY <2>2, <2>3, <2>4, <2>5 DEF TwoPhaseToCome
<1> QED
  BY <1>1, <1>4, <1>5, <1>6, <1>7 DEF TwoPhaseIInv

\* The top frame of a thread at work.
LEMMA TwoPhaseTopFrame ==
  ASSUME TwoPhaseIInv, NEW w \in Threads, Busy(w)
  PROVE  /\ phase = "search" /\ stack[w] \in Seq(TwoPhaseFrames) /\ stack[w] # <<>>
         /\ Top(w) \in TwoPhaseFrames /\ Top(w) = stack[w][1] /\ Tail(stack[w]) \in Seq(TwoPhaseFrames)
         /\ Members(stack[w]) = {Top(w)} \cup Members(Tail(stack[w]))
         /\ TwoPhaseFrameRight(Top(w)) /\ \A f \in Members(Tail(stack[w])) : TwoPhaseFrameRight(f)
<1> HIDE DEF TwoPhaseFrames
<1>1. phase = "search"
  BY DEF TwoPhaseIInv, TwoPhasePhases
<1>2. stack[w] \in Seq(TwoPhaseFrames) /\ stack[w] # <<>>
  BY DEF TwoPhaseIInv, TwoPhaseTypes, Busy
<1>3. /\ stack[w][1] \in TwoPhaseFrames /\ Tail(stack[w]) \in Seq(TwoPhaseFrames)
      /\ Members(stack[w]) = {stack[w][1]} \cup Members(Tail(stack[w]))
  BY <1>2, TopOfStack
<1>4. \A f \in Members(stack[w]) : TwoPhaseFrameRight(f)
  BY DEF TwoPhaseIInv, TwoPhaseFramesRight
<1> QED
  BY <1>1, <1>2, <1>3, <1>4 DEF Top

\* A search that is abandoned is marked.
LEMMA AbandonStep ==
  ASSUME TwoPhaseIInv, phase = "search", NEW w \in Threads, Abandon(w),
         UNCHANGED <<db, mode, phase, twu, todo, used, refused>>,
         found \subseteq found', TwoPhaseSound'
  PROVE  TwoPhaseIInv'
<1>1. <<>> \in Seq(TwoPhaseFrames) /\ Members(<<>>) = {}
  BY DEF Members
<1>2. stack' = [stack EXCEPT ![w] = <<>>] /\ failed' = TRUE
  BY DEF Abandon
<1> QED
  BY <1>1, <1>2, TwoPhaseSearchStep

LEMMA TwoPhaseTakeStep ==
  ASSUME TwoPhaseIInv, NEW w \in Threads, NEW x \in Items, TwoPhaseTake(w, x)
  PROVE  TwoPhaseIInv'
<1> HIDE DEF TwoPhaseFrames
<1>1. /\ phase = "search" /\ ~Busy(w) /\ x \in todo /\ todo' = todo \ {x}
      /\ UNCHANGED <<db, mode, phase, twu, used, refused>>
  BY DEF TwoPhaseTake
<1>2. PICK tids \in {ItemTids(x)} \cup (IF PoolFails THEN {[t \in {} |-> 0]} ELSE {}) :
        /\ failed' = (failed \/ tids # ItemTids(x))
        /\ found' = FoundWith({x}, Exact(tids))
        /\ stack' = [stack EXCEPT ![w] = <<TwoPhaseFrame({x}, tids, {y \in DOMAIN twu : x < y})>>]
  BY DEF TwoPhaseTake
<1> DEFINE left == {y \in DOMAIN twu : x < y}
           f == TwoPhaseFrame({x}, tids, left)
<1>3. /\ TwoPhaseGiven /\ TwoPhaseSound /\ db \in Databases /\ DOMAIN twu \in SUBSET Items
      /\ failed \in BOOLEAN /\ twu = TwuFilter(db, mode.minUtility)
  BY <1>1 DEF TwoPhaseIInv, TwoPhaseGiven, TwoPhaseTypes, TwoPhasePhases
<1>4. ItemTids(x) = TidsOf({x}) /\ TidsOf({x}) \in Lists /\ Nothing \in Lists
  BY <1>3, ListsOf, ListTypes
<1>5. tids = TidsOf({x}) \/ (tids = Nothing /\ failed')
  BY <1>2, <1>4 DEF Nothing
<1>6. /\ f \in TwoPhaseFrames /\ f.itemset = {x} /\ f.tids = tids /\ f.left = left
      /\ DOMAIN f.lists = {} /\ f.open = {}
  <2>1. {x} \in SUBSET Items /\ left \in SUBSET Items /\ tids \in Lists
    BY <1>3, <1>4, <1>5
  <2> HIDE DEF left
  <2> QED
    BY <2>1, FreshFrame DEF Fresh
<1> HIDE DEF f
<1>7. /\ found \subseteq found' /\ \A e \in found' : \E T \in TwoPhaseWanted : e = TwoPhaseEntry(T)
      /\ failed' \/ ({x} \in TwoPhaseWanted => TwoPhaseEntry({x}) \in found')
  <2>1. CASE tids = TidsOf({x})
    BY <1>2, <1>3, <2>1, Writes
  <2>2. CASE tids = Nothing /\ failed'
    <3>1. found' = found
      BY <1>2, <1>3, <2>2, EmptyList
    <3> QED
      BY <1>3, <2>2, <3>1 DEF TwoPhaseSound
  <2> QED
    BY <1>5, <2>1, <2>2
<1>8. /\ TwoPhaseWanted' = TwoPhaseWanted
      /\ \A S : TwoPhaseEntry(S)' = TwoPhaseEntry(S)
      /\ \A S : TidsOf(S)' = TidsOf(S)
  BY <1>1, <1>2, TwoPhaseKept
<1>9. TwoPhaseSound'
  BY <1>7, <1>8 DEF TwoPhaseSound
<1>10. ASSUME NEW g, g = f
       PROVE  TwoPhaseFrameRight(g)'
  <2>1. g.open \in SUBSET DOMAIN g.lists /\ \A y \in g.left \cup DOMAIN g.lists : x < y
    BY <1>6, <1>10
  <2>2. \/ g.tids = TidsOf(g.itemset)
        \/ failed' /\ DOMAIN g.tids = {}
    BY <1>5, <1>6, <1>10 DEF Nothing
  <2> QED
    BY <1>6, <1>8, <1>10, <2>1, <2>2 DEF TwoPhaseFrameRight
<1>11. <<f>> \in Seq(TwoPhaseFrames) /\ Members(<<f>>) = {f}
  BY <1>6 DEF Members
<1>12. Members(stack[w]) = {}
  BY <1>1 DEF Busy, Members
<1>13. ASSUME ~failed', NEW S \in TwoPhaseWanted, Least(S, x)
       PROVE  TwoPhaseEntry(S) \in found' \/ TwoPhaseLeadsTo(f, S)
  <2>1. S \in SUBSET Items /\ x \in S
    BY <1>13 DEF TwoPhaseWanted, Least
  <2>2. CASE S = {x}
    BY <1>7, <1>13, <2>2
  <2>3. CASE S # {x}
    <3>1. S \ {x} \in SUBSET Items /\ S \ {x} # {} /\ Items \subseteq Nat
      BY <2>1, <2>3, Constants
    <3>2. PICK y \in S \ {x} : Least(S \ {x}, y)
      BY <3>1, LeastExists
    <3>3. \A z \in S \ {x} : x < z
      BY <1>13, <3>1 DEF Least
    <3>4. ASSUME NEW z \in S \ {x}
          PROVE  z \in DOMAIN twu
      <4>1. {z} \in SUBSET S /\ z \in Items
        BY <2>1
      <4>2. Supporting(db, {z}) # {} /\ Twu(db, {z}) >= mode.minUtility
        BY <1>3, <4>1, WantedWorth
      <4> QED
        BY <1>3, <4>1, <4>2 DEF TwuFilter
    <3>5. S \ {x} \in SUBSET left
      BY <3>3, <3>4
    <3> QED
      BY <1>6, <2>1, <3>2, <3>5 DEF TwoPhaseLeadsTo
  <2> QED
    BY <2>2, <2>3
<1>14. stack' = [stack EXCEPT ![w] = <<f>>]
  BY <1>2 DEF f
<1>15. \A y \in todo \ todo' : y = x
  BY <1>1
<1>16. todo' \in SUBSET todo /\ failed' \in BOOLEAN /\ (failed => failed')
  BY <1>1, <1>2, <1>3
<1>17. \A g \in Members(<<f>>) : TwoPhaseFrameRight(g)'
  BY <1>10, <1>11
<1>18. failed' \/ \A S \in TwoPhaseWanted :
         \/ \E y \in todo \ todo' : Least(S, y)
         \/ \E g \in Members(stack[w]) : TwoPhaseLeadsTo(g, S)
         => TwoPhaseEntry(S) \in found' \/ \E g \in Members(<<f>>) : TwoPhaseLeadsTo(g, S)
  BY <1>11, <1>12, <1>13, <1>15
<1> DEFINE s == <<f>>
<1>19. /\ s \in Seq(TwoPhaseFrames) /\ stack' = [stack EXCEPT ![w] = s] 
       /\ \A g \in Members(s) : TwoPhaseFrameRight(g)'
  BY <1>11, <1>14, <1>17
<1> HIDE DEF s
<1> QED
  BY <1>1, <1>7, <1>9, <1>16, <1>18, <1>19, TwoPhaseSearchStep DEF s

LEMMA DescendStep ==
  ASSUME TwoPhaseIInv, NEW w \in Threads, NEW x \in Items, Descend(w, x)
  PROVE  TwoPhaseIInv'
<1> HIDE DEF TwoPhaseFrames
<1> DEFINE f == Top(w)
           deeper == TwoPhaseFrame(f.itemset \cup {x}, f.lists[x], {y \in DOMAIN f.lists : x < y})
           rest == [f EXCEPT !.open = @ \ {x}]
<1>1. /\ Busy(w) /\ f.left = {} /\ Least(f.open, x)
      /\ UNCHANGED <<db, mode, phase, twu, todo, used, refused, found>>
      /\ \/ Abandon(w)
         \/ /\ stack' = [stack EXCEPT ![w] = <<deeper, rest>> \o Tail(@)]
            /\ UNCHANGED failed
  BY DEF Descend
<1>2. /\ phase = "search" /\ stack[w] \in Seq(TwoPhaseFrames) /\ stack[w] # <<>>
      /\ f \in TwoPhaseFrames /\ Tail(stack[w]) \in Seq(TwoPhaseFrames)
      /\ Members(stack[w]) = {f} \cup Members(Tail(stack[w]))
      /\ TwoPhaseFrameRight(f) /\ \A g \in Members(Tail(stack[w])) : TwoPhaseFrameRight(g)
  BY <1>1, TwoPhaseTopFrame
<1>3. /\ TwoPhaseGiven /\ TwoPhaseSound /\ db \in Databases /\ failed \in BOOLEAN
  BY DEF TwoPhaseIInv, TwoPhaseGiven, TwoPhaseTypes
<1>4. CASE Abandon(w)
  <2>1. failed' /\ TwoPhaseWanted' = TwoPhaseWanted /\ (\A S : TwoPhaseEntry(S)' = TwoPhaseEntry(S)) /\ found' = found
    BY <1>1, <1>4, TwoPhaseKept DEF Abandon
  <2>2. TwoPhaseSound'
    BY <1>3, <2>1 DEF TwoPhaseSound
  <2> QED
    BY <1>1, <1>2, <1>4, <2>1, <2>2, AbandonStep
<1>5. CASE /\ stack' = [stack EXCEPT ![w] = <<deeper, rest>> \o Tail(@)]
           /\ UNCHANGED failed
  <2>1. /\ f.itemset \in SUBSET Items /\ f.lists \in ListMaps /\ x \in f.open
        /\ x \in DOMAIN f.lists /\ \A y \in f.open : x <= y
        /\ f = [itemset |-> f.itemset, tids |-> f.tids, left |-> f.left,
                lists |-> f.lists, open |-> f.open]
        /\ f.tids \in Lists /\ f.open \in SUBSET Items
    BY <1>1, <1>2 DEF TwoPhaseFrames, TwoPhaseFrameRight, Least
  <2>2. DOMAIN f.lists \in SUBSET Items /\ f.lists[x] \in Lists
    BY <2>1, MapTypes
  <2>3. /\ deeper \in TwoPhaseFrames /\ deeper.itemset = f.itemset \cup {x}
        /\ deeper.tids = f.lists[x] /\ deeper.left = {y \in DOMAIN f.lists : x < y}
        /\ DOMAIN deeper.lists = {} /\ deeper.open = {}
    <3>1. /\ f.itemset \cup {x} \in SUBSET Items
          /\ {y \in DOMAIN f.lists : x < y} \in SUBSET Items
          /\ f.lists[x] \in Lists
      BY <2>1, <2>2
    <3> DEFINE S == f.itemset \cup {x}
               list == f.lists[x]
               after == {y \in DOMAIN f.lists : x < y}
    <3>2. /\ S \in SUBSET Items /\ after \in SUBSET Items /\ list \in Lists
          /\ deeper = TwoPhaseFrame(S, list, after)
      BY <3>1
    <3> HIDE DEF deeper, S, list, after
    <3>3. Fresh(deeper, S, list, after)
      BY <3>2, FreshFrame
    <3> QED
      BY <3>3 DEF Fresh, S, list, after
  <2>4. /\ rest \in TwoPhaseFrames /\ rest.itemset = f.itemset /\ rest.tids = f.tids
        /\ rest.left = {} /\ rest.lists = f.lists /\ rest.open = f.open \ {x}
    BY <1>1, <1>2, <2>1 DEF TwoPhaseFrames
  <2>5. TwoPhaseFrameRight(deeper)
    <3>1. \A y \in f.itemset : y < x
      BY <1>2, <2>1 DEF TwoPhaseFrameRight
    <3>2. \A y \in f.itemset \cup {x} : \A z \in deeper.left : y < z
      <4>1. x \in Nat /\ f.itemset \subseteq Nat /\ DOMAIN f.lists \subseteq Nat
        BY <2>1, <2>2, Constants
      <4>2. \A z \in deeper.left : x < z /\ z \in Nat
        BY <2>3, <4>1
      <4> HIDE DEF deeper, f
      <4> QED
        BY <3>1, <4>1, <4>2
    <3>3. \/ deeper.tids = TidsOf(deeper.itemset)
          \/ failed /\ DOMAIN deeper.tids = {}
      BY <1>2, <2>1, <2>3 DEF TwoPhaseFrameRight
    <3> QED
      BY <2>3, <3>2, <3>3 DEF TwoPhaseFrameRight
  <2>6. TwoPhaseFrameRight(rest)
    <3>1. rest.open \in SUBSET DOMAIN rest.lists
      BY <1>2, <2>4 DEF TwoPhaseFrameRight
    <3>2. rest.left \cup DOMAIN rest.lists = f.left \cup DOMAIN f.lists
      BY <1>1, <2>4
    <3> QED
      BY <1>2, <2>4, <3>1, <3>2 DEF TwoPhaseFrameRight
  <2> DEFINE lower == <<rest>> \o Tail(stack[w])
             s == <<deeper>> \o lower
  <2>7. lower \in Seq(TwoPhaseFrames) /\ Members(lower) = {rest} \cup Members(Tail(stack[w]))
    <3> DEFINE t == Tail(stack[w])
    <3>1. t \in Seq(TwoPhaseFrames) /\ rest \in TwoPhaseFrames
      BY <1>2, <2>4
    <3> HIDE DEF t, rest
    <3>2. <<rest>> \o t \in Seq(TwoPhaseFrames) /\ Members(<<rest>> \o t) = {rest} \cup Members(t)
      BY <3>1, OnStack
    <3> QED
      BY <3>2 DEF t
  <2>8. s \in Seq(TwoPhaseFrames) /\ Members(s) = {deeper} \cup Members(lower)
    <3> HIDE DEF lower, deeper
    <3> QED
      BY <2>3, <2>7, OnStack
  <2>9. stack' = [stack EXCEPT ![w] = s]
    <3>1. <<deeper, rest>> \o Tail(stack[w]) = s
      <4> DEFINE t == Tail(stack[w])
      <4> HIDE DEF t, deeper, rest
      <4>1. t \in Seq(TwoPhaseFrames)
        BY <1>2 DEF t
      <4> QED
        BY <2>3, <2>4, <4>1, TwoOnStack DEF t
    <3> QED
      BY <1>5, <3>1
  <2>10. ASSUME NEW S \in TwoPhaseWanted, TwoPhaseLeadsTo(f, S)
         PROVE  TwoPhaseLeadsTo(deeper, S) \/ TwoPhaseLeadsTo(rest, S)
    <3>1. /\ f.itemset \in SUBSET S /\ S \ f.itemset \in SUBSET DOMAIN f.lists
          /\ S \in SUBSET Items
      BY <1>1, <2>10 DEF TwoPhaseLeadsTo, TwoPhaseWanted
    <3>2. PICK y \in S \ f.itemset :
            Least(S \ f.itemset, y) /\ y \in f.open /\ S \ f.itemset # {y}
      BY <1>1, <2>10 DEF TwoPhaseLeadsTo
    <3>3. CASE y # x
      <4>1. y \in rest.open /\ S \ f.itemset \in SUBSET (rest.left \cup DOMAIN rest.lists)
        BY <2>4, <3>1, <3>2, <3>3
      <4> HIDE DEF rest
      <4> QED
        BY <2>4, <3>1, <3>2, <4>1 DEF TwoPhaseLeadsTo
    <3>4. CASE y = x
      <4> DEFINE R == S \ (f.itemset \cup {x})
      <4>1. R \in SUBSET Items /\ R # {} /\ Items \subseteq Nat /\ x \in S
        BY <3>1, <3>2, <3>4, Constants
      <4>2. PICK z \in R : Least(R, z)
        BY <4>1, LeastExists
      <4>3. \A v \in R : x < v /\ v \in DOMAIN f.lists
        BY <3>1, <3>2, <3>4, <4>1 DEF Least
      <4>4. R \in SUBSET deeper.left /\ f.itemset \cup {x} \in SUBSET S
        BY <2>3, <3>1, <4>1, <4>3
      <4> HIDE DEF deeper
      <4> QED
        BY <2>3, <4>2, <4>4 DEF TwoPhaseLeadsTo
    <3> QED
      BY <3>3, <3>4
  <2> HIDE DEF s, lower, deeper, rest
  <2>11. \A g \in Members(s) : TwoPhaseFrameRight(g)
    BY <1>2, <2>5, <2>6, <2>7, <2>8
  <2>12. (\A g : TwoPhaseFrameRight(g) => TwoPhaseFrameRight(g)') /\ (TwoPhaseSound => TwoPhaseSound')
    BY <1>1, <1>5, TwoPhaseKept DEF TwoPhaseSound
  <2>13. \A g \in Members(s) : TwoPhaseFrameRight(g)'
    BY <2>11, <2>12
  <2>14. todo' \in SUBSET todo /\ failed' \in BOOLEAN /\ (failed => failed')
         /\ found \subseteq found' /\ todo \ todo' = {} /\ TwoPhaseSound'
    BY <1>1, <1>3, <1>5, <2>12
  <2>15. \A S \in TwoPhaseWanted : (\E g \in Members(stack[w]) : TwoPhaseLeadsTo(g, S))
                             => \E g \in Members(s) : TwoPhaseLeadsTo(g, S)
    BY <1>2, <2>7, <2>8, <2>10
  <2> QED
    BY <1>1, <1>2, <2>8, <2>9, <2>13, <2>14, <2>15, TwoPhaseSearchStep
<1> QED
  BY <1>1, <1>4, <1>5

\* The list that Scan computes for an itemset, and what has been written then.
Outcome(f, S, tids, after) ==
  /\ tids \in Lists /\ S \in SUBSET Items
  /\ \/ f.tids = TidsOf(f.itemset) /\ tids = TidsOf(S)
     \/ failed /\ ~Worth(tids)
  /\ Worth(tids) => after = FoundWith(S, Exact(tids))
  /\ found \subseteq after
  /\ \A e \in after : \E T \in TwoPhaseWanted : e = TwoPhaseEntry(T)
  /\ failed \/ (S \in TwoPhaseWanted => TwoPhaseEntry(S) \in after)

LEMMA ScannedList ==
  ASSUME TwoPhaseIInv, NEW f \in TwoPhaseFrames, TwoPhaseFrameRight(f), NEW x \in f.left,
         NEW tids, tids = Intersect(f.tids, x), NEW S, S = f.itemset \cup {x},
         NEW after,
         after = IF DOMAIN tids = {} THEN found ELSE FoundWith(S, Exact(tids))
  PROVE  Outcome(f, S, tids, after)
<1>1. /\ TwoPhaseGiven /\ TwoPhaseSound /\ db \in Databases
  BY DEF TwoPhaseIInv, TwoPhaseGiven
<1>2. /\ f.itemset \in SUBSET Items /\ x \in Items /\ S \in SUBSET Items /\ S # {}
      /\ f.tids \in Lists
  BY DEF TwoPhaseFrames
<1>3. x \notin f.itemset
  <2>1. x \in f.itemset => x < x
    BY DEF TwoPhaseFrameRight
  <2>2. x \in Nat
    BY <1>2, Constants
  <2> QED
    BY <2>1, <2>2
<1>4. Worth(tids) => DOMAIN tids # {}
  BY DEF Worth
<1>5. CASE f.tids = TidsOf(f.itemset)
  <2>1. tids = TidsOf(S)
    BY <1>1, <1>2, <1>3, <1>5, ListsOf
  <2>2. TidsOf(S) \in Lists
    BY <1>1, <1>2, ListTypes
  <2>3. /\ \A e \in FoundWith(S, Exact(tids)) : \E T \in TwoPhaseWanted : e = TwoPhaseEntry(T)
        /\ found \subseteq FoundWith(S, Exact(tids))
        /\ S \in TwoPhaseWanted => TwoPhaseEntry(S) \in FoundWith(S, Exact(tids))
    BY <1>1, <1>2, <2>1, Writes
  <2>4. S \in TwoPhaseWanted => DOMAIN tids # {}
    BY <1>1, <2>1, WantedWorth
  <2>5. \A e \in found : \E T \in TwoPhaseWanted : e = TwoPhaseEntry(T)
    BY <1>1 DEF TwoPhaseSound
  <2> QED
    BY <1>2, <1>4, <1>5, <2>1, <2>2, <2>3, <2>4, <2>5 DEF Outcome
<1>6. CASE failed /\ DOMAIN f.tids = {} /\ DOMAIN f.lists = {}
  <2>1. tids = Nothing /\ Nothing \in Lists
    BY <1>1, <1>2, <1>6, ListTypes
  <2>2. DOMAIN tids = {} /\ ~Worth(tids)
    BY <1>1, <2>1, EmptyList DEF Nothing
  <2>3. \A e \in found : \E T \in TwoPhaseWanted : e = TwoPhaseEntry(T)
    BY <1>1 DEF TwoPhaseSound
  <2> QED
    BY <1>2, <1>6, <2>1, <2>2, <2>3 DEF Outcome
<1> QED
  BY <1>5, <1>6 DEF TwoPhaseFrameRight

LEMMA ScannedFrame ==
  ASSUME NEW f \in TwoPhaseFrames, NEW x \in Items, NEW tids \in Lists, NEW g, g = Scanned(f, x, tids)
  PROVE  /\ g \in TwoPhaseFrames /\ g.itemset = f.itemset /\ g.tids = f.tids /\ g.left = f.left \ {x}
         /\ Worth(tids) => /\ DOMAIN g.lists = DOMAIN f.lists \cup {x}
                           /\ g.open = f.open \cup {x} /\ g.lists[x] = tids
                           /\ \A y \in DOMAIN f.lists \ {x} : g.lists[y] = f.lists[y]
         /\ ~Worth(tids) => g.lists = f.lists /\ g.open = f.open
<1> DEFINE more == [y \in DOMAIN f.lists \cup {x} |-> IF y = x THEN tids ELSE f.lists[y]]
<1>1. more \in ListMaps
  <2>1. f.lists \in ListMaps
    BY DEF TwoPhaseFrames
  <2> QED
    BY <2>1, MapTypes
<1>2. /\ DOMAIN more = DOMAIN f.lists \cup {x} /\ more[x] = tids
      /\ \A y \in DOMAIN f.lists \ {x} : more[y] = f.lists[y]
  OBVIOUS
<1>3. g = IF Worth(tids)
            THEN [f EXCEPT !.left = f.left \ {x}, !.open = f.open \cup {x}, !.lists = more]
            ELSE [f EXCEPT !.left = f.left \ {x}]
  BY DEF Scanned
<1> HIDE DEF more
<1>4. f = [itemset |-> f.itemset, tids |-> f.tids, left |-> f.left,
           lists |-> f.lists, open |-> f.open]
  BY DEF TwoPhaseFrames
<1>5. CASE Worth(tids)
  <2>1. g = [itemset |-> f.itemset, tids |-> f.tids, left |-> f.left \ {x},
             lists |-> more, open |-> f.open \cup {x}]
    BY <1>3, <1>4, <1>5
  <2>2. g \in TwoPhaseFrames
    BY <1>1, <2>1 DEF TwoPhaseFrames
  <2> QED
    BY <1>2, <1>5, <2>1, <2>2
<1>6. CASE ~Worth(tids)
  <2>1. g = [itemset |-> f.itemset, tids |-> f.tids, left |-> f.left \ {x},
             lists |-> f.lists, open |-> f.open]
    BY <1>3, <1>4, <1>6
  <2>2. g \in TwoPhaseFrames
    BY <2>1 DEF TwoPhaseFrames
  <2> QED
    BY <1>6, <2>1, <2>2
<1> QED
  BY <1>5, <1>6

LEMMA ScanStep ==
  ASSUME TwoPhaseIInv, NEW w \in Threads, NEW x \in Items, Scan(w, x)
  PROVE  TwoPhaseIInv'
<1> HIDE DEF TwoPhaseFrames
<1> DEFINE f == Top(w)
           tids == Intersect(f.tids, x)
           S == f.itemset \cup {x}
           after == IF DOMAIN tids = {} THEN found ELSE FoundWith(S, Exact(tids))
           g == Scanned(f, x, tids)
<1>1. /\ Busy(w) /\ Least(f.left, x)
      /\ UNCHANGED <<db, mode, phase, twu, todo, used, refused>>
      /\ \/ /\ Abandon(w)
            /\ \/ UNCHANGED found
               \/ Worth(tids) /\ found' = FoundWith(S, Exact(tids))
         \/ /\ found' = after
            /\ stack' = [stack EXCEPT ![w] = <<Scanned(Top(w), x, tids)>> \o Tail(@)]
            /\ UNCHANGED failed
  BY DEF Scan
<1>2. /\ phase = "search" /\ stack[w] \in Seq(TwoPhaseFrames) /\ stack[w] # <<>>
      /\ f \in TwoPhaseFrames /\ f = stack[w][1] /\ Tail(stack[w]) \in Seq(TwoPhaseFrames)
      /\ Members(stack[w]) = {f} \cup Members(Tail(stack[w]))
      /\ TwoPhaseFrameRight(f) /\ \A e \in Members(Tail(stack[w])) : TwoPhaseFrameRight(e)
  BY <1>1, TwoPhaseTopFrame
<1>3. /\ TwoPhaseGiven /\ TwoPhaseSound /\ failed \in BOOLEAN /\ x \in f.left
      /\ stack \in [Threads -> Seq(TwoPhaseFrames)]
  BY <1>1 DEF TwoPhaseIInv, TwoPhaseTypes, Least
<1>0. /\ tids = Intersect(f.tids, x) /\ S = f.itemset \cup {x}
      /\ after = IF DOMAIN tids = {} THEN found ELSE FoundWith(S, Exact(tids))
  OBVIOUS
<1> HIDE DEF after, S, tids, f, g
<1>4. /\ tids \in Lists /\ S \in SUBSET Items
      /\ \/ f.tids = TidsOf(f.itemset) /\ tids = TidsOf(S)
         \/ failed /\ ~Worth(tids)
      /\ Worth(tids) => after = FoundWith(S, Exact(tids))
      /\ found \subseteq after
      /\ \A e \in after : \E T \in TwoPhaseWanted : e = TwoPhaseEntry(T)
      /\ failed \/ (S \in TwoPhaseWanted => TwoPhaseEntry(S) \in after)
  <2>1. Outcome(f, S, tids, after)
    BY <1>0, <1>2, <1>3, ScannedList
  <2> QED
    BY <2>1 DEF Outcome
<1>5. found' = after \/ found' = found
  BY <1>1, <1>4
<1>6. failed' \in BOOLEAN /\ (failed => failed')
  BY <1>1, <1>3 DEF Abandon
<1>7. /\ TwoPhaseWanted' = TwoPhaseWanted /\ (\A T : TwoPhaseEntry(T)' = TwoPhaseEntry(T)) /\ \A T : TidsOf(T)' = TidsOf(T)
      /\ \A e : TwoPhaseFrameRight(e) => TwoPhaseFrameRight(e)'
  BY <1>1, <1>6, TwoPhaseKept
<1>8. found \subseteq found' /\ TwoPhaseSound'
  BY <1>3, <1>4, <1>5, <1>7 DEF TwoPhaseSound
<1>9. CASE Abandon(w)
  BY <1>1, <1>2, <1>8, <1>9, AbandonStep
<1>10. CASE /\ found' = after
            /\ stack' = [stack EXCEPT ![w] = <<Scanned(Top(w), x, tids)>> \o Tail(@)]
            /\ UNCHANGED failed
  <2>1. /\ g \in TwoPhaseFrames /\ g.itemset = f.itemset /\ g.tids = f.tids /\ g.left = f.left \ {x}
        /\ Worth(tids) => /\ DOMAIN g.lists = DOMAIN f.lists \cup {x}
                          /\ g.open = f.open \cup {x} /\ g.lists[x] = tids
                          /\ \A y \in DOMAIN f.lists \ {x} : g.lists[y] = f.lists[y]
        /\ ~Worth(tids) => g.lists = f.lists /\ g.open = f.open
    BY <1>2, <1>4, ScannedFrame DEF g
  <2> DEFINE s == <<g>> \o Tail(stack[w])
  <2>2. s \in Seq(TwoPhaseFrames) /\ Members(s) = {g} \cup Members(Tail(stack[w]))
    <3> DEFINE t == Tail(stack[w])
    <3>1. t \in Seq(TwoPhaseFrames) /\ g \in TwoPhaseFrames
      BY <1>2, <2>1
    <3> HIDE DEF t, g
    <3>2. <<g>> \o t \in Seq(TwoPhaseFrames) /\ Members(<<g>> \o t) = {g} \cup Members(t)
      BY <3>1, OnStack
    <3> QED
      BY <3>2 DEF t
  <2>3. stack' = [stack EXCEPT ![w] = s]
    BY <1>10 DEF g, f
  <2>4. TwoPhaseFrameRight(g)
    <3>1. CASE Worth(tids)
      <4>1. f.tids = TidsOf(f.itemset) /\ tids = TidsOf(f.itemset \cup {x})
        BY <1>4, <3>1 DEF S
      <4>2. g.open \in SUBSET DOMAIN g.lists
        BY <1>2, <2>1, <3>1 DEF TwoPhaseFrameRight
      <4>3. g.left \cup DOMAIN g.lists \subseteq f.left \cup DOMAIN f.lists
        BY <1>3, <2>1, <3>1
      <4>4. \A y \in g.itemset : \A z \in g.left \cup DOMAIN g.lists : y < z
        BY <1>2, <2>1, <4>3 DEF TwoPhaseFrameRight
      <4>5. ASSUME NEW y \in DOMAIN g.lists
            PROVE  g.lists[y] = TidsOf(g.itemset \cup {y})
        <5>1. CASE y = x
          BY <2>1, <3>1, <4>1, <5>1
        <5>2. CASE y # x
          <6>1. y \in DOMAIN f.lists /\ g.lists[y] = f.lists[y]
            BY <2>1, <3>1, <4>5, <5>2
          <6>2. f.lists[y] = TidsOf(f.itemset \cup {y})
            BY <1>2, <4>1, <6>1 DEF TwoPhaseFrameRight
          <6> QED
            BY <2>1, <6>1, <6>2
        <5> QED
          BY <5>1, <5>2
      <4> QED
        BY <2>1, <4>1, <4>2, <4>4, <4>5 DEF TwoPhaseFrameRight
    <3>2. CASE ~Worth(tids)
      <4>1. g.left \cup DOMAIN g.lists \subseteq f.left \cup DOMAIN f.lists
        BY <2>1, <3>2
      <4> QED
        BY <1>2, <2>1, <3>2, <4>1 DEF TwoPhaseFrameRight
    <3> QED
      BY <3>1, <3>2
  <2>5. ASSUME ~failed, NEW T \in TwoPhaseWanted, TwoPhaseLeadsTo(f, T)
        PROVE  TwoPhaseEntry(T) \in found' \/ TwoPhaseLeadsTo(g, T)
    <3>1. /\ f.itemset \in SUBSET T /\ T \in SUBSET Items
          /\ T \ f.itemset \in SUBSET (f.left \cup DOMAIN f.lists)
      BY <2>5 DEF TwoPhaseLeadsTo, TwoPhaseWanted
    <3>2. PICK y \in T \ f.itemset :
            /\ Least(T \ f.itemset, y)
            /\ y \in f.left \/ (y \in f.open /\ T \ f.itemset # {y})
      BY <2>5 DEF TwoPhaseLeadsTo
    <3>3. x \in T => Worth(tids)
      <4>1. ASSUME x \in T
            PROVE  Worth(TidsOf(S))
        <5>1. S \in SUBSET T
          BY <3>1, <4>1 DEF S
        <5> QED
          BY <1>3, <5>1, WantedWorth
      <4> QED
        BY <1>4, <2>5, <4>1
    <3>4. T \ g.itemset = T \ f.itemset /\ g.itemset \in SUBSET T
      BY <2>1, <3>1
    <3>5. T \ f.itemset \in SUBSET (g.left \cup DOMAIN g.lists)
      BY <2>1, <3>1, <3>3
    <3>6. CASE y # x \/ T \ f.itemset # {x}
      <4>1. y \in g.left \/ (y \in g.open /\ T \ f.itemset # {y})
        BY <2>1, <3>2, <3>3, <3>6
      <4> QED
        BY <3>2, <3>4, <3>5, <4>1 DEF TwoPhaseLeadsTo
    <3>7. CASE y = x /\ T \ f.itemset = {x}
      <4>1. T = S
        BY <3>1, <3>7 DEF S
      <4> QED
        BY <1>4, <1>10, <2>5, <4>1
    <3> QED
      BY <3>6, <3>7
  <2> HIDE DEF s
  <2>6. \A e \in Members(s) : TwoPhaseFrameRight(e)'
    BY <1>2, <1>7, <2>2, <2>4
  <2>7. failed' \/ \A T \in TwoPhaseWanted :
          \/ \E y \in todo \ todo' : Least(T, y)
          \/ \E e \in Members(stack[w]) : TwoPhaseLeadsTo(e, T)
          => TwoPhaseEntry(T) \in found' \/ \E e \in Members(s) : TwoPhaseLeadsTo(e, T)
    <3>1. SUFFICES ASSUME ~failed', NEW T \in TwoPhaseWanted,
                          \E e \in Members(stack[w]) : TwoPhaseLeadsTo(e, T)
                   PROVE  TwoPhaseEntry(T) \in found' \/ \E e \in Members(s) : TwoPhaseLeadsTo(e, T)
      BY <1>1
    <3>2. PICK e \in Members(stack[w]) : TwoPhaseLeadsTo(e, T)
      BY <3>1
    <3>3. CASE e = f
      BY <1>6, <2>2, <2>5, <3>1, <3>2, <3>3
    <3>4. CASE e # f
      BY <1>2, <2>2, <3>2, <3>4
    <3> QED
      BY <3>3, <3>4
  <2>8. todo' \in SUBSET todo
    BY <1>1
  <2> QED
    BY <1>1, <1>2, <1>6, <1>8, <2>2, <2>3, <2>6, <2>7, <2>8, TwoPhaseSearchStep
<1> QED
  BY <1>1, <1>9, <1>10

LEMMA TwoPhaseReturnStep ==
  ASSUME TwoPhaseIInv, NEW w \in Threads, TwoPhaseReturn(w)
  PROVE  TwoPhaseIInv'
<1> HIDE DEF TwoPhaseFrames
<1>1. /\ Busy(w) /\ Top(w).left = {} /\ Top(w).open = {}
      /\ stack' = [stack EXCEPT ![w] = Tail(@)]
      /\ UNCHANGED <<db, mode, phase, twu, todo, used, refused, failed, found>>
  BY DEF TwoPhaseReturn, contextVars
<1>2. /\ phase = "search" /\ Tail(stack[w]) \in Seq(TwoPhaseFrames)
      /\ Members(stack[w]) = {Top(w)} \cup Members(Tail(stack[w]))
      /\ \A f \in Members(Tail(stack[w])) : TwoPhaseFrameRight(f)
  BY <1>1, TwoPhaseTopFrame
<1> DEFINE s == Tail(stack[w])
<1>3. s \in Seq(TwoPhaseFrames) /\ stack' = [stack EXCEPT ![w] = s]
  BY <1>1, <1>2
<1>4. /\ TwoPhaseWanted' = TwoPhaseWanted /\ (\A T : TwoPhaseEntry(T)' = TwoPhaseEntry(T))
      /\ \A f : TwoPhaseFrameRight(f) => TwoPhaseFrameRight(f)'
  BY <1>1, TwoPhaseKept
<1>5. \A f \in Members(s) : TwoPhaseFrameRight(f)'
  BY <1>2, <1>4
<1>6. TwoPhaseSound'
  BY <1>1, <1>4 DEF TwoPhaseIInv, TwoPhaseSound
<1>7. \A T : ~TwoPhaseLeadsTo(Top(w), T)
  BY <1>1 DEF TwoPhaseLeadsTo
<1>8. \A T : (\E f \in Members(stack[w]) : TwoPhaseLeadsTo(f, T)) => \E f \in Members(s) : TwoPhaseLeadsTo(f, T)
  BY <1>2, <1>7
<1>9. failed \in BOOLEAN
  BY DEF TwoPhaseIInv, TwoPhaseTypes
<1> HIDE DEF s
<1> QED
  BY <1>1, <1>2, <1>3, <1>5, <1>6, <1>8, <1>9, TwoPhaseSearchStep

-----------------------------------------------------------------------------
(* The two passes, and the end *)

\* What a step of the passes does not disturb.
LEMMA TwoPhasePassStep ==
  ASSUME TwoPhaseIInv, UNCHANGED <<db, mode, found, stack>>, failed => failed', TwoPhaseTypes', TwoPhasePhases', TwoPhaseComplete'
  PROVE  TwoPhaseIInv'
<1>1. /\ TwoPhaseWanted' = TwoPhaseWanted /\ (\A T : TwoPhaseEntry(T)' = TwoPhaseEntry(T))
      /\ (\A f : TwoPhaseFrameRight(f) => TwoPhaseFrameRight(f)') /\ TwoPhaseGiven'
  BY TwoPhaseKept DEF TwoPhaseIInv
<1>2. TwoPhaseFramesRight'
  BY <1>1 DEF TwoPhaseIInv, TwoPhaseFramesRight
<1>3. TwoPhaseSound'
  BY <1>1 DEF TwoPhaseIInv, TwoPhaseSound
<1> QED
  BY <1>1, <1>2, <1>3 DEF TwoPhaseIInv

LEMMA TwoPhaseFilterStep ==
  ASSUME TwoPhaseIInv, TwoPhaseFilter
  PROVE  TwoPhaseIInv'
<1>1. /\ phase = "filter" /\ phase' = "index" /\ twu' = TwuFilter(db, mode.minUtility)
      /\ UNCHANGED <<db, mode, todo, used, refused, failed, found, stack>>
  BY DEF TwoPhaseFilter, FilterTo
<1>2. db \in Databases
  BY DEF TwoPhaseIInv, TwoPhaseGiven
<1>3. DOMAIN twu' \in SUBSET Items
  BY <1>1 DEF TwuFilter
<1>4. todo = {}
  BY <1>1 DEF TwoPhaseIInv, TwoPhasePhases
<1>5. TwoPhaseTypes'
  BY <1>1, <1>3, <1>4 DEF TwoPhaseIInv, TwoPhaseTypes
<1>6. TwoPhasePhases' /\ TwoPhaseComplete'
  <2>1. \A w \in Threads : stack'[w] = <<>>
    BY <1>1 DEF TwoPhaseIInv, TwoPhasePhases, Busy
  <2>2. twu' = TwuFilter(db, mode.minUtility)'
    BY <1>1 DEF TwuFilter, Supporting, HasAll, Twu, TidSum, TransactionUtility, ItemSum
  <2> QED
    BY <1>1, <2>1, <2>2 DEF TwoPhasePhases, TwoPhaseComplete, Busy
<1> QED
  BY <1>1, <1>5, <1>6, TwoPhasePassStep

LEMMA IndexStep ==
  ASSUME TwoPhaseIInv, Index
  PROVE  TwoPhaseIInv'
<1>1. /\ phase = "index" /\ UNCHANGED <<db, mode, twu, found, stack>>
      /\ \/ /\ used' = used + TwusBytes /\ todo' = DOMAIN twu /\ phase' = "search"
            /\ UNCHANGED <<refused, failed>>
         \/ /\ failed' = TRUE /\ phase' = "done" /\ UNCHANGED <<used, todo>>
            /\ refused' \in {TRUE, refused}
  BY DEF Index
<1>2. TwusBytes \in Nat
  BY Constants, FS_CardinalityType DEF TwusBytes, TidBytes
<1>3. /\ TwoPhaseGiven /\ TwoPhaseTypes /\ db \in Databases /\ twu = TwuFilter(db, mode.minUtility)
      /\ \A w \in Threads : stack[w] = <<>>
  BY <1>1 DEF TwoPhaseIInv, TwoPhaseGiven, TwoPhasePhases, Busy
<1>4. TwoPhaseTypes' /\ (failed => failed')
  <2>1. refused' \in BOOLEAN /\ failed' \in BOOLEAN /\ (failed => failed')
    BY <1>1, <1>3 DEF TwoPhaseTypes
  <2>2. todo' \in SUBSET DOMAIN twu'
    BY <1>1, <1>3 DEF TwoPhaseTypes
  <2>4. used' \in Nat
    <3>1. used \in Nat
      BY <1>3 DEF TwoPhaseTypes
    <3>2. used' = used + TwusBytes \/ used' = used
      BY <1>1
    <3> QED
      BY <1>2, <3>1, <3>2
  <2>3. phase' \in {"filter", "index", "search", "done"}
    BY <1>1
  <2> QED
    BY <1>1, <1>3, <2>1, <2>2, <2>3, <2>4 DEF TwoPhaseTypes
<1>5. TwoPhasePhases'
  <2>1. twu' = TwuFilter(db, mode.minUtility)'
    BY <1>1, <1>3 DEF TwuFilter, Supporting, HasAll, Twu, TidSum, TransactionUtility, ItemSum
  <2> QED
    BY <1>1, <1>3, <2>1 DEF TwoPhasePhases, Busy
<1>6. TwoPhaseComplete'
  <2>1. CASE failed'
    BY <2>1 DEF TwoPhaseComplete
  <2>2. CASE todo' = DOMAIN twu
    <3>1. TwoPhaseWanted' = TwoPhaseWanted
      BY <1>1, <1>4, TwoPhaseKept
    <3>2. ASSUME NEW S \in TwoPhaseWanted
          PROVE  \E x \in todo' : Least(S, x)
      <4>1. S \in SUBSET Items /\ S # {}
        BY DEF TwoPhaseWanted
      <4>2. PICK x \in S : Least(S, x)
        BY <4>1, LeastExists
      <4>3. {x} \in SUBSET S /\ x \in Items
        BY <4>1
      <4>4. Supporting(db, {x}) # {} /\ Twu(db, {x}) >= mode.minUtility
        BY <1>3, <4>3, WantedWorth
      <4>5. x \in DOMAIN twu
        BY <1>3, <4>3, <4>4 DEF TwuFilter
      <4> QED
        BY <2>2, <4>2, <4>5
    <3> QED
      BY <3>1, <3>2 DEF TwoPhaseComplete, TwoPhaseToCome
  <2> QED
    BY <1>1, <2>1, <2>2
<1> QED
  BY <1>1, <1>4, <1>5, <1>6, TwoPhasePassStep

LEMMA TwoPhaseFinishStep ==
  ASSUME TwoPhaseIInv, TwoPhaseFinish
  PROVE  TwoPhaseIInv'
<1>1. /\ phase = "search" /\ todo = {} /\ \A w \in Threads : ~Busy(w)
      /\ used' = Without(TwusBytes) /\ phase' = "done"
      /\ UNCHANGED <<db, mode, twu, todo, refused, failed, found, stack>>
  BY DEF TwoPhaseFinish
<1>2. TwusBytes \in Nat
  BY Constants, FS_CardinalityType DEF TwusBytes, TidBytes
<1>3. TwoPhaseTypes'
  <2>1. used' \in Nat
    BY <1>1, <1>2 DEF TwoPhaseIInv, TwoPhaseTypes, Without
  <2> QED
    BY <1>1, <2>1 DEF TwoPhaseIInv, TwoPhaseTypes
<1>4. TwoPhasePhases'
  <2>1. twu' = TwuFilter(db, mode.minUtility)'
    BY <1>1 DEF TwoPhaseIInv, TwoPhasePhases, TwuFilter, Supporting, HasAll, Twu, TidSum,
                TransactionUtility, ItemSum
  <2> QED
    BY <1>1, <2>1 DEF TwoPhasePhases, Busy
<1>5. TwoPhaseComplete'
  <2>1. /\ TwoPhaseWanted' = TwoPhaseWanted /\ \A T : TwoPhaseEntry(T)' = TwoPhaseEntry(T)
    BY <1>1, TwoPhaseKept
  <2>2. \A S : ~TwoPhaseToCome(S)
    BY <1>1 DEF TwoPhaseToCome, Busy, Members
  <2>3. failed \/ \A S \in TwoPhaseWanted : TwoPhaseEntry(S) \in found
    BY <1>1, <2>2 DEF TwoPhaseIInv, TwoPhaseComplete, Written
  <2> QED
    BY <1>1, <2>1, <2>3 DEF TwoPhaseComplete, Written
<1> QED
  BY <1>1, <1>3, <1>4, <1>5, TwoPhasePassStep

-----------------------------------------------------------------------------
(* The theorems *)

LEMMA TwoPhaseInitIInv == TwoPhaseInit => TwoPhaseIInv
<1>1. SUFFICES ASSUME TwoPhaseInit PROVE TwoPhaseIInv
  OBVIOUS
<1> HIDE DEF TwoPhaseFrames
<1>2. /\ db \in MinedDatabases /\ mode \in Modes /\ mode.algorithm = "two-phase"
      /\ phase = "filter" /\ DOMAIN twu = {} /\ todo = {} /\ used = 0
      /\ refused = FALSE /\ failed = FALSE /\ found = {}
      /\ stack = [w \in Threads |-> <<>>]
  BY <1>1 DEF TwoPhaseInit, StartSearch, NoStack, Start, TwoPhaseAlgorithms
<1>3. TwoPhaseGiven
  BY <1>2, Constants, TwoPhaseRunConstants DEF TwoPhaseGiven
<1>4. TwoPhaseTypes
  <2>1. <<>> \in Seq(TwoPhaseFrames)
    OBVIOUS
  <2>2. stack \in [Threads -> Seq(TwoPhaseFrames)]
    BY <1>2, <2>1
  <2> QED
    BY <1>2, <2>2 DEF TwoPhaseTypes
<1>5. TwoPhasePhases /\ TwoPhaseFramesRight /\ TwoPhaseSound /\ TwoPhaseComplete
  BY <1>2 DEF TwoPhasePhases, Busy, TwoPhaseFramesRight, Members, TwoPhaseSound, TwoPhaseComplete
<1> QED
  BY <1>3, <1>4, <1>5 DEF TwoPhaseIInv

LEMMA TwoPhaseNextIInv == TwoPhaseIInv /\ [TwoPhaseNext]_searchVars => TwoPhaseIInv'
<1>1. SUFFICES ASSUME TwoPhaseIInv, [TwoPhaseNext]_searchVars PROVE TwoPhaseIInv'
  OBVIOUS
<1>2. CASE TwoPhasePasses
  BY <1>1, <1>2, TwoPhaseFilterStep, IndexStep, TwoPhaseFinishStep DEF TwoPhasePasses
<1>3. ASSUME NEW w \in Threads, TwoPhaseThread(w)
      PROVE  TwoPhaseIInv'
  BY <1>1, <1>3, TwoPhaseTakeStep, ScanStep, DescendStep, TwoPhaseReturnStep DEF TwoPhaseThread
<1>4. CASE UNCHANGED searchVars
  <2>1. UNCHANGED <<db, mode, phase, twu, todo, used, refused, failed, found, stack>>
    BY <1>4 DEF searchVars, contextVars
  <2>2. TwoPhaseTypes'
    BY <1>1, <2>1 DEF TwoPhaseIInv, TwoPhaseTypes
  <2>3. twu = TwuFilter(db, mode.minUtility) => twu' = TwuFilter(db, mode.minUtility)'
    BY <2>1 DEF TwuFilter, Supporting, HasAll, Twu, TidSum, TransactionUtility, ItemSum
  <2>4. TwoPhasePhases'
    BY <1>1, <2>1, <2>3 DEF TwoPhaseIInv, TwoPhasePhases, Busy
  <2>5. TwoPhaseComplete'
    <3>1. TwoPhaseWanted' = TwoPhaseWanted /\ \A S : TwoPhaseEntry(S)' = TwoPhaseEntry(S)
      BY <2>1, TwoPhaseKept
    <3> QED
      BY <1>1, <2>1, <3>1 DEF TwoPhaseIInv, TwoPhaseComplete, Written, TwoPhaseToCome
  <2> QED
    BY <1>1, <2>1, <2>2, <2>4, <2>5, TwoPhasePassStep
<1> QED
  BY <1>1, <1>2, <1>3, <1>4 DEF TwoPhaseNext

LEMMA TwoPhaseInductive == TwoPhaseSpec => []TwoPhaseIInv
<1> QED
  BY TwoPhaseInitIInv, TwoPhaseNextIInv, PTL DEF TwoPhaseSpec

LEMMA TwoPhaseFoundType == TwoPhaseIInv => \A e \in found : e.itemset \subseteq Items /\ e.utility \in Nat
<1>1. SUFFICES ASSUME TwoPhaseIInv, NEW e \in found
               PROVE  e.itemset \subseteq Items /\ e.utility \in Nat
  OBVIOUS
<1>2. PICK S \in TwoPhaseWanted : e = TwoPhaseEntry(S)
  BY <1>1 DEF TwoPhaseIInv, TwoPhaseSound
<1>3. S \in SUBSET Items /\ db \in Databases
  BY <1>1 DEF TwoPhaseWanted, TwoPhaseIInv, TwoPhaseGiven
<1>4. Utility(db, S) \in Nat
  BY <1>3, TwuCovers
<1> QED
  BY <1>2, <1>3, <1>4 DEF TwoPhaseEntry

LEMMA TwoPhaseTypesRight == TwoPhaseIInv => TypeOK
BY TwoPhaseFoundType DEF TwoPhaseIInv, TwoPhaseGiven, TwoPhaseTypes, TypeOK

LEMMA TwoPhaseLists == TwoPhaseIInv => ListsRight
BY DEF TwoPhaseIInv, TwoPhaseFramesRight, TwoPhaseFrameRight, Members, ListsRight

\* TwoPhase's variables keep their types.
THEOREM VerticalTypeOK == TwoPhaseSpec => []TypeOK
BY TwoPhaseTypesRight, TwoPhaseInductive, PTL

\* Every list that dfs goes down with is that of its itemset, or empty below an item whose
\* page could not be read.
THEOREM VerticalListsRight == TwoPhaseSpec => []ListsRight
BY TwoPhaseLists, TwoPhaseInductive, PTL

-----------------------------------------------------------------------------
(* The promise *)

LEMMA TwoPhasePromisedResults ==
  ASSUME TwoPhaseGiven
  PROVE  Promise!Results = {TwoPhaseEntry(S) : S \in TwoPhaseWanted}
<1>1. ~Closes
  BY DEF TwoPhaseGiven, Closes
<1>2. \A S : Promise!Supporting(db, S) = Supporting(db, S)
  BY DEF Promise!Supporting, Promise!HasAll, Supporting, HasAll
<1>4. \A S : Promise!Utility(db, S) = Utility(db, S)
  <2>1. ASSUME NEW T, NEW size, NEW max
        PROVE  Promise!Footprint(T, size, max) = Footprint(T, size, max)
    <3>1. Promise!Bytes(T, size, max) = Bytes(T, size, max)
      BY DEF Promise!Bytes, Bytes
    <3> QED
      BY <3>1 DEF Promise!Footprint, Footprint, Promise!Cardinality, Cardinality
  <2>2. ASSUME NEW S
        PROVE  [t \in Tids |-> Promise!ItemSum(S, db[t])] = [t \in Tids |-> ItemSum(S, db[t])]
    BY <2>1 DEF Promise!ItemSum, ItemSum
  <2>3. ASSUME NEW T, NEW utility
        PROVE  Promise!TidSum(T, utility) = TidSum(T, utility)
    BY <2>1 DEF Promise!TidSum, TidSum, Promise!Cardinality, Cardinality
  <2> QED
    BY <1>2, <2>2, <2>3 DEF Promise!Utility, Utility
<1>3. Promise!HighUtility = TwoPhaseWanted
  BY <1>1, <1>2, <1>4 DEF Promise!HighUtility, TwoPhaseWanted
<1> QED
  BY <1>3, <1>4 DEF Promise!Results, TwoPhaseEntry

\* What no step does, wherever it is.
LEMMA TwoPhaseSteps ==
  ASSUME TwoPhaseIInv, TwoPhaseNext
  PROVE  phase # "done" /\ UNCHANGED <<db, mode>> /\ (failed => failed') /\ found \subseteq found'
<1>1. CASE TwoPhasePasses
  BY <1>1 DEF TwoPhasePasses, TwoPhaseFilter, FilterTo, Index, TwoPhaseFinish
<1>2. ASSUME NEW w \in Threads, TwoPhaseThread(w)
      PROVE  phase # "done" /\ UNCHANGED <<db, mode>> /\ (failed => failed')
             /\ found \subseteq found'
  <2>1. Busy(w) => phase = "search"
    BY DEF TwoPhaseIInv, TwoPhasePhases
  <2>2. \A S, u : found \subseteq FoundWith(S, u)
    BY DEF FoundWith
  <2>3. ASSUME NEW x \in Items, TwoPhaseTake(w, x)
        PROVE  phase # "done" /\ UNCHANGED <<db, mode>> /\ (failed => failed')
               /\ found \subseteq found'
    <3>1. phase = "search" /\ UNCHANGED <<db, mode>>
      BY <2>3 DEF TwoPhaseTake
    <3>2. \E tids, b : found' = FoundWith({x}, Exact(tids)) /\ failed' = (failed \/ b)
      BY <2>3 DEF TwoPhaseTake
    <3> QED
      BY <2>2, <3>1, <3>2
  <2>4. ASSUME NEW x \in Items, Scan(w, x)
        PROVE  phase # "done" /\ UNCHANGED <<db, mode>> /\ (failed => failed')
               /\ found \subseteq found'
    BY <2>1, <2>2, <2>4 DEF Scan, Abandon
  <2>5. ASSUME NEW x \in Items, Descend(w, x)
        PROVE  phase # "done" /\ UNCHANGED <<db, mode>> /\ (failed => failed')
               /\ found \subseteq found'
    BY <2>1, <2>5 DEF Descend, Abandon
  <2>6. CASE TwoPhaseReturn(w)
    BY <2>1, <2>6 DEF TwoPhaseReturn, contextVars
  <2> QED
    BY <1>2, <2>3, <2>4, <2>5, <2>6 DEF TwoPhaseThread
<1> QED
  BY <1>1, <1>2 DEF TwoPhaseNext

LEMMA TwoPhaseStepPromised ==
  ASSUME TwoPhaseIInv, TwoPhaseIInv', [TwoPhaseNext]_searchVars
  PROVE  [Promise!Mine]_(Promise!vars)
<1>1. CASE TwoPhaseNext
  <2>1. /\ phase # "done" /\ UNCHANGED <<db, mode>> /\ (failed => failed')
        /\ found \subseteq found'
    BY <1>1, TwoPhaseSteps
  <2>2. TwoPhaseWanted' = TwoPhaseWanted /\ \A S : TwoPhaseEntry(S)' = TwoPhaseEntry(S)
    BY <2>1, TwoPhaseKept
  <2>3. Promise!Results = {TwoPhaseEntry(S) : S \in TwoPhaseWanted}
    BY TwoPhasePromisedResults DEF TwoPhaseIInv
  <2>4. found' \subseteq Promise!Results
    BY <2>2, <2>3 DEF TwoPhaseIInv, TwoPhaseSound
  <2>5. ASSUME phase' = "done", ~failed'
        PROVE  Promise!Results \subseteq found'
    <3>1. todo' = {} /\ \A w \in Threads : stack'[w] = <<>>
      BY <2>5 DEF TwoPhaseIInv, TwoPhasePhases, Busy
    <3>2. \A S : ~TwoPhaseToCome(S)'
      BY <3>1 DEF TwoPhaseToCome, Members
    <3>3. \A S \in TwoPhaseWanted : TwoPhaseEntry(S) \in found'
      BY <2>2, <2>5, <3>2 DEF TwoPhaseIInv, TwoPhaseComplete, Written
    <3> QED
      BY <2>3, <3>3
  <2>6. UNCHANGED <<db, mode.minUtility, Closes>>
    BY <2>1 DEF Closes
  <2> QED
    BY <2>1, <2>4, <2>5, <2>6 DEF Promise!Mine
<1>2. CASE UNCHANGED searchVars
  BY <1>2 DEF searchVars, contextVars, Promise!vars, Closes
<1> QED
  BY <1>1, <1>2

\* TwoPhase writes only itemsets that reach the threshold, with their utilities, and when
\* nothing has failed it has written all of them at the end: for every database, threshold,
\* budget and number of threads, in every order of tasks, with any calls of the pool failing.
THEOREM VerticalKeepsPromise == TwoPhaseSpec => PromiseKept
<1>1. TwoPhaseInit => Promise!Init
  BY DEF TwoPhaseInit, StartSearch, NoStack, Start, Promise!Init
<1> QED
  BY <1>1, TwoPhaseStepPromised, TwoPhaseInductive, PTL DEF TwoPhaseSpec, PromiseKept, Promise!Spec

-----------------------------------------------------------------------------
(* The memory guard *)

\* The run holds the utilities of the transactions while it searches, and nothing else.
TwoPhaseHeld == used = IF phase = "search" THEN TwusBytes ELSE 0

LEMMA TwoPhaseHeldInit == TwoPhaseInit => TwoPhaseHeld
BY DEF TwoPhaseInit, StartSearch, NoStack, Start, TwoPhaseHeld

LEMMA TwoPhaseHeldStep ==
  ASSUME TwoPhaseIInv, TwoPhaseHeld, [TwoPhaseNext]_searchVars
  PROVE  TwoPhaseHeld'
<1>0. TwusBytes \in Nat /\ TwusBytes' = TwusBytes
  BY Constants, FS_CardinalityType DEF TwusBytes, TidBytes
<1>1. CASE TwoPhaseFilter
  BY <1>0, <1>1 DEF TwoPhaseFilter, FilterTo, TwoPhaseHeld
<1>2. CASE Index
  BY <1>0, <1>2 DEF Index, TwoPhaseHeld
<1>3. CASE TwoPhaseFinish
  BY <1>0, <1>3 DEF TwoPhaseFinish, TwoPhaseHeld, Without
<1>4. ASSUME UNCHANGED <<phase, used>>
      PROVE  TwoPhaseHeld'
  BY <1>0, <1>4 DEF TwoPhaseHeld
<1>5. ASSUME NEW w \in Threads, TwoPhaseThread(w)
      PROVE  TwoPhaseHeld'
  <2>1. UNCHANGED <<phase, used>>
    BY <1>5 DEF TwoPhaseThread, TwoPhaseTake, Scan, Descend, TwoPhaseReturn, contextVars
  <2> QED
    BY <1>4, <2>1
<1>6. CASE UNCHANGED searchVars
  BY <1>4, <1>6 DEF searchVars, contextVars
<1> QED
  BY <1>1, <1>2, <1>3, <1>5, <1>6 DEF TwoPhaseNext, TwoPhasePasses

\* However a run of TwoPhase ends, what it asked the memory guard for is returned.
THEOREM VerticalLedgerClosed == TwoPhaseSpec => []LedgerClosed
<1>1. TwoPhaseHeld => LedgerClosed
  BY DEF TwoPhaseHeld, LedgerClosed
<1> QED
  BY <1>1, TwoPhaseHeldInit, TwoPhaseHeldStep, TwoPhaseInductive, PTL DEF TwoPhaseSpec

-----------------------------------------------------------------------------
(* A run of any algorithm *)

MiningInv ==
  \/ Projects /\ EfimIInv /\ EfimHeld
  \/ Intersects /\ TwoPhaseIInv /\ TwoPhaseHeld
  \/ GrowsTrees /\ TreeIInv

\* One algorithm runs, and its name decides which.
LEMMA OneAlgorithm ==
  /\ Projects => ~Intersects /\ ~GrowsTrees
  /\ Intersects => ~Projects /\ ~GrowsTrees
  /\ GrowsTrees => ~Projects /\ ~Intersects
BY DEF Projects, Intersects, GrowsTrees, EfimAlgorithms, TwoPhaseAlgorithms, TreeAlgorithms

LEMMA ModeKept == MiningInv /\ [Next]_vars => mode' = mode
<1> SUFFICES ASSUME MiningInv, [Next]_vars PROVE mode' = mode
  OBVIOUS
<1>1. CASE Projects /\ EfimNext
  BY <1>1, OneAlgorithm, EfimSteps DEF MiningInv
<1>2. CASE Intersects /\ TwoPhaseNext
  BY <1>2, OneAlgorithm, TwoPhaseSteps DEF MiningInv
<1>3. CASE GrowsTrees /\ TreeNext
  BY <1>3, OneAlgorithm, TreeSteps DEF MiningInv
<1>4. CASE UNCHANGED vars
  BY <1>4 DEF vars, searchVars, contextVars
<1> QED
  BY <1>1, <1>2, <1>3, <1>4 DEF Next, Terminated

LEMMA MiningInitInv == Init => MiningInv
<1>1. EfimInit => Projects
  BY DEF EfimInit, StartSearch, Start, Projects
<1>2. TwoPhaseInit => Intersects
  BY DEF TwoPhaseInit, StartSearch, Start, Intersects
<1>3. TreeInit => GrowsTrees
  BY DEF TreeInit, Start, GrowsTrees
<1> QED
  BY <1>1, <1>2, <1>3, EfimInitIInv, EfimHeldInit, TwoPhaseInitIInv, TwoPhaseHeldInit, TreeInitIInv
     DEF Init, MiningInv

\* What a step is to each of the three.
LEMMA MiningSteps ==
  ASSUME MiningInv, [Next]_vars
  PROVE  /\ Projects => [EfimNext]_searchVars
         /\ Intersects => [TwoPhaseNext]_searchVars
         /\ GrowsTrees => [TreeNext]_treeMinerVars
         /\ Projects' = Projects /\ Intersects' = Intersects /\ GrowsTrees' = GrowsTrees
<1>1. mode' = mode
  BY ModeKept
<1>2. Projects' = Projects /\ Intersects' = Intersects /\ GrowsTrees' = GrowsTrees
  BY <1>1 DEF Projects, Intersects, GrowsTrees
<1>3. ASSUME UNCHANGED vars
      PROVE  UNCHANGED searchVars /\ UNCHANGED treeMinerVars
  BY <1>3 DEF vars, searchVars, treeMinerVars
<1>4. CASE UNCHANGED vars
  BY <1>2, <1>3, <1>4
<1>5. CASE Next
  BY <1>2, <1>3, <1>5, OneAlgorithm DEF Next, Terminated
<1> QED
  BY <1>4, <1>5

LEMMA MiningNextInv == MiningInv /\ [Next]_vars => MiningInv'
<1> SUFFICES ASSUME MiningInv, [Next]_vars PROVE MiningInv'
  OBVIOUS
<1>1. CASE Projects
  <2>1. EfimIInv /\ EfimHeld /\ [EfimNext]_searchVars /\ Projects'
    BY <1>1, OneAlgorithm, MiningSteps DEF MiningInv
  <2>2. EfimIInv' /\ EfimHeld'
    BY <2>1, EfimNextIInv, EfimHeldStep
  <2> QED
    BY <2>1, <2>2 DEF MiningInv
<1>2. CASE Intersects
  <2>1. TwoPhaseIInv /\ TwoPhaseHeld /\ [TwoPhaseNext]_searchVars /\ Intersects'
    BY <1>2, OneAlgorithm, MiningSteps DEF MiningInv
  <2>2. TwoPhaseIInv' /\ TwoPhaseHeld'
    BY <2>1, TwoPhaseNextIInv, TwoPhaseHeldStep
  <2> QED
    BY <2>1, <2>2 DEF MiningInv
<1>3. CASE GrowsTrees
  <2>1. TreeIInv /\ [TreeNext]_treeMinerVars /\ GrowsTrees'
    BY <1>3, OneAlgorithm, MiningSteps DEF MiningInv
  <2>2. TreeIInv'
    BY <2>1, TreeNextIInv
  <2> QED
    BY <2>1, <2>2 DEF MiningInv
<1> QED
  BY <1>1, <1>2, <1>3 DEF MiningInv

LEMMA MiningAlways == Spec => []MiningInv
BY MiningInitInv, MiningNextInv, PTL DEF Spec

\* In a run of any algorithm the variables keep their types.
THEOREM MiningTypeOK == Spec => []TypeOK
<1>1. MiningInv => TypeOK
  BY EfimTypesRight, TwoPhaseTypesRight, TreeTypes DEF MiningInv
<1> QED
  BY <1>1, MiningAlways, PTL

\* Whatever algorithm runs, if no request was refused and no call has failed it ends with
\* the memory guard's counter at zero.
THEOREM MiningLedgerClosed == Spec => []LedgerClosed
<1>1. TwoPhaseHeld => LedgerClosed
  BY DEF TwoPhaseHeld, LedgerClosed
<1>2. MiningInv => LedgerClosed
  BY <1>1, EfimLedgerEnd, TreeLedger DEF MiningInv
<1> QED
  BY <1>2, MiningAlways, PTL

\* The projections on the stacks of all threads are those of their itemsets.
THEOREM MiningProjectionsExact == Spec => []ProjectionsExact
<1>1. MiningInv => ProjectionsExact
  <2>1. ~Projects => ProjectionsExact
    BY DEF ProjectionsExact
  <2> QED
    BY <2>1, EfimExact, OneAlgorithm DEF MiningInv
<1> QED
  BY <1>1, MiningAlways, PTL

\* While nothing was refused, the counter is what the database and the projections take.
THEOREM MiningLedgerExact == Spec => []LedgerExact
<1>1. MiningInv => LedgerExact
  <2>1. ~Projects => LedgerExact
    BY DEF LedgerExact
  <2> QED
    BY <2>1, EfimLedger, OneAlgorithm DEF MiningInv
<1> QED
  BY <1>1, MiningAlways, PTL

\* The lists that dfs goes down with are those of their itemsets.
THEOREM MiningListsRight == Spec => []ListsRight
<1>1. MiningInv => ListsRight
  <2>1. ~Intersects => ListsRight
    BY DEF ListsRight
  <2> QED
    BY <2>1, TwoPhaseLists, OneAlgorithm DEF MiningInv
<1> QED
  BY <1>1, MiningAlways, PTL

\* No tree miner measures and writes an itemset twice, though its conditional trees have
\* orders of their own and their nodes take the slots of others.
THEOREM MiningCandidatesOnce == Spec => []CandidatesOnce
<1>1. MiningInv => CandidatesOnce
  <2>1. ~GrowsTrees => CandidatesOnce
    BY DEF CandidatesOnce
  <2> QED
    BY <2>1, TreeCandidatesOnce, OneAlgorithm DEF MiningInv
<1> QED
  BY <1>1, MiningAlways, PTL

\* Every algorithm keeps the promise of Huim: it writes only itemsets that reach the
\* threshold, with their utilities, and when nothing has failed it has written all of them
\* at the end; for every database, threshold, budget, number of threads and arena page.
THEOREM MiningKeepsPromise == Spec => PromiseKept
<1>1. Init => Promise!Init
  BY DEF Init, EfimInit, TwoPhaseInit, TreeInit, StartSearch, Start, Promise!Init
<1>2. MiningInv /\ MiningInv' /\ [Next]_vars => [Promise!Mine]_(Promise!vars)
  <2> SUFFICES ASSUME MiningInv, MiningInv', [Next]_vars
               PROVE  [Promise!Mine]_(Promise!vars)
    OBVIOUS
  <2>1. /\ Projects' => ~Intersects' /\ ~GrowsTrees'
        /\ Intersects' => ~Projects' /\ ~GrowsTrees'
        /\ GrowsTrees' => ~Projects' /\ ~Intersects'
    BY OneAlgorithm, PTL
  <2>2. CASE Projects
    <3>1. EfimIInv /\ EfimIInv' /\ [EfimNext]_searchVars
      BY <2>1, <2>2, OneAlgorithm, MiningSteps DEF MiningInv
    <3> QED
      BY <3>1, EfimStepPromised
  <2>3. CASE Intersects
    <3>1. TwoPhaseIInv /\ TwoPhaseIInv' /\ [TwoPhaseNext]_searchVars
      BY <2>1, <2>3, OneAlgorithm, MiningSteps DEF MiningInv
    <3> QED
      BY <3>1, TwoPhaseStepPromised
  <2>4. CASE GrowsTrees
    <3>1. TreeIInv /\ TreeIInv' /\ [TreeNext]_treeMinerVars
      BY <2>1, <2>4, OneAlgorithm, MiningSteps DEF MiningInv
    <3> QED
      BY <3>1, TreeStepPromised
  <2> QED
    BY <2>2, <2>3, <2>4 DEF MiningInv
<1> QED
  BY <1>1, <1>2, MiningAlways, PTL DEF Spec, PromiseKept, Promise!Spec

\* Every tree that is being mined, read from the arena by its slots, is the projection of the
\* database on its prefix, whatever conditional trees were built in those slots before and
\* behind it.
THEOREM MiningTreesExact == Spec => []TreesExact
<1>1. MiningInv => TreesExact
  <2>1. ~GrowsTrees => TreesExact
    BY DEF TreesExact
  <2> QED
    BY <2>1, TreeExact, OneAlgorithm DEF MiningInv
<1> QED
  BY <1>1, MiningAlways, PTL

\* The trees fill the arena without a gap, and every slot has a page.
THEOREM MiningArenaTight == Spec => []ArenaTight
<1>1. MiningInv => ArenaTight
  <2>1. ~GrowsTrees => ArenaTight
    BY DEF ArenaTight
  <2> QED
    BY <2>1, TreeArena, OneAlgorithm DEF MiningInv
<1> QED
  BY <1>1, MiningAlways, PTL
=============================================================================
