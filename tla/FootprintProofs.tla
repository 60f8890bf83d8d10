-------------------------- MODULE FootprintProofs ---------------------------
(* What adding a member to a set, or removing one, does to its footprint. *)
EXTENDS Footprints, FiniteSetTheorems, TLAPS

\* The bytes 1..n of one member.
Row(k, n) == {k} \X (1..n)

LEMMA RowSize ==
  ASSUME NEW k, NEW n \in Nat
  PROVE  IsFiniteSet(Row(k, n)) /\ Cardinality(Row(k, n)) = n
<1>1. IsFiniteSet({k}) /\ Cardinality({k}) = 1
  BY FS_Singleton
<1>2. IsFiniteSet(1..n) /\ Cardinality(1..n) = n
  BY FS_Interval
<1>3. /\ IsFiniteSet({k} \X (1..n))
      /\ Cardinality({k} \X (1..n)) = Cardinality({k}) * Cardinality(1..n)
  BY <1>1, <1>2, FS_Product
<1> QED
  BY <1>1, <1>2, <1>3 DEF Row

\* Adding a row adds at most its length, and exactly that if it is new.
LEMMA AddRow ==
  ASSUME NEW S, IsFiniteSet(S), NEW k, NEW n \in Nat
  PROVE  /\ IsFiniteSet(S \cup Row(k, n))
         /\ Cardinality(S) \in Nat
         /\ Cardinality(S \cup Row(k, n)) \in Nat
         /\ Cardinality(S \cup Row(k, n)) <= Cardinality(S) + n
         /\ S \cap Row(k, n) = {} => Cardinality(S \cup Row(k, n)) = Cardinality(S) + n
<1>1. IsFiniteSet(Row(k, n)) /\ Cardinality(Row(k, n)) = n
  BY RowSize
<1>2. IsFiniteSet(S \cup Row(k, n)) /\ IsFiniteSet(S \cap Row(k, n))
  BY <1>1, FS_Union, FS_Intersection
<1>3. Cardinality(S \cup Row(k, n))
        = Cardinality(S) + n - Cardinality(S \cap Row(k, n))
  BY <1>1, FS_Union
<1>4. /\ Cardinality(S) \in Nat /\ Cardinality(S \cup Row(k, n)) \in Nat
      /\ Cardinality(S \cap Row(k, n)) \in Nat
  BY <1>2, FS_CardinalityType
<1>5. S \cap Row(k, n) = {} => Cardinality(S \cap Row(k, n)) = 0
  BY FS_EmptySet
<1> QED
  BY <1>2, <1>3, <1>4, <1>5

LEMMA BytesFinite ==
  ASSUME NEW S, IsFiniteSet(S), NEW max \in Nat, NEW size
  PROVE  IsFiniteSet(Bytes(S, size, max)) /\ Footprint(S, size, max) \in Nat
<1>1. IsFiniteSet(S \X (1..max))
  <2>1. IsFiniteSet(1..max)
    BY FS_Interval
  <2> QED
    BY <2>1, FS_Product
<1>2. Bytes(S, size, max) \in SUBSET (S \X (1..max))
  BY DEF Bytes
<1>3. IsFiniteSet(Bytes(S, size, max))
  BY <1>1, <1>2, FS_Subset
<1> QED
  BY <1>3, FS_CardinalityType DEF Footprint

\* A member adds at most its size to the footprint of a set.
LEMMA AddMember ==
  ASSUME NEW S, IsFiniteSet(S), NEW max \in Nat, NEW size, NEW p, size[p] \in 0..max
  PROVE  /\ Footprint(S \cup {p}, size, max) <= Footprint(S, size, max) + size[p]
         /\ p \notin S =>
              Footprint(S \cup {p}, size, max) = Footprint(S, size, max) + size[p]
<1>1. Bytes(S \cup {p}, size, max) = Bytes(S, size, max) \cup Row(p, size[p])
  BY DEF Bytes, Row
<1>2. p \notin S => Bytes(S, size, max) \cap Row(p, size[p]) = {}
  BY DEF Bytes, Row
<1>3. IsFiniteSet(Bytes(S, size, max)) /\ size[p] \in Nat
  BY BytesFinite
<1> DEFINE B == Bytes(S, size, max)
<1> HIDE DEF B
<1>4. /\ Cardinality(B \cup Row(p, size[p])) <= Cardinality(B) + size[p]
      /\ B \cap Row(p, size[p]) = {} =>
           Cardinality(B \cup Row(p, size[p])) = Cardinality(B) + size[p]
  BY <1>3, AddRow DEF B
<1> QED
  BY <1>1, <1>2, <1>4 DEF Footprint, B

LEMMA RemoveMember ==
  ASSUME NEW S, IsFiniteSet(S), NEW max \in Nat, NEW size, NEW p, size[p] \in 0..max
  PROVE  Footprint(S \ {p}, size, max)
           = Footprint(S, size, max) - (IF p \in S THEN size[p] ELSE 0)
<1>1. CASE p \in S
  <2>1. (S \ {p}) \cup {p} = S /\ p \notin S \ {p}
    BY <1>1
  <2>2. IsFiniteSet(S \ {p})
    BY FS_Difference
  <2>3. Footprint(S, size, max) = Footprint(S \ {p}, size, max) + size[p]
    BY <2>1, <2>2, AddMember
  <2>4. /\ Footprint(S, size, max) \in Nat /\ Footprint(S \ {p}, size, max) \in Nat
        /\ size[p] \in Nat
    BY <2>2, BytesFinite
  <2> QED
    BY <1>1, <2>3, <2>4
<1>2. CASE p \notin S
  <2>1. S \ {p} = S /\ Footprint(S, size, max) \in Nat
    BY <1>2, BytesFinite
  <2>2. Footprint(S \ {p}, size, max) = Footprint(S, size, max)
    BY <2>1, Zenon
  <2> QED
    BY <1>2, <2>1, <2>2
<1> QED
  BY <1>1, <1>2

\* A part has at most the footprint of the whole.
LEMMA FootprintMonotone ==
  ASSUME NEW S, IsFiniteSet(S), NEW T \in SUBSET S, NEW max \in Nat, NEW size
  PROVE  Footprint(T, size, max) <= Footprint(S, size, max)
<1>1. Bytes(T, size, max) \in SUBSET Bytes(S, size, max)
  BY DEF Bytes
<1>2. IsFiniteSet(Bytes(S, size, max))
  BY BytesFinite
<1> QED
  BY <1>1, <1>2, FS_Subset DEF Footprint
=============================================================================
