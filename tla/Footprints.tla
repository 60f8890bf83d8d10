----------------------------- MODULE Footprints -----------------------------
(***************************************************************************)
(* Sums of sizes, as the number of bytes of a set: one pair per byte.      *)
(***************************************************************************)
EXTENDS Integers, FiniteSets

\* The bytes of the members of S, none of which has more than max of them.
Bytes(S, size, max) == {x \in S \X (1..max) : x[2] <= size[x[1]]}

Footprint(S, size, max) == Cardinality(Bytes(S, size, max))
=============================================================================
