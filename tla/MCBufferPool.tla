---------------------------- MODULE MCBufferPool ----------------------------
(* Instances of BufferPool for TLC. *)
EXTENDS BufferPool, TLC

\* One page of two bytes among pages of one: an eviction may have to repeat.
MCSize == [p \in 1..MaxPages |-> IF p = 2 THEN 2 ELSE 1]
UnitSize == [p \in 1..MaxPages |-> 1]
Symmetry == Permutations(Val)
=============================================================================
