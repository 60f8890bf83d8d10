--------------------------- MODULE MCMemoryGuard ----------------------------
(* Instances of MemoryGuard for TLC: blocks are numbered, and the threads, which *)
(* are numbered too, own them in turn.                                           *)
EXTENDS MemoryGuard

CONSTANT NBlocks

MCBlocks == 1..NBlocks
MCOwner == [b \in 1..NBlocks |-> 1 + (b % Cardinality(Threads))]
MCSize == [b \in 1..NBlocks |-> 1 + (b % MaxSize)]
=============================================================================
