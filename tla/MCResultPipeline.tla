-------------------------- MODULE MCResultPipeline --------------------------
(* Instances of ResultPipeline for TLC: the first task emits Longest results, *)
(* the others one each.                                                       *)
EXTENDS ResultPipeline

CONSTANT Longest

MCCount == [t \in 1..NTasks |-> IF t = 1 THEN Longest ELSE 1]
=============================================================================
