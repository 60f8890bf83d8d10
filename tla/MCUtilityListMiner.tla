------------------------- MODULE MCUtilityListMiner -------------------------
(* Instances of UtilityListMiner for TLC. *)
EXTENDS UtilityListMiner

Mode(algorithm, topK, k, min, shortest, longest) ==
  [algorithm |-> algorithm, topK |-> topK, k |-> k, minUtility |-> min,
   minLength |-> shortest, maxLength |-> longest]

MCModes ==
  {Mode(Tko, TRUE, k, 0, 1, 9) : k \in {0, 2, 5}}
    \cup {Mode(HuiMiner, FALSE, 0, 4, 1, 9), Mode(Fhm, FALSE, 0, 3, 1, 9),
          Mode(FhmPlus, FALSE, 0, 4, 2, 2)}

\* TKO with a minimum utility.
ThresholdModes == {Mode(Tko, FALSE, 0, 3, 1, 9)}
FhmModes == {Mode(Fhm, FALSE, 0, 3, 1, 9)}

MCItems == 1..3
MCTids == 0..1

\* Databases of two transactions, some with equal TWUs, some with a pair that never
\* occurs.
MCDatabases ==
  {d \in Databases : d[0] \in {<<1, 2, 1>>, <<2, 0, 1>>} /\ d[1][1] # 1 /\ d[1][3] # 2}
=============================================================================
