------------------------------ MODULE MCMining ------------------------------
(* Instances of Mining for TLC. *)
EXTENDS Mining

Mode(algorithm, min, budget) ==
  [algorithm |-> algorithm, minUtility |-> min, budget |-> budget]

Ample == 999

MCModes ==
  {Mode("efim", 4, 190),
   Mode("efim-closed", 5, Ample), Mode("haui-miner", 6, 0),
   Mode("two-phase", 4, Ample), Mode("two-phase", 6, 20)}
    \cup {Mode(a, 5, 0) : a \in {"ihup", "hup-tree", "hui-trie", "up-growth", "up-growth-plus"}}
    \cup {Mode("up-growth", 7, 0), Mode("hui-trie", 3, 0)}

MCItems == 1..3
MCTids == 0..2

\* Databases of three transactions, some with items of equal TWU.
MCDatabases ==
  {[t \in MCTids |-> <<<<1, 2, 1>>, b, c>>[t + 1]] :
     b \in {<<2, 1, 0>>, <<0, 1, 2>>}, c \in {<<0, 0, 2>>, <<2, 1, 1>>, <<2, 0, 1>>}}
=============================================================================
