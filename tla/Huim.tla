-------------------------------- MODULE Huim --------------------------------
(***************************************************************************)
(* What a mining algorithm promises (mining/core/algorithm.rs): it writes  *)
(* nothing but itemsets whose utility reaches the threshold, each with its *)
(* utility, and when it ends it has written all of them, unless a call it  *)
(* depends on has failed.  A closed algorithm leaves out the itemsets that *)
(* another item could join without losing a transaction.                   *)
(***************************************************************************)
EXTENDS UtilityLists

VARIABLES
  db, minUtility, closed,  \* what is mined and how: never change
  found,                   \* what write_hui was called with
  failed,                  \* a call of the pool, or a request for memory, has failed
  done

vars == <<db, minUtility, closed, found, failed, done>>

Closed(S) ==
  \A x \in Items \ S : Supporting(db, S \cup {x}) # Supporting(db, S)

HighUtility ==
  {S \in (SUBSET Items) \ {{}} :
     /\ Supporting(db, S) # {} /\ Utility(db, S) >= minUtility
     /\ closed => Closed(S)}

Results == {[itemset |-> S, utility |-> Utility(db, S)] : S \in HighUtility}

Init == found = {} /\ ~failed /\ ~done

\* Results are written, in any number and order; the run ends with all of them.
Mine ==
  /\ ~done
  /\ failed => failed'
  /\ found' # found => found \subseteq found' /\ found' \subseteq Results
  /\ done' => failed' \/ found' = Results
  /\ UNCHANGED <<db, minUtility, closed>>

Spec == Init /\ [][Mine]_vars
=============================================================================
