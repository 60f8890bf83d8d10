---------------------------- MODULE UtilityLists ----------------------------
(***************************************************************************)
(* Transaction utilities, TWU, utility lists and their join, as the        *)
(* algorithms of the utility-list family compute them                      *)
(* (preprocessing/twu_filter.rs, types/utility_list.rs, ul_join.rs).       *)
(*                                                                         *)
(* A database d gives each item its utility in each transaction, 0 if the  *)
(* transaction does not have it.  So the items a transaction has are of    *)
(* positive utility here: for one of utility 0 the code keeps an entry,    *)
(* which adds nothing to a sum but counts as the item being there.  A      *)
(* utility list is a function from tids.                                   *)
(***************************************************************************)
EXTENDS Integers, FiniteSets, Footprints

CONSTANTS
  Items, Tids,
  MaxUtility   \* of an item in a transaction

ASSUME UtilityAssumption ==
  /\ IsFiniteSet(Items) /\ Items \subseteq Nat
  /\ IsFiniteSet(Tids) /\ Tids \subseteq Nat
  /\ MaxUtility \in Nat

Databases == [Tids -> [Items -> 0..MaxUtility]]

\* Sums over items, and over transactions.
ItemSum(S, utility) == Footprint(S, utility, MaxUtility)
TidSum(T, utility) == Footprint(T, utility, 2 * MaxUtility * Cardinality(Items))

-----------------------------------------------------------------------------
(* The database *)

HasAll(d, t, S) == \A x \in S : d[t][x] > 0
Supporting(d, S) == {t \in Tids : HasAll(d, t, S)}

TransactionUtility(d, t) == ItemSum(Items, d[t])

\* What mining is about: the utility of an itemset.
Utility(d, S) == TidSum(Supporting(d, S), [t \in Tids |-> ItemSum(S, d[t])])

Twu(d, S) == TidSum(Supporting(d, S), [t \in Tids |-> TransactionUtility(d, t)])

\* TwuFilter::compute: the TWU of the items that pass.
TwuFilter(d, min) ==
  [x \in {y \in Items : Supporting(d, {y}) # {} /\ Twu(d, {y}) >= min} |-> Twu(d, {x})]

\* Ascending TWU, ties by item: the order of items in transactions and in the search.
Before(twu, x, y) == twu[x] < twu[y] \/ (twu[x] = twu[y] /\ x < y)

-----------------------------------------------------------------------------
(* Utility lists *)

NoList == [t \in {} |-> [iutils |-> 0, rutils |-> 0]]

\* The utility list of an item; the rest of a transaction is what passed the filter
\* and comes after it.
ItemList(d, twu, x) ==
  [t \in Supporting(d, {x}) |->
     [iutils |-> d[t][x],
      rutils |-> ItemSum({y \in DOMAIN twu : Before(twu, x, y)}, d[t])]]

\* Mutant of Join: the prefix is counted twice.
JoinUncorrected(p, px, py) ==
  [t \in DOMAIN px \cap DOMAIN py |->
     [iutils |-> px[t].iutils + py[t].iutils, rutils |-> py[t].rutils]]

\* join_utility_lists: a merge on the tids of px and py.
Join(p, px, py) ==
  [t \in DOMAIN px \cap DOMAIN py |->
     [iutils |-> px[t].iutils + py[t].iutils - (IF t \in DOMAIN p THEN p[t].iutils ELSE 0),
      rutils |-> py[t].rutils]]

SumIutils(list) == TidSum(DOMAIN list, [t \in DOMAIN list |-> list[t].iutils])
SumRutils(list) == TidSum(DOMAIN list, [t \in DOMAIN list |-> list[t].rutils])

\* Mutant of CanPrune: a list whose bound is the threshold is pruned.
CanPruneEqual(list, threshold) ==
  DOMAIN list = {} \/ SumIutils(list) + SumRutils(list) <= threshold

CanPrune(list, threshold) ==
  DOMAIN list = {} \/ SumIutils(list) + SumRutils(list) < threshold

IsHighUtility(list, threshold) == DOMAIN list # {} /\ SumIutils(list) >= threshold
=============================================================================
