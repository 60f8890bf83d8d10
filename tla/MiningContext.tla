---------------------------- MODULE MiningContext ----------------------------
(***************************************************************************)
(* What a mining run is given and what it leaves (mining/core/context.rs): *)
(* the database and the threshold, the memory guard, the results.  The     *)
(* algorithms of ProjectionMiner, VerticalMiner and TreeMiner extend it,   *)
(* and Promise is what all of them have to keep.                           *)
(***************************************************************************)
EXTENDS UtilityLists, Sequences

CONSTANTS
  Threads,
  MinedDatabases,  \* the databases to mine
  Modes,           \* the runs: the algorithm's name, ctx.min_utility, the guard's bytes
  PoolFails,       \* whether calls of the buffer pool and the store may fail
  OffsetLimit,     \* 2^16: offsets into a transaction are u16
  ListNodes,       \* a list of so many nodes is put on a page
  PageNodes        \* tree nodes on a page

ASSUME ContextAssumption ==
  /\ IsFiniteSet(Threads)
  /\ MinedDatabases \subseteq Databases
  /\ \A m \in Modes : m.minUtility \in Nat \ {0} /\ m.budget \in Nat
  /\ PoolFails \in BOOLEAN
  /\ OffsetLimit \in Nat /\ Cardinality(Items) < OffsetLimit
  /\ ListNodes \in Nat /\ PageNodes \in Nat \ {0}

VARIABLES
  db, mode,   \* what is mined and how: never change
  phase,      \* what the run is at, "done" in the end
  twu,        \* TWU of the items that pass the filter
  todo,       \* tasks execute_tasks has not started
  used,       \* the memory guard's counter
  refused,    \* the memory guard has refused a request
  failed,     \* what the run depends on has failed
  found       \* what write_hui was called with

contextVars == <<db, mode, phase, twu, todo, used, refused, failed, found>>

Start(algorithms) ==
  /\ db \in MinedDatabases
  /\ mode \in {m \in Modes : m.algorithm \in algorithms}
  /\ phase = "filter" /\ twu = [x \in {} |-> 0] /\ todo = {}
  /\ used = 0 /\ refused = FALSE /\ failed = FALSE /\ found = {}

\* The one algorithm that leaves out itemsets.
Closes == mode.algorithm = "efim-closed"

\* Mutant of Without: what is freed is not bounded by the counter.
WithoutBound(bytes) == used - bytes

\* free: bytes.min(used).
Without(bytes) == IF used < bytes THEN 0 ELSE used - bytes

\* An itemset that reaches the threshold is written.
FoundWith(S, utility) ==
  IF utility >= mode.minUtility THEN found \cup {[itemset |-> S, utility |-> utility]}
  ELSE found

\* The first pass, whether through TwuFilter or in the algorithm's own loop.
FilterTo(next) ==
  /\ phase = "filter"
  /\ twu' = TwuFilter(db, mode.minUtility)
  /\ phase' = next

\* What try_alloc decides.
Fits(bytes) == used + bytes <= mode.budget

-----------------------------------------------------------------------------
(* Properties *)

TypeOK ==
  /\ db \in MinedDatabases /\ mode \in Modes
  /\ phase \in {"filter", "load", "index", "build", "mine", "search", "done"}
  /\ DOMAIN twu \subseteq Items /\ todo \subseteq DOMAIN twu
  /\ used \in Nat /\ refused \in BOOLEAN /\ failed \in BOOLEAN
  /\ \A e \in found : e.itemset \subseteq Items /\ e.utility \in Nat

Promise == INSTANCE Huim
             WITH minUtility <- mode.minUtility, closed <- Closes,
                  done <- (phase = "done")

\* Every algorithm keeps the promise: whatever the order of tasks, the projections and
\* lists that go to pages, and the pool calls that fail on the way, it writes only
\* itemsets that reach the threshold, with their utilities; and when nothing has failed
\* it has written every one of them when it ends.
PromiseKept == Promise!Spec

\* When a run in which no request was refused and no call has failed is over, the memory
\* guard's counter is back to zero: the next run starts with the whole budget.
LedgerClosed == phase = "done" /\ ~refused /\ ~failed => used = 0
=============================================================================
