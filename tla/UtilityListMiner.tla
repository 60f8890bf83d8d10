-------------------------- MODULE UtilityListMiner --------------------------
(***************************************************************************)
(* Mining with utility lists: FHM, FHM+, HUI-Miner, HUP-Miner, mHUIMiner,  *)
(* and TKO, TKU and REPT with their shared top-k heap, from the two passes *)
(* over the database to the end of the parallel depth-first search.        *)
(*                                                                         *)
(* Each root item is a task.  A task goes through its part of the tree     *)
(* with a stack of frames, one per level of the recursion; the steps of    *)
(* different threads meet at the threshold and the heap of Tko.  How       *)
(* results reach the file is the matter of ResultPipeline, and where the   *)
(* bodies of the lists live that of BufferPool.                            *)
(***************************************************************************)
EXTENDS UtilityLists, Sequences

CONSTANTS
  Threads,
  MinedDatabases,  \* the databases to mine
  Modes,           \* the runs: see below
  EucsRoom         \* pairs of items the memory guard has room for

\* What the algorithms differ in: the co-occurrence structure, the bounds on the length
\* of itemsets, and the top-k heap with what comes with it.
Fhm == [eucs |-> TRUE, lengths |-> FALSE, heap |-> FALSE]
FhmPlus == [eucs |-> TRUE, lengths |-> TRUE, heap |-> FALSE]
HuiMiner == [eucs |-> FALSE, lengths |-> FALSE, heap |-> FALSE]
HupMiner == [eucs |-> FALSE, lengths |-> FALSE, heap |-> FALSE]
MHuiMiner == [eucs |-> FALSE, lengths |-> FALSE, heap |-> FALSE]
Tko == [eucs |-> TRUE, lengths |-> FALSE, heap |-> TRUE]
Tku == [eucs |-> TRUE, lengths |-> FALSE, heap |-> TRUE]
Rept == [eucs |-> TRUE, lengths |-> FALSE, heap |-> TRUE]
Algorithms == {Fhm, FhmPlus, HuiMiner, HupMiner, MHuiMiner, Tko, Tku, Rept}

\* A run: the algorithm; ctx.min_utility, or ctx.k if topK; ctx.min_length and max_length.
ModeType ==
  [algorithm : Algorithms, topK : BOOLEAN, k : Nat, minUtility : Nat,
   minLength : Nat, maxLength : Nat]

ASSUME MinerAssumption ==
  /\ IsFiniteSet(Threads)
  /\ MinedDatabases \subseteq Databases
  /\ Modes \subseteq ModeType
  /\ \A m \in Modes :
       /\ m.topK => m.algorithm.heap
       /\ ~m.algorithm.lengths => m.minLength <= 1 /\ m.maxLength >= Cardinality(Items)
  /\ EucsRoom \in Nat

VARIABLES
  db, mode,   \* what is mined and how: never change
  phase,      \* "filter", "read", "search" or "done"
  twu,        \* TWU of the items that pass the filter
  unread,     \* transactions pass 2 has not read
  eucs,       \* the co-occurrence structure: pairs of items to TWU
  lists,      \* the root items to their utility lists
  todo,       \* root items whose task has not started
  stack,      \* of each thread
  local,      \* the threshold each thread last read
  pc,
  heap,       \* the top-k heap: itemsets with their utility
  threshold,  \* the atomic beside it
  found       \* what write_hui was called with

search == <<todo, stack, local, pc, heap, threshold, found>>
vars == <<db, mode, phase, twu, unread, eucs, lists, search>>

Init ==
  /\ db \in MinedDatabases /\ mode \in Modes
  /\ phase = "filter"
  /\ twu = [x \in {} |-> 0] /\ eucs = [p \in {} |-> 0] /\ lists = [x \in {} |-> NoList]
  /\ unread = Tids /\ todo = {}
  /\ stack = [w \in Threads |-> <<>>]
  /\ local = [w \in Threads |-> 0]
  /\ pc = [w \in Threads |-> "look"]
  /\ heap = {} /\ threshold = 0 /\ found = {}

-----------------------------------------------------------------------------
(* The two passes *)

FilterThreshold == IF mode.topK THEN 0 ELSE mode.minUtility

Filter ==
  /\ phase = "filter"
  /\ twu' = TwuFilter(db, FilterThreshold)
  /\ phase' = "read"
  /\ UNCHANGED <<db, mode, unread, eucs, lists, search>>

Present(t) == {x \in DOMAIN twu : db[t][x] > 0}

\* Mutant of PairsOf: the inner loop starts at the item of the outer one.
PairsOfSelf(t) == {p \in Present(t) \X Present(t) : ~Before(twu, p[2], p[1])}

\* The pairs of a transaction in the order of its two loops.
PairsOf(t) == {p \in Present(t) \X Present(t) : Before(twu, p[1], p[2])}
UpTo(p, q) == \/ Before(twu, p[1], q[1])
              \/ p[1] = q[1] /\ (p[2] = q[2] \/ Before(twu, p[2], q[2]))

Key(p) == {p[1], p[2]}
New(p) == Key(p) \notin DOMAIN eucs
Room == EucsRoom - Cardinality(DOMAIN eucs)

\* The pairs Eucs::add_transaction gets to before the guard refuses a new one.
Reached(t) ==
  {q \in PairsOf(t) : Cardinality({p \in PairsOf(t) : New(p) /\ UpTo(p, q)}) <= Room}

Added(t) ==
  LET keys == {Key(p) : p \in Reached(t)} IN
  [k \in DOMAIN eucs \cup keys |->
     (IF k \in DOMAIN eucs THEN eucs[k] ELSE 0)
       + (IF k \in keys THEN TransactionUtility(db, t) ELSE 0)]

ReadTransaction(t) ==
  /\ phase = "read"
  /\ t \in unread /\ \A u \in unread : t <= u
  /\ eucs' = IF mode.algorithm.eucs THEN Added(t) ELSE eucs
  /\ unread' = unread \ {t}
  /\ UNCHANGED <<db, mode, phase, twu, lists, search>>

\* TKO leaves out the items whose own bound is below the threshold.
Listed ==
  {x \in DOMAIN twu :
     mode.algorithm.heap =>
       LET list == ItemList(db, twu, x)
       IN  SumIutils(list) + SumRutils(list) >= FilterThreshold}

StartSearch ==
  /\ phase = "read" /\ unread = {}
  /\ lists' = [x \in Listed |-> ItemList(db, twu, x)]
  /\ todo' = Listed
  /\ phase' = "search"
  /\ UNCHANGED <<db, mode, twu, unread, eucs, stack, local, pc, heap, threshold, found>>

-----------------------------------------------------------------------------
(* The search *)

\* A frame: the itemset and list of the prefix, the lists of its extensions and the
\* extensions not yet visited.
Frame(itemset, body, extensions, left) ==
  [itemset |-> itemset, body |-> body, extensions |-> extensions, left |-> left]

Push(s, frame) == <<frame>> \o s

Top(w) == stack[w][1]
Busy(w) == stack[w] # <<>>

\* The extension a thread is at: loops follow the order of the items.
Current(w) == CHOOSE x \in Top(w).left : \A y \in Top(w).left \ {x} : Before(twu, x, y)

\* Mutant of CanPruneJoin: a pair whose TWU is the threshold is not joined.
CanPruneJoinEqual(x, y, min) ==
  mode.algorithm.eucs /\ ({x, y} \in DOMAIN eucs => eucs[{x, y}] <= min)

\* Eucs::can_prune: a pair without an entry is pruned.
CanPruneJoin(x, y, min) ==
  mode.algorithm.eucs /\ ({x, y} \in DOMAIN eucs => eucs[{x, y}] < min)

\* execute_tasks gives a thread the next task.
Take(w, x) ==
  /\ phase = "search" /\ ~Busy(w) /\ x \in todo
  /\ todo' = todo \ {x}
  /\ stack' = [stack EXCEPT ![w] = <<Frame({}, NoList, lists, {x})>>]
  /\ UNCHANGED <<db, mode, phase, twu, unread, eucs, lists, local, pc, heap, threshold, found>>

\* Mutant of Look: the loop does not go past an extension it prunes.
LookAgain(w) ==
  /\ Busy(w) /\ pc[w] = "look" /\ Top(w).left # {}
  /\ LET min == IF mode.topK THEN threshold ELSE mode.minUtility
     IN  /\ ~CanPrune(Top(w).extensions[Current(w)], min)
         /\ local' = [local EXCEPT ![w] = min]
         /\ pc' = [pc EXCEPT ![w] = "expand"]
         /\ UNCHANGED stack
  /\ UNCHANGED <<db, mode, phase, twu, unread, eucs, lists, todo, heap, threshold, found>>

\* TkoState::get, or the constant threshold, and the test of the bound.
Look(w) ==
  /\ Busy(w) /\ pc[w] = "look" /\ Top(w).left # {}
  /\ LET min == IF mode.topK THEN threshold ELSE mode.minUtility
         x == Current(w)
     IN  IF CanPrune(Top(w).extensions[x], min)
           THEN /\ stack' = [stack EXCEPT ![w][1].left = @ \ {x}]
                /\ UNCHANGED <<local, pc>>
           ELSE /\ local' = [local EXCEPT ![w] = min]
                /\ pc' = [pc EXCEPT ![w] = "expand"]
                /\ UNCHANGED stack
  /\ UNCHANGED <<db, mode, phase, twu, unread, eucs, lists, todo, heap, threshold, found>>

Entry(S, list) == [itemset |-> S, utility |-> SumIutils(list)]

\* FhmPlus bounds the length of what it writes and of what it extends.
LengthFits(S) == mode.minLength <= Cardinality(S) /\ Cardinality(S) <= mode.maxLength
Extends(S) == Cardinality(S) < mode.maxLength

Lowest(h) == {e \in h : \A f \in h : e.utility <= f.utility}

\* Mutant of Pushed: the heap gives up an entry as soon as it is full.
PushedFull(e) ==
  LET h == heap \cup {e} IN
  IF Cardinality(h) >= mode.k THEN {h \ {low} : low \in Lowest(h)} ELSE {h}

\* push and, if there are more than k, pop of one of the lowest.
Pushed(e) ==
  LET h == heap \cup {e} IN
  IF Cardinality(h) > mode.k THEN {h \ {low} : low \in Lowest(h)} ELSE {h}

\* Mutant of Raised: the threshold follows the heap before it is full.
RaisedEarly(h) ==
  IF h = {} THEN threshold
  ELSE LET low == (CHOOSE e \in Lowest(h) : TRUE).utility
       IN  IF low > threshold THEN low ELSE threshold

\* The threshold goes up to the lowest utility of a full heap.
Raised(h) ==
  IF h = {} \/ Cardinality(h) # mode.k THEN threshold
  ELSE LET low == (CHOOSE e \in Lowest(h) : TRUE).utility
       IN  IF low > threshold THEN low ELSE threshold

\* What a high-utility itemset changes: TkoState::update under its lock, or write_hui.
Report(S, list, min) ==
  IF mode.topK
    THEN /\ UNCHANGED found
         /\ IF IsHighUtility(list, min)
              THEN heap' \in Pushed(Entry(S, list)) /\ threshold' = Raised(heap')
              ELSE UNCHANGED <<heap, threshold>>
    ELSE /\ UNCHANGED <<heap, threshold>>
         /\ found' = IF IsHighUtility(list, min) /\ LengthFits(S)
                       THEN found \cup {Entry(S, list)} ELSE found

\* The extensions of an extension of the frame: joins with those that come after it.
Deeper(frame, x, min) ==
  LET list == frame.extensions[x]
      next == {y \in DOMAIN frame.extensions : Before(twu, x, y) /\ ~CanPruneJoin(x, y, min)}
  IN  Frame(frame.itemset \cup {x}, list,
            [y \in next |-> Join(frame.body, list, frame.extensions[y])], next)

\* The body of the loop; update returns the threshold the joins are pruned with.
Expand(w) ==
  /\ pc[w] = "expand"
  /\ LET x == Current(w)
         S == Top(w).itemset \cup {x}
         list == Top(w).extensions[x]
         rest == [stack[w] EXCEPT ![1].left = @ \ {x}]
     IN  /\ Report(S, list, local[w])
         /\ LET min == IF mode.topK /\ IsHighUtility(list, local[w])
                         THEN threshold' ELSE local[w]
                deeper == Deeper(Top(w), x, min)
            IN  stack' = [stack EXCEPT ![w] =
                            IF Extends(S) /\ deeper.left # {} THEN Push(rest, deeper) ELSE rest]
  /\ pc' = [pc EXCEPT ![w] = "look"]
  /\ UNCHANGED <<db, mode, phase, twu, unread, eucs, lists, todo, local>>

\* The loop is over: the call, or the task, returns.
Back(w) ==
  /\ Busy(w) /\ pc[w] = "look" /\ Top(w).left = {}
  /\ stack' = [stack EXCEPT ![w] = Tail(@)]
  /\ UNCHANGED <<db, mode, phase, twu, unread, eucs, lists, todo, local, pc, heap,
                 threshold, found>>

\* execute_tasks returns; TKO writes its heap to the file.
Finish ==
  /\ phase = "search" /\ todo = {} /\ \A w \in Threads : ~Busy(w)
  /\ phase' = "done"
  /\ found' = IF mode.topK THEN heap ELSE found
  /\ heap' = IF mode.topK THEN {} ELSE heap
  /\ UNCHANGED <<db, mode, twu, unread, eucs, lists, todo, stack, local, pc, threshold>>

Passes == Filter \/ (\E t \in Tids : ReadTransaction(t)) \/ StartSearch \/ Finish

Thread(w) == (\E x \in Items : Take(w, x)) \/ Look(w) \/ Expand(w) \/ Back(w)

Next == Passes \/ \E w \in Threads : Thread(w)

Spec == Init /\ [][Next]_vars

\* The algorithm's own thread and every thread of the pool are scheduled.
FairSpec == Spec /\ WF_vars(Passes) /\ \A w \in Threads : WF_vars(Thread(w))

-----------------------------------------------------------------------------
(* Properties *)

TypeOK ==
  /\ db \in MinedDatabases /\ mode \in Modes
  /\ phase \in {"filter", "read", "search", "done"}
  /\ DOMAIN twu \subseteq Items /\ \A x \in DOMAIN twu : twu[x] \in Nat
  /\ unread \subseteq Tids
  /\ DOMAIN eucs \subseteq {k \in SUBSET Items : Cardinality(k) = 2}
  /\ DOMAIN lists \subseteq Items /\ todo \subseteq DOMAIN lists
  /\ local \in [Threads -> Nat] /\ pc \in [Threads -> {"look", "expand"}]
  /\ threshold \in Nat

\* Every itemset of the database, with its utility.
Entries ==
  {[itemset |-> S, utility |-> Utility(db, S)] :
     S \in {T \in SUBSET Items : T # {} /\ Supporting(db, T) # {}}}

\* Mining with a threshold finds exactly the itemsets that reach it, with their
\* utilities: no pruning by TWU, by the bound of a list or by the co-occurrence of a
\* pair loses one, whatever the order of the tasks.
Exact ==
  phase = "done" /\ ~mode.topK =>
    found = {e \in Entries : e.utility >= mode.minUtility /\ LengthFits(e.itemset)}

\* Top-k mining ends with k of the best itemsets, though threads prune with thresholds
\* that others have raised since.
TopKExact ==
  phase = "done" /\ mode.topK =>
    /\ found \subseteq Entries
    /\ Cardinality(found) = IF Cardinality(Entries) < mode.k THEN Cardinality(Entries) ELSE mode.k
    /\ \A e \in Entries \ found : \A f \in found : e.utility <= f.utility

\* The utility list of an itemset whose last item is x, from the database.
ListOf(S, x) ==
  [t \in Supporting(db, S) |->
     [iutils |-> ItemSum(S, db[t]),
      rutils |-> ItemSum({y \in DOMAIN twu : Before(twu, x, y)}, db[t])]]

\* Every list a chain of joins has made is the list of its itemset: no transaction is
\* lost and the utility of the shared prefix is counted once.
ListsExact ==
  \A w \in Threads : \A i \in DOMAIN stack[w] :
    LET frame == stack[w][i] IN
    \A x \in DOMAIN frame.extensions :
      frame.extensions[x] = ListOf(frame.itemset \cup {x}, x)

\* An itemset is still to be visited: below the next item of its own in some loop.
LeadsTo(frame, S) ==
  /\ frame.itemset \subseteq S
  /\ S \ frame.itemset \subseteq DOMAIN frame.extensions
  /\ \E x \in frame.left \cap (S \ frame.itemset) :
       \A y \in S \ (frame.itemset \cup {x}) : Before(twu, x, y)

ToVisit(S) ==
  \/ S \cap todo # {} /\ LeadsTo(Frame({}, NoList, lists, todo), S)
  \/ \E w \in Threads : \E i \in DOMAIN stack[w] : LeadsTo(stack[w][i], S)

\* At every moment of a top-k search, an itemset that is not in the heap is still to be
\* visited or cannot enter it: the heap is full of itemsets at least as good.
NothingMissed ==
  phase = "search" /\ mode.topK =>
    \A e \in Entries \ heap :
      \/ ToVisit(e.itemset)
      \/ Cardinality(heap) = mode.k /\ \A f \in heap : e.utility <= f.utility

\* The search ends.
Ends == <>(phase = "done")
=============================================================================
