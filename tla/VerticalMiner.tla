---------------------------- MODULE VerticalMiner ----------------------------
(***************************************************************************)
(* TwoPhase: a depth-first search that intersects lists of transactions.   *)
(* The list of each item lies on a page of the buffer pool and is pinned   *)
(* for every intersection; a long intersection goes to a page of its own.  *)
(* A task ignores the error of its search, and starts with an empty list   *)
(* when the page of its item cannot be pinned.                             *)
(*                                                                         *)
(* A pin is taken to give the page's contents or to fail, which is what    *)
(* BufferPool promises to one thread, or to several whose pages all fit in *)
(* the budget.  With several threads and a tighter budget the frame may be *)
(* freed while it is read (its PinnedStays); that is not modelled here.    *)
(***************************************************************************)
EXTENDS TaskSearch

TwoPhaseAlgorithms == {"two-phase"}

Intersects == mode.algorithm \in TwoPhaseAlgorithms

TwoPhaseInit == StartSearch(TwoPhaseAlgorithms)

TidBytes == 8
TwusBytes == TidBytes * Cardinality(Tids)

-----------------------------------------------------------------------------
(* The two passes *)

TwoPhaseFilter ==
  /\ FilterTo("index")
  /\ UNCHANGED <<db, mode, todo, used, refused, failed, found, stack>>

\* The lists go to their pages and the guard is asked for the utilities of the
\* transactions: a run whose pages cannot be written, or whose request is refused, mines
\* nothing.
Index ==
  /\ phase = "index"
  /\ \/ /\ Fits(TwusBytes)
        /\ used' = used + TwusBytes
        /\ todo' = DOMAIN twu
        /\ phase' = "search"
        /\ UNCHANGED <<refused, failed>>
     \/ /\ ~Fits(TwusBytes)
        /\ refused' = TRUE /\ failed' = TRUE
        /\ phase' = "done"
        /\ UNCHANGED <<used, todo>>
     \/ /\ PoolFails /\ failed' = TRUE
        /\ phase' = "done"
        /\ UNCHANGED <<used, todo, refused>>
  /\ UNCHANGED <<db, mode, twu, found, stack>>

-----------------------------------------------------------------------------
(* Lists: transactions with the utility of the prefix in them *)

ItemTids(x) == [t \in Supporting(db, {x}) |-> db[t][x]]

\* Mutant of Intersect: the utility of the extension alone is kept.
IntersectLast(tids, x) ==
  [t \in DOMAIN tids \cap Supporting(db, {x}) |-> db[t][x]]

Intersect(tids, x) ==
  [t \in DOMAIN tids \cap Supporting(db, {x}) |-> tids[t] + db[t][x]]

Exact(tids) == TidSum(DOMAIN tids, tids)
WholeTwu(tids) ==
  TidSum(DOMAIN tids, [t \in DOMAIN tids |-> TransactionUtility(db, t)])

\* The search goes on below a list.
Worth(tids) == DOMAIN tids # {} /\ WholeTwu(tids) >= mode.minUtility

\* Lists of a size go to a page.
OnPage(tids) == Cardinality(DOMAIN tids) >= ListNodes

-----------------------------------------------------------------------------
(* The search *)

\* A call of dfs: extensions it has not scanned, the lists of those it keeps, and those
\* it has not gone down to.
TwoPhaseFrame(S, tids, left) ==
  [itemset |-> S, tids |-> tids, left |-> left, lists |-> [x \in {} |-> ItemTids(x)], open |-> {}]

Least(S, x) == x \in S /\ \A y \in S : x <= y

\* An error of the pool goes through all calls of dfs to the task, which ignores it.
Abandon(w) ==
  /\ PoolFails /\ failed' = TRUE
  /\ stack' = [stack EXCEPT ![w] = <<>>]

\* execute_tasks gives a thread the next task; the page of the item may not be read.
TwoPhaseTake(w, x) ==
  /\ phase = "search" /\ ~Busy(w) /\ x \in todo
  /\ todo' = todo \ {x}
  /\ \E tids \in {ItemTids(x)} \cup (IF PoolFails THEN {[t \in {} |-> 0]} ELSE {}) :
       /\ failed' = (failed \/ tids # ItemTids(x))
       /\ found' = FoundWith({x}, Exact(tids))
       /\ stack' = [stack EXCEPT
                      ![w] = <<TwoPhaseFrame({x}, tids, {y \in DOMAIN twu : x < y})>>]
  /\ UNCHANGED <<db, mode, phase, twu, used, refused>>

\* The frame once it has scanned an extension: a list that is worth it is kept.
Scanned(frame, x, tids) ==
  IF Worth(tids)
    THEN [frame EXCEPT !.left = @ \ {x}, !.open = @ \cup {x},
                       !.lists = [y \in DOMAIN @ \cup {x} |-> IF y = x THEN tids ELSE @[y]]]
    ELSE [frame EXCEPT !.left = @ \ {x}]

Scan(w, x) ==
  /\ Busy(w) /\ Least(Top(w).left, x)
  /\ LET tids == Intersect(Top(w).tids, x)
         S == Top(w).itemset \cup {x}
     IN  \/ /\ Abandon(w)
            /\ \/ UNCHANGED found
               \/ /\ Worth(tids) /\ OnPage(tids)
                  /\ found' = FoundWith(S, Exact(tids))
         \/ /\ found' = IF DOMAIN tids = {} THEN found ELSE FoundWith(S, Exact(tids))
            /\ stack' = [stack EXCEPT ![w] = <<Scanned(Top(w), x, tids)>> \o Tail(@)]
            /\ UNCHANGED failed
  /\ UNCHANGED <<db, mode, phase, twu, todo, used, refused>>

Descend(w, x) ==
  /\ Busy(w) /\ Top(w).left = {} /\ Least(Top(w).open, x)
  /\ LET frame == Top(w)
         deeper == TwoPhaseFrame(frame.itemset \cup {x}, frame.lists[x],
                         {y \in DOMAIN frame.lists : x < y})
     IN  \/ OnPage(frame.lists[x]) /\ Abandon(w)
         \/ /\ stack' = [stack EXCEPT ![w] =
                           <<deeper, [frame EXCEPT !.open = @ \ {x}]>> \o Tail(@)]
            /\ UNCHANGED failed
  /\ UNCHANGED <<db, mode, phase, twu, todo, used, refused, found>>

TwoPhaseReturn(w) ==
  /\ Busy(w) /\ Top(w).left = {} /\ Top(w).open = {}
  /\ stack' = [stack EXCEPT ![w] = Tail(@)]
  /\ UNCHANGED contextVars

\* Mutant of TwoPhaseFinish: the utilities of the transactions stay on the guard's counter.
TwoPhaseFinishKept ==
  /\ phase = "search" /\ todo = {} /\ \A w \in Threads : ~Busy(w)
  /\ phase' = "done"
  /\ UNCHANGED <<db, mode, twu, todo, used, refused, failed, found, stack>>

\* execute_tasks returns.
TwoPhaseFinish ==
  /\ phase = "search" /\ todo = {} /\ \A w \in Threads : ~Busy(w)
  /\ used' = Without(TwusBytes)
  /\ phase' = "done"
  /\ UNCHANGED <<db, mode, twu, todo, refused, failed, found, stack>>

TwoPhasePasses == TwoPhaseFilter \/ Index \/ TwoPhaseFinish
TwoPhaseThread(w) ==
  \/ \E x \in Items : TwoPhaseTake(w, x) \/ Scan(w, x) \/ Descend(w, x)
  \/ TwoPhaseReturn(w)

TwoPhaseNext == TwoPhasePasses \/ \E w \in Threads : TwoPhaseThread(w)

TwoPhaseSpec == TwoPhaseInit /\ [][TwoPhaseNext]_searchVars

-----------------------------------------------------------------------------
(* Properties *)

\* The list of an itemset, from the database.
TidsOf(S) == [t \in Supporting(db, S) |-> ItemSum(S, db[t])]

\* Every list on the way down is that of its itemset, or empty below an item whose page
\* could not be read; and so are the lists kept for the extensions.
ListsRight ==
  Intersects =>
    \A w \in Threads : \A i \in DOMAIN stack[w] :
      LET frame == stack[w][i] IN
      \/ /\ frame.tids = TidsOf(frame.itemset)
         /\ \A x \in DOMAIN frame.lists : frame.lists[x] = TidsOf(frame.itemset \cup {x})
      \/ /\ failed /\ DOMAIN frame.tids = {} /\ DOMAIN frame.lists = {}
=============================================================================
