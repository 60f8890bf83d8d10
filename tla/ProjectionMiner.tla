--------------------------- MODULE ProjectionMiner ---------------------------
(***************************************************************************)
(* EFIM, its closed variant and HAUI-Miner, which is EFIM under another    *)
(* name: a depth-first search on projections of a database that is held in *)
(* memory.  Each root item is a task of execute_tasks.                     *)
(*                                                                         *)
(* The memory of projections is asked of the memory guard; a projection it *)
(* refuses goes to a page of the buffer pool and is loaded by the call     *)
(* that searches it.  Requests and releases are atomic here; what becomes  *)
(* of them when they race is the matter of MemoryGuard.                    *)
(***************************************************************************)
EXTENDS TaskSearch

EfimAlgorithms == {"efim", "efim-closed", "haui-miner"}

Projects == mode.algorithm \in EfimAlgorithms

EfimInit == StartSearch(EfimAlgorithms)

-----------------------------------------------------------------------------
(* The database in memory: what the filter leaves of the transactions, in  *)
(* ascending TWU                                                           *)

Present(t) == {x \in DOMAIN twu : db[t][x] > 0}
Position(t, x) == Cardinality({y \in Present(t) : Before(twu, y, x)})
Remaining(t, x) == ItemSum({y \in Present(t) : Before(twu, x, y)}, db[t])
From(t, offset) == {x \in Present(t) : Position(t, x) >= offset}

ItemBytes == 20
DatabaseBytes == ItemBytes * Cardinality({e \in Tids \X DOMAIN twu : db[e[1]][e[2]] > 0})

EfimFilter ==
  /\ FilterTo("load")
  /\ UNCHANGED <<db, mode, todo, used, refused, failed, found, stack>>

Load ==
  /\ phase = "load"
  /\ used' = used + DatabaseBytes
  /\ todo' = DOMAIN twu
  /\ phase' = "search"
  /\ UNCHANGED <<db, mode, twu, stack, refused, failed, found>>

-----------------------------------------------------------------------------
(* Projections *)

\* The transactions before any item is chosen.
Whole == [t \in Tids |-> [offset |-> 0, prefix |-> 0, path |-> 0]]

Holding(proj, x) == {t \in DOMAIN proj : x \in From(t, proj[t].offset)}

\* Mutant of Projected: the offset is that of the item itself.
ProjectedAt(proj, x) ==
  [t \in Holding(proj, x) |->
     [offset |-> Position(t, x) % OffsetLimit,
      prefix |-> proj[t].prefix + db[t][x],
      path |-> proj[t].prefix + db[t][x] + Remaining(t, x)]]

\* The entries of the transactions that have x at or after their offset.
Projected(proj, x) ==
  [t \in Holding(proj, x) |->
     [offset |-> (Position(t, x) + 1) % OffsetLimit,
      prefix |-> proj[t].prefix + db[t][x],
      path |-> proj[t].prefix + db[t][x] + Remaining(t, x)]]

UtilityIn(proj) == TidSum(DOMAIN proj, [t \in DOMAIN proj |-> proj[t].prefix])

\* The two upper bounds of an extension.
LocalUtility(proj, x) ==
  TidSum(Holding(proj, x), [t \in Holding(proj, x) |-> proj[t].path])

SubtreeUtility(proj, x) ==
  TidSum(Holding(proj, x),
         [t \in Holding(proj, x) |-> proj[t].prefix + db[t][x] + Remaining(t, x)])

\* Mutant of Valid: an extension whose bound is the threshold is left out.
ValidAbove(proj) ==
  {x \in DOMAIN twu : Holding(proj, x) # {} /\ SubtreeUtility(proj, x) > mode.minUtility}

Valid(proj) ==
  {x \in DOMAIN twu : Holding(proj, x) # {} /\ SubtreeUtility(proj, x) >= mode.minUtility}

First(proj) == CHOOSE t \in DOMAIN proj : \A u \in DOMAIN proj : t <= u

\* EfimClosed: no other item of the first transaction is in all of them.
IsClosed(S, proj) ==
  ~ \E y \in Present(First(proj)) \ S : \A t \in DOMAIN proj \ {First(proj)} : y \in Present(t)

Report(S, proj) ==
  found' = IF Closes /\ ~IsClosed(S, proj) THEN found
           ELSE FoundWith(S, UtilityIn(proj))

-----------------------------------------------------------------------------
(* The search *)

EntryBytes == 24
ProjectionBytes(proj) == EntryBytes * Cardinality(DOMAIN proj)

\* A call of mine_efim: it has begun once its projection is loaded, and has some
\* extensions left.
EfimFrame(S, proj, onDisk) ==
  [itemset |-> S, proj |-> proj, onDisk |-> onDisk, begun |-> FALSE, left |-> {}]

\* try_alloc, else spill; a projection that cannot be spilled is not searched.
Search(w, S, proj, rest) ==
  \/ /\ Fits(ProjectionBytes(proj))
     /\ used' = used + ProjectionBytes(proj)
     /\ stack' = [stack EXCEPT ![w] = <<EfimFrame(S, proj, FALSE)>> \o rest]
     /\ UNCHANGED <<refused, failed>>
  \/ /\ ~Fits(ProjectionBytes(proj))
     /\ refused' = TRUE
     /\ \/ /\ stack' = [stack EXCEPT ![w] = <<EfimFrame(S, proj, TRUE)>> \o rest]
           /\ UNCHANGED failed
        \/ /\ PoolFails /\ failed' = TRUE
           /\ stack' = [stack EXCEPT ![w] = rest]
     /\ UNCHANGED used

\* Mutant of EfimTake: the task is not taken from the list.
EfimTakeAgain(w, x) ==
  /\ phase = "search" /\ ~Busy(w) /\ x \in todo
  /\ Report({x}, Projected(Whole, x))
  /\ Search(w, {x}, Projected(Whole, x), <<>>)
  /\ UNCHANGED <<db, mode, phase, twu, todo>>

\* execute_tasks gives a thread the next task.
EfimTake(w, x) ==
  /\ phase = "search" /\ ~Busy(w) /\ x \in todo
  /\ todo' = todo \ {x}
  /\ Report({x}, Projected(Whole, x))
  /\ Search(w, {x}, Projected(Whole, x), <<>>)
  /\ UNCHANGED <<db, mode, phase, twu>>

\* Mutant of Pop: a projection in memory is not given back.
PopKept(w) ==
  /\ stack' = [stack EXCEPT ![w] = Tail(@)]
  /\ used' = IF Top(w).onDisk THEN Without(ProjectionBytes(Top(w).proj)) ELSE used

\* A call returns and its caller frees the projection, also one that was spilled.
Pop(w) ==
  /\ stack' = [stack EXCEPT ![w] = Tail(@)]
  /\ used' = Without(ProjectionBytes(Top(w).proj))

\* The bounds of all extensions; a spilled projection is loaded first, and if that
\* fails the call returns.
Begin(w) ==
  /\ Busy(w) /\ ~Top(w).begun
  /\ \/ /\ stack' = [stack EXCEPT ![w][1] =
                       [Top(w) EXCEPT !.begun = TRUE, !.left = Valid(Top(w).proj)]]
        /\ UNCHANGED <<used, failed>>
     \/ /\ PoolFails /\ Top(w).onDisk
        /\ failed' = TRUE
        /\ Pop(w)
  /\ UNCHANGED <<db, mode, phase, twu, todo, refused, found>>

\* Extensions are visited in the order of the first transaction, those it does not have
\* after it in any order.
Foremost(frame) ==
  LET first == First(frame.proj)
      ahead == frame.left \cap From(first, frame.proj[first].offset)
  IN  IF ahead = {} THEN frame.left
      ELSE {x \in ahead : \A y \in ahead \ {x} : Before(twu, x, y)}

Visit(w, x) ==
  /\ Busy(w) /\ Top(w).begun /\ x \in Top(w).left
  /\ x \in Foremost(Top(w))
  /\ LET rest == [stack[w] EXCEPT ![1].left = @ \ {x}]
         S == Top(w).itemset \cup {x}
         proj == Projected(Top(w).proj, x)
     IN  IF LocalUtility(Top(w).proj, x) < mode.minUtility   \* never: Valid is stricter
           THEN /\ stack' = [stack EXCEPT ![w] = rest]
                /\ UNCHANGED <<used, refused, failed, found>>
           ELSE /\ Report(S, proj)
                /\ Search(w, S, proj, rest)
  /\ UNCHANGED <<db, mode, phase, twu, todo>>

\* The loop is over.
EfimReturn(w) ==
  /\ Busy(w) /\ Top(w).begun /\ Top(w).left = {}
  /\ Pop(w)
  /\ UNCHANGED <<db, mode, phase, twu, todo, refused, failed, found>>

\* execute_tasks returns.
EfimFinish ==
  /\ phase = "search" /\ todo = {} /\ \A w \in Threads : ~Busy(w)
  /\ used' = Without(DatabaseBytes)
  /\ phase' = "done"
  /\ UNCHANGED <<db, mode, twu, todo, stack, refused, failed, found>>

EfimPasses == EfimFilter \/ Load \/ EfimFinish
EfimThread(w) ==
  (\E x \in Items : EfimTake(w, x) \/ Visit(w, x)) \/ Begin(w) \/ EfimReturn(w)

EfimNext == EfimPasses \/ \E w \in Threads : EfimThread(w)

EfimSpec == EfimInit /\ [][EfimNext]_searchVars

-----------------------------------------------------------------------------
(* Properties *)

\* The projection of an itemset, from the database: the transactions that have it, the
\* place behind its last item, its utility, and what the rest of the transaction adds.
LastIn(S) == CHOOSE x \in S : \A y \in S \ {x} : Before(twu, y, x)

ProjectionOf(S) ==
  [t \in Supporting(db, S) |->
     [offset |-> Position(t, LastIn(S)) + 1,
      prefix |-> ItemSum(S, db[t]),
      path |-> ItemSum(S, db[t]) + Remaining(t, LastIn(S))]]

\* Every projection a chain of extensions has made is the projection of its itemset,
\* whether it stayed in memory or was spilled: no entry is lost, no offset points at
\* another item, no utility is counted twice.
ProjectionsExact ==
  Projects =>
    \A w \in Threads : \A i \in DOMAIN stack[w] :
      stack[w][i].proj = ProjectionOf(stack[w][i].itemset)

\* While the memory guard has refused nothing, its counter is the bytes of the database
\* and of the projections of all threads: no branch of the search leaks or frees twice.
Live == UNION {{<<w, i, t>> : i \in DOMAIN stack[w], t \in Tids} : w \in Threads}
LedgerExact ==
  Projects /\ ~refused =>
    used = IF phase # "search" THEN 0
           ELSE DatabaseBytes +
                EntryBytes * Cardinality({l \in Live : l[3] \in DOMAIN stack[l[1]][l[2]].proj})
=============================================================================
