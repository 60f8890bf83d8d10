---------------------------- MODULE MemoryGuard -----------------------------
(***************************************************************************)
(* The byte ledger of src/mining/core/memory_guard.rs and its callers: the *)
(* native, non-pool memory of all mining threads against one budget.       *)
(*                                                                         *)
(* try_alloc is a fetch_add, a comparison and perhaps a fetch_sub; free is *)
(* a load and a fetch_sub: each access to the atomic is a step of its own. *)
(* A block is one request of a caller: a projection, a header table, a row *)
(* of co-occurrences.  A negative used is the usize wrapped below zero: as *)
(* an unsigned number it exceeds every budget and every request.           *)
(***************************************************************************)
EXTENDS Integers, FiniteSets, Footprints

CONSTANTS
  Threads,
  NoBlock,     \* no request
  Blocks,      \* requests the threads may make, each again after its release
  Owner,       \* the thread that makes each request
  MaxSize,     \* no block is larger than this
  Size,        \* bytes of each block
  Budget,
  FreesSpilled \* TRUE: callers call free whether or not try_alloc agreed, as EFIM
               \* does with the projections it had to spill

ASSUME GuardAssumption ==
  /\ IsFiniteSet(Threads) /\ IsFiniteSet(Blocks)
  /\ NoBlock \notin Blocks
  /\ Owner \in [Blocks -> Threads]
  /\ MaxSize \in Nat /\ Size \in [Blocks -> 0..MaxSize]
  /\ Budget \in Nat
  /\ FreesSpilled \in BOOLEAN

VARIABLES
  used,      \* the atomic counter
  granted,   \* blocks try_alloc agreed to, still in memory
  forced,    \* blocks of force_alloc, still in memory
  spilled,   \* blocks try_alloc refused, their branch of the search not over
  pc, block, \* each thread: program counter, the block of its call
  seen       \* the value its first access to the counter returned

vars == <<used, granted, forced, spilled, pc, block, seen>>

Held == granted \cup forced

Init ==
  /\ used = 0
  /\ granted = {} /\ forced = {} /\ spilled = {}
  /\ pc = [t \in Threads |-> "idle"]
  /\ block = [t \in Threads |-> NoBlock]
  /\ seen = [t \in Threads |-> 0]

-----------------------------------------------------------------------------
(* Helpers *)

Call(t, b, label, value) ==
  /\ pc' = [pc EXCEPT ![t] = label]
  /\ block' = [block EXCEPT ![t] = b]
  /\ seen' = [seen EXCEPT ![t] = value]

Return(t) == Call(t, NoBlock, "idle", 0)

\* Threads make their requests one at a time.
MayAsk(t, b) ==
  /\ pc[t] = "idle" /\ Owner[b] = t
  /\ b \notin Held \cup spilled

\* Mutant of Fits: the bytes asked for are not counted.
FitsAlready(t) == seen[t] \in 0..Budget

\* try_alloc: not (prev + bytes > budget).
Fits(t) == seen[t] + Size[block[t]] \in 0..Budget

\* Mutant of Releasable: a refused block is given back as well.
ReleasableRefused(b) == b \in Held \cup spilled

\* The blocks a caller calls free for.
Releasable(b) == b \in Held \/ (FreesSpilled /\ b \in spilled)

\* free: bytes.min(used).
Bounded(bytes) == IF used \in 0..bytes THEN used ELSE bytes

-----------------------------------------------------------------------------
(* The operations *)

\* try_alloc: prev = used.fetch_add(bytes).
TryAdd(t, b) ==
  /\ MayAsk(t, b)
  /\ Call(t, b, "compare", used)
  /\ used' = used + Size[b]
  /\ UNCHANGED <<granted, forced, spilled>>

Grant(t) ==
  /\ pc[t] = "compare" /\ Fits(t)
  /\ granted' = granted \cup {block[t]}
  /\ Return(t)
  /\ UNCHANGED <<used, forced, spilled>>

Refuse(t) ==
  /\ pc[t] = "compare" /\ ~Fits(t)
  /\ pc' = [pc EXCEPT ![t] = "undo"]
  /\ UNCHANGED <<used, granted, forced, spilled, block, seen>>

\* Mutant of Undo: the refused bytes stay on the ledger.
UndoForgotten(t) ==
  /\ pc[t] = "undo"
  /\ spilled' = spilled \cup {block[t]}
  /\ Return(t)
  /\ UNCHANGED <<used, granted, forced>>

\* fetch_sub takes the refused bytes back; the caller spills the block or gives up.
Undo(t) ==
  /\ pc[t] = "undo"
  /\ used' = used - Size[block[t]]
  /\ spilled' = spilled \cup {block[t]}
  /\ Return(t)
  /\ UNCHANGED <<granted, forced>>

ForceAlloc(t, b) ==
  /\ MayAsk(t, b)
  /\ used' = used + Size[b]
  /\ forced' = forced \cup {b}
  /\ UNCHANGED <<granted, spilled, pc, block, seen>>

\* free: the load; the caller has dropped the block.
FreeLoad(t, b) ==
  /\ pc[t] = "idle" /\ Owner[b] = t
  /\ Releasable(b)
  /\ Call(t, b, "sub", Bounded(Size[b]))
  /\ granted' = granted \ {b} /\ forced' = forced \ {b} /\ spilled' = spilled \ {b}
  /\ UNCHANGED used

FreeSub(t) ==
  /\ pc[t] = "sub"
  /\ used' = used - seen[t]
  /\ Return(t)
  /\ UNCHANGED <<granted, forced, spilled>>

\* The branch of a refused block ends, and its caller knows not to free it.
Discard(t, b) ==
  /\ pc[t] = "idle" /\ Owner[b] = t
  /\ ~FreesSpilled /\ b \in spilled
  /\ spilled' = spilled \ {b}
  /\ UNCHANGED <<used, granted, forced, pc, block, seen>>

Step(t) ==
  \/ \E b \in Blocks :
       TryAdd(t, b) \/ ForceAlloc(t, b) \/ FreeLoad(t, b) \/ Discard(t, b)
  \/ Grant(t) \/ Refuse(t) \/ Undo(t) \/ FreeSub(t)

Next == \E t \in Threads : Step(t)

Spec == Init /\ [][Next]_vars

-----------------------------------------------------------------------------
(* Properties *)

TypeOK ==
  /\ used \in Int
  /\ granted \subseteq Blocks /\ forced \subseteq Blocks /\ spilled \subseteq Blocks
  /\ pc \in [Threads -> {"idle", "compare", "undo", "sub"}]
  /\ block \in [Threads -> Blocks \cup {NoBlock}]
  /\ seen \in [Threads -> Int]

Weight(S) == Footprint(S, Size, MaxSize)

\* What try_alloc grants never adds up to more than the budget, however its callers
\* race one another between fetch_add, comparison and fetch_sub.
GrantsFit == Weight(granted) <= Budget

\* The ledger never under-counts the memory that is held, so no later request is
\* granted at its expense and fetch_sub never wraps below zero.
UsedCoversHeld == used >= Weight(Held)

\* When no call is in progress the ledger is exact: no refusal, and no release racing
\* a refusal, leaks or loses a byte.
Quiet == \A t \in Threads : pc[t] = "idle"
UsedIsHeld == Quiet => used = Weight(Held)

-----------------------------------------------------------------------------
(* What the proofs of these properties carry from step to step *)

\* A block is with one call or in one set.
Placed ==
  /\ granted \cap forced = {} /\ granted \cap spilled = {} /\ forced \cap spilled = {}
  /\ \A t \in Threads :
       pc[t] # "idle" =>
         /\ block[t] \in Blocks \ (Held \cup spilled)
         /\ Owner[block[t]] = t

\* A release subtracts the whole block: the minimum with used never bites.
WholeRelease == \A t \in Threads : pc[t] = "sub" => seen[t] = Size[block[t]]

\* Blocks on the ledger that are not held: asked for and not decided, refused and not
\* yet taken back, dropped and not yet subtracted.
Pending == {block[t] : t \in {u \in Threads : pc[u] # "idle"}}

Ledger == used = Weight(Held \cup Pending)

\* Blocks granted, or sure to be.
Winning == granted \cup {block[t] : t \in {u \in Threads : pc[u] = "compare" /\ Fits(u)}}

GuardInv ==
  /\ TypeOK /\ Placed
  /\ ~FreesSpilled => WholeRelease /\ Ledger /\ Weight(Winning) <= Budget
=============================================================================
