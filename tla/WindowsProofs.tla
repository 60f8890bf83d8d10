---------------------------- MODULE WindowsProofs ----------------------------
(***************************************************************************)
(* Proofs about MemoryGuard, for any threads, blocks, sizes and budgets,   *)
(* and about HuimMmu, for any streams, thresholds and windows.             *)
(***************************************************************************)
EXTENDS MemoryGuard, HuimMmu, SearchProofs

LEMMA SizeType ==
  /\ MaxSize \in Nat /\ Budget \in Nat /\ IsFiniteSet(Blocks)
  /\ \A b \in Blocks : Size[b] \in 0..MaxSize /\ Size[b] \in Nat /\ Owner[b] \in Threads
  BY GuardAssumption

LEMMA WeightType ==
  ASSUME NEW S \in SUBSET Blocks
  PROVE  IsFiniteSet(S) /\ Weight(S) \in Nat
<1>1. IsFiniteSet(S)
  BY SizeType, FS_Subset
<1> QED
  BY <1>1, SizeType, BytesFinite DEF Weight

LEMMA AddBlock ==
  ASSUME NEW S \in SUBSET Blocks, NEW b \in Blocks
  PROVE  /\ Weight(S \cup {b}) <= Weight(S) + Size[b]
         /\ b \notin S => Weight(S \cup {b}) = Weight(S) + Size[b]
BY WeightType, SizeType, AddMember DEF Weight

LEMMA RemoveBlock ==
  ASSUME NEW S \in SUBSET Blocks, NEW b \in S
  PROVE  Weight(S \ {b}) = Weight(S) - Size[b]
BY WeightType, SizeType, RemoveMember DEF Weight

LEMMA PartWeighsLess ==
  ASSUME NEW S \in SUBSET Blocks, NEW T \in SUBSET S
  PROVE  Weight(T) <= Weight(S)
BY WeightType, SizeType, FootprintMonotone DEF Weight

-----------------------------------------------------------------------------
(* Types, and the place of every block *)

TypeInv == TypeOK /\ Placed

LEMMA TypeInit == Init => TypeInv
  BY GuardAssumption DEF Init, TypeInv, TypeOK, Placed, Held

LEMMA TypeStep == TypeInv /\ [Next]_vars => TypeInv'
<1> SUFFICES ASSUME TypeInv, [Next]_vars
             PROVE  TypeInv'
  OBVIOUS
<1> USE SizeType DEF TypeInv, TypeOK, Placed, Held
<1>1. CASE UNCHANGED vars
  BY <1>1 DEF vars
<1>2. ASSUME NEW t \in Threads, NEW b \in Blocks, TryAdd(t, b)
      PROVE  TypeInv'
  BY <1>2 DEF TryAdd, MayAsk, Call
<1>3. ASSUME NEW t \in Threads, NEW b \in Blocks, ForceAlloc(t, b)
      PROVE  TypeInv'
  BY <1>3 DEF ForceAlloc, MayAsk
<1>4. ASSUME NEW t \in Threads, NEW b \in Blocks, FreeLoad(t, b)
      PROVE  TypeInv'
  BY <1>4 DEF FreeLoad, Call, Releasable, Bounded
<1>5. ASSUME NEW t \in Threads, NEW b \in Blocks, Discard(t, b)
      PROVE  TypeInv'
  BY <1>5 DEF Discard
<1>6. ASSUME NEW t \in Threads, Grant(t)
      PROVE  TypeInv'
  BY <1>6 DEF Grant, Return, Call
<1>7. ASSUME NEW t \in Threads, Refuse(t)
      PROVE  TypeInv'
  BY <1>7 DEF Refuse
<1>8. ASSUME NEW t \in Threads, Undo(t)
      PROVE  TypeInv'
  BY <1>8 DEF Undo, Return, Call
<1>9. ASSUME NEW t \in Threads, FreeSub(t)
      PROVE  TypeInv'
  BY <1>9 DEF FreeSub, Return, Call
<1> HIDE DEF TypeInv
<1> QED
  BY <1>1, <1>2, <1>3, <1>4, <1>5, <1>6, <1>7, <1>8, <1>9 DEF Next, Step

LEMMA TypeCorrect == Spec => []TypeInv
  BY TypeInit, TypeStep, PTL DEF Spec

\* Every variable keeps its type, also with callers that free what was refused.
THEOREM GuardTypeOK == Spec => []TypeOK
<1>1. TypeInv => TypeOK
  BY DEF TypeInv
<1> QED
  BY <1>1, TypeCorrect, PTL

-----------------------------------------------------------------------------
(* The ledger, with callers that free what they were granted *)

OnLedger == Held \cup Pending

\* The part of the invariant that such callers keep.
Honest == WholeRelease /\ Ledger /\ Weight(Winning) <= Budget

LEMMA SetsOnLedger ==
  ASSUME TypeInv
  PROVE  /\ OnLedger \in SUBSET Blocks
         /\ Winning \in SUBSET OnLedger
         /\ Held \in SUBSET OnLedger
         /\ granted \in SUBSET Winning
BY DEF TypeInv, TypeOK, Placed, OnLedger, Held, Pending, Winning

\* What a step does to the ledger: blocks enter it with the bytes they add, stay on
\* it, or leave it with the bytes they subtract.
LEMMA EntersLedger ==
  ASSUME TypeInv, Honest, NEW b \in Blocks \ OnLedger,
         OnLedger' = OnLedger \cup {b}, used' = used + Size[b]
  PROVE  Ledger'
<1>1. Weight(OnLedger \cup {b}) = Weight(OnLedger) + Size[b]
  BY SetsOnLedger, AddBlock
<1>2. used = Weight(OnLedger)
  BY DEF Honest, Ledger, OnLedger
<1>3. Weight(OnLedger)' = Weight(OnLedger \cup {b})
  BY DEF Weight
<1> QED
  BY <1>1, <1>2, <1>3 DEF Ledger, OnLedger

LEMMA StaysOnLedger ==
  ASSUME TypeInv, Honest, OnLedger' = OnLedger, used' = used
  PROVE  Ledger'
BY DEF Honest, Ledger, OnLedger, Weight

LEMMA LeavesLedger ==
  ASSUME TypeInv, Honest, NEW b \in OnLedger,
         OnLedger' = OnLedger \ {b}, used' = used - Size[b]
  PROVE  Ledger'
<1>1. Weight(OnLedger \ {b}) = Weight(OnLedger) - Size[b]
  BY SetsOnLedger, RemoveBlock
<1>2. used = Weight(OnLedger)
  BY DEF Honest, Ledger, OnLedger
<1>3. Weight(OnLedger)' = Weight(OnLedger \ {b})
  BY DEF Weight
<1> QED
  BY <1>1, <1>2, <1>3 DEF Ledger, OnLedger

\* Blocks only win by TryAdd.
LEMMA NoNewWinner ==
  ASSUME TypeInv, Honest, Winning' \subseteq Winning
  PROVE  (Weight(Winning) <= Budget)'
<1>1. Weight(Winning') <= Weight(Winning)
  BY SetsOnLedger, PartWeighsLess
<1>2. Weight(Winning) \in Nat /\ Weight(Winning') \in Nat /\ Budget \in Nat
  BY SetsOnLedger, WeightType, SizeType
<1>3. Weight(Winning)' = Weight(Winning')
  BY DEF Weight
<1> QED
  BY <1>1, <1>2, <1>3 DEF Honest

LEMMA WinnersFit ==
  ASSUME TypeInv, Honest
  PROVE  Weight(Winning) <= used /\ Weight(Winning) \in Nat /\ used \in Nat
<1>1. used = Weight(OnLedger)
  BY DEF Honest, Ledger, OnLedger
<1> QED
  BY <1>1, SetsOnLedger, PartWeighsLess, WeightType

LEMMA TryAddHonest ==
  ASSUME TypeInv, Honest, NEW t \in Threads, NEW b \in Blocks, TryAdd(t, b)
  PROVE  Honest'
<1>1. /\ pc[t] = "idle" /\ pc' = [pc EXCEPT ![t] = "compare"]
      /\ block' = [block EXCEPT ![t] = b] /\ seen' = [seen EXCEPT ![t] = used]
      /\ used' = used + Size[b]
      /\ UNCHANGED <<granted, forced>>
  BY DEF TryAdd, MayAsk, Call
<1>2. b \in Blocks \ OnLedger
  BY DEF TryAdd, MayAsk, OnLedger, Pending, TypeInv, Placed
<1>3. OnLedger' = OnLedger \cup {b}
  BY <1>1 DEF OnLedger, Held, Pending, TypeInv, TypeOK
<1>4. Ledger'
  BY <1>1, <1>2, <1>3, EntersLedger
<1>5. WholeRelease'
  BY <1>1 DEF Honest, WholeRelease, TypeInv, TypeOK
<1>6. CASE used + Size[b] <= Budget
  <2>1. Winning' \subseteq Winning \cup {b}
    BY <1>1 DEF Winning, Fits, TypeInv, TypeOK
  <2>2. Winning \cup {b} \in SUBSET Blocks
    BY SetsOnLedger
  <2>3. /\ Weight(Winning') <= Weight(Winning \cup {b})
        /\ Weight(Winning \cup {b}) <= Weight(Winning) + Size[b]
    BY <2>1, <2>2, SetsOnLedger, PartWeighsLess, AddBlock
  <2>4. /\ Weight(Winning') \in Nat /\ Weight(Winning \cup {b}) \in Nat
        /\ Size[b] \in Nat /\ Budget \in Nat
    BY <2>1, <2>2, WeightType, SizeType
  <2>5. Weight(Winning') <= Budget
    BY <1>6, <2>3, <2>4, WinnersFit
  <2>6. Weight(Winning)' = Weight(Winning')
    BY DEF Weight
  <2> QED
    BY <1>4, <1>5, <2>5, <2>6 DEF Honest
<1>7. CASE ~(used + Size[b] <= Budget)
  <2>1. Winning' \subseteq Winning
    BY <1>1, <1>7 DEF Winning, Fits, TypeInv, TypeOK
  <2> QED
    BY <1>4, <1>5, <2>1, NoNewWinner DEF Honest
<1> QED
  BY <1>6, <1>7

LEMMA GrantHonest ==
  ASSUME TypeInv, Honest, NEW t \in Threads, Grant(t)
  PROVE  Honest'
<1>1. /\ pc[t] = "compare" /\ Fits(t) /\ pc' = [pc EXCEPT ![t] = "idle"]
      /\ block' = [block EXCEPT ![t] = NoBlock] /\ seen' = [seen EXCEPT ![t] = 0]
      /\ granted' = granted \cup {block[t]}
      /\ UNCHANGED <<used, forced>>
  BY DEF Grant, Return, Call
<1>2. OnLedger' = OnLedger
  BY <1>1 DEF OnLedger, Held, Pending, TypeInv, TypeOK
<1>3. Winning' \subseteq Winning
  BY <1>1 DEF Winning, Fits, TypeInv, TypeOK
<1>4. WholeRelease'
  BY <1>1 DEF Honest, WholeRelease, TypeInv, TypeOK
<1> QED
  BY <1>1, <1>2, <1>3, <1>4, StaysOnLedger, NoNewWinner DEF Honest

LEMMA RefuseHonest ==
  ASSUME TypeInv, Honest, NEW t \in Threads, Refuse(t)
  PROVE  Honest'
<1>1. /\ pc[t] = "compare" /\ pc' = [pc EXCEPT ![t] = "undo"]
      /\ UNCHANGED <<used, granted, forced, block, seen>>
  BY DEF Refuse
<1>2. OnLedger' = OnLedger
  BY <1>1 DEF OnLedger, Held, Pending, TypeInv, TypeOK
<1>3. Winning' \subseteq Winning
  BY <1>1 DEF Winning, Fits, TypeInv, TypeOK
<1>4. WholeRelease'
  BY <1>1 DEF Honest, WholeRelease, TypeInv, TypeOK
<1> QED
  BY <1>1, <1>2, <1>3, <1>4, StaysOnLedger, NoNewWinner DEF Honest

\* A call that returns without granting takes its block off the ledger.
LEMMA ReturnLeaves ==
  ASSUME TypeInv, NEW t \in Threads, pc[t] # "idle", Return(t),
         UNCHANGED <<granted, forced>>
  PROVE  /\ block[t] \in OnLedger
         /\ OnLedger' = OnLedger \ {block[t]}
         /\ Winning' \subseteq Winning
         /\ WholeRelease => WholeRelease'
<1>1. /\ pc' = [pc EXCEPT ![t] = "idle"]
      /\ block' = [block EXCEPT ![t] = NoBlock] /\ seen' = [seen EXCEPT ![t] = 0]
  BY DEF Return, Call
<1>2. \A u \in Threads : u # t /\ pc[u] # "idle" => block[u] # block[t]
  BY DEF TypeInv, Placed
<1>3. block[t] \in OnLedger /\ block[t] \notin Held
  BY DEF OnLedger, Pending, TypeInv, Placed, Held
<1>4. OnLedger' = OnLedger \ {block[t]}
  BY <1>1, <1>2, <1>3 DEF OnLedger, Held, Pending, TypeInv, TypeOK
<1>5. Winning' \subseteq Winning
  BY <1>1 DEF Winning, Fits, TypeInv, TypeOK
<1>6. WholeRelease => WholeRelease'
  BY <1>1 DEF WholeRelease, TypeInv, TypeOK
<1> QED
  BY <1>3, <1>4, <1>5, <1>6

LEMMA UndoHonest ==
  ASSUME TypeInv, Honest, NEW t \in Threads, Undo(t)
  PROVE  Honest'
<1>1. /\ pc[t] # "idle" /\ Return(t) /\ UNCHANGED <<granted, forced>>
      /\ used' = used - Size[block[t]]
  BY DEF Undo
<1> QED
  BY <1>1, ReturnLeaves, LeavesLedger, NoNewWinner DEF Honest

LEMMA FreeSubHonest ==
  ASSUME TypeInv, Honest, NEW t \in Threads, FreeSub(t)
  PROVE  Honest'
<1>1. /\ pc[t] # "idle" /\ Return(t) /\ UNCHANGED <<granted, forced>>
      /\ used' = used - Size[block[t]]
  BY DEF FreeSub, Honest, WholeRelease
<1> QED
  BY <1>1, ReturnLeaves, LeavesLedger, NoNewWinner DEF Honest

LEMMA ForceAllocHonest ==
  ASSUME TypeInv, Honest, NEW t \in Threads, NEW b \in Blocks, ForceAlloc(t, b)
  PROVE  Honest'
<1>1. /\ used' = used + Size[b] /\ forced' = forced \cup {b}
      /\ UNCHANGED <<granted, pc, block, seen>>
  BY DEF ForceAlloc
<1>2. b \in Blocks \ OnLedger
  BY DEF ForceAlloc, MayAsk, OnLedger, Pending, TypeInv, Placed
<1>3. OnLedger' = OnLedger \cup {b}
  BY <1>1 DEF OnLedger, Held, Pending
<1>4. Winning' \subseteq Winning /\ WholeRelease'
  BY <1>1 DEF Honest, Winning, Fits, WholeRelease
<1> QED
  BY <1>1, <1>2, <1>3, <1>4, EntersLedger, NoNewWinner DEF Honest

\* What is held is on the ledger in full, so a release finds its bytes there.
LEMMA HeldIsCounted ==
  ASSUME TypeInv, Honest, NEW b \in Held
  PROVE  Bounded(Size[b]) = Size[b]
<1>1. {b} \in SUBSET OnLedger /\ b \in Blocks
  BY SetsOnLedger
<1>2. Weight({b}) <= Weight(OnLedger)
  BY <1>1, SetsOnLedger, PartWeighsLess
<1>3. Weight({b}) = Weight({b} \ {b}) + Size[b]
  <2>1. {b} \in SUBSET Blocks /\ {b} \ {b} \in SUBSET Blocks
    BY <1>1
  <2>2. Weight({b} \ {b}) = Weight({b}) - Size[b]
    BY <2>1, RemoveBlock
  <2> QED
    BY <1>1, <2>1, <2>2, WeightType, SizeType
<1>4. Weight({b} \ {b}) \in Nat /\ Weight(OnLedger) \in Nat /\ Size[b] \in Nat
  BY <1>1, SetsOnLedger, WeightType, SizeType
<1>5. used = Weight(OnLedger)
  BY DEF Honest, Ledger, OnLedger
<1> QED
  BY <1>2, <1>3, <1>4, <1>5 DEF Bounded

LEMMA FreeLoadHonest ==
  ASSUME TypeInv, Honest, FreesSpilled = FALSE,
         NEW t \in Threads, NEW b \in Blocks, FreeLoad(t, b)
  PROVE  Honest'
<1>1. b \in Held
  BY DEF FreeLoad, Releasable
<1>2. /\ pc[t] = "idle" /\ pc' = [pc EXCEPT ![t] = "sub"]
      /\ block' = [block EXCEPT ![t] = b] /\ seen' = [seen EXCEPT ![t] = Size[b]]
      /\ granted' = granted \ {b} /\ forced' = forced \ {b}
      /\ used' = used
  BY <1>1, HeldIsCounted DEF FreeLoad, Call
<1>3. OnLedger' = OnLedger
  BY <1>1, <1>2 DEF OnLedger, Held, Pending, TypeInv, TypeOK
<1>4. Winning' \subseteq Winning
  BY <1>2 DEF Winning, Fits, TypeInv, TypeOK
<1>5. WholeRelease'
  BY <1>2 DEF Honest, WholeRelease, TypeInv, TypeOK
<1> QED
  BY <1>2, <1>3, <1>4, <1>5, StaysOnLedger, NoNewWinner DEF Honest

LEMMA NothingHonest ==
  ASSUME TypeInv, Honest, UNCHANGED <<used, granted, forced, pc, block, seen>>
  PROVE  Honest'
BY DEF Honest, WholeRelease, Ledger, Winning, Fits, Held, Pending, Weight

-----------------------------------------------------------------------------
(* The invariant and what follows from it *)

LEMMA HonestInit == Init => Honest
<1> SUFFICES ASSUME Init
             PROVE  Honest
  OBVIOUS
<1>1. Held \cup Pending = {} /\ Winning = {} /\ WholeRelease
  BY DEF Init, Held, Pending, Winning, WholeRelease
<1>2. Weight({}) = 0
  <2>1. Bytes({}, Size, MaxSize) = {}
    BY DEF Bytes
  <2> QED
    BY <2>1, FS_EmptySet DEF Weight, Footprint
<1>3. used = 0 /\ Budget \in Nat
  BY SizeType DEF Init
<1>4. Weight(Held \cup Pending) = 0 /\ Weight(Winning) = 0
  BY <1>1, <1>2, Zenon
<1> QED
  BY <1>1, <1>3, <1>4 DEF Honest, Ledger

LEMMA HonestStep ==
  ASSUME FreesSpilled = FALSE
  PROVE  TypeInv /\ Honest /\ [Next]_vars => Honest'
<1> SUFFICES ASSUME TypeInv, Honest, [Next]_vars
             PROVE  Honest'
  OBVIOUS
<1>1. CASE UNCHANGED vars
  BY <1>1, NothingHonest DEF vars
<1>2. ASSUME NEW t \in Threads, NEW b \in Blocks, Discard(t, b)
      PROVE  Honest'
  BY <1>2, NothingHonest DEF Discard
<1> QED
  BY <1>1, <1>2, TryAddHonest, ForceAllocHonest, FreeLoadHonest, GrantHonest,
     RefuseHonest, UndoHonest, FreeSubHonest DEF Next, Step

LEMMA HonestCorrect ==
  ASSUME FreesSpilled = FALSE
  PROVE  Spec => []Honest
<1>1. TypeInv /\ Honest /\ [Next]_vars => Honest'
  BY HonestStep
<1> QED
  BY <1>1, HonestInit, TypeCorrect, PTL DEF Spec

\* Callers that free only what they were granted never hold more than the budget
\* of what try_alloc agreed to, for any number of threads and any interleaving.
THEOREM GuardGrantsFit ==
  ASSUME FreesSpilled = FALSE
  PROVE  Spec => []GrantsFit
<1>1. TypeInv /\ Honest => GrantsFit
  <2> SUFFICES ASSUME TypeInv, Honest
               PROVE  GrantsFit
    OBVIOUS
  <2>1. Weight(granted) <= Weight(Winning) /\ Weight(Winning) <= Budget
    BY SetsOnLedger, PartWeighsLess DEF Honest
  <2>2. Weight(granted) \in Nat /\ Weight(Winning) \in Nat /\ Budget \in Nat
    BY SetsOnLedger, WeightType, SizeType
  <2> QED
    BY <2>1, <2>2 DEF GrantsFit
<1> QED
  BY <1>1, TypeCorrect, HonestCorrect, PTL

\* Their ledger covers all the memory they hold, in the middle of calls too.
THEOREM GuardUsedCoversHeld ==
  ASSUME FreesSpilled = FALSE
  PROVE  Spec => []UsedCoversHeld
<1>1. TypeInv /\ Honest => UsedCoversHeld
  <2> SUFFICES ASSUME TypeInv, Honest
               PROVE  UsedCoversHeld
    OBVIOUS
  <2>1. Weight(Held) <= Weight(OnLedger) /\ used = Weight(OnLedger)
    BY SetsOnLedger, PartWeighsLess DEF Honest, Ledger, OnLedger
  <2>2. Weight(Held) \in Nat /\ Weight(OnLedger) \in Nat
    BY SetsOnLedger, WeightType
  <2> QED
    BY <2>1, <2>2 DEF UsedCoversHeld
<1> QED
  BY <1>1, TypeCorrect, HonestCorrect, PTL

\* It is exact whenever no call is in progress: the races inside try_alloc and free
\* never lose or leak a byte.
THEOREM GuardUsedIsHeld ==
  ASSUME FreesSpilled = FALSE
  PROVE  Spec => []UsedIsHeld
<1>1. Honest => UsedIsHeld
  <2> SUFFICES ASSUME Honest, Quiet
               PROVE  used = Weight(Held)
    BY DEF UsedIsHeld
  <2>1. Held \cup Pending = Held
    BY DEF Quiet, Pending
  <2> QED
    BY <2>1 DEF Honest, Ledger
<1> QED
  BY <1>1, HonestCorrect, PTL

\* The invariant that carries the proofs, in the form the runs check.
THEOREM GuardInvariant == Spec => []GuardInv
<1>1. CASE FreesSpilled = FALSE
  <2>1. TypeInv /\ Honest => GuardInv
    BY DEF TypeInv, Honest, GuardInv
  <2> QED
    BY <1>1, <2>1, TypeCorrect, HonestCorrect, PTL
<1>2. CASE FreesSpilled = TRUE
  <2>1. TypeInv => GuardInv
    BY <1>2 DEF TypeInv, GuardInv
  <2> QED
    BY <2>1, TypeCorrect, PTL
<1> QED
  BY <1>1, <1>2, GuardAssumption

-----------------------------------------------------------------------------
(* HUIM-MMU: what a database that has only some of the transactions says of the whole *)

\* One database has some of the transactions of the other, and nothing in the others.
Part(d, whole) ==
  /\ d \in Databases /\ whole \in Databases
  /\ \A t \in Tids : d[t] = whole[t] \/ \A x \in Items : d[t][x] = 0

LEMMA PartUtility ==
  ASSUME NEW d, NEW whole, Part(d, whole), NEW S \in (SUBSET Items) \ {{}}
  PROVE  /\ Supporting(d, S) \in SUBSET Supporting(whole, S)
         /\ Utility(d, S) \in Nat /\ Utility(whole, S) \in Nat
         /\ Utility(d, S) <= Utility(whole, S)
<1> DEFINE part == [t \in Tids |-> ItemSum(S, d[t])]
           all == [t \in Tids |-> ItemSum(S, whole[t])]
<1>1. d \in Databases /\ whole \in Databases
  BY DEF Part
<1>2. ASSUME NEW t \in Supporting(d, S)
      PROVE  t \in Tids /\ d[t] = whole[t] /\ t \in Supporting(whole, S)
  <2>1. t \in Tids /\ HasAll(d, t, S)
    BY <1>2 DEF Supporting
  <2>2. PICK x \in S : x \in Items
    OBVIOUS
  <2>3. d[t][x] > 0
    BY <2>1, <2>2 DEF HasAll
  <2>4. d[t] = whole[t]
    BY <2>1, <2>2, <2>3 DEF Part
  <2> QED
    BY <2>1, <2>4 DEF Supporting, HasAll
<1>3. /\ Supporting(d, S) \in SUBSET Supporting(whole, S)
      /\ Supporting(d, S) \in SUBSET Tids /\ Supporting(whole, S) \in SUBSET Tids
      /\ IsFiniteSet(Supporting(d, S)) /\ IsFiniteSet(Supporting(whole, S))
  BY <1>1, <1>2, SupportingTids
<1>4. \A t \in Supporting(d, S) : part[t] \in Nat /\ all[t] \in Nat /\ part[t] <= all[t]
  <2> TAKE t \in Supporting(d, S)
  <2>1. t \in Tids /\ d[t] = whole[t]
    BY <1>2
  <2>2. ItemSum(S, d[t]) \in Nat
    BY <1>1, <2>1, ItemSums
  <2> QED
    BY <2>1, <2>2
<1> HIDE DEF part, all
<1>5. Footprint(Supporting(d, S), part, TidMax) <= Footprint(Supporting(whole, S), all, TidMax)
  BY <1>3, <1>4, TidMaxType, FootprintCovered
<1>6. /\ Footprint(Supporting(d, S), part, TidMax) \in Nat
      /\ Footprint(Supporting(whole, S), all, TidMax) \in Nat
  BY <1>3, TidMaxType, BytesFinite
<1> QED
  BY <1>3, <1>5, <1>6 DEF Utility, TidSum, TidMax, part, all

\* A file of transactions of the stream, and a file of some of those.
LEMMA WrittenPart ==
  ASSUME db \in Databases, NEW w, NEW more, \A i \in DOMAIN w : \E k \in DOMAIN more : more[k] = w[i]
  PROVE  Part(Written(w), Written(more)) /\ Part(Written(w), db)
<1>1. \A v : Written(v) \in Databases
  <2> TAKE v
  <2>1. \A t \in Tids : db[t] \in [Items -> 0..MaxUtility]
    BY DEF Databases
  <2>2. [x \in Items |-> 0] \in [Items -> 0..MaxUtility]
    BY Constants
  <2> QED
    BY <2>1, <2>2 DEF Written, Databases
<1>2. ASSUME NEW v, NEW t \in Tids
      PROVE  Written(v)[t] = IF \E i \in DOMAIN v : v[i] = t THEN db[t] ELSE [x \in Items |-> 0]
  BY DEF Written
<1>3. Part(Written(w), db)
  <2>1. \A t \in Tids : Written(w)[t] = db[t] \/ Written(w)[t] = [x \in Items |-> 0]
    BY <1>2
  <2> QED
    BY <1>1, <2>1 DEF Part
<1>4. Part(Written(w), Written(more))
  <2>1. ASSUME NEW t \in Tids
        PROVE  Written(w)[t] = Written(more)[t] \/ Written(w)[t] = [x \in Items |-> 0]
    <3>1. CASE \E i \in DOMAIN w : w[i] = t
      <4>1. \E k \in DOMAIN more : more[k] = t
        BY <3>1
      <4> QED
        BY <3>1, <4>1, <1>2
    <3>2. CASE ~ \E i \in DOMAIN w : w[i] = t
      BY <3>2, <1>2
    <3> QED
      BY <3>1, <3>2
  <2> QED
    BY <1>1, <2>1 DEF Part
<1> QED
  BY <1>3, <1>4

\* What is found in a stretch is found in every window around it, with no less utility.
LEMMA WindowFindsMore ==
  ASSUME db \in Databases, minUtility \in Int, NEW w, NEW more,
         \A i \in DOMAIN w : \E k \in DOMAIN more : more[k] = w[i],
         NEW e \in FhmResults(w)
  PROVE  \E f \in FhmResults(more) : f.itemset = e.itemset /\ f.utility >= e.utility
<1>1. PICK S \in (SUBSET Items) \ {{}} :
        /\ Supporting(Written(w), S) # {} /\ Utility(Written(w), S) >= minUtility
        /\ e = [itemset |-> S, utility |-> Utility(Written(w), S)]
  BY DEF FhmResults
<1>2. Part(Written(w), Written(more))
  BY WrittenPart
<1> DEFINE one == Written(w)
           other == Written(more)
<1> HIDE DEF one, other
<1>3. /\ Supporting(one, S) \in SUBSET Supporting(other, S)
      /\ Utility(one, S) \in Nat /\ Utility(other, S) \in Nat
      /\ Utility(one, S) <= Utility(other, S)
  BY <1>2, PartUtility DEF one, other
<1>4. Supporting(other, S) # {} /\ Utility(other, S) >= minUtility
  BY <1>1, <1>3 DEF one
<1>5. [itemset |-> S, utility |-> Utility(Written(more), S)] \in FhmResults(more)
  BY <1>4 DEF FhmResults, other
<1> QED
  BY <1>1, <1>3, <1>5 DEF one, other

\* What is found in a window is sound for the stream.
LEMMA WindowSound ==
  ASSUME db \in Databases, minUtility \in Int, NEW w, NEW e \in FhmResults(w)
  PROVE  /\ e.itemset \in SUBSET Items
         /\ minUtility <= e.utility /\ e.utility <= Utility(db, e.itemset)
<1>1. PICK S \in (SUBSET Items) \ {{}} :
        /\ Utility(Written(w), S) >= minUtility
        /\ e = [itemset |-> S, utility |-> Utility(Written(w), S)]
  BY DEF FhmResults
<1>2. Part(Written(w), db)
  BY WrittenPart
<1> DEFINE one == Written(w)
<1> HIDE DEF one
<1>3. Utility(one, S) \in Nat /\ Utility(one, S) <= Utility(db, S)
  BY <1>2, PartUtility DEF one
<1> QED
  BY <1>1, <1>3 DEF one

-----------------------------------------------------------------------------
(* HUIM-MMU: what the windows leave behind *)

First == next - Len(window)
Stretch(i) == [k \in 1..Overlap + 1 |-> i + k - 1]
FoundIn(w) == \A e \in FhmResults(w) : \E f \in output : f.itemset = e.itemset /\ f.utility >= e.utility
Unharmed == lost = 0 /\ ~curtailed

\* The window is the transactions up to the next one to read.
WindowRight ==
  /\ window \in Seq(Nat) /\ Len(window) <= next /\ Len(window) <= WindowSize
  /\ \A k \in 1..Len(window) : window[k] = First + k - 1

StreamTypes ==
  /\ db \in Databases /\ minUtility \in Int /\ good \in Nat /\ next \in 0..good /\ pairs \in Nat
  /\ spoiled \in Nat /\ lost \in Nat /\ (torn => spoiled > 0)

\* Every stretch that the window has left behind has been mined; in the end, all have.
LeftMined == Unharmed => \A i \in 0..First - 1 : FoundIn(Stretch(i))
AllMined ==
  outcome = "ok" /\ Unharmed => \A i \in 0..good - 1 : i + Overlap < good => FoundIn(Stretch(i))

StreamInv == StreamTypes /\ WindowRight /\ OutputSound /\ LeftMined /\ AllMined

LEMMA OverlapType ==
  /\ Overlap \in Nat /\ WindowSize \div 2 \in Nat /\ WindowSize \in Nat
  /\ Overlap = WindowSize - WindowSize \div 2
  /\ Overlap < WindowSize /\ WindowSize \div 2 >= 1
  BY StreamAssumption DEF Overlap

LEMMA StreamInitInv == StreamInit => StreamInv
<1> SUFFICES ASSUME StreamInit
             PROVE  StreamInv
  OBVIOUS
<1>1. StreamTypes
  <2>1. Cardinality(Tids) \in Nat
    BY Constants, FS_CardinalityType
  <2> QED
    BY <2>1, StreamAssumption DEF StreamInit, StreamTypes
<1>2. WindowRight /\ First = 0
  <2>1. window \in Seq(Nat) /\ Len(window) = 0 /\ next = 0
    BY DEF StreamInit
  <2> QED
    BY <2>1, OverlapType DEF WindowRight, First
<1> QED
  BY <1>1, <1>2 DEF StreamInit, StreamInv, OutputSound, LeftMined, AllMined

\* There are no more results than itemsets.
LEMMA ResultsCounted ==
  ASSUME NEW w, NEW found \in SUBSET FhmResults(w)
  PROVE  Cardinality(found) \in Nat
<1> DEFINE f == [S \in SUBSET Items |-> [itemset |-> S, utility |-> Utility(Written(w), S)]]
           T == {f[S] : S \in SUBSET Items}
<1>1. IsFiniteSet(SUBSET Items)
  BY Constants, FS_SUBSET
<1>2. f \in Surjection(SUBSET Items, T)
  BY DEF Surjection
<1>3. IsFiniteSet(T)
  BY <1>1, <1>2, FS_Surjection
<1>4. FhmResults(w) \subseteq T
  BY DEF FhmResults
<1> HIDE DEF T
<1>5. found \subseteq T
  BY <1>4
<1> QED
  BY <1>3, <1>5, FS_Subset, FS_CardinalityType

\* What is copied is of the window, and all of it if no write fails; a line is spoiled only
\* by a write that fails.
LEMMA CopyAdds ==
  ASSUME StreamInv, NEW found \in SUBSET FhmResults(window), Copy(found)
  PROVE  /\ output \subseteq output' /\ output' \subseteq output \cup found
         /\ spoiled' \in Nat /\ lost' \in Nat /\ spoiled' <= lost' /\ lost <= lost'
         /\ torn' => torn \/ spoiled' > spoiled
         /\ lost' = lost /\ ~torn => output' = output \cup found
<1>1. PICK n \in 0..Cardinality(found) + 1, first \in Swallowed(found) :
        \E part \in SUBSET (found \ first) :
          /\ output' = output \cup part
          /\ spoiled' \in spoiled..spoiled + n
          /\ lost' = lost + n
          /\ torn' => spoiled' > spoiled \/ (torn /\ part = {})
          /\ n = 0 => part = found \ first
  BY DEF Copy
<1>2. Cardinality(found) \in Nat /\ spoiled \in Nat /\ lost \in Nat /\ spoiled <= lost
  BY ResultsCounted DEF StreamInv, StreamTypes, OutputSound
<1>3. n \in Nat
  BY <1>1, <1>2
<1>4. spoiled' \in Nat /\ spoiled' <= spoiled + n /\ lost' = lost + n
  BY <1>1, <1>2, <1>3
<1>5. spoiled' \in Nat /\ lost' \in Nat /\ spoiled' <= lost' /\ lost <= lost' /\ (lost' = lost => n = 0)
  BY <1>2, <1>3, <1>4
<1>6. ~torn => first = {}
  BY <1>1 DEF Swallowed
<1>7. torn' => torn \/ spoiled' > spoiled
  BY <1>1
<1>8. output \subseteq output' /\ output' \subseteq output \cup found
  BY <1>1
<1>9. lost' = lost /\ ~torn => output' = output \cup found
  BY <1>1, <1>5, <1>6
<1> QED
  BY <1>5, <1>7, <1>8, <1>9

\* Mining adds to the output, and soundly; unless harm is done, it adds all of the window.
LEMMA MineAdds ==
  ASSUME StreamInv, UNCHANGED stream, NEW found \in SUBSET FhmResults(window), Mine(found)
  PROVE  /\ output \subseteq output' /\ OutputSound' /\ pairs' \in Nat
         /\ spoiled' \in Nat /\ lost' \in Nat /\ (torn' => spoiled' > 0)
         /\ Unharmed' => Unharmed /\ FhmResults(window) \subseteq output'
<1> DEFINE wanted == pairs + Cardinality(PairsIn(window))
<1>1. wanted \in Nat /\ PairRoom \in Nat
  <2>1. IsFiniteSet(SUBSET Items)
    BY Constants, FS_SUBSET
  <2>2. PairsIn(window) \in SUBSET SUBSET Items
    BY DEF PairsIn, TwuFilter
  <2>3. Cardinality(PairsIn(window)) \in Nat
    BY <2>1, <2>2, FS_Subset, FS_CardinalityType
  <2> QED
    BY <2>3, StreamAssumption DEF StreamInv, StreamTypes
<1>2. /\ pairs' = IF wanted > PairRoom THEN PairRoom ELSE wanted
      /\ curtailed' = (curtailed \/ wanted > PairRoom)
      /\ wanted <= PairRoom => found = FhmResults(window)
      /\ Copy(found)
  BY DEF Mine
<1> HIDE DEF wanted
<1>3. output \subseteq output' /\ output' \subseteq output \cup FhmResults(window)
  BY <1>2, CopyAdds
<1>0. /\ spoiled' \in Nat /\ lost' \in Nat /\ spoiled' <= lost' /\ lost <= lost'
      /\ torn' => spoiled' > 0
      /\ lost' = lost /\ ~torn => output' = output \cup found
  <2>1. spoiled \in Nat /\ (torn => spoiled > 0)
    BY DEF StreamInv, StreamTypes
  <2>2. PICK k \in Nat : spoiled' = spoiled + k
    BY <1>2, <2>1, ResultsCounted DEF Copy
  <2> QED
    BY <1>2, <2>1, <2>2, CopyAdds
<1>4. db' = db /\ minUtility' = minUtility /\ db \in Databases /\ minUtility \in Int
  BY DEF stream, StreamInv, StreamTypes
<1>5. ASSUME NEW e \in output'
      PROVE  minUtility <= e.utility /\ e.utility <= Utility(db, e.itemset)
  <2>1. CASE e \in output
    BY <2>1 DEF StreamInv, OutputSound
  <2>2. CASE e \in FhmResults(window)
    BY <2>2, <1>4, WindowSound
  <2> QED
    BY <1>3, <2>1, <2>2
<1>6. OutputSound'
  BY <1>0, <1>4, <1>5 DEF OutputSound
<1>7. ASSUME Unharmed'
      PROVE  Unharmed /\ FhmResults(window) \subseteq output'
  <2>1. lost' = 0 /\ lost = 0 /\ ~curtailed'
    BY <1>0, <1>7 DEF Unharmed, StreamInv, StreamTypes
  <2>2. ~curtailed /\ ~(wanted > PairRoom)
    BY <1>2, <2>1, Zenon
  <2>3. output' = output \cup found
    <3>1. spoiled = 0 /\ ~torn
      BY <2>1 DEF StreamInv, StreamTypes, OutputSound
    <3> QED
      BY <1>0, <2>1, <3>1
  <2>4. found = FhmResults(window)
    BY <1>1, <1>2, <2>2
  <2> QED
    BY <2>1, <2>2, <2>3, <2>4, Zenon DEF Unharmed
<1> QED
  BY <1>0, <1>1, <1>2, <1>3, <1>6, <1>7

\* What has been found stays found.
LEMMA StaysFound ==
  ASSUME UNCHANGED stream, output \subseteq output'
  PROVE  /\ \A w : FhmResults(w)' = FhmResults(w)
         /\ \A i : FoundIn(Stretch(i)) => FoundIn(Stretch(i))'
<1>1. \A w : FhmResults(w)' = FhmResults(w)
  BY DEF stream, FhmResults, Written
<1>2. \A i : Stretch(i)' = Stretch(i)
  BY DEF Stretch, Overlap
<1> QED
  BY <1>1, <1>2 DEF FoundIn

\* The whole window is mined: every stretch that it holds is found.
LEMMA WindowMined ==
  ASSUME StreamInv, UNCHANGED stream, output \subseteq output', FhmResults(window) \subseteq output',
         NEW i \in Nat, First <= i, i + Overlap < next
  PROVE  FoundIn(Stretch(i))'
<1>1. /\ window \in Seq(Nat) /\ Len(window) <= next /\ next \in Nat /\ Len(window) \in Nat
      /\ \A k \in 1..Len(window) : window[k] = First + k - 1
      /\ db \in Databases /\ minUtility \in Int
  BY DEF StreamInv, StreamTypes, WindowRight
<1>2. \A k \in DOMAIN Stretch(i) : \E m \in DOMAIN window : window[m] = Stretch(i)[k]
  <2> TAKE k \in DOMAIN Stretch(i)
  <2>1. k \in 1..Overlap + 1 /\ Stretch(i)[k] = i + k - 1
    BY DEF Stretch
  <2>2. i + k - First \in 1..Len(window)
    BY <1>1, <2>1, OverlapType DEF First
  <2>3. window[i + k - First] = i + k - 1
    BY <1>1, <2>1, <2>2, OverlapType DEF First
  <2>4. DOMAIN window = 1..Len(window)
    BY <1>1
  <2> QED
    BY <2>1, <2>2, <2>3, <2>4
<1> DEFINE w == Stretch(i)
<1>3. \A e \in FhmResults(w) : \E f \in FhmResults(window) : f.itemset = e.itemset /\ f.utility >= e.utility
  <2> HIDE DEF w
  <2>1. \A k \in DOMAIN w : \E m \in DOMAIN window : window[m] = w[k]
    BY <1>2 DEF w
  <2> QED
    BY <1>1, <2>1, WindowFindsMore
<1>4. FhmResults(w)' = FhmResults(w)
  <2>1. w' = w
    BY DEF Stretch, Overlap
  <2> QED
    BY <2>1 DEF stream, FhmResults, Written
<1> QED
  BY <1>3, <1>4 DEF FoundIn

LEMMA ReadKeeps ==
  ASSUME StreamInv, Read
  PROVE  StreamInv'
<1>1. /\ UNCHANGED stream /\ output' = output /\ lost' = lost /\ curtailed' = curtailed
      /\ spoiled' = spoiled /\ torn' = torn
      /\ pairs' = pairs /\ outcome = "running" /\ outcome' = "running"
      /\ db' = db /\ minUtility' = minUtility /\ good' = good
      /\ next < good /\ Len(window) < WindowSize /\ window' = Append(window, next) /\ next' = next + 1
  BY DEF Read, stream, copied
<1>2. StreamTypes'
  BY <1>1 DEF StreamInv, StreamTypes
<1>3. WindowRight' /\ First' = First /\ First \in Nat
  <2>1. /\ window \in Seq(Nat) /\ next \in Nat /\ Len(window) \in Nat /\ Len(window) <= next
        /\ \A k \in 1..Len(window) : window[k] = First + k - 1
    BY DEF StreamInv, StreamTypes, WindowRight
  <2>2. window' \in Seq(Nat) /\ Len(window') = Len(window) + 1
    BY <1>1, <2>1
  <2>3. First' = First /\ First \in Nat /\ next = First + Len(window)
    BY <1>1, <2>1, <2>2 DEF First
  <2>4. \A k \in 1..Len(window') : window'[k] = First + k - 1
    <3> TAKE k \in 1..Len(window')
    <3>1. CASE k \in 1..Len(window)
      BY <1>1, <2>1, <3>1
    <3>2. CASE k = Len(window) + 1
      BY <1>1, <2>1, <2>3, <3>2
    <3> QED
      BY <2>1, <2>2, <3>1, <3>2
  <2> QED
    BY <1>1, <2>1, <2>2, <2>3, <2>4, OverlapType DEF WindowRight
<1>4. OutputSound'
  BY <1>1 DEF StreamInv, OutputSound
<1>5. LeftMined'
  BY <1>1, <1>3, StaysFound DEF StreamInv, LeftMined, Unharmed
<1> QED
  BY <1>1, <1>2, <1>3, <1>4, <1>5 DEF StreamInv, AllMined

\* The older half of a mined window is dropped.
LEMMA SlidRight ==
  ASSUME StreamInv, Len(window) = WindowSize, window' = Slid(window), next' = next
  PROVE  WindowRight' /\ First' = First + WindowSize \div 2 /\ First \in Nat
         /\ First + WindowSize = next
<1> DEFINE h == WindowSize \div 2
<1>1. /\ window \in Seq(Nat) /\ next \in Nat /\ WindowSize <= next
      /\ \A k \in 1..WindowSize : window[k] = First + k - 1
      /\ First = next - WindowSize
  BY DEF StreamInv, StreamTypes, WindowRight, First
<1>2. h \in Nat /\ WindowSize \in Nat /\ h < WindowSize /\ Overlap = WindowSize - h
  BY StreamAssumption DEF Overlap
<1>3. window' = SubSeq(window, h + 1, WindowSize)
  BY DEF Slid
<1> HIDE DEF h
<1>4. /\ window' \in Seq(Nat) /\ Len(window') = WindowSize - h
      /\ \A k \in 1..(WindowSize - h) : window'[k] = window[h + k]
  BY <1>1, <1>2, <1>3
<1>5. First' = First + h /\ First \in Nat
  BY <1>1, <1>2, <1>4 DEF First
<1>6. \A k \in 1..Len(window') : window'[k] = First' + k - 1
  BY <1>1, <1>2, <1>4, <1>5
<1> QED
  BY <1>1, <1>2, <1>4, <1>5, <1>6 DEF WindowRight, h

LEMMA SlideKeeps ==
  ASSUME StreamInv, Slide, NEW found \in SUBSET FhmResults(window), Mine(found),
         window' = Slid(window), outcome' = outcome
  PROVE  StreamInv'
<1>1. /\ UNCHANGED stream /\ next' = next /\ outcome = "running" /\ outcome' = "running"
      /\ db' = db /\ minUtility' = minUtility /\ good' = good /\ Len(window) = WindowSize
  BY DEF Slide, stream
<1>2. /\ output \subseteq output' /\ OutputSound' /\ pairs' \in Nat
      /\ spoiled' \in Nat /\ lost' \in Nat /\ (torn' => spoiled' > 0)
      /\ Unharmed' => Unharmed /\ FhmResults(window) \subseteq output'
  BY <1>1, MineAdds
<1>3. StreamTypes'
  BY <1>1, <1>2 DEF StreamInv, StreamTypes
<1>4. /\ WindowRight' /\ First' = First + WindowSize \div 2 /\ First \in Nat
      /\ First + WindowSize = next
  BY <1>1, SlidRight
<1>5. ASSUME Unharmed', NEW i \in 0..First' - 1
      PROVE  FoundIn(Stretch(i))'
  <2>1. CASE i \in 0..First - 1
    BY <1>1, <1>2, <1>5, <2>1, StaysFound DEF StreamInv, LeftMined
  <2>2. CASE i \notin 0..First - 1
    <3>1. i \in Nat /\ First <= i /\ i + Overlap < next
      BY <1>4, <2>2, OverlapType
    <3> QED
      BY <1>1, <1>2, <1>5, <3>1, WindowMined
  <2> QED
    BY <2>1, <2>2
<1>6. LeftMined'
  BY <1>5 DEF LeftMined
<1> QED
  BY <1>1, <1>2, <1>3, <1>4, <1>6 DEF StreamInv, AllMined

\* The rest is mined in the end.
LEMMA FinishKeeps ==
  ASSUME StreamInv, Finish, outcome' = "ok", window' = window,
         NEW found \in SUBSET FhmResults(window), Mine(found)
  PROVE  StreamInv'
<1>1. /\ UNCHANGED stream /\ next' = next /\ next = good
      /\ db' = db /\ minUtility' = minUtility /\ good' = good
  BY DEF Finish, stream
<1>2. /\ output \subseteq output' /\ OutputSound' /\ pairs' \in Nat
      /\ spoiled' \in Nat /\ lost' \in Nat /\ (torn' => spoiled' > 0)
      /\ Unharmed' => Unharmed /\ FhmResults(window) \subseteq output'
  BY <1>1, MineAdds
<1>3. StreamTypes' /\ WindowRight' /\ First' = First
  BY <1>1, <1>2 DEF StreamInv, StreamTypes, WindowRight, First
<1>4. First \in Int /\ good \in Nat
  BY DEF StreamInv, StreamTypes, WindowRight, First
<1>5. ASSUME Unharmed'
      PROVE  \A i \in 0..First - 1 : FoundIn(Stretch(i))'
  BY <1>1, <1>2, <1>5, StaysFound DEF StreamInv, LeftMined
<1>6. LeftMined'
  BY <1>3, <1>5 DEF LeftMined
<1>7. ASSUME Unharmed', NEW i \in 0..good - 1, i + Overlap < good
      PROVE  FoundIn(Stretch(i))'
  <2>1. CASE i \in 0..First - 1
    BY <1>5, <1>7, <2>1
  <2>2. CASE i \notin 0..First - 1
    <3>1. i \in Nat /\ First <= i /\ i + Overlap < next
      BY <1>1, <1>4, <1>7, <2>2, OverlapType
    <3> QED
      BY <1>1, <1>2, <1>7, <3>1, WindowMined
  <2> QED
    BY <2>1, <2>2
<1>8. AllMined'
  <2>1. Overlap' = Overlap
    BY DEF Overlap
  <2> QED
    BY <1>1, <1>7, <2>1 DEF AllMined
<1> QED
  BY <1>2, <1>3, <1>6, <1>8 DEF StreamInv

\* Steps that mine nothing: the run ends with an error, or with an empty window.
LEMMA NothingMined ==
  ASSUME StreamInv, UNCHANGED <<stream, next, window, pairs, curtailed, copied>>,
         outcome' = "ok" => outcome = "ok" \/ (next = good /\ window = <<>>)
  PROVE  StreamInv'
<1>1. /\ db' = db /\ minUtility' = minUtility /\ good' = good /\ next' = next
      /\ window' = window /\ pairs' = pairs /\ curtailed' = curtailed /\ lost' = lost
      /\ output' = output /\ spoiled' = spoiled /\ torn' = torn
  BY DEF stream, copied
<1>2. StreamTypes' /\ WindowRight' /\ OutputSound' /\ First' = First /\ Unharmed' = Unharmed
  BY <1>1 DEF StreamInv, StreamTypes, WindowRight, First, OutputSound, Unharmed
<1>3. \A i : FoundIn(Stretch(i)) => FoundIn(Stretch(i))'
  BY <1>1, StaysFound
<1>4. LeftMined'
  BY <1>2, <1>3 DEF StreamInv, LeftMined
<1>5. AllMined'
  <2>1. CASE outcome = "ok"
    <3>1. Overlap' = Overlap
      BY DEF Overlap
    <3> QED
      BY <1>1, <1>2, <1>3, <2>1, <3>1 DEF StreamInv, AllMined
  <2>2. CASE outcome' = "ok" /\ outcome # "ok"
    <3>1. First = good
      BY <2>2 DEF First, StreamInv, StreamTypes
    <3> QED
      BY <1>1, <1>2, <1>3, <3>1 DEF StreamInv, LeftMined, AllMined
  <2> QED
    BY <2>1, <2>2 DEF AllMined
<1> QED
  BY <1>2, <1>4, <1>5 DEF StreamInv

LEMMA StreamStep == StreamInv /\ [StreamNext]_streamVars => StreamInv'
<1> SUFFICES ASSUME StreamInv, [StreamNext]_streamVars
             PROVE  StreamInv'
  OBVIOUS
<1>1. CASE UNCHANGED streamVars
  <2>1. /\ UNCHANGED <<stream, next, window, pairs, curtailed, copied>> /\ outcome' = outcome
    BY <1>1 DEF streamVars
  <2> QED
    BY <2>1, NothingMined
<1>2. CASE Read
  BY <1>2, ReadKeeps
<1>3. CASE Slide
  <2>1. CASE /\ \E found \in SUBSET FhmResults(window) : Mine(found)
             /\ window' = Slid(window) /\ UNCHANGED outcome
    BY <1>3, <2>1, SlideKeeps
  <2>2. CASE Fails
    BY <1>3, <2>2, NothingMined DEF Slide, Fails
  <2> QED
    BY <1>3, <2>1, <2>2 DEF Slide
<1>4. CASE Finish
  <2>1. CASE /\ window = <<>> /\ outcome' = "ok"
             /\ UNCHANGED <<window, pairs, curtailed, copied, huis_found, total>>
    BY <1>4, <2>1, NothingMined DEF Finish
  <2>2. CASE /\ window # <<>>
             /\ \E found \in SUBSET FhmResults(window) : Mine(found)
             /\ outcome' = "ok" /\ UNCHANGED window
    BY <1>4, <2>2, FinishKeeps
  <2>3. CASE Fails
    BY <1>4, <2>3, NothingMined DEF Finish, Fails
  <2> QED
    BY <1>4, <2>1, <2>2, <2>3 DEF Finish
<1> QED
  BY <1>1, <1>2, <1>3, <1>4 DEF StreamNext

LEMMA StreamCorrect == StreamSpec => []StreamInv
  BY StreamInitInv, StreamStep, PTL DEF StreamSpec

\* A run of HUIM-MMU in which no write failed and no memory was refused has found every
\* itemset that reaches the threshold in a short stretch of the stream, wherever the
\* windows happen to begin and the stream to end.
THEOREM StreamStretchesMined == StreamSpec => []StretchesMined
<1>1. StreamInv => StretchesMined
  BY Zenon DEF StreamInv, AllMined, StretchesMined, Unharmed, FoundIn, Stretch
<1> QED
  BY <1>1, StreamCorrect, PTL

\* Whatever fails, all lines of HUIM-MMU's output but at most one for each write that failed
\* are of itemsets that reach the threshold, with no more than their utility in the whole
\* stream: a line cut by a failed copy spoils itself and what continues it, and no other.
THEOREM StreamOutputSound == StreamSpec => []OutputSound
<1>1. StreamInv => OutputSound
  BY DEF StreamInv
<1> QED
  BY <1>1, StreamCorrect, PTL
=============================================================================
