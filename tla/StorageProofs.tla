--------------------------- MODULE StorageProofs ----------------------------
(* Proofs about the clients of the chunk store: about BufferPool, for any threads, pages, *)
(* sizes and budgets, and about Chunker, for any transactions and page sizes.             *)
EXTENDS BufferPool, Chunker, FootprintProofs, WellFoundedInduction

\* The size of a page is a number of bytes up to MaxSize.
LEMMA SizeType ==
  /\ MaxSize \in Nat
  /\ \A p \in Pages : Size[p] \in 0..MaxSize /\ Size[p] \in Nat
  BY PoolAssumption

\* Every step keeps the types, the page of a call and the victim of an eviction.
LEMMA TypeStep == TypeInv /\ [Next]_vars => TypeInv'
<1> SUFFICES ASSUME TypeInv, [Next]_vars
             PROVE  TypeInv'
  OBVIOUS
<1> USE DEF TypeInv, TypeOK, Located, Calling, Evicting, Flushing, Labels, Contents,
        Pages, NoPage, poolVars, lruVars, clientVars, callVars, evictVars, guardVars
<1>1. CASE UNCHANGED vars
  BY <1>1 DEF vars
<1>2. ASSUME NEW t \in Threads, NEW p \in Pages, NEW kind \in PinKinds, PinHit(t, p, kind)
      PROVE  TypeInv'
  <2>1. pin_count' \in [Pages -> Nat]
    <3>1. pin_count' = [pin_count EXCEPT ![p] = pin_count[p] + 1]
      BY <1>2 DEF PinHit
    <3>2. pin_count \in [Pages -> Nat]
      OBVIOUS
    <3>3. pin_count[p] \in Nat
      BY <3>2
    <3> HIDE DEF Pages, TypeInv
    <3>4. pin_count[p] + 1 \in Nat
      BY <3>3
    <3> QED
      BY <3>1, <3>2, <3>4
  <2>2. tracked' \subseteq Pages /\ older' \subseteq Pages \X Pages
    BY <1>2, <2>1 DEF PinHit, PinKinds, Touch, Without
  <2>3. guard' \in [Threads -> Pages \cup {NoPage}] /\ writable' \in [Threads -> BOOLEAN]
    BY <1>2, <2>1, <2>2 DEF PinHit, PinKinds, Touch, Without
  <2>4. TypeOK'
    BY <1>2, <2>1, <2>2, <2>3 DEF PinHit, PinKinds, Touch, Without
  <2>5. Located'
    BY <1>2, <2>1, <2>2, <2>3, <2>4 DEF PinHit, PinKinds, Touch, Without
  <2> QED
    BY <1>2, <2>1, <2>2, <2>3, <2>4, <2>5 DEF PinHit, PinKinds, Touch, Without
<1>3. ASSUME NEW t \in Threads, NEW p \in Pages, NEW kind \in PinKinds, PinMiss(t, p, kind)
      PROVE  TypeInv'
  BY <1>3 DEF PinMiss, Goto, PinKinds
<1>4. ASSUME NEW t \in Threads, ReadOk(t)
      PROVE  TypeInv'
  BY <1>4 DEF ReadOk, Goto
<1>5. ASSUME NEW t \in Threads, ReadFails(t)
      PROVE  TypeInv'
  BY <1>5 DEF ReadFails, Goto, Return
<1>6. ASSUME NEW t \in Threads, NEW v \in Val, InsertBegin(t, v)
      PROVE  TypeInv'
  <2>1. next_id \in Pages /\ next_id' \in 1..(MaxPages + 1)
    BY PoolAssumption, <1>6 DEF InsertBegin, Goto
  <2>2. page' \in [Threads -> Pages \cup {NoPage}] /\ page'[t] \in Pages
    BY PoolAssumption, <1>6, <2>1 DEF InsertBegin, Goto
  <2>3. pc' \in [Threads -> Labels]
    BY PoolAssumption, <1>6, <2>1, <2>2 DEF InsertBegin, Goto
  <2>4. TypeOK'
    BY PoolAssumption, <1>6, <2>1, <2>2, <2>3 DEF InsertBegin, Goto
  <2>5. Located'
    BY PoolAssumption, <1>6, <2>1, <2>2, <2>3, <2>4 DEF InsertBegin, Goto
  <2> QED
    BY PoolAssumption, <1>6, <2>1, <2>2, <2>3, <2>4, <2>5 DEF InsertBegin, Goto
<1>7. ASSUME NEW t \in Threads, CheckRoom(t)
      PROVE  TypeInv'
  <2>1. pc' \in [Threads -> Labels] /\ unvisited' \in [Threads -> SUBSET Pages]
    <3>1. CASE HasRoom(t)
      <4>1. pc' = [pc EXCEPT ![t] = "charge"] /\ unvisited' = unvisited
        BY <1>7, <3>1 DEF CheckRoom, Goto
      <4> QED
        BY <4>1
    <3>2. CASE ~HasRoom(t)
      <4>1. pc' = [pc EXCEPT ![t] = "visit"] /\ unvisited' = [unvisited EXCEPT ![t] = Pages]
        BY <1>7, <3>2 DEF CheckRoom, Goto
      <4> QED
        BY <4>1
    <3> QED
      BY <3>1, <3>2
  <2>2. TypeOK'
    BY <1>7, <2>1 DEF CheckRoom, Goto
  <2>3. pc[t] = "room" /\ pc'[t] \notin Evicting
    BY <1>7 DEF CheckRoom, Goto
  <2>4. \A u \in Threads \ {t} : pc'[u] = pc[u]
    BY <1>7 DEF CheckRoom, Goto
  <2>5. UNCHANGED <<page, victim>>
    BY <1>7 DEF CheckRoom
  <2>6. Located'
    BY <2>3, <2>4, <2>5
  <2> QED
    BY <2>2, <2>6
<1>8. ASSUME NEW t \in Threads, Charge(t)
      PROVE  TypeInv'
  <2>1. page[t] \in Pages /\ Size[page[t]] \in Nat
    BY SizeType, <1>8 DEF Charge, Goto
  <2>2. used_bytes' \in Int
    BY PoolAssumption, <1>8, <2>1 DEF Charge, Goto
  <2>3. TypeOK'
    BY PoolAssumption, <1>8, <2>1, <2>2 DEF Charge, Goto
  <2>4. Located'
    BY PoolAssumption, <1>8, <2>1, <2>2, <2>3 DEF Charge, Goto
  <2> QED
    BY PoolAssumption, <1>8, <2>1, <2>2, <2>3, <2>4 DEF Charge, Goto
<1>9. ASSUME NEW t \in Threads, InsertFrame(t)
      PROVE  TypeInv'
  BY <1>9 DEF InsertFrame, Goto, DirtyOnInsert, GuardsWithout, PtrsWithout
<1>10. ASSUME NEW t \in Threads, OnInsert(t)
      PROVE  TypeInv'
  <2>1. page[t] \in Pages
    BY <1>10 DEF OnInsert, Return, Goto, Touch, Without
  <2>2. tracked' \subseteq Pages /\ older' \subseteq Pages \X Pages
    <3>1. tracked' = tracked \cup {page[t]}
      BY <1>10 DEF OnInsert, Touch
    <3>2. older' \subseteq older \cup {<<q, page[t]>> : q \in tracked}
      BY <1>10 DEF OnInsert, Touch, Without
    <3>3. {<<q, page[t]>> : q \in tracked} \subseteq Pages \X Pages
      BY <2>1
    <3> QED
      BY <2>1, <3>1, <3>2, <3>3
  <2>3. pc' \in [Threads -> Labels] /\ pc'[t] = "idle"
    BY <1>10, <2>1, <2>2 DEF OnInsert, Return, Goto, Touch, Without
  <2>4. TypeOK'
    BY <1>10, <2>1, <2>2, <2>3 DEF OnInsert, Return, Goto, Touch, Without
  <2>5. Located'
    BY <1>10, <2>1, <2>2, <2>3, <2>4 DEF OnInsert, Return, Goto, Touch, Without
  <2> QED
    BY <1>10, <2>1, <2>2, <2>3, <2>4, <2>5 DEF OnInsert, Return, Goto, Touch, Without
<1>11. ASSUME NEW t \in Threads, NEW p \in Pages, Visit(t, p)
      PROVE  TypeInv'
  <2>1. pc' \in [Threads -> Labels]
    <3>1. pc' = pc \/ pc' = [pc EXCEPT ![t] = "pick"]
      BY <1>11 DEF Visit, Goto
    <3> QED
      BY <3>1
  <2>2. unvisited' \in [Threads -> SUBSET Pages]
    BY <1>11, <2>1 DEF Visit, Goto
  <2>3. unpinned' \in [Threads -> SUBSET Pages]
    BY <1>11, <2>1, <2>2 DEF Visit, Goto
  <2>4. TypeOK'
    BY <1>11, <2>1, <2>2, <2>3 DEF Visit, Goto
  <2>5. Located'
    BY <1>11, <2>1, <2>2, <2>3, <2>4 DEF Visit, Goto
  <2> QED
    BY <1>11, <2>1, <2>2, <2>3, <2>4, <2>5 DEF Visit, Goto
<1>12. ASSUME NEW t \in Threads, NEW p \in Pages, PickVictim(t, p)
      PROVE  TypeInv'
  BY <1>12 DEF PickVictim, Goto, Candidates
<1>13. ASSUME NEW t \in Threads, PoolFull(t)
      PROVE  TypeInv'
  BY <1>13 DEF PoolFull, Goto, Return
<1>14. ASSUME NEW t \in Threads, FlushIsDirty(t)
      PROVE  TypeInv'
  BY <1>14 DEF FlushIsDirty, Goto
<1>15. ASSUME NEW t \in Threads, FlushPtr(t)
      PROVE  TypeInv'
  <2>1. victim[t] \in Pages
    BY <1>15 DEF FlushPtr, Goto
  <2>2. pc' \in [Threads -> Labels]
    <3>1. pc' = [pc EXCEPT ![t] = "create"] \/ pc' = [pc EXCEPT ![t] = "panicked"]
      BY <1>15 DEF FlushPtr, Goto
    <3> QED
      BY <3>1
  <2>3. ptr' \in [Threads -> {"none", "live", "freed"}] /\ image' \in [Threads -> Contents]
    <3>1. data[victim[t]] \in Contents
      BY <2>1
    <3>2. \/ UNCHANGED <<ptr, image>>
          \/ ptr' = [ptr EXCEPT ![t] = "live"] /\ image' = [image EXCEPT ![t] = data[victim[t]]]
      BY <1>15 DEF FlushPtr
    <3> QED
      BY <3>1, <3>2
  <2>4. TypeOK'
    BY <1>15, <2>1, <2>2, <2>3 DEF FlushPtr, Goto
  <2>5. Located'
    BY <1>15, <2>1, <2>2, <2>3, <2>4 DEF FlushPtr, Goto
  <2> QED
    BY <1>15, <2>1, <2>2, <2>3, <2>4, <2>5 DEF FlushPtr, Goto
<1>16. ASSUME NEW t \in Threads, FlushCreate(t)
      PROVE  TypeInv'
  <2>1. victim[t] \in Pages
    BY <1>16 DEF FlushCreate, Goto
  <2>2. pc' \in [Threads -> Labels]
    BY <1>16, <2>1 DEF FlushCreate, Goto
  <2>3. image' \in [Threads -> Contents]
    BY <1>16, <2>1, <2>2 DEF FlushCreate, Goto
  <2>4. TypeOK'
    BY <1>16, <2>1, <2>2, <2>3 DEF FlushCreate, Goto
  <2>5. Located'
    BY <1>16, <2>1, <2>2, <2>3, <2>4 DEF FlushCreate, Goto
  <2> QED
    BY <1>16, <2>1, <2>2, <2>3, <2>4, <2>5 DEF FlushCreate, Goto
<1>17. ASSUME NEW t \in Threads, FlushWrite(t)
      PROVE  TypeInv'
  BY <1>17 DEF FlushWrite, Goto
<1>18. ASSUME NEW t \in Threads, FlushFails(t)
      PROVE  TypeInv'
  BY <1>18 DEF FlushFails, Goto, Return
<1>19. ASSUME NEW t \in Threads, FlushClean(t)
      PROVE  TypeInv'
  BY <1>19 DEF FlushClean, Goto
<1>20. ASSUME NEW t \in Threads, RemoveFrame(t)
      PROVE  TypeInv'
  <2>1. victim[t] \in Pages
    BY PoolAssumption, <1>20 DEF RemoveFrame, Goto, Released, GuardsWithout, PtrsWithout
  <2>2. freed' \in [Threads -> 0..MaxSize]
    BY PoolAssumption, <1>20, <2>1 DEF RemoveFrame, Goto, Released, GuardsWithout, PtrsWithout
  <2>3. frames' \subseteq Pages /\ dirty' \subseteq frames'
    BY PoolAssumption, <1>20, <2>1, <2>2 DEF RemoveFrame, Goto, Released, GuardsWithout, PtrsWithout
  <2>4. dangling' \in [Threads -> BOOLEAN] /\ ptr' \in [Threads -> {"none", "live", "freed"}]
    BY PoolAssumption, <1>20, <2>1, <2>2, <2>3 DEF RemoveFrame, Goto, Released, GuardsWithout, PtrsWithout
  <2>5. pin_count' \in [Pages -> Nat] /\ data' \in [Pages -> Contents]
    BY PoolAssumption, <1>20, <2>1, <2>2, <2>3, <2>4 DEF RemoveFrame, Goto, Released, GuardsWithout, PtrsWithout
  <2>6. pc' \in [Threads -> Labels]
    BY PoolAssumption, <1>20, <2>1, <2>2, <2>3, <2>4, <2>5 DEF RemoveFrame, Goto, Released, GuardsWithout, PtrsWithout
  <2>7. TypeOK'
    BY PoolAssumption, <1>20, <2>1, <2>2, <2>3, <2>4, <2>5, <2>6 DEF RemoveFrame, Goto, Released, GuardsWithout, PtrsWithout
  <2>8. Located'
    BY PoolAssumption, <1>20, <2>1, <2>2, <2>3, <2>4, <2>5, <2>6, <2>7, SMTT(40)
       DEF RemoveFrame, Goto, Released, GuardsWithout, PtrsWithout
  <2> QED
    BY <2>7, <2>8
<1>21. ASSUME NEW t \in Threads, Uncharge(t)
      PROVE  TypeInv'
  <2>1. used_bytes' \in Int /\ freed' \in [Threads -> 0..MaxSize]
    <3>1. used_bytes' = used_bytes - freed[t] /\ freed' = [freed EXCEPT ![t] = 0]
      BY <1>21 DEF Uncharge
    <3>2. freed \in [Threads -> 0..MaxSize] /\ used_bytes \in Int /\ MaxSize \in Nat
      BY SizeType
    <3> HIDE DEF TypeInv
    <3>3. freed[t] \in 0..MaxSize
      BY <3>2
    <3>4. used_bytes' \in Int
      BY <3>1, <3>2, <3>3
    <3>5. freed' \in [Threads -> 0..MaxSize]
      BY <3>1, <3>2
    <3> QED
      BY <3>4, <3>5
  <2>2. pc' \in [Threads -> Labels]
    BY PoolAssumption, <1>21, <2>1 DEF Uncharge, Goto
  <2>3. TypeOK'
    BY PoolAssumption, <1>21, <2>1, <2>2 DEF Uncharge, Goto
  <2>4. Located'
    BY PoolAssumption, <1>21, <2>1, <2>2, <2>3, SMTT(40) DEF Uncharge, Goto
  <2> QED
    BY PoolAssumption, <1>21, <2>1, <2>2, <2>3, <2>4 DEF Uncharge, Goto
<1>22. ASSUME NEW t \in Threads, OnEvict(t)
      PROVE  TypeInv'
  BY <1>22 DEF OnEvict, Goto, Forget, Without
<1>23. ASSUME NEW t \in Threads, NEW v \in Val, WriteThrough(t, v)
      PROVE  TypeInv'
  BY <1>23 DEF WriteThrough, Goto
<1>24. ASSUME NEW t \in Threads, MarkDirty(t)
      PROVE  TypeInv'
  BY <1>24 DEF MarkDirty, Goto
<1>25. ASSUME NEW t \in Threads, Unpin(t)
      PROVE  TypeInv'
  <2>1. pc' \in [Threads -> Labels]
    BY <1>25 DEF Unpin, Goto, Unpinned
  <2>2. pin_count' \in [Pages -> Nat]
    BY <1>25, <2>1 DEF Unpin, Goto, Unpinned
  <2>3. guard' \in [Threads -> Pages \cup {NoPage}]
    BY <1>25, <2>1, <2>2 DEF Unpin, Goto, Unpinned
  <2>4. TypeOK'
    BY <1>25, <2>1, <2>2, <2>3 DEF Unpin, Goto, Unpinned
  <2>5. Located'
    BY <1>25, <2>1, <2>2, <2>3, <2>4 DEF Unpin, Goto, Unpinned
  <2> QED
    BY <1>25, <2>1, <2>2, <2>3, <2>4, <2>5 DEF Unpin, Goto, Unpinned
<1>26. ASSUME NEW t \in Threads, NEW v \in Val, ArenaPage(t, v)
      PROVE  TypeInv'
  <2>1. next_id \in Pages /\ next_id' \in 1..(MaxPages + 1)
    BY PoolAssumption, <1>26 DEF ArenaPage
  <2>2. disk' \in [Pages -> Contents \cup {Torn, Absent}] /\ made' \subseteq Pages
    <3>1. \/ disk' = [disk EXCEPT ![next_id] = v] /\ made' = made \cup {next_id}
          \/ disk' = [disk EXCEPT ![next_id] = Torn] /\ UNCHANGED made
      BY <1>26 DEF ArenaPage
    <3>2. disk \in [Pages -> Contents \cup {Torn, Absent}] /\ made \subseteq Pages
      OBVIOUS
    <3>3. v \in Contents \cup {Torn, Absent} /\ Torn \in Contents \cup {Torn, Absent}
      OBVIOUS
    <3> HIDE DEF Pages, Contents, TypeInv
    <3>4. disk' \in [Pages -> Contents \cup {Torn, Absent}]
      BY <3>1, <3>2, <3>3
    <3>5. made' \subseteq Pages
      BY <2>1, <3>1, <3>2
    <3> QED
      BY <3>4, <3>5
  <2>3. owner' \in [Pages -> Threads]
    BY PoolAssumption, <1>26, <2>1, <2>2 DEF ArenaPage
  <2>4. TypeOK'
    BY PoolAssumption, <1>26, <2>1, <2>2, <2>3 DEF ArenaPage
  <2>5. Located'
    BY PoolAssumption, <1>26, <2>1, <2>2, <2>3, <2>4 DEF ArenaPage
  <2> QED
    BY PoolAssumption, <1>26, <2>1, <2>2, <2>3, <2>4, <2>5 DEF ArenaPage
<1>27. ASSUME NEW safe \in SafeRam, SetBudget(safe)
      PROVE  TypeInv'
  <2>1. budget_bytes' \in Nat
    BY PoolAssumption, <1>27 DEF SetBudget
  <2> QED
    BY PoolAssumption, <1>27, <2>1 DEF SetBudget
<1> HIDE DEF TypeInv
<1> QED
  BY <1>1, <1>2, <1>3, <1>4, <1>5, <1>6, <1>7, <1>8, <1>9, <1>10, <1>11, <1>12, <1>13, <1>14, <1>15, <1>16, <1>17, <1>18, <1>19, <1>20, <1>21, <1>22, <1>23, <1>24, <1>25, <1>26, <1>27
     DEF Next, Request, Continue, Drop

LEMMA TypeInit == Init => TypeInv
  BY PoolAssumption, SizeType
     DEF Init, TypeInv, TypeOK, Located, Calling, Evicting, Flushing, Labels, Contents,
         Pages, NoPage

LEMMA TypeCorrect == Spec => []TypeInv
  BY TypeInit, TypeStep, PTL DEF Spec

\* Every variable keeps its type, whatever the number of threads.
THEOREM PoolTypeOK == Spec => []TypeOK
<1>1. TypeInv => TypeOK
  BY DEF TypeInv
<1> QED
  BY <1>1, TypeCorrect, PTL

-----------------------------------------------------------------------------
(* The bytes of a set of pages *)

LEMMA WeightFinite ==
  ASSUME NEW S \in SUBSET Pages
  PROVE  IsFiniteSet(S) /\ Weight(S) \in Nat
<1>1. IsFiniteSet(Pages)
  BY PoolAssumption, FS_Interval DEF Pages
<1>2. IsFiniteSet(S)
  BY <1>1, FS_Subset
<1> QED
  BY <1>2, SizeType, BytesFinite DEF Weight

\* A page adds at most its size to the bytes of a set of pages.
LEMMA AddPage ==
  ASSUME NEW S \in SUBSET Pages, NEW p \in Pages
  PROVE  /\ Weight(S \cup {p}) <= Weight(S) + Size[p]
         /\ p \notin S => Weight(S \cup {p}) = Weight(S) + Size[p]
BY WeightFinite, SizeType, AddMember DEF Weight

LEMMA RemovePage ==
  ASSUME NEW S \in SUBSET Pages, NEW p \in Pages
  PROVE  Weight(S \ {p}) = Weight(S) - (IF p \in S THEN Size[p] ELSE 0)
BY WeightFinite, SizeType, RemoveMember DEF Weight

-----------------------------------------------------------------------------
(* used_bytes against the bytes resident or in flight *)

Charged == Weight(frames) + Cardinality(InFlight)

LEMMA InFlightFinite == TypeInv => IsFiniteSet(InFlight) /\ Charged \in Nat
<1> SUFFICES ASSUME TypeInv PROVE IsFiniteSet(InFlight) /\ Charged \in Nat
  OBVIOUS
<1>0. IsFiniteSet(Threads) /\ IsFiniteSet(1..MaxSize)
  BY PoolAssumption, FS_Interval
<1>1. IsFiniteSet(Threads \X (1..MaxSize))
  BY <1>0, FS_Product
<1>2. InFlight \in SUBSET (Threads \X (1..MaxSize))
  BY DEF InFlight
<1>3. IsFiniteSet(InFlight)
  BY <1>1, <1>2, FS_Subset
<1>4. Cardinality(InFlight) \in Nat /\ Weight(frames) \in Nat
  BY <1>3, FS_CardinalityType, WeightFinite DEF TypeInv, TypeOK
<1> QED
  BY <1>3, <1>4 DEF Charged

LEMMA ChargedNext == TypeInv' => (Charged \in Nat)'
<1>1. TypeInv => Charged \in Nat
  BY InFlightFinite
<1> QED
  BY <1>1, PTL

\* A step of t that neither moves frames nor touches the counter, nor enters or
\* leaves a place with bytes in flight.
Elsewhere(t) ==
  /\ UNCHANGED <<used_bytes, frames>>
  /\ \A u \in Threads \ {t} : UNCHANGED <<pc[u], page[u], freed[u]>>
  /\ \/ UNCHANGED <<pc, page, freed>>
     \/ {pc[t], pc'[t]} \cap {"insert", "uncharge"} = {}

\* The actions that only do what Elsewhere says.
OtherStep(t) ==
  \/ \E p \in Pages, kind \in PinKinds : PinHit(t, p, kind) \/ PinMiss(t, p, kind)
  \/ \E v \in Val : InsertBegin(t, v) \/ WriteThrough(t, v) \/ ArenaPage(t, v)
  \/ \E p \in Pages : Visit(t, p) \/ PickVictim(t, p)
  \/ ReadOk(t) \/ ReadFails(t) \/ CheckRoom(t) \/ OnInsert(t) \/ PoolFull(t)
  \/ FlushIsDirty(t) \/ FlushPtr(t) \/ FlushCreate(t) \/ FlushWrite(t) \/ FlushFails(t)
  \/ FlushClean(t) \/ OnEvict(t) \/ MarkDirty(t) \/ Unpin(t)

LEMMA OtherStepsElsewhere ==
  ASSUME TypeInv, NEW t \in Threads, OtherStep(t)
  PROVE  Elsewhere(t)
<1> USE DEF TypeInv, TypeOK, Elsewhere, poolVars, lruVars, clientVars, callVars,
            evictVars, guardVars
<1>1. ASSUME NEW p \in Pages, NEW kind \in PinKinds, PinHit(t, p, kind)
      PROVE  Elsewhere(t)
  BY <1>1 DEF PinHit
<1>2. ASSUME NEW p \in Pages, NEW kind \in PinKinds, PinMiss(t, p, kind)
      PROVE  Elsewhere(t)
  BY <1>2 DEF PinMiss, Goto
<1>3. ASSUME ReadOk(t)
      PROVE  Elsewhere(t)
  BY <1>3 DEF ReadOk, Goto
<1>4. ASSUME ReadFails(t)
      PROVE  Elsewhere(t)
  BY <1>4 DEF ReadFails, Return, Goto
<1>5. ASSUME NEW v \in Val, InsertBegin(t, v)
      PROVE  Elsewhere(t)
  BY <1>5 DEF InsertBegin, Goto
<1>6. ASSUME CheckRoom(t)
      PROVE  Elsewhere(t)
  BY <1>6 DEF CheckRoom, Goto
<1>7. ASSUME OnInsert(t)
      PROVE  Elsewhere(t)
  BY <1>7 DEF OnInsert, Return, Goto
<1>8. ASSUME NEW p \in Pages, Visit(t, p)
      PROVE  Elsewhere(t)
  BY <1>8 DEF Visit, Goto
<1>9. ASSUME NEW p \in Pages, PickVictim(t, p)
      PROVE  Elsewhere(t)
  BY <1>9 DEF PickVictim, Goto
<1>10. ASSUME PoolFull(t)
      PROVE  Elsewhere(t)
  BY <1>10 DEF PoolFull, Return, Goto
<1>11. ASSUME FlushIsDirty(t)
      PROVE  Elsewhere(t)
  BY <1>11 DEF FlushIsDirty, Goto
<1>12. ASSUME FlushPtr(t)
      PROVE  Elsewhere(t)
  BY <1>12 DEF FlushPtr, Goto
<1>13. ASSUME FlushCreate(t)
      PROVE  Elsewhere(t)
  BY <1>13 DEF FlushCreate, Goto
<1>14. ASSUME FlushWrite(t)
      PROVE  Elsewhere(t)
  BY <1>14 DEF FlushWrite, Goto
<1>15. ASSUME FlushFails(t)
      PROVE  Elsewhere(t)
  BY <1>15 DEF FlushFails, Return, Goto
<1>16. ASSUME FlushClean(t)
      PROVE  Elsewhere(t)
  BY <1>16 DEF FlushClean, Goto
<1>17. ASSUME OnEvict(t)
      PROVE  Elsewhere(t)
  BY <1>17 DEF OnEvict, Goto
<1>18. ASSUME NEW v \in Val, WriteThrough(t, v)
      PROVE  Elsewhere(t)
  BY <1>18 DEF WriteThrough
<1>19. ASSUME MarkDirty(t)
      PROVE  Elsewhere(t)
  BY <1>19 DEF MarkDirty, Goto
<1>20. ASSUME Unpin(t)
      PROVE  Elsewhere(t)
  BY <1>20 DEF Unpin, Goto
<1>21. ASSUME NEW v \in Val, ArenaPage(t, v)
      PROVE  Elsewhere(t)
  BY <1>21 DEF ArenaPage
<1> QED
  BY <1>1, <1>2, <1>3, <1>4, <1>5, <1>6, <1>7, <1>8, <1>9, <1>10, <1>11, <1>12, <1>13, <1>14, <1>15, <1>16, <1>17, <1>18, <1>19, <1>20, <1>21
     DEF OtherStep

LEMMA ElsewhereKeeps ==
  ASSUME NEW t \in Threads, Elsewhere(t)
  PROVE  used_bytes' = used_bytes /\ Charged' = Charged
<1>1. InFlight' = InFlight
  BY DEF Elsewhere, InFlight
<1> QED
  BY <1>1 DEF Elsewhere, Charged, Weight, Footprint, Bytes

\* Where the counter and the bytes it stands for move, they move together, except
\* that a frame inserted over another loses the bytes of the one it replaces.
Together == used_bytes' + Charged = used_bytes + Charged'

LEMMA ChargeTogether ==
  ASSUME TypeInv, TypeInv', NEW t \in Threads, Charge(t)
  PROVE  Together
<1> DEFINE n == Size[page[t]]
<1>1. page[t] \in Pages /\ n \in 0..MaxSize /\ n \in Nat
  BY SizeType DEF Charge, TypeInv, Located, Calling, Labels
<1>2. InFlight' = InFlight \cup Row(t, n)
  BY <1>1, SizeType DEF Charge, Goto, InFlight, Row, TypeInv, TypeOK, callVars, evictVars
<1>3. InFlight \cap Row(t, n) = {}
  BY DEF Charge, InFlight, Row
<1>4. Cardinality(InFlight') = Cardinality(InFlight) + n
  BY <1>1, <1>2, <1>3, InFlightFinite, AddRow
<1>5. frames' = frames /\ used_bytes' = used_bytes + n
  BY DEF Charge
<1>6. /\ Weight(frames) \in Nat /\ Cardinality(InFlight) \in Nat
      /\ used_bytes \in Int
  BY InFlightFinite, FS_CardinalityType, WeightFinite DEF TypeInv, TypeOK
<1>7. Weight(frames)' = Weight(frames)
  BY <1>5 DEF Weight, Footprint, Bytes
<1> QED
  BY <1>1, <1>4, <1>5, <1>6, <1>7 DEF Together, Charged

LEMMA UnchargeTogether ==
  ASSUME TypeInv, TypeInv', NEW t \in Threads, Uncharge(t)
  PROVE  Together
<1> DEFINE n == freed[t]
<1>1. n \in 0..MaxSize /\ n \in Nat
  BY SizeType DEF TypeInv, TypeOK
<1>2. InFlight = InFlight' \cup Row(t, n)
  BY <1>1, SizeType DEF Uncharge, Goto, InFlight, Row, TypeInv, TypeOK, callVars
<1>3. InFlight' \cap Row(t, n) = {}
  BY DEF Uncharge, Goto, InFlight, Row, TypeInv, TypeOK
<1>4. IsFiniteSet(InFlight')
  BY <1>2, InFlightFinite, FS_Subset
<1>5. Cardinality(InFlight) = Cardinality(InFlight') + n
  BY <1>1, <1>2, <1>3, <1>4, AddRow
<1>6. frames' = frames /\ used_bytes' = used_bytes - n
  BY DEF Uncharge
<1>7. /\ Weight(frames) \in Nat /\ Cardinality(InFlight') \in Nat
      /\ used_bytes \in Int
  BY <1>4, FS_CardinalityType, WeightFinite DEF TypeInv, TypeOK
<1>8. Weight(frames)' = Weight(frames)
  BY <1>6 DEF Weight, Footprint, Bytes
<1> QED
  BY <1>1, <1>5, <1>6, <1>7, <1>8 DEF Together, Charged

LEMMA RemoveTogether ==
  ASSUME TypeInv, TypeInv', NEW t \in Threads, RemoveFrame(t)
  PROVE  Together
<1> DEFINE v == victim[t]
           n == Released(v)
<1>1. v \in Pages /\ n \in 0..MaxSize /\ n \in Nat
  BY SizeType DEF Released, RemoveFrame, TypeInv, Located, Evicting, Flushing
<1>2. InFlight' = InFlight \cup Row(t, n)
  BY <1>1, SizeType DEF RemoveFrame, Goto, InFlight, Row, TypeInv, TypeOK, callVars
<1>3. InFlight \cap Row(t, n) = {}
  BY DEF RemoveFrame, InFlight, Row
<1>4. Cardinality(InFlight') = Cardinality(InFlight) + n
  BY <1>1, <1>2, <1>3, InFlightFinite, AddRow
<1>5. frames \in SUBSET Pages /\ frames' = frames \ {v} /\ used_bytes' = used_bytes
  BY DEF RemoveFrame, TypeInv, TypeOK
<1>6. Weight(frames \ {v}) = Weight(frames) - n
  BY <1>1, <1>5, RemovePage DEF Released
<1>7. Weight(frames)' = Weight(frames \ {v})
  BY <1>5 DEF Weight, Footprint, Bytes
<1>8. /\ Weight(frames) \in Nat /\ Cardinality(InFlight) \in Nat
      /\ used_bytes \in Int
  BY <1>5, InFlightFinite, FS_CardinalityType, WeightFinite DEF TypeInv, TypeOK
<1> QED
  BY <1>1, <1>4, <1>5, <1>6, <1>7, <1>8 DEF Together, Charged

LEMMA InsertCovers ==
  ASSUME TypeInv, TypeInv', NEW t \in Threads, InsertFrame(t)
  PROVE  /\ used_bytes' + Charged >= used_bytes + Charged'
         /\ page[t] \notin frames => Together
<1> DEFINE p == page[t]
           n == Size[p]
<1>1. p \in Pages /\ n \in 0..MaxSize /\ n \in Nat
  BY SizeType DEF InsertFrame, TypeInv, Located, Calling, Labels
<1>2. InFlight = InFlight' \cup Row(t, n)
  BY <1>1, SizeType DEF InsertFrame, Goto, InFlight, Row, TypeInv, TypeOK, callVars
<1>3. InFlight' \cap Row(t, n) = {}
  BY DEF InsertFrame, Goto, InFlight, Row, TypeInv, TypeOK
<1>4. IsFiniteSet(InFlight')
  BY <1>2, InFlightFinite, FS_Subset
<1>5. Cardinality(InFlight) = Cardinality(InFlight') + n
  BY <1>1, <1>2, <1>3, <1>4, AddRow
<1>6. frames \in SUBSET Pages /\ frames' = frames \cup {p} /\ used_bytes' = used_bytes
  BY DEF InsertFrame, TypeInv, TypeOK
<1>7. /\ Weight(frames \cup {p}) <= Weight(frames) + n
      /\ p \notin frames => Weight(frames \cup {p}) = Weight(frames) + n
  BY <1>1, <1>6, AddPage
<1>8. Weight(frames)' = Weight(frames \cup {p})
  BY <1>6 DEF Weight, Footprint, Bytes
<1>9. frames \cup {p} \in SUBSET Pages
  BY <1>1, <1>6
<1>10. /\ Weight(frames) \in Nat /\ Weight(frames \cup {p}) \in Nat
       /\ Cardinality(InFlight') \in Nat /\ used_bytes \in Int
  BY <1>4, <1>6, <1>9, FS_CardinalityType, WeightFinite DEF TypeInv, TypeOK
<1> QED
  BY <1>1, <1>5, <1>6, <1>7, <1>8, <1>10 DEF Together, Charged

\* The difference of counter and bytes never falls, and moves only when a frame is
\* inserted over another.
Ledger ==
  /\ used_bytes' + Charged >= used_bytes + Charged'
  /\ (\A t \in Threads : pc[t] = "insert" => page[t] \notin frames) => Together

LEMMA LedgerHolds ==
  ASSUME TypeInv, TypeInv', Together \/ (used_bytes' = used_bytes /\ Charged' = Charged)
  PROVE  Ledger
<1>1. /\ used_bytes \in Int /\ used_bytes' \in Int
      /\ Charged \in Nat /\ Charged' \in Nat
  BY InFlightFinite, ChargedNext DEF TypeInv, TypeOK
<1>2. Together
  BY DEF Together
<1>3. ASSUME NEW a \in Int, NEW b \in Int, a = b
      PROVE  a >= b
  BY <1>3
<1>4. used_bytes' + Charged \in Int /\ used_bytes + Charged' \in Int
  BY <1>1
<1>5. used_bytes' + Charged >= used_bytes + Charged'
  BY <1>2, <1>3, <1>4 DEF Together
<1> QED
  BY <1>2, <1>5 DEF Ledger

LEMMA LedgerStep == TypeInv /\ TypeInv' /\ [Next]_vars => Ledger
<1> SUFFICES ASSUME TypeInv, TypeInv', [Next]_vars
             PROVE  Ledger
  OBVIOUS
<1>1. CASE UNCHANGED vars
  <2>1. used_bytes' = used_bytes /\ Charged' = Charged
    BY <1>1 DEF vars, poolVars, callVars, evictVars, Charged, Weight, Footprint, Bytes, InFlight
  <2> QED
    BY <2>1, LedgerHolds
<1>2. ASSUME NEW safe \in SafeRam, SetBudget(safe)
      PROVE  Ledger
  <2>1. used_bytes' = used_bytes /\ Charged' = Charged
    BY <1>2 DEF SetBudget, callVars, evictVars, Charged, Weight, Footprint, Bytes, InFlight
  <2> QED
    BY <2>1, LedgerHolds
<1>3. ASSUME NEW t \in Threads, OtherStep(t)
      PROVE  Ledger
  <2>1. Elsewhere(t)
    BY <1>3, OtherStepsElsewhere
  <2>2. used_bytes' = used_bytes /\ Charged' = Charged
    BY <2>1, ElsewhereKeeps
  <2> QED
    BY <2>2, LedgerHolds
<1>4. ASSUME NEW t \in Threads, Charge(t) \/ Uncharge(t) \/ RemoveFrame(t)
      PROVE  Ledger
  BY <1>4, LedgerHolds, ChargeTogether, UnchargeTogether, RemoveTogether
<1>5. ASSUME NEW t \in Threads, InsertFrame(t)
      PROVE  Ledger
  BY <1>5, InsertCovers DEF InsertFrame, Ledger
<1>6. ASSUME NEW t \in Threads, Request(t) \/ Continue(t) \/ Drop(t)
      PROVE  \/ OtherStep(t) \/ InsertFrame(t)
             \/ Charge(t) \/ Uncharge(t) \/ RemoveFrame(t)
  BY <1>6 DEF Request, Continue, Drop, OtherStep
<1> QED
  BY <1>1, <1>2, <1>3, <1>4, <1>5, <1>6 DEF Next

LEMMA AccountedStep == TypeInv /\ TypeInv' /\ Accounted /\ [Next]_vars => Accounted'
<1> SUFFICES ASSUME TypeInv, TypeInv', Accounted, [Next]_vars
             PROVE  Accounted'
  OBVIOUS
<1>1. used_bytes' + Charged >= used_bytes + Charged'
  BY LedgerStep DEF Ledger
<1>2. Charged' \in Nat
  BY ChargedNext
<1> QED
  BY <1>1, <1>2, InFlightFinite DEF Accounted, Charged, TypeInv, TypeOK

LEMMA InFlightInit == Init => InFlight = {} /\ Weight(frames) = 0
<1> SUFFICES ASSUME Init
             PROVE  InFlight = {} /\ Weight(frames) = 0
  OBVIOUS
<1>1. InFlight = {}
  BY DEF Init, InFlight
<1>2. Bytes(frames, Size, MaxSize) = {}
  BY DEF Init, Bytes
<1> QED
  BY <1>1, <1>2, FS_EmptySet DEF Weight, Footprint

LEMMA AccountedInvariant == Spec => []Accounted
<1>1. Init => Accounted
  <2> SUFFICES ASSUME Init
               PROVE  Accounted
    OBVIOUS
  <2>1. Weight(frames) = 0 /\ Cardinality(InFlight) = 0
    BY InFlightInit, FS_EmptySet
  <2> QED
    BY <2>1 DEF Init, Accounted
<1> QED
  BY <1>1, AccountedStep, TypeCorrect, PTL DEF Spec

\* The counter never claims fewer bytes than are resident: for any number of threads
\* racing in pin, insert_page and evict_one, fetch_sub never wraps below zero and the
\* budget test never works from an under-estimate.
THEOREM PoolUsedCoversResident == Spec => []UsedCoversResident
<1>1. TypeInv /\ Accounted => UsedCoversResident
  <2> SUFFICES ASSUME TypeInv, Accounted
               PROVE  UsedCoversResident
    OBVIOUS
  <2>1. /\ Weight(frames) \in Nat /\ Cardinality(InFlight) \in Nat
        /\ used_bytes \in Int
    BY InFlightFinite, FS_CardinalityType, WeightFinite DEF TypeInv, TypeOK
  <2> QED
    BY <2>1 DEF Accounted, UsedCoversResident
<1> QED
  BY <1>1, AccountedInvariant, TypeCorrect, PTL

-----------------------------------------------------------------------------
(* The pool under a single thread *)

Alone == Threads = {Main}

LEMMA AloneStep ==
  ASSUME Alone, TypeInv, Fresh, Reserved, PinnedStays, [Next]_vars
  PROVE  Fresh' /\ Reserved' /\ PinnedStays'
<1> USE DEF Alone, TypeInv, TypeOK, Located, Calling, Evicting, Flushing, Labels,
            Pages, NoPage, Fresh, Reserved, PinnedStays, Evictable, HasRoom, poolVars,
            lruVars, clientVars, callVars, evictVars, guardVars
<1>1. CASE UNCHANGED vars
  BY <1>1 DEF vars
<1>2. ASSUME NEW p \in Pages, NEW kind \in PinKinds, PinHit(Main, p, kind)
      PROVE  Fresh' /\ Reserved' /\ PinnedStays'
  BY <1>2, SMTT(60) DEF PinHit
<1>3. ASSUME NEW p \in Pages, NEW kind \in PinKinds, PinMiss(Main, p, kind)
      PROVE  Fresh' /\ Reserved' /\ PinnedStays'
  BY <1>3 DEF PinMiss, Goto, MayPin
<1>4. ASSUME ReadOk(Main)
      PROVE  Fresh' /\ Reserved' /\ PinnedStays'
  BY <1>4 DEF ReadOk, Goto
<1>5. ASSUME ReadFails(Main)
      PROVE  Fresh' /\ Reserved' /\ PinnedStays'
  BY <1>5 DEF ReadFails, Return, Goto
<1>6. ASSUME NEW v \in Val, InsertBegin(Main, v)
      PROVE  Fresh' /\ Reserved' /\ PinnedStays'
  BY <1>6 DEF InsertBegin, Goto
<1>7. ASSUME CheckRoom(Main)
      PROVE  Fresh' /\ Reserved' /\ PinnedStays'
  BY <1>7 DEF CheckRoom, Goto
<1>8. ASSUME Charge(Main)
      PROVE  Fresh' /\ Reserved' /\ PinnedStays'
  BY <1>8 DEF Charge, Goto
<1>9. ASSUME InsertFrame(Main)
      PROVE  Fresh' /\ Reserved' /\ PinnedStays'
  <2>1. /\ pc[Main] = "insert" /\ page[Main] \in Pages /\ page[Main] < next_id
        /\ page[Main] \notin frames /\ unpinned[Main] = {}
    BY <1>9 DEF InsertFrame
  <2>2. /\ frames' = frames \cup {page[Main]} /\ made' = made \cup {page[Main]}
        /\ UNCHANGED <<page, next_id, unpinned, victim, used_bytes, budget_bytes>>
        /\ pc'[Main] = "on_insert"
    BY <1>9 DEF InsertFrame, Goto
  <2>3. Fresh'
    <3>1. next_id \in Nat /\ page[Main] \in 1..(next_id - 1)
      BY <2>1, PoolAssumption
    <3>2. frames' \cup made' \subseteq 1..(next_id' - 1)
      BY <2>2, <3>1
    <3> QED
      BY <2>1, <2>2, <3>2
  <2>4. Reserved'
    BY <2>1, <2>2
  <2>5. PinnedStays'
    <3>1. CASE op[Main] = "insert"
      <4>1. /\ guard' = guard /\ dangling'[Main] = dangling[Main]
            /\ \A q \in Pages \ {page[Main]} : pin_count'[q] = pin_count[q]
        BY <1>9, <2>1, <3>1 DEF InsertFrame
      <4> QED
        BY <2>1, <2>2, <4>1
    <3>2. CASE op[Main] # "insert"
      <4>1. /\ guard'[Main] = page[Main] /\ ~dangling'[Main]
            /\ pin_count'[page[Main]] = 1
        BY <1>9, <2>1, <3>2 DEF InsertFrame
      <4> QED
        BY <2>1, <2>2, <4>1
    <3> QED
      BY <3>1, <3>2
  <2> QED
    BY <2>3, <2>4, <2>5
<1>10. ASSUME OnInsert(Main)
      PROVE  Fresh' /\ Reserved' /\ PinnedStays'
  BY <1>10, SMTT(40) DEF OnInsert, Return, Goto
<1>11. ASSUME NEW p \in Pages, Visit(Main, p)
      PROVE  Fresh' /\ Reserved' /\ PinnedStays'
  BY <1>11 DEF Visit, Goto
<1>12. ASSUME NEW p \in Pages, PickVictim(Main, p)
      PROVE  Fresh' /\ Reserved' /\ PinnedStays'
  BY <1>12 DEF PickVictim, Goto, Candidates
<1>13. ASSUME PoolFull(Main)
      PROVE  Fresh' /\ Reserved' /\ PinnedStays'
  BY <1>13 DEF PoolFull, Return, Goto
<1>14. ASSUME FlushIsDirty(Main)
      PROVE  Fresh' /\ Reserved' /\ PinnedStays'
  BY <1>14 DEF FlushIsDirty, Goto
<1>15. ASSUME FlushPtr(Main)
      PROVE  Fresh' /\ Reserved' /\ PinnedStays'
  BY <1>15 DEF FlushPtr, Goto
<1>16. ASSUME FlushCreate(Main)
      PROVE  Fresh' /\ Reserved' /\ PinnedStays'
  BY <1>16 DEF FlushCreate, Goto
<1>17. ASSUME FlushWrite(Main)
      PROVE  Fresh' /\ Reserved' /\ PinnedStays'
  BY <1>17 DEF FlushWrite, Goto
<1>18. ASSUME FlushFails(Main)
      PROVE  Fresh' /\ Reserved' /\ PinnedStays'
  BY <1>18 DEF FlushFails, Return, Goto
<1>19. ASSUME FlushClean(Main)
      PROVE  Fresh' /\ Reserved' /\ PinnedStays'
  BY <1>19 DEF FlushClean, Goto
<1>20. ASSUME RemoveFrame(Main)
      PROVE  Fresh' /\ Reserved' /\ PinnedStays'
  <2>1. /\ pc[Main] = "remove" /\ victim[Main] \in frames /\ pin_count[victim[Main]] = 0
        /\ unpinned[Main] = {} /\ page[Main] \notin frames /\ page[Main] < next_id
    BY <1>20 DEF RemoveFrame
  <2>2. /\ frames' = frames \ {victim[Main]} /\ pc'[Main] = "uncharge"
        /\ UNCHANGED <<made, page, next_id, unpinned, victim, guard>>
        /\ \A q \in Pages \ {victim[Main]} : pin_count'[q] = pin_count[q]
        /\ dangling'[Main] => dangling[Main] \/ guard[Main] = victim[Main]
    BY <1>20, <2>1 DEF RemoveFrame, Goto, GuardsWithout
  <2>3. Fresh'
    BY <2>1, <2>2
  <2>4. Reserved'
    BY <2>1, <2>2
  <2>5. PinnedStays'
    BY <2>1, <2>2
  <2> QED
    BY <2>3, <2>4, <2>5
<1>21. ASSUME Uncharge(Main)
      PROVE  Fresh' /\ Reserved' /\ PinnedStays'
  BY <1>21 DEF Uncharge, Goto
<1>22. ASSUME OnEvict(Main)
      PROVE  Fresh' /\ Reserved' /\ PinnedStays'
  BY <1>22 DEF OnEvict, Goto
<1>23. ASSUME NEW v \in Val, WriteThrough(Main, v)
      PROVE  Fresh' /\ Reserved' /\ PinnedStays'
  BY <1>23 DEF WriteThrough
<1>24. ASSUME MarkDirty(Main)
      PROVE  Fresh' /\ Reserved' /\ PinnedStays'
  BY <1>24 DEF MarkDirty, Goto
<1>25. ASSUME Unpin(Main)
      PROVE  Fresh' /\ Reserved' /\ PinnedStays'
  BY <1>25 DEF Unpin, Goto
<1>26. ASSUME NEW v \in Val, ArenaPage(Main, v)
      PROVE  Fresh' /\ Reserved' /\ PinnedStays'
  <2>1. /\ pc[Main] = "idle" /\ UNCHANGED <<frames, pin_count, guard, dangling, pc>>
        /\ UNCHANGED <<unpinned, victim, used_bytes, budget_bytes, page>>
        /\ next_id' = next_id + 1 /\ made' \subseteq made \cup {next_id}
    BY <1>26 DEF ArenaPage
  <2>2. next_id \in 1..(MaxPages + 1) /\ MaxPages \in Nat
    BY PoolAssumption
  <2>3. Fresh'
    BY <2>1, <2>2
  <2>4. Reserved'
    BY <2>1
  <2>5. PinnedStays'
    BY <2>1
  <2> QED
    BY <2>3, <2>4, <2>5
<1>27. ASSUME NEW safe \in SafeRam, SetBudget(safe)
      PROVE  Fresh' /\ Reserved' /\ PinnedStays'
  BY <1>27 DEF SetBudget
<1> HIDE DEF Fresh, Reserved, PinnedStays, TypeInv
<1> QED
  BY <1>1, <1>2, <1>3, <1>4, <1>5, <1>6, <1>7, <1>8, <1>9, <1>10, <1>11, <1>12, <1>13, <1>14, <1>15, <1>16, <1>17, <1>18, <1>19, <1>20, <1>21, <1>22, <1>23, <1>24, <1>25, <1>26, <1>27
     DEF Next, Request, Continue, Drop, Alone

LEMMA TogetherExact ==
  ASSUME TypeInv, TypeInv', Together, Exact
  PROVE  Exact'
<1>1. /\ used_bytes \in Int /\ used_bytes' \in Int
      /\ Charged \in Nat /\ Charged' \in Nat
  BY InFlightFinite, ChargedNext DEF TypeInv, TypeOK
<1>2. used_bytes = Charged
  BY DEF Exact, Charged
<1>3. used_bytes' = Charged'
  BY <1>1, <1>2 DEF Together
<1> QED
  BY <1>3 DEF Exact, Charged

LEMMA AloneInvariant ==
  ASSUME Alone
  PROVE  Spec => [](TypeInv /\ Settled /\ PinnedStays)
<1> DEFINE AloneInv == TypeInv /\ Settled /\ PinnedStays
<1>1. Init => AloneInv
  <2> SUFFICES ASSUME Init
               PROVE  AloneInv
    OBVIOUS
  <2>1. TypeInv
    BY TypeInit
  <2>2. Exact
    <3>1. Weight(frames) = 0 /\ Cardinality(InFlight) = 0
      BY InFlightInit, FS_EmptySet
    <3> QED
      BY <3>1 DEF Init, Exact
  <2>3. Fresh /\ Reserved /\ PinnedStays
    BY PoolAssumption DEF Init, Fresh, Reserved, PinnedStays, Calling, Flushing, Labels, NoPage
  <2> QED
    BY <2>1, <2>2, <2>3 DEF Settled
<1>2. AloneInv /\ [Next]_vars => AloneInv'
  <2> SUFFICES ASSUME AloneInv, [Next]_vars
               PROVE  AloneInv'
    OBVIOUS
  <2>1. TypeInv'
    BY TypeStep
  <2>2. Fresh' /\ Reserved' /\ PinnedStays'
    BY AloneStep DEF Settled
  <2>3. \A t \in Threads : pc[t] = "insert" => page[t] \notin frames
    BY DEF Alone, Settled, Fresh, Calling, Labels
  <2>4. Together
    BY <2>1, <2>3, LedgerStep DEF Ledger
  <2>5. Exact'
    BY <2>1, <2>4, TogetherExact DEF Settled
  <2> QED
    BY <2>1, <2>2, <2>5 DEF Settled
<1> QED
  BY <1>1, <1>2, PTL DEF Spec

\* Under a single thread the page of a live guard stays resident and pinned, and its
\* frame is never freed: no pointer handed out by pin or pin_mut dangles.
THEOREM PoolPinnedStays ==
  ASSUME Threads = {Main}
  PROVE  Spec => []PinnedStays
BY AloneInvariant, PTL DEF Alone

\* Under a single thread the counter is exact between calls: no sequence of misses,
\* insertions, evictions and failed writes leaks a byte of the budget.
THEOREM PoolUsedIsResident ==
  ASSUME Threads = {Main}
  PROVE  Spec => []UsedIsResident
<1>1. TypeInv /\ Settled => UsedIsResident
  <2> SUFFICES ASSUME TypeInv, Settled, Quiet
               PROVE  used_bytes = Weight(frames)
    BY DEF UsedIsResident
  <2>1. InFlight = {}
    BY DEF Quiet, InFlight
  <2>2. Cardinality(InFlight) = 0 /\ Weight(frames) \in Nat
    BY <2>1, FS_EmptySet, WeightFinite DEF TypeInv, TypeOK
  <2> QED
    BY <2>2 DEF Settled, Exact
<1> QED
  BY <1>1, AloneInvariant, PTL DEF Alone

\* Under a single thread every step that takes bytes stays within the budget.
THEOREM PoolBudgetRespected ==
  ASSUME Threads = {Main}
  PROVE  Spec => BudgetRespected
<1>1. TypeInv /\ Settled /\ [Next]_vars
        => [used_bytes' > used_bytes => used_bytes' <= budget_bytes']_vars
  <2> SUFFICES ASSUME TypeInv, Settled, Next, used_bytes' > used_bytes
               PROVE  used_bytes' <= budget_bytes'
    BY DEF Settled
  <2>1. CASE \E t \in Threads : Charge(t)
    BY <2>1 DEF Charge, Settled, Reserved, HasRoom
  <2>2. CASE \E t \in Threads : Uncharge(t)
    BY <2>2 DEF Uncharge, TypeInv, TypeOK
  <2>3. CASE UNCHANGED used_bytes
    BY <2>3 DEF TypeInv, TypeOK
  <2>4. ASSUME NEW t \in Threads, Request(t)
        PROVE  UNCHANGED used_bytes
    BY <2>4 DEF Request, PinHit, PinMiss, InsertBegin, WriteThrough, ArenaPage, poolVars
  <2>5. ASSUME NEW t \in Threads, Continue(t)
        PROVE  Charge(t) \/ Uncharge(t) \/ UNCHANGED used_bytes
    BY <2>5 DEF Continue, ReadOk, ReadFails, CheckRoom, InsertFrame, OnInsert, Visit,
                PickVictim, PoolFull, FlushIsDirty, FlushPtr, FlushCreate, FlushWrite,
                FlushFails, FlushClean, RemoveFrame, OnEvict, Unpin, poolVars
  <2>6. ASSUME NEW t \in Threads, Drop(t)
        PROVE  UNCHANGED used_bytes
    BY <2>6 DEF Drop, MarkDirty, Unpin, poolVars
  <2>7. ASSUME NEW safe \in SafeRam, SetBudget(safe)
        PROVE  UNCHANGED used_bytes
    BY <2>7 DEF SetBudget
  <2> QED
    BY <2>1, <2>2, <2>3, <2>4, <2>5, <2>6, <2>7 DEF Next
<1> QED
  BY <1>1, AloneInvariant, PTL DEF Alone, Spec, BudgetRespected

-----------------------------------------------------------------------------
(* The order of last accesses *)

\* The policy knows every frame, but for one whose call has not told it yet; and the
\* order is one in which a set of pages has a least recent page.
StrictOrder ==
  /\ older \subseteq tracked \X tracked
  /\ \A p \in tracked : <<p, p>> \notin older
  /\ \A p, q, r \in tracked : <<p, q>> \in older /\ <<q, r>> \in older => <<p, r>> \in older

LEMMA TouchOrder ==
  ASSUME NEW p \in Pages, tracked \subseteq Pages, StrictOrder, Touch(p)
  PROVE  StrictOrder'
<1>1. /\ tracked' = tracked \cup {p}
      /\ older' = Without(p) \cup {<<q, p>> : q \in tracked \ {p}}
  BY DEF Touch
<1>2. \A a, b \in tracked' :
        <<a, b>> \in older' <=>
          \/ <<a, b>> \in older /\ a # p /\ b # p
          \/ b = p /\ a # p
  BY <1>1 DEF Without, StrictOrder
<1>3. older' \subseteq tracked' \X tracked'
  BY <1>1 DEF Without, StrictOrder
<1>4. \A a \in tracked' : <<a, a>> \notin older'
  BY <1>1, <1>2 DEF StrictOrder
<1>5. ASSUME NEW a \in tracked', NEW b \in tracked', NEW c \in tracked',
             <<a, b>> \in older', <<b, c>> \in older'
      PROVE  <<a, c>> \in older'
  <2>1. a # p /\ b # p /\ <<a, b>> \in older
    BY <1>2, <1>5
  <2>2. c = p \/ (c # p /\ <<b, c>> \in older)
    BY <1>2, <1>5
  <2>3. a \in tracked /\ b \in tracked /\ (c # p => c \in tracked)
    BY <1>1, <2>1
  <2>4. c # p => <<a, c>> \in older
    BY <2>1, <2>2, <2>3 DEF StrictOrder
  <2> QED
    BY <1>2, <2>1, <2>4
<1> QED
  BY <1>3, <1>4, <1>5 DEF StrictOrder

LEMMA ForgetOrder ==
  ASSUME NEW p, StrictOrder, Forget(p)
  PROVE  StrictOrder'
<1>1. tracked' = tracked \ {p} /\ older' = Without(p)
  BY DEF Forget
<1>2. \A a, b \in tracked' : <<a, b>> \in older' <=> <<a, b>> \in older
  BY <1>1 DEF Without
<1>3. older' \subseteq tracked' \X tracked'
  BY <1>1 DEF Without, StrictOrder
<1>4. tracked' \subseteq tracked
  BY <1>1
<1> QED
  BY <1>2, <1>3, <1>4 DEF StrictOrder

\* Steps that leave the policy alone, or tell it of one page.
LEMMA OrderStep == TypeInv /\ StrictOrder /\ [Next]_vars => StrictOrder'
<1> SUFFICES ASSUME TypeInv, StrictOrder, [Next]_vars
             PROVE  StrictOrder'
  OBVIOUS
<1>1. \/ UNCHANGED <<tracked, older>>
      \/ \E p \in Pages : Touch(p)
      \/ \E p \in Pages : Forget(p)
  <2>1. CASE UNCHANGED vars
    BY <2>1 DEF vars, lruVars
  <2>2. ASSUME NEW t \in Threads, Request(t)
        PROVE  UNCHANGED <<tracked, older>> \/ \E p \in Pages : Touch(p)
    BY <2>2 DEF Request, PinHit, PinMiss, InsertBegin, WriteThrough, ArenaPage, lruVars
  <2>3. ASSUME NEW t \in Threads, OnInsert(t)
        PROVE  \E p \in Pages : Touch(p)
    <3>1. page[t] \in Pages
      BY <2>3 DEF OnInsert, TypeInv, Located, Calling, Labels
    <3> QED
      BY <2>3, <3>1 DEF OnInsert
  <2>4. ASSUME NEW t \in Threads, OnEvict(t)
        PROVE  \E p \in Pages : Forget(p)
    <3>1. victim[t] \in Pages
      BY <2>4 DEF OnEvict, TypeInv, Located, Evicting
    <3> QED
      BY <2>4, <3>1 DEF OnEvict
  <2>5. ASSUME NEW t \in Threads, Continue(t)
        PROVE  UNCHANGED <<tracked, older>> \/ OnInsert(t) \/ OnEvict(t)
    BY <2>5 DEF Continue, ReadOk, ReadFails, CheckRoom, Charge, InsertFrame, Visit,
                PickVictim, PoolFull, FlushIsDirty, FlushPtr, FlushCreate, FlushWrite,
                FlushFails, FlushClean, RemoveFrame, Uncharge, Unpin, lruVars
  <2>6. ASSUME NEW t \in Threads, Drop(t)
        PROVE  UNCHANGED <<tracked, older>>
    BY <2>6 DEF Drop, MarkDirty, Unpin, lruVars
  <2>7. ASSUME NEW safe \in SafeRam, SetBudget(safe)
        PROVE  UNCHANGED <<tracked, older>>
    BY <2>7 DEF SetBudget, lruVars
  <2> QED
    BY <2>1, <2>2, <2>3, <2>4, <2>5, <2>6, <2>7 DEF Next
<1>2. CASE UNCHANGED <<tracked, older>>
  BY <1>2 DEF StrictOrder
<1>3. CASE \E p \in Pages : Touch(p)
  BY <1>3, TouchOrder DEF TypeInv, TypeOK
<1>4. CASE \E p \in Pages : Forget(p)
  BY <1>4, ForgetOrder
<1> QED
  BY <1>1, <1>2, <1>3, <1>4

\* Among any tracked pages there is a least recent one.
LEMMA LeastRecent ==
  ASSUME tracked \subseteq Pages, StrictOrder, NEW S \in SUBSET tracked, S # {}
  PROVE  \E p \in S : \A q \in S : <<q, p>> \notin older
<1> DEFINE before(p) == {q \in tracked : <<q, p>> \in older}
           ranks == {Cardinality(before(p)) : p \in S}
<1>1. IsFiniteSet(tracked)
  BY WeightFinite
<1>2. \A p \in S : IsFiniteSet(before(p)) /\ Cardinality(before(p)) \in Nat
  BY <1>1, FS_Subset, FS_CardinalityType
<1>3. ranks \subseteq Nat /\ ranks # {}
  BY <1>2
<1>4. PICK n \in ranks : \A m \in ranks : ~ (m < n)
  <2>1. PICK n \in ranks : \A m \in ranks : <<m, n>> \notin OpToRel(<, Nat)
    <3> HIDE DEF ranks
    <3> QED
      BY <1>3, WFMin, NatLessThanWellFounded, Zenon
  <2>2. \A m \in ranks : ~ (m < n)
    BY <1>3, <2>1 DEF OpToRel
  <2> QED
    BY <2>2
<1>5. PICK p \in S : n = Cardinality(before(p))
  BY <1>4
<1>6. ASSUME NEW q \in S, <<q, p>> \in older
      PROVE  FALSE
  <2>1. before(q) \subseteq before(p)
    BY <1>6 DEF StrictOrder
  <2>2. q \in before(p) /\ q \notin before(q)
    BY <1>6 DEF StrictOrder
  <2>3. before(q) # before(p)
    BY <2>2
  <2>4. Cardinality(before(q)) < Cardinality(before(p))
    <3> HIDE DEF before
    <3>1. Cardinality(before(q)) <= Cardinality(before(p))
          /\ (Cardinality(before(q)) = Cardinality(before(p)) => before(q) = before(p))
      BY <1>2, <2>1, FS_Subset
    <3> QED
      BY <1>2, <2>3, <3>1
  <2> QED
    BY <1>4, <1>5, <2>4
<1> QED
  BY <1>6

-----------------------------------------------------------------------------
(* The promise of a page store, and of a full pool, under a single thread *)

\* A call brings in a page that is new, with the bytes it was given, or one that was made
\* before, with what its file holds; the caller of the latter has no guard.
Brings ==
  pc[Main] \in Calling \ {"on_insert"} =>
    IF op[Main] = "insert"
      THEN page[Main] \notin made /\ pc[Main] # "read" /\ buf[Main] \in Val
      ELSE /\ page[Main] \in made /\ guard[Main] = NoPage
           /\ pc[Main] # "read" => buf[Main] = disk[page[Main]]

\* An eviction writes what the frame holds, and nobody frees the frame meanwhile.
Writes ==
  /\ pc[Main] # "panicked"
  /\ pc[Main] \in {"ptr", "create", "write", "clean"} => victim[Main] \in dirty
  /\ pc[Main] = "create" => ptr[Main] = "live"
  /\ pc[Main] = "write" => image[Main] = data[victim[Main]]
  /\ pc[Main] = "clean" => disk[victim[Main]] = data[victim[Main]]
  /\ pc[Main] = "remove" => victim[Main] \notin dirty

\* The file of a clean frame holds what the frame does, unless a guard may be writing to
\* it; such a guard marks the frame before it lets go.
Backed ==
  /\ frames \subseteq made
  /\ \A p \in made \ frames : disk[p] \in Contents
  /\ \A p \in frames \ dirty : disk[p] = data[p] \/ (guard[Main] = p /\ writable[Main])
  /\ pc[Main] = "unpin" => guard[Main] \in dirty

Cached == Brings /\ Writes /\ Backed

\* The policy has an entry for every frame but one that it is being told of, and the scan
\* for a victim has all unpinned frames, seen or still to be seen.
Scanned ==
  /\ frames \subseteq tracked \cup {p \in {page[Main]} : pc[Main] = "on_insert"}
  /\ pc[Main] \in {"uncharge", "on_evict"} => victim[Main] \notin frames
  /\ pc[Main] \in {"visit", "pick"} => ~HasRoom(Main)
  /\ pc[Main] \in {"visit", "pick"} =>
       \A p \in frames : Evictable(p) => p \in unvisited[Main] \cup unpinned[Main]
  /\ pc[Main] = "pick" => unvisited[Main] = {}

LEMMA CachedStep ==
  ASSUME Alone, TypeInv, Fresh, Reserved, PinnedStays, Cached, [Next]_vars
  PROVE  Cached'
<1> USE DEF Alone, TypeInv, TypeOK, Located, Calling, Evicting, Flushing, Labels,
            Pages, NoPage, Fresh, Reserved, PinnedStays, Evictable, poolVars,
            lruVars, clientVars, callVars, evictVars, guardVars, Cached, Brings,
            Writes, Backed, Contents
<1>1. CASE UNCHANGED vars
  BY <1>1 DEF vars
<1>2. ASSUME NEW p \in Pages, NEW kind \in PinKinds, PinHit(Main, p, kind)
      PROVE  Cached'
  BY <1>2 DEF PinHit, Touch
<1>3. ASSUME NEW p \in Pages, NEW kind \in PinKinds, PinMiss(Main, p, kind)
      PROVE  Cached'
  BY <1>3 DEF PinMiss, Goto, MayPin, PinKinds
<1>4. ASSUME ReadOk(Main)
      PROVE  Cached'
  BY <1>4 DEF ReadOk, Goto
<1>5. ASSUME ReadFails(Main)
      PROVE  Cached'
  BY <1>5 DEF ReadFails, Return, Goto
<1>6. ASSUME NEW v \in Val, InsertBegin(Main, v)
      PROVE  Cached'
  BY <1>6 DEF InsertBegin, Goto
<1>7. ASSUME CheckRoom(Main)
      PROVE  Cached'
  BY <1>7 DEF CheckRoom, Goto
<1>8. ASSUME Charge(Main)
      PROVE  Cached'
  BY <1>8 DEF Charge, Goto
<1>9. ASSUME InsertFrame(Main)
      PROVE  Cached'
  <2>1. /\ pc[Main] = "insert" /\ page[Main] \in Pages /\ page[Main] \notin frames
        /\ buf[Main] \in Contents
    BY <1>9 DEF InsertFrame
  <2>2. /\ frames' = frames \cup {page[Main]} /\ made' = made \cup {page[Main]}
        /\ dirty' = IF op[Main] = "insert" THEN dirty \cup {page[Main]}
                    ELSE dirty \ {page[Main]}
        /\ pc' = [pc EXCEPT ![Main] = "on_insert"] /\ disk' = disk
        /\ data' = [data EXCEPT ![page[Main]] = buf[Main]]
    BY <1>9 DEF InsertFrame, Goto, DirtyOnInsert
  <2>3. pc'[Main] = "on_insert"
    BY <2>2
  <2>4. \A p \in Pages \ {page[Main]} : data'[p] = data[p]
    BY <2>2
  <2>5. data'[page[Main]] = buf[Main]
    BY <2>1, <2>2
  <2>6. op[Main] = "insert" => page[Main] \in dirty' /\ UNCHANGED <<guard, writable>>
    BY <1>9, <2>2 DEF InsertFrame
  <2>7. op[Main] # "insert" => disk'[page[Main]] = data'[page[Main]] /\ guard[Main] = NoPage
    BY <2>1, <2>2, <2>5
  <2>8. Backed'
    <3>1. frames' \subseteq made' /\ \A p \in made' \ frames' : disk'[p] \in Contents
      BY <2>2
    <3>2. ASSUME NEW p \in frames' \ dirty'
          PROVE  disk'[p] = data'[p] \/ (guard'[Main] = p /\ writable'[Main])
      BY <2>1, <2>2, <2>4, <2>6, <2>7, <3>2
    <3> QED
      BY <2>3, <3>1, <3>2
  <2>9. Brings' /\ Writes'
    BY <2>3
  <2> QED
    BY <2>8, <2>9
<1>10. ASSUME OnInsert(Main)
      PROVE  Cached'
  BY <1>10 DEF OnInsert, Return, Goto, Touch
<1>11. ASSUME NEW p \in Pages, Visit(Main, p)
      PROVE  Cached'
  BY <1>11, SMTT(30) DEF Visit, Goto
<1>12. ASSUME NEW p \in Pages, PickVictim(Main, p)
      PROVE  Cached'
  BY <1>12 DEF PickVictim, Goto, Candidates
<1>13. ASSUME PoolFull(Main)
      PROVE  Cached'
  BY <1>13 DEF PoolFull, Return, Goto
<1>14. ASSUME FlushIsDirty(Main)
      PROVE  Cached'
  BY <1>14 DEF FlushIsDirty, Goto
<1>15. ASSUME FlushPtr(Main)
      PROVE  Cached'
  BY <1>15 DEF FlushPtr, Goto
<1>16. ASSUME FlushCreate(Main)
      PROVE  Cached'
  BY <1>16 DEF FlushCreate, Goto
<1>17. ASSUME FlushWrite(Main)
      PROVE  Cached'
  BY <1>17 DEF FlushWrite, Goto
<1>18. ASSUME FlushFails(Main)
      PROVE  Cached'
  BY <1>18 DEF FlushFails, Return, Goto
<1>19. ASSUME FlushClean(Main)
      PROVE  Cached'
  BY <1>19 DEF FlushClean, Goto
<1>20. ASSUME RemoveFrame(Main)
      PROVE  Cached'
  <2>1. /\ pc[Main] = "remove" /\ victim[Main] \in frames /\ victim[Main] # page[Main]
        /\ guard[Main] # victim[Main]
    BY <1>20 DEF RemoveFrame
  <2>2. /\ frames' = frames \ {victim[Main]} /\ dirty' = dirty \ {victim[Main]}
        /\ UNCHANGED <<made, disk, page, op, buf, guard, writable>>
        /\ pc'[Main] = "uncharge"
        /\ \A p \in Pages \ {victim[Main]} : data'[p] = data[p]
    BY <1>20, <2>1 DEF RemoveFrame, Goto
  <2>3. disk[victim[Main]] \in Contents
    BY <2>1
  <2>4. Backed'
    BY <2>1, <2>2, <2>3
  <2>5. Brings' /\ Writes'
    BY <2>1, <2>2
  <2> QED
    BY <2>4, <2>5
<1>21. ASSUME Uncharge(Main)
      PROVE  Cached'
  BY <1>21 DEF Uncharge, Goto
<1>22. ASSUME OnEvict(Main)
      PROVE  Cached'
  BY <1>22 DEF OnEvict, Goto, Forget
<1>23. ASSUME NEW v \in Val, WriteThrough(Main, v)
      PROVE  Cached'
  BY <1>23 DEF WriteThrough
<1>24. ASSUME MarkDirty(Main)
      PROVE  Cached'
  BY <1>24 DEF MarkDirty, Goto
<1>25. ASSUME Unpin(Main)
      PROVE  Cached'
  BY <1>25 DEF Unpin, Goto
<1>26. ASSUME NEW v \in Val, ArenaPage(Main, v)
      PROVE  Cached'
  <2>1. /\ pc[Main] = "idle" /\ UNCHANGED <<frames, dirty, data, guard, writable, pc>>
        /\ \/ disk' = [disk EXCEPT ![next_id] = v] /\ made' = made \cup {next_id}
           \/ disk' = [disk EXCEPT ![next_id] = Torn] /\ made' = made
    BY <1>26 DEF ArenaPage
  <2>2. next_id \notin made /\ next_id \notin frames
    BY PoolAssumption
  <2>3. v \in Contents
    OBVIOUS
  <2>4. \A p \in Pages : p # next_id => disk'[p] = disk[p]
    BY <2>1, ZenonT(30)
  <2>5. next_id \in made' /\ next_id \in Pages => disk'[next_id] = v
    BY <2>1, <2>2
  <2>6. Backed'
    <3>0. next_id \in Pages
      BY PoolAssumption, <1>26 DEF ArenaPage
    <3>1. frames' \subseteq made' /\ frames' \cup made' \subseteq Pages
      BY <2>1, <3>0
    <3>2. ASSUME NEW p \in made' \ frames'
          PROVE  disk'[p] \in Contents
      <4>1. CASE p = next_id
        BY <2>3, <2>5, <3>1, <3>2, <4>1
      <4>2. CASE p # next_id
        BY <2>1, <2>4, <3>1, <3>2, <4>2
      <4> QED
        BY <4>1, <4>2
    <3>3. ASSUME NEW p \in frames' \ dirty'
          PROVE  disk'[p] = data'[p] \/ (guard'[Main] = p /\ writable'[Main])
      <4>1. p \in Pages /\ p # next_id /\ p \in frames \ dirty
        BY <2>1, <2>2, <3>3
      <4> QED
        BY <2>1, <2>4, <4>1
    <3> QED
      BY <2>1, <3>1, <3>2, <3>3
  <2>7. Brings' /\ Writes'
    BY <2>1
  <2> QED
    BY <2>6, <2>7
<1>27. ASSUME NEW safe \in SafeRam, SetBudget(safe)
      PROVE  Cached'
  BY <1>27 DEF SetBudget
<1> HIDE DEF Cached, TypeInv, Fresh, Reserved, PinnedStays
<1> QED
  BY <1>1, <1>2, <1>3, <1>4, <1>5, <1>6, <1>7, <1>8, <1>9, <1>10, <1>11, <1>12, <1>13, <1>14, <1>15, <1>16, <1>17, <1>18, <1>19, <1>20, <1>21, <1>22, <1>23, <1>24, <1>25, <1>26, <1>27
     DEF Next, Request, Continue, Drop, Alone

LEMMA ScannedStep ==
  ASSUME Alone, TypeInv, Fresh, Reserved, PinnedStays, Scanned, [Next]_vars
  PROVE  Scanned'
<1> USE DEF Alone, TypeInv, TypeOK, Located, Calling, Evicting, Flushing, Labels,
            Pages, NoPage, Fresh, Reserved, PinnedStays, Evictable, poolVars,
            lruVars, clientVars, callVars, evictVars, guardVars, Scanned, HasRoom
<1>1. CASE UNCHANGED vars
  BY <1>1 DEF vars
<1>2. ASSUME NEW p \in Pages, NEW kind \in PinKinds, PinHit(Main, p, kind)
      PROVE  Scanned'
  BY <1>2 DEF PinHit, Touch
<1>3. ASSUME NEW p \in Pages, NEW kind \in PinKinds, PinMiss(Main, p, kind)
      PROVE  Scanned'
  BY <1>3 DEF PinMiss, Goto, MayPin, PinKinds
<1>4. ASSUME ReadOk(Main)
      PROVE  Scanned'
  BY <1>4 DEF ReadOk, Goto
<1>5. ASSUME ReadFails(Main)
      PROVE  Scanned'
  BY <1>5 DEF ReadFails, Return, Goto
<1>6. ASSUME NEW v \in Val, InsertBegin(Main, v)
      PROVE  Scanned'
  BY <1>6 DEF InsertBegin, Goto
<1>7. ASSUME CheckRoom(Main)
      PROVE  Scanned'
  <2>1. CASE HasRoom(Main)
    BY <1>7, <2>1 DEF CheckRoom, Goto
  <2>2. CASE ~HasRoom(Main)
    <3>1. pc'[Main] = "visit" /\ unvisited'[Main] = Pages
      BY <1>7, <2>2 DEF CheckRoom, Goto
    <3>2. UNCHANGED <<frames, tracked, page, used_bytes, budget_bytes, unpinned>>
      BY <1>7 DEF CheckRoom
    <3>3. pc[Main] = "room"
      BY <1>7 DEF CheckRoom
    <3> QED
      BY <2>2, <3>1, <3>2, <3>3
  <2> QED
    BY <2>1, <2>2
<1>8. ASSUME Charge(Main)
      PROVE  Scanned'
  BY <1>8 DEF Charge, Goto
<1>9. ASSUME InsertFrame(Main)
      PROVE  Scanned'
  BY <1>9 DEF InsertFrame, Goto, DirtyOnInsert, PtrsWithout
<1>10. ASSUME OnInsert(Main)
      PROVE  Scanned'
  BY <1>10 DEF OnInsert, Return, Goto, Touch
<1>11. ASSUME NEW p \in Pages, Visit(Main, p)
      PROVE  Scanned'
  BY <1>11 DEF Visit, Goto
<1>12. ASSUME NEW p \in Pages, PickVictim(Main, p)
      PROVE  Scanned'
  BY <1>12 DEF PickVictim, Goto, Candidates
<1>13. ASSUME PoolFull(Main)
      PROVE  Scanned'
  BY <1>13 DEF PoolFull, Return, Goto
<1>14. ASSUME FlushIsDirty(Main)
      PROVE  Scanned'
  BY <1>14 DEF FlushIsDirty, Goto
<1>15. ASSUME FlushPtr(Main)
      PROVE  Scanned'
  BY <1>15 DEF FlushPtr, Goto
<1>16. ASSUME FlushCreate(Main)
      PROVE  Scanned'
  BY <1>16 DEF FlushCreate, Goto
<1>17. ASSUME FlushWrite(Main)
      PROVE  Scanned'
  BY <1>17 DEF FlushWrite, Goto
<1>18. ASSUME FlushFails(Main)
      PROVE  Scanned'
  BY <1>18 DEF FlushFails, Return, Goto
<1>19. ASSUME FlushClean(Main)
      PROVE  Scanned'
  BY <1>19 DEF FlushClean, Goto
<1>20. ASSUME RemoveFrame(Main)
      PROVE  Scanned'
  BY <1>20 DEF RemoveFrame, Goto, PtrsWithout
<1>21. ASSUME Uncharge(Main)
      PROVE  Scanned'
  BY <1>21 DEF Uncharge, Goto
<1>22. ASSUME OnEvict(Main)
      PROVE  Scanned'
  BY <1>22 DEF OnEvict, Goto, Forget
<1>23. ASSUME NEW v \in Val, WriteThrough(Main, v)
      PROVE  Scanned'
  BY <1>23 DEF WriteThrough
<1>24. ASSUME MarkDirty(Main)
      PROVE  Scanned'
  BY <1>24 DEF MarkDirty, Goto
<1>25. ASSUME Unpin(Main)
      PROVE  Scanned'
  BY <1>25 DEF Unpin, Goto
<1>26. ASSUME NEW v \in Val, ArenaPage(Main, v)
      PROVE  Scanned'
  BY <1>26 DEF ArenaPage
<1>27. ASSUME NEW safe \in SafeRam, SetBudget(safe)
      PROVE  Scanned'
  BY <1>27 DEF SetBudget
<1> HIDE DEF Scanned, TypeInv, Fresh, Reserved, PinnedStays
<1> QED
  BY <1>1, <1>2, <1>3, <1>4, <1>5, <1>6, <1>7, <1>8, <1>9, <1>10, <1>11, <1>12, <1>13, <1>14, <1>15, <1>16, <1>17, <1>18, <1>19, <1>20, <1>21, <1>22, <1>23, <1>24, <1>25, <1>26, <1>27
     DEF Next, Request, Continue, Drop, Alone

LEMMA OneThreadInvariant ==
  ASSUME Alone
  PROVE  Spec => [](TypeInv /\ Settled /\ PinnedStays /\ Cached /\ Scanned /\ StrictOrder)
<1>1. Init => Cached /\ Scanned /\ StrictOrder
  BY PoolAssumption
     DEF Init, Cached, Brings, Writes, Backed, Scanned, StrictOrder, Calling, Labels
<1>2. TypeInv /\ Settled /\ PinnedStays /\ Cached /\ [Next]_vars => Cached'
  BY CachedStep DEF Settled
<1>3. TypeInv /\ Settled /\ PinnedStays /\ Scanned /\ [Next]_vars => Scanned'
  BY ScannedStep DEF Settled
<1> QED
  BY <1>1, <1>2, <1>3, OrderStep, AloneInvariant, PTL DEF Spec

\* A step that leaves contents and guards as they are is not seen.
LEMMA Unseen ==
  ASSUME \A p \in Pages : Stored(p)' = Stored(p), \A t \in Threads : Opened(t)' = Opened(t)
  PROVE  UNCHANGED Store!vars
BY DEF Store!vars

LEMMA SameFrames ==
  ASSUME UNCHANGED <<frames, made, data, guard, writable>>,
         \A p \in made \ frames : disk'[p] = disk[p]
  PROVE  UNCHANGED Store!vars
<1>1. \A p \in Pages : Stored(p)' = Stored(p)
  BY DEF Stored
<1>2. \A t \in Threads : Opened(t)' = Opened(t)
  BY DEF Opened
<1> QED
  BY <1>1, <1>2, Unseen

\* A page that was made has contents, one that was not has none.
LEMMA StoredContents ==
  ASSUME TypeInv, Backed, NEW p \in Pages
  PROVE  Stored(p) = Absent <=> p \notin made
BY PoolAssumption DEF Stored, Backed, TypeInv, TypeOK, Contents

\* The step of a guard that is handed out: a page with contents is opened.
LEMMA Opens ==
  ASSUME Alone, TypeInv, Backed, NEW p \in made, guard[Main] = NoPage,
         guard' = [guard EXCEPT ![Main] = p],
         NEW w \in BOOLEAN, writable' = [writable EXCEPT ![Main] = w],
         \A q \in Pages : Stored(q)' = Stored(q)
  PROVE  Store!Next
<1>1. p \in Pages /\ p # NoPage /\ Main \in Threads
  BY DEF TypeInv, TypeOK, Pages, NoPage, Alone
<1>2. Stored(p) # Absent
  BY <1>1, StoredContents
<1>3. Opened(Main) = {} /\ Opened(Main)' = {<<p, w>>} /\ Threads = {Main}
  BY <1>1 DEF Opened, TypeInv, TypeOK, Alone
<1>4. Store!Open(Main, p, w)
  BY <1>1, <1>2, <1>3 DEF Store!Open
<1> QED
  BY <1>1, <1>4 DEF Store!Next

\* The step that makes a page.
LEMMA Creates ==
  ASSUME TypeInv, Backed, NEW p \in Pages, p \notin made, NEW v \in Val,
         Stored(p)' = v, \A q \in Pages \ {p} : Stored(q)' = Stored(q),
         UNCHANGED <<guard, writable>>
  PROVE  Store!Next
<1>1. Stored(p) = Absent
  BY StoredContents
<1>2. \A t \in Threads : Opened(t)' = Opened(t)
  BY DEF Opened
<1>3. Store!Create(p, v)
  BY <1>1, <1>2 DEF Store!Create
<1> QED
  BY <1>3 DEF Store!Next

LEMMA StoreStep ==
  ASSUME Alone, TypeInv, Fresh, Reserved, PinnedStays, Cached, [Next]_vars
  PROVE  [Store!Next]_(Store!vars)
<1> USE DEF Alone, poolVars, lruVars, clientVars, callVars, evictVars, guardVars
<1>1. CASE UNCHANGED vars
  BY <1>1, SameFrames DEF vars
<1>2. ASSUME NEW p \in Pages, NEW kind \in PinKinds, PinHit(Main, p, kind)
      PROVE  Store!Next
  <2>1. /\ p \in made /\ guard[Main] = NoPage /\ guard' = [guard EXCEPT ![Main] = p]
        /\ writable' = [writable EXCEPT ![Main] = (kind = "pin_mut")]
        /\ UNCHANGED <<frames, data, disk, made>>
    BY <1>2 DEF PinHit, MayPin
  <2>2. \A q \in Pages : Stored(q)' = Stored(q)
    BY <2>1 DEF Stored
  <2> QED
    BY <2>1, <2>2, Opens DEF Cached
<1>3. ASSUME NEW v \in Val, WriteThrough(Main, v)
      PROVE  Store!Next
  <2>1. PICK p \in Pages : p = guard[Main] /\ p # NoPage
    BY <1>3 DEF WriteThrough, TypeInv, TypeOK
  <2>2. /\ writable[Main] /\ data' = [data EXCEPT ![p] = v]
        /\ UNCHANGED <<frames, disk, made, guard, writable>>
    BY <1>3, <2>1 DEF WriteThrough
  <2>3. p \in frames /\ DOMAIN data = Pages
    BY <2>1 DEF TypeInv, TypeOK, PinnedStays
  <2>4. /\ Opened(Main) = {<<p, TRUE>>} /\ Main \in Threads
        /\ \A t \in Threads : Opened(t)' = Opened(t)
    BY <2>1, <2>2 DEF Opened, TypeInv, TypeOK
  <2>5. Stored(p)' = v /\ \A q \in Pages \ {p} : Stored(q)' = Stored(q)
    BY <2>2, <2>3 DEF Stored
  <2>6. Store!Write(Main, p, v)
    BY <2>4, <2>5 DEF Store!Write
  <2> QED
    BY <2>6 DEF Store!Next
<1>4. ASSUME NEW v \in Val, ArenaPage(Main, v)
      PROVE  Store!Next \/ UNCHANGED Store!vars
  <2>1. PICK p \in Pages : p = next_id
    BY <1>4, PoolAssumption DEF ArenaPage, TypeInv, TypeOK, Pages
  <2>2. p \notin made \cup frames /\ UNCHANGED <<frames, data, guard, writable>>
    BY <1>4, <2>1, PoolAssumption DEF ArenaPage, Fresh, Pages
  <2>3. CASE disk' = [disk EXCEPT ![p] = v] /\ made' = made \cup {p}
    <3>1. DOMAIN disk = Pages
      BY DEF TypeInv, TypeOK
    <3>2. Stored(p)' = v /\ \A q \in Pages \ {p} : Stored(q)' = Stored(q)
      BY <2>2, <2>3, <3>1 DEF Stored
    <3> QED
      BY <2>2, <3>2, Creates DEF Cached
  <2>4. CASE disk' = [disk EXCEPT ![p] = Torn] /\ made' = made
    <3>1. \A q \in made \ frames : disk'[q] = disk[q]
      BY <2>2, <2>4
    <3> QED
      BY <2>2, <2>4, <3>1, SameFrames
  <2> QED
    BY <1>4, <2>1, <2>3, <2>4 DEF ArenaPage
<1>5. ASSUME InsertFrame(Main)
      PROVE  Store!Next
  <2>1. PICK p \in Pages : p = page[Main]
    BY <1>5 DEF InsertFrame, TypeInv, Located, Calling, Labels
  <2>2. PICK v : v = buf[Main]
    OBVIOUS
  <2>3. pc[Main] = "insert" /\ p \notin frames
    BY <1>5, <2>1 DEF InsertFrame, Calling, Labels, Fresh
  <2>4. /\ frames' = frames \cup {p} /\ made' = made \cup {p} /\ disk' = disk
        /\ data' = [data EXCEPT ![p] = v] /\ DOMAIN data = Pages
    BY <1>5, <2>1, <2>2 DEF InsertFrame, TypeInv, TypeOK
  <2>5. Stored(p)' = v /\ \A q \in Pages \ {p} : Stored(q)' = Stored(q)
    BY <2>3, <2>4 DEF Stored
  <2>6. CASE op[Main] = "insert"
    <3>1. p \notin made /\ v \in Val
      BY <2>1, <2>2, <2>3, <2>6 DEF Cached, Brings, Calling, Labels
    <3>2. UNCHANGED <<guard, writable>>
      BY <1>5, <2>6 DEF InsertFrame, TypeInv, TypeOK
    <3> QED
      BY <2>5, <3>1, <3>2, Creates DEF Cached
  <2>7. CASE op[Main] # "insert"
    <3>1. p \in made /\ guard[Main] = NoPage /\ v = disk[p]
      BY <2>1, <2>2, <2>3, <2>7 DEF Cached, Brings, Calling, Labels
    <3>2. \A q \in Pages : Stored(q)' = Stored(q)
      BY <2>3, <2>5, <3>1 DEF Stored
    <3>3. PICK w \in BOOLEAN : w = (op[Main] = "pin_mut")
      OBVIOUS
    <3>4. /\ guard' = [guard EXCEPT ![Main] = p]
          /\ writable' = [writable EXCEPT ![Main] = w]
      BY <1>5, <2>1, <2>7, <3>3 DEF InsertFrame
    <3> QED
      BY <3>1, <3>2, <3>4, Opens DEF Cached
  <2> QED
    BY <2>6, <2>7
<1>6. ASSUME FlushCreate(Main) \/ FlushWrite(Main)
      PROVE  UNCHANGED Store!vars
  <2>1. /\ pc[Main] \in {"create", "write"} /\ UNCHANGED <<frames, made, data, guard, writable>>
        /\ \A p \in Pages \ {victim[Main]} : disk'[p] = disk[p]
    BY <1>6 DEF FlushCreate, FlushWrite, TypeInv, TypeOK
  <2>2. victim[Main] \in frames
    BY <2>1 DEF Reserved, Evictable, Flushing
  <2>3. \A p \in made \ frames : disk'[p] = disk[p]
    BY <2>1, <2>2 DEF TypeInv, TypeOK
  <2> QED
    BY <2>1, <2>3, SameFrames
<1>7. ASSUME RemoveFrame(Main)
      PROVE  UNCHANGED Store!vars
  <2> DEFINE v == victim[Main]
  <2>1. /\ pc[Main] = "remove" /\ UNCHANGED <<made, disk, guard, writable>>
        /\ frames' = frames \ {v} /\ \A p \in Pages \ {v} : data'[p] = data[p]
    BY <1>7 DEF RemoveFrame, TypeInv, TypeOK
  <2>2. v \in frames /\ v \in made /\ v \notin dirty /\ guard[Main] # v
    BY <2>1 DEF Reserved, Evictable, Flushing, Cached, Writes, Backed, PinnedStays, NoPage,
                TypeInv, TypeOK, Pages
  <2>3. disk[v] = data[v]
    BY <2>2 DEF Cached, Backed
  <2>4. \A p \in Pages : Stored(p)' = Stored(p)
    BY <2>1, <2>2, <2>3 DEF Stored
  <2>5. \A t \in Threads : Opened(t)' = Opened(t)
    BY <2>1 DEF Opened
  <2> QED
    BY <2>4, <2>5, Unseen
<1>8. ASSUME Unpin(Main)
      PROVE  Store!Next
  <2>1. /\ guard[Main] # NoPage /\ guard' = [guard EXCEPT ![Main] = NoPage]
        /\ UNCHANGED <<frames, made, data, disk>>
    BY <1>8 DEF Unpin
  <2>2. Opened(Main) # {} /\ Opened(Main)' = {} /\ Main \in Threads
    BY <2>1 DEF Opened, TypeInv, TypeOK
  <2>3. \A p \in Pages : Stored(p)' = Stored(p)
    BY <2>1 DEF Stored
  <2>4. Store!Close(Main)
    BY <2>2, <2>3 DEF Store!Close
  <2> QED
    BY <2>2, <2>4 DEF Store!Next
<1>9. ASSUME \/ \E p \in Pages, kind \in PinKinds : PinMiss(Main, p, kind)
             \/ \E v \in Val : InsertBegin(Main, v)
             \/ \E p \in Pages : Visit(Main, p) \/ PickVictim(Main, p)
             \/ ReadOk(Main) \/ ReadFails(Main) \/ CheckRoom(Main) \/ Charge(Main)
             \/ OnInsert(Main) \/ PoolFull(Main) \/ FlushIsDirty(Main) \/ FlushPtr(Main)
             \/ FlushFails(Main) \/ FlushClean(Main) \/ Uncharge(Main) \/ OnEvict(Main)
             \/ MarkDirty(Main) \/ \E safe \in SafeRam : SetBudget(safe)
      PROVE  UNCHANGED Store!vars
  <2>1. UNCHANGED <<frames, made, data, disk, guard, writable>>
    BY <1>9 DEF PinMiss, InsertBegin, Visit, PickVictim, ReadOk, ReadFails, CheckRoom, Charge,
                OnInsert, PoolFull, FlushIsDirty, FlushPtr, FlushFails, FlushClean, Uncharge,
                OnEvict, MarkDirty, SetBudget
  <2> QED
    BY <2>1, SameFrames
<1> QED
  BY <1>1, <1>2, <1>3, <1>4, <1>5, <1>6, <1>7, <1>8, <1>9 DEF Next, Request, Continue, Drop

\* Under a single thread the pool is a page store: caching, eviction, write-back and reload
\* are invisible, also when page files cannot be read or written.
THEOREM PoolImplementsPageStore ==
  ASSUME Threads = {Main}
  PROVE  Spec => ImplementsPageStore
<1>1. Init => Store!Init
  BY DEF Init, Store!Init, Stored, Opened
<1>2. TypeInv /\ Settled /\ PinnedStays /\ Cached /\ [Next]_vars => [Store!Next]_(Store!vars)
  BY StoreStep DEF Alone, Settled
<1> QED
  BY <1>1, <1>2, OneThreadInvariant, PTL DEF Alone, Spec, ImplementsPageStore, Store!Spec

\* Under a single thread a call is refused as full only if every resident page is pinned
\* and they leave no room for the page it brings.
THEOREM PoolFullIsReal ==
  ASSUME Threads = {Main}
  PROVE  Spec => FullIsReal
<1> DEFINE Real == \A t \in Threads : outcome'[t] = "full" /\ outcome[t] # "full" =>
                     /\ \A p \in frames : pin_count[p] > 0
                     /\ used_bytes + Size[page[t]] > budget_bytes
<1>1. TypeInv /\ Scanned /\ StrictOrder /\ [Next]_vars => [Real]_vars
  <2> SUFFICES ASSUME TypeInv, Scanned, StrictOrder, Next,
                      outcome'[Main] = "full", outcome[Main] # "full"
               PROVE  /\ \A p \in frames : pin_count[p] > 0
                      /\ used_bytes + Size[page[Main]] > budget_bytes
    OBVIOUS
  <2>1. PoolFull(Main)
    <3>1. ASSUME Request(Main) PROVE FALSE
      BY <3>1 DEF Request, PinHit, PinMiss, InsertBegin, WriteThrough, ArenaPage, TypeInv, TypeOK
    <3>2. ASSUME Drop(Main) PROVE FALSE
      BY <3>2 DEF Drop, MarkDirty, Unpin
    <3>3. ASSUME NEW safe \in SafeRam, SetBudget(safe) PROVE FALSE
      BY <3>3 DEF SetBudget
    <3>4. ASSUME Continue(Main), ~PoolFull(Main) PROVE FALSE
      BY <3>4 DEF Continue, ReadOk, ReadFails, CheckRoom, Charge, InsertFrame, OnInsert, Visit,
                  PickVictim, FlushIsDirty, FlushPtr, FlushCreate, FlushWrite, FlushFails,
                  FlushClean, RemoveFrame, Uncharge, OnEvict, Unpin, Return, TypeInv, TypeOK
    <3> QED
      BY <3>1, <3>2, <3>3, <3>4 DEF Next
  <2>2. /\ pc[Main] = "pick" /\ Candidates(unpinned[Main]) = {}
        /\ frames \in SUBSET tracked /\ unvisited[Main] = {}
        /\ \A p \in frames : Evictable(p) => p \in unpinned[Main]
    BY <2>1 DEF PoolFull, Scanned
  <2>3. unpinned[Main] \cap tracked = {}
    <3>1. CASE policy = "lru"
      <4>1. SUFFICES ASSUME unpinned[Main] \cap tracked # {}
                     PROVE  FALSE
        OBVIOUS
      <4>2. PICK p \in unpinned[Main] \cap tracked :
              \A q \in unpinned[Main] \cap tracked : <<q, p>> \notin older
        BY <4>1, LeastRecent, ZenonT(30) DEF TypeInv, TypeOK
      <4> QED
        BY <2>2, <3>1, <4>2 DEF Candidates
    <3>2. CASE policy # "lru"
      BY <2>2, <3>2 DEF Candidates
    <3> QED
      BY <3>1, <3>2
  <2>4. \A p \in frames : ~Evictable(p)
    BY <2>2, <2>3
  <2>5. \A p \in frames : pin_count[p] \in Nat /\ pin_count[p] # 0
    BY <2>4 DEF Evictable, TypeInv, TypeOK
  <2>6. ~HasRoom(Main) /\ page[Main] \in Pages
    BY <2>2 DEF Scanned, TypeInv, Located, Calling, Labels
  <2>7. used_bytes \in Int /\ budget_bytes \in Nat /\ Size[page[Main]] \in Nat
    BY <2>6, SizeType DEF TypeInv, TypeOK
  <2>8. \A p \in frames : pin_count[p] > 0
    BY <2>5
  <2> QED
    BY <2>6, <2>7, <2>8 DEF HasRoom
<1> QED
  BY <1>1, OneThreadInvariant, PTL DEF Alone, Spec, FullIsReal

-----------------------------------------------------------------------------
(* Any number of threads share a pool whose budget holds every page there is *)

\* A page that is on its way into the pool, and the pages whose bytes are charged already.
Bringing(t) == pc[t] \in {"read", "room", "charge", "insert"}
Coming == {page[t] : t \in {u \in Threads : pc[u] = "insert"}}

Holders(p) == {t \in Threads : guard[t] = p}

\* No call has to evict.
NoEviction == \A t \in Threads : Bringing(t) \/ pc[t] \in {"idle", "on_insert", "unpin"}

\* Every page on its way is new to the pool, and comes by one thread only.
Apart ==
  /\ frames \cup made \subseteq 1..(next_id - 1)
  /\ \A t \in Threads : Bringing(t) => page[t] \notin frames /\ page[t] < next_id
  /\ \A t, u \in Threads : Bringing(t) /\ Bringing(u) /\ t # u => page[t] # page[u]

\* The counter is exact: what is resident, and what is charged and on its way.
Counted == used_bytes = Weight(frames \cup Coming)

\* Pages made by insert_page stay: nobody misses one, and the pins are those of the guards.
Stays ==
  /\ made \subseteq frames
  /\ \A t \in Threads : Bringing(t) => pc[t] # "read" /\ op[t] = "insert"
  /\ \A t \in Threads : guard[t] # NoPage => guard[t] \in frames /\ ~dangling[t]
  /\ \A p \in Pages : pin_count[p] = Cardinality(Holders(p))

Roomy == NoEviction /\ Apart /\ Counted /\ (~Arena => Stays)

AmpleInv == Ample => Roomy

-----------------------------------------------------------------------------
(* Weights and pins *)

LEMMA ComingType == TypeInv => Coming \in SUBSET Pages
  BY DEF TypeInv, Located, Coming, Calling, Labels

\* Whatever is on its way, there is room for it.
LEMMA RoomForAll ==
  ASSUME TypeInv, Ample, Roomy, NEW t \in Threads, Bringing(t)
  PROVE  /\ page[t] \in Pages
         /\ used_bytes + (IF pc[t] = "insert" THEN 0 ELSE Size[page[t]]) <= budget_bytes
         /\ pc[t] # "insert" =>
              used_bytes + Size[page[t]] = Weight(frames \cup Coming \cup {page[t]})
<1> DEFINE p == page[t]
           S == frames \cup Coming
<1>1. p \in Pages
  BY DEF TypeInv, Located, Bringing, Calling, Labels
<1>2. S \in SUBSET Pages /\ S \cup {p} \in SUBSET Pages
  BY <1>1, ComingType DEF TypeInv, TypeOK
<1>3. /\ Weight(S) \in Nat /\ Weight(S \cup {p}) \in Nat /\ Weight(Pages) \in Nat
      /\ IsFiniteSet(Pages)
  BY <1>2, WeightFinite
<1>4. Weight(S) <= Weight(Pages) /\ Weight(S \cup {p}) <= Weight(Pages)
  BY <1>2, <1>3, SizeType, FootprintMonotone DEF Weight
<1>5. budget_bytes \in Nat /\ Size[p] \in Nat /\ used_bytes = Weight(S)
  BY <1>1, SizeType DEF TypeInv, TypeOK, Roomy, Counted
<1>6. ASSUME pc[t] # "insert"
      PROVE  Weight(S \cup {p}) = Weight(S) + Size[p]
  <2>1. p \notin frames
    BY DEF Roomy, Apart
  <2>2. p \notin Coming
    BY <1>6 DEF Roomy, Apart, Coming, Bringing
  <2> QED
    BY <1>1, <1>2, <2>1, <2>2, AddPage
<1> QED
  BY <1>1, <1>3, <1>4, <1>5, <1>6 DEF Ample

LEMMA HoldersFinite ==
  ASSUME NEW p
  PROVE  IsFiniteSet(Holders(p)) /\ Cardinality(Holders(p)) \in Nat
<1>1. Holders(p) \in SUBSET Threads
  BY DEF Holders
<1> QED
  BY <1>1, PoolAssumption, FS_Subset, FS_CardinalityType

\* A page some thread holds has a pin.
LEMMA HeldIsPinned ==
  ASSUME TypeInv, Stays, NEW t \in Threads, guard[t] # NoPage
  PROVE  guard[t] \in Pages /\ pin_count[guard[t]] > 0
<1>1. guard[t] \in Pages /\ t \in Holders(guard[t])
  BY DEF TypeInv, TypeOK, Holders
<1>2. Cardinality(Holders(guard[t])) # 0
  BY <1>1, HoldersFinite, FS_EmptySet
<1>3. pin_count[guard[t]] = Cardinality(Holders(guard[t]))
  BY <1>1 DEF Stays
<1> QED
  BY <1>1, <1>2, <1>3, HoldersFinite

\* Taking a guard adds a holder to its page, and to no other.
LEMMA GuardTaken ==
  ASSUME NEW t \in Threads, NEW p \in Pages, guard \in [Threads -> Pages \cup {NoPage}],
         guard[t] = NoPage, guard' = [guard EXCEPT ![t] = p]
  PROVE  /\ Cardinality(Holders(p)') = Cardinality(Holders(p)) + 1
         /\ \A q \in Pages \ {p} : Holders(q)' = Holders(q)
<1>1. Holders(p)' = Holders(p) \cup {t} /\ t \notin Holders(p)
  BY DEF Holders, Pages, NoPage
<1>2. \A q \in Pages \ {p} : Holders(q)' = Holders(q)
  BY DEF Holders, Pages, NoPage
<1>3. Cardinality(Holders(p) \cup {t}) = Cardinality(Holders(p)) + 1
  BY <1>1, HoldersFinite, FS_AddElement
<1> QED
  BY <1>1, <1>2, <1>3

\* Dropping it takes the holder away.
LEMMA GuardDropped ==
  ASSUME NEW t \in Threads, guard \in [Threads -> Pages \cup {NoPage}],
         guard[t] # NoPage, guard' = [guard EXCEPT ![t] = NoPage]
  PROVE  /\ Cardinality(Holders(guard[t])) # 0
         /\ Cardinality({u \in Threads : guard'[u] = guard[t]})
              = Cardinality(Holders(guard[t])) - 1
         /\ \A q \in Pages \ {guard[t]} : Holders(q)' = Holders(q)
<1> DEFINE p == guard[t]
           After == {u \in Threads : guard'[u] = p}
<1>1. p \in Pages /\ Holders(p) = After \cup {t} /\ t \notin After
  BY DEF Holders, Pages, NoPage
<1>2. \A q \in Pages \ {p} : Holders(q)' = Holders(q)
  BY DEF Holders, Pages, NoPage
<1>3. IsFiniteSet(After) /\ Cardinality(After) \in Nat
  <2>1. After \in SUBSET Threads
    OBVIOUS
  <2> QED
    BY <2>1, PoolAssumption, FS_Subset, FS_CardinalityType
<1>4. Cardinality(After \cup {t}) = Cardinality(After) + 1
  BY <1>1, <1>3, FS_AddElement
<1> QED
  BY <1>1, <1>2, <1>3, <1>4

-----------------------------------------------------------------------------
(* Steps *)

\* A thread other than t neither moves nor changes what its call is about.
OthersRest(t) == \A u \in Threads \ {t} : UNCHANGED <<pc[u], page[u], op[u]>>

\* A step that brings no new page keeps the pages on their way apart.
LEMMA StillApart ==
  ASSUME Roomy, NEW t \in Threads, OthersRest(t),
         UNCHANGED <<frames, made, next_id>>,
         Bringing(t)' => Bringing(t) /\ UNCHANGED page[t]
  PROVE  Apart'
  BY DEF Roomy, Apart, OthersRest, Bringing

\* A step that touches neither frames, pins nor the counter.
LEMMA StillRoomy ==
  ASSUME Roomy, NEW t \in Threads, OthersRest(t),
         UNCHANGED <<used_bytes, frames, pin_count, guard, dangling>>,
         pc[t] # "insert", pc'[t] # "insert",
         Bringing(t)' \/ pc'[t] \in {"idle", "on_insert", "unpin"},
         Apart',
         ~Arena => made' = made /\ (Bringing(t)' => pc'[t] # "read" /\ op'[t] = "insert")
  PROVE  Roomy'
<1>1. NoEviction'
  BY DEF Roomy, NoEviction, OthersRest, Bringing
<1>2. Counted'
  <2>1. {u \in Threads : pc'[u] = "insert"} = {u \in Threads : pc[u] = "insert"}
    BY DEF OthersRest
  <2>2. \A u \in Threads : pc[u] = "insert" => page'[u] = page[u]
    BY DEF OthersRest
  <2>3. Coming' = Coming
    BY <2>1, <2>2 DEF Coming
  <2> QED
    BY <2>3 DEF Roomy, Counted, Weight
<1>3. ASSUME ~Arena
      PROVE  Stays'
  <2>1. \A u \in Threads : Bringing(u)' => pc'[u] # "read" /\ op'[u] = "insert"
    BY <1>3 DEF Roomy, Stays, OthersRest, Bringing
  <2>2. \A p \in Pages : pin_count'[p] = Cardinality(Holders(p)')
    BY <1>3 DEF Roomy, Stays, Holders
  <2> QED
    BY <1>3, <2>1, <2>2 DEF Roomy, Stays
<1> QED
  BY <1>1, <1>2, <1>3 DEF Roomy

LEMMA PinMissRoomy ==
  ASSUME TypeInv, Roomy, NEW t \in Threads, NEW p \in Pages, NEW kind \in PinKinds,
         PinMiss(t, p, kind)
  PROVE  Roomy'
<1>1. Arena
  BY DEF PinMiss, MayPin, Roomy, Stays
<1>2. Threads = {Main} /\ t = Main
  BY <1>1, PoolAssumption
<1>3. pc'[t] = "read" /\ page'[t] = p /\ pc[t] = "idle" /\ p \in made \ frames
  BY DEF PinMiss, Goto, MayPin, TypeInv, TypeOK
<1>4. UNCHANGED <<used_bytes, frames, pin_count, guard, dangling, made, next_id>>
  BY DEF PinMiss, poolVars, clientVars, guardVars
<1>5. Apart'
  <2>1. next_id \in Nat /\ p \in 1..(next_id - 1)
    BY <1>3 DEF TypeInv, TypeOK, Roomy, Apart
  <2>2. \A u \in Threads : Bringing(u)' => page'[u] \notin frames' /\ page'[u] < next_id'
    BY <1>2, <1>3, <1>4, <2>1
  <2> QED
    BY <1>2, <1>4, <2>2 DEF Roomy, Apart
<1>6. OthersRest(t) /\ Bringing(t)'
  BY <1>2, <1>3 DEF OthersRest, Bringing
<1> QED
  BY <1>1, <1>3, <1>4, <1>5, <1>6, StillRoomy

LEMMA InsertBeginRoomy ==
  ASSUME TypeInv, Roomy, NEW t \in Threads, NEW v \in Val, InsertBegin(t, v)
  PROVE  Roomy'
<1>1. /\ pc[t] = "idle" /\ pc'[t] = "room" /\ page'[t] = next_id /\ op'[t] = "insert"
      /\ next_id' = next_id + 1 /\ next_id \in Nat
  BY DEF InsertBegin, Goto, TypeInv, TypeOK
<1>2. UNCHANGED <<used_bytes, frames, pin_count, guard, dangling, made>>
  BY DEF InsertBegin, poolVars, guardVars
<1>3. OthersRest(t)
  BY DEF InsertBegin, Goto, OthersRest, TypeInv, TypeOK
<1>4. Apart'
  <2>1. frames' \cup made' \subseteq 1..(next_id' - 1) /\ next_id \notin frames
    BY <1>1, <1>2 DEF Roomy, Apart
  <2>2. \A u \in Threads \ {t} : Bringing(u)' =>
          page'[u] \notin frames' /\ page'[u] < next_id /\ page'[u] \in Nat
    <3>1. page \in [Threads -> Nat]
      BY PoolAssumption DEF TypeInv, TypeOK, Pages, NoPage
    <3>2. \A u \in Threads \ {t} : pc'[u] = pc[u] /\ page'[u] = page[u]
      BY <1>3 DEF OthersRest
    <3> QED
      BY <1>2, <3>1, <3>2 DEF Roomy, Apart, Bringing
  <2>3. \A u \in Threads : Bringing(u)' => page'[u] \notin frames' /\ page'[u] < next_id'
    BY <1>1, <1>2, <2>1, <2>2
  <2>4. \A u, w \in Threads : Bringing(u)' /\ Bringing(w)' /\ u # w => page'[u] # page'[w]
    BY <1>1, <1>3, <2>2 DEF Roomy, Apart, OthersRest, Bringing
  <2> QED
    BY <2>1, <2>3, <2>4 DEF Apart
<1> QED
  BY <1>1, <1>2, <1>3, <1>4, StillRoomy DEF Bringing

\* Calls that go on with the page they have, or end.
LEMMA CallRoomy ==
  ASSUME TypeInv, Ample, Roomy, NEW t \in Threads,
         ReadOk(t) \/ ReadFails(t) \/ CheckRoom(t) \/ OnInsert(t) \/ MarkDirty(t)
  PROVE  Roomy'
<1>1. UNCHANGED <<used_bytes, frames, pin_count, guard, dangling, made, next_id>>
  BY DEF ReadOk, ReadFails, CheckRoom, OnInsert, MarkDirty, poolVars, clientVars, guardVars
<1>2. CASE ReadOk(t)
  <2>1. pc[t] = "read" /\ pc'[t] = "room" /\ page' = page /\ op' = op
    BY <1>2 DEF ReadOk, Goto, TypeInv, TypeOK
  <2>2. OthersRest(t)
    BY <1>2 DEF ReadOk, Goto, OthersRest, TypeInv, TypeOK
  <2>3. Apart'
    BY <1>1, <2>1, <2>2, StillApart DEF Bringing
  <2>4. Arena
    BY <2>1 DEF Roomy, Stays, Bringing
  <2> QED
    BY <1>1, <2>1, <2>2, <2>3, <2>4, StillRoomy DEF Bringing
<1>3. CASE ReadFails(t) \/ OnInsert(t)
  <2>1. pc[t] \in {"read", "on_insert"} /\ pc'[t] = "idle"
    BY <1>3 DEF ReadFails, OnInsert, Return, Goto, TypeInv, TypeOK
  <2>2. OthersRest(t)
    BY <1>3 DEF ReadFails, OnInsert, Return, Goto, OthersRest, TypeInv, TypeOK
  <2>3. Apart'
    BY <1>1, <2>1, <2>2, StillApart DEF Bringing
  <2> QED
    BY <1>1, <2>1, <2>2, <2>3, StillRoomy DEF Bringing
<1>4. CASE CheckRoom(t)
  <2>0. pc[t] = "room"
    BY <1>4 DEF CheckRoom
  <2>1. HasRoom(t)
    BY <2>0, RoomForAll DEF HasRoom, Bringing
  <2>2. pc[t] = "room" /\ pc'[t] = "charge" /\ page' = page /\ op' = op
    BY <1>4, <2>0, <2>1 DEF CheckRoom, Goto, callVars, TypeInv, TypeOK
  <2>3. OthersRest(t)
    BY <1>4, <2>1 DEF CheckRoom, Goto, callVars, OthersRest, TypeInv, TypeOK
  <2>4. Apart'
    BY <1>1, <2>2, <2>3, StillApart DEF Bringing
  <2> QED
    BY <1>1, <2>2, <2>3, <2>4, StillRoomy DEF Bringing, Roomy, Stays
<1>5. CASE MarkDirty(t)
  <2>1. pc[t] = "idle" /\ pc'[t] = "unpin"
    BY <1>5 DEF MarkDirty, Goto, TypeInv, TypeOK
  <2>2. OthersRest(t)
    BY <1>5 DEF MarkDirty, Goto, callVars, OthersRest, TypeInv, TypeOK
  <2>3. Apart'
    BY <1>1, <2>1, <2>2, StillApart DEF Bringing
  <2> QED
    BY <1>1, <2>1, <2>2, <2>3, StillRoomy DEF Bringing
<1> QED
  BY <1>2, <1>3, <1>4, <1>5

LEMMA RestRoomy ==
  ASSUME TypeInv, Roomy, NEW t \in Threads, NEW v \in Val,
         WriteThrough(t, v) \/ ArenaPage(t, v)
  PROVE  Roomy'
<1>1. /\ UNCHANGED <<used_bytes, frames, pin_count, guard, dangling, pc, page, op>>
      /\ pc[t] = "idle" /\ OthersRest(t)
  BY DEF WriteThrough, ArenaPage, poolVars, guardVars, callVars, OthersRest
<1>2. CASE WriteThrough(t, v)
  <2>1. UNCHANGED <<made, next_id>>
    BY <1>2 DEF WriteThrough, clientVars
  <2>2. Apart'
    BY <1>1, <2>1, StillApart DEF Bringing
  <2> QED
    BY <1>1, <2>1, <2>2, StillRoomy DEF Bringing
<1>3. CASE ArenaPage(t, v)
  <2>1. Arena /\ next_id' = next_id + 1 /\ made' \subseteq made \cup {next_id}
    BY <1>3 DEF ArenaPage
  <2>2. next_id \in Nat \ {0} /\ page \in [Threads -> Nat]
    BY PoolAssumption DEF TypeInv, TypeOK, Pages, NoPage
  <2>3. Apart'
    <3>1. frames' \cup made' \subseteq 1..(next_id' - 1)
      BY <1>1, <2>1, <2>2 DEF Roomy, Apart
    <3>2. \A u \in Threads : Bringing(u)' => page'[u] \notin frames' /\ page'[u] < next_id'
      BY <1>1, <2>1, <2>2 DEF Roomy, Apart, Bringing
    <3>3. \A u, w \in Threads : Bringing(u)' /\ Bringing(w)' /\ u # w => page'[u] # page'[w]
      BY <1>1 DEF Roomy, Apart, Bringing
    <3> QED
      BY <3>1, <3>2, <3>3 DEF Apart
  <2> QED
    BY <1>1, <2>1, <2>3, StillRoomy DEF Bringing
<1> QED
  BY <1>2, <1>3

\* The bytes of a page move from what there is room for to what is on its way.
LEMMA ChargeRoomy ==
  ASSUME TypeInv, Ample, Roomy, NEW t \in Threads, Charge(t)
  PROVE  Roomy'
<1>1. /\ pc[t] = "charge" /\ pc'[t] = "insert" /\ Bringing(t) /\ Bringing(t)'
      /\ UNCHANGED <<frames, pin_count, guard, dangling, page, op, made, next_id>>
  BY DEF Charge, Goto, Bringing, TypeInv, TypeOK, callVars, clientVars, guardVars
<1>2. OthersRest(t)
  BY DEF Charge, Goto, callVars, OthersRest, TypeInv, TypeOK
<1>3. Apart'
  BY <1>1, <1>2, StillApart
<1>4. NoEviction'
  BY <1>1, <1>2 DEF Roomy, NoEviction, OthersRest, Bringing
<1>5. Counted'
  <2>1. Coming' = Coming \cup {page[t]}
    BY <1>1, <1>2 DEF Coming, OthersRest
  <2>2. used_bytes' = Weight(frames \cup Coming \cup {page[t]})
    BY <1>1, RoomForAll DEF Charge
  <2>3. frames' \cup Coming' = frames \cup Coming \cup {page[t]}
    BY <1>1, <2>1
  <2> QED
    BY <2>2, <2>3 DEF Counted, Weight
<1>6. ASSUME ~Arena
      PROVE  Stays'
  <2>1. \A u \in Threads : Bringing(u)' => pc'[u] # "read" /\ op'[u] = "insert"
    BY <1>1, <1>2, <1>6 DEF Roomy, Stays, OthersRest, Bringing
  <2>2. \A p \in Pages : pin_count'[p] = Cardinality(Holders(p)')
    BY <1>1, <1>6 DEF Roomy, Stays, Holders
  <2> QED
    BY <1>1, <1>6, <2>1, <2>2 DEF Roomy, Stays
<1> QED
  BY <1>3, <1>4, <1>5, <1>6 DEF Roomy

\* The page is new, so no frame is replaced and nobody's guard is lost.
LEMMA InsertFrameRoomy ==
  ASSUME TypeInv, Ample, Roomy, NEW t \in Threads, InsertFrame(t)
  PROVE  Roomy'
<1> DEFINE p == page[t]
<1>1. /\ pc[t] = "insert" /\ pc'[t] = "on_insert" /\ Bringing(t) /\ ~Bringing(t)'
      /\ UNCHANGED <<used_bytes, page, op, next_id>>
      /\ frames' = frames \cup {p} /\ made' = made \cup {p}
  BY DEF InsertFrame, Goto, Bringing, TypeInv, TypeOK, callVars
<1>2. OthersRest(t)
  BY DEF InsertFrame, Goto, callVars, OthersRest, TypeInv, TypeOK
<1>3. p \in Pages /\ p \notin frames /\ p < next_id /\ p \in 1..(next_id - 1)
  <2>1. p \in Pages
    BY <1>1, RoomForAll
  <2> QED
    BY <1>1, <2>1, PoolAssumption DEF Roomy, Apart, TypeInv, TypeOK, Pages
<1>4. \A u \in Threads \ {t} : Bringing(u)' => Bringing(u) /\ page'[u] = page[u] /\ page[u] # p
  BY <1>1, <1>2 DEF Roomy, Apart, OthersRest, Bringing
<1>5. Apart'
  BY <1>1, <1>3, <1>4 DEF Roomy, Apart
<1>6. NoEviction'
  BY <1>1, <1>2 DEF Roomy, NoEviction, OthersRest, Bringing
<1>7. Counted'
  <2>1. Coming = Coming' \cup {p}
    BY <1>1, <1>2 DEF Coming, OthersRest
  <2>2. frames' \cup Coming' = frames \cup Coming
    BY <1>1, <2>1
  <2> QED
    BY <1>1, <2>2 DEF Roomy, Counted, Weight
<1>8. ASSUME ~Arena
      PROVE  Stays'
  <2>1. op[t] = "insert"
    BY <1>1, <1>8 DEF Roomy, Stays
  <2>2. guard' = guard /\ pin_count' = [pin_count EXCEPT ![p] = 0]
    BY <2>1 DEF InsertFrame
  <2>3. \A u \in Threads : dangling'[u] = dangling[u]
    BY <1>3, <2>1 DEF InsertFrame, TypeInv, TypeOK
  <2>4. \A u \in Threads : guard[u] # NoPage => guard[u] \in frames /\ ~dangling[u]
    BY <1>8 DEF Roomy, Stays
  <2>5. \A u \in Threads : guard'[u] # NoPage => guard'[u] \in frames' /\ ~dangling'[u]
    BY <1>1, <2>2, <2>3, <2>4
  <2>6. Holders(p) = {}
    BY <1>3, <2>4 DEF Holders, NoPage, Pages
  <2>7. pin_count' = pin_count
    <3>1. pin_count[p] = 0
      BY <1>3, <1>8, <2>6, FS_EmptySet DEF Roomy, Stays
    <3> QED
      BY <1>3, <2>2, <3>1 DEF TypeInv, TypeOK
  <2>8. \A q \in Pages : pin_count'[q] = Cardinality(Holders(q)')
    BY <1>8, <2>2, <2>7 DEF Roomy, Stays, Holders
  <2>9. \A u \in Threads : Bringing(u)' => pc'[u] # "read" /\ op'[u] = "insert"
    BY <1>1, <1>2, <1>8 DEF Roomy, Stays, OthersRest, Bringing
  <2>10. made' \subseteq frames'
    BY <1>1, <1>8 DEF Roomy, Stays
  <2> QED
    BY <2>5, <2>8, <2>9, <2>10 DEF Stays
<1> QED
  BY <1>5, <1>6, <1>7, <1>8 DEF Roomy

LEMMA PinHitRoomy ==
  ASSUME TypeInv, Roomy, NEW t \in Threads, NEW p \in Pages, NEW kind \in PinKinds,
         PinHit(t, p, kind)
  PROVE  Roomy'
<1>1. /\ UNCHANGED <<used_bytes, frames, pc, page, op, made, next_id>>
      /\ pc[t] = "idle" /\ p \in frames /\ guard[t] = NoPage
      /\ pin_count' = [pin_count EXCEPT ![p] = @ + 1]
      /\ guard' = [guard EXCEPT ![t] = p]
      /\ dangling' = [dangling EXCEPT ![t] = FALSE]
  BY DEF PinHit, callVars, clientVars
<1>2. Apart' /\ NoEviction'
  BY <1>1 DEF Roomy, Apart, NoEviction, Bringing
<1>3. Counted'
  BY <1>1 DEF Roomy, Counted, Coming, Weight
<1>4. ASSUME ~Arena
      PROVE  Stays'
  <2>1. guard \in [Threads -> Pages \cup {NoPage}] /\ pin_count \in [Pages -> Nat]
        /\ dangling \in [Threads -> BOOLEAN]
    BY DEF TypeInv, TypeOK
  <2>2. /\ Cardinality(Holders(p)') = Cardinality(Holders(p)) + 1
        /\ \A q \in Pages \ {p} : Holders(q)' = Holders(q)
    BY <1>1, <2>1, GuardTaken
  <2>3. \A q \in Pages : pin_count[q] = Cardinality(Holders(q))
    BY <1>4 DEF Roomy, Stays
  <2>4. pin_count'[p] = Cardinality(Holders(p)')
    BY <1>1, <2>1, <2>2, <2>3
  <2>5. \A q \in Pages \ {p} : pin_count'[q] = Cardinality(Holders(q)')
    BY <1>1, <2>1, <2>2, <2>3
  <2>6. \A u \in Threads : guard'[u] # NoPage => guard'[u] \in frames' /\ ~dangling'[u]
    BY <1>1, <1>4, <2>1 DEF Roomy, Stays
  <2> QED
    BY <1>1, <1>4, <2>4, <2>5, <2>6 DEF Roomy, Stays, Bringing
<1> QED
  BY <1>2, <1>3, <1>4 DEF Roomy

LEMMA UnpinRoomy ==
  ASSUME TypeInv, Roomy, NEW t \in Threads, Unpin(t)
  PROVE  Roomy'
<1> DEFINE p == guard[t]
<1>1. /\ UNCHANGED <<used_bytes, frames, page, op, made, next_id>>
      /\ pc[t] \in {"unpin", "idle"} /\ pc'[t] = "idle" /\ p # NoPage
      /\ guard' = [guard EXCEPT ![t] = NoPage]
      /\ dangling' = [dangling EXCEPT ![t] = FALSE]
  <2>1. pc[t] # "panicked"
    BY DEF Roomy, NoEviction, Bringing
  <2> QED
    BY <2>1 DEF Unpin, Goto, callVars, clientVars, TypeInv, TypeOK
<1>2. OthersRest(t)
  BY <1>1 DEF Unpin, Goto, OthersRest, TypeInv, TypeOK
<1>3. Apart'
  BY <1>1, <1>2, StillApart DEF Bringing
<1>4. NoEviction'
  BY <1>1, <1>2 DEF Roomy, NoEviction, OthersRest, Bringing
<1>5. Counted'
  <2>1. {u \in Threads : pc'[u] = "insert"} = {u \in Threads : pc[u] = "insert"}
    BY <1>1, <1>2 DEF OthersRest
  <2>2. Coming' = Coming
    BY <1>1, <2>1 DEF Coming
  <2> QED
    BY <1>1, <2>2 DEF Roomy, Counted, Weight
<1>6. ASSUME ~Arena
      PROVE  Stays'
  <2>1. guard \in [Threads -> Pages \cup {NoPage}] /\ pin_count \in [Pages -> Nat]
        /\ dangling \in [Threads -> BOOLEAN] /\ p \in Pages
    BY <1>1 DEF TypeInv, TypeOK
  <2>2. p \in frames /\ \A q \in Pages : pin_count[q] = Cardinality(Holders(q))
    BY <1>1, <1>6 DEF Roomy, Stays
  <2>3. /\ Cardinality(Holders(p)) # 0
        /\ Cardinality({u \in Threads : guard'[u] = p}) = Cardinality(Holders(p)) - 1
        /\ \A q \in Pages \ {p} : Holders(q)' = Holders(q)
    BY <1>1, <2>1, GuardDropped
  <2>4. pin_count' = [pin_count EXCEPT ![p] = pin_count[p] - 1]
    BY <2>1, <2>2, <2>3 DEF Unpin, Unpinned
  <2>5. \A q \in Pages \ {p} : pin_count'[q] = Cardinality(Holders(q)')
    BY <2>1, <2>2, <2>3, <2>4
  <2>6. pin_count'[p] = Cardinality({u \in Threads : guard'[u] = p})
    BY <2>1, <2>2, <2>3, <2>4
  <2>7. \A q \in Pages : pin_count'[q] = Cardinality({u \in Threads : guard'[u] = q})
    BY <2>5, <2>6 DEF Holders
  <2>8. \A u \in Threads : guard'[u] # NoPage => guard'[u] \in frames' /\ ~dangling'[u]
    BY <1>1, <1>6, <2>1 DEF Roomy, Stays
  <2>9. \A u \in Threads : Bringing(u)' => pc'[u] # "read" /\ op'[u] = "insert"
    BY <1>1, <1>2, <1>6 DEF Roomy, Stays, OthersRest, Bringing
  <2> QED
    BY <1>1, <1>6, <2>7, <2>8, <2>9 DEF Roomy, Stays, Holders
<1> QED
  BY <1>3, <1>4, <1>5, <1>6 DEF Roomy

\* What evicts does not happen.
LEMMA NothingEvicts ==
  ASSUME Roomy, NEW t \in Threads
  PROVE  /\ \A p \in Pages : ~Visit(t, p) /\ ~PickVictim(t, p)
         /\ ~PoolFull(t) /\ ~FlushIsDirty(t) /\ ~FlushPtr(t) /\ ~FlushCreate(t)
         /\ ~FlushWrite(t) /\ ~FlushFails(t) /\ ~FlushClean(t) /\ ~RemoveFrame(t)
         /\ ~Uncharge(t) /\ ~OnEvict(t)
  BY DEF Roomy, NoEviction, Bringing, Visit, PickVictim, PoolFull, FlushIsDirty, FlushPtr,
         FlushCreate, FlushWrite, FlushFails, FlushClean, RemoveFrame, Uncharge, OnEvict

LEMMA UnchangedRoomy ==
  ASSUME Roomy, UNCHANGED <<used_bytes, frames, pin_count, guard, dangling, pc, page, op,
                            made, next_id>>
  PROVE  Roomy'
<1>1. Counted'
  BY DEF Roomy, Counted, Coming, Weight
<1> QED
  BY <1>1 DEF Roomy, NoEviction, Apart, Stays, Bringing, Holders

LEMMA AmpleStep == TypeInv /\ AmpleInv /\ [Next]_vars => AmpleInv'
<1> SUFFICES ASSUME TypeInv, AmpleInv, [Next]_vars, Ample'
             PROVE  Roomy'
  BY DEF AmpleInv
<1>1. budget_bytes' \in Nat /\ budget_bytes \in Nat
  BY TypeStep DEF TypeInv, TypeOK
<1>2. budget_bytes' <= budget_bytes
  <2>1. UNCHANGED vars => UNCHANGED budget_bytes
    BY DEF vars, poolVars
  <2>2. ASSUME NEW t \in Threads, Request(t) \/ Continue(t) \/ Drop(t)
        PROVE  UNCHANGED budget_bytes
    BY <2>2 DEF Request, Continue, Drop, PinHit, PinMiss, ReadOk, ReadFails, InsertBegin,
                CheckRoom, Charge, InsertFrame, OnInsert, Visit, PickVictim, PoolFull,
                FlushIsDirty, FlushPtr, FlushCreate, FlushWrite, FlushFails, FlushClean,
                RemoveFrame, Uncharge, OnEvict, WriteThrough, MarkDirty, Unpin, ArenaPage,
                poolVars
  <2>3. ASSUME NEW safe \in SafeRam, SetBudget(safe)
        PROVE  budget_bytes' < budget_bytes
    BY <2>3 DEF SetBudget
  <2> QED
    BY <1>1, <2>1, <2>2, <2>3 DEF Next
<1>3. Ample
  <2>1. budget_bytes' >= Weight(Pages) /\ Weight(Pages) \in Nat
    BY WeightFinite DEF Ample, Weight
  <2> QED
    BY <1>1, <1>2, <2>1 DEF Ample
<1>4. Roomy
  BY <1>3 DEF AmpleInv
<1>5. CASE UNCHANGED vars
  BY <1>4, <1>5, UnchangedRoomy DEF vars, poolVars, clientVars, callVars, guardVars
<1>6. ASSUME NEW t \in Threads, Request(t)
      PROVE  Roomy'
  BY <1>4, <1>6, PinHitRoomy, PinMissRoomy, InsertBeginRoomy, RestRoomy DEF Request
<1>7. ASSUME NEW t \in Threads, Continue(t)
      PROVE  Roomy'
  BY <1>3, <1>4, <1>7, NothingEvicts, CallRoomy, ChargeRoomy, InsertFrameRoomy, UnpinRoomy
     DEF Continue
<1>8. ASSUME NEW t \in Threads, Drop(t)
      PROVE  Roomy'
  BY <1>3, <1>4, <1>8, CallRoomy, UnpinRoomy DEF Drop
<1>9. ASSUME NEW safe \in SafeRam, SetBudget(safe)
      PROVE  Roomy'
  BY <1>4, <1>9, UnchangedRoomy DEF SetBudget, clientVars, callVars, guardVars
<1> QED
  BY <1>5, <1>6, <1>7, <1>8, <1>9 DEF Next

LEMMA AmpleInit == Init => AmpleInv
<1> SUFFICES ASSUME Init PROVE Roomy
  BY DEF AmpleInv
<1>1. NoEviction /\ Apart
  BY DEF Init, NoEviction, Apart, Bringing
<1>2. Counted
  <2>1. frames \cup Coming = {} /\ Bytes({}, Size, MaxSize) = {}
    BY DEF Init, Coming, Bytes
  <2> QED
    BY <2>1, FS_EmptySet DEF Init, Counted, Weight, Footprint
<1>3. Stays
  <2>1. \A p \in Pages : Holders(p) = {} /\ pin_count[p] = 0
    BY DEF Init, Holders, Pages, NoPage
  <2> QED
    BY <2>1, FS_EmptySet DEF Init, Stays, Bringing
<1> QED
  BY <1>1, <1>2, <1>3 DEF Roomy

\* With a budget that holds every page, however many threads there are, guards stay
\* valid, the counter is exact between calls, and the budget holds at every moment.
THEOREM PoolAmpleIsSafe == Spec => []AmpleIsSafe
<1>1. ASSUME TypeInv, AmpleInv, Ample
      PROVE  UsedIsResident /\ used_bytes <= budget_bytes /\ (~Arena => PinnedStays)
  <2>1. Roomy
    BY <1>1 DEF AmpleInv
  <2>2. Quiet => Coming = {}
    BY DEF Quiet, Coming
  <2>3. UsedIsResident
    BY <2>1, <2>2 DEF UsedIsResident, Roomy, Counted
  <2>4. used_bytes <= budget_bytes
    <3>1. frames \cup Coming \in SUBSET Pages
      BY <1>1, ComingType DEF TypeInv, TypeOK
    <3>2. /\ Weight(frames \cup Coming) \in Nat /\ Weight(Pages) \in Nat
          /\ IsFiniteSet(Pages) /\ budget_bytes \in Nat
      BY <1>1, <3>1, WeightFinite DEF TypeInv, TypeOK
    <3>3. Weight(frames \cup Coming) <= Weight(Pages)
      BY <3>1, <3>2, SizeType, FootprintMonotone DEF Weight
    <3> QED
      BY <1>1, <2>1, <3>2, <3>3 DEF Ample, Roomy, Counted
  <2>5. ~Arena => PinnedStays
    BY <1>1, <2>1, HeldIsPinned DEF Roomy, Stays, PinnedStays
  <2> QED
    BY <2>3, <2>4, <2>5
<1>2. Spec => []AmpleInv
  BY AmpleInit, AmpleStep, TypeCorrect, PTL DEF Spec
<1>3. CASE Arena
  <2>1. Threads = {Main}
    BY <1>3, PoolAssumption
  <2>2. TypeInv /\ AmpleInv /\ PinnedStays => AmpleIsSafe
    BY <1>1 DEF AmpleIsSafe
  <2>3. Spec => []PinnedStays
    BY <2>1, PoolPinnedStays
  <2> QED
    BY <1>2, <2>2, <2>3, TypeCorrect, PTL
<1>4. CASE ~Arena
  <2>1. TypeInv /\ AmpleInv => AmpleIsSafe
    BY <1>1, <1>4 DEF AmpleIsSafe
  <2> QED
    BY <1>2, <2>1, TypeCorrect, PTL
<1> QED
  BY <1>3, <1>4

-----------------------------------------------------------------------------
(* The chunker: what a page holds, and where the directory finds it *)

\* A page is within its size, or it is one transaction.
FitsPage(txs) == BytesOf(txs) <= page_size_bytes \/ Len(txs) = 1

ChunkerTypes ==
  /\ page_size_bytes \in Nat /\ current_page_id \in Nat
  /\ current_page_buf \in Seq(Transactions)
  /\ DOMAIN directory \subseteq Nat
  /\ given \subseteq Transactions
  /\ returned \in {"nothing", "ok", "error"}

\* The tids of the buffer lie between its first and its last one.
Buffered ==
  /\ Range(current_page_buf) \subseteq given
  /\ current_page_buf # <<>> =>
       /\ current_page_start_tid \in Range(current_page_buf)
       /\ current_page_end_tid \in Range(current_page_buf)
       /\ \A u \in Range(current_page_buf) :
            current_page_start_tid <= u /\ u <= current_page_end_tid
       /\ FitsPage(current_page_buf)

\* An entry of the directory is of a written page, whose tids lie between its start and
\* its end; no later page is given its id.
Listed(s) ==
  /\ s \in given /\ directory[s].page \in DOMAIN pages
  /\ directory[s].page < current_page_id /\ directory[s].page \in Nat
  /\ pages[directory[s].page] \in Seq(Transactions)
  /\ Range(pages[directory[s].page]) \subseteq given
  /\ directory[s].end \in given
  /\ \A u \in Range(pages[directory[s].page]) : s <= u /\ u <= directory[s].end
  /\ FitsPage(pages[directory[s].page])

\* Pages follow one another, and the buffer follows them.
PagesApart ==
  /\ \A s1, s2 \in DOMAIN directory : s1 < s2 => directory[s1].end < s2
  /\ current_page_buf # <<>> =>
       \A s \in DOMAIN directory :
         s < current_page_start_tid /\ directory[s].end < current_page_start_tid

\* What was taken is in the buffer or on a listed page.
Somewhere(t) ==
  \/ t \in Range(current_page_buf)
  \/ \E s \in DOMAIN directory : t \in Range(pages[directory[s].page])

ChunkerInv ==
  /\ ChunkerTypes /\ Buffered /\ PagesApart
  /\ \A s \in DOMAIN directory : Listed(s)
  /\ \A t \in given : Somewhere(t)
  /\ returned = "ok" => current_page_buf = <<>>

LEMMA AppendRange ==
  ASSUME NEW txs \in Seq(Transactions), NEW t \in Transactions
  PROVE  /\ Append(txs, t) \in Seq(Transactions) /\ Append(txs, t) # <<>>
         /\ Range(Append(txs, t)) = Range(txs) \cup {t}
         /\ t \in Range(Append(txs, t))
         /\ txs = <<>> => Len(Append(txs, t)) = 1 /\ Range(txs) = {}
         /\ Range(txs) \subseteq Transactions /\ IsFiniteSet(Range(txs))
<1>1. IsFiniteSet(Range(txs))
  <2>1. IsFiniteSet(DOMAIN txs)
    BY FS_Interval
  <2>2. txs \in Surjection(DOMAIN txs, Range(txs))
    BY DEF Surjection, Range
  <2> QED
    BY <2>1, <2>2, FS_Surjection
<1>2. Range(Append(txs, t)) = Range(txs) \cup {t}
  <2> DEFINE n == Len(txs)
  <2>1. n \in Nat /\ DOMAIN txs = 1..n /\ DOMAIN Append(txs, t) = 1..(n + 1)
    OBVIOUS
  <2>2. \A i \in 1..n : Append(txs, t)[i] = txs[i]
    OBVIOUS
  <2>3. Append(txs, t)[n + 1] = t
    OBVIOUS
  <2>4. \A i : i \in 1..(n + 1) <=> i \in 1..n \/ i = n + 1
    BY <2>1
  <2> HIDE DEF n
  <2> QED
    BY <2>1, <2>2, <2>3, <2>4 DEF Range
<1> QED
  BY <1>1, <1>2 DEF Range

LEMMA BytesAppended ==
  ASSUME NEW txs \in Seq(Transactions), NEW t \in Transactions
  PROVE  /\ BytesOf(txs) \in Nat /\ BytesOf(Append(txs, t)) \in Nat
         /\ TxBytes[t] \in Nat
         /\ BytesOf(Append(txs, t)) <= BytesOf(txs) + TxBytes[t]
<1> DEFINE old == Range(txs)
           new == Range(Append(txs, t))
<1>1. IsFiniteSet(old) /\ new = old \cup {t}
  BY AppendRange
<1>2. TxBytes[t] \in 0..MaxTxBytes /\ MaxTxBytes \in Nat
  BY ChunkerAssumption
<1> HIDE DEF old, new
<1>3. Footprint(old \cup {t}, TxBytes, MaxTxBytes)
        <= Footprint(old, TxBytes, MaxTxBytes) + TxBytes[t]
  BY <1>1, <1>2, AddMember
<1>4. IsFiniteSet(new)
  BY <1>1, FS_AddElement
<1>5. /\ Footprint(old, TxBytes, MaxTxBytes) \in Nat
      /\ Footprint(new, TxBytes, MaxTxBytes) \in Nat
  BY <1>1, <1>2, <1>4, BytesFinite
<1>6. Footprint(new, TxBytes, MaxTxBytes)
        <= Footprint(old, TxBytes, MaxTxBytes) + TxBytes[t]
  BY <1>1, <1>3
<1> QED
  BY <1>2, <1>5, <1>6 DEF BytesOf, HeaderBytes, old, new

LEMMA ChunkerInitInv == ChunkerInit => ChunkerInv
<1> SUFFICES ASSUME ChunkerInit
             PROVE  ChunkerInv
  OBVIOUS
<1>1. DOMAIN directory = {} /\ given = {} /\ current_page_buf = <<>>
  BY DEF ChunkerInit
<1>2. Range(current_page_buf) = {}
  BY <1>1 DEF Range
<1>3. ChunkerTypes
  BY <1>1, ChunkerAssumption DEF ChunkerInit, ChunkerTypes
<1> QED
  BY <1>1, <1>2, <1>3 DEF ChunkerInit, ChunkerInv, Buffered, PagesApart

\* A written buffer is one more entry of the directory, and leaves the others as they were.
LEMMA WritePageLists ==
  ASSUME ChunkerInv, current_page_buf # <<>>, WritePage, given \subseteq given',
         page_size_bytes' = page_size_bytes
  PROVE  /\ DOMAIN directory' \subseteq Nat /\ current_page_id' \in Nat
         /\ \A s \in DOMAIN directory' : Listed(s)'
         /\ \A s1, s2 \in DOMAIN directory' : s1 < s2 => directory'[s1].end < s2
         /\ \A s \in DOMAIN directory' : s \in given /\ directory'[s].end \in given
         /\ \A t \in given : \E s \in DOMAIN directory' : t \in Range(pages'[directory'[s].page])
<1> DEFINE start == current_page_start_tid
           D == DOMAIN directory
<1>1. /\ DOMAIN directory' = D \cup {start}
      /\ directory'[start].end = current_page_end_tid
      /\ directory'[start].page = current_page_id
      /\ \A s \in D : s # start => directory'[s] = directory[s]
  <2>1. directory' = Put(directory, start, Entry)
    BY DEF WritePage
  <2>2. Entry.end = current_page_end_tid /\ Entry.page = current_page_id
    BY DEF Entry
  <2> HIDE DEF start
  <2> QED
    BY <2>1, <2>2 DEF Put
<1>2. /\ DOMAIN pages' = DOMAIN pages \cup {current_page_id}
      /\ pages'[current_page_id] = current_page_buf
      /\ \A p \in DOMAIN pages : p # current_page_id => pages'[p] = pages[p]
  <2>1. pages' = Put(pages, current_page_id, current_page_buf)
    BY DEF WritePage
  <2> QED
    BY <2>1 DEF Put
<1>3. /\ D \subseteq Nat /\ given \subseteq Nat /\ current_page_id \in Nat
      /\ current_page_id' = current_page_id + 1
  BY ChunkerAssumption DEF ChunkerInv, ChunkerTypes, WritePage
<1>4. /\ start \in given /\ current_page_end_tid \in given
      /\ start \in Nat /\ current_page_end_tid \in Nat
  BY <1>3 DEF ChunkerInv, Buffered
<1>5. \A s \in D : Listed(s) /\ s < start /\ directory[s].end < start /\ directory[s].end \in Nat
  BY <1>3 DEF ChunkerInv, PagesApart, Listed
<1>6. start \notin D
  BY <1>3, <1>4, <1>5
<1>7. start <= current_page_end_tid
  BY DEF ChunkerInv, Buffered
<1> HIDE DEF start, D
<1>8. ASSUME NEW s \in D
      PROVE  /\ directory'[s] = directory[s]
             /\ pages'[directory[s].page] = pages[directory[s].page]
  BY <1>1, <1>2, <1>3, <1>5, <1>6 DEF Listed
<1>9. \A s \in D : Listed(s)'
  <2> TAKE s \in D
  <2>1. /\ directory'[s] = directory[s]
        /\ pages'[directory[s].page] = pages[directory[s].page]
    BY <1>8
  <2>2. /\ Listed(s)
        /\ directory[s].page \in DOMAIN pages' /\ directory[s].page < current_page_id'
    BY <1>2, <1>3, <1>5 DEF Listed
  <2> QED
    BY <2>1, <2>2 DEF Listed, FitsPage
<1>10. ASSUME NEW s, s = start
       PROVE  Listed(s)'
  <2>1. /\ current_page_buf \in Seq(Transactions) /\ Range(current_page_buf) \subseteq given
        /\ \A u \in Range(current_page_buf) : start <= u /\ u <= current_page_end_tid
        /\ FitsPage(current_page_buf)
    BY DEF ChunkerInv, ChunkerTypes, Buffered, start
  <2>2. current_page_id < current_page_id' /\ current_page_id \in DOMAIN pages'
    BY <1>2, <1>3
  <2>3. given \subseteq given' /\ page_size_bytes' = page_size_bytes
    OBVIOUS
  <2>4. \A u \in Range(pages'[current_page_id]) : start <= u /\ u <= current_page_end_tid
    BY <1>2, <2>1
  <2> QED
    BY <1>1, <1>2, <1>3, <1>4, <1>10, <2>1, <2>2, <2>3, <2>4 DEF Listed, FitsPage
<1>11. \A s1, s2 \in DOMAIN directory' : s1 < s2 => directory'[s1].end < s2
  <2> TAKE s1, s2 \in DOMAIN directory'
  <2>1. CASE s1 \in D /\ s2 \in D
    BY <2>1, <1>8 DEF ChunkerInv, PagesApart, D
  <2>2. CASE s1 \in D /\ s2 = start
    BY <2>2, <1>5, <1>8
  <2>3. CASE s1 = start
    <3>1. s2 \in Nat /\ (s2 < start \/ s2 = start)
      BY <1>1, <1>3, <1>4, <1>5
    <3> QED
      BY <2>3, <3>1, <1>4
  <2> QED
    BY <2>1, <2>2, <2>3, <1>1
<1>12. \A s \in DOMAIN directory' : s \in given /\ directory'[s].end \in given
  BY <1>1, <1>4, <1>5, <1>8 DEF Listed
<1>13. ASSUME NEW t \in given
       PROVE  \E s \in DOMAIN directory' : t \in Range(pages'[directory'[s].page])
  <2>1. CASE t \in Range(current_page_buf)
    BY <2>1, <1>1, <1>2
  <2>2. CASE t \notin Range(current_page_buf)
    <3>1. PICK s \in D : t \in Range(pages[directory[s].page])
      BY <2>2 DEF ChunkerInv, Somewhere, D
    <3> QED
      BY <3>1, <1>1, <1>8
  <2> QED
    BY <2>1, <2>2
<1>14. \A s \in DOMAIN directory' : Listed(s)'
  BY <1>1, <1>9, <1>10
<1>15. DOMAIN directory' \subseteq Nat /\ current_page_id' \in Nat
  BY <1>1, <1>3, <1>4
<1> QED
  BY <1>11, <1>12, <1>13, <1>14, <1>15

\* A failed write changes no listed page.
LEMMA WriteFailsLists ==
  ASSUME ChunkerInv, WriteFails, UNCHANGED <<current_page_buf, tidVars, given, page_size_bytes>>,
         returned' \in {"nothing", "error"}
  PROVE  ChunkerInv'
<1>1. /\ current_page_id \in DOMAIN pages'
      /\ DOMAIN pages' = DOMAIN pages \cup {current_page_id}
      /\ \A p \in DOMAIN pages : p # current_page_id => pages'[p] = pages[p]
  <2>1. pages' = Put(pages, current_page_id, Unwritten)
    BY DEF WriteFails
  <2> QED
    BY <2>1 DEF Put
<1>2. ASSUME NEW s \in DOMAIN directory
      PROVE  /\ Listed(s) /\ directory[s].page # current_page_id
             /\ pages'[directory[s].page] = pages[directory[s].page]
  BY <1>1 DEF ChunkerInv, ChunkerTypes, Listed
<1>3. /\ directory' = directory /\ current_page_id' = current_page_id
      /\ current_page_buf' = current_page_buf /\ given' = given
      /\ page_size_bytes' = page_size_bytes
      /\ current_page_start_tid' = current_page_start_tid
      /\ current_page_end_tid' = current_page_end_tid
  BY DEF WriteFails, tidVars
<1>4. \A s \in DOMAIN directory : Listed(s)'
  BY <1>1, <1>2, <1>3 DEF Listed, FitsPage
<1>5. ChunkerTypes' /\ Buffered' /\ PagesApart'
  BY <1>3 DEF ChunkerInv, ChunkerTypes, Buffered, PagesApart, FitsPage
<1>6. \A t \in given : Somewhere(t)'
  BY <1>2, <1>3 DEF ChunkerInv, Somewhere
<1> QED
  BY <1>3, <1>4, <1>5, <1>6 DEF ChunkerInv

\* The transaction goes to the end of a buffer that has room for it.
LEMMA AppendKeeps ==
  ASSUME ChunkerInv, NEW t \in Transactions, \A u \in given : u < t, ~Full(t),
         Taken(current_page_buf, t), UNCHANGED <<pageVars, page_size_bytes, returned>>,
         returned = "nothing"
  PROVE  ChunkerInv'
<1> DEFINE txs == Append(current_page_buf, t)
<1>1. /\ current_page_buf \in Seq(Transactions) /\ Range(current_page_buf) \subseteq given
      /\ given \subseteq Nat /\ t \in Nat /\ t \notin given
  BY ChunkerAssumption DEF ChunkerInv, ChunkerTypes, Buffered
<1>2. /\ txs \in Seq(Transactions) /\ txs # <<>> /\ t \in Range(txs)
      /\ Range(txs) = Range(current_page_buf) \cup {t}
      /\ current_page_buf = <<>> => Len(txs) = 1 /\ Range(current_page_buf) = {}
  BY <1>1, AppendRange
<1>3. FitsPage(txs)
  <2>1. /\ BytesOf(current_page_buf) \in Nat /\ BytesOf(txs) \in Nat /\ TxBytes[t] \in Nat
        /\ BytesOf(txs) <= BytesOf(current_page_buf) + TxBytes[t]
    BY <1>1, BytesAppended
  <2>2. page_size_bytes \in Nat
    BY DEF ChunkerInv, ChunkerTypes
  <2>3. current_page_buf = <<>> => Len(txs) = 1
    BY <1>2
  <2> HIDE DEF txs
  <2> QED
    BY <2>1, <2>2, <2>3 DEF Full, FitsPage
<1>4. /\ current_page_buf' = txs /\ given' = given \cup {t}
      /\ current_page_start_tid' = IF current_page_buf = <<>> THEN t ELSE current_page_start_tid
      /\ current_page_end_tid' = t
      /\ directory' = directory /\ pages' = pages /\ current_page_id' = current_page_id
      /\ page_size_bytes' = page_size_bytes /\ returned' = "nothing"
  BY DEF Taken, pageVars
<1> HIDE DEF txs
<1>5. ChunkerTypes'
  BY <1>2, <1>4 DEF ChunkerInv, ChunkerTypes
<1>6. Buffered'
  <2>1. Range(txs) \subseteq given'
    BY <1>1, <1>2, <1>4
  <2>2. current_page_start_tid' \in Range(txs) /\ current_page_end_tid' \in Range(txs)
    BY <1>2, <1>4 DEF ChunkerInv, Buffered
  <2>3. \A u \in Range(txs) : current_page_start_tid' <= u /\ u <= current_page_end_tid'
    <3>1. CASE current_page_buf = <<>>
      BY <3>1, <1>1, <1>2, <1>4
    <3>2. CASE current_page_buf # <<>>
      <4>1. /\ current_page_start_tid \in Range(current_page_buf)
            /\ \A u \in Range(current_page_buf) : current_page_start_tid <= u
        BY <3>2 DEF ChunkerInv, Buffered
      <4> QED
        BY <3>2, <4>1, <1>1, <1>2, <1>4
    <3> QED
      BY <3>1, <3>2
  <2>4. BytesOf(txs) <= page_size_bytes' \/ Len(txs) = 1
    BY <1>3, <1>4 DEF FitsPage
  <2> QED
    BY <1>4, <2>1, <2>2, <2>3, <2>4 DEF Buffered, FitsPage
<1>7. PagesApart'
  <2>1. \A s \in DOMAIN directory : s \in given /\ directory[s].end \in given
    BY DEF ChunkerInv, Listed
  <2> QED
    BY <1>4, <2>1 DEF ChunkerInv, PagesApart
<1>8. \A s \in DOMAIN directory : Listed(s)'
  BY <1>4 DEF ChunkerInv, Listed, FitsPage
<1>9. \A u \in given' : Somewhere(u)'
  BY <1>2, <1>4 DEF ChunkerInv, Somewhere
<1> QED
  BY <1>4, <1>5, <1>6, <1>7, <1>8, <1>9 DEF ChunkerInv

\* The full buffer is written, and the transaction is the first of the next one.
LEMMA NextPageKeeps ==
  ASSUME ChunkerInv, NEW t \in Transactions, \A u \in given : u < t, Full(t),
         WritePage, Taken(<<>>, t), UNCHANGED <<page_size_bytes, returned>>,
         returned = "nothing"
  PROVE  ChunkerInv'
<1> DEFINE txs == Append(<<>>, t)
<1>1. <<>> \in Seq(Transactions) /\ given \subseteq Nat /\ t \in Nat
  BY ChunkerAssumption DEF ChunkerInv, ChunkerTypes
<1>2. /\ txs \in Seq(Transactions) /\ txs # <<>> /\ Len(txs) = 1 /\ t \in Range(txs)
      /\ Range(txs) = {t}
  <2> DEFINE empty == <<>>
  <2>1. empty \in Seq(Transactions) /\ txs = Append(empty, t)
    BY <1>1
  <2> HIDE DEF txs, empty
  <2>2. /\ txs \in Seq(Transactions) /\ txs # <<>> /\ t \in Range(txs)
        /\ Range(txs) = Range(empty) \cup {t}
        /\ empty = <<>> => Len(txs) = 1 /\ Range(empty) = {}
    BY <2>1, AppendRange
  <2> QED
    BY <2>2 DEF empty
<1>3. /\ current_page_buf' = txs /\ given' = given \cup {t}
      /\ current_page_start_tid' = t /\ current_page_end_tid' = t
      /\ page_size_bytes' = page_size_bytes /\ returned' = "nothing"
  BY DEF Taken
<1> HIDE DEF txs
<1>4. /\ DOMAIN directory' \subseteq Nat /\ current_page_id' \in Nat
      /\ \A s \in DOMAIN directory' : Listed(s)'
      /\ \A s1, s2 \in DOMAIN directory' : s1 < s2 => directory'[s1].end < s2
      /\ \A s \in DOMAIN directory' : s \in given /\ directory'[s].end \in given
      /\ \A u \in given : \E s \in DOMAIN directory' : u \in Range(pages'[directory'[s].page])
  BY <1>3, WritePageLists DEF Full
<1>5. ChunkerTypes'
  BY <1>2, <1>3, <1>4 DEF ChunkerInv, ChunkerTypes
<1>6. Buffered'
  BY <1>1, <1>2, <1>3 DEF Buffered, FitsPage
<1>7. PagesApart'
  BY <1>3, <1>4 DEF PagesApart
<1>8. \A u \in given' : Somewhere(u)'
  BY <1>2, <1>3, <1>4 DEF Somewhere
<1> QED
  BY <1>3, <1>4, <1>5, <1>6, <1>7, <1>8 DEF ChunkerInv

\* The buffer is written and nothing is put into the next one.
LEMMA FlushKeeps ==
  ASSUME ChunkerInv, current_page_buf # <<>>, WritePage, current_page_buf' = <<>>,
         UNCHANGED <<page_size_bytes, given>>, returned' \in {"nothing", "ok"}
  PROVE  ChunkerInv'
<1>1. given' = given /\ page_size_bytes' = page_size_bytes /\ given \subseteq given'
  OBVIOUS
<1>2. /\ DOMAIN directory' \subseteq Nat /\ current_page_id' \in Nat
      /\ \A s \in DOMAIN directory' : Listed(s)'
      /\ \A s1, s2 \in DOMAIN directory' : s1 < s2 => directory'[s1].end < s2
      /\ \A u \in given : \E s \in DOMAIN directory' : u \in Range(pages'[directory'[s].page])
  BY <1>1, WritePageLists
<1>3. Range(current_page_buf') = {}
  BY DEF Range
<1>4. ChunkerTypes'
  BY <1>1, <1>2 DEF ChunkerInv, ChunkerTypes
<1>5. Buffered' /\ PagesApart'
  BY <1>1, <1>2, <1>3 DEF Buffered, PagesApart
<1>6. \A u \in given' : Somewhere(u)'
  BY <1>1, <1>2 DEF Somewhere
<1> QED
  BY <1>1, <1>2, <1>4, <1>5, <1>6 DEF ChunkerInv

LEMMA ChunkerStep == ChunkerInv /\ [ChunkerNext]_chunkerVars => ChunkerInv'
<1> SUFFICES ASSUME ChunkerInv, [ChunkerNext]_chunkerVars
             PROVE  ChunkerInv'
  OBVIOUS
<1>1. CASE UNCHANGED chunkerVars
  BY <1>1 DEF chunkerVars, tidVars, pageVars, ChunkerInv, ChunkerTypes, Buffered, PagesApart, Listed,
              Somewhere, FitsPage
<1>2. ASSUME NEW t \in Transactions, add_transaction(t)
      PROVE  ChunkerInv'
  <2>1. /\ returned = "nothing" /\ returned' = "nothing" /\ \A u \in given : u < t
        /\ UNCHANGED <<page_size_bytes, returned>>
    BY <1>2 DEF add_transaction
  <2>2. CASE ~Full(t) /\ Taken(current_page_buf, t) /\ UNCHANGED pageVars
    BY <2>1, <2>2, AppendKeeps
  <2>3. CASE Full(t) /\ WritePage /\ Taken(<<>>, t)
    BY <2>1, <2>3, NextPageKeeps
  <2>4. CASE Full(t) /\ WriteFails /\ UNCHANGED <<current_page_buf, tidVars, given>>
    BY <2>1, <2>4, WriteFailsLists
  <2> QED
    BY <1>2, <2>2, <2>3, <2>4 DEF add_transaction
<1>3. CASE flush_page
  <2>1. CASE WritePage /\ current_page_buf' = <<>>
    BY <1>3, <2>1, FlushKeeps DEF flush_page
  <2>2. CASE WriteFails /\ UNCHANGED current_page_buf
    BY <1>3, <2>2, WriteFailsLists DEF flush_page
  <2> QED
    BY <1>3, <2>1, <2>2 DEF flush_page
<1>4. CASE finalize
  <2>1. CASE current_page_buf = <<>> /\ returned' = "ok" /\ UNCHANGED <<current_page_buf, pageVars>>
    BY <1>4, <2>1 DEF finalize, tidVars, pageVars, ChunkerInv, ChunkerTypes, Buffered, PagesApart,
              Listed, Somewhere, FitsPage
  <2>2. CASE /\ current_page_buf # <<>> /\ WritePage
             /\ current_page_buf' = <<>> /\ returned' = "ok"
    BY <1>4, <2>2, FlushKeeps DEF finalize
  <2>3. CASE /\ current_page_buf # <<>> /\ WriteFails
             /\ returned' = "error" /\ UNCHANGED current_page_buf
    BY <1>4, <2>3, WriteFailsLists DEF finalize
  <2> QED
    BY <1>4, <2>1, <2>2, <2>3 DEF finalize
<1> QED
  BY <1>1, <1>2, <1>3, <1>4 DEF ChunkerNext

LEMMA ChunkerCorrect == ChunkerSpec => []ChunkerInv
  BY ChunkerInitInv, ChunkerStep, PTL DEF ChunkerSpec

\* No transaction that add_transaction took is lost: not by writes that fail and are tried
\* again, nor by pages that one large transaction fills.
THEOREM ChunkerFindable == ChunkerSpec => []Findable
<1>1. ChunkerInv => Findable
  <2> SUFFICES ASSUME ChunkerInv, NEW t \in given
               PROVE  \/ t \in Range(current_page_buf) /\ returned # "ok"
                      \/ \E e \in find_page(t) :
                           pages[e.page] # Unwritten /\ t \in Range(pages[e.page])
    BY DEF Findable
  <2>1. CASE t \in Range(current_page_buf)
    BY <2>1 DEF ChunkerInv, Range
  <2>2. CASE t \notin Range(current_page_buf)
    <3>1. PICK s \in DOMAIN directory : t \in Range(pages[directory[s].page])
      BY <2>2 DEF ChunkerInv, Somewhere
    <3>2. DOMAIN directory \subseteq Nat /\ t \in Nat
      BY ChunkerAssumption DEF ChunkerInv, ChunkerTypes
    <3>3. s <= t /\ t <= directory[s].end /\ directory[s].end \in Nat
      BY <3>1, ChunkerAssumption DEF ChunkerInv, ChunkerTypes, Listed
    <3>4. ASSUME NEW v \in DOMAIN directory, v <= t
          PROVE  v <= s
      BY <3>2, <3>3, <3>4 DEF ChunkerInv, PagesApart
    <3>5. directory[s] \in find_page(t)
      BY <3>3, <3>4 DEF find_page
    <3>6. pages[directory[s].page] # Unwritten
      <4> DEFINE txs == pages[directory[s].page]
      <4>1. txs \in Seq(Transactions)
        BY DEF ChunkerInv, Listed
      <4> HIDE DEF txs
      <4>2. ASSUME txs = Unwritten
            PROVE  FALSE
        <5>1. Len(txs) = 1 /\ txs[1] = -1
          BY <4>2 DEF Unwritten
        <5>2. txs[1] \in Transactions
          BY <4>1, <5>1
        <5> QED
          BY <5>1, <5>2, ChunkerAssumption
      <4> QED
        BY <4>2 DEF txs
    <3> QED
      BY <3>1, <3>5, <3>6
  <2> QED
    BY <2>1, <2>2
<1> QED
  BY <1>1, ChunkerCorrect, PTL

\* Every page of the directory is within the page size, or holds one transaction.
THEOREM ChunkerPagesFit == ChunkerSpec => []PagesFit
<1>1. ChunkerInv => PagesFit
  BY DEF ChunkerInv, PagesFit, Listed, FitsPage
<1> QED
  BY <1>1, ChunkerCorrect, PTL
=============================================================================
