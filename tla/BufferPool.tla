----------------------------- MODULE BufferPool -----------------------------
(***************************************************************************)
(* The byte-budgeted page cache of src/buffer_pool: a concurrent map of    *)
(* frames over a chunk store, an atomic byte counter and an eviction       *)
(* policy behind a mutex.                                                  *)
(*                                                                         *)
(* One action is one access to shared state.  The DashMap shard lock is    *)
(* held for the whole of the hit path, and released before everything      *)
(* else, so each later access to frames, used_bytes, the policy or the     *)
(* page file is a step of its own.  Relaxed atomics on one counter are     *)
(* modelled as steps on one variable.                                      *)
(*                                                                         *)
(* A guard is a raw pointer into the frame's box: removing or replacing    *)
(* the frame frees the box, and the guard is then dangling.                *)
(***************************************************************************)
EXTENDS Integers, FiniteSets, Footprints

CONSTANTS
  Threads,   \* threads that call the pool
  Main,      \* the thread that sets up the shared pages before mining
  MaxPages,  \* page ids are 1..MaxPages (bounds FileChunkStore's counter)
  NShared,   \* pages 1..NShared are read by every thread (TwoPhase's vertical
             \* database); any other page only by the thread that made it
  MaxSize,   \* no page is larger than this
  Size,      \* payload bytes of each page
  Budgets,   \* budgets the pool may be created with
  SafeRam,   \* amounts of RAM apply_os_safety_net may find available
  Val,       \* page contents
  Garbage,   \* what is read through a pointer to a freed frame
  Torn,      \* a file that was truncated and not yet written back
  Absent,    \* no such file
  Arena,     \* TRUE: clients may also do what NodeArena does: pin_mut, and pages
             \* written straight to the store
  Faults     \* TRUE: reads and writes of page files may fail

Pages == 1..MaxPages
NoPage == 0

ASSUME PoolAssumption ==
  /\ Main \in Threads /\ IsFiniteSet(Threads)
  /\ MaxPages \in Nat /\ NShared \in 0..MaxPages
  /\ MaxSize \in Nat /\ Size \in [Pages -> 0..MaxSize]
  /\ Budgets \subseteq Nat /\ SafeRam \subseteq Nat
  /\ Torn \notin Val \cup {Garbage} /\ Absent \notin Val \cup {Garbage}
  /\ Garbage \notin Val
  /\ Arena \in BOOLEAN /\ Faults \in BOOLEAN
  /\ Arena => Threads = {Main}  \* every caller of pin_mut is sequential code

VARIABLES
  \* the pool
  budget_bytes, used_bytes,
  frames,                      \* keys of the frame map
  pin_count, dirty, data,      \* of each frame
  policy,                      \* the EvictionPolicy the pool was built with
  tracked,                     \* LruPolicy: keys of last_access
  older,                       \* LruPolicy: <<p, q>>: p's last access is earlier
  \* the chunk store
  disk, next_id,
  \* the clients' pages: created with success, allocated by
  made, owner,
  \* each thread: program counter, the call, the eviction in it, the guard
  pc,
  op, page, buf,
  unvisited, unpinned, victim, ptr, image, freed,
  guard, writable, dangling,
  outcome                      \* of the last call

poolVars == <<budget_bytes, used_bytes, frames, pin_count, dirty, data>>
lruVars == <<policy, tracked, older>>
clientVars == <<made, owner>>
callVars == <<op, page, buf>>
evictVars == <<unvisited, unpinned, victim, ptr, image, freed>>
guardVars == <<guard, writable, dangling>>
vars == <<poolVars, lruVars, disk, next_id, clientVars, pc, callVars, evictVars,
          guardVars, outcome>>

Contents == Val \cup {Garbage}

Init ==
  /\ budget_bytes \in Budgets /\ used_bytes = 0
  /\ frames = {}
  /\ pin_count = [p \in Pages |-> 0]
  /\ dirty = {}
  /\ data = [p \in Pages |-> Garbage]
  /\ policy \in {"lru", "mining_aware"}
  /\ tracked = {} /\ older = {}
  /\ disk = [p \in Pages |-> Absent] /\ next_id = 1
  /\ made = {} /\ owner = [p \in Pages |-> Main]
  /\ pc = [t \in Threads |-> "idle"]
  /\ op = [t \in Threads |-> "pin"]
  /\ page = [t \in Threads |-> NoPage]
  /\ buf = [t \in Threads |-> Garbage]
  /\ unvisited = [t \in Threads |-> {}] /\ unpinned = [t \in Threads |-> {}]
  /\ victim = [t \in Threads |-> NoPage]
  /\ ptr = [t \in Threads |-> "none"]
  /\ image = [t \in Threads |-> Garbage]
  /\ freed = [t \in Threads |-> 0]
  /\ guard = [t \in Threads |-> NoPage]
  /\ writable = [t \in Threads |-> FALSE]
  /\ dangling = [t \in Threads |-> FALSE]
  /\ outcome = [t \in Threads |-> "none"]

-----------------------------------------------------------------------------
(* Helpers *)

\* The payload bytes of a set of pages.
Weight(S) == Footprint(S, Size, MaxSize)

Goto(t, label) == pc' = [pc EXCEPT ![t] = label]

\* A call returns: its locals are dead.
Return(t, result) ==
  /\ Goto(t, "idle")
  /\ outcome' = [outcome EXCEPT ![t] = result]
  /\ op' = [op EXCEPT ![t] = "pin"]
  /\ page' = [page EXCEPT ![t] = NoPage]
  /\ buf' = [buf EXCEPT ![t] = Garbage]

\* Threads other than Main run mining tasks: they start when the set-up is done.
Running(t) == t = Main \/ 1..NShared \subseteq made
MayPin(t, p) == p \in made /\ (p <= NShared \/ owner[p] = t)

\* The order of last_access without page p.
Without(p) == {pair \in older : pair[1] # p /\ pair[2] # p}

\* Mutant of Touch: on_access and on_insert only refresh an entry that exists.
TouchKnown(p) ==
  /\ UNCHANGED tracked
  /\ older' = IF p \in tracked THEN Without(p) \cup {<<q, p>> : q \in tracked \ {p}}
              ELSE older

\* LruPolicy::on_access and on_insert: p becomes the most recent.
Touch(p) ==
  /\ tracked' = tracked \cup {p}
  /\ older' = Without(p) \cup {<<q, p>> : q \in tracked \ {p}}

\* LruPolicy::on_evict.  (MiningAwarePolicy keeps nothing per page.)
Forget(p) ==
  /\ tracked' = tracked \ {p}
  /\ older' = Without(p)

\* pick_victim over the unpinned pages of a snapshot.  Lru: the least recent of
\* those it has an entry for.  Mining aware: any, since the score mixes recency,
\* frequency, prediction and measured load time.
Candidates(S) ==
  IF policy = "lru"
  THEN {p \in S \cap tracked : \A q \in S \cap tracked : <<q, p>> \notin older}
  ELSE S

\* Mutant of Evictable: the pin count is not looked at.
EvictablePinned(p) == p \in frames

\* is_pinned decides what the snapshot offers to pick_victim.
Evictable(p) == p \in frames /\ pin_count[p] = 0

\* Dropping the frame of page p frees its box: the guards and the flush pointers
\* into it dangle.
GuardsWithout(p) == [t \in Threads |-> dangling[t] \/ guard[t] = p]
PtrsWithout(p) ==
  [t \in Threads |-> IF ptr[t] = "live" /\ victim[t] = p THEN "freed" ELSE ptr[t]]

\* Mutant of Unpinned: an ordinary subtraction.
UnpinnedBelowZero(n) == n - 1

\* unpin: saturating_sub.
Unpinned(n) == IF n = 0 THEN 0 ELSE n - 1

\* Mutants of HasRoom: the new page is not counted; a full budget is no room.
HasRoomAlready(t) == used_bytes <= budget_bytes
HasRoomToSpare(t) == used_bytes + Size[page[t]] < budget_bytes

\* The head of the eviction loops: is used_bytes + page_size within budget_bytes?
HasRoom(t) == used_bytes + Size[page[t]] <= budget_bytes

\* Mutants of Released: the counter is left alone; a frame that is already gone is
\* counted again.
ReleasedNothing(v) == 0
ReleasedAgain(v) == Size[v]

\* What frames.remove gives back: nothing when another evictor was first.
Released(v) == IF v \in frames THEN Size[v] ELSE 0

\* Mutant of DirtyOnInsert: a new frame is taken to be clean.
CleanOnInsert(kind) == FALSE

\* insert_page marks the frame dirty; a page read from disk starts clean.
DirtyOnInsert(kind) == kind = "insert"

-----------------------------------------------------------------------------
(* pin, pin_mut, insert_page *)

\* Hit: under the shard lock, count the pin, touch the policy, build the guard.
PinHit(t, p, kind) ==
  /\ pc[t] = "idle" /\ guard[t] = NoPage /\ Running(t) /\ MayPin(t, p)
  /\ p \in frames
  /\ pin_count' = [pin_count EXCEPT ![p] = @ + 1]
  /\ Touch(p)
  /\ guard' = [guard EXCEPT ![t] = p]
  /\ writable' = [writable EXCEPT ![t] = (kind = "pin_mut")]
  /\ dangling' = [dangling EXCEPT ![t] = FALSE]
  /\ outcome' = [outcome EXCEPT ![t] = "ok"]
  /\ UNCHANGED <<budget_bytes, used_bytes, frames, dirty, data, policy, disk,
                 next_id, clientVars, pc, callVars, evictVars>>

PinMiss(t, p, kind) ==
  /\ pc[t] = "idle" /\ guard[t] = NoPage /\ Running(t) /\ MayPin(t, p)
  /\ p \notin frames
  /\ Goto(t, "read")
  /\ op' = [op EXCEPT ![t] = kind]
  /\ page' = [page EXCEPT ![t] = p]
  /\ outcome' = [outcome EXCEPT ![t] = "none"]
  /\ UNCHANGED <<poolVars, lruVars, disk, next_id, clientVars, buf, evictVars,
                 guardVars>>

\* store.read_page: a missing or torn file fails its checks.
ReadOk(t) ==
  /\ pc[t] = "read"
  /\ disk[page[t]] \in Contents
  /\ buf' = [buf EXCEPT ![t] = disk[page[t]]]
  /\ Goto(t, "room")
  /\ UNCHANGED <<poolVars, lruVars, disk, next_id, clientVars, op, page, evictVars,
                 guardVars, outcome>>

ReadFails(t) ==
  /\ pc[t] = "read"
  /\ disk[page[t]] \notin Contents \/ Faults
  /\ Return(t, "io")
  /\ UNCHANGED <<poolVars, lruVars, disk, next_id, clientVars, evictVars, guardVars>>

\* next_page_id, then insert_page with the bytes v.  The caller may hold a guard.
InsertBegin(t, v) ==
  /\ pc[t] = "idle" /\ Running(t)
  /\ next_id <= MaxPages
  /\ next_id' = next_id + 1
  /\ owner' = [owner EXCEPT ![next_id] = t]
  /\ op' = [op EXCEPT ![t] = "insert"]
  /\ page' = [page EXCEPT ![t] = next_id]
  /\ buf' = [buf EXCEPT ![t] = v]
  /\ outcome' = [outcome EXCEPT ![t] = "none"]
  /\ Goto(t, "room")
  /\ UNCHANGED <<poolVars, lruVars, disk, made, evictVars, guardVars>>

\* while used_bytes + page_size > budget_bytes { evict_one() }
CheckRoom(t) ==
  /\ pc[t] = "room"
  /\ IF HasRoom(t)
     THEN Goto(t, "charge") /\ UNCHANGED unvisited
     ELSE Goto(t, "visit") /\ unvisited' = [unvisited EXCEPT ![t] = Pages]
  /\ UNCHANGED <<poolVars, lruVars, disk, next_id, clientVars, callVars, unpinned,
                 victim, ptr, image, freed, guardVars, outcome>>

Charge(t) ==
  /\ pc[t] = "charge"
  /\ used_bytes' = used_bytes + Size[page[t]]
  /\ Goto(t, "insert")
  /\ UNCHANGED <<budget_bytes, frames, pin_count, dirty, data, lruVars, disk,
                 next_id, clientVars, callVars, evictVars, guardVars, outcome>>

\* frames.insert: replaces, and so frees, a frame another thread put there.
InsertFrame(t) ==
  /\ pc[t] = "insert"
  /\ LET p == page[t]
         pins == op[t] # "insert"
         replaced == p \in frames
     IN /\ frames' = frames \cup {p}
        /\ pin_count' = [pin_count EXCEPT ![p] = IF pins THEN 1 ELSE 0]
        /\ dirty' = IF DirtyOnInsert(op[t]) THEN dirty \cup {p} ELSE dirty \ {p}
        /\ data' = [data EXCEPT ![p] = buf[t]]
        /\ made' = made \cup {p}
        /\ guard' = IF pins THEN [guard EXCEPT ![t] = p] ELSE guard
        /\ writable' = [writable EXCEPT ![t] = IF pins THEN op[t] = "pin_mut" ELSE @]
        /\ dangling' = [(IF replaced THEN GuardsWithout(p) ELSE dangling)
                          EXCEPT ![t] = ~pins /\ @]
        /\ ptr' = IF replaced THEN PtrsWithout(p) ELSE ptr
  /\ Goto(t, "on_insert")
  /\ UNCHANGED <<budget_bytes, used_bytes, lruVars, disk, next_id, owner, callVars,
                 unvisited, unpinned, victim, image, freed, outcome>>

OnInsert(t) ==
  /\ pc[t] = "on_insert"
  /\ Touch(page[t])
  /\ Return(t, "ok")
  /\ UNCHANGED <<poolVars, policy, disk, next_id, clientVars, evictVars, guardVars>>

-----------------------------------------------------------------------------
(* evict_one, with the flush it makes *)

\* frames.iter(): shard after shard, each entry read under its own lock.
Visit(t, p) ==
  /\ pc[t] = "visit" /\ p \in unvisited[t]
  /\ unvisited' = [unvisited EXCEPT ![t] = @ \ {p}]
  /\ unpinned' = [unpinned EXCEPT ![t] = IF Evictable(p) THEN @ \cup {p} ELSE @]
  /\ IF unvisited[t] = {p} THEN Goto(t, "pick") ELSE UNCHANGED pc
  /\ UNCHANGED <<poolVars, lruVars, disk, next_id, clientVars, callVars, victim, ptr,
                 image, freed, guardVars, outcome>>

PickVictim(t, v) ==
  /\ pc[t] = "pick" /\ v \in Candidates(unpinned[t])
  /\ victim' = [victim EXCEPT ![t] = v]
  /\ unpinned' = [unpinned EXCEPT ![t] = {}]
  /\ Goto(t, "is_dirty")
  /\ UNCHANGED <<poolVars, lruVars, disk, next_id, clientVars, callVars, unvisited,
                 ptr, image, freed, guardVars, outcome>>

\* Mutant of PoolFull: no candidate, so try again.
PoolRetry(t) ==
  /\ pc[t] = "pick" /\ Candidates(unpinned[t]) = {}
  /\ unpinned' = [unpinned EXCEPT ![t] = {}]
  /\ Goto(t, "room")
  /\ UNCHANGED <<poolVars, lruVars, disk, next_id, clientVars, callVars, unvisited,
                 victim, ptr, image, freed, guardVars, outcome>>

\* No candidate: "Buffer pool full, all pages pinned".
PoolFull(t) ==
  /\ pc[t] = "pick" /\ Candidates(unpinned[t]) = {}
  /\ unpinned' = [unpinned EXCEPT ![t] = {}]
  /\ Return(t, "full")
  /\ UNCHANGED <<poolVars, lruVars, disk, next_id, clientVars, unvisited, victim, ptr,
                 image, freed, guardVars>>

\* flush: the first get(), unwrap_or(false).
FlushIsDirty(t) ==
  /\ pc[t] = "is_dirty"
  /\ Goto(t, IF victim[t] \in frames \cap dirty THEN "ptr" ELSE "remove")
  /\ UNCHANGED <<poolVars, lruVars, disk, next_id, clientVars, callVars, evictVars,
                 guardVars, outcome>>

\* flush: the second get() is unwrapped: a frame gone in between is a panic.
FlushPtr(t) ==
  /\ pc[t] = "ptr"
  /\ IF victim[t] \in frames
     THEN /\ Goto(t, "create")
          /\ ptr' = [ptr EXCEPT ![t] = "live"]
          /\ image' = [image EXCEPT ![t] = data[victim[t]]]
     ELSE Goto(t, "panicked") /\ UNCHANGED <<ptr, image>>
  /\ UNCHANGED <<poolVars, lruVars, disk, next_id, clientVars, callVars, unvisited,
                 unpinned, victim, freed, guardVars, outcome>>

\* write_page: copy the payload (a pointer freed by now yields the bytes it had or
\* garbage), then File::create truncates the file.
FlushCreate(t) ==
  /\ pc[t] = "create"
  /\ \E v \in IF ptr[t] = "freed" THEN {image[t], Garbage} ELSE {data[victim[t]]} :
       image' = [image EXCEPT ![t] = v]
  /\ ptr' = [ptr EXCEPT ![t] = "none"]
  /\ disk' = [disk EXCEPT ![victim[t]] = Torn]
  /\ Goto(t, "write")
  /\ UNCHANGED <<poolVars, lruVars, next_id, clientVars, callVars, unvisited,
                 unpinned, victim, freed, guardVars, outcome>>

FlushWrite(t) ==
  /\ pc[t] = "write"
  /\ disk' = [disk EXCEPT ![victim[t]] = image[t]]
  /\ image' = [image EXCEPT ![t] = Garbage]
  /\ Goto(t, "clean")
  /\ UNCHANGED <<poolVars, lruVars, next_id, clientVars, callVars, unvisited,
                 unpinned, victim, ptr, freed, guardVars, outcome>>

\* A failed create leaves the file as it was, a failed write leaves it torn;
\* evict_one and the call return the error.
FlushFails(t) ==
  /\ pc[t] \in {"create", "write"} /\ Faults
  /\ ptr' = [ptr EXCEPT ![t] = "none"]
  /\ image' = [image EXCEPT ![t] = Garbage]
  /\ victim' = [victim EXCEPT ![t] = NoPage]
  /\ Return(t, "io")
  /\ UNCHANGED <<poolVars, lruVars, disk, next_id, clientVars, unvisited, unpinned,
                 freed, guardVars>>

FlushClean(t) ==
  /\ pc[t] = "clean"
  /\ dirty' = dirty \ {victim[t]}
  /\ Goto(t, "remove")
  /\ UNCHANGED <<budget_bytes, used_bytes, frames, pin_count, data, lruVars, disk,
                 next_id, clientVars, callVars, evictVars, guardVars, outcome>>

\* frames.remove, unless another evictor was first.
RemoveFrame(t) ==
  /\ pc[t] = "remove"
  /\ LET v == victim[t]
         there == v \in frames
     IN /\ frames' = frames \ {v}
        /\ pin_count' = [pin_count EXCEPT ![v] = 0]
        /\ dirty' = dirty \ {v}
        /\ data' = [data EXCEPT ![v] = Garbage]
        /\ freed' = [freed EXCEPT ![t] = Released(v)]
        /\ dangling' = IF there THEN GuardsWithout(v) ELSE dangling
        /\ ptr' = IF there THEN PtrsWithout(v) ELSE ptr
  /\ Goto(t, "uncharge")
  /\ UNCHANGED <<budget_bytes, used_bytes, lruVars, disk, next_id, clientVars, callVars,
                 unvisited, unpinned, victim, image, guard, writable, outcome>>

Uncharge(t) ==
  /\ pc[t] = "uncharge"
  /\ used_bytes' = used_bytes - freed[t]
  /\ freed' = [freed EXCEPT ![t] = 0]
  /\ Goto(t, "on_evict")
  /\ UNCHANGED <<budget_bytes, frames, pin_count, dirty, data, lruVars, disk, next_id,
                 clientVars, callVars, unvisited, unpinned, victim, ptr, image,
                 guardVars, outcome>>

OnEvict(t) ==
  /\ pc[t] = "on_evict"
  /\ Forget(victim[t])
  /\ victim' = [victim EXCEPT ![t] = NoPage]
  /\ Goto(t, "room")
  /\ UNCHANGED <<poolVars, policy, disk, next_id, clientVars, callVars, unvisited,
                 unpinned, ptr, image, freed, guardVars, outcome>>

-----------------------------------------------------------------------------
(* Guards *)

\* A write through the pointer of a PinMutGuard.
WriteThrough(t, v) ==
  /\ pc[t] = "idle" /\ guard[t] # NoPage /\ writable[t] /\ ~dangling[t]
  /\ data' = [data EXCEPT ![guard[t]] = v]
  /\ UNCHANGED <<budget_bytes, used_bytes, frames, pin_count, dirty, lruVars, disk,
                 next_id, clientVars, pc, callVars, evictVars, guardVars, outcome>>

\* Drop of a PinMutGuard: mark_dirty, then unpin.
MarkDirty(t) ==
  /\ pc[t] = "idle" /\ guard[t] # NoPage /\ writable[t]
  /\ dirty' = dirty \cup ({guard[t]} \cap frames)
  /\ Goto(t, "unpin")
  /\ UNCHANGED <<budget_bytes, used_bytes, frames, pin_count, data, lruVars, disk,
                 next_id, clientVars, callVars, evictVars, guardVars, outcome>>

\* A panic in a call unwinds through the guard its caller holds.
Unpin(t) ==
  /\ guard[t] # NoPage
  /\ pc[t] \in {"unpin", "panicked"} \/ (pc[t] = "idle" /\ ~writable[t])
  /\ pin_count' = IF guard[t] \in frames
                  THEN [pin_count EXCEPT ![guard[t]] = Unpinned(@)] ELSE pin_count
  /\ guard' = [guard EXCEPT ![t] = NoPage]
  /\ writable' = [writable EXCEPT ![t] = FALSE]
  /\ dangling' = [dangling EXCEPT ![t] = FALSE]
  /\ Goto(t, IF pc[t] = "panicked" THEN "panicked" ELSE "idle")
  /\ UNCHANGED <<budget_bytes, used_bytes, frames, dirty, data, lruVars, disk, next_id,
                 clientVars, callVars, evictVars, outcome>>

-----------------------------------------------------------------------------
(* The callers around the pool *)

\* NodeArena::allocate_node writes a new page straight to the chunk store.
ArenaPage(t, v) ==
  /\ Arena /\ pc[t] = "idle" /\ guard[t] = NoPage
  /\ next_id <= MaxPages
  /\ next_id' = next_id + 1
  /\ owner' = [owner EXCEPT ![next_id] = t]
  /\ \/ disk' = [disk EXCEPT ![next_id] = v] /\ made' = made \cup {next_id}
     \/ Faults /\ disk' = [disk EXCEPT ![next_id] = Torn] /\ UNCHANGED made
  /\ UNCHANGED <<poolVars, lruVars, pc, callVars, evictVars, guardVars, outcome>>

\* apply_os_safety_net, before the tasks are started: min(budget, safe).
SetBudget(safe) ==
  /\ \A t \in Threads : pc[t] = "idle" /\ guard[t] = NoPage
  /\ safe < budget_bytes
  /\ budget_bytes' = safe
  /\ UNCHANGED <<used_bytes, frames, pin_count, dirty, data, lruVars, disk, next_id,
                 clientVars, pc, callVars, evictVars, guardVars, outcome>>

PinKinds == IF Arena THEN {"pin", "pin_mut"} ELSE {"pin"}

\* What a client decides to do next.
Request(t) ==
  \/ \E p \in Pages, kind \in PinKinds : PinHit(t, p, kind) \/ PinMiss(t, p, kind)
  \/ \E v \in Val : InsertBegin(t, v) \/ WriteThrough(t, v) \/ ArenaPage(t, v)

\* What the pool does of its own accord to finish a call that was begun.
Continue(t) ==
  \/ ReadOk(t) \/ ReadFails(t) \/ CheckRoom(t) \/ Charge(t) \/ InsertFrame(t)
  \/ OnInsert(t)
  \/ \E p \in Pages : Visit(t, p) \/ PickVictim(t, p)
  \/ PoolFull(t) \/ FlushIsDirty(t) \/ FlushPtr(t) \/ FlushCreate(t) \/ FlushWrite(t)
  \/ FlushFails(t) \/ FlushClean(t) \/ RemoveFrame(t) \/ Uncharge(t) \/ OnEvict(t)
  \/ pc[t] = "unpin" /\ Unpin(t)

\* The guard goes out of scope.
Drop(t) == MarkDirty(t) \/ Unpin(t)

Next ==
  \/ \E t \in Threads : Request(t) \/ Continue(t) \/ Drop(t)
  \/ \E safe \in SafeRam : SetBudget(safe)

Spec == Init /\ [][Next]_vars

\* The operating system runs every thread that has begun a call.
FairSpec == Spec /\ \A t \in Threads : WF_vars(Continue(t))

-----------------------------------------------------------------------------
(* Properties *)

Labels == {"idle", "read", "room", "charge", "insert", "on_insert", "visit", "pick",
           "is_dirty", "ptr", "create", "write", "clean", "remove", "uncharge",
           "on_evict", "unpin", "panicked"}

\* Every variable keeps its type; pin counts never go below zero.
TypeOK ==
  /\ budget_bytes \in Nat /\ used_bytes \in Int
  /\ frames \subseteq Pages /\ dirty \subseteq frames
  /\ pin_count \in [Pages -> Nat]
  /\ data \in [Pages -> Contents]
  /\ policy \in {"lru", "mining_aware"}
  /\ tracked \subseteq Pages /\ older \subseteq Pages \X Pages
  /\ disk \in [Pages -> Contents \cup {Torn, Absent}]
  /\ next_id \in 1..(MaxPages + 1)
  /\ made \subseteq Pages /\ owner \in [Pages -> Threads]
  /\ pc \in [Threads -> Labels]
  /\ op \in [Threads -> {"pin", "pin_mut", "insert"}]
  /\ page \in [Threads -> Pages \cup {NoPage}]
  /\ buf \in [Threads -> Contents]
  /\ unvisited \in [Threads -> SUBSET Pages]
  /\ unpinned \in [Threads -> SUBSET Pages]
  /\ victim \in [Threads -> Pages \cup {NoPage}]
  /\ ptr \in [Threads -> {"none", "live", "freed"}]
  /\ image \in [Threads -> Contents]
  /\ freed \in [Threads -> 0..MaxSize]
  /\ guard \in [Threads -> Pages \cup {NoPage}]
  /\ writable \in [Threads -> BOOLEAN] /\ dangling \in [Threads -> BOOLEAN]
  /\ outcome \in [Threads -> {"none", "ok", "io", "full"}]

\* The page a live guard points to is resident, pinned, and its frame is the one
\* the guard was built on ("Eviction is blocked while > 0").
PinnedStays ==
  \A t \in Threads : guard[t] # NoPage =>
    guard[t] \in frames /\ pin_count[guard[t]] > 0 /\ ~dangling[t]

\* The atomic counter never claims fewer bytes than are resident, so the budget
\* test never works from an under-estimate and fetch_sub never wraps below zero,
\* whatever the evictors and inserters do to one another.
UsedCoversResident == used_bytes >= Weight(frames)

\* Between calls the counter is exact.
Quiet == \A t \in Threads : pc[t] = "idle"
UsedIsResident == Quiet => used_bytes = Weight(frames)

\* "Buffer pool never exceeds configured budget": a step that takes bytes leaves
\* the counter within the budget.
BudgetRespected == [][used_bytes' > used_bytes => used_bytes' <= budget_bytes']_vars

\* A call is refused as full only if every resident page is pinned and they leave
\* no room: an LRU entry lost or late would leave a frame no one can evict.
FullIsReal ==
  [][\A t \in Threads : outcome'[t] = "full" /\ outcome[t] # "full" =>
       /\ \A p \in frames : pin_count[p] > 0
       /\ used_bytes + Size[page[t]] > budget_bytes]_vars

\* Every call that is begun returns.
CallsReturn == \A t \in Threads : (pc[t] \notin {"idle", "panicked"}) ~> (pc[t] = "idle")

\* "Buffer pool never exceeds configured budget" at every moment, for a budget that
\* is not lowered while pages are resident.
WithinBudget == used_bytes <= budget_bytes

\* With a budget that holds every page there is, no race of the pool can bite:
\* guards stay valid and the counter exact for any number of threads.
Ample == budget_bytes >= Weight(Pages)
AmpleIsSafe == Ample => PinnedStays /\ UsedIsResident /\ used_bytes <= budget_bytes

-----------------------------------------------------------------------------
(* What the proofs of these properties carry from step to step *)

Calling == Labels \ {"idle", "unpin", "panicked"}
Flushing == {"is_dirty", "ptr", "create", "write", "clean", "remove"}
Evicting == Flushing \cup {"uncharge", "on_evict"}

\* A call knows its page, an eviction its victim.
Located ==
  \A t \in Threads :
    /\ pc[t] \in Calling => page[t] \in Pages
    /\ pc[t] \in Evicting => victim[t] \in Pages

TypeInv == TypeOK /\ Located

\* Bytes that are charged and not resident, one pair per byte: those of a frame
\* about to be inserted, and those of a frame just removed.
InFlight ==
  {x \in Threads \X (1..MaxSize) :
     \/ pc[x[1]] = "insert" /\ x[2] <= Size[page[x[1]]]
     \/ pc[x[1]] = "uncharge" /\ x[2] <= freed[x[1]]}

\* UsedCoversResident, with the bytes in flight.
Accounted == used_bytes >= Weight(frames) + Cardinality(InFlight)

\* With a single thread nothing changes behind a call's back.
\* The counter is exact, but for the bytes in flight.
Exact == used_bytes = Weight(frames) + Cardinality(InFlight)

\* A page that is being brought in is not resident yet.
Fresh ==
  /\ frames \cup made \subseteq 1..(next_id - 1)
  /\ pc[Main] \in Calling => page[Main] < next_id
  /\ pc[Main] \in Calling \ {"on_insert"} => page[Main] \notin frames

\* What was read of the budget and of the pins still holds when it is used.
Reserved ==
  /\ pc[Main] = "charge" => HasRoom(Main)
  /\ pc[Main] \notin {"visit", "pick"} => unpinned[Main] = {}
  /\ \A p \in unpinned[Main] : Evictable(p)
  /\ pc[Main] \in Flushing => Evictable(victim[Main])

Settled == Exact /\ Fresh /\ Reserved

-----------------------------------------------------------------------------
(* What the pool promises: a page store without a cache *)

\* The contents a client would find: the frame if there is one, else the file.
Stored(p) ==
  IF p \in frames THEN data[p] ELSE IF p \in made THEN disk[p] ELSE Absent
Opened(t) == IF guard[t] = NoPage THEN {} ELSE {<<guard[t], writable[t]>>}

Store == INSTANCE PageStore
           WITH mem <- [p \in Pages |-> Stored(p)],
                open <- [t \in Threads |-> Opened(t)]

\* Caching, eviction, write-back and reload are invisible: contents change only
\* through a PinMutGuard, also when page files cannot be read or written.
ImplementsPageStore == Store!Spec

=============================================================================
