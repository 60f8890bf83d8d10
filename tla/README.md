# A verification project for pocket-data-mining

The repository is a Rust engine for high-utility itemset mining (HUIM) that runs under a
budget of memory: its data sit in pages of a byte-budgeted buffer pool, memory outside the
pool is asked for from a ledger, and some twenty algorithms mine in parallel through Rayon.
This directory holds TLA+ models of its core, their TLC configurations, and proofs that
TLAPS checks. Source paths below are those of the repository (`src/...`).

How to run, in this directory:

    tlc -workers 2 -config PoolSequential.cfg MCBufferPool.tla
    tlapm StorageProofs.tla

## 1. Inventory of the system

| Part | State | Operations | Hard behaviour | What makes it right |
|---|---|---|---|---|
| Chunk store (`storage/`) | one file per page, an atomic counter of page ids | `next_page_id`, `write_page`, `read_page`, `delete_page` | `File::create` truncates before the write: a failure leaves a torn file | what is read is what was last written, or an error |
| Buffer pool (`buffer_pool/pool.rs`, `frame.rs`, `types/page.rs`) | DashMap of frames (boxed page, pin count, dirty bit), `used_bytes`, `budget_bytes` | `pin`, `pin_mut`, `insert_page`, `flush`, `evict_one`, `unpin`, `mark_dirty`, drops of guards | guards are raw pointers; no lock spans the check of the budget, the choice of the victim and its removal | pinned pages stay; bytes are accounted; the budget holds; contents survive eviction |
| Eviction policies (`buffer_pool/eviction/`) | LRU: time of last access of each page; mining-aware: predictions | `on_access`, `on_insert`, `on_evict`, `pick_victim` | the table of LRU is updated apart from the frames | a page can be evicted whenever one is unpinned |
| Memory guard (`mining/core/memory_guard.rs`) | atomic `used`, `max_bytes` | `try_alloc`, `force_alloc`, `free` | add, compare and undo; load, minimum and subtract | grants fit the budget; nothing leaks |
| Task execution (`mining/core/context.rs`, `result_writer.rs`) | tasks, bounded channel, writer thread, `BufWriter` | `execute_tasks`, `WriterProxy::write_hui`, `ResultWriter::{new, write_hui, finalize}` | blocking sends, panics in workers, I/O errors in another thread, shutdown | no result is lost, duplicated or reordered within its task; the call ends |
| OS safety net (`context.rs`) | the pool's budget | `apply_os_safety_net` | the budget shrinks under a pool that is in use | the pool adapts or refuses |
| Preprocessing (`preprocessing/db_reader.rs`, `twu_filter.rs`) | transactions, TWU of items | `parse`, `TwuFilter::scan` and `filter` | the order of items must be the same everywhere | no item of a high-utility itemset is dropped |
| Utility lists (`types/utility_list.rs`, `components/ul_join.rs`, `components/traversal.rs`) | entries per transaction: `iutils`, `rutils`; sums | joins, bounds | three pointers over sorted entries; the prefix subtracted once | a joined list is the list of its itemset |
| Co-occurrence structure (`components/eucs.rs`) | pairs of items to TWU | `add_transaction`, `can_prune` | refusal by the memory guard half-way | prunes only what cannot be of high utility |
| Utility-list miners (FHM, FHM+, HUI-Miner, HUP-Miner, mHUIMiner) | root lists, stack of the recursion | two passes, tasks per root item | parallel, each with private pages | the result is exact |
| Top-k miners (TKO, TKU, REPT) | as above, with a heap and an atomic threshold | `TkoState::{get, update}` | threads prune with thresholds read earlier | k of the best |
| FHM wrappers (SHUIM, IncFHM, GA, BPSO, ACO) | none | call `Fhm::run` | none | as FHM |
| HUIM-MMU | window of transactions, running count | FHM for each window, copy of its results | FHM keeps the guard's bytes from window to window; errors of the copy are ignored; counts of windows are added though they are running totals | what is written is sound; no short stretch falls between two windows |
| EFIM family (EFIM, EFIM-Closed, HAUI-Miner) | the filtered database, projections in memory or spilled | projection, bounds, closure, spill, load | bytes of spilled projections; `u16` offsets; a projection that cannot be spilled or loaded | exactness, ledger |
| TwoPhase | vertical database in pages shared by all threads | lists on pages, intersections by `dfs` | all threads pin the same pages; errors of the pool are swallowed | exactness, ledger |
| Tree miners (UP-Growth, IHUP, HUI-Trie, HUP-Tree) | nodes in arena pages, header tables | insert, conditional trees, candidates, last pass | slots of a conditional tree are taken again while the trees above it are mined; `pin_mut` on evictable pages | exactness, node layout |
| Chunker and page directory (`chunker.rs`) | pages of transactions, directory of tids | `add_transaction`, `flush_page`, `finalize`, `find_page` | boundaries; a failing write in the middle of a call | every transaction is found |
| Prefetch (`prefetch/`) | a queue of hints | read ahead, drop | none that changes state | no effect on results |
| Command line (`main.rs`) | options | dialogue; `run_mining` picks an algorithm by its name | none | the algorithm keeps its promise |
| Experiment harness, TUI, progress | reports, counters | run, display | none | not verified |

### Interactions

The command line builds a `MiningContext` with the pool, the guard and the output path;
`apply_os_safety_net` may lower the pool's budget; the algorithm makes two passes over the
database, builds root lists (or arenas, or projections), and gives one closure per root item
to `execute_tasks`. Each task stores the bodies of its lists in pages of its own
(`insert_page`, then `pin` as often as needed), asks the memory guard for what lives outside
the pool, and emits results through a `WriterProxy`. With one thread the proxy writes to the
`ResultWriter` directly, with more it sends to a channel that a writer thread drains. Who
calls the pool how matters to the model: `pin_mut` is used by sequential code only (the tree
miners' arena), list bodies are private to a task, and TwoPhase's `vert_db_pages` are the
only pages that several threads read.

## 2. Modules

| Module | Kind | Models |
|---|---|---|
| `Footprints` | operators | the bytes of a set of pages or blocks, as a cardinality so that TLAPS can reason about it |
| `BufferPool` | component | pool, frames, LRU and mining-aware policy, chunk store, OS safety net, clients |
| `PageStore` | abstract specification | what the pool promises: pages that keep their contents |
| `MemoryGuard` | component | the ledger and its callers |
| `ResultPipeline` | component | `execute_tasks`, the channel, the writer, the file |
| `Chunker` | component | transactions packed into pages, and the page directory |
| `UtilityLists` | pure operators | TWU, order of items, utility lists, join, bounds, and the reference definitions |
| `UtilityListMiner` | component | FHM, FHM+, HUI-Miner, HUP-Miner, mHUIMiner, TKO, TKU, REPT, with the EUCS |
| `Huim` | abstract specification | what a mining algorithm promises |
| `MiningContext` | shared part of the next five | database, threshold, ledger, results, and the promise with its mapping |
| `TaskSearch` | shared part of the next two | the stacks of calls of the threads that run tasks |
| `ProjectionMiner` | component | EFIM, EFIM-Closed, HAUI-Miner |
| `VerticalMiner` | component | TwoPhase |
| `TreeMiner` | component | IHUP, HUP-Tree, HUI-Trie, UP-Growth, UP-Growth+ and their arena |
| `Mining` | composition | `run_mining`: one of the three above, by the algorithm's name; it extends all of them, and what the other algorithms have stays as it was |
| `HuimMmu` | component | the windows of HUIM-MMU, with FHM as `Huim` promises it |
| `MCBufferPool`, `MCMemoryGuard`, `MCResultPipeline`, `MCUtilityListMiner`, `MCMining` | instances | sizes, owners, databases and modes for TLC |
| `MCStorage`, `MCWindows` | instances | the chunker beside the pool, HUIM-MMU beside the guard: one run for each pair, each behaviour being one of the two |
| `FootprintProofs`, `StorageProofs`, `WindowsProofs`, `ResultPipelineProofs` | proofs | the concurrent components |
| `SearchProofs`, `UtilityListMinerProofs`, `TreeMinerProofs`, `MiningProofs` | proofs | the searches: the utility-list miners; the tree miners; EFIM's family, TwoPhase and the composition. `SearchProofs` has the lemmas on sums, supports, TWU and the order of items that they share |

### BufferPool

One action is one access to shared state, because that is where threads interleave. The hit
path (`PinHit`) is one action: it runs under the shard lock of the DashMap. A miss is
`PinMiss`, `ReadOk` or `ReadFails`, then the loop that makes room: `CheckRoom`, and for each
round of `evict_one` the snapshot (`Visit`, entry by entry, since `iter()` locks one shard at
a time), `PickVictim` or `PoolFull`, the flush (`FlushIsDirty`, `FlushPtr`, `FlushCreate`,
`FlushWrite`, `FlushFails`, `FlushClean`), `RemoveFrame`, `Uncharge`, `OnEvict`; then
`Charge`, `InsertFrame`, `OnInsert`. Guards are `guard[t]`; `dangling[t]` says that the box
its pointer goes to has been freed. What is read through a freed pointer is the old bytes or
`Garbage`, by choice. A file is `Absent`, `Torn` (created and not written) or has contents;
header, checksum and compression are what makes a torn file fail to read. Timestamps of the
LRU policy are a relation `older`; the mining-aware policy, whose score mixes measured times
and predictions, may choose any unpinned page.

The constant `Arena` lets clients do what the tree miners do (`pin_mut`, pages written
straight to the store); the assumption `Arena => Threads = {Main}` is the fact that those
callers are sequential. `Faults` lets page files fail.

### MemoryGuard

`try_alloc` is `TryAdd`, then `Grant`, or `Refuse` and `Undo`; `free` is `FreeLoad` and
`FreeSub`; `force_alloc` is one `fetch_add`. A block is a request of a caller. With
`FreesSpilled = FALSE` callers free what they hold (TwoPhase, the trees' header tables);
with `TRUE` they also free refused blocks, as EFIM does.

### ResultPipeline

`Take`, `Emit`, `TaskEnds` and the panics are the workers'; `Open`, `Recv`, `WriterWrites`,
`WriterWriteFails` and `WriterFinalizes` the writer's; the rest is the caller's: waiting for
the tasks, dropping its sender, joining. `Write` may or may not push the buffer to the file,
as `BufWriter` does. Sequential and parallel execution are the same actions with
`threads = 1` or more.

A result is a line, and `write_hui` writes it in pieces. An error may come at any of them, and
the pieces before it are in the buffer or in the file already. `WriteFails` has both cases:
the result leaves nothing, or it leaves the beginning of a line (`torn`) as an element of the
buffer. `Moves` is what a flush, failed or not, does: the lines before some point reach the
file, and the line at that point may be there in part and counts as buffered still. Nobody
ends a torn line, as the writer thread and several of the tasks go on after the error, so the
result written next continues it. That is what `NothingLost` says of a call that returns:
a result is `Legible` (on a line of its own), or its write failed, or it `Continues` the line
of one whose write failed; each failed write can thus cost one result more than the error
tells of. `Closes` is the last flush, that of `finalize` or of a dropped `BufWriter`.

### Chunker

`add_transaction`, `flush_page` and `finalize` by their own names, each with the write that
succeeds (`WritePage`: page, entry in the directory, next id) and the one that fails
(`WriteFails`: a file without contents, nothing else). A call that failed may be made again,
as the chunker keeps its buffer. A transaction is its tid and its bytes. `find_page` is the
lookup of the directory. `entry_count` has no effect on any of them.

### UtilityLists and UtilityListMiner

A database is a function from transactions to the utility of each item (0 where absent). An
item that is present with utility 0 has an entry in the code's lists, and counts as being
there; the databases of the model have no such items. The order of items is one operator,
`Before`, for transactions and search alike, so that the code uses the same one in both
(`twu_filter.rs:44`, and the sorts before the tasks are made) is taken from the code and would
not be found out here if it were not so.
`UtilityLists` has the code's definitions (`TwuFilter`, `ItemList`, `Join`, `CanPrune`)
beside the reference ones (`Supporting`, `Utility`). In the miner `Filter`,
`ReadTransaction` and `StartSearch` are the two passes; `Take` starts a task; the recursion
is a stack of frames per thread, advanced by `Look` (read the threshold, test the bound),
`Expand` (report, join with later extensions, descend) and `Back`. The algorithms are
records of what they differ in: co-occurrence pruning, bounds on lengths, the top-k heap.
The heap breaks ties freely, as the order of equal entries in a `BinaryHeap` is not one that
anything relies on.

### Huim and MiningContext

`Huim` is the promise: results are written in any order, only those that reach the
threshold, each with its utility; at the end all of them, unless something the run depends
on has failed; for a closed algorithm, only closed itemsets. `MiningContext` has what the
algorithms are given (database, mode: name, threshold, the guard's bytes) and leave (results,
the guard's counter), the first pass, and `PromiseKept`, which maps them to `Huim`. A mode
with a budget of 0 is a guard that refuses everything. `failed` is true once a pool or store
call has failed; `refused` once the guard has refused a request.

### ProjectionMiner

`EfimFilter`, `Load`, then a stack of frames per thread, one for each call of `mine_efim`:
`EfimTake` (a task of `execute_tasks`), `Begin` (load a spilled projection, compute the
bounds), `Visit` (report, project, ask the guard, else spill), `EfimReturn`, and `EfimFinish`.
A projection is a function from transactions to offset, utility of the prefix, and the path's
bound; an offset is taken modulo `OffsetLimit`, as the cast to `u16` does. Requests and
releases are atomic here; their steps are in `MemoryGuard`. EFIM frees a spilled projection as
if it had been granted (`Pop`), which is why `LedgerExact` speaks of runs without a refusal
only.

### VerticalMiner

`TwoPhaseFilter`, `Index` (lists to pages, request for the TWUs), then `TwoPhaseTake`, `Scan`,
`Descend`, `TwoPhaseReturn` and `TwoPhaseFinish`: `dfs` first intersects with all extensions
and keeps the lists worth it, then descends into each. A long list goes to a page of its own
(`OnPage`), where writing or pinning it may fail: `Abandon` takes the whole task down, as the
caller ignores the error. A root page that cannot be pinned gives the empty list.

A pin is right or it fails. That is what `BufferPool` shows of one thread, and of several when
the budget holds all pages (`PinnedStays`, `AmpleIsSafe`). With several threads and a tighter
budget it is not true of the code: the run `pool_pin_race` frees a frame under its guard, and
TwoPhase's pages are shared by all threads. What is checked and proved of TwoPhase
(`ListsRight`, `PromiseKept`) assumes that this has not happened. The other searches pin pages
too: EFIM's family those of its spilled projections, and the utility-list miners, whose model
leaves the bodies' place out, those of their lists; a frame may be freed under them in the
same way.

### TreeMiner

The arena is a function from slots to nodes, with the next slot and the number of pages. A
node has its item, its value, its parent and its children; that the code chains the children
through `first_child` and `next_sibling` only says in which order they are searched for the
one that has an item, so they are a set here. The nodes of an item, chained through
`node_link` from the header table, are a sequence, which grows at its front, or at its end in
UP-Growth (`Linked`). A path is the set of its items: the order of the tree puts them in
their places. `Grow` and `Insert` are the insertion of a path; `Conditional` builds a tree
behind the others and `TreeReturn` sets the arena's next slot back, as the code does, so that
its slots, with what was left in them, are taken again. `MineItem`, `TreeReturn` and `Measure`
are the recursion, from the last item of a tree to the first, and the last pass. UP-Growth+'s
deduction of minimal utilities is set to 0 in the code and so absent here. A tree is built by
one thread: only the writing of the measured candidates goes through `execute_tasks`, which is
`ResultPipeline`'s matter.

The recursive definitions (`ItemsTo`, `Insert`, `Conditional`, `RootOf`) are recursive
functions, so that the prover can reason about them.

### HuimMmu

`Read`, `Slide` (a full window is mined, its older half dropped), `Finish`. What FHM finds in
a window is what `Huim` promises, as long as the guard has had room for every pair of its
co-occurrence structure; FHM does not give those bytes back, so `pairs` grows from window to
window, and after the first refusal a window may find any part of it. The stream may end at a
line that does not parse.

`Copy` appends a window's results to the output. The code drops the errors of opening,
reading and writing the files, and with several threads FHM's writer thread drops those of its own writes;
either leaves any part of the results, and a last line that may be cut anywhere, even inside a
number. The next copy continues that line (`Swallowed`). `output` has the lines that are as FHM
meant them; of the others the model keeps how many there are (`spoiled`), whether the file
ends in one (`torn`), and the number of failed writes (`lost`); what a spoiled line says is
left open. `OutputSound` is therefore about all lines but these, and bounds their number: one
for each write that failed.

## 3. Runs

| Run | Expect | What it shows |
|---|---|---|
| `pool_sequential` | pass | one thread, three pages of one and two bytes, a budget of two lowered to one, every fault: `PinnedStays`, `UsedIsResident`, `BudgetRespected`, `FullIsReal`, `CallsReturn`, and the refinement `ImplementsPageStore` |
| `pool_parallel` | pass | two threads, two pages, one of them shared, budgets of one and two: `TypeOK`, `UsedCoversResident`, `AmpleIsSafe`. In behaviours of its own, the chunker with three page sizes and failing writes: `Findable`, `PagesFit` |
| `pool_pin_race` | violation | a page pinned between the choice of the victim and its removal is freed under its guard |
| `pool_budget_race` | violation | two threads that find room for one page each take it both |
| `guard_ledger` | pass | three threads with two requests each, budget three: `GuardInv`, `GrantsFit`, `UsedCoversHeld`, `UsedIsHeld`. In behaviours of its own, HUIM-MMU on 27 streams: `StretchesMined`, `OutputSound` |
| `guard_spilled` | violation | freeing refused blocks makes grants exceed the budget |
| `pipeline` | pass | three tasks with two, one and one results, one or two workers, channel of two, all faults, writes that fail at any piece of a line: `PipelineInv`, `NothingLost`, `InTaskOrder`, `Ends` |
| `pipeline_write_error` | violation | a write error in the writer thread is never seen by the caller |
| `miner` | pass | two threads, 24 databases, six modes: `TypeOK`, `Exact`, `TopKExact`, `ListsExact`, `NothingMissed`, `Ends` |
| `miner_eucs_full` | violation | an EUCS cut short by the guard prunes itemsets that are of high utility |
| `miner_tko_threshold` | violation | TKO with a minimum utility drops an item others need as an extension |
| `mining` | pass | EFIM and its relatives, TwoPhase and the tree miners, two threads, six databases, twelve modes, pool calls that fail: `PromiseKept` (the refinement of `Huim`), `ProjectionsExact`, `ListsRight`, `TreesExact`, `ArenaTight`, `CandidatesOnce`, `LedgerExact`, `LedgerClosed`, `TypeOK`, `Ends` |

### Bounds, and why they are enough

* Pool: an eviction needs a resident page and a page to come in; with three pages, one of two
  bytes, and a budget of two, an eviction may need two rounds, every order of hits, misses
  and evictions between three pages occurs, and a budget of one makes a page that never fits.
  Every race of the pool is between two calls on one or two pages, so two threads and two
  pages reach it; a shared page gives double insertion, a private one the pin race. Two
  contents tell a stale page from a fresh one. `MaxPages` bounds the store's page counter.
* Guard: three threads, so that a request can be decided while a second is being undone and
  a third released; sizes of one and two against a budget of three make the sum matter.
* Pipeline: a channel of two with four results blocks a sender; three tasks on two workers leave
  one waiting, and the panic of a worker skips it or not; the task with two results can be
  overtaken between them. A torn line needs one failed write, a line that continues it
  another result, and one that is spared a third. `Faults` are independent, so all
  combinations occur (111 388 states).
* Miner: three items give the third level of the search, the first at which the utility of a
  shared prefix must be subtracted; two transactions give lists that agree in some
  transactions and not in others; utilities of 0, 1 and 2 give ties of TWU and thresholds
  that are met exactly. The top-k modes have k below, at and above the number of itemsets.
  `EucsRoom` is the number of pairs the memory guard allows: three is all of them.

* Chunker: transactions of 16, 32 and 48 bytes, with gaps in the tids, against page sizes at
  which one, two or three of them fit and one at which the first is larger than the page.
* HUIM-MMU: windows of four in streams of at most six transactions give up to two full windows
  and a rest; two items have one pair, and `PairRoom` is two pairs, so a third window with
  the pair is refused it. Three copies are enough for a torn line, the one that continues it
  and one after that.
* Mining: three items and three transactions give conditional trees of conditional trees and
  projections of projections. `OffsetLimit` is four: one more than the largest offset, as
  the code needs. Lists of two transactions go to a page (`ListNodes`), pages hold two nodes
  (`PageNodes`), so both sides of either bound occur. EFIM's budget of 190 bytes holds the
  database and some projections, not all; HAUI-Miner's of 0 spills all of them; TwoPhase's of
  20 refuses its one request; 999 refuses nothing. Thresholds go from 3 to 7, against
  utilities of itemsets from 1 up.

`CHECK_DEADLOCK FALSE` is given where the system really stops: a search or a call that has
ended, a pool whose clients want nothing more or whose thread has panicked. `guard_ledger`
and `mining` check for deadlock; in them a run that is over repeats its last state.

### Fairness

Liveness is stated under weak fairness of what the code does of its own accord once begun:
`Continue(t)` of each thread inside a pool call (not the client's decision to make one), the
workers, the writer thread and the caller of the pipeline, the passes and each thread of the
search. The operating system and Rayon schedule every runnable thread; nothing assumes that
a client calls, that a fault occurs or that it does not. No strong fairness is used.

`Mining` states less: that the run does not stop before it is over (`Fair`). With no deadlock
this is weak fairness of `Next` as a whole, so a thread may be passed over for as long as
another goes on, and `Ends` says that it cannot go on for ever.

## 4. Findings

Six runs show the code doing other than a comment, a document or a test says. Each is
described with the line it disagrees with in `PROJECT.json`.

1. `evict_one` does not look at the pin count again before it removes its victim: with two
   threads a pinned page is freed (`pool_pin_race`).
2. The budget is compared and charged in two steps: concurrent inserts exceed it
   (`pool_budget_race`).
3. EFIM frees the bytes of projections that were refused and spilled (`guard_spilled`).
4. The writer thread swallows write errors that sequential execution reports
   (`pipeline_write_error`).
5. A full EUCS prunes too much rather than too little (`miner_eucs_full`).
6. TKO, TKU and REPT lose itemsets when given a minimum utility (`miner_tko_threshold`).

With one thread, or with a budget that holds all pages, the pool is right (`pool_sequential`,
`AmpleIsSafe`, and the theorems below).

## 5. Theorems

TLAPS checks these for every value of the constants that the modules' assumptions allow.

| Theorem | Says | Under |
|---|---|---|
| `PoolTypeOK` | `[]TypeOK` of the pool | |
| `PoolUsedCoversResident` | the byte counter never under-counts the resident pages | any number of threads, with faults |
| `PoolPinnedStays` | a guard's page is resident, pinned and its own | one thread |
| `PoolUsedIsResident` | the counter is exact between calls | one thread |
| `PoolBudgetRespected` | a step that takes bytes stays within the budget | one thread |
| `PoolImplementsPageStore` | the pool implements `PageStore`: a page's contents change only through a guard; caching, eviction, write-back and reading back change nothing, files that fail included | one thread |
| `PoolFullIsReal` | a request is refused as full only when every resident page is pinned and there is no room, under either policy | one thread |
| `PoolAmpleIsSafe` | guards are valid, the counter exact between calls and within the budget | any number of threads; a budget that holds every page (the hypothesis is in the property) |
| `GuardTypeOK`, `GuardInvariant` | types of the guard; the account below | |
| `GuardGrantsFit`, `GuardUsedCoversHeld`, `GuardUsedIsHeld` | grants fit; the ledger covers what is held and is exact when idle | callers free only what they hold |
| `PipelineTypeOK`, `PipelineInvariant` | types of the pipeline; the states of caller, workers and writer fit together, and every result emitted is on its way, in the file, or one whose write failed | any tasks, workers, capacity |
| `PipelineNothingLost` | a call that returns has every result on a line of its own in the file, but those whose write failed and those that continue the line such a one has left | any tasks, workers, capacity |
| `PipelineInTaskOrder` | the results of a task are in the file in the order it emitted them | any tasks, workers, capacity |
| `ChunkerFindable`, `ChunkerPagesFit` | a transaction that was taken is in the buffer or found through the directory on a page that has it, also after writes that failed; a page holds what fits it, but for one transaction too large for any | tids given in ascending order; any page size |
| `VerticalTypeOK`, `VerticalListsRight` | types; every list of TwoPhase is that of its itemset, or empty after a failure | any database, threads |
| `VerticalKeepsPromise` | TwoPhase implements `Huim`: every step is one of the promise or a stutter | any database, threshold, threads, failing calls |
| `VerticalLedgerClosed` | a run in which nothing was refused and nothing failed ends with the guard's counter at zero | as above |
| `ProjectionTypeOK`, `ProjectionsAreExact` | types; every projection of EFIM and its relatives, in memory or spilled, is that of its itemset | any database, threads; offsets wider than a transaction |
| `ProjectionKeepsPromise` | EFIM, EFIM-Closed and HAUI-Miner implement `Huim` | any database, threshold, budget, threads, failing calls; as above |
| `ProjectionLedgerExact`, `ProjectionLedgerClosed` | while nothing is refused the guard's counter is the database and the projections on the stacks, and zero at the end | as above |
| `MinerTypeOK`, `MinerListsExact` | types; every list is that of its itemset | any database, mode, threads |
| `MinerExact` | mining with a threshold finds exactly what it has to | `Scope` |
| `MinerTopKExact`, `MinerNothingMissed` | top-k mining ends with k of the best; nothing outside the heap is forgotten on the way | `Scope` |
| `StreamStretchesMined` | when HUIM-MMU ends it has found what is of high utility in any stretch of the stream at most one longer than the part of a window that stays, unless a write failed or the guard had no room | FHM as `Huim` promises; any window, database, room for pairs |
| `StreamOutputSound` | whatever fails, all lines but at most one for each failed write are of itemsets that reach the threshold and count no transaction twice | as above |
| `MiningKeepsPromise` | a run of any algorithm of `Mining` implements `Huim`: the tree miners too write only what reaches the threshold, and all of it unless a call has failed | any database, threshold, budget, page size, threads, failing calls; offsets wider than a transaction |
| `MiningTreesExact` | every tree being mined, read from the arena, is the projection of the database on its prefix, its children and item lists right | as above |
| `MiningArenaTight` | the trees lie in the arena without a gap, and every slot has a page | as above |
| `MiningCandidatesOnce` | no itemset is a candidate twice | as above |
| `MiningLedgerClosed` | a run of any algorithm in which nothing was refused and nothing failed ends with the guard's counter at zero | as above |
| `MiningTypeOK`, `MiningProjectionsExact`, `MiningLedgerExact`, `MiningListsRight` | what the run `mining` checks of EFIM's family and TwoPhase, now of the composition | as above |

**Pool, any threads.** `UsedCoversResident` is not inductive: between `Charge` and
`InsertFrame` bytes are on the counter and not resident, and between `RemoveFrame` and
`Uncharge` still on it. `Accounted` adds these bytes in flight, one pair per byte
(`InFlight`), so that both sides are cardinalities. An insertion moves bytes from flight to
residence; where it replaces a frame the counter is left too high, never too low, which is
why it is an inequality. `FootprintProofs` has the lemmas about such sums, each from the
library's facts on cardinality.

**Pool, one thread.** `Settled` adds that nothing changes behind a call's back: the page
being brought in is not resident (`Fresh`), what was read of the budget and of the pins
still holds (`Reserved`), and the account is exact (`Exact`). The budget property follows
from `Reserved` at `Charge`, the pin property from the victim's being unpinned at
`RemoveFrame`. With two threads both fail, as the violation runs show: the hypothesis
`Threads = {Main}` is needed.

The refinement adds `Cached`. `Brings`: the page a call brings in is a new one with the
bytes given, or one whose file has the bytes just read. `Writes`: an eviction writes what
the frame holds. `Backed`: the file of a clean frame has the frame's contents, unless a
guard that may write is open, which marks the page dirty before it lets go. Then a step of
`BufferPool` changes the contents of a page, as `PageStore` sees them, only where a guard
writes. For the LRU policy `FullIsReal` needs two more: the last accesses are a strict order
on the tracked pages, so among finitely many candidates one was used least recently
(`StrictOrder`, `LeastRecent`); and every frame has an entry in the table of accesses but the
one the policy is just being told of, so that the scan's result holds every unpinned frame
(`Scanned`).

**Guard.** `Ledger` says the counter is exactly the weight of what is held and of the blocks
of calls in progress (`Pending`). From it `WholeRelease`: the minimum in `free` never bites.
`GrantsFit` alone is not inductive, since two calls may both be past their comparison's
outcome; `Winning` adds the blocks whose comparison is sure to succeed, and their weight is
within the budget because `fetch_add` orders them.

**Pipeline.** `PipelineInv` places every result emitted: in the channel, in the writer's
hand, in the buffer, in the file, or among those whose write failed; and ties the states of
caller and writer. At the return of the caller the first three are empty, so a result whose
write has not failed is a line of the file; the line before it is torn or not, and the torn ones
are of results whose write failed. `PipelineInTaskOrder` follows the results of one task
through the channel, the hand, the buffer and the file: their concatenation is in the order of
emission, and each of them only moves from one to the next. A torn line has its place in
this order too, so the writer must not try it again (the mutant of `WriterWriteFails`).

**Pool, ample budget.** `Roomy`: no call is at a step of an eviction; pages on their way in
are different from each other and from the resident ones; the counter is the weight of the
resident and of the charged pages together; the pin count of a page is the number of its
holders. Each needs the others: without `Apart` two threads would replace each other's
frames, without the exact counter a call might evict. `Ample` counts all pages there are, so
the union never weighs more than the budget.

**TwoPhase.** Soundness is easy once the lists are right. Completeness is the hard part:
`TwoPhaseComplete` says that a wanted itemset is written or still to come, and
`TwoPhaseLeadsTo` says what a call of `dfs` still comes to: itemsets that extend the call's
own by items it has not scanned or whose lists it has kept, through the least of them. A step on that item must either write the
itemset, or keep the list and go down, or know that it is not wanted; the last is the TWU
bound (`TransactionBound` in `SearchProofs`). An abandoned task makes `failed` true, which
is what the promise allows. At the end nothing is to come, so everything is written.

**EFIM.** The invariant has the same shape again: frames are right, what is written is
right (`EfimSound`), and what is to be written is written or still to come (`EfimComplete`, by
`EfimLeadsTo`: through the first item a call adds). Positions in a transaction are cardinalities
that grow along the order of items (`Places`); they stay below `OffsetLimit`, so the cast to
`u16` changes nothing, and the projection of a projection is that of the extended itemset.
As items are added in their order only, the subtree bound covers all that is searched below
an extension; the local bound is never below it, so the second test of the loop never cuts.
EFIM-Closed looks at the filtered database and asks only for items of the first transaction.
That is enough: an item outside the itemset that all its transactions share is in the first
of them, and its TWU is at least the utility of the itemset, so the filter has kept it
(`SharedItem`). For the ledger, `EfimHeld` counts one entry per stack, frame and transaction, and
a push shifts the frames of one stack by one (a bijection), which is why the sum can be
followed without induction.

**Utility-list miners.** `IInv` has the same shape: lists are right (`JoinOf`: the join of
two right lists is right, with the prefix subtracted once), what is found is right, and every
itemset looked for is settled or still to come. Settled is: found, or, for top-k, a heap
full of itemsets at least as good. A subtree is cut only when all in it is settled: by the
bound of a list (`BoundCovers`), by the co-occurrence structure (`PairsRight`: it has just
the pairs and TWUs of what has been read; `PairsCover`), or by the bounds on length. For
top-k, a threshold read earlier is at most the present one, and the present one is reached by
every member of a full heap (`HeapRight`), so pruning with either settles what it cuts.
`Scope` is what the two violation runs lack: the guard has room for every pair
(`miner_eucs_full` has not), and the algorithms with a heap mine for the top k
(`miner_tko_threshold` gives one a threshold instead). Without `Scope` the theorems are false,
and the types and `MinerListsExact` still hold.

**Chunker.** `Findable` needs to know where pages lie: the tids of a page lie between the
start under which the directory lists it and its end (`Listed`), and these ranges do not meet
(`PagesApart`), so the last start that is not beyond a tid is the one of its page. A page id
is taken only when the write has succeeded; after a failure the same id is written again,
which no listed page has (`current_page_id` is above all of them).

**HUIM-MMU.** `StreamInv` says where the window is: the last transactions read, no more than
a window (`WindowRight`). A slide drops the older half and leaves the overlap, so a stretch
that begins in the part dropped has ended inside the window that was just mined
(`LeftMined`). The hypothesis that nothing was lost is in the property (`Unharmed`):
writes that fail, and FHM's pairs cut short by the guard, are among the code's behaviours. That
a file in which no write has failed does not end in a torn line, so that a copy is appended
whole, follows from `OutputSound` and from the torn line's being one of those spoiled.

**Tree miners.** The invariant (`TreeIInv`) is about three things.

*A tree.* `Shape`: the slots from its root up to a bound are its nodes, each below its parent,
with the items on the way to it in the order of the tree; no two nodes have the same items,
and the children and the lists of the header are those. `Content`: a node is worth the sum of
what the transactions whose paths pass it add, and every path has its nodes. `Holds` is both.
`Grow` keeps them for a path one item longer, `Insert` for a whole path, and `Conditional` for
a new tree: the base of an item read from a tree that holds `K`'s paths holds the paths of
those of `K` that have the item, cut before it (`Reading`, `BaseRight`).

*The arena.* `Grove`: the trees of the calls lie one behind the other, each ends where the
next one begins and the last at the arena's next slot; and each holds the transactions that
have its prefix. A tree is built behind the last one and writes no slot before its root; a
return sets the next slot back to that root (`saved`). That is all that keeps a tree from
being overwritten, and why the frame must save the slot before the tree is made.

*The candidates.* `Forest`: no candidate is one that a frame may still come to (`Unmet`), so none
is found twice; and an itemset of high utility is a candidate or one that a frame still comes to
(`Coming`). What a frame comes to are the itemsets that extend its prefix by items it has not
mined (`GoesOn`). When an item is mined these split in those without it, which the frame
keeps, and those with it, which the new frame takes over; the latter are cut short only when
the item's weight, or the local weight of another item, is below the threshold, and either
weight covers the utility of all that is dropped. In UP-Growth a node's value leaves out the
items after it, and in its conditional trees the order is a new one: the shares stay those
below the first item of the prefix (`Company`), which is enough, since a candidate's items are
all among them. `Owed` is what the guard was asked for: by UP-Growth for each frame, by IHUP
for each candidate.

**Recursive functions.** A definition by recursion over a function gives the prover an
equation only if some function satisfies it. For the walks up a tree the function is at hand,
and no other satisfies the equation, since there would be a least slot at which they differ
(`ItemsToIs`, `RootOfIs`); for the two loops, there is no least length for which none
satisfies it (`InsertSteps`, `ConditionalSteps`). What holds after every step of a loop is
proved the same way, by the least step after which it would not: the library's induction
theorems take an operator as a parameter, a set of naturals with no least member does not
(`LeastNumber`).

**The composition.** `MiningInv` says that the invariant of the one algorithm that the mode
names holds. The mode never changes, so a step is one of that algorithm and keeps its
invariant; the properties are guarded by the algorithm they are about, and `PromiseKept` and
`LedgerClosed` follow case by case.

Each property was checked by TLC before it was proved. The proofs use the library's facts on
cardinality, finite sets, functions, sequences and well-founded orders, and the assumptions
on constants that the modules state.

## 6. What is only model-checked

* Liveness (`CallsReturn` and the three `Ends`): liveness under fairness is out of the prover's
  reach.
* Everything else that the passing runs check is proved, each for all values of the
  constants, under the hypothesis the table names where there is one: `pool_sequential` is
  about one thread, `Exact` and the top-k properties hold in their `Scope`. The properties of
  the violation runs are false.
* `MCStorage` and `MCWindows` put two components side by side to share a run; the theorems are
  about each component's own specification.

## 7. What is not modelled

* Prefetch: it reads page files to warm the cache of the operating system and drops what it
  read. No state of the program changes but a counter that nothing reads but the reports.
* The experiment harness, the TUI and progress, and the command line but for the choice of
  the algorithm: I/O and display.
* Layouts of bytes (page headers, compression, checksums, list bodies, nodes on their pages):
  abstracted to contents and torn files.
* Metrics and `set_predicted_prob`: they reach only reports and a score that is modelled as
  free choice.
* `delete_page`, `Eucs::build` and the guard's `spill`, `load` and `load_and_delete`: no
  caller in mining.
* The number a run of HUIM-MMU returns: the model has it (`total`), but it is only printed,
  and no property is stated of it. It adds FHM's running totals, so a result of an earlier
  window is counted again for each later one.
* Racing requests to the guard within `ProjectionMiner`: they are atomic there, and taken
  apart in `MemoryGuard`.
* The heap of Rust, and memory limits of the operating system beyond the safety net.
* Negative utilities: bounds and filter assume there are none. Items present with utility 0.
* What a pin reads once its frame has been freed, in the searches (section 2, VerticalMiner).
* Transactions of so many items that the `u16` offset of EFIM wraps: the properties assume that
  `OffsetLimit` is beyond every offset.
* What a spoiled line of the output says to its reader.

## 8. Plan

Order of work, most important behaviour first.

1. `BufferPool` with `PageStore`, its runs and proofs: done.
2. `MemoryGuard`, its runs and proofs: done.
3. `ResultPipeline`, its runs and proofs, with the order of results: done.
4. `UtilityLists`, `UtilityListMiner`, their runs, and the proof that the miners are exact: done.
5. `ProjectionMiner` and the proof that it keeps the promise: done.
6. `VerticalMiner` and the proof that it keeps the promise: done.
7. `TreeMiner`, `Mining` and the proof that every algorithm keeps the promise: done.
8. `Chunker`, `HuimMmu` and their proofs: done.

New components share a run where they answer one question, so that the runs stay few.
