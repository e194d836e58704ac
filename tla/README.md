# WarbandReplayer: TLA+ models, checks and proofs

WarbandReplayer records the battles of a game server into an SQLite database (`lua/main.lua`) and
plays the recording back in a browser: a page (`main.js`), a few Web Workers that share one
WebAssembly memory (`replay-worker.js`, `replay_worker.c`, `replay_export.c`, `sql_terminal.c`,
SQLite itself with a VFS of its own, a libc whose heap is `goyslopless-c/lib/heap.c`), and a WebGL
renderer (`main.c`). This directory models the parts of it where the order of steps matters, checks
the models with TLC and proves theorems about them with TLAPS.

Paths are relative to the repository root (`src/` in `PROJECT.json`).

## 1. Inventory

### Who runs where

| thread | code | state it keeps |
|---|---|---|
| game | `lua/main.lua` | the scene, score and factions last seen, the open transaction, the recording |
| page | `main.js` | every UI global: which worker is which, what is in flight, what is primed, which request the SQL terminal waits for |
| loader / playback worker | `replay-worker.js` + `replay_worker.c`, `replay_export.c`, `sql_terminal.c` | the one read-write SQLite connection, the match list, the rosters, the per-battle indexes and summaries, the checkpoints |
| up to eight bounds readers | same binary | a read-only connection and a partial min/max each, then they are terminated |
| prefetch worker | same binary | a read-only connection; writes rowid bounds of battles into the shared array |
| compress worker | `compress-worker.js`, `compress_worker.c` | one xz encoder or decoder |

The workers that run the replay binary share one `WebAssembly.Memory`; each has its own stack, its
own heap arena and its own thread index, and they all reach one `main.db`: an OPFS file every worker
opens its own access handle on. They talk to the page by `postMessage`, FIFO in each direction, and
to each other only through that memory and that file.

### Components

| component | state | operations | interacts with | what is hard | what makes it correct |
|---|---|---|---|---|---|
| Recorder (`lua/main.lua`) | transaction, last values, counters | tick, spawn/kill/chat | the game, which may raise; readers of the file, which make a commit fail | a handler cut short leaves its transaction open for the next | a tick is in the file whole or not at all, in order, with the values of its moment |
| Battle segmentation (`sql/default_boundary_detection.sql`, `replay_worker.c`) | two folds over ticks and boundaries | merge, segment, tail, scan | every other part counts battles this way | four thresholds, each inclusive or exclusive | battles tile the recording, none too short, no boundary lost |
| Load pipeline, worker lifecycle (`main.js`, `replay-worker.js`, `replay_worker.c`) | load state, readers remaining, OPFS handles | bootstrap, feed, finish, bounds, combine, terminate | all | exclusive OPFS handles outlive a terminated worker | playback starts once, only when every part is in |
| Shared-file VFS (`sqlite3/sqlite3_vfs_mem.c`) | two lock atomics, each handle's level, size, a page cache per thread | xLock, xUnlock, xCheckReservedLock, xClose, xRead, xWrite, xTruncate | SQLite above, OPFS below, other threads beside | the two atomics are read and written separately; caches are dropped only on SHARED | the count is exact, one writer, the kind never outlives its owner, no stale read |
| Private and temporary files (`sqlite3/sqlite3_vfs_mem.c`, `replay-worker.js`) | buffers; a pool of scratch files | open, read, write, truncate, close, a worker's end | SQLite above, OPFS below | a pool slot outlives its file and its worker; a buffer may not grow | each is a file: what was written, zeroes in holes, nothing of another |
| SQLite's mutexes (`sqlite3/sqlite3_mutex_wasm.c`) | locked, owner, depth; a pool of 32 | alloc, free, enter, try, leave, held | nothing: never registered | owner and lock are written separately | exclusion, recursion counted, slots lent once |
| Heap (`goyslopless-c/lib/heap.c`) | boundary tags, free list, regions per thread | malloc, free, realloc, calloc, extend | every C module; other threads grow the same memory | regions interleave with those of other threads, coalescing must stop at their ends | blocks disjoint, tiles exact, free list exact |
| Playback clock, frames and roster (`main.js`, `replay_worker.c`) | cursor, the one request under way; synced tick, roster, corpses, active battle | seek, pause, loop, frame, revert | scheduler, overlays, camera | a roster is only moved forward or rebuilt; errors name no request | a frame is a replay of the events up to its tick; the page gets to its clock |
| Per-battle caches (`replay_worker.c`, `replay_export.c`) | ready battles, summaries, budget, battle on screen | frame, prime, pre-warm, revert | the page's scheduler | eviction may take what is on screen, or chase what was just built | the battle on screen is ready, work ends |
| Scheduler of proactive work (`main.js`) | primed, declined, cached, skipped, three in-flight flags | schedulePriming, scheduleSummaryPrewarm, the answers' handlers | playback worker | flags and sets that survive a lost answer, an eviction, a revert | no flag stuck, no starvation, bars tell the truth |
| Battle bounds (`replay_worker.c`) | rowid bounds of each battle and whether known | prefetch, ensure_bounds_known, fetch_positions | prefetch worker writes, playback worker reads | plain stores published by a flag, BUSY answered as "no row" | bounds used are bounds computed |
| Derived schemas (`replay_export.c`, `replay_worker.c`) | r, b, bc0..bcN, their keys, the generation | ensure, generator scripts, export, teardown | checkpoints roll the schemas back under the keys | a key kept outside the transaction vouches for rows inside it | a key that hits is right |
| Render queries (`main.js`, `replay_worker.c`, `main.c`) | list, cards, windows; slots; point buffers | edit, push, validate, re-query on frame, draw | derived schemas, frames | three copies of the list, replies by slot number, three cache modes | engine, cards and screen come to agree with the list |
| Checkpoints (`sql_terminal.c`, `main.js`) | the savepoint stack, a sequence number; list and selection | baseline, save, revert, statements typed | derived schemas, render queries | revert must reset every cache; users type COMMIT | a number brings back what was saved under it; nothing undone is seen again |
| SQL queue, sessions, reset (`main.js`, `replay-worker.js`) | one active request and a queue, a promise per derived schema, what windows show | post, pump, finish, ensure, refresh, save, reset | playback worker | answers of an old session, requests that never get one | each request answered once, no answer taken for another's |
| Schema Explorer (`main.js`) | knownSchemas shared by all windows, a tree each | refresh, filter, bootstrap | queue, derived schemas | refreshes rebuild schemas, which start refreshes | a tree is the database; refreshes end |
| Chat and symbol overlays (`main.js`) | last key asked for, rows, elements in the layer | ask on a new tick, render the answer | queue, frames | answers for a tick already left | at rest, the rows are those of the tick on screen |
| Camera (`main.js`) | followed, centered on, shift | pan, recenter, follow a new battle | queue, frames | the answer comes after the battle or the user has moved on | a view that follows is centered, a panned one left alone |
| Windows of the page (`main.js`) | mode, two memories, saved rectangle, chat anchor | minimize, maximize, drag, resize, close, clone | - | long sequences of clicks and drags | a window comes home, and only the mouse moves it |
| Export and xz glue (`replay_export.c`, `compress_worker.c`, `compress-worker.js`, `main.js`) | one tar, one codec input, the button | export, compress, download, decompress, parse | derived schemas | takes r and b over; resets come in between | what is downloaded is the battle, and loads as that battle |
| UI, WebGL, tokenizer, libc routines, SQL scripts, build scripts, tests, dev server | - | - | - | none that has a protocol | - |
| SQLite, LZMA SDK, cglm, ubench | third-party | | | | |

`PROJECT.json` lists each of them with its status, and under `hazards` the lines where the hard
behaviour bites.

## 2. Plan

Order: what every other part stands on, then what the user sees.

| module | composes | status |
|---|---|---|
| `VfsLock`, `SharedFile` | `SharedFile` extends `VfsLock` | modelled, checked, proved |
| `BattleCache`, `Priming` | `Priming` extends `BattleCache` with the page and two queues | modelled, checked, safety proved |
| `Checkpoints` | worker, page and their two queues | modelled, checked, proved |
| `Mutex` | - | modelled, checked, proved |
| `DbViews` | BattleCache's summaries, seen from the side of their content | modelled, checked, proved |
| `Heap`, abstract `Allocator` | the heap implements the allocator | modelled, checked, proved |
| `MemFile`, abstract `FileStore` | the files implement the store | modelled, checked, proved |
| `Session` | page, worker and windows with the SQL queue | modelled, checked, safety proved |
| `BattleBounds` | playback and prefetch worker on the rowid slices | modelled, checked, safety proved |
| `LoadPipeline` | page, loader, readers, prefetch worker and their handles | modelled, checked, safety proved |
| `Roster`, `Playback` | `Playback` extends `Roster` with the page's clock and two queues | modelled, checked, safety proved |
| `Recorder`, `Segmentation`, `Export`, `Archive` | the life of a recording, one after the other | modelled, checked; `Recorder` and `Segmentation` proved |
| `Camera` | page and worker with the background queue | modelled, checked, safety proved |
| `Overlays` | page and worker with the queue of SQL requests | modelled, checked, safety proved |
| `Panels` | one window of the page | modelled, checked, safety proved |
| `RenderQueries`, `Explorer` | page and worker with two queues each | modelled, checked; `RenderQueries` safety proved |

Abstract specifications: `VfsLock` is what `SharedFile` promises of the lock (proved); `BattleCache`
is what `Priming` promises of the caches (proved); `Allocator` is what `Heap` promises (proved);
`FileStore` is what `MemFile` promises (proved).

## 3. What the modules model

### `VfsLock` - the lock of the shared file

One handle per connection, `Conn`, of which `Writer` may ask for more than SHARED. `shared_count`
and `exclusive_kind` are the two atomics of `g_region_a_lock`; `lock_level` is each `MemFile`'s own.
One action is the code between two atomic accesses, so that `pc` records a handle that has tested
one atomic and has not yet written the other: `SharedTest`/`SharedAdd`,
`ExclusiveTest`/`ExclusiveStore`, `UnlockStore`/`UnlockSub`. `Reserve` is a single compare-and-swap.
SQLITE_BUSY, a request at or below the level held and SQLITE_MISUSE change nothing and are
stuttering. PENDING is never requested by SQLite's pager.

### `SharedFile` - file, size and page caches

Adds the file's pages (a page is the number of the write that filled it), the shared size, and each
thread's write-through cache with its clock hand. The composition is conjunction: each lock action
of `VfsLock` with what the VFS does to the cache in it (`LockShared` drops the thread's cache), plus
`Read`, `Write` and `Truncate` as SQLite's pager calls them. `overlapped` is a ghost: it records
that a holder met a writer at EXCLUSIVE, which the lock permits (first finding).

### `BattleCache` - what the playback worker keeps warm

`ready` (index and prepared statement), `summary` (bc<N>), `active`, `budget`. `Frame`, `TryPrime`,
`Prewarm` and `Revert` are the worker's four operations; `Farthest` is the choice of what to
sacrifice, `NotWorth` the decline check. Heap use is the sum of the costs of what is kept. A build
may be refused by SQLite (`failed`).

### `Priming` - page and worker around it

The page's globals are the record `page`; `toWorker` and `toPage` are the message queues.
`RequestFrame` is the render loop or `seekTo`, `On...` are the cases of `onLoaderMessage`, `Run...`
the cases of the worker's `onmessage`; `Schedule` is what each page handler ends with, so it is part
of the handler's action. `Throw` is the worker's catch, `RunRevert` a revert. `OnPrefetched` is the
prefetch worker's answer, of which only the moment matters.

### `DbViews` - checkpoints, derived schemas, render queries

`db` is everything a savepoint restores: the data (the number of the last write), r, b and the bc
slots; a derived schema is the battle, the data and the script it was derived from. Beside it,
outside the transaction, `view` and `cache` are the keys C keeps. `Counted` is the update hook,
`Ensured` is `replay_ensure_db_view` with all it may leave behind when refused, `Compute`, `Evict`,
`Cached` the bc slots. Actions: `Frame` (with the three kinds of render query slot), `Write`,
`EnsureView`, `SetScript`, `Configure`, `Prewarm`, `Export`, `Save`, `Revert`, `RevertFails`.

### `Allocator`, `Heap` - the libc heap of one thread

`Allocator` is the caller's view: blocks lie in the thread's own words, apart from each other, at
least as long as asked, and a block that is resized or moved is at least as long as before. `Heap`
is `lib/heap.c` with memory counted in 4-byte words: a header and a footer tag per chunk, even
payloads. `ChunkSet`, `PutFree`, `Coalesce`, `NextPhys`, `PrevPhys`, `FirstFit`, `Place` are the
file's static functions; `Malloc`, `Calloc`, `Free`, `ReallocStays`, `ReallocMoves` its calls;
`OthersGrow` is another thread's `memory.grow`, which leaves a gap (or none) in front of this
thread's next region. `build` chooses between the two preprocessor branches of extending. The
refinement maps the regions to `owned` and the sizes in the headers to `room`.

### `Session` - the SQL queue, windows and resets

Page globals: `active` is `activeSqlRequest`, `queue` `sqlRequestQueue`, `inFlight[k]`
`dbViewInFlight[k]` with `dbViewPending[k]` (they are set and cleared together; the model keeps the
session that asked). `win[t]` is what a SQL Terminal window shows and would save, `refresh[e]` where
the async function of a Schema Explorer awaits: the stages it has left. The handlers of the page are
compositions of operators on a record of the page: `Done` is what a continuation does after
`Finished` (finish and pump, in the code's order), `ViewReady` first starts the refreshes and then
lets the waiters of the promise go on, as the microtasks do. `Reset` empties both message queues
because `gracefulTerminateWorker` replaces the outgoing worker's `onmessage`; it leaves alone what
`triggerReset` leaves alone. `Load` stands for the whole load pipeline. The terminals' data viewers
are further users of the same three functions and are left out; chat and symbol queries are in
`Overlays`, the explorers' content in `Explorer`, the camera's queries in `Camera`.

### `BattleBounds` - the rowid slice of each battle

`table` maps rowids to ticks. `Narrowed` is one turn of the two bisection loops; `Found` runs a loop
to its end for the playback thread, whose reads are never refused, and `Probe` is one turn for the
prefetch worker. `bounds`, `known` and `span` are `g_matches[].rowid_lo/hi`, `g_bounds_known` and
`g_as_rowid_min/max`; each store of either thread is a step (`ResolveHi`, `ResolveKnown`, `StoreLo`,
`StoreHi`, `Publish`). `Build` puts the slice into a ready battle's statement (`used`). `exclusive`
is set by any write of the playback connection that may have spilled its page cache: checkpoint 0
opened a transaction that never ends, so it stays. `OnReady`, `OnPrefetched` and `OnError` are the
page's handler of the prefetch worker's answers, `Retarget` (a frame, which asks again when nothing
is asked) and `OnPrimed` those of the playback worker's, for any cursor. A request may throw at any
point and as often as it likes (`Throw`). `past` and `AsAssumed` name what the code takes for
granted: no refused probe, no edit before the next revert, no revert between the prefetch worker's
stores, and a span read from the table as loaded. Dropping any of the four makes TLC find a wrong
slice. That ticks ascend in a loaded table (`TicksAscend`) is what the code assumes of its files
(`replay_worker.c:255`).

### `LoadPipeline` - from picking a file to playback, and resets

`worker[x]` is worker x, named by the load whose code creates it and its thread id: how far it is,
its OPFS handle, the memory it was given, and the two message queues. `page` holds the globals of
`main.js`; `timers` the pending `setTimeout`s that create workers, of which one that was set no
later and with no longer a delay fires first, also across a reset; `waits` the workers behind
`pendingWorkerTeardown`; `browser` what stays fixed: handles granted on one file, and
`READER_COUNT`. `PickFile`, `Decompressed`, `StartLoader`, `Reset` are the two promise chains;
`OnLoaderMessage` and `OnReaderMessage` the message handlers, `Closing` and `Terminated` the two
halves of `gracefulTerminateWorker`; `Opens`, `OpenFails`, `Streams`, `Takes`, `Throws` the worker.
Bootstrap is one step once its handle is granted: later awaits only look at `shuttingDown` again.
Streaming, indexing and finding battles are one step that ends in `loaded` or in an error. What the
page would ignore is not posted.

### `Checkpoints` - the savepoint stack and the page's list

`stack` is SQLite's stack of savepoints, each with its number and the data it would bring back; data
are the set of the writes made so far. `Save` and `Revert` are `sql_terminal_save` and
`sql_terminal_revert`; `Statement` is what a user may type besides: COMMIT, ROLLBACK, RELEASE and
ROLLBACK TO, which the terminal executes like anything else. `listed` and `current` are the page's
`knownCheckpointIds` and its selection, `toWorker` and `toPage` the messages. The ghosts `saved`,
`undone` and `ended` remember what was saved under each number, which writes were undone, and
whether checkpoint 0 was ended by hand.

### `Mutex` - the mutexes of `sqlite3_mutex_wasm.c`

One atomic access is one step: `Scan` over the pool's `in_use`, `TestOwner`, `TestLocked`, `Deepen`,
`Exchange`, `StoreOwner`, `StoreDepth`, `Disown`, `Unlock`. `entered` and `lent` are the callers'
view, by SQLite's contract. The two arrays are zeroed, so that a static mutex starts with the id of
the loader's thread as its owner; `Loader` is that id. The histories `fresh` (static mutexes that
never had an owner stored), `zero` (one of them that the loader has just read as its own) and
`misled` (one that it then found locked, and went into) follow what comes of it: the properties hold
of every mutex that is not in `misled` (section 6). No file of the build registers these methods, so
the module says what the file promises, not what the threads run.

### `FileStore`, `MemFile` - the files that are not `main.db`

`FileStore` is what a SQLite connection may count on: an open file starts empty, holds what was
written, zeroes in holes, nothing that was cut, and a failed write leaves it as it was. `MemFile` is
the VFS and the pool of scratch files below it: a private buffer grows to the least of `Capacities`
that is enough (`FirstBuffer` = 4096 bytes, which is the unit, and its doubles), or fails to; an
anonymous file takes a scratch slot or, when there is none, a buffer. `MemWrite`, `MemTruncate`,
`MemRead` and `MemClose` are the methods of that name; `Shutdown` and `Bootstrap` are a worker that
goes away with files open and the one that starts on the same OPFS names. The refinement maps a file
to what reads of it return.

### `Roster`, `Playback` - frames and the clock

`Roster` is the worker's side of one frame: `TickAt` the binary search, `Resynced`
`resync_roster_to` (forward incrementally, otherwise from the tick before the battle), `Build` the
two resyncs of `build_frame_at_time`. Roster and corpses are the sequence of events applied since
they were cleared. `Playback` adds the page: the clock that runs, pauses at the end and is sought,
the one request under way, primes in between, errors that clear the marks without naming a request,
and reverts that bring another version of the data. Events are assumed in the order of their ticks,
as the recorder writes them: a delta is ordered by id, so that only then what is replayed a tick at a
time is what a rebuild replays. Times are integers, compared and never added up.

### `Recorder` - the game-side script

What a handler has still to do is `todo`, a statement a step: `Begin`, `NewTick`, `Check` for scene,
score and factions, `Agents`, `CommitTick`, and between ticks `Spawn` and `Detail`, each committed
by itself. Any call of the game may raise (`Raises`: who watches, before the tick is written; the
scene, a score, a faction, before it is compared; the factions' names, after; an agent), which cuts
the handler off with its transaction open; a reader may make a commit fail. `db` is what the
connection sees and `file` what is committed. `known` is a ghost: the values at each tick that
ended.

### `Segmentation` - how a replay is cut into battles

The script's folds a row a step: `Merge` drops boundaries that follow a kept one within the window,
`Segment` ends a battle at each that is far enough from its start, `TailSegment` adds what is left,
`Load` is the second phase of `scan_matches_via_sql` with its limit on battles and the factions each
is labelled with. A tick is its position. The constants' order, `MinTailGap` <= `MinMatchGap` <=
`MergeWindow`, is the code's (5, 10 and 15 ticks) and is needed: with a window below the gap a
boundary may be neither merged nor a cut.

### `Export`, `Archive` - a battle's way to a file and back

`Export` is the button and its globals, the playback worker's queues with frames, reverts and
exports in them, and the codec's worker, which a reset does not end. A file has ticks, events and
spans; `Exported` is what an exported battle keeps of them, `Matches` and `RosterAt` what a load
makes of a file. `Archive` is the byte side, in cells: `Pack` writes headers, data and padding,
`Feed` and `Encode` pass them through buffers that double, `FeedBack` and `Decode` are the other
direction in chunks, `Parse` a turn of `parseTar`. A user may pick a file that was cut short
(`Pick`), and memory may run out.

### `RenderQueries` - the list of rendering queries

The page has the list, the cards with their status, pop-out windows with a text of their own and
debounce timers; `pushed` is `lastPushedDotsIds`; `Picked` is the code's `filter`. The worker has
`engine`, the slots with what was last configured, and whether b is `attached`; the renderer has the
last points of each slot. Every edit (`Add`, `Delete`, `Move`, `SetField`, typing, leaving a field,
`Import`, `Reset`) ends in a push or a timer, as in the code; replies name slots.

### `Explorer` - Schema Explorers

`job[e]` is where the refresh of a window, or the editors' bootstrap, awaits; `known` is the one
`knownSchemas` that all of them empty and fill; `tree[e]` what a window shows. A refresh ensures the
derived schemas of its filter, lists schemas, lists their tables, describes each table and patches
the tree. The worker rebuilds schemas, runs DDL and scripts, and reverts; each of these may start
refreshes. Here the worker takes a message and the page its answers in one step: between them the
page only queues.

### `Overlays` - chat windows and NATO symbols

Both ask when a frame shows another tick, over a queue with one request at the worker, which answers
for the tick it is at by then. A row is the place and the version of the data it was read in.
`chatKey` and `sym.key` are the keys last asked for, `sym.attached` the elements in the document.

### `Camera` - the view that follows the battles

Frames of another battle and the Recenter button ask in a background query where the battle is, and
the answer shifts the view. `follow`, `centered` and `shift` are the page's globals, `asking` is the
query under way. The ghosts count what the properties excuse: `late` answers asked for before a pan,
queries that came to nothing (`missed`), and a button that centered on another battle than the page
notes (`strayed`).

### `Panels` - one window of the page

`Transition` is `transitionPanel` with its two memories; `Drag`, `ResizeBottom`, `ResizeTop`,
`ResizeSide` the mouse; `Rows` chat rows that arrive, `Close`, `Show` and `Clone` the rest. Only the
vertical axis has coordinates, in headers; the horizontal one is a flag. A window may be closed in
any mode and keeps it; one that was full when it was closed and is shown again is `reopened`, a
history, until it leaves that mode.

## 4. What the runs show

Properties that have parts are conjunctions of named definitions, given in brackets.

| run | checks | shows |
|---|---|---|
| `main_file` | `TypeOK`, `LockIsExact` [`SharedCountExact`, `OneWriter`, `KindIsOwnersLevel`], `CoherentUnlessOverlapped`, `StaysAlone`; `SlicesAreSound` [`BoundsTypeOK`, `BoundsAreCurrent`], `PrefetchingEnds` (`PrefetchEnds`) | two writers and a reader, two pages, one cache slot, three writes: the atomics always agree with the handles; a writer that is alone stays alone; a reader that met no EXCLUSIVE writer never reads a stale page. A known slice, and the slice in a statement, hold exactly their battle's rows, whichever thread found them; prefetching ends, refused or not, unless it throws for ever |
| `exclusive_race` | `ExclusiveIsExclusive` violated | SHARED beside EXCLUSIVE is reachable |
| `priming` | `TypeOK`, `ActiveIsReady`, `PageIsHonest` [`FlagsAreHonest`, `BarsAreTruthful`], `ProactiveWorkEnds` [`RestsInsideBattle`, `NothingLeftOut`, `AllPrimedWithoutLimit`] | the battle on screen stays ready; no flag is stuck; bars are truthful; the scheduler comes to rest inside a battle, leaves nothing out and, without a limit, primes everything |
| `db_views` | `CachesAreTruthful` [`TypeOK`, `KeysAreTruthful`, `SummariesAreTruthful`], `ShowsBattleOnScreen`, `NothingUndoneRemains` | keys and slots that vouch for rows are right; the map shows the battle on screen; nothing undone comes back |
| `session` | `RequestsInOrder` [`OneUnderWay`, `QueueOrder`], `NobodyIsForgotten` [`RefreshesKeepPace`, `PromisesAreUnderWay`, `WindowsAreServed`], `WaitedForIsShown`, `ComesToRest` | one statement at the worker, answered to who asked, user before background; refreshes and promises neither pile up nor get lost; a window that waits is served; the page comes to rest |
| `edits_misdirected` | `SavedIsShown` violated | two tables in one results area: edits of the first are saved as the second's |
| `prefetch_retries` | `MovesOn` violated | a battle whose prefetch threw is asked for again at once, before another one that is still to be asked for |
| `load` | `LoadIsSound` [`TypeOK`, `StartsComplete`, `FileIsFree`], `LoadEnds` | playback starts once, with every reader heard from and every slot combined; a new loader finds the file closed; a load ends in playback or at the upload overlay |
| `library` | `HeapIsExact` [`Tiled`, `NoFreeNeighbours`, `FreeListExact`, `InUseExact`], `ImplementsAllocator`, `MutexIsExact` [`MutexTypeOK`, `Exclusion`, `HeldIsTrue`], `LentOnce`, `FilesAreFiles` [`FilesAreKept` (`FilesTypeOK`, `SlotsHaveOneOwner`, `TailsAreClean`), `Store0!FsSpec`] | in both builds, chunks tile every region, free neighbours are one chunk and callers' blocks stay apart; threads exclude each other and recursion is counted; every private or temporary file is a file, across its worker's end |
| `recordings` | `RecordingIsSound` [`SwitchesAreKnown`, `TickIsAtomic`, `EventsInOrder`, `AgentsInTickOrder`, `DetailsFit`], `BattlesAreFound` [`SpansTile`, `NoShortBattles`, `BoundariesAccounted`, `TrueFirstMatches`], `DownloadsAreTrue` [`OneUnderWay`, `NamedAfterContent`, `BattleSurvives`, `SameAgain`], `ArchivesSurvive` [`RoundTrip`, `WellFormed`, `CutIsRefused`], `StagesEnd` | what is in the file is what happened, whatever went wrong; battles tile the recording; what is downloaded is the battle it says it is and loads as that battle; an archive is read back whole or refused; exports, archives and recordings end |
| `screen` | `FramesAreTrue` [`RosterIsReplayed`, `SearchFinds`, `FramesKeepPace`], `OverlaysComeRight` [`OverlaysTypeOK`, `ChatComesRight`, `SymbolsComeRight`, `NoForeignSymbols`], `FollowsBattles`, `PanIsFoughtOnce`, `ScreenComesToRest` | a frame is a replay of its battle's events; overlays at rest are of the tick on screen; a view that follows is centered, a panned one moved only by what was asked for before; all three come to rest |
| `tools` | `CheckpointsAreSound` [`NothingResurfaces`, `OpenAreOffered`, `BaselineUnlessEnded`], `RevertRestores`, `WindowsBehave` [`WindowsComeHome` (`SpanFits`, `HomeIsKept`, `OnlyLoopTraps`, `HeaderStays`), `MouseMoves` (`BottomStays`, `DraggedStays`)], `QueriesAreHeld` [`EngineHoldsList`, `ErrorsAreShown`, `NoFalseErrors`], `ExplorersAreSound` [`OneRequestEach`, `TreeIsTruthful`], `ToolsComeToRest` [`DrawnRight`, `AtRest`] | a checkpoint restores what was saved, nothing undone resurfaces; windows come home; engine, cards and screen agree with the list; trees are the database, refreshes end |

`main_file` and the last four runs put components side by side that share no state: a behaviour
picks one of them (`part` or `stage`) at the start and only that one moves. Where two components of
the code do interact, one module has both.

Bounds and why they are enough.

- `main_file`, the file: an interleaving that breaks one of the pair of atomics needs one handle
  between its halves and one other that completes an operation; a third one tells a writer from a
  second writer. One cache slot and two pages make every read of the other page an eviction. Three
  writes separate old, new and newest. The theorems remove the bounds.
- `priming`: three battles give every eviction a candidate on each side, of unequal size; battles 0
  and 2 are equally far from battle 1, so ties are reached. `MCBudgets` has no limit and one that
  holds a single index. The cursor is inside a battle, at its end before another battle, and at its
  end before a gap. One refused build, one move, one exception or revert.
- `db_views`: two battles (a switch), two ticks in one and one in the other (a new tick that is no
  new battle), four acts of the user or the scheduler of which one may be a refusal by SQLite. A
  save, a write, a revert and one more act is the longest story that the properties tell; b's script
  is edited, r's is not (r has no other use of its script).
- `session`: three acts are enough for a query and a save that collide with anything, for an ensure,
  a reset and a further act, and for two explorers that start each other; one terminal can have
  several requests, which is what the order is about. Two statements per save and two queries per
  refresh make each task come back to the queue.
- `main_file`, the slices: three rows with a gap in the rowids, the first before any battle, battle
  0 without rows and battle 1 with the last two: both searches take several probes and turn both
  ways, and the guard for an empty slice is met; the edits move a row to the other battle or delete
  the last one. One edit, one revert and one eviction are what the two threads can collide with;
  exceptions have no bound. `prefetch_retries` has a third battle, so that there is another one to
  move on to.
- `load`: two readers are the fewest for which a last report differs from a first; they are checked
  in a single load. Two loads, with one reader each, are what a reset can confuse. One mishap (a
  refused handle, a failed step, an exception, a worker that does not answer within two seconds) on
  top of the refusals a browser that grants one handle makes anyway.
- `library`: a slab of three to four chunks gives a chunk both neighbours in every state; pages of
  six words and a ceiling of 28 let a thread have three regions, touching or not, run out of slots
  and of memory; sizes 1, 4 and 6 round up, split with and without a rest, and do not fit; `Wrap` is
  16 so that one product of `calloc` overflows. Three threads over one pool slot and one static
  mutex meet an owner, a waiter and a third who asks, two levels deep, the loader among them; once
  it is misled that part stops, for the properties say nothing more of this mutex. Three files over
  two scratch slots run the pool dry, and a buffer of none, one or two units grows and shrinks past
  what was cut.
- `recordings`: a tick before, with and after a change, a spawn on either side, and two things that
  go wrong, so that one can follow the other. Segmentation has the code's own thresholds; boundaries
  alone, in pairs and in fours lie at and beside each of them, and so do ends. Two exports across
  one reset and one fault are what an answer can be confused with; the recordings have a gap in the
  ids, a battle that inherits its factions, and a second version of their data. Blocks of four cells
  with sizes at, before and after their ends, in chunks of seven that end nowhere near them.
- `screen`: two versions of a replay, two ticks of one time, a tail that is no battle; two seeks,
  pauses or reverts and one failure. Overlays: a gap, two ticks of a battle and one of the next, two
  queries of chat, two moves and one mishap. View: two battles and the gaps around them, four acts,
  one failed query.
- `tools`: three checkpoints beside the baseline, two writes and every statement that ends
  savepoints (the theorems remove these bounds). A screen four headers high, with windows of each
  kind. An engine with room for three queries and a renderer with room for two, any two edits of a
  page that starts in a battle (leaving it is one of them). Two explorers with different filters, one
  table in each schema, any two acts and one mishap.

Fairness. In `Priming` and `Playback`, weak fairness of the render loop, which
`requestAnimationFrame` calls whether or not playback runs; of the event loops, which deliver every
posted message in order. None is assumed for the prefetch worker (on some browsers it never gets its
file handle), for failures, reverts or the user. In `Session` it is the event loops of worker, page
and compress worker (`WorkerTurn`, `PageTurn`, `Packed`): a message at the head is taken, if only to
throw. In `BattleBounds` it is the prefetch worker's own progress (its loops are finite) and the
page's event loop; none for playback, the user or failures, of which `PrefetchEnds` excepts endless
ones by name. In `LoadPipeline` it is one condition,
that the program does not stop while there is something it can do (`Proceed`): promises settle,
timers fire, messages are taken, and each attempt at a handle is raced against a timeout in the
code. A browser that never releases a dead worker's handle is allowed. In `Overlays`,
`RenderQueries`, `Explorer`, `Export`, `Camera` and `Archive` the event loops are joined into one
action (`Turn`, `EventTurn`, `Worker`, `Work`): that some loop goes on while there is a message is
less than that each does. `RenderQueries` adds that a debounce timer fires, `Camera` that the SQL
queue reaches its requests, `Recorder` that the game goes on calling `tick`. In the five joint runs
each part is fair where it is the one that moves; in `tools` the conditions are spelled out, when
such an action is enabled and what its steps change, since the explorers' action cannot be told from
its effect and TLC decides the others faster so.

Deadlock is checked in `main_file`, `priming`, `db_views` and `library`. In the others the user's
acts are bounded, and page and workers then rest.

## 5. What is proved

TLAPS proves, for every value of the constants, from the `ASSUME`s of the modules only:

- `PlatformProofs`, on the file's lock: `LockExactness` (the run's `LockIsExact`), `LockTypeCorrect`,
  `CountIsExact`, `SingleWriter`, `KindIsExact`, `ExclusionIsKept`, for any finite set of
  connections. The facts are not inductive alone: a handle past the store of 0 in `memUnlockShared`
  still has its level but owns nothing. The invariant therefore speaks of the level and of `pc`
  together: where each `pc` value may stand, that an owner's level is `exclusive_kind`, that
  `exclusive_kind` has an owner unless it is NONE, and that `shared_count` is the cardinality of the
  holders. A lemma on adding and removing one element of a finite set carries the count through each
  step. On the file: `ImplementsVfsLock` (every step of the file is a step of the lock or a
  stutter), so the facts above hold of the file; `FileTypeCorrect`; `CacheCoherence` for every file
  and cache size. The invariant behind coherence: a holder that is not `overlapped` and is at
  EXCLUSIVE or below has only current copies, and a writer cannot write beside it without making it
  `overlapped` first. On the mutexes: `MutexExactness` (the run's `MutexIsExact`), with
  `MutexTypeCorrect`, `MutualExclusion`, `HeldIsExact`, and the action property
  `AllocationResetsNothing`, for any number of threads, pool slots and static mutexes. Ownership in
  the invariant runs from the exchange that takes the lock to the store that gives it back, not from
  one return to the next call: in between, `owner` and `depth` are still or already those of nobody.
  What a zeroed owner costs is named in each of them (`misled`; `fresh` for xMutexHeld's answer to
  the loader): the invariant has the loader read a zeroed owner as its own only while no owner was
  ever stored, and go into the mutex only in the one call that then finds it locked; a pool mutex
  never is, since a claim stores -1 first.
  On the heap: `HeapStaysExact` (`HeapIsExact`) and the refinement `HeapIsAnAllocator`
  (`ImplementsAllocator`), in both builds, for any memory, page size, cap on regions and set of
  requests that leave room to be rounded up in `size_t`. `HeapIsExact` walks from tag to tag; the
  inductive invariant, `HeapSound`, says instead that there is a set of chunks that tiles the
  regions, each with a footer like its header: the free ones are in the list, once, and no two are
  neighbours in a region; the used ones are the caller's blocks, and the counter is the number of
  words in them. Splitting, coalescing, growing and joining the next chunk are each a recut of a run
  of words, and one lemma (`RecutTiles`) has the regions tiled after a recut. That the walk visits
  this set and nothing else is shown at the end, from a least counterexample, since the walk's
  function can be unfolded but not reasoned about by induction. For the refinement each operation
  has a lemma that says which block it allots, releases, moves or resizes.
  On the files: `EveryFileIsAFile` (`FilesAreFiles`), for any number of files and scratch slots, any
  size of file and any lengths a buffer may have, 0 among them and some as long as the longest file.
  The invariant, `FilesInv`: an open temporary file has a slot that is in use, that no other file has
  and that is exactly as long as the file; a slot that is free is empty; a buffer is at least as long
  as its file and zero beyond it; a worker that is gone has no files. Each operation then writes,
  holes included, or cuts what reads of its file return, and leaves what they return of the others.
- `PrimingProofs`, on the caches: `CacheTypeCorrect`, `ActiveAlwaysReady`, for every number of
  battles, every cost, distance and budget and every cursor the page may send. On the page:
  `PrimingTypeCorrect`, `PrimingImplementsCache` (page, queues and handlers implement `CacheSpec`)
  and from it `ActiveReadyUnderPriming`; `PageAlwaysHonest`. What the page believes is seldom true
  while answers are on their way, so the invariant `HonestInv` speaks of the queue: the last message
  in it about what is ready, or about a summary, is the one that counts and is true; a queue without
  one means that the page already believes the truth; a flag is set only while its request or its
  answer is in a queue.
- `DbViewsProofs`: `ReuseIsTruthful` (`CachesAreTruthful`), `MapShowsTheBattle`
  (`ShowsBattleOnScreen`) and `UndoneIsGone` (`NothingUndoneRemains`), for any battles, ticks, slots
  and number of acts, from one invariant: a key that vouches for a derived schema or a slot names
  what is in it, and if every write was reported it is what deriving it now would give; the contents
  of savepoints rise towards the top and avoid what was undone; b is of the battle on screen unless
  a rebuild failed or an export took it over; a slot's rows are of the battle it was queried for.
- `QueriesProofs`, on the slices of battles: `BisectionIsRight` (the binary search over rowids with
  gaps ends at the rowid that parts the table, and the slice of two such searches holds exactly its
  battle's rows) and `SlicesAlwaysSound` (`SlicesAreSound`), for any table in tick order, any
  battles and any number of edits and reverts. The loop invariant: everything below `lo` is on one
  side and everything from `hi` on the other, and what is between still brackets the answer. It is
  kept by each single turn of the prefetch worker between the playback thread's steps; each of the
  three stores of either thread has its part (`StoredOk`: a bound already stored is right before the
  flag is).
  On the list of rendering queries: `QueriesAlwaysHeld` (`QueriesAreHeld`), for any defaults the
  engine has slots for (a load seeds two, of 16) that fit `MaxId`, and any number of slots, queries,
  edits and timers. The invariant, `QueryInv`, speaks of the newest message of each kind, and only
  while no edit waits for its push: the last push on its way to the engine is the list; when none
  is, the slots are; the last reply on its way back then names every slot SQLite cannot prepare, and
  others only if b was missing; once it is read the cards say the same. An engine without b is the
  one thing the page may be wrong about. For as long as it lasts the page is to push again
  (`StaleAt`): it wants to already, or will read of a revert, with no frame of a battle behind it.
  Replies that crossed a push are mapped with its ids; only their false errors are excused
  (`crossed`), since the reply to that push is behind them and misses none.
- `DatabaseProofs`, on the recorder: `RecordingsAreSound` (`RecordingIsSound`), for any number of
  ticks, spawns and changes of the game and any faults: each call of the game that `tick` makes may
  be the one that raises. The invariant follows a handler: for each place it may be cut off, what
  the tick under way has so far; `last` is what the events written say, but for the switch named in
  the property; nothing in the tables is later than now; tables and file are each sound, and equal
  outside a transaction. `EveryBattleIsFound` (`BattlesAreFound`), for every recording, every set of
  boundaries and every thresholds in the code's order: a loop invariant for each of the three folds,
  each between neighbours only, from which the quantified statements follow at the end. On the
  checkpoints: `CheckpointsSound` (the run's `CheckpointsAreSound`), with `CheckpointTypeCorrect`,
  `UndoneStaysUndone`, `BaselineStays` and the action property `RevertsRestore`, for any number of
  writes, saves and waiting messages and any set of typed statements. The invariant: numbers rise
  from the outside of the stack inwards and none is above the sequence number, so a number names at
  most one savepoint; the data of savepoints are nested and avoid what was undone; each savepoint
  has the data that was saved under its number; checkpoint 0 is at the bottom until the user ends
  it. That every open checkpoint is offered is inductive by itself, given the types.
- `LoadPipelineProofs`: `LoadsAreSound` (`LoadIsSound`), for any number of loads, readers and
  mishaps. The invariant has, for each worker, what its role, its load and its place in life allow
  its queues and its memory to hold; timers in the order of their delays, each of which creates its
  worker once; for each OPFS handle that is held, that somebody waits for its owner or that an
  exception names it; that the turn of a load (a decompression, a message, a timer, a promise) is in
  one place at a time, which is why it plays once; that `remaining` counts the readers that have not
  been heard from. The attempt corrected the model in three places: timers now fire in the order of
  their delays across loads; a reader left behind by a reset may also compute into the next load's
  memory, which `StartsComplete` has to except; a slot is `combined` by the loader of this load.
- `SessionProofs`: `InOrder` (`RequestsInOrder`), `NobodyForgotten` (`NobodyIsForgotten`) and
  `ShownIfWaitedFor` (`WaitedForIsShown`), for any number of windows, explorers, schemas, sessions
  and acts. All three follow from one invariant, `Sound`, of a page and the answers on their way to
  it: of the requests at the worker and their ends on the way back there is one, of the request the
  page waits for, with its columns before its end; numbers rise along the queue; an explorer that is
  under way has the probe or the promise its stage says; a promise has a message on its way that
  settles it; a busy window has a request pending; what a window shows is nothing, or the query that
  runs for it, or the last one. The handlers are compositions of small operations on the page
  (`finishActiveSqlRequest` pumps the queue and then hands on the answer, which may ask again), so
  the parts of the invariant carry the set of those windows, explorers and promises for which they
  do not hold at that moment, and each operation has a lemma that says which it needs and which it
  leaves. The loops over explorers are sequences of such operations. `WaitedForIsShown` rests
  on a window whose user waits for each answer having nothing pending beside a run; of edits made
  without waiting, `SavedIsShown` (section 6) has a counterexample.
- `ScreenProofs`, on playback: `FramesAlwaysTrue` (`FramesAreTrue`), for any replay, any number of
  seeks, reverts and errors and any clock. The worker's half of the invariant: unless it is at
  nothing yet or was invalidated, the roster is the window of events from its battle's start up to
  the synced tick. Windows of ascending events are intervals of ids, so a window and the one that
  follows it concatenate to the window of both, which is why moving forward and rebuilding agree.
  The bisection over times is right because a wrong interval would have a shorter wrong one inside
  it (and its recursion has a solution: the function that gives the last tick of each interval). The
  page's half: the requests and frames under way are no more than the mark, plus the errors that
  have cleared it; an error still in the queue has not done so yet. On the camera:
  `ViewAlwaysFollows` (`FollowsBattles`) and the action property `PanIsSeldomFought`
  (`PanIsFoughtOnce`), for any number of battles, loads, edits, reverts, pans and failed queries.
  The invariant: of a frame's request and the frame, and of a query, its row and its error, exactly
  one is under way while the page waits for it; the page knows the battle the worker is at, or the
  frame that tells it is on its way; a row under way is of this load, and of a battle that a frame
  ahead of it shows, or that is shown when nothing newer is behind it; what was noted is on screen
  once no query of the button waits, and is where the view is once none waits at all; `late` is at
  most the queries under way, and all of them while the user pans. On the overlays:
  `OverlaysAlwaysComeRight` (`OverlaysComeRight`), for any replay, number of chat queries, seeks,
  reverts, toggles and failures. The invariant, `OverlaysInv`: the request at the worker has one
  message, its own or its answer; the tick the worker is at is pictured, or a frame on its way tells
  it; rows on their way are of the tick that is pictured when they are read, unless a revert is
  behind them. Each new tick starts a chain of requests (one per chat query; the two of the symbols)
  behind the chains still under way, and all take turns, so the newest chain is the one with most
  left to ask, and among equals the last in the line. If no other tick and no revert are on their
  way, the newest chain has gathered rows of the tick on screen only, and what it sets last is
  right; older chains end before it. At rest the line is empty, so the newest chain has ended. On
  the windows: `WindowsAlwaysBehave` (`WindowsBehave`: the invariant `WindowsComeHome` and the
  action property `MouseMoves`), for a window of any kind and a screen of any height. The invariant,
  `WindowInv`: span, pinned edge and mode fit, unless the window was reopened in a full mode; the
  chat window's top is its anchor less its height while it is not full; of any other window that is
  shown, the rectangle, or the one saved while it is full, is where the user put it, and a full one
  keeps what it saved while it is hidden. Each function of the mouse (`Moved`, the edges) is a
  change of the window followed by the same three calls, which one lemma (`PutKeeps`) is about; a
  click is the toggled mode, the span and the observer in turn.

Only model-checked:

- all liveness, which is outside the prover's logic (`ProactiveWorkEnds`, `ComesToRest`,
  `PrefetchingEnds`, `LoadEnds`, `StagesEnd`, `ScreenComesToRest`, `ToolsComeToRest`);
- `DownloadsAreTrue` and `ArchivesSurvive`, which rest on selections of events and folds over
  blocks, and `ExplorersAreSound`.

## 6. Findings

Three statements of the repository have a run that refutes them: the lock's exclusion
(`exclusive_race`), "edits made directly in the results table" (`edits_misdirected`), and "drop this
attempt and move on rather than getting stuck retrying" (`prefetch_retries`): the prefetch worker's
`error` handler marks nothing (`main.js:2556-2561`), so the next request is the same one, and a
battle whose reads always throw keeps every other one from being prefetched.

Other statements of comments that the code was seen to miss while its modules were written. No run
is kept for them; the properties are stated so that they hold, with the exception named in them or
in the module.

- Lock and memory: "It should stop" (`replay_worker.c:588`): with the cursor where a battle ends,
  frames rebuild what primes evicted (541), so `ProactiveWorkEnds` speaks of cursors inside a
  battle. "Only affects latency, never correctness" (`replay_worker.c:267`): a refused probe is read
  as "no row" (325), see `AsAssumed`. "Registered once by the loader thread"
  (`sqlite3_mutex_wasm.c:3`): `wasm_mutex_methods_get` has no caller, and SQLite takes its no-op
  mutexes. If they were registered: an owner is "-1 if free" (`sqlite3_mutex_wasm.c:37`), but the
  static mutexes are zeroed (44) and never given one (64-69), so they start as the loader's, whose
  id is 0; a loader that reads owner (81) before another thread's first enter has stored it (89) and
  locked after that one's exchange (88) goes in beside it. See `misled`.
- Reset: requests are not to leave windows stuck (`main.js:1201`), but the promises of derived
  schemas and `exportInFlight` (2261) survive a reset: see `Orphaned` in `Session`, `lost` in
  `Export`.
- Frames: a second resync leaves the roster at the next tick, so a frame between the same two ticks
  replays the battle from its start (`replay_worker.c:717`, said to be incremental), outside battles
  the whole file (726); at a battle's last tick the active battle is already the next one's (1256,
  422). An error clears the mark of a request still under way (`main.js:2979`), so requests can pile
  up: `FramesKeepPace` counts them.
- Derived schemas: a slot with `@CACHE NONE` does not "self-heal" (`replay_worker.c:1261`, 959) when
  its query failed.
- Checkpoints: #0 is not "always valid" (`sql_terminal.c:174`) once the user typed COMMIT, ROLLBACK
  or RELEASE, see `BaselineUnlessEnded`; a revert discards the checkpoints saved after it (190),
  which the page goes on listing.
- Overlays: an answer on its way renders the last battle's chat into a gap (`main.js:2482`); symbols
  cached when the layer was emptied are not attached again (957); a revert keeps the symbols' key
  (3041). See `excused`.
- Camera: a pan with an answer on its way is followed by one more shift (`main.js:3682`), which
  `PanIsFoughtOnce` counts; the button does not note the battle it centered on (3665); a battle is
  noted before its place is known (2896); a revert does not forget it (3030).
- Render queries: an error reply is matched to the latest push, not its own (`main.js:3094`, see
  `crossed`); the points of a deleted last query stay (`main.c:125`); a control of a card does not
  update an open window (`main.js:234`); reset and import leave windows orphaned (155); an import
  takes the shape from the record, not the text (680).
- Explorers: two refreshes at once empty each other's `knownSchemas` (`main.js:3846`, see `alone`);
  one asked for meanwhile is dropped (3801), also when it was for another filter (3818); a refresh
  with filter r or b leaves the editors without main's tables (3846).
- Windows: maximize, minimize, maximize leaves two modes that alternate (`main.js:1331`, see
  `OnlyLoopTraps`); a window that is closed while it is maximized and shown again is still in that
  mode but stands where windows spawn (1290-1308), against "the span is already correct for the new
  mode" (1509), see `reopened` in `SpanFits`; a chat window may hang its header off the screen
  (1976); a clone keeps the width of its original's style (1902).
- Battles: a battle's factions are those at its first tick, before a switch merged into its boundary
  (`replay_worker.c:1465`); an exported battle has no switch from before its own start (1817), see
  `RosterAt` and `Label` in `Export`.
- Recorder: an event between two ticks is of the tick before, also at a change of scene
  (`lua/main.lua:126`); before the first tick it refers to none; factions renamed under one id are
  not noticed (170); after a refused commit details may be written for an event that is not there
  (127), see `met`.

Other exceptions that properties name, each necessary (TLC finds a violation without it): a write
that SQLite's update hook does not report (`KeysAreTruthful`); a slot queried while b was another
battle's, which an export clicked before a pending frame was answered brings about
(`ShowsBattleOnScreen`); a load in which a reader left behind by a reset was counted, or computed
into its memory
(`StartsComplete`); a worker killed by the safety timer, created by a timer that outlived its load,
or forgotten by a second reset (`FileIsFree`); factions noted by the recorder in a tick cut short by
the game (`SwitchesAreKnown`); a refused probe, an edit before the next revert, a revert between the
prefetch worker's stores, and a span of a table other than the one loaded (`BoundsAreCurrent`).

## 7. What is not modelled

Components with status `not_modelled` in `PROJECT.json`: presentation whose state no other part
reads (timeline, tooltips, settings, autocompletion, tokenizer), the renderer's arithmetic and
shaders, routines of the libc that keep no state, SQL views and default queries (their meaning is
SQLite's), constants of the memory layout, the development server, build scripts and tests, and the
third-party code (SQLite and its shell, the LZMA SDK, cglm, ubench), which is more than nine tenths
of the repository's lines. SQLite and the codec appear as what the modelled code may expect of them.

Inside the modelled parts, left out:

- a commit of the recorder that the process does not survive (its journal is in memory, so what is
  left is up to the file system), a full disk, and the browser's storage quota: `opfs_write_bytes`
  and `memWrite` ignore the result of `js_opfs_write`, so a failed write has no consequence in the
  code that could be modelled;
- SQLite's own global state under its no-op mutexes, which several threads reach;
- a `WebAssembly.Memory` that cannot be allocated, a decompress worker whose script does not load, a
  handle granted after its timeout, the shutdown messages sent when the tab closes;
- the values SQL computes, errors that depend on rows, the blend between two ticks, generator
  scripts an import carries;
- held keys, zoom, the stacking order and the horizontal place of windows; columns of tables beyond
  their number.

## 8. Running

    tlc -workers 2 -config MCMainFile.cfg MCMainFile
    tlapm PlatformProofs.tla

`main_file` (1.2 million states), `screen` (0.7), `tools` (0.5), `priming` and `db_views` (1.7) take
two to three minutes each with two workers, `load` (0.3), `library` (0.2) and `recordings` (0.7) one
to two, the others less. From nothing, the proof modules take a few minutes each, `PlatformProofs`
and `SessionProofs` up to ten.
