# A verification project for libtorrent4j

libtorrent4j wraps the C++ library libtorrent for the JVM. Most of the repository is
generated (the SWIG bindings) or forwards one call (the value classes and alert classes).
Its own logic sits in two places:

* `swig/flow_saf_disk_io.cpp`: a disk back end for libtorrent that stores torrents as
  documents of Android's Storage Access Framework (SAF), with its own worker thread, job
  queue, descriptor cache, part file and failure handling;
* `org/libtorrent4j/SessionManager.java`: the concurrent front end applications use, with
  a volatile native session, an alerts thread, and blocking calls built on listeners. Next
  to it are the statistics classes it feeds.

This directory holds TLA+ models of that logic, TLC configurations that check them on small
instances, and TLAPS proofs, for instances of any size, of every safety property the passing
runs check. Source paths below are relative to the repository root.

## 1. Inventory

| Component | State | Operations | Talks to |
|---|---|---|---|
| SAF requests, worker, abort (`flow_saf_disk_io.cpp` 172-750) | `m_torrents`, `m_free_storage`, `m_jobs`, `m_accepting`, `m_stopping`, the worker | `new_torrent`, `remove_torrent`, the `async_` operations, `submit_jobs`, `abort`, `worker_loop` | the session's network thread calls it; handlers go back through `m_ios` |
| SAF descriptor cache (147-170, 687-692, 767-871) | `m_descriptors`, `m_use_counter`, `m_descriptor_limit` | `open_file`, `evict_one`, `close_storage`, `close_file`, `close_all`, `scoped_descriptor`, `settings_updated` | jobs use it; `settings_updated` comes from the network thread |
| SAF documents (873-1338) | the documents, the part file, `torrent_storage` (root, logical names, paths, priorities) | reads, writes, hashes, rename, priority migration, move, delete, check | the bridge `flow_saf_storage`, which may fail at every call |
| SAF path rules (67-105) | none | `safe_relative_path`, `normalized_save_root`, `rooted_path` | all of the above |
| SAF transfer loops (`flow_saf_disk_io.hpp`, `flow_saf_storage.cpp`) | none | `pread_all`, `pwrite_all`, the slices of a block, `getentropy` | `pread`, `pwrite`, `read` |
| SessionManager lifecycle | `session`, `sync`, `alertsLoop` | `start`, `stop`, `restart`, about 40 session methods, the alerts loop | native session, listeners |
| SessionManager fetch and download | `syncMagnet`, listeners, a latch and a reference per call | `fetchMagnet`, `download` | native session; the alerts thread runs the listeners |
| SessionManager DHT and endpoints | latches, the endpoint list, the external address | `dhtGetItem`, `dhtGetPeers`, `onListenSucceeded`, `onExternalIpAlert` | alerts thread |
| Alert listeners (`AlertMulticaster`) | an immutable tree per alert type | `add`, `remove`, `alert` | application threads, alerts thread |
| Statistics (`IntSeries`, `SessionStats`, `TorrentStats`) | circular buffers, averages | `add`, `get`, `last`, `update` | alerts thread |
| `PiecesTracker` | the pieces of each file, the complete pieces | constructor, `setComplete`, sequential counts | the application |
| Encoders, value classes, alert classes, bindings | none of their own, or a copy | conversions | - |

What is hard here, and what correctness means:

* **Queue.** Two threads, a condition variable that `enqueue` does not signal, a join, and
  storage numbers reused while jobs of the former torrent wait. Correct: every handler is
  posted exactly once; `release_files` is a fence; `abort` drains and returns; no torrent
  ever sees a descriptor of the number's former owner.
* **Cache.** A limit that changes in the middle of the eviction loop; failures between the
  closing of one descriptor and the opening of the next. Correct: no leak, no double close,
  no stale name, no descriptor closed under its user, no endless eviction.
* **Documents.** Operations of several bridge calls, each of which may fail, and a process
  that may die between any two. Correct: what was reported as written is always where reads
  look for it; names never end up half changed; success reported is success.
* **Lifecycle.** Every use of the volatile field may see another value. Correct: at most one
  native session, never used after deletion, always served by one alerts thread; `stop`
  returns.
* **Fetch.** Fetches of one hash share a torrent that one of them owns, under timeouts and
  late alerts. Correct: one owner, nothing left behind, everybody returns.
* **Restart.** Resume data is older than the documents, a killed job left them half changed,
  and `validate_resume` compares sizes only. Correct: the session never counts on a file
  that reads will not find, and an ordinary restart costs no full check.
* **Listeners.** One slot per alert type, replaced by any thread while the alerts thread
  walks what it found there. Correct: no registration is lost, everybody registered is called
  once, a DHT request cannot miss its answer and leaves no listener behind.
* **Sequential algorithms.** Wrap-around of the series, transfers cut short, names scanned by
  hand, files that share pieces or are empty. Correct: each equals a definition without loops.

`PROJECT.json` lists every component with its status, and under "hazards" each of these
dangers at the line where it bites with the properties that would notice.

## 2. Modules

| Module | Models | Extends / used by |
|---|---|---|
| `SafJobQueue` | requests, worker, abort | `MCSafJobQueue`, `SafJobQueueProofs` |
| `SafDiskService` | what a disk back end promises its session (abstract) | instantiated by `SafJobQueue` with a refinement mapping |
| `SafDescriptorPool` | the descriptor cache and the kernel's table | `MCSafDescriptorPool`, `SafDescriptorPoolProofs` |
| `SafStorage` | the documents of one torrent | `MCSafStorage`, `SafRestart`, `SafStorageProofs` |
| `SafRestart` | the same with kills, restarts and resume data | extends `SafStorage`; `MCSafRestart`, `SafRestartProofs` |
| `SafTransfer` | the loops that move bytes | extends `PrefixSums`; `MCSequential`, `SequentialProofs` |
| `SafPaths` | save roots, document names, directories | `MCSequential`, `SequentialProofs` |
| `SessionLifecycle` | start, stop, restart, methods, alerts thread | `MCSessionManager`, `MCSessionLifecycle`, `SessionLifecycleProofs` |
| `FetchMagnet` | `fetchMagnet` and `download` of one hash | `MCSessionManager`, `MCFetchMagnet`, `FetchMagnetProofs` |
| `AlertListeners` | listener trees, delivery, DHT requests | `MCAlertListeners`, `AlertListenersProofs` |
| `IntSeries` | the circular buffer | `MCSequential`, `SequentialProofs` |
| `PiecesTracker` | how far a file can be played | extends `PrefixSums`; `MCSequential`, `SequentialProofs` |
| `PrefixSums` | sums of sizes | `SafTransfer`, `PiecesTracker` |

A module `XProofs` holds the TLAPS proofs about `X` and extends it; `SequentialProofs` holds
those about the four sequential algorithms; `SafRestartProofs` also
extends `SafStorageProofs`, whose step lemmas it uses.

The three SAF modules split one class along its locks. `SafJobQueue` shows that jobs run
one at a time and in order, which is what lets `SafStorage` have one job in progress and
`SafDescriptorPool` one `open_file` call; `SafTransfer` shows that a transfer is all or
error, which lets `SafStorage` take it as one step that may leave a document torn; in `SafJobQueue`, in turn, a job's effect is only
the set of descriptors it may leave, as the other two describe it.

Definitions whose comment starts with "Wrong on purpose" are plausible mistakes in the code
(a dropped guard, an error overwritten, a swapped order). They are not part of any
specification: `PROJECT.json` ("mutants") names for each property one of them that makes TLC
find the property violated when it replaces the right definition.

### SafJobQueue

A step is what a thread does while it holds `m_queue_mutex`, or between two acquisitions.
`m_jobs` is kept as the sequence `log` of all jobs ever pushed with the number `taken`
already popped, so that properties can speak about order. A request is its number and stands
for its handler; `posted` is the order in which handlers were given to `m_ios`. The 12
`async_` operations are grouped by their control flow and by what they do to descriptors:

* `read`: `async_read`, which can also be answered at once for lack of a buffer;
* `open`: `async_write`, `async_hash`, `async_hash2`, `async_check_files`;
* `drop`: `async_move_storage`, `async_delete_files`;
* `closeFile`: `async_rename_file`, `async_set_file_priority`;
* `release`: `async_release_files`, `async_stop_torrent`, which look up no storage;
* `clear`: `async_clear_piece`, likewise.

`abort` is four steps, because its notification, join and final close are outside the mutex.
The worker's wait is modelled as the standard defines it: the predicate is tested under the
mutex, waiting releases it atomically, a notification reaches only a waiting thread, and
there are spurious wake-ups.

### SafDescriptorPool

`open_file` is `OpenHit`, or `OpenMiss` (close a read-only descriptor that must become
writable; a failure before opening), `EvictOne` once per turn of the loop, `EvictDone`, and
`BridgeOpen` or `BridgeOpenFails`. `settings_updated` may come between any two of them: the
limit is atomic and not under `m_descriptor_mutex`. `kernel` is the process's descriptor
table, which makes leaks and double closes visible. Between two torrents that use the same
number, `MoveStorage` stands for the change of names.

`open_file` returns a bare number and gives up `m_descriptor_mutex`, so the use of a
descriptor is a state of its own: `using` is set when `open_file` returns and cleared by
`SliceDone` only, the end of the job's transfer; no closing action touches it. What keeps the
descriptor open meanwhile is the order of the threads, which `worker` stands for: jobs that
close, rename, move or copy start when the worker has no other job (`TakesJob`, shown by
`SafJobQueue`), its final `close_all` comes after the last job, and that of `abort` after the
join. With `remove_torrent` closing on the network thread instead of in a job
(`CloseStorageAtOnce`), TLC finds a transfer through a closed descriptor.

### SafStorage

One cell per file: the data the torrent prescribes, zeros, junk, or an empty document. A
step is one call of the bridge and the code up to the next one, and any call may fail
(`Faults`), leaving a transfer torn half way. Since properties are invariants of every
state, what they say holds between any two bridge calls, which is where a process may be
killed. Moves keep the code's order: ask for all sizes, copy everything, switch the names,
remove the sources, ignore failures of the latter. The history variable `have` holds the
files the session was told are stored; it shrinks only where the session asks to delete or
to look elsewhere (`reset_save_path`, and files that `dont_replace` keeps at the
destination).

Assumed of the environment: `async_rename_file` is given a name no other file has (the code
does not check), and files are not empty. `Rooted` stands for `rooted_path`; it is injective
for one root but may coincide for two roots, as in `x/y` + `a` and `x` + `y/a`.

### SafRestart

`SafRestart` adds to `SafStorage` what survives the process: `saved`, the resume data the
session wrote down between two jobs (stored files, skipped files, root, names). A kill
changes no document, because a job that fails already stops anywhere; `Restart` forgets the
job, takes names and priorities from `saved` and runs `async_check_files`: links refuse,
`validate_resume` looks at the files `check_file` looks at (all with exact sizes when every
piece is there or in `seed_mode`, else those of the pieces, existence only), or
`initialize_files` runs when there is no list of pieces. Documents of unknown contents may
have any size.

The history variable `since` says what happened after the save. `TrustIsDeserved` holds
while it is not `"voids"`: writes, skips, renames to names no file was saved under, killed
and failed anywhere. The exceptions are these; without the first three, or without the case
of a recheck, TLC finds the property violated, and no document of the repository promises it:

* a file is un-skipped to the place it was saved at: `ftruncate` (line 1284) gives its
  document the right size before the data is copied, and sizes are all that is compared;
* every file is wanted and the part file is removed: a file saved as skipped is then no
  longer there, and skipped files are not looked at;
* a name passes from one file to another: the document under it exists;
* after a deletion, a fresh check or a recheck, older resume data describes other documents.

### AlertListeners

A tree is null, a listener, or a pair; `AddTree`, `RemoveTree` and `Leaves` are
`addInternal`, `removeInternal` and `alert`. `add` puts a listener to the right of the tree
that was there, so a tree of n listeners is one of n - 1 paired with a listener (`TreesOf`);
removal keeps that shape. The bound `MaxRegs` on the registrations of one type makes the set of
trees, the domain of the two recursive functions, one that TLC can enumerate. `modifyListeners` enters the monitor and loads
the slot in one step and stores the new tree in another, which makes the monitor matter. The
alerts thread reads each slot once per alert, calls the leaves one by one, and may run
changes of the listeners it calls; a listener of the application may throw. The unsynchronised
read is taken to see the latest store: the native call before it takes and releases locks. A
DHT request registers, asks, waits or times out, and removes in its `finally` block. `regs`
and `due` are history: the registrations in order, and the calls that each listener's
`types()` promise for the alert at hand, null promising all types as its documentation does.

### The sequential algorithms

`SafTransfer` has one step per call of the kernel, which may move any number of bytes, none,
or fail; the history `moved` records buffer and file position of every byte. `SafPaths` has
one step per component of the scan and per directory; a name is a sequence over the
characters the code tells apart, with `.flow-session-root` as one of them. It follows one
file from its arrival, where the code tests the save root and not the file's name, to what a
job asks of the bridge. `open_file`, renames and the destinations of copies and migrations
test the path they use (`BeginOpen`, `BeginNamed`); `file_size`, `remove` and the read of a
file that `migrate_priority` moves into the part file (line 1262) do not (`AskUntested`); a
move tests its sources, and its new root only by the bridge's `validate_path` (`SetSaveRoot`
takes any root). `WritesConfined` therefore speaks of what is created, written or renamed to,
and of what `open_file` reads, and claims nothing of the other calls: whether an untested
name leads anywhere there is up to the bridge. `PiecesTracker`
builds the piece map from any layout within the bounds. `MCSequential` composes the four:
a behaviour follows one of them while the others rest.

### SessionLifecycle and FetchMagnet

In `SessionLifecycle` a step is one access to the volatile field, one lock operation, or one
end of a native call. The session methods share one shape, `if (session == null) return;
... session.call()`, and are one action each for the test, the call and its return. The
alerts thread follows the source statement by statement, including the places where a null
field ends it by an exception. Assumed: application threads are not interrupted while they
join (`Interrupts = FALSE`; the code ignores an interrupted join, and a restart interrupted in its sleep ends stopped), and listeners do not
call `stop()`, which would join its own thread.

`FetchMagnet` follows one info-hash. The native session is external: it adds, finds and
removes the torrent, answers `save_resume_data`, and posts alerts that the alerts thread
delivers late, or after the torrent is gone. `await` may end by the signal or by the timeout.
It takes the session as given, as the fetch does after its null test. `MCSessionManager`
checks both in one run, in which a behaviour follows one of them while the other rests.

### IntSeries

The four fields and the branches of `add`, next to the list of all samples added.

## 3. Runs

Passing runs:

| Run | Instance | Shows |
|---|---|---|
| `saf_queue` | 2 torrents, 2 requests, all kinds | handlers posted once, none lost, fence order, no foreign descriptor after reuse, exact free list; every request is answered, `abort` drains and returns, the queue implements `SafDiskService` |
| `saf_pool` | 2 torrents, a public and a part file each, limits 1 and 2, 4 descriptors, 3 uses | ownership, naming and bounds of the cache, no descriptor closed or reused during a transfer; the eviction loop ends |
| `saf_storage` | 3 files, one of them a pad file, 4 names, one root, faults; all requests but moves | stored data intact and readable, names consistent, honest deletion, no stale document taken for fresh |
| `saf_storage_move` | 2 files, 3 names, 2 roots whose names meet, all move flags, faults; writes and moves, any files skipped | moves never overwrite or lose stored data, nor leave names half changed |
| `saf_restart` | 2 files, 3 names, faults; writes, renames, priority changes, kills anywhere | only files that reads will find are counted on; up-to-date resume data spares the full check |
| `session_manager` | 3 threads, 3 native sessions; 2 fetches, a download, up to 3 alerts under way | one native session, safe and served alerts thread, `stop` returns; one owner, nothing left behind, fetches return |
| `alert_listeners` | a listener of two types and one of all types, up to three registrations per type, one DHT request | registrations kept, alerts delivered once (all-types listeners: those that are not special), answers caught, no listener left |
| `sequential` | 3 slots and 8 samples; 3 slices of 3 bytes; roots and names of 4 characters; 3 files of 4 bytes, pieces of 3 | the four algorithms agree with their definitions |

Runs that end in a violation state what the repository says and the code does not do; see
section 5: `saf_storage_unskip`, `session_lifecycle_methods`, `alert_listeners_all`,
`fetch_magnet_download`.

Why the bounds are enough. Reuse of a storage number needs two torrents: each comes and goes
once, and the second may get the number of the first; any number of torrents is what the
proofs are for. Two requests give every order of a
request and a fence around a removal; `open` requests are reads that cannot fail for lack of
a buffer, and are left to the proofs. In the cache,
two entries are needed to have a least recently used one, and a limit that goes from two to
one in the loop evicts twice. Two files with data are enough for a collision of names, for a
partial failure, and for a part file that ends too early; with three names some moves collide
and the others go through; the pad file sits between them so
that one block can span all three. Three threads let one hold the lock, one wait for it and
one be inside a method; three sessions let a restart be followed by a start. A restart needs
two files for partial resume data and a spare name for a rename; a session whose resume data
is void is followed no further than to the next save or restart. Three registrations
of two listeners and a request give trees of two levels, with a listener that is there twice
and one that is removed from the bottom, the middle or the top. The series wraps
around more than twice; four characters hold `x/..`, `x//x` and `x/./`; three files of up to
four bytes over pieces of three give empty files first, last and between, and a piece with
three files.

Symmetry is used where values are interchangeable and no liveness is checked: names beneath
the one root in `saf_storage` and `saf_restart`. Deadlock is not checked in
`MCSessionManager` and `MCSequential`, where all sessions, calls or samples
that the bounds allow may be used up, or the function has returned.

Fairness:

* the worker is a running thread (weak fairness of its steps; a spurious wake-up is not
  relied upon), and `abort` is straight-line code whose join is enabled once the worker has
  ended;
* libtorrent's session calls `submit_jobs` after making requests (weak fairness of
  `SubmitJobs` while there is an unsubmitted request). It is not assumed after
  `remove_torrent` alone;
* the eviction loop is executed by the running worker, the bridge's callbacks return;
  `settings_updated` has no fairness, it may come or not;
* application threads and alerts threads run, native calls and listeners return. The locks
  are not fair: `StopReturns` is about a thread that has the lock, and in `FetchReturns` each
  fetch takes `syncMagnet` once, so weak fairness is enough;
* metadata and alerts have no fairness at all: `await` has a timeout.

## 4. Proofs

The theorems hold for every value of the constants: any number of torrents, requests, files,
names, threads, sessions, listeners, samples, slices, characters. The bounds that keep TLC's
instances finite (`MaxRequests`, `MaxUses`, `MaxSessions`, `MaxAlerts`, `MaxRegs`, `MaxAdds`,
`MaxSlices`, `MaxSize`, `MaxLength`, `MaxFiles`, `MaxFileSize`) are arbitrary natural numbers in
them. Each
theorem names the property that a run of section 3 checks.

| Module | Theorems |
|---|---|
| `SafJobQueueProofs` | `TypeCorrect`: `TypeOK`; `HandlersPostedOnce`: `HandlerPostedOnce`; `NoneLost`: `NoRequestLost`; `AbortDrains`: `DrainedAtAbort`; `ReleaseFences`: `ReleaseIsFence`; `ReuseIsSafe`: `NoForeignDescriptor`; `FreeListCorrect`: `FreeListExact`; `QueueImplementsService`: `ImplementsService` |
| `SafDescriptorPoolProofs` | `OwnedOnce`: `DescriptorsOwnedOnce`; `InUseIsGood`: `DescriptorInUseIsGood`; `OnePerFile`: `OneDescriptorPerFile`; `CacheBounded`: `PoolBounded`; `EvictsOneEntry` |
| `SafStorageProofs` | `TypeCorrect`: `TypeOK`; `DataIntact`: `AuthoritativeIntact`; `ReadsAreRight`: `ReadsBack`; `NamesHangTogether`: `PathsFollowNames`; `DeletionHonest`: `DeletionIsHonest`; `FreshIsFresh`: `FreshMeansFresh` |
| `SafRestartProofs` | `TrustDeserved`: `TrustIsDeserved`; `FreshResumeAccepted`: `FreshResumeSparesCheck` |
| `SessionLifecycleProofs` | `OneSession`: `OneNativeSession`; `LoopIsSafe`: `AlertsThreadIsSafe`; `SessionIsServed`: `AlertsAreServed` |
| `FetchMagnetProofs` | `OwnersDiffer`: `OneOwner`; `LeavesNothing`: `NothingLeftBehind` |
| `AlertListenersProofs` | `RegistrationsAreKept`: `RegistrationsKept`; `EachIsDeliveredOnce`: `DeliveredOnce`; `AnswersAreCaught`: `AnswerIsCaught`; `RequestsLeaveNothing`: `RequestLeavesNothing` |
| `SequentialProofs` | `WindowIsKept`: `SeriesIsWindow`; `TransferIsExact`: `TransferExact`; `WritesAreConfined`: `WritesConfined`; `SequentialPlays`: `SequentialIsPlayable` |

Assumptions on the constants are the named ASSUMEs of the models and nothing else: special
values (`NoTenant`, `NoFd`, `NoCaller`...) are not ordinary ones, bounds are numbers, the kinds
of request are among those modelled, `Rooted` is injective for one root (see SafStorage),
`Callers` is finite (threads are), a pair of listeners is neither a listener nor null. Two theorems of the lifecycle have the hypothesis
`~Interrupts`, without which they are false, since the code ignores an interrupted join; the
two of `SafRestart` the hypothesis `"move" \notin Ops`, as in the run: resume data from before
a move names another root, and what it is worth then is not modelled.

In every component the properties follow from one inductive invariant. Hardly one of them is
inductive by itself; the rest of this section says what had to be added, and why.

**Queue.** `IndInv` has, besides types and properties:

* `Control` says where the two threads can be given abort's flags: the worker leaves only
  with an empty queue and the stop flag set, a joined worker has exited, an exited one has
  left no descriptor. `DrainedAtAbort` follows from it and `NoRequestLost`.
* `LogOrder` and `PostedOrder` say that requests enter the log in the order they were made
  and that a pending one is not posted yet. Without them a step of the worker could post a
  handler a second time, or a fence could overtake.
* `ClosedBetween`, `ClosedBefore` and `ClosedSlot` are the argument for reuse: between what
  one torrent left under a number (an unexecuted job, an open descriptor) and any job or new
  owner of another torrent under that number lies the unexecuted close job of
  `remove_torrent`. The first is needed when a job opens a descriptor, the second when a
  close job is executed, the third when a new torrent gets the number.
* `InTable` and `LiveCreated` tie log, descriptors and table together, so that a fresh
  number has no past.

The step lemmas follow the conjuncts of `IndInv`; each has one case per group of actions
that treats the conjunct alike (`StepCases`, `KeptCases`, `ReuseCases`).

`QueueImplementsService` is the refinement, step by step: a request that is queued is `Ask`
(`QueueAsks`), one that is answered in the call is `AnswerAtOnce` (`AnswerStepAnswers`), the
worker's post is `Answer` (`PostAnswers`), `abort`'s join is `Close` (`JoinCloses`, which needs
`NoRequestLost`: nothing is owed any more), and all else is a stutter.

**Cache.** `UsesDiffer` (no two entries have the same `last_use`, and the counter is ahead of
all) gives `EvictsOneEntry`, which is what allows the model to keep the map `m_descriptors` as
a set. `OneThingAtATime` says what the worker can be at: between jobs there is no `open_file`
call, no descriptor in use and no copy, and in a transfer it either opens or uses. With it
`InUseIsGood` is inductive: closers run when nothing is in use, and within a transfer the
eviction loop runs only before the next descriptor is handed out. `MissIsMiss`: while `open_file` evicts and opens, no entry of the file it opens is
cached, under whatever name, and nobody uses a descriptor; without it the entry that
`BridgeOpen` adds could be the second of its file. `RoomBelowPeak`: after the loop there is
room below the largest limit so far, although the present one may have been lowered since.

**Documents.** The data of a file may be in a document or in the part file, and a job moves
it in several steps, so the invariant says for each kind of job what is already done:
`WriteFacts` (the slices before the present one are stored, the loop stays in the block; even
`TypeOK` needs this), `PriorityFacts` (a document is removed only once its data is in the part
file), `MoveFacts` (no destination is in use; before the names switch, all that is stored has
been copied or was kept), `DeleteFacts` and `CheckFacts` (what the documents passed so far
look like as long as no error was met). `AnswersLast` says that a job answers once, at its
end. Injectivity of names turns "this step writes the document of f" into "no other file's".

**Restart.** A restart may come at any moment and returns to the names and places of `saved`,
so the invariant compares them with the present ones as long as `since` is not `"voids"`:
what was saved as stored is still stored (`saved.have \subseteq have`), a saved name leads to
its own file or to none (`NamesKept`), the saved place of a file holds its data or no document
at all, and the part file still has what was saved as being in it (`Copies`), and the jobs
that may run meanwhile keep it so (`JobsKept`). A missing document is noticed by
`validate_resume`, which looks for existence: that is why "or none" is enough. `OnlyWrites`
says that names and places are unchanged while `since` is `"writes"`, which
`FreshResumeSparesCheck` needs. The invariant of `SafStorage` is part of it.

**Lifecycle.** `Exclusion` (only the holder of `sync` is in a critical section), `Ownership`
(the youngest session is the only one that may live, in the field or in the hands of the
caller that stops it), `Remembered` (`alertsLoop` is the youngest session's thread, from its
start to its join), `Served` (a session in the field has its thread, or its starter is about
to create it) and, without interrupts, `Joined` (no thread outlives its join, and it calls the
youngest session only). `Budget` is about the bound `MaxSessions`: a call that has still to
create a session can.

**Fetch.** `Exclusion` of `syncMagnet`; `Unclaimed`: while a fetch that found no torrent is
about to add one, nobody holds a handle of whatever torrent was added meanwhile, so what it
gets from `add` is its own or nobody's; `Claimed`: without a download, the torrent that is
there belongs to a fetch that is going to remove it.

**Induction.** The library's induction theorems take an operator, which the provers cannot
instantiate. `LeastNumber` (a set of numbers that is not empty has a least member, from the
theorem that `<` is well-founded) and `Induction` state induction about a *set* of numbers
instead. With them `TreesOfDef`, `TreeRecursion`, `LeavesDef`, `RemoveTreeDef`, `SumsDef` show that the
recursive functions of the models satisfy their own equations, and the lemmas about trees,
sums, names and pieces follow by induction on the number of listeners, summands or slashes.

**Listeners.** About trees: `RemoveTreeDef` (removing a listener from a tree removes its
latest registration from `Leaves`, and nothing when it has none) and `AddTreeDef` are what makes
`RegistrationsKept` inductive together with `MonitorInv` (the thread in the monitor has seen
the tree that is still in the slot, since only one is inside). `OwnersInv` says who may be
changing which listener, and `RequestInv` how often a request is registered, given
where its thread is: once from its registration to its removal. `DueInv` is the argument for
`DeliveredOnce`: what a listener can still count on is its registrations in the slots not yet
read plus its places in the rest of the tree being walked (`StillDue`); `AnswerInv` is the one
for `AnswerIsCaught`: until the request has its answer, its listener is in the slot that is
going to be read or in what is left of the tree.

**Transfers.** `TransferInv` places the loop: the offset lies in the present slice, as far
behind its start as the bytes already moved of it, and what was moved is what lies below the offset.
`OtherSlices` then says that a step changes nothing about the bytes of any other slice.

**Paths.** `PathsInv` says what has been tested, given where the job is: a path that is to be
opened, or has been, is safe unless it went to an untested call. `TestedInv`: the components up to where the scan is are safe,
and it stands behind a slash or at the beginning; `MadeInv`: the directories asked for so far are
the beginnings of the name up to its slashes, as many as there are slashes passed.
`PrefixSafe` (a safe name cut at a slash is safe) and `JoinSafe` (root and name joined by a
slash are safe when both are) carry it over.

**Pieces.** `TrackerInv` says that the constructor's tables are those of the layout. The work
is in what they mean: `PiecesAddUp` (the first k pieces of a file hold it up to the end of
the k-th, or to its own end, by induction), `SizesOfEmpty` (an empty file may be given a piece,
but no byte of it), and `Playable`: with the first m pieces complete and the next missing, the
bytes below that sum are in complete pieces and the byte at it is in the missing one.

**Series.** `SeriesIsWindow` speaks of slots modulo the capacity; `Turns` and `Filled` say
the same of every slot without a modulo, distinguishing the slots up to the end from those
ahead of it, and `OneTurn`, `Wrap` and `Successor` relate the two.

The inductive invariants of the concurrent components and of the series were also checked by
TLC on the instances of section 3 (the series with capacities 1 to 3) before they were proved.

Only model-checked: liveness (`EveryRequestAnswered`, `AbortReturns`, `OpenReturns`,
`StopReturns`, `FetchReturns`), which is beyond the prover.

## 5. Disagreements between the code and what is said of it

* `saf_storage_unskip`: when the part file exists but ends before a file's region, wanting
  that file fails with `EIO` although no call of the bridge failed; with no part file at all
  the code fills in zeros. The repository's test of un-skipping demands success and only
  covers a part file that is long enough.
* `session_lifecycle_methods`: `stop()` is commented to stop the session methods by setting
  the field to null. A method that is past its test is not waited for, and the native session
  is deleted under it.
* `fetch_magnet_download`: `download()` takes any torrent with the hash for "a download with
  the same hash". It may be the temporary torrent of `fetchMagnet`, which is removed
  afterwards.
* `alert_listeners_all`: `AlertListener.types()` is documented to return null "if you intend
  to listen to all alerts". The alerts loop passes over such listeners for the three special
  types (`SESSION_STATS`, `STATE_UPDATE`, `SESSION_STATS_HEADER`). `DeliveredOnce` takes
  neither side: of an all-types listener and a special type it only says that there is no
  call too many.
* not a run, read in the code: `IntSeries.last()` (IntSeries.java:89) tests `end != 0`, the
  index of slot 0, for emptiness: it returns 0 after the first sample and after every
  wrap-around, and reads `buffer[-1]` when the series is empty; its comment promises "the last
  value", and 0 only for an empty series. `SessionManager.java:1058` says "only store TCP
  endpoints" and returns for TCP ones.

## 6. Not modelled

The SWIG bindings (`libtorrent_jni.cpp`, `libtorrent_jni.h`) are generated, `jni.h` is the
platform's, `libtorrent.hpp` holds one-line forwarders for the generator: together 98 % of the
C++ lines of the repository, without control flow of their own. What is left,
`flow_saf_disk_io` and `flow_saf_storage`, is modelled except for `get_status`, counters,
`memfd_create` and the factory functions, which decide nothing. Value and alert
classes forward one call or copy a value; encoders are conversions without state.
`SessionStats` and `TorrentStats` copy counters on one thread; `onListenSucceeded` and
`onExternalIpAlert` store one formatted value each.

The contents of hashes and blocks are one cell per file in `SafStorage`: what SHA computes
is not modelled, and offsets only in `SafTransfer`. The buffer pool of libtorrent is left out,
except that a read may fail to get a buffer. `dhtGetPeers` returns the list its listener adds
to, so a late reply can change it under the caller; no document says otherwise, and no
property speaks about it.

Cases of modelled operations that are left out: in `SafStorage`, a deletion with neither flag
set, which closes descriptors and answers; a zero fill of the part region that is torn (with no
document to migrate the region holds zeros or what it held); the size of a document that
was too long before it was written, which stays too long; in `FetchMagnet`, an `add_torrent`
that fails and a session that is stopped before the `finally` block.

## 7. Plan

Done, in this order: the queue with its abstract service and its proofs; the cache; the
documents; the lifecycle; fetch and download; restarts with resume data; listeners and DHT
requests; the sequential algorithms; the refinement of the service; the proofs about cache,
documents, restarts, lifecycle, fetches and series; those about listeners, transfers, paths and
pieces.

Left:

1. action properties of the documents: which steps may change names or remove a document;
2. restarts from resume data that is older than a move;
3. the contents of `SessionStats` and `TorrentStats`, should they get control flow of their own.
