-------------------------- MODULE SafDescriptorPool --------------------------
(***************************************************************************)
(* The descriptor cache of flow_saf_disk_io (swig/flow_saf_disk_io.cpp):   *)
(* open_file with its eviction loop, the close_ functions, the descriptors *)
(* that copies open for themselves, and settings_updated, which changes    *)
(* the limit from the network thread while open_file runs on the worker.   *)
(*                                                                         *)
(* open_file hands out a bare number and gives up m_descriptor_mutex, so   *)
(* nothing but the order in which the threads run keeps that number open   *)
(* while the job reads or writes through it.  The use is therefore a state *)
(* of its own here: it begins when open_file returns, ends with the job's  *)
(* own step, and no other action touches it.                               *)
(*                                                                         *)
(* The kernel's table of open descriptors is part of the state, so that a  *)
(* leak, a double close and a descriptor of the wrong file can be seen.    *)
(* m_descriptors is a set here: its order is used only to find the least   *)
(* last_use, and those are all different.                                  *)
(***************************************************************************)
EXTENDS Integers, FiniteSets

CONSTANTS
    Storages,     \* storage numbers
    Files,        \* the public files of a torrent
    Part,         \* the part file (key -1)
    Paths,        \* names a public file may have
    PartPath,     \* .flow-parts/<hash>.parts
    Fds,          \* what the kernel can hand out
    NoFd,         \* no descriptor (-1)
    PoolSizes,    \* values of settings_pack::file_pool_size
    MaxUses       \* bound on m_use_counter

ASSUME PoolAssumption ==
    /\ Part \notin Files /\ PartPath \notin Paths
    /\ NoFd \notin Fds
    /\ PoolSizes \subseteq Int /\ PoolSizes # {}
    /\ MaxUses \in Nat

Keys == Files \cup {Part}
AllPaths == Paths \cup {PartPath}

VARIABLES
    cache,    \* m_descriptors: storage, file, path, fd, writable, used
    uses,     \* m_use_counter
    limit,    \* m_descriptor_limit
    path,     \* torrent_storage::paths and part_path of each storage
    kernel,   \* what each open descriptor refers to
    scoped,   \* descriptors held by scoped_descriptor objects
    worker,   \* what the worker thread does: a job, waiting for one, or ended
    call,     \* the open_file call in progress
    using,    \* the descriptor the running job got, and what it asked for
    peak,     \* history: the largest limit so far
    steady    \* history: the limit did not change since open_file was entered

vars == <<cache, uses, limit, path, kernel, scoped, worker, call, using, peak, steady>>

Request == [storage : Storages, file : Keys, write : BOOLEAN]

NoRequest == [storage |-> 0, file |-> Part, write |-> FALSE]

\* The constructor calls settings_updated() before it starts the worker.
AtLeastOne(n) == IF n > 1 THEN n ELSE 1

Idle == [phase |-> "idle", request |-> NoRequest]
Nothing == [fd |-> NoFd, request |-> NoRequest]

Init ==
    /\ cache = {} /\ uses = 0
    /\ \E n \in PoolSizes : limit = AtLeastOne(n)
    /\ peak = limit
    /\ path \in {f \in [Storages -> [Keys -> AllPaths]] :
                   \A s \in Storages : /\ f[s][Part] = PartPath
                                       /\ \A k \in Files : f[s][k] \in Paths}
    /\ kernel = <<>> /\ scoped = {}
    /\ worker = "waiting" /\ call = Idle /\ using = Nothing
    /\ steady = TRUE

----------------------------------------------------------------------------
(* close(2) and the close_ functions of the class. *)

CachedFds(entries) == {d.fd : d \in entries}

\* close(2) on each descriptor of a set.
KernelWithout(fds) == [fd \in (DOMAIN kernel) \ fds |-> kernel[fd]]

\* Erase these entries and close what they hold.
Drop(entries) ==
    /\ cache' = cache \ entries
    /\ kernel' = KernelWithout(CachedFds(entries))

OfStorage(s) == {d \in cache : d.storage = s}
OfFile(s, k) == {d \in cache : d.storage = s /\ d.file = k}

\* worker_loop takes a job when the one before has returned.  A job that only
\* closes and renames is one step; a transfer and a copy take several.
TakesJob == worker = "waiting"

\* Wrong on purpose: remove_torrent closes on the network thread.
CloseStorageAtOnce(s) ==
    /\ call.phase = "idle"
    /\ Drop(OfStorage(s))
    /\ UNCHANGED <<uses, limit, path, scoped, worker, call, using, peak, steady>>

\* close_storage: release_files, stop_torrent, delete_files and the job of
\* remove_torrent.
CloseStorage(s) ==
    /\ TakesJob
    /\ Drop(OfStorage(s))
    /\ UNCHANGED <<uses, limit, path, scoped, worker, call, using, peak, steady>>

\* close_file: async_set_file_priority before it migrates a file.
CloseFile(s, k) ==
    /\ TakesJob
    /\ Drop(OfFile(s, k))
    /\ UNCHANGED <<uses, limit, path, scoped, worker, call, using, peak, steady>>

\* Wrong on purpose: the cached descriptor of the renamed file stays.
RenameFileKeepOpen(s, k, p) ==
    /\ TakesJob
    /\ path' \in {path, [path EXCEPT ![s][k] = p]}
    /\ UNCHANGED <<cache, kernel, uses, limit, scoped, worker, call, using, peak, steady>>

\* async_rename_file: close_file, then the bridge renames or fails.
RenameFile(s, k, p) ==
    /\ TakesJob
    /\ Drop(OfFile(s, k))
    /\ path' \in {path, [path EXCEPT ![s][k] = p]}
    /\ UNCHANGED <<uses, limit, scoped, worker, call, using, peak, steady>>

\* move_storage: close_storage, then set_save_root renames every file.  A
\* number that a new torrent reuses changes its names the same way.
MoveStorage(s, names) ==
    /\ TakesJob
    /\ Drop(OfStorage(s))
    /\ path' = [path EXCEPT ![s] = [k \in Keys |-> IF k = Part THEN PartPath ELSE names[k]]]
    /\ UNCHANGED <<uses, limit, scoped, worker, call, using, peak, steady>>

\* The loop ends between two jobs, once abort() asked for it, with close_all.
WorkerEnds ==
    /\ TakesJob
    /\ Drop(cache)
    /\ worker' = "ended"
    /\ UNCHANGED <<uses, limit, path, scoped, call, using, peak, steady>>

\* abort() closes all once more, on the network thread, after the join.
AbortClose ==
    /\ worker = "ended"
    /\ Drop(cache)
    /\ UNCHANGED <<uses, limit, path, scoped, worker, call, using, peak, steady>>

----------------------------------------------------------------------------
(* open_file. *)

PathOf(r) == path[r.storage][r.file]

\* The entry the loop over m_descriptors stops at.
Cached(r) == {d \in cache : d.storage = r.storage /\ d.file = r.file /\ d.path = PathOf(r)}

\* It may be returned if it is open for what is asked.
Usable(r) == {d \in Cached(r) : r.write => d.writable}

\* ++m_use_counter
NextUse == uses + 1

\* read_block, write_block and initialize_files call open_file once for each
\* slice or file, when they are done with the descriptor of the one before.
NextSlice ==
    /\ worker \in {"waiting", "transfer"} /\ worker' = "transfer"
    /\ call.phase = "idle" /\ using = Nothing
    /\ NextUse <= MaxUses

\* The descriptor is cached and open for what is asked: return it.
OpenHit(r) ==
    /\ NextSlice
    /\ \E d \in Usable(r) :
         /\ cache' = (cache \ {d}) \cup {[d EXCEPT !.used = NextUse]}
         /\ using' = [fd |-> d.fd, request |-> r]
    /\ uses' = NextUse
    /\ UNCHANGED <<limit, path, kernel, scoped, call, peak, steady>>

\* Wrong on purpose: the read-only descriptor is erased and not closed.
OpenMissLeak(r) ==
    /\ NextSlice
    /\ Usable(r) = {}
    /\ cache' = cache \ Cached(r)
    /\ UNCHANGED kernel
    /\ \/ call' = [phase |-> "evict", request |-> r]
       \/ call' = Idle
    /\ steady' = TRUE
    /\ UNCHANGED <<uses, limit, path, scoped, using, peak>>

\* It is not, or it is read-only and a writable one is asked for: close that,
\* create the parent directories (for writing), check the name.  Either of
\* the two may fail, and open_file returns -1.
OpenMiss(r) ==
    /\ NextSlice
    /\ Usable(r) = {}
    /\ Drop(Cached(r))
    /\ \/ call' = [phase |-> "evict", request |-> r]
       \/ call' = Idle
    /\ steady' = TRUE
    /\ UNCHANGED <<uses, limit, path, scoped, using, peak>>

\* Wrong on purpose: room is made up to one more than the limit.
PoolFullOffByOne == Cardinality(cache) > limit

PoolFull == Cardinality(cache) >= limit

\* while (size >= limit) evict_one(): each turn reads the limit anew, and
\* evict_one does nothing to an empty list.
EvictOne ==
    /\ call.phase = "evict"
    /\ PoolFull
    /\ Drop({d \in cache : \A e \in cache : d.used <= e.used})
    /\ UNCHANGED <<uses, limit, path, scoped, worker, call, using, peak, steady>>

EvictDone ==
    /\ call.phase = "evict"
    /\ ~PoolFull
    /\ call' = [call EXCEPT !.phase = "open"]
    /\ UNCHANGED <<cache, uses, limit, path, kernel, scoped, worker, using, peak, steady>>

\* m_bridge.open_file: a descriptor the kernel was not using, or an error.
BridgeOpen(fd) ==
    /\ call.phase = "open"
    /\ fd \notin DOMAIN kernel
    /\ LET r == call.request
       IN  /\ kernel' = [x \in DOMAIN kernel \cup {fd} |->
                           IF x = fd THEN [path |-> PathOf(r), writable |-> r.write]
                           ELSE kernel[x]]
           /\ cache' = cache \cup {[storage |-> r.storage, file |-> r.file, path |-> PathOf(r),
                                    fd |-> fd, writable |-> r.write, used |-> NextUse]}
           /\ using' = [fd |-> fd, request |-> r]
    /\ uses' = NextUse
    /\ call' = Idle
    /\ UNCHANGED <<limit, path, scoped, worker, peak, steady>>

BridgeOpenFails ==
    /\ call.phase = "open"
    /\ call' = Idle
    /\ UNCHANGED <<cache, uses, limit, path, kernel, scoped, worker, using, peak, steady>>

\* The pread or pwrite loop of the slice, or the ftruncate, has ended.
SliceDone ==
    /\ using # Nothing
    /\ using' = Nothing
    /\ UNCHANGED <<cache, uses, limit, path, kernel, scoped, worker, call, peak, steady>>

\* The job returns: after its last slice, or as soon as one fails.
TransferReturns ==
    /\ worker = "transfer" /\ call.phase = "idle" /\ using = Nothing
    /\ worker' = "waiting"
    /\ UNCHANGED <<cache, uses, limit, path, kernel, scoped, call, using, peak, steady>>

----------------------------------------------------------------------------
(* Descriptors of copy_public_file and migrate_priority. *)

\* scoped_descriptor(m_bridge.open_file(p, mode)): the source for reading
\* (migrate_priority goes on without one), then the destination for writing.
ScopedOpen(fd, p, w) ==
    /\ TakesJob \/ (worker = "copy" /\ w /\ \A source \in scoped : ~kernel[source].writable)
    /\ worker' = "copy"
    /\ fd \notin DOMAIN kernel
    /\ kernel' = [x \in DOMAIN kernel \cup {fd} |->
                    IF x = fd THEN [path |-> p, writable |-> w] ELSE kernel[x]]
    /\ scoped' = scoped \cup {fd}
    /\ UNCHANGED <<cache, uses, limit, path, call, using, peak, steady>>

\* reset() or the destructor, on every way out.
ScopedClose ==
    /\ worker = "copy" /\ worker' = "waiting"
    /\ kernel' = KernelWithout(scoped)
    /\ scoped' = {}
    /\ UNCHANGED <<cache, uses, limit, path, call, using, peak, steady>>

----------------------------------------------------------------------------
(* The network thread. *)

\* Wrong on purpose: the pool size is taken as it is.
SettingsUpdatedRaw(n) ==
    /\ limit' = n
    /\ peak' = IF limit' > peak THEN limit' ELSE peak
    /\ steady' = (steady /\ limit' = limit)
    /\ UNCHANGED <<cache, uses, path, kernel, scoped, worker, call, using>>

\* settings_updated(): the limit is atomic and not under m_descriptor_mutex.
SettingsUpdated(n) ==
    /\ limit' = AtLeastOne(n)
    /\ peak' = IF limit' > peak THEN limit' ELSE peak
    /\ steady' = (steady /\ limit' = limit)
    /\ UNCHANGED <<cache, uses, path, kernel, scoped, worker, call, using>>

----------------------------------------------------------------------------

Open == \/ \E r \in Request : OpenHit(r) \/ OpenMiss(r)
        \/ EvictOne \/ EvictDone
        \/ \E fd \in Fds : BridgeOpen(fd)
        \/ BridgeOpenFails

Next ==
    \/ Open \/ SliceDone \/ TransferReturns
    \/ \E s \in Storages : CloseStorage(s)
    \/ \E s \in Storages, k \in Keys : CloseFile(s, k)
    \/ \E s \in Storages, k \in Files, p \in Paths : RenameFile(s, k, p)
    \/ \E s \in Storages, names \in [Files -> Paths] : MoveStorage(s, names)
    \/ \E fd \in Fds, p \in AllPaths, w \in BOOLEAN : ScopedOpen(fd, p, w)
    \/ ScopedClose
    \/ WorkerEnds \/ AbortClose
    \/ \E n \in PoolSizes : SettingsUpdated(n)

Spec == Init /\ [][Next]_vars

\* The worker runs and a bridge callback returns; the session does not change
\* its settings for ever in the middle of one call.
FairSpec == /\ Spec
            /\ WF_vars(EvictOne \/ EvictDone \/ BridgeOpenFails \/ \E fd \in Fds : BridgeOpen(fd))

----------------------------------------------------------------------------
(* Properties. *)

\* No leak, no double close, no stray close: the kernel's open descriptors are
\* those of the cache and of the copies, each owned once, and each cached one
\* refers to the name and mode its entry records.
DescriptorsOwnedOnce ==
    /\ DOMAIN kernel = CachedFds(cache) \cup scoped
    /\ CachedFds(cache) \cap scoped = {}
    /\ \A d, e \in cache : d.fd = e.fd => d = e
    /\ \A d \in cache : kernel[d.fd] = [path |-> d.path, writable |-> d.writable]

\* From the moment open_file returns a descriptor (and gives up the mutex) until
\* the slice is done, that number is open, still refers to the file asked for
\* under its present name, and may be written to if writing was asked for.  The
\* closing functions do not look for users: this rests on every one of them, and
\* every rename, running between the worker's jobs or after the worker is joined.
DescriptorInUseIsGood ==
    using.fd # NoFd =>
        /\ using.fd \in DOMAIN kernel
        /\ kernel[using.fd].path = PathOf(using.request)
        /\ using.request.write => kernel[using.fd].writable

\* get_status lists a file once, and under its present name: renames and moves
\* close before they rename.
OneDescriptorPerFile ==
    /\ \A d, e \in cache : d.storage = e.storage /\ d.file = e.file => d = e
    /\ \A d \in cache : d.path = path[d.storage][d.file]

\* The cache never outgrows the largest limit that was set, and a call that
\* opened a descriptor under one limit leaves no more than that.
PoolBounded ==
    /\ Cardinality(cache) <= peak
    /\ (call.phase = "open" /\ steady) => Cardinality(cache) < limit

\* open_file returns: the eviction loop ends because the limit is at least one.
OpenReturns == (call.phase # "idle") ~> (call.phase = "idle")
=============================================================================
