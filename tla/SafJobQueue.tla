---------------------------- MODULE SafJobQueue ----------------------------
(***************************************************************************)
(* The request side of flow_saf_disk_io (swig/flow_saf_disk_io.cpp): the   *)
(* table of storages, the queue of jobs, the one worker thread with its    *)
(* condition variable, and abort().                                        *)
(*                                                                         *)
(* Two threads take steps.  libtorrent's network thread calls every        *)
(* disk_interface operation; the worker runs the jobs.  A step is what a   *)
(* thread does while it holds m_queue_mutex, or between two acquisitions   *)
(* of it.  m_storage_mutex is taken by the network thread only, so what it *)
(* protects changes in one step with the call that changes it.             *)
(*                                                                         *)
(* What a job does to file contents is SafStorage's subject and how the    *)
(* descriptors are cached is SafDescriptorPool's; here a descriptor is     *)
(* only the pair (storage number it is filed under, torrent that opened    *)
(* it).                                                                    *)
(***************************************************************************)
EXTENDS Naturals, Sequences, FiniteSets

CONSTANTS
    Tenants,      \* torrent_storage objects the session may create
    NoTenant,     \* an empty slot of m_torrents
    Ops,          \* the kinds of request the session makes
    MaxRequests   \* bound: requests made in one behaviour

\* Requests that look their storage up, by what they do to descriptors:
\*   read      async_read (it may also fail to get a buffer)
\*   open      async_write, async_hash, async_hash2, async_check_files
\*   drop      async_move_storage, async_delete_files
\*   closeFile async_rename_file, async_set_file_priority
LookupOps == {"read", "open", "drop", "closeFile"}

\* Requests queued under any number, with no lookup:
\*   release   async_release_files, async_stop_torrent
\*   clear     async_clear_piece
PlainOps == {"release", "clear"}

ASSUME ConstantsAssumption ==
    /\ Ops \subseteq LookupOps \cup PlainOps
    /\ NoTenant \notin Tenants
    /\ MaxRequests \in Nat

VARIABLES
    torrents,     \* m_torrents: storage numbers are 1, 2, ... here
    freeStorage,  \* m_free_storage, used as a stack
    created,      \* history: tenants that new_torrent was called for
    log,          \* every job ever pushed to m_jobs, oldest first
    taken,        \* how many of them the worker has popped
    accepting,    \* m_accepting
    stopping,     \* m_stopping
    joinable,     \* m_worker.joinable()
    worker,       \* where the worker thread is
    notified,     \* the worker's wait has been notified
    net,          \* where the network thread is inside abort()
    unsubmitted,  \* a request was made since the last submit_jobs()
    descriptors,  \* m_descriptors, as [storage, tenant] records
    requests,     \* requests made so far; a request is its number
    posted        \* the requests whose handler was posted to m_ios, in order

queueVars == <<log, taken, accepting, stopping, requests, posted, unsubmitted>>
tableVars == <<torrents, freeStorage, created>>
threadVars == <<joinable, worker, notified, net>>
vars == <<queueVars, tableVars, threadVars, descriptors>>

\* A job: the request it answers (0: none), its kind, and what it captured.
Job(r, op, s, t) == [request |-> r, op |-> op, storage |-> s, tenant |-> t]

\* m_jobs is log without its first `taken` elements.
QueueEmpty == taken = Len(log)

Jobs == [request : Nat, op : LookupOps \cup PlainOps \cup {"close"},
         storage : Nat, tenant : Tenants \cup {NoTenant}]

TypeOK ==
    /\ torrents \in Seq(Tenants \cup {NoTenant})
    /\ freeStorage \in Seq(Nat)
    /\ created \subseteq Tenants
    /\ log \in Seq(Jobs)
    /\ taken \in 0..Len(log)
    /\ accepting \in BOOLEAN /\ stopping \in BOOLEAN /\ joinable \in BOOLEAN
    /\ worker \in {"check", "waiting", "run", "post", "closing", "exited"}
    /\ notified \in BOOLEAN /\ unsubmitted \in BOOLEAN
    /\ net \in {"ready", "notify", "join", "closeAll"}
    /\ descriptors \subseteq [storage : Nat, tenant : Tenants]
    /\ requests \in Nat
    /\ posted \in Seq(Nat)

Init ==
    /\ torrents = <<>> /\ freeStorage = <<>> /\ created = {}
    /\ log = <<>> /\ taken = 0
    /\ accepting = TRUE /\ stopping = FALSE /\ joinable = TRUE
    /\ worker = "check" /\ notified = FALSE
    /\ net = "ready" /\ unsubmitted = FALSE
    /\ descriptors = {}
    /\ requests = 0 /\ posted = <<>>

----------------------------------------------------------------------------
(* The network thread. *)

\* find_storage(): the slot's tenant, or none for a number never handed out.
FindStorage(s) == IF s \in 1..Len(torrents) THEN torrents[s] ELSE NoTenant

\* Wrong on purpose: the reused number stays on the free list.
NewTorrentKeepsFree(t) ==
    /\ net = "ready"
    /\ t \notin created
    /\ created' = created \cup {t}
    /\ torrents' = IF freeStorage = <<>> THEN Append(torrents, t)
                   ELSE [torrents EXCEPT ![freeStorage[Len(freeStorage)]] = t]
    /\ UNCHANGED <<freeStorage, queueVars, threadVars, descriptors>>

\* new_torrent(): the last freed number, or a new one.  A constructor that
\* throws (a rejected save root) leaves everything as it was.
NewTorrent(t) ==
    /\ net = "ready"
    /\ t \notin created
    /\ created' = created \cup {t}
    /\ IF freeStorage = <<>>
       THEN /\ torrents' = Append(torrents, t)
            /\ UNCHANGED freeStorage
       ELSE /\ torrents' = [torrents EXCEPT ![freeStorage[Len(freeStorage)]] = t]
            /\ freeStorage' = SubSeq(freeStorage, 1, Len(freeStorage) - 1)
    /\ UNCHANGED <<queueVars, threadVars, descriptors>>

\* Wrong on purpose: the number is freed and nothing is queued to close it.
RemoveTorrentNoClose(s) ==
    /\ net = "ready"
    /\ FindStorage(s) # NoTenant
    /\ torrents' = [torrents EXCEPT ![s] = NoTenant]
    /\ freeStorage' = Append(freeStorage, s)
    /\ UNCHANGED <<queueVars, created, threadVars, descriptors>>

\* enqueue(): dropped once abort() was called; the worker is not woken.
Enqueue(job) == log' = IF accepting THEN Append(log, job) ELSE log

\* remove_torrent(): frees the number and queues the job that closes what is
\* open under it.
RemoveTorrent(s) ==
    /\ net = "ready"
    /\ FindStorage(s) # NoTenant
    /\ torrents' = [torrents EXCEPT ![s] = NoTenant]
    /\ freeStorage' = Append(freeStorage, s)
    /\ Enqueue(Job(0, "close", s, NoTenant))
    /\ UNCHANGED <<taken, accepting, stopping, requests, posted, unsubmitted,
                   created, threadVars, descriptors>>

\* The call numbers its request and hands its handler over.
Request == /\ net = "ready"
           /\ requests < MaxRequests
           /\ requests' = requests + 1

\* The handler is posted before the call returns.
AnswerAtOnce == /\ posted' = Append(posted, requests + 1)
                /\ UNCHANGED <<log, unsubmitted>>

\* Wrong on purpose: the aborted answer is posted in either case; a request is
\* dropped once abort() was called; a job overtakes the ones that wait.
EnqueueAndAbort(op, s, t) ==
    /\ log' = IF accepting THEN Append(log, Job(requests + 1, op, s, t)) ELSE log
    /\ unsubmitted' = accepting
    /\ posted' = Append(posted, requests + 1)

EnqueueOrDrop(op, s, t) ==
    /\ log' = IF accepting THEN Append(log, Job(requests + 1, op, s, t)) ELSE log
    /\ unsubmitted' = accepting
    /\ UNCHANGED posted

EnqueueFrontOrAbort(op, s, t) ==
    \/ /\ accepting
       /\ log' = SubSeq(log, 1, taken) \o <<Job(requests + 1, op, s, t)>>
                    \o SubSeq(log, taken + 1, Len(log))
       /\ unsubmitted' = TRUE
       /\ UNCHANGED posted
    \/ ~accepting /\ AnswerAtOnce

\* enqueue_or_abort(): push the job, or post the aborted answer.
EnqueueOrAbort(op, s, t) ==
    \/ /\ accepting
       /\ log' = Append(log, Job(requests + 1, op, s, t))
       /\ unsubmitted' = TRUE
       /\ UNCHANGED posted
    \/ ~accepting /\ AnswerAtOnce

\* A request on a storage: an unknown storage is answered at once with
\* operation_aborted, a read that gets no buffer with no_memory.
LookupRequest(op, s) ==
    /\ Request
    /\ op \in LookupOps
    /\ \/ FindStorage(s) = NoTenant /\ AnswerAtOnce
       \/ op = "read" /\ FindStorage(s) # NoTenant /\ AnswerAtOnce
       \/ FindStorage(s) # NoTenant /\ EnqueueOrAbort(op, s, FindStorage(s))
    /\ UNCHANGED <<taken, accepting, stopping, tableVars, threadVars, descriptors>>

\* async_release_files, async_stop_torrent, async_clear_piece.
PlainRequest(op, s) ==
    /\ Request
    /\ op \in PlainOps
    /\ EnqueueOrAbort(op, s, NoTenant)
    /\ UNCHANGED <<taken, accepting, stopping, tableVars, threadVars, descriptors>>

\* notify_one() / notify_all(): only a worker inside wait() hears it.
Notify == notified' = (notified \/ worker = "waiting")

\* Wrong on purpose: the batch is submitted and the worker is not told.
SubmitSilently ==
    /\ net = "ready"
    /\ unsubmitted' = FALSE
    /\ UNCHANGED <<log, taken, accepting, stopping, requests, posted, tableVars,
                   threadVars, descriptors>>

\* submit_jobs(): the only call besides abort() that wakes the worker.
SubmitJobs ==
    /\ net = "ready"
    /\ Notify
    /\ unsubmitted' = FALSE
    /\ UNCHANGED <<log, taken, accepting, stopping, requests, posted, tableVars,
                   joinable, worker, net, descriptors>>

\* abort(): under the queue mutex.  A second call finds no joinable worker
\* and returns.
AbortFlag ==
    /\ net = "ready"
    /\ accepting \/ joinable
    /\ accepting' = FALSE
    /\ stopping' = TRUE
    /\ net' = "notify"
    /\ UNCHANGED <<log, taken, requests, posted, unsubmitted, tableVars,
                   joinable, worker, notified, descriptors>>

\* Wrong on purpose: the flags are set and the worker is not told; the worker
\* is detached and not joined.
AbortSilently ==
    /\ net = "notify"
    /\ net' = "join"
    /\ UNCHANGED <<queueVars, tableVars, joinable, worker, notified, descriptors>>

AbortDetach ==
    /\ net = "join"
    /\ joinable' = FALSE
    /\ net' = "closeAll"
    /\ UNCHANGED <<queueVars, tableVars, worker, notified, descriptors>>

AbortNotify ==
    /\ net = "notify"
    /\ Notify
    /\ net' = "join"
    /\ UNCHANGED <<queueVars, tableVars, joinable, worker, descriptors>>

AbortJoin ==
    /\ net = "join"
    /\ worker = "exited"
    /\ joinable' = FALSE
    /\ net' = "closeAll"
    /\ UNCHANGED <<queueVars, tableVars, worker, notified, descriptors>>

AbortCloseAll ==
    /\ net = "closeAll"
    /\ descriptors' = {}
    /\ net' = "ready"
    /\ UNCHANGED <<queueVars, tableVars, joinable, worker, notified>>

----------------------------------------------------------------------------
(* The worker thread: worker_loop(). *)

\* Wrong on purpose: the wait's predicate was true, so the front is popped
\* unseen; the stop flag ends the loop with jobs left.
WorkerTakeUnseen ==
    /\ worker = "check"
    /\ stopping \/ ~QueueEmpty
    /\ taken' = taken + 1
    /\ worker' = "run"
    /\ UNCHANGED <<log, accepting, stopping, requests, posted, unsubmitted,
                   tableVars, joinable, notified, net, descriptors>>

WorkerLeaveEarly ==
    /\ worker = "check"
    /\ stopping
    /\ worker' = "closing"
    /\ UNCHANGED <<queueVars, tableVars, joinable, notified, net, descriptors>>

\* Under the queue mutex, the wait's predicate is true: pop the front job, or
\* leave the loop when there is none and abort() was called.
WorkerTake ==
    /\ worker = "check"
    /\ ~QueueEmpty
    /\ taken' = taken + 1
    /\ worker' = "run"
    /\ UNCHANGED <<log, accepting, stopping, requests, posted, unsubmitted,
                   tableVars, joinable, notified, net, descriptors>>

WorkerLeave ==
    /\ worker = "check"
    /\ QueueEmpty /\ stopping
    /\ worker' = "closing"
    /\ UNCHANGED <<queueVars, tableVars, joinable, notified, net, descriptors>>

\* The predicate is false: release the mutex and sleep, in one step.
WorkerWait ==
    /\ worker = "check"
    /\ QueueEmpty /\ ~stopping
    /\ worker' = "waiting"
    /\ notified' = FALSE
    /\ UNCHANGED <<queueVars, tableVars, joinable, net, descriptors>>

WorkerWake ==
    /\ worker = "waiting"
    /\ notified
    /\ worker' = "check"
    /\ notified' = FALSE
    /\ UNCHANGED <<queueVars, tableVars, joinable, net, descriptors>>

\* A condition variable may return with no notification.
WorkerSpuriousWake ==
    /\ worker = "waiting"
    /\ ~notified
    /\ worker' = "check"
    /\ UNCHANGED <<queueVars, tableVars, joinable, notified, net, descriptors>>

\* close_storage(number)
CloseStorage(s) == {d \in descriptors : d.storage # s}

\* What operation() may leave in the descriptor list.
Outcome(job) ==
    CASE job.op \in {"read", "open"} ->
            {descriptors, descriptors \cup {[storage |-> job.storage, tenant |-> job.tenant]}}
      [] job.op \in {"release", "close"} -> {CloseStorage(job.storage)}
      [] job.op = "drop" -> {descriptors, CloseStorage(job.storage)}
      [] job.op = "closeFile" ->
            {D \in SUBSET descriptors : CloseStorage(job.storage) \subseteq D}
      [] job.op = "clear" -> {descriptors}

\* operation(): its effect on the descriptors ...
WorkerRun ==
    /\ worker = "run"
    /\ descriptors' \in Outcome(log[taken])
    /\ worker' = "post"
    /\ UNCHANGED <<queueVars, tableVars, joinable, notified, net>>

\* ... and last the posting of its handler; the job of remove_torrent has none.
WorkerPost ==
    /\ worker = "post"
    /\ posted' = IF log[taken].op = "close" THEN posted
                 ELSE Append(posted, log[taken].request)
    /\ worker' = "check"
    /\ UNCHANGED <<log, taken, accepting, stopping, requests, unsubmitted,
                   tableVars, joinable, notified, net, descriptors>>

\* close_all() after the loop, and the thread ends.
WorkerCloseAll ==
    /\ worker = "closing"
    /\ descriptors' = {}
    /\ worker' = "exited"
    /\ UNCHANGED <<queueVars, tableVars, joinable, notified, net>>

----------------------------------------------------------------------------

\* One number past the table stands for every number that was never given out.
Numbers == 1..(Len(torrents) + 1)

Abort == AbortFlag \/ AbortNotify \/ AbortJoin \/ AbortCloseAll

Worker == \/ WorkerTake \/ WorkerLeave \/ WorkerWait \/ WorkerWake
          \/ WorkerRun \/ WorkerPost \/ WorkerCloseAll

Next ==
    \/ \E t \in Tenants : NewTorrent(t)
    \/ \E s \in Numbers : RemoveTorrent(s)
    \/ \E op \in Ops, s \in Numbers : LookupRequest(op, s) \/ PlainRequest(op, s)
    \/ SubmitJobs
    \/ Abort
    \/ Worker
    \/ WorkerSpuriousWake

\* The worker is a running thread and abort() is straight-line code.  The
\* session calls submit_jobs() after it made requests (libtorrent defers one
\* call per batch); nothing obliges it to do so after remove_torrent alone.
Fairness ==
    /\ WF_vars(Worker)
    /\ WF_vars(AbortNotify \/ AbortJoin \/ AbortCloseAll)
    /\ WF_vars(unsubmitted /\ SubmitJobs)

Spec == Init /\ [][Next]_vars
FairSpec == Spec /\ Fairness

----------------------------------------------------------------------------
(* Properties. *)

IsPosted(r) == \E p \in 1..Len(posted) : posted[p] = r
IsRunning(r) == worker \in {"run", "post"} /\ log[taken].request = r
IsQueued(r) == \E k \in (taken + 1)..Len(log) : log[k].request = r

\* The worker is executing a job it popped.
Busy == worker \in {"run", "post"}

\* No handler is posted twice: not by the queued job and again by the aborted
\* path of enqueue_or_abort, nor by a job that is popped twice.
HandlerPostedOnce ==
    \A p, q \in 1..Len(posted) : posted[p] = posted[q] => p = q

\* No handler is lost: a request's handler was posted, or the job that will
\* post it is queued or running, whatever abort() and remove_torrent() do.
NoRequestLost ==
    \A r \in 1..requests : IsPosted(r) \/ IsRunning(r) \/ IsQueued(r)

\* When abort() has returned, the queue was drained and not cleared: every
\* handler was posted, nothing is queued and no descriptor is open, for good.
DrainedAtAbort ==
    (~joinable /\ net = "ready") =>
        /\ QueueEmpty /\ ~Busy /\ descriptors = {}
        /\ \A r \in 1..requests : IsPosted(r)

\* release_files / stop_torrent are fences: when their handler is posted, the
\* handlers of all requests made before have been posted already.
ReleaseIsFence ==
    \A k \in 1..taken : log[k].op = "release" =>
        \A p \in 1..Len(posted) : posted[p] = log[k].request =>
            \A r \in 1..(log[k].request - 1) :
                \E q \in 1..(p - 1) : posted[q] = r

\* A storage number is reused only behind the job that closes its previous
\* tenant's files: a job never runs while a descriptor of another torrent is
\* filed under its number.
NoForeignDescriptor ==
    (Busy /\ log[taken].op \in LookupOps) =>
        \A d \in descriptors :
            d.storage = log[taken].storage => d.tenant = log[taken].tenant

\* m_free_storage lists exactly the empty slots of m_torrents, once each, and
\* no torrent has two numbers: a number is never given to two live torrents.
FreeListExact ==
    /\ \A i, j \in 1..Len(freeStorage) : freeStorage[i] = freeStorage[j] => i = j
    /\ \A s \in 1..Len(torrents) :
         torrents[s] = NoTenant <=> \E i \in 1..Len(freeStorage) : freeStorage[i] = s
    /\ \A i \in 1..Len(freeStorage) : freeStorage[i] \in 1..Len(torrents)
    /\ \A s, u \in 1..Len(torrents) :
         torrents[s] = torrents[u] /\ torrents[s] # NoTenant => s = u

\* Every request is answered: the session submits its batch, the worker wakes
\* and works the queue off, or abort() makes it do so.
EveryRequestAnswered ==
    \A r \in 1..MaxRequests : (requests >= r) ~> IsPosted(r)

\* abort() returns: the worker cannot sleep through the stop flag.
AbortReturns == (net # "ready") ~> (net = "ready" /\ ~joinable)

----------------------------------------------------------------------------
(* What the service promises its caller. *)

Service == INSTANCE SafDiskService WITH
    Requests <- 1..MaxRequests,
    outstanding <- {r \in 1..requests : ~IsPosted(r)},
    answered <- {posted[p] : p \in 1..Len(posted)},
    open <- joinable

\* The queue, the worker and abort() implement the service.
ImplementsService == Service!Spec
=============================================================================
