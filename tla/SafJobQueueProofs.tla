------------------------- MODULE SafJobQueueProofs -------------------------
(***************************************************************************)
(* Proofs that the invariants of SafJobQueue hold for every set of         *)
(* torrents, every kind of request and every number of them.               *)
(***************************************************************************)
EXTENDS SafJobQueue, SequenceTheorems, TLAPS

\* A job that the worker has not executed yet.
Unrun(k) == k \in 1..Len(log) /\ (k > taken \/ (k = taken /\ worker = "run"))

\* A job whose handler has not been posted yet.
Pending(k) == k \in 1..Len(log) /\ (k > taken \/ (k = taken /\ Busy))

IsLookup(k) == log[k].op \in LookupOps

\* An unexecuted job of remove_torrent for number s.
IsClose(c, s) == Unrun(c) /\ log[c].op = "close" /\ log[c].storage = s

\* Where the two threads can be, given the flags of abort().
Control ==
    /\ Busy => taken >= 1
    /\ stopping = ~accepting
    /\ net # "ready" => ~accepting
    /\ ~joinable => worker = "exited"
    /\ net \in {"ready", "closeAll"} /\ ~accepting => ~joinable
    /\ net = "closeAll" => ~joinable
    /\ worker \in {"closing", "exited"} => stopping /\ QueueEmpty
    /\ worker = "exited" => descriptors = {}

\* Requests appear in the log in the order they were made, at most once.
LogOrder ==
    /\ \A k \in 1..Len(log) : log[k].request \in 0..requests
    /\ \A k \in 1..Len(log) : log[k].request = 0 <=> log[k].op = "close"
    /\ \A j, k \in 1..Len(log) :
         j < k /\ log[j].request # 0 /\ log[k].request # 0
            => log[j].request < log[k].request

\* What is posted was requested and is no longer pending.
PostedOrder ==
    /\ \A p \in 1..Len(posted) : posted[p] \in 1..requests
    /\ \A p \in 1..Len(posted), k \in 1..Len(log) :
         Pending(k) => posted[p] # log[k].request

\* The jobs and descriptors of a storage number name a number in the table.
InTable ==
    /\ \A d \in descriptors : d.storage \in 1..Len(torrents)
    /\ \A k \in 1..Len(log) : IsLookup(k) =>
         log[k].storage \in 1..Len(torrents) /\ log[k].tenant \in Tenants

\* Between two unexecuted jobs of different torrents under one number lies the
\* job of remove_torrent.
ClosedBetween ==
    \A j, k \in 1..Len(log) :
        /\ j < k /\ Unrun(j) /\ IsLookup(j) /\ IsLookup(k)
        /\ log[j].storage = log[k].storage /\ log[j].tenant # log[k].tenant
        => \E c \in 1..Len(log) : j < c /\ c < k /\ IsClose(c, log[k].storage)

\* Between a descriptor and an unexecuted job of another torrent lies one too.
ClosedBefore ==
    \A d \in descriptors, k \in 1..Len(log) :
        /\ Unrun(k) /\ IsLookup(k)
        /\ d.storage = log[k].storage /\ d.tenant # log[k].tenant
        => \E c \in 1..Len(log) : c < k /\ IsClose(c, log[k].storage)

\* What a number's former tenants left behind is followed by a close job.
ClosedSlot ==
    \A s \in 1..Len(torrents) :
        /\ \A d \in descriptors : d.storage = s /\ d.tenant # torrents[s]
             => \E c \in 1..Len(log) : IsClose(c, s)
        /\ \A j \in 1..Len(log) :
             Unrun(j) /\ IsLookup(j) /\ log[j].storage = s /\ log[j].tenant # torrents[s]
             => \E c \in 1..Len(log) : j < c /\ IsClose(c, s)

LiveCreated == \A s \in 1..Len(torrents) :
                  torrents[s] # NoTenant => torrents[s] \in created

Handlers == /\ Control /\ LogOrder /\ PostedOrder
            /\ HandlerPostedOnce /\ NoRequestLost /\ ReleaseIsFence

\* What lies between the leftovers of one torrent and the jobs of the next,
\* with the property it is for.
Closed == ClosedBetween /\ ClosedBefore /\ ClosedSlot /\ NoForeignDescriptor

Table == LiveCreated /\ FreeListExact

IndInv == TypeOK /\ Handlers /\ InTable /\ Closed /\ Table

----------------------------------------------------------------------------
(* Types. *)

USE ConstantsAssumption

\* What find_storage returns is a torrent or the empty slot.
LEMMA FindStorageType ==
    ASSUME TypeOK, NEW s
    PROVE  FindStorage(s) \in Tenants \cup {NoTenant}
  BY DEF TypeOK, FindStorage

\* enqueue_or_abort pushes a job or posts a handler.
LEMMA EnqueueType ==
    ASSUME TypeOK, NEW op, NEW s, NEW t,
           Job(requests + 1, op, s, t) \in Jobs,
           EnqueueOrAbort(op, s, t) \/ AnswerAtOnce
    PROVE  /\ log' \in Seq(Jobs) /\ Len(log) <= Len(log')
           /\ posted' \in Seq(Nat) /\ unsubmitted' \in BOOLEAN
<1>1. CASE AnswerAtOnce
  BY <1>1 DEF AnswerAtOnce, TypeOK
<1>2. CASE EnqueueOrAbort(op, s, t) /\ ~AnswerAtOnce
  <2> DEFINE j == Job(requests + 1, op, s, t)
  <2>1. j \in Jobs /\ log' = Append(log, j) /\ unsubmitted' = TRUE /\ posted' = posted
    BY <1>2 DEF EnqueueOrAbort
  <2> HIDE DEF j
  <2> QED BY <2>1 DEF TypeOK
<1> QED BY <1>1, <1>2

\* A busy worker has popped the job it executes.
LEMMA BusyJob ==
    ASSUME TypeOK, Control, Busy
    PROVE  taken \in 1..Len(log) /\ log[taken] \in Jobs
<1>1. taken \in 1..Len(log)
  BY DEF TypeOK, Control
<1> QED BY <1>1, ElementOfSeq DEF TypeOK

\* A job leaves descriptors of its own torrent or ones that were there.
LEMMA OutcomeType ==
    ASSUME NEW job \in Jobs, NEW D \in Outcome(job)
    PROVE  \A d \in D : \/ d \in descriptors
                       \/ /\ d = [storage |-> job.storage, tenant |-> job.tenant]
                          /\ job.op \in LookupOps
<1> USE DEF Outcome, CloseStorage, LookupOps, PlainOps
<1>1. CASE job.op \in {"read", "open"}
  BY <1>1
<1>2. CASE job.op \in {"release", "close"}
  BY <1>2
<1>3. CASE job.op = "drop"
  BY <1>3
<1>4. CASE job.op = "closeFile"
  BY <1>4
<1>5. CASE job.op = "clear"
  BY <1>5
<1> QED BY <1>1, <1>2, <1>3, <1>4, <1>5 DEF Jobs

\* Every step keeps the types: only log[taken] could be read out of range, and
\* a busy worker has popped a job (Control), whose tenant is a torrent (InTable).
LEMMA TypeStep == TypeOK /\ Control /\ InTable /\ FreeListExact /\ [Next]_vars => TypeOK'
<1> SUFFICES ASSUME TypeOK, Control, InTable, FreeListExact, [Next]_vars PROVE TypeOK'
  OBVIOUS
<1> USE DEF TypeOK
<1>1. ASSUME NEW t \in Tenants, NewTorrent(t) PROVE TypeOK'
  <2>1. CASE freeStorage = <<>>
    <3>1. torrents' = Append(torrents, t) /\ t \in Tenants \cup {NoTenant}
      BY <1>1, <2>1 DEF NewTorrent
    <3>2. torrents' \in Seq(Tenants \cup {NoTenant})
      BY <3>1, AppendProperties
    <3> QED BY <1>1, <2>1, <3>2 DEF NewTorrent, queueVars, threadVars
  <2>2. CASE freeStorage # <<>>
    <3> DEFINE n == Len(freeStorage)
               f == freeStorage[n]
    <3>1. n \in Nat \ {0}
      BY <2>2, EmptySeq
    <3>2. f \in 1..Len(torrents)
      BY <3>1 DEF FreeListExact
    <3>3. torrents' \in Seq(Tenants \cup {NoTenant})
      <4>1. torrents' = [torrents EXCEPT ![f] = t]
        BY <1>1, <2>2 DEF NewTorrent
      <4> HIDE DEF f
      <4> QED BY <3>2, <4>1, ExceptSeq
    <3>4. freeStorage' \in Seq(Nat)
      <4>1. \A i \in 1..(n - 1) : freeStorage[i] \in Nat
        BY <3>1
      <4>2. SubSeq(freeStorage, 1, n - 1) \in Seq(Nat)
        BY <3>1, <4>1, SubSeqProperties
      <4> QED BY <1>1, <2>2, <4>2 DEF NewTorrent
    <3> QED BY <1>1, <3>3, <3>4 DEF NewTorrent, queueVars, threadVars
  <2> QED BY <2>1, <2>2
<1>2. ASSUME NEW s \in Numbers, RemoveTorrent(s) PROVE TypeOK'
  <2>1. s \in 1..Len(torrents)
    BY <1>2 DEF RemoveTorrent, FindStorage, Numbers
  <2>2. Job(0, "close", s, NoTenant) \in Jobs
    BY <2>1 DEF Job, Jobs
  <2> QED BY <1>2, <2>1, <2>2 DEF RemoveTorrent, Enqueue, threadVars
<1>3. ASSUME NEW op \in Ops, NEW s \in Numbers, LookupRequest(op, s) PROVE TypeOK'
  <2>1. Job(requests + 1, op, s, FindStorage(s)) \in Jobs
    BY FindStorageType, <1>3 DEF Job, Jobs, Numbers, LookupRequest
  <2>2. EnqueueOrAbort(op, s, FindStorage(s)) \/ AnswerAtOnce
    BY <1>3 DEF LookupRequest
  <2>3. /\ log' \in Seq(Jobs) /\ Len(log) <= Len(log')
        /\ posted' \in Seq(Nat) /\ unsubmitted' \in BOOLEAN
    BY <2>1, <2>2, EnqueueType
  <2> QED BY <1>3, <2>3 DEF LookupRequest, Request, tableVars, threadVars
<1>4. ASSUME NEW op \in Ops, NEW s \in Numbers, PlainRequest(op, s) PROVE TypeOK'
  <2>1. Job(requests + 1, op, s, NoTenant) \in Jobs
    BY <1>4 DEF Job, Jobs, Numbers, PlainRequest
  <2>2. /\ log' \in Seq(Jobs) /\ Len(log) <= Len(log')
        /\ posted' \in Seq(Nat) /\ unsubmitted' \in BOOLEAN
    BY <1>4, <2>1, EnqueueType DEF PlainRequest
  <2> QED BY <1>4, <2>2 DEF PlainRequest, Request, tableVars, threadVars
<1>5. CASE SubmitJobs
  BY <1>5 DEF SubmitJobs, Notify, tableVars
<1>6. CASE Abort
  BY <1>6 DEF Abort, AbortFlag, AbortNotify, AbortJoin, AbortCloseAll, Notify, queueVars, tableVars
<1>7. CASE WorkerTake
  BY <1>7 DEF WorkerTake, QueueEmpty, tableVars
<1>8. CASE WorkerLeave \/ WorkerWait \/ WorkerWake \/ WorkerSpuriousWake \/ WorkerCloseAll
  BY <1>8 DEF WorkerLeave, WorkerWait, WorkerWake, WorkerSpuriousWake, WorkerCloseAll, queueVars, tableVars
<1>9. CASE WorkerRun
  <2>1. taken \in 1..Len(log) /\ log[taken] \in Jobs
    BY <1>9, BusyJob DEF WorkerRun, Busy
  <2>2. descriptors' \subseteq [storage : Nat, tenant : Tenants]
    <3> DEFINE job == log[taken]
               own == [storage |-> job.storage, tenant |-> job.tenant]
    <3>1. \A d \in descriptors' : d \in descriptors \/ (d = own /\ job.op \in LookupOps)
      BY <1>9, <2>1, OutcomeType DEF WorkerRun
    <3>2. job.op \in LookupOps => own \in [storage : Nat, tenant : Tenants]
      BY <2>1 DEF InTable, IsLookup, Jobs
    <3> HIDE DEF own
    <3> QED BY <3>1, <3>2
  <2> QED BY <1>9, <2>2 DEF WorkerRun, queueVars, tableVars
<1>10. CASE WorkerPost
  <2>1. log[taken].request \in Nat
    BY <1>10, BusyJob DEF WorkerPost, Busy, Jobs
  <2> QED BY <1>10, <2>1 DEF WorkerPost, tableVars
<1>11. CASE UNCHANGED vars
  BY <1>11 DEF vars, queueVars, tableVars, threadVars
<1> QED BY <1>1, <1>2, <1>3, <1>4, <1>5, <1>6, <1>7, <1>8, <1>9, <1>10, <1>11 DEF Next, Worker

----------------------------------------------------------------------------
(* The effect of a request, and the cases of a step. *)

\* A request that is queued as `job`.
QueueStep(job) ==
    /\ job \in Jobs /\ net = "ready" /\ accepting
    /\ job.request = requests + 1 /\ job.op # "close"
    /\ job.op \in LookupOps => /\ job.storage \in 1..Len(torrents)
                               /\ job.tenant = torrents[job.storage]
                               /\ job.tenant \in Tenants
    /\ log' = Append(log, job)
    /\ requests' = requests + 1
    /\ UNCHANGED <<taken, accepting, stopping, posted, tableVars, threadVars, descriptors>>

\* A request that is answered at once.
AnswerStep ==
    /\ net = "ready"
    /\ posted' = Append(posted, requests + 1)
    /\ requests' = requests + 1
    /\ UNCHANGED <<log, taken, accepting, stopping, tableVars, threadVars, descriptors>>

\* Steps that move a thread and leave queue, table and handlers alone.
ThreadStep ==
    \/ SubmitJobs \/ AbortFlag \/ AbortNotify \/ AbortJoin
    \/ WorkerLeave \/ WorkerWait \/ WorkerWake \/ WorkerSpuriousWake
    \/ UNCHANGED vars

CloseAllStep == AbortCloseAll \/ WorkerCloseAll

\* Every request is queued or answered at once.
LEMMA RequestEffect ==
    ASSUME TypeOK, NEW op \in Ops, NEW s \in Numbers,
           LookupRequest(op, s) \/ PlainRequest(op, s)
    PROVE  (\E job \in Jobs : QueueStep(job)) \/ AnswerStep
<1>1. CASE LookupRequest(op, s)
  <2> DEFINE t == FindStorage(s)
             job == Job(requests + 1, op, s, t)
  <2>1. CASE AnswerAtOnce
    BY <1>1, <2>1 DEF LookupRequest, AnswerAtOnce, AnswerStep, Request
  <2>2. CASE t # NoTenant /\ EnqueueOrAbort(op, s, t) /\ ~AnswerAtOnce
    <3>1. s \in 1..Len(torrents) /\ t = torrents[s] /\ t \in Tenants
      BY <2>2, FindStorageType DEF FindStorage
    <3>2. job \in Jobs /\ job.request = requests + 1 /\ job.op = op /\ job.storage = s /\ job.tenant = t
      BY <1>1, <3>1 DEF Job, Jobs, LookupRequest, TypeOK
    <3>3. op # "close"
      BY <1>1 DEF LookupRequest, LookupOps
    <3>4. accepting /\ log' = Append(log, job) /\ posted' = posted
      BY <2>2 DEF EnqueueOrAbort
    <3> HIDE DEF job, t
    <3>5. QueueStep(job)
      BY <1>1, <3>1, <3>2, <3>3, <3>4 DEF QueueStep, LookupRequest, Request
    <3> QED BY <3>2, <3>5
  <2> QED BY <1>1, <2>1, <2>2 DEF LookupRequest
<1>2. CASE PlainRequest(op, s)
  <2> DEFINE job == Job(requests + 1, op, s, NoTenant)
  <2>1. CASE AnswerAtOnce
    BY <1>2, <2>1 DEF PlainRequest, AnswerAtOnce, AnswerStep, Request
  <2>2. CASE EnqueueOrAbort(op, s, NoTenant) /\ ~AnswerAtOnce
    <3>1. job \in Jobs /\ job.request = requests + 1 /\ job.op = op
      BY <1>2 DEF Job, Jobs, PlainRequest, Numbers, TypeOK
    <3>2. op # "close" /\ op \notin LookupOps
      BY <1>2 DEF PlainRequest, PlainOps, LookupOps
    <3>3. accepting /\ log' = Append(log, job) /\ posted' = posted
      BY <2>2 DEF EnqueueOrAbort
    <3> HIDE DEF job
    <3>4. QueueStep(job)
      BY <1>2, <3>1, <3>2, <3>3 DEF QueueStep, PlainRequest, Request
    <3> QED BY <3>1, <3>4
  <2> QED BY <1>2, <2>1, <2>2 DEF PlainRequest
<1> QED BY <1>1, <1>2

\* A push to the back of the queue.
Grown(job) ==
    /\ Len(log) \in Nat /\ Len(log') = Len(log) + 1
    /\ log'[Len(log) + 1] = job
    /\ \A k \in 1..Len(log) : k \in 1..Len(log') /\ log'[k] = log[k]
    /\ \A k \in 1..Len(log') : k \in 1..Len(log) \/ k = Len(log) + 1

LEMMA GrownLog ==
    ASSUME TypeOK, NEW job \in Jobs, log' = Append(log, job)
    PROVE  Grown(job)
  BY AppendProperties DEF TypeOK, Grown

\* remove_torrent pushes its job unless abort() was called.
CloseJob(s) == Job(0, "close", s, NoTenant)

LEMMA RemoveGrown ==
    ASSUME TypeOK, NEW s \in Numbers, RemoveTorrent(s), accepting
    PROVE  /\ CloseJob(s) \in Jobs /\ CloseJob(s).request = 0
           /\ CloseJob(s).op = "close" /\ CloseJob(s).storage = s
           /\ Grown(CloseJob(s))
<1>1. /\ CloseJob(s) \in Jobs /\ CloseJob(s).request = 0
      /\ CloseJob(s).op = "close" /\ CloseJob(s).storage = s
  BY DEF CloseJob, Job, Jobs, Numbers, TypeOK
<1>2. log' = Append(log, CloseJob(s))
  BY DEF RemoveTorrent, Enqueue, CloseJob
<1> QED BY <1>1, <1>2, GrownLog

\* A handler that is posted.
PostedGrown(r) ==
    /\ Len(posted) \in Nat /\ Len(posted') = Len(posted) + 1
    /\ posted'[Len(posted) + 1] = r
    /\ \A p \in 1..Len(posted) : p \in 1..Len(posted') /\ posted'[p] = posted[p]
    /\ \A p \in 1..Len(posted') : p \in 1..Len(posted) \/ p = Len(posted) + 1

LEMMA GrownPosted ==
    ASSUME TypeOK, NEW r \in Nat, posted' = Append(posted, r)
    PROVE  PostedGrown(r)
  BY AppendProperties DEF TypeOK, PostedGrown

\* The shape of every proof below.
LEMMA StepCases ==
    ASSUME TypeOK, [Next]_vars
    PROVE  \/ \E t \in Tenants : NewTorrent(t)
           \/ \E s \in Numbers : RemoveTorrent(s)
           \/ \E job \in Jobs : QueueStep(job)
           \/ AnswerStep
           \/ ThreadStep
           \/ CloseAllStep
           \/ WorkerTake
           \/ WorkerRun
           \/ WorkerPost
  BY RequestEffect DEF Next, Abort, Worker, ThreadStep, CloseAllStep

----------------------------------------------------------------------------
(* Threads and handlers. *)

LEMMA ControlStep == TypeOK /\ Control /\ [Next]_vars => Control'
<1> SUFFICES ASSUME TypeOK, Control, [Next]_vars PROVE Control'
  OBVIOUS
<1> USE DEF Control, Busy, QueueEmpty
<1>1. ASSUME NEW t \in Tenants, NewTorrent(t) PROVE Control'
  BY <1>1 DEF NewTorrent, queueVars, threadVars
<1>2. ASSUME NEW s \in Numbers, RemoveTorrent(s) PROVE Control'
  BY <1>2 DEF RemoveTorrent, Enqueue, threadVars
<1>3. ASSUME NEW job \in Jobs, QueueStep(job) PROVE Control'
  BY <1>3 DEF QueueStep, threadVars
<1>4. CASE AnswerStep
  BY <1>4 DEF AnswerStep, threadVars
<1>5. CASE ThreadStep
  <2>1. CASE SubmitJobs \/ AbortNotify \/ AbortJoin
    BY <1>5, <2>1 DEF SubmitJobs, AbortNotify, AbortJoin, queueVars, TypeOK
  <2>4. CASE AbortFlag
    BY <2>4 DEF AbortFlag, TypeOK
  <2>2. CASE WorkerLeave \/ WorkerWait \/ WorkerWake \/ WorkerSpuriousWake
    BY <1>5, <2>2 DEF WorkerLeave, WorkerWait, WorkerWake, WorkerSpuriousWake, queueVars, TypeOK
  <2>3. CASE UNCHANGED vars
    BY <1>5, <2>3 DEF vars, queueVars, threadVars
  <2> QED BY <1>5, <2>1, <2>2, <2>3, <2>4 DEF ThreadStep
<1>6. CASE CloseAllStep
  BY <1>6 DEF CloseAllStep, AbortCloseAll, WorkerCloseAll, queueVars
<1>7. CASE WorkerTake
  BY <1>7 DEF WorkerTake, TypeOK
<1>8. CASE WorkerRun
  BY <1>8 DEF WorkerRun, queueVars
<1>9. CASE WorkerPost
  BY <1>9 DEF WorkerPost
<1> QED BY <1>1, <1>2, <1>3, <1>4, <1>5, <1>6, <1>7, <1>8, <1>9, StepCases

\* The steps that touch neither the queue, nor the handlers, nor whether the
\* worker holds a job.
HandlersKept == /\ UNCHANGED <<log, taken, requests, posted>>
                /\ Busy' = Busy

LEMMA KeptCases ==
    ASSUME TypeOK, [Next]_vars
    PROVE  \/ \E s \in Numbers : RemoveTorrent(s)
           \/ \E job \in Jobs : QueueStep(job)
           \/ AnswerStep
           \/ HandlersKept
           \/ WorkerTake
           \/ WorkerPost
<1> USE DEF HandlersKept, Busy
<1>1. ASSUME NEW t \in Tenants, NewTorrent(t) PROVE HandlersKept
  BY <1>1 DEF NewTorrent, queueVars, threadVars
<1>2. CASE ThreadStep
  BY <1>2 DEF ThreadStep, SubmitJobs, AbortFlag, AbortNotify, AbortJoin, WorkerLeave,
       WorkerWait, WorkerWake, WorkerSpuriousWake, vars, queueVars, threadVars
<1>3. CASE CloseAllStep
  BY <1>3 DEF CloseAllStep, AbortCloseAll, WorkerCloseAll, queueVars
<1>4. CASE WorkerRun
  BY <1>4 DEF WorkerRun, queueVars
<1> QED BY <1>1, <1>2, <1>3, <1>4, StepCases

LEMMA LogOrderStep == TypeOK /\ LogOrder /\ [Next]_vars => LogOrder'
<1> SUFFICES ASSUME TypeOK, LogOrder, [Next]_vars PROVE LogOrder'
  OBVIOUS
<1> USE DEF LogOrder
<1>0. requests \in Nat /\ Len(log) \in Nat
  BY DEF TypeOK
<1>1. ASSUME NEW s \in Numbers, RemoveTorrent(s) PROVE LogOrder'
  <2>1. CASE accepting
    <3>1. requests' = requests
      BY <1>1 DEF RemoveTorrent
    <3>2. Grown(CloseJob(s)) /\ CloseJob(s).request = 0 /\ CloseJob(s).op = "close"
      BY <1>1, <2>1, RemoveGrown
    <3>3. \A k \in 1..Len(log') : (k \in 1..Len(log) /\ log'[k] = log[k])
                                  \/ (k = Len(log) + 1 /\ log'[k] = CloseJob(s))
      BY <3>2 DEF Grown
    <3>4. \A k \in 1..Len(log') : log'[k].request \in 0..requests'
      BY <1>0, <3>1, <3>2, <3>3
    <3>5. \A k \in 1..Len(log') : log'[k].request = 0 <=> log'[k].op = "close"
      BY <3>2, <3>3
    <3>6. \A j, k \in 1..Len(log') :
            j < k /\ log'[j].request # 0 /\ log'[k].request # 0
              => log'[j].request < log'[k].request
      BY <3>2, <3>3
    <3> QED BY <3>4, <3>5, <3>6
  <2>2. CASE ~accepting
    BY <1>1, <2>2 DEF RemoveTorrent, Enqueue
  <2> QED BY <2>1, <2>2
<1>2. ASSUME NEW job \in Jobs, QueueStep(job) PROVE LogOrder'
  <2>1. Grown(job) /\ job.request = requests + 1 /\ job.op # "close" /\ requests' = requests + 1
    BY <1>2, GrownLog DEF QueueStep
  <2>2. \A k \in 1..Len(log') : k \in 1..Len(log) \/ k = Len(log) + 1
    BY <2>1 DEF Grown
  <2>3. \A k \in 1..Len(log') : log'[k].request \in 0..requests'
    BY <1>0, <2>1, <2>2 DEF Grown
  <2>4. \A k \in 1..Len(log') : log'[k].request = 0 <=> log'[k].op = "close"
    BY <1>0, <2>1, <2>2 DEF Grown
  <2>5. ASSUME NEW j \in 1..Len(log'), NEW k \in 1..Len(log'),
               j < k, log'[j].request # 0, log'[k].request # 0
        PROVE  log'[j].request < log'[k].request
    BY <1>0, <2>1, <2>2, <2>5 DEF Grown
  <2> QED BY <2>3, <2>4, <2>5
<1>3. CASE AnswerStep
  BY <1>0, <1>3 DEF AnswerStep
<1>4. CASE HandlersKept
  BY <1>4 DEF HandlersKept
<1>5. CASE WorkerTake \/ WorkerPost
  BY <1>5 DEF WorkerTake, WorkerPost
<1> QED BY <1>1, <1>2, <1>3, <1>4, <1>5, KeptCases

LEMMA PostedStep ==
    ASSUME TypeOK, Control, LogOrder, PostedOrder, HandlerPostedOnce, [Next]_vars
    PROVE  PostedOrder' /\ HandlerPostedOnce'
<1> USE DEF PostedOrder, HandlerPostedOnce, Pending
<1>0. requests \in Nat /\ Len(log) \in Nat /\ Len(posted) \in Nat /\ taken \in 0..Len(log)
  BY DEF TypeOK
<1>1. ASSUME NEW s \in Numbers, RemoveTorrent(s) PROVE PostedOrder' /\ HandlerPostedOnce'
  <2>1. requests' = requests /\ posted' = posted /\ taken' = taken /\ Busy' = Busy
    BY <1>1 DEF RemoveTorrent, Busy, threadVars
  <2>2. CASE accepting
    BY <1>0, <1>1, <2>1, <2>2, RemoveGrown DEF Grown
  <2>3. CASE ~accepting
    BY <1>1, <2>1, <2>3 DEF RemoveTorrent, Enqueue
  <2> QED BY <2>2, <2>3
<1>2. ASSUME NEW job \in Jobs, QueueStep(job) PROVE PostedOrder' /\ HandlerPostedOnce'
  <2>1. /\ requests' = requests + 1 /\ posted' = posted /\ taken' = taken /\ Busy' = Busy
        /\ Grown(job) /\ job.request = requests + 1
    BY <1>2, GrownLog DEF QueueStep, Busy, threadVars
  <2>2. \A k \in 1..Len(log) : Pending(k)' => Pending(k) /\ log'[k] = log[k]
    BY <2>1 DEF Grown
  <2>3. \A p \in 1..Len(posted') : posted'[p] \in 1..requests' /\ posted'[p] # requests + 1
    BY <1>0, <2>1
  <2>4. ASSUME NEW p \in 1..Len(posted'), NEW k \in 1..Len(log'), Pending(k)'
        PROVE  posted'[p] # log'[k].request
    <3>1. CASE k \in 1..Len(log)
      BY <2>1, <2>2, <2>4, <3>1
    <3>2. CASE k = Len(log) + 1
      BY <2>1, <2>3, <3>2 DEF Grown
    <3> QED BY <2>1, <3>1, <3>2 DEF Grown
  <2> QED BY <2>1, <2>3, <2>4
<1>3. CASE AnswerStep
  <2>1. /\ requests' = requests + 1 /\ log' = log /\ taken' = taken /\ Busy' = Busy
        /\ PostedGrown(requests + 1)
    BY <1>0, <1>3, GrownPosted DEF AnswerStep, Busy, threadVars
  <2>2. \A k \in 1..Len(log) : log'[k].request # requests + 1
    BY <1>0, <2>1 DEF LogOrder
  <2>3. \A p \in 1..Len(posted) : posted'[p] = posted[p] /\ posted[p] \in 1..requests
    BY <2>1 DEF PostedGrown
  <2>4. PostedOrder'
    <3>1. \A p \in 1..Len(posted') : posted'[p] \in 1..requests'
      BY <1>0, <2>1, <2>3 DEF PostedGrown
    <3>2. ASSUME NEW p \in 1..Len(posted'), NEW k \in 1..Len(log), Pending(k)
          PROVE  posted'[p] # log[k].request
      <4>1. CASE p \in 1..Len(posted)
        BY <2>3, <3>2, <4>1
      <4>2. CASE p = Len(posted) + 1
        BY <2>1, <2>2, <4>2 DEF PostedGrown
      <4> QED BY <2>1, <4>1, <4>2 DEF PostedGrown
    <3> QED BY <2>1, <3>1, <3>2
  <2>5. HandlerPostedOnce'
    BY <1>0, <2>1, <2>3 DEF PostedGrown
  <2> QED BY <2>4, <2>5
<1>4. CASE HandlersKept
  BY <1>4 DEF HandlersKept
<1>5. CASE WorkerTake
  <2>1. requests' = requests /\ posted' = posted /\ log' = log /\ taken' = taken + 1
    BY <1>5 DEF WorkerTake
  <2>2. \A k : Pending(k)' => Pending(k)
    BY <1>0, <2>1
  <2> QED BY <2>1, <2>2
<1>6. CASE WorkerPost
  <2>1. /\ taken \in 1..Len(log) /\ log[taken] \in Jobs /\ Busy /\ ~Busy'
        /\ requests' = requests /\ log' = log /\ taken' = taken
    BY <1>6, BusyJob DEF WorkerPost, Busy
  <2>2. CASE log[taken].op = "close"
    BY <1>0, <1>6, <2>1, <2>2 DEF WorkerPost
  <2>3. CASE log[taken].op # "close"
    <3> DEFINE r == log[taken].request
    <3>1. r \in 1..requests
      BY <1>0, <2>1, <2>3 DEF LogOrder
    <3>2. PostedGrown(r)
      BY <1>0, <1>6, <2>3, <3>1, GrownPosted DEF WorkerPost
    <3>3. \A k \in 1..Len(log) : k > taken => log[k].request # r
      BY <1>0, <2>1, <3>1 DEF LogOrder
    <3>4. \A p \in 1..Len(posted) : posted[p] # r
      BY <2>1
    <3> HIDE DEF r
    <3>5. \A p \in 1..Len(posted') : (p \in 1..Len(posted) /\ posted'[p] = posted[p]) \/ (p = Len(posted) + 1 /\ posted'[p] = r)
      BY <3>2 DEF PostedGrown
    <3>6. PostedOrder'
      BY <1>0, <2>1, <3>1, <3>3, <3>5
    <3>7. HandlerPostedOnce'
      BY <1>0, <3>4, <3>5
    <3> QED BY <3>6, <3>7
  <2> QED BY <2>2, <2>3
<1> QED BY <1>1, <1>2, <1>3, <1>4, <1>5, <1>6, KeptCases

LEMMA NoRequestLostStep ==
    ASSUME TypeOK, Control, LogOrder, NoRequestLost, [Next]_vars
    PROVE  NoRequestLost'
<1> USE DEF NoRequestLost, IsPosted, IsRunning, IsQueued
<1>0. requests \in Nat /\ Len(log) \in Nat /\ Len(posted) \in Nat /\ taken \in 0..Len(log)
  BY DEF TypeOK
<1>1. ASSUME NEW s \in Numbers, RemoveTorrent(s) PROVE NoRequestLost'
  <2>1. requests' = requests /\ posted' = posted /\ taken' = taken /\ worker' = worker
    BY <1>1 DEF RemoveTorrent, threadVars
  <2>2. CASE accepting
    <3>1. Grown(CloseJob(s))
      BY <1>1, <2>2, RemoveGrown
    <3>2. \A k \in 1..Len(log) : k \in 1..Len(log') /\ log'[k] = log[k]
      BY <3>1 DEF Grown
    <3>3. \A r : IsQueued(r) => IsQueued(r)'
      BY <1>0, <2>1, <3>1, <3>2 DEF Grown
    <3>4. \A r : IsRunning(r) => IsRunning(r)'
      BY <2>1, <3>2, BusyJob DEF Busy
    <3>5. \A r : IsPosted(r) => IsPosted(r)'
      BY <2>1
    <3> QED BY <2>1, <3>3, <3>4, <3>5 DEF NoRequestLost
  <2>3. CASE ~accepting
    BY <1>1, <2>1, <2>3 DEF RemoveTorrent, Enqueue
  <2> QED BY <2>2, <2>3
<1>2. ASSUME NEW job \in Jobs, QueueStep(job) PROVE NoRequestLost'
  <2>1. /\ requests' = requests + 1 /\ posted' = posted /\ taken' = taken /\ worker' = worker
        /\ Grown(job) /\ job.request = requests + 1
    BY <1>2, GrownLog DEF QueueStep, threadVars
  <2> QED BY <1>0, <2>1, BusyJob DEF Grown, Busy
<1>3. CASE AnswerStep
  <2>1. /\ requests' = requests + 1 /\ log' = log /\ taken' = taken /\ worker' = worker
        /\ PostedGrown(requests + 1)
    BY <1>0, <1>3, GrownPosted DEF AnswerStep, threadVars
  <2> QED BY <1>0, <2>1 DEF PostedGrown
<1>4. CASE HandlersKept
  BY <1>4 DEF HandlersKept, Busy
<1>5. CASE WorkerTake
  BY <1>0, <1>5 DEF WorkerTake
<1>6. CASE WorkerPost
  <2>1. /\ taken \in 1..Len(log) /\ worker = "post"
        /\ requests' = requests /\ log' = log /\ taken' = taken
    BY <1>6, BusyJob DEF WorkerPost, Busy
  <2>2. CASE log[taken].op = "close"
    BY <1>0, <1>6, <2>1, <2>2 DEF WorkerPost, LogOrder
  <2>3. CASE log[taken].op # "close"
    <3>1. log[taken].request \in Nat /\ posted' = Append(posted, log[taken].request)
      BY <1>6, <2>1, <2>3, BusyJob DEF WorkerPost, Busy, Jobs
    <3>2. PostedGrown(log[taken].request)
      BY <3>1, GrownPosted
    <3> QED BY <1>0, <2>1, <3>2 DEF PostedGrown
  <2> QED BY <2>2, <2>3
<1> QED BY <1>1, <1>2, <1>3, <1>4, <1>5, <1>6, KeptCases

\* A release job's request number is larger than those of all jobs before it,
\* so when it is posted nothing older can be running or queued.
LEMMA FenceStep ==
    ASSUME TypeOK, Control, LogOrder, PostedOrder, NoRequestLost, ReleaseIsFence, [Next]_vars
    PROVE  ReleaseIsFence'
<1> USE DEF ReleaseIsFence
<1>0. requests \in Nat /\ Len(log) \in Nat /\ Len(posted) \in Nat /\ taken \in 0..Len(log)
  BY DEF TypeOK
<1>1. ASSUME NEW s \in Numbers, RemoveTorrent(s) PROVE ReleaseIsFence'
  <2>1. posted' = posted /\ taken' = taken
    BY <1>1 DEF RemoveTorrent
  <2>2. CASE accepting
    <3>1. Grown(CloseJob(s))
      BY <1>1, <2>2, RemoveGrown
    <3>2. \A k \in 1..taken : log'[k] = log[k]
      BY <1>0, <3>1 DEF Grown
    <3> QED BY <2>1, <3>2
  <2>3. CASE ~accepting
    BY <1>1, <2>1, <2>3 DEF RemoveTorrent, Enqueue
  <2> QED BY <2>2, <2>3
<1>2. ASSUME NEW job \in Jobs, QueueStep(job) PROVE ReleaseIsFence'
  <2>1. posted' = posted /\ taken' = taken /\ Grown(job)
    BY <1>2, GrownLog DEF QueueStep
  <2> QED BY <1>0, <2>1 DEF Grown
<1>3. CASE AnswerStep
  <2>1. log' = log /\ taken' = taken /\ PostedGrown(requests + 1)
    BY <1>0, <1>3, GrownPosted DEF AnswerStep
  <2>2. \A k \in 1..taken : log[k].request # requests + 1
    BY <1>0 DEF LogOrder
  <2>3. ASSUME NEW k \in 1..taken, log[k].op = "release",
               NEW p \in 1..Len(posted'), posted'[p] = log[k].request,
               NEW r \in 1..(log[k].request - 1)
        PROVE  \E q \in 1..(p - 1) : posted'[q] = r
    <3>1. p \in 1..Len(posted) /\ posted[p] = log[k].request
      BY <2>1, <2>2, <2>3 DEF PostedGrown
    <3>2. PICK q \in 1..(p - 1) : posted[q] = r
      BY <2>3, <3>1
    <3>3. posted'[q] = r
      BY <1>0, <2>1, <3>1, <3>2 DEF PostedGrown
    <3> QED BY <3>2, <3>3
  <2> QED BY <2>1, <2>3
<1>4. CASE HandlersKept
  BY <1>4 DEF HandlersKept
<1>5. CASE WorkerTake
  <2>1. posted' = posted /\ log' = log /\ taken' = taken + 1 /\ taken + 1 \in 1..Len(log)
    BY <1>0, <1>5 DEF WorkerTake, QueueEmpty
  <2>2. \A p \in 1..Len(posted) : posted[p] # log[taken + 1].request
    BY <1>0, <2>1 DEF PostedOrder, Pending
  <2> QED BY <1>0, <2>1, <2>2
<1>6. CASE WorkerPost
  <2>1. /\ taken \in 1..Len(log) /\ log[taken] \in Jobs /\ worker = "post"
        /\ log' = log /\ taken' = taken
    BY <1>6, BusyJob DEF WorkerPost, Busy
  <2>2. CASE log[taken].op = "close"
    BY <1>6, <2>1, <2>2 DEF WorkerPost
  <2>3. CASE log[taken].op # "close"
    <3> DEFINE m == log[taken].request
    <3>1. m \in 1..requests
      BY <1>0, <2>1, <2>3 DEF LogOrder
    <3>2. PostedGrown(m)
      BY <1>6, <2>3, <3>1, GrownPosted DEF WorkerPost
    <3>3. ASSUME NEW r \in 1..(m - 1) PROVE IsPosted(r)
      <4>1. r \in 1..requests /\ r # m /\ r # 0 /\ m # 0 /\ ~(m < r)
        BY <1>0, <3>1
      <4>2. ~IsRunning(r)
        BY <4>1 DEF IsRunning
      <4>3. ~IsQueued(r)
        BY <1>0, <2>1, <4>1 DEF IsQueued, LogOrder
      <4> QED BY <4>1, <4>2, <4>3 DEF NoRequestLost
    <3>4. \A r \in 1..(m - 1) : \E q \in 1..Len(posted) : posted'[q] = r
      BY <3>2, <3>3 DEF IsPosted, PostedGrown
    <3> HIDE DEF m
    <3> SUFFICES ASSUME NEW k \in 1..taken, log[k].op = "release",
                        NEW p \in 1..Len(posted'), posted'[p] = log[k].request,
                        NEW r \in 1..(log[k].request - 1)
                 PROVE  \E q \in 1..(p - 1) : posted'[q] = r
      BY <2>1
    <3>5. CASE p \in 1..Len(posted)
      <4>1. posted[p] = log[k].request
        BY <3>2, <3>5 DEF PostedGrown
      <4>2. PICK q \in 1..(p - 1) : posted[q] = r
        BY <3>5, <4>1
      <4>3. posted'[q] = r
        BY <1>0, <3>2, <3>5, <4>2 DEF PostedGrown
      <4> QED BY <4>2, <4>3
    <3>6. CASE p = Len(posted) + 1
      <4>1. log[k].request = m
        BY <3>2, <3>6 DEF PostedGrown
      <4> QED BY <1>0, <3>4, <3>6, <4>1
    <3> QED BY <3>2, <3>5, <3>6 DEF PostedGrown
  <2> QED BY <2>2, <2>3
<1> QED BY <1>1, <1>2, <1>3, <1>4, <1>5, <1>6, KeptCases

----------------------------------------------------------------------------
(* Storage numbers. *)

\* new_torrent fills one slot, an empty one or a new one.
LEMMA NewTorrentSlots ==
    ASSUME TypeOK, FreeListExact, NEW t \in Tenants, NewTorrent(t)
    PROVE  \E f \in Nat :
              /\ Len(torrents') \in Nat /\ Len(torrents) <= Len(torrents')
              /\ \A s \in 1..Len(torrents') : s \in 1..Len(torrents) \/ s = f
              /\ \A s \in 1..Len(torrents) : s # f => torrents'[s] = torrents[s]
              /\ torrents'[f] = t
              /\ f \in 1..Len(torrents) => torrents[f] = NoTenant
<1>1. CASE freeStorage = <<>>
  <2>1. torrents' = Append(torrents, t) /\ t \in Tenants \cup {NoTenant}
    BY <1>1 DEF NewTorrent
  <2>2. /\ Len(torrents) \in Nat /\ Len(torrents') = Len(torrents) + 1
        /\ torrents'[Len(torrents) + 1] = t
        /\ \A s \in 1..Len(torrents) : torrents'[s] = torrents[s]
    BY <2>1, AppendProperties DEF TypeOK
  <2> WITNESS Len(torrents) + 1 \in Nat
  <2> QED BY <2>2
<1>2. CASE freeStorage # <<>>
  <2> DEFINE n == Len(freeStorage)
             f == freeStorage[n]
  <2>1. n \in Nat \ {0}
    BY <1>2, EmptySeq DEF TypeOK
  <2>2. f \in 1..Len(torrents) /\ torrents[f] = NoTenant
    BY <2>1 DEF FreeListExact
  <2>3. torrents' = [torrents EXCEPT ![f] = t]
    BY <1>2 DEF NewTorrent
  <2> HIDE DEF f
  <2>4. /\ Len(torrents) \in Nat /\ Len(torrents') = Len(torrents)
        /\ \A s \in 1..Len(torrents) : torrents'[s] = IF s = f THEN t ELSE torrents[s]
    BY <2>2, <2>3, ExceptSeq DEF TypeOK
  <2> f \in Nat
    BY <2>2, <2>4
  <2> WITNESS f \in Nat
  <2> QED BY <2>2, <2>4
<1> QED BY <1>1, <1>2

\* remove_torrent empties one slot.
LEMMA RemoveTorrentSlots ==
    ASSUME TypeOK, NEW s \in Numbers, RemoveTorrent(s)
    PROVE  /\ s \in 1..Len(torrents) /\ torrents[s] # NoTenant
           /\ Len(torrents') = Len(torrents)
           /\ \A u \in 1..Len(torrents) : torrents'[u] = IF u = s THEN NoTenant ELSE torrents[u]
<1>1. s \in 1..Len(torrents) /\ torrents[s] # NoTenant
  BY DEF RemoveTorrent, FindStorage, Numbers
<1>2. torrents' = [torrents EXCEPT ![s] = NoTenant]
  BY DEF RemoveTorrent
<1> QED BY <1>1, <1>2, ExceptSeq DEF TypeOK

\* Slots, free numbers and torrents stay in step.
LEMMA TableStep ==
    ASSUME TypeOK, LiveCreated, FreeListExact, [Next]_vars
    PROVE  LiveCreated' /\ FreeListExact'
<1> USE DEF LiveCreated, FreeListExact
<1>0. Len(torrents) \in Nat /\ Len(freeStorage) \in Nat
  BY DEF TypeOK
<1>1. ASSUME NEW t \in Tenants, NewTorrent(t) PROVE LiveCreated' /\ FreeListExact'
  <2>0. t \notin created /\ t # NoTenant /\ created' = created \cup {t}
    BY <1>1 DEF NewTorrent
  <2>1. CASE freeStorage = <<>>
    <3>1. freeStorage' = freeStorage /\ torrents' = Append(torrents, t) /\ Len(freeStorage) = 0
      BY <1>1, <2>1 DEF NewTorrent
    <3>2. /\ Len(torrents') = Len(torrents) + 1 /\ torrents'[Len(torrents) + 1] = t
          /\ \A s \in 1..Len(torrents) : torrents'[s] = torrents[s]
      BY <3>1, AppendProperties DEF TypeOK
    <3> QED BY <1>0, <2>0, <3>1, <3>2
  <2>2. CASE freeStorage # <<>>
    <3> DEFINE n == Len(freeStorage)
               f == freeStorage[n]
    <3>1. n \in Nat \ {0}
      BY <2>2, EmptySeq DEF TypeOK
    <3>2. f \in 1..Len(torrents) /\ torrents[f] = NoTenant
      BY <3>1
    <3>3. torrents' = [torrents EXCEPT ![f] = t] /\ freeStorage' = SubSeq(freeStorage, 1, n - 1)
      BY <1>1, <2>2 DEF NewTorrent
    <3>4. Len(freeStorage') = n - 1 /\ \A i \in 1..(n - 1) : freeStorage'[i] = freeStorage[i]
      <4>1. \A i \in 1..(n - 1) : freeStorage[i] \in Nat
        BY <3>1 DEF TypeOK
      <4> DEFINE sub == SubSeq(freeStorage, 1, n - 1)
      <4>2. /\ Len(sub) = IF 1 <= n - 1 THEN (n - 1) - 1 + 1 ELSE 0
            /\ \A i \in 1..((n - 1) - 1 + 1) : sub[i] = freeStorage[1 + i - 1]
        <5>1. 1 \in Int /\ n - 1 \in Int
          BY <3>1
        <5> HIDE DEF n
        <5> QED BY <4>1, <5>1, SubSeqProperties
      <4>3. Len(sub) = n - 1 /\ \A i \in 1..(n - 1) : sub[i] = freeStorage[i]
        <5> HIDE DEF sub, n
        <5> QED BY <3>1, <4>2
      <4> QED BY <3>3, <4>3
    <3> HIDE DEF f
    <3>5. /\ Len(torrents') = Len(torrents)
          /\ \A s \in 1..Len(torrents) : torrents'[s] = IF s = f THEN t ELSE torrents[s]
      BY <3>2, <3>3, ExceptSeq DEF TypeOK
    <3>6. \A i \in 1..(n - 1) : freeStorage[i] # f
      BY <3>1 DEF f
    <3>7. \A s \in 1..Len(torrents) : s # f =>
            ((\E i \in 1..n : freeStorage[i] = s) <=> \E i \in 1..(n - 1) : freeStorage'[i] = s)
      BY <3>1, <3>4 DEF f
    <3>8. LiveCreated'
      BY <2>0, <3>5
    <3>9. \A i, j \in 1..Len(freeStorage') : freeStorage'[i] = freeStorage'[j] => i = j
      BY <3>1, <3>4
    <3>10. \A s \in 1..Len(torrents') :
             torrents'[s] = NoTenant <=> \E i \in 1..Len(freeStorage') : freeStorage'[i] = s
      BY <2>0, <3>1, <3>4, <3>5, <3>6, <3>7
    <3>11. \A i \in 1..Len(freeStorage') : freeStorage'[i] \in 1..Len(torrents')
      BY <3>1, <3>4, <3>5
    <3>12. \A s, u \in 1..Len(torrents') :
             torrents'[s] = torrents'[u] /\ torrents'[s] # NoTenant => s = u
      BY <2>0, <3>5
    <3> QED BY <3>8, <3>9, <3>10, <3>11, <3>12
  <2> QED BY <2>1, <2>2
<1>2. ASSUME NEW s \in Numbers, RemoveTorrent(s) PROVE LiveCreated' /\ FreeListExact'
  <2>1. s \in 1..Len(torrents) /\ torrents[s] # NoTenant /\ created' = created
    BY <1>2 DEF RemoveTorrent, FindStorage, Numbers
  <2>2. torrents' = [torrents EXCEPT ![s] = NoTenant] /\ freeStorage' = Append(freeStorage, s)
    BY <1>2 DEF RemoveTorrent
  <2>3. /\ Len(torrents') = Len(torrents)
        /\ \A u \in 1..Len(torrents) : torrents'[u] = IF u = s THEN NoTenant ELSE torrents[u]
    BY <2>1, <2>2, ExceptSeq DEF TypeOK
  <2>4. /\ Len(freeStorage') = Len(freeStorage) + 1
        /\ freeStorage'[Len(freeStorage) + 1] = s
        /\ \A i \in 1..Len(freeStorage) : freeStorage'[i] = freeStorage[i]
    BY <1>0, <2>1, <2>2, AppendProperties DEF TypeOK
  <2>5. \A i \in 1..Len(freeStorage) : freeStorage[i] # s
    BY <2>1
  <2>6. LiveCreated'
    BY <2>1, <2>3
  <2>7. \A i, j \in 1..Len(freeStorage') : freeStorage'[i] = freeStorage'[j] => i = j
    BY <1>0, <2>4, <2>5
  <2>8. \A u \in 1..Len(torrents') :
          torrents'[u] = NoTenant <=> \E i \in 1..Len(freeStorage') : freeStorage'[i] = u
    <3> TAKE u \in 1..Len(torrents')
    <3>1. CASE u = s
      BY <1>0, <2>1, <2>3, <2>4, <3>1
    <3>2. CASE u # s
      <4>1. \A i \in 1..Len(freeStorage') : freeStorage'[i] = u => i \in 1..Len(freeStorage)
        BY <1>0, <2>4, <3>2
      <4>2. (\E i \in 1..Len(freeStorage') : freeStorage'[i] = u)
              <=> \E i \in 1..Len(freeStorage) : freeStorage[i] = u
        BY <1>0, <2>4, <4>1
      <4> QED BY <2>3, <3>2, <4>2
    <3> QED BY <3>1, <3>2
  <2>9. \A i \in 1..Len(freeStorage') : freeStorage'[i] \in 1..Len(torrents')
    BY <1>0, <2>1, <2>3, <2>4
  <2>10. \A u, v \in 1..Len(torrents') :
           torrents'[u] = torrents'[v] /\ torrents'[u] # NoTenant => u = v
    BY <2>3
  <2> QED BY <2>6, <2>7, <2>8, <2>9, <2>10
<1>3. ASSUME UNCHANGED tableVars PROVE LiveCreated' /\ FreeListExact'
  BY <1>3 DEF tableVars
<1>4. CASE ThreadStep
  BY <1>3, <1>4 DEF ThreadStep, SubmitJobs, AbortFlag, AbortNotify, AbortJoin, WorkerLeave,
       WorkerWait, WorkerWake, WorkerSpuriousWake, vars
<1>5. CASE CloseAllStep \/ WorkerTake \/ WorkerRun \/ WorkerPost
  BY <1>3, <1>5 DEF CloseAllStep, AbortCloseAll, WorkerCloseAll, WorkerTake, WorkerRun, WorkerPost
<1>6. CASE AnswerStep \/ \E job \in Jobs : QueueStep(job)
  BY <1>3, <1>6 DEF AnswerStep, QueueStep
<1> QED BY <1>1, <1>2, <1>4, <1>5, <1>6, StepCases

----------------------------------------------------------------------------
(* Reuse of storage numbers. *)

\* The steps that leave the jobs to execute, the slots and the descriptors alone.
ReuseKept == /\ UNCHANGED <<log, taken, torrents, descriptors>>
             /\ (worker = "run")' = (worker = "run")
             /\ Busy' => Busy

LEMMA ReuseCases ==
    ASSUME TypeOK, [Next]_vars
    PROVE  \/ \E t \in Tenants : NewTorrent(t)
           \/ \E s \in Numbers : RemoveTorrent(s)
           \/ \E job \in Jobs : QueueStep(job)
           \/ ReuseKept
           \/ CloseAllStep
           \/ WorkerTake
           \/ WorkerRun
<1> USE DEF ReuseKept, Busy
<1>1. CASE AnswerStep
  BY <1>1 DEF AnswerStep, tableVars, threadVars
<1>2. CASE ThreadStep
  BY <1>2 DEF ThreadStep, SubmitJobs, AbortFlag, AbortNotify, AbortJoin, WorkerLeave,
       WorkerWait, WorkerWake, WorkerSpuriousWake, vars, queueVars, tableVars, threadVars
<1>3. CASE WorkerPost
  BY <1>3 DEF WorkerPost, tableVars
<1> QED BY <1>1, <1>2, <1>3, StepCases

\* remove_torrent after abort() finds a drained queue and no descriptor.
LEMMA AbortedIsQuiet ==
    ASSUME TypeOK, Control, net = "ready", ~accepting
    PROVE  taken = Len(log) /\ worker = "exited" /\ descriptors = {}
  BY DEF Control, QueueEmpty

LEMMA InTableStep ==
    ASSUME TypeOK, Control, FreeListExact, InTable, [Next]_vars
    PROVE  InTable'
<1> USE DEF InTable, IsLookup
<1>0. Len(log) \in Nat /\ Len(torrents) \in Nat
  BY DEF TypeOK
<1>1. ASSUME NEW t \in Tenants, NewTorrent(t) PROVE InTable'
  <2>1. log' = log /\ descriptors' = descriptors
    BY <1>1 DEF NewTorrent, queueVars
  <2>2. Len(torrents') \in Nat /\ Len(torrents) <= Len(torrents')
    BY <1>1, NewTorrentSlots
  <2> QED BY <1>0, <2>1, <2>2
<1>2. ASSUME NEW s \in Numbers, RemoveTorrent(s) PROVE InTable'
  <2>1. descriptors' = descriptors /\ Len(torrents') = Len(torrents)
    BY <1>2, RemoveTorrentSlots DEF RemoveTorrent
  <2>2. CASE accepting
    <3>1. Grown(CloseJob(s)) /\ CloseJob(s).op \notin LookupOps
      BY <1>2, <2>2, RemoveGrown DEF LookupOps
    <3> QED BY <1>0, <2>1, <3>1 DEF Grown
  <2>3. CASE ~accepting
    BY <1>2, <2>1, <2>3 DEF RemoveTorrent, Enqueue
  <2> QED BY <2>2, <2>3
<1>3. ASSUME NEW job \in Jobs, QueueStep(job) PROVE InTable'
  <2>1. Grown(job) /\ torrents' = torrents /\ descriptors' = descriptors
    BY <1>3, GrownLog DEF QueueStep, tableVars
  <2>2. job.op \in LookupOps => job.storage \in 1..Len(torrents) /\ job.tenant \in Tenants
    BY <1>3 DEF QueueStep
  <2> QED BY <1>0, <2>1, <2>2 DEF Grown
<1>4. CASE ReuseKept
  BY <1>4 DEF ReuseKept
<1>5. CASE CloseAllStep
  BY <1>5 DEF CloseAllStep, AbortCloseAll, WorkerCloseAll, queueVars, tableVars
<1>6. CASE WorkerTake
  BY <1>6 DEF WorkerTake, tableVars
<1>7. CASE WorkerRun
  <2>1. log' = log /\ torrents' = torrents
    BY <1>7 DEF WorkerRun, queueVars, tableVars
  <2>2. taken \in 1..Len(log) /\ log[taken] \in Jobs
    BY <1>7, BusyJob DEF WorkerRun, Busy
  <2> DEFINE job == log[taken]
             own == [storage |-> job.storage, tenant |-> job.tenant]
  <2>3. \A d \in descriptors' : d \in descriptors \/ (d = own /\ job.op \in LookupOps)
    BY <1>7, <2>2, OutcomeType DEF WorkerRun
  <2>4. job.op \in LookupOps => own.storage \in 1..Len(torrents)
    BY <2>2
  <2> HIDE DEF own
  <2>5. \A d \in descriptors' : d.storage \in 1..Len(torrents)
    BY <2>3, <2>4
  <2> QED BY <2>1, <2>5
<1> QED BY <1>1, <1>2, <1>3, <1>4, <1>5, <1>6, <1>7, ReuseCases

LEMMA ClosedNewTorrent ==
    ASSUME TypeOK, Control, FreeListExact, InTable, Closed,
           NEW t \in Tenants, NewTorrent(t)
    PROVE  Closed'
<1> USE DEF Closed
<1>1. log' = log /\ taken' = taken /\ worker' = worker /\ descriptors' = descriptors
  BY DEF NewTorrent, queueVars, threadVars
<1>2. ClosedBetween' /\ ClosedBefore' /\ NoForeignDescriptor'
  BY <1>1 DEF ClosedBetween, ClosedBefore, NoForeignDescriptor, IsLookup, IsClose, Unrun, Busy
<1>3. PICK f \in Nat :
         /\ \A s \in 1..Len(torrents') : s \in 1..Len(torrents) \/ s = f
         /\ \A s \in 1..Len(torrents) : s # f => torrents'[s] = torrents[s]
         /\ f \in 1..Len(torrents) => torrents[f] = NoTenant
  BY NewTorrentSlots
<1>4. \A k : (Unrun(k)' <=> Unrun(k)) /\ (IsLookup(k)' <=> IsLookup(k))
  BY <1>1 DEF Unrun, IsLookup
<1>5. \A c, s : (IsClose(c, s)' <=> IsClose(c, s))
  BY <1>1 DEF Unrun, IsClose
<1>6. ASSUME NEW s \in 1..Len(torrents'), NEW d \in descriptors',
             d.storage = s, d.tenant # torrents'[s]
      PROVE  \E c \in 1..Len(log') : IsClose(c, s)'
  <2>1. s \in 1..Len(torrents) /\ d \in descriptors /\ d.tenant \in Tenants
    BY <1>1, <1>6 DEF InTable, TypeOK
  <2>2. d.tenant # torrents[s]
    BY <1>3, <1>6, <2>1
  <2>3. \E c \in 1..Len(log) : IsClose(c, s)
    BY <1>6, <2>1, <2>2 DEF ClosedSlot
  <2> QED BY <1>1, <1>5, <2>3
<1>7. ASSUME NEW s \in 1..Len(torrents'), NEW j \in 1..Len(log'), Unrun(j)', IsLookup(j)',
             log'[j].storage = s, log'[j].tenant # torrents'[s]
      PROVE  \E c \in 1..Len(log') : j < c /\ IsClose(c, s)'
  <2>1. s \in 1..Len(torrents) /\ Unrun(j) /\ IsLookup(j) /\ log[j].tenant \in Tenants
    BY <1>1, <1>4, <1>7 DEF InTable
  <2>2. log[j].tenant # torrents[s]
    BY <1>1, <1>3, <1>7, <2>1
  <2>3. \E c \in 1..Len(log) : j < c /\ IsClose(c, s)
    BY <1>1, <1>7, <2>1, <2>2 DEF ClosedSlot
  <2> QED BY <1>1, <1>5, <2>3
<1>8. ClosedSlot'
  BY <1>6, <1>7 DEF ClosedSlot
<1> QED BY <1>2, <1>8

\* What a push adds to the jobs that wait.
LEMMA GrownUnrun ==
    ASSUME TypeOK, NEW job \in Jobs, Grown(job), taken' = taken, worker' = worker,
           NEW n \in Nat, n = Len(log)
    PROVE  /\ \A k \in 1..n : /\ (Unrun(k)' <=> Unrun(k)) /\ (IsLookup(k)' <=> IsLookup(k))
                               /\ log'[k] = log[k] /\ k \in 1..Len(log')
           /\ \A s : \A c \in 1..n : (IsClose(c, s)' <=> IsClose(c, s))
           /\ n + 1 \in 1..Len(log') /\ Unrun(n + 1)' /\ log'[n + 1] = job
           /\ \A k \in 1..Len(log') : k \in 1..n \/ k = n + 1
<1>1. taken \in 0..n
  BY DEF TypeOK
<1>2. \A k \in 1..n : log'[k] = log[k] /\ k \in 1..Len(log')
  BY DEF Grown
<1>3. \A k \in 1..n : (Unrun(k)' <=> Unrun(k)) /\ (IsLookup(k)' <=> IsLookup(k))
  BY <1>2 DEF Unrun, IsLookup
<1>4. \A s : \A c \in 1..n : (IsClose(c, s)' <=> IsClose(c, s))
  BY <1>2, <1>3 DEF IsClose
<1>5. n + 1 \in 1..Len(log') /\ Unrun(n + 1)'
  BY <1>1 DEF Grown, Unrun
<1> QED BY <1>1, <1>2, <1>3, <1>4, <1>5 DEF Grown

LEMMA ClosedRemoveTorrent ==
    ASSUME TypeOK, Control, InTable, Closed, NEW s \in Numbers, RemoveTorrent(s)
    PROVE  Closed'
<1> USE DEF Closed
<1>1. /\ net = "ready" /\ taken' = taken /\ worker' = worker /\ descriptors' = descriptors
  BY DEF RemoveTorrent, threadVars
<1>2. CASE ~accepting
  <2>1. log' = log /\ taken = Len(log) /\ worker = "exited" /\ descriptors = {}
    BY <1>1, <1>2, AbortedIsQuiet DEF RemoveTorrent, Enqueue
  <2>2. ~Busy' /\ \A k : ~Unrun(k)' /\ ~Unrun(k)
    BY <1>1, <2>1 DEF Busy, Unrun, TypeOK
  <2> QED BY <1>1, <2>1, <2>2 DEF ClosedBetween, ClosedBefore, ClosedSlot, NoForeignDescriptor
<1>3. CASE accepting
  <2> DEFINE job == CloseJob(s)
  <2>0. PICK n \in Nat : n = Len(log)
    BY DEF TypeOK
  <2>1. job \in Jobs /\ job.op = "close" /\ job.storage = s /\ Grown(job)
    BY <1>3, RemoveGrown
  <2> HIDE DEF job
  <2>2. /\ \A k \in 1..n : /\ (Unrun(k)' <=> Unrun(k)) /\ (IsLookup(k)' <=> IsLookup(k))
                            /\ log'[k] = log[k] /\ k \in 1..Len(log')
        /\ \A u : \A c \in 1..n : (IsClose(c, u)' <=> IsClose(c, u))
        /\ n + 1 \in 1..Len(log') /\ Unrun(n + 1)' /\ log'[n + 1] = job
        /\ \A k \in 1..Len(log') : k \in 1..n \/ k = n + 1
    BY <1>1, <2>0, <2>1, GrownUnrun
  <2>3. ~IsLookup(n + 1)' /\ IsClose(n + 1, s)'
    BY <2>1, <2>2 DEF IsLookup, IsClose, LookupOps
  <2>4. Busy' = Busy /\ (Busy => taken \in 1..n)
    BY <1>1, <2>0, BusyJob DEF Busy
  <2>5. ClosedBetween'
    BY <2>0, <2>2, <2>3 DEF ClosedBetween
  <2>6. ClosedBefore'
    BY <1>1, <2>0, <2>2, <2>3 DEF ClosedBefore
  <2>7. NoForeignDescriptor'
    BY <1>1, <2>2, <2>4 DEF NoForeignDescriptor
  <2>8. ClosedSlot'
    <3>1. /\ Len(torrents') = Len(torrents)
          /\ \A u \in 1..Len(torrents) : u # s => torrents'[u] = torrents[u]
      BY RemoveTorrentSlots
    <3>2. ASSUME NEW u \in 1..Len(torrents'), NEW d \in descriptors',
                 d.storage = u, d.tenant # torrents'[u]
          PROVE  \E c \in 1..Len(log') : IsClose(c, u)'
      BY <1>1, <2>0, <2>2, <2>3, <3>1, <3>2 DEF ClosedSlot
    <3>3. ASSUME NEW u \in 1..Len(torrents'), NEW j \in 1..Len(log'), Unrun(j)', IsLookup(j)',
                 log'[j].storage = u, log'[j].tenant # torrents'[u]
          PROVE  \E c \in 1..Len(log') : j < c /\ IsClose(c, u)'
      <4>1. j \in 1..n /\ Unrun(j) /\ IsLookup(j) /\ log'[j] = log[j]
        BY <2>2, <2>3, <3>3
      <4>2. CASE u = s
        BY <2>2, <2>3, <4>1, <4>2
      <4>3. CASE u # s
        <5>1. \E c \in 1..n : j < c /\ IsClose(c, u)
          BY <2>0, <3>1, <3>3, <4>1, <4>3 DEF ClosedSlot
        <5> QED BY <2>2, <5>1
      <4> QED BY <4>2, <4>3
    <3> QED BY <3>2, <3>3 DEF ClosedSlot
  <2> QED BY <2>5, <2>6, <2>7, <2>8
<1> QED BY <1>2, <1>3

LEMMA ClosedQueueStep ==
    ASSUME TypeOK, Control, InTable, Closed, NEW job \in Jobs, QueueStep(job)
    PROVE  Closed'
<1> USE DEF Closed
<1>0. PICK n \in Nat : n = Len(log)
  BY DEF TypeOK
<1>1. /\ taken' = taken /\ worker' = worker /\ descriptors' = descriptors /\ torrents' = torrents
      /\ job.op # "close" /\ Grown(job)
  BY GrownLog DEF QueueStep, threadVars, tableVars
<1>2. /\ \A k \in 1..n : /\ (Unrun(k)' <=> Unrun(k)) /\ (IsLookup(k)' <=> IsLookup(k))
                          /\ log'[k] = log[k] /\ k \in 1..Len(log')
      /\ \A u : \A c \in 1..n : (IsClose(c, u)' <=> IsClose(c, u))
      /\ n + 1 \in 1..Len(log') /\ Unrun(n + 1)' /\ log'[n + 1] = job
      /\ \A k \in 1..Len(log') : k \in 1..n \/ k = n + 1
  BY <1>0, <1>1, GrownUnrun
<1>3. IsLookup(n + 1)' => /\ job.storage \in 1..Len(torrents)
                          /\ job.tenant = torrents[job.storage]
  BY <1>2 DEF IsLookup, QueueStep
<1>4. Busy' = Busy /\ (Busy => taken \in 1..n)
  BY <1>0, <1>1, BusyJob DEF Busy
<1>5. ASSUME NEW j \in 1..Len(log'), NEW k \in 1..Len(log'), j < k,
             Unrun(j)', IsLookup(j)', IsLookup(k)',
             log'[j].storage = log'[k].storage, log'[j].tenant # log'[k].tenant
      PROVE  \E c \in 1..Len(log') : j < c /\ c < k /\ IsClose(c, log[k].storage)'
  <2>1. j \in 1..n /\ Unrun(j) /\ IsLookup(j) /\ log'[j] = log[j]
    BY <1>2, <1>5
  <2>2. CASE k \in 1..n
    <3>1. \E c \in 1..n : j < c /\ c < k /\ IsClose(c, log[k].storage)
      BY <1>0, <1>2, <1>5, <2>1, <2>2 DEF ClosedBetween
    <3> QED BY <1>2, <2>2, <3>1
  <2>3. CASE k = n + 1
    <3>1. \E c \in 1..n : j < c /\ IsClose(c, job.storage)
      BY <1>0, <1>2, <1>3, <1>5, <2>1, <2>3 DEF ClosedSlot
    <3> QED BY <1>2, <2>3, <3>1
  <2> QED BY <1>2, <2>2, <2>3
<1>6. ASSUME NEW d \in descriptors', NEW k \in 1..Len(log'), Unrun(k)', IsLookup(k)',
             d.storage = log'[k].storage, d.tenant # log'[k].tenant
      PROVE  \E c \in 1..Len(log') : c < k /\ IsClose(c, log[k].storage)'
  <2>1. CASE k \in 1..n
    <3>1. \E c \in 1..n : c < k /\ IsClose(c, log[k].storage)
      BY <1>0, <1>1, <1>2, <1>6, <2>1 DEF ClosedBefore
    <3> QED BY <1>2, <2>1, <3>1
  <2>2. CASE k = n + 1
    <3>1. \E c \in 1..n : IsClose(c, job.storage)
      BY <1>0, <1>1, <1>2, <1>3, <1>6, <2>2 DEF ClosedSlot
    <3> QED BY <1>2, <2>2, <3>1
  <2> QED BY <1>2, <2>1, <2>2
<1>7. ASSUME NEW s \in 1..Len(torrents), NEW d \in descriptors,
             d.storage = s, d.tenant # torrents[s]
      PROVE  \E c \in 1..Len(log') : IsClose(c, s)'
  <2>1. \E c \in 1..n : IsClose(c, s)
    BY <1>0, <1>7 DEF ClosedSlot
  <2> QED BY <1>2, <2>1
<1>8. ASSUME NEW s \in 1..Len(torrents), NEW j \in 1..Len(log'), Unrun(j)', IsLookup(j)',
             log'[j].storage = s, log'[j].tenant # torrents[s]
      PROVE  \E c \in 1..Len(log') : j < c /\ IsClose(c, s)'
  <2>1. j \in 1..n
    BY <1>2, <1>3, <1>8
  <2>2. \E c \in 1..n : j < c /\ IsClose(c, s)
    BY <1>0, <1>2, <1>8, <2>1 DEF ClosedSlot
  <2> QED BY <1>2, <2>2
<1>9. NoForeignDescriptor'
  BY <1>1, <1>2, <1>4 DEF NoForeignDescriptor
<1>10. ClosedBetween' /\ ClosedBefore'
  BY <1>5, <1>6 DEF ClosedBetween, ClosedBefore
<1>11. ClosedSlot'
  BY <1>1, <1>7, <1>8 DEF ClosedSlot
<1> QED BY <1>9, <1>10, <1>11

\* The worker pops a job: were a foreign descriptor open, a job to close it
\* would stand before this one, which is the first.
LEMMA ClosedTake ==
    ASSUME TypeOK, Control, InTable, Closed, WorkerTake
    PROVE  Closed'
<1> USE DEF Closed
<1>1. /\ worker = "check" /\ worker' = "run" /\ taken' = taken + 1 /\ taken \in Nat
      /\ log' = log /\ descriptors' = descriptors /\ torrents' = torrents
      /\ taken + 1 \in 1..Len(log) /\ Len(log) \in Nat
  BY DEF WorkerTake, tableVars, TypeOK, QueueEmpty
<1>2. \A k : (Unrun(k)' <=> Unrun(k)) /\ (IsLookup(k)' <=> IsLookup(k))
  BY <1>1 DEF Unrun, IsLookup
<1>3. \A c, s : IsClose(c, s)' <=> IsClose(c, s)
  BY <1>1, <1>2 DEF IsClose
<1>4. ClosedBetween' /\ ClosedBefore' /\ ClosedSlot'
  BY <1>1, <1>2, <1>3 DEF ClosedBetween, ClosedBefore, ClosedSlot
<1>5. \A c \in 1..Len(log) : c < taken + 1 => ~Unrun(c)
  BY <1>1 DEF Unrun
<1>6. Unrun(taken + 1)
  BY <1>1 DEF Unrun
<1>7. ASSUME NEW d \in descriptors, log[taken + 1].op \in LookupOps,
             d.storage = log[taken + 1].storage
      PROVE  d.tenant = log[taken + 1].tenant
  BY <1>1, <1>5, <1>6, <1>7 DEF ClosedBefore, IsLookup, IsClose
<1>8. NoForeignDescriptor'
  BY <1>1, <1>7 DEF NoForeignDescriptor
<1> QED BY <1>4, <1>8

\* The worker executes a job: one that opens files is followed by a close job
\* before any job of another torrent, and a close job leaves nothing to close.
LEMMA ClosedRun ==
    ASSUME TypeOK, Control, InTable, Closed, WorkerRun
    PROVE  Closed'
<1> USE DEF Closed
<1>0. PICK m \in Nat : m = taken
  BY DEF TypeOK
<1> DEFINE job == log[m]
           own == [storage |-> job.storage, tenant |-> job.tenant]
<1>1. /\ worker = "run" /\ worker' = "post" /\ taken' = m
      /\ log' = log /\ torrents' = torrents
      /\ m \in 1..Len(log) /\ Len(log) \in Nat /\ job \in Jobs
  BY <1>0, BusyJob DEF WorkerRun, queueVars, tableVars, TypeOK, Busy
<1>2. \A k : (Unrun(k)' <=> Unrun(k) /\ k # m) /\ (IsLookup(k)' <=> IsLookup(k))
  BY <1>0, <1>1 DEF Unrun, IsLookup
<1>3. Unrun(m) /\ \A k : Unrun(k) => m <= k
  BY <1>0, <1>1 DEF Unrun
<1>4. \A c, s : IsClose(c, s)' <=> IsClose(c, s) /\ c # m
  BY <1>1, <1>2 DEF IsClose
<1>5. \A d \in descriptors' : d \in descriptors \/ (d = own /\ job.op \in LookupOps)
  BY <1>0, <1>1, OutcomeType DEF WorkerRun
<1>6. job.op = "close" => \A d \in descriptors' : d \in descriptors /\ d.storage # job.storage
  BY <1>0 DEF WorkerRun, Outcome, CloseStorage
<1>7. own.storage = job.storage /\ own.tenant = job.tenant
  OBVIOUS
<1> HIDE DEF own
<1>8. NoForeignDescriptor'
  BY <1>0, <1>1, <1>5, <1>7 DEF NoForeignDescriptor, Busy
<1>9. ClosedBetween'
  <2> SUFFICES ASSUME NEW j \in 1..Len(log), NEW k \in 1..Len(log), j < k,
                      Unrun(j)', IsLookup(j), IsLookup(k),
                      log[j].storage = log[k].storage, log[j].tenant # log[k].tenant
               PROVE  \E c \in 1..Len(log) : j < c /\ c < k /\ IsClose(c, log[k].storage)'
    BY <1>1, <1>2 DEF ClosedBetween
  <2>1. Unrun(j) /\ m < j
    BY <1>1, <1>2, <1>3
  <2>2. \E c \in 1..Len(log) : j < c /\ c < k /\ IsClose(c, log[k].storage)
    BY <2>1 DEF ClosedBetween
  <2> QED BY <1>1, <1>4, <2>1, <2>2
<1>10. ClosedBefore'
  <2> SUFFICES ASSUME NEW d \in descriptors', NEW k \in 1..Len(log),
                      Unrun(k)', IsLookup(k),
                      d.storage = log[k].storage, d.tenant # log[k].tenant
               PROVE  \E c \in 1..Len(log) : c < k /\ IsClose(c, log[k].storage)'
    BY <1>1, <1>2 DEF ClosedBefore
  <2>1. Unrun(k) /\ m < k
    BY <1>1, <1>2, <1>3
  <2>2. CASE d \in descriptors
    <3>1. PICK c \in 1..Len(log) : c < k /\ IsClose(c, log[k].storage)
      BY <2>1, <2>2 DEF ClosedBefore
    <3>2. c # m
      BY <1>1, <1>6, <3>1 DEF IsClose
    <3> QED BY <1>1, <1>4, <3>1, <3>2
  <2>3. CASE d = own /\ job.op \in LookupOps
    <3>1. \E c \in 1..Len(log) : m < c /\ c < k /\ IsClose(c, log[k].storage)
      BY <1>1, <1>3, <1>7, <2>1, <2>3 DEF ClosedBetween, IsLookup
    <3> QED BY <1>1, <1>4, <3>1
  <2> QED BY <1>5, <2>2, <2>3
<1>11. ASSUME NEW s \in 1..Len(torrents), NEW d \in descriptors',
              d.storage = s, d.tenant # torrents[s]
       PROVE  \E c \in 1..Len(log) : IsClose(c, s)'
  <2>1. CASE d \in descriptors
    <3>1. PICK c \in 1..Len(log) : IsClose(c, s)
      BY <1>11, <2>1 DEF ClosedSlot
    <3>2. c # m
      BY <1>1, <1>6, <1>11, <3>1 DEF IsClose
    <3> QED BY <1>4, <3>1, <3>2
  <2>2. CASE d = own /\ job.op \in LookupOps
    <3>1. \E c \in 1..Len(log) : m < c /\ IsClose(c, s)
      BY <1>1, <1>3, <1>7, <1>11, <2>2 DEF ClosedSlot, IsLookup
    <3> QED BY <1>1, <1>4, <3>1
  <2> QED BY <1>5, <2>1, <2>2
<1>12. ASSUME NEW s \in 1..Len(torrents), NEW j \in 1..Len(log), Unrun(j)', IsLookup(j),
              log[j].storage = s, log[j].tenant # torrents[s]
       PROVE  \E c \in 1..Len(log) : j < c /\ IsClose(c, s)'
  <2>1. Unrun(j) /\ m < j
    BY <1>1, <1>2, <1>3, <1>12
  <2>2. \E c \in 1..Len(log) : j < c /\ IsClose(c, s)
    BY <1>12, <2>1 DEF ClosedSlot
  <2> QED BY <1>1, <1>4, <2>1, <2>2
<1>13. ClosedSlot'
  BY <1>1, <1>2, <1>11, <1>12 DEF ClosedSlot
<1> QED BY <1>8, <1>9, <1>10, <1>13

LEMMA ClosedStep ==
    ASSUME TypeOK, Control, FreeListExact, InTable, Closed, [Next]_vars
    PROVE  Closed'
<1> USE DEF Closed, ClosedBetween, ClosedBefore, ClosedSlot, NoForeignDescriptor,
            IsLookup, IsClose, Unrun
<1>1. CASE ReuseKept
  <2>1. /\ log' = log /\ taken' = taken /\ torrents' = torrents /\ descriptors' = descriptors
        /\ \A k : (Unrun(k)' <=> Unrun(k)) /\ (IsLookup(k)' <=> IsLookup(k))
        /\ \A c, s : IsClose(c, s)' <=> IsClose(c, s)
        /\ Busy' => Busy
    BY <1>1 DEF ReuseKept
  <2> HIDE DEF Unrun, IsLookup, IsClose
  <2>2. ClosedBetween'
    BY <2>1
  <2>3. ClosedBefore'
    BY <2>1
  <2>4. ClosedSlot'
    BY <2>1
  <2>5. NoForeignDescriptor'
    BY <2>1
  <2> QED BY <2>2, <2>3, <2>4, <2>5
<1>2. CASE CloseAllStep
  <2>1. /\ log' = log /\ taken' = taken /\ torrents' = torrents /\ descriptors' = {}
        /\ (worker = "run")' = (worker = "run")
    BY <1>2 DEF CloseAllStep, AbortCloseAll, WorkerCloseAll, queueVars, tableVars
  <2> QED BY <2>1
<1> QED BY <1>1, <1>2, ReuseCases, ClosedNewTorrent, ClosedRemoveTorrent, ClosedQueueStep,
           ClosedTake, ClosedRun

----------------------------------------------------------------------------
(* The invariant and what follows from it. *)

LEMMA InitInv == Init => IndInv
<1> SUFFICES ASSUME Init PROVE IndInv
  OBVIOUS
<1> USE DEF Init
<1>0. /\ 1..Len(log) = {} /\ 1..Len(torrents) = {} /\ 1..Len(freeStorage) = {}
      /\ 1..Len(posted) = {} /\ 1..taken = {} /\ 1..requests = {} /\ Len(log) = 0
      /\ worker = "check" /\ descriptors = {}
  BY EmptySeq
<1>1. TypeOK
  <2>1. /\ torrents \in Seq(Tenants \cup {NoTenant}) /\ freeStorage \in Seq(Nat)
        /\ log \in Seq(Jobs) /\ posted \in Seq(Nat)
    BY EmptySeq
  <2>2. taken \in 0..Len(log)
    BY <1>0
  <2> QED BY <2>1, <2>2 DEF TypeOK
<1>2. Handlers
  BY <1>0 DEF Handlers, Control, LogOrder, PostedOrder, HandlerPostedOnce, NoRequestLost,
         ReleaseIsFence, Busy, QueueEmpty
<1>3. InTable /\ Closed
  BY <1>0, Zenon DEF InTable, Closed, ClosedBetween, ClosedBefore, ClosedSlot,
         NoForeignDescriptor, Busy
<1>4. Table
  BY <1>0, Zenon DEF Table, LiveCreated, FreeListExact
<1> QED BY <1>1, <1>2, <1>3, <1>4 DEF IndInv

LEMMA StepInv == IndInv /\ [Next]_vars => IndInv'
<1> SUFFICES ASSUME IndInv, [Next]_vars PROVE IndInv'
  OBVIOUS
<1>1. /\ TypeOK /\ Control /\ LogOrder /\ PostedOrder /\ HandlerPostedOnce /\ NoRequestLost
      /\ ReleaseIsFence /\ InTable /\ Closed /\ LiveCreated /\ FreeListExact
  BY DEF IndInv, Handlers, Table
<1>2. TypeOK'
  BY <1>1, TypeStep
<1>3. Handlers'
  BY <1>1, ControlStep, LogOrderStep, PostedStep, NoRequestLostStep, FenceStep DEF Handlers
<1>4. InTable' /\ Closed'
  BY <1>1, InTableStep, ClosedStep
<1>5. Table'
  BY <1>1, TableStep DEF Table
<1> QED BY <1>2, <1>3, <1>4, <1>5 DEF IndInv

\* abort() sets the flags before it joins and the worker leaves its loop on an
\* empty queue only: what the session was owed has been posted.
LEMMA DrainedFromInv == IndInv => DrainedAtAbort
<1> SUFFICES ASSUME IndInv, ~joinable, net = "ready"
             PROVE  /\ QueueEmpty /\ ~Busy /\ descriptors = {}
                    /\ \A r \in 1..requests : IsPosted(r)
  BY DEF DrainedAtAbort
<1>1. QueueEmpty /\ worker = "exited" /\ descriptors = {}
  BY DEF IndInv, Handlers, Control
<1>2. Len(log) \in Nat
  BY DEF IndInv, TypeOK
<1>3. \A r \in 1..requests : IsPosted(r)
  BY <1>1, <1>2 DEF IndInv, Handlers, NoRequestLost, IsRunning, IsQueued, QueueEmpty
<1> QED BY <1>1, <1>3 DEF Busy

\* The inductive invariant holds in every behaviour, for any set of torrents,
\* any kinds of request and any number of them.
THEOREM Invariance == Spec => []IndInv
<1>1. Init => IndInv
  BY InitInv
<1>2. IndInv /\ [Next]_vars => IndInv'
  BY StepInv
<1> QED BY <1>1, <1>2, PTL DEF Spec

\* Variables keep their types: new_torrent never writes outside the table and
\* the worker never reads a job it did not pop.
THEOREM TypeCorrect == Spec => []TypeOK
<1>1. IndInv => TypeOK
  BY DEF IndInv
<1> QED BY <1>1, Invariance, PTL

\* Every handler is posted at most once, with abort() and remove_torrent() at
\* any moment.
THEOREM HandlersPostedOnce == Spec => []HandlerPostedOnce
<1>1. IndInv => HandlerPostedOnce
  BY DEF IndInv, Handlers
<1> QED BY <1>1, Invariance, PTL

\* abort() returns on a drained queue with every descriptor closed.
THEOREM AbortDrains == Spec => []DrainedAtAbort
<1> QED BY DrainedFromInv, Invariance, PTL

\* release_files and stop_torrent are fences for all earlier requests.
THEOREM ReleaseFences == Spec => []ReleaseIsFence
<1>1. IndInv => ReleaseIsFence
  BY DEF IndInv, Handlers
<1> QED BY <1>1, Invariance, PTL

\* A storage number that is reused never exposes a former tenant's descriptor
\* to a job of the new one.
THEOREM ReuseIsSafe == Spec => []NoForeignDescriptor
<1>1. IndInv => NoForeignDescriptor
  BY DEF IndInv, Closed
<1> QED BY <1>1, Invariance, PTL

\* The free list is exact, so new_torrent never hands out a number in use.
THEOREM FreeListCorrect == Spec => []FreeListExact
<1>1. IndInv => FreeListExact
  BY DEF IndInv, Table
<1> QED BY <1>1, Invariance, PTL

\* No handler is lost, with abort() and remove_torrent() at any moment: one that
\* is not posted yet belongs to a job that is queued or running.
THEOREM NoneLost == Spec => []NoRequestLost
<1>1. IndInv => NoRequestLost
  BY DEF IndInv, Handlers
<1> QED BY <1>1, Invariance, PTL

----------------------------------------------------------------------------
(* The queue implements the service. *)

\* What the session waits for and what it was given, as Service sees them.
Outstanding == {r \in 1..requests : ~IsPosted(r)}
Answered == {posted[p] : p \in 1..Len(posted)}

\* A handler that is posted leaves the first set and enters the second.
LEMMA AnsweredGrows ==
    ASSUME TypeOK, NEW r \in Nat, PostedGrown(r)
    PROVE  /\ Answered' = Answered \cup {r}
           /\ \A x : IsPosted(x)' <=> IsPosted(x) \/ x = r
<1>0. Len(posted) \in Nat
  BY DEF TypeOK
<1>1. \A x : IsPosted(x)' <=> IsPosted(x) \/ x = r
  BY <1>0 DEF IsPosted, PostedGrown
<1>2. \A x : x \in Answered <=> IsPosted(x)
  BY DEF Answered, IsPosted
<1>3. \A x : x \in Answered' <=> IsPosted(x)'
  BY DEF Answered, IsPosted
<1> QED BY <1>1, <1>2, <1>3

\* A request that the session has not made is neither waited for nor answered.
LEMMA NextIsNew ==
    ASSUME TypeOK, PostedOrder
    PROVE  ~IsPosted(requests + 1) /\ requests + 1 \notin Outstanding \cup Answered
<1>1. requests \in Nat
  BY DEF TypeOK
<1> QED BY <1>1 DEF PostedOrder, IsPosted, Outstanding, Answered

\* The bound on the number of requests is never exceeded.
LEMMA RequestBound ==
    ASSUME TypeOK, [Next]_vars
    PROVE  requests' = requests \/ (requests' = requests + 1 /\ requests < MaxRequests)
<1> USE DEF queueVars
<1>1. ASSUME NEW t \in Tenants, NewTorrent(t) PROVE requests' = requests
  BY <1>1 DEF NewTorrent
<1>2. ASSUME NEW s \in Numbers, RemoveTorrent(s) PROVE requests' = requests
  BY <1>2 DEF RemoveTorrent
<1>3. ASSUME NEW op \in Ops, NEW s \in Numbers, LookupRequest(op, s) \/ PlainRequest(op, s)
      PROVE  requests' = requests + 1 /\ requests < MaxRequests
  BY <1>3 DEF LookupRequest, PlainRequest, Request
<1>4. CASE SubmitJobs \/ Abort
  BY <1>4 DEF SubmitJobs, Abort, AbortFlag, AbortNotify, AbortJoin, AbortCloseAll
<1>5. CASE Worker \/ WorkerSpuriousWake
  BY <1>5 DEF Worker, WorkerTake, WorkerLeave, WorkerWait, WorkerWake, WorkerSpuriousWake,
       WorkerRun, WorkerPost, WorkerCloseAll
<1>6. CASE UNCHANGED vars
  BY <1>6 DEF vars
<1> QED BY <1>1, <1>2, <1>3, <1>4, <1>5, <1>6 DEF Next

\* The requests made are ones Service knows.
Bound == requests <= MaxRequests

\* A request that is queued is asked: abort() has not been called, so the back
\* end is open.
LEMMA QueueAsks ==
    ASSUME TypeOK, Control, PostedOrder, NEW job \in Jobs, QueueStep(job), Bound'
    PROVE  \E r \in 1..MaxRequests : Service!Ask(r)
<1>0. PICK r \in 1..MaxRequests : r = requests + 1 /\ requests \in Nat
  BY DEF TypeOK, QueueStep, Bound
<1>1. requests' = r /\ posted' = posted /\ joinable' = joinable /\ joinable
  BY <1>0 DEF QueueStep, threadVars, Control, TypeOK
<1>2. \A x : IsPosted(x)' <=> IsPosted(x)
  BY <1>1 DEF IsPosted
<1>3. Outstanding' = Outstanding \cup {r} /\ Answered' = Answered
  BY <1>0, <1>1, <1>2, NextIsNew DEF Outstanding, Answered
<1>4. Service!Ask(r)
  BY <1>0, <1>1, <1>3, NextIsNew DEF Service!Ask, Service!IsNew, Outstanding, Answered
<1> QED BY <1>4

\* The aborted answer, and the answer to an unknown storage, come at once.
LEMMA AnswerStepAnswers ==
    ASSUME TypeOK, PostedOrder, AnswerStep, Bound'
    PROVE  \E r \in 1..MaxRequests : Service!AnswerAtOnce(r)
<1>0. PICK r \in 1..MaxRequests : r = requests + 1 /\ requests \in Nat
  BY DEF TypeOK, AnswerStep, Bound
<1>1. requests' = r /\ joinable' = joinable /\ PostedGrown(r)
  BY <1>0, GrownPosted DEF AnswerStep, threadVars
<1>2. Answered' = Answered \cup {r} /\ \A x : IsPosted(x)' <=> IsPosted(x) \/ x = r
  BY <1>0, <1>1, AnsweredGrows
<1>3. Outstanding' = Outstanding
  BY <1>0, <1>1, <1>2 DEF Outstanding
<1>4. Service!AnswerAtOnce(r)
  BY <1>0, <1>1, <1>2, <1>3, NextIsNew DEF Service!AnswerAtOnce, Service!IsNew, Outstanding, Answered
<1> QED BY <1>4

\* The worker posts the handler of a request that waits for it.
LEMMA PostAnswers ==
    ASSUME TypeOK, Control, LogOrder, PostedOrder, WorkerPost, log[taken].op # "close", Bound
    PROVE  \E r \in 1..MaxRequests : Service!Answer(r)
<1>1. taken \in 1..Len(log) /\ log[taken] \in Jobs /\ Busy
  BY BusyJob DEF WorkerPost, Busy
<1>2. PICK r \in 1..MaxRequests : r = log[taken].request /\ r \in 1..requests /\ requests \in Nat
  <2>1. log[taken].request \in 1..requests /\ requests \in Nat
    BY <1>1 DEF LogOrder, TypeOK
  <2> QED BY <2>1 DEF Bound
<1>3. PostedGrown(r) /\ requests' = requests /\ joinable' = joinable
  BY <1>2, GrownPosted DEF WorkerPost
<1>4. ~IsPosted(r)
  BY <1>1, <1>2 DEF PostedOrder, Pending, IsPosted
<1>5. Answered' = Answered \cup {r} /\ \A x : IsPosted(x)' <=> IsPosted(x) \/ x = r
  BY <1>2, <1>3, AnsweredGrows
<1>6. r \in Outstanding /\ Outstanding' = Outstanding \ {r}
  BY <1>2, <1>3, <1>4, <1>5 DEF Outstanding
<1>7. Service!Answer(r)
  BY <1>3, <1>5, <1>6 DEF Service!Answer, Outstanding, Answered
<1> QED BY <1>7

\* abort() joins a worker that has left its loop: nothing is owed any more.
LEMMA JoinCloses ==
    ASSUME TypeOK, Control, NoRequestLost, AbortJoin
    PROVE  Service!Close \/ UNCHANGED Service!vars
<1>1. worker = "exited" /\ QueueEmpty /\ Len(log) \in Nat
  BY DEF AbortJoin, Control, TypeOK
<1>2. requests' = requests /\ posted' = posted /\ joinable' = FALSE /\ joinable \in BOOLEAN
  BY DEF AbortJoin, queueVars, TypeOK
<1>3. \A r \in 1..requests : IsPosted(r)
  BY <1>1 DEF NoRequestLost, IsRunning, IsQueued, QueueEmpty
<1>4. \A x : IsPosted(x)' <=> IsPosted(x)
  BY <1>2 DEF IsPosted
<1>5. Outstanding = {} /\ Outstanding' = {} /\ Answered' = Answered
  BY <1>2, <1>3, <1>4 DEF Outstanding, Answered
<1>6. CASE joinable
  BY <1>2, <1>5, <1>6 DEF Service!Close, Outstanding, Answered
<1>7. CASE ~joinable
  BY <1>2, <1>5, <1>7 DEF Service!vars, Outstanding, Answered
<1> QED BY <1>6, <1>7

\* A step that makes no request, posts no handler and joins no worker is none
\* of Service's.
LEMMA ServiceStutters ==
    ASSUME UNCHANGED <<requests, posted, joinable>>
    PROVE  UNCHANGED Service!vars
<1>1. \A x : IsPosted(x)' <=> IsPosted(x)
  BY DEF IsPosted
<1>2. Outstanding' = Outstanding /\ Answered' = Answered
  BY <1>1 DEF Outstanding, Answered
<1> QED BY <1>2 DEF Service!vars, Outstanding, Answered

LEMMA ServiceStep ==
    ASSUME IndInv, [Next]_vars, Bound, Bound'
    PROVE  [Service!Next]_(Service!vars)
<1>0. TypeOK /\ Control /\ LogOrder /\ PostedOrder /\ NoRequestLost
  BY DEF IndInv, Handlers
<1> USE DEF queueVars, threadVars
<1>1. ASSUME NEW t \in Tenants, NewTorrent(t) PROVE UNCHANGED Service!vars
  BY <1>1, ServiceStutters DEF NewTorrent
<1>2. ASSUME NEW s \in Numbers, RemoveTorrent(s) PROVE UNCHANGED Service!vars
  BY <1>2, ServiceStutters DEF RemoveTorrent
<1>3. ASSUME NEW job \in Jobs, QueueStep(job) PROVE Service!Next
  BY <1>0, <1>3, QueueAsks DEF Service!Next
<1>4. CASE AnswerStep
  BY <1>0, <1>4, AnswerStepAnswers DEF Service!Next
<1>5. CASE ThreadStep /\ ~AbortJoin
  <2>1. UNCHANGED <<requests, posted, joinable>>
    BY <1>5 DEF ThreadStep, SubmitJobs, AbortFlag, AbortNotify, WorkerLeave,
         WorkerWait, WorkerWake, WorkerSpuriousWake, vars
  <2> QED BY <2>1, ServiceStutters
<1>6. CASE AbortJoin
  BY <1>0, <1>6, JoinCloses DEF Service!Next
<1>7. CASE CloseAllStep \/ WorkerTake \/ WorkerRun
  <2>1. UNCHANGED <<requests, posted, joinable>>
    BY <1>7 DEF CloseAllStep, AbortCloseAll, WorkerCloseAll, WorkerTake, WorkerRun
  <2> QED BY <2>1, ServiceStutters
<1>8. CASE WorkerPost
  <2>1. CASE log[taken].op = "close"
    BY <1>8, <2>1, ServiceStutters DEF WorkerPost
  <2>2. CASE log[taken].op # "close"
    BY <1>0, <1>8, <2>2, PostAnswers DEF Service!Next
  <2> QED BY <2>1, <2>2
<1> QED BY <1>0, <1>1, <1>2, <1>3, <1>4, <1>5, <1>6, <1>7, <1>8, StepCases

\* The queue, the worker and abort() implement the service the session is
\* promised: a request is answered once, at once or later; the back end closes
\* when it owes no answer, and a closed one answers at once.
THEOREM QueueImplementsService == Spec => ImplementsService
<1>1. Init => Service!Init
  <2> SUFFICES ASSUME Init PROVE Service!Init
    OBVIOUS
  <2>1. 1..requests = {} /\ 1..Len(posted) = {} /\ joinable = TRUE
    BY EmptySeq DEF Init
  <2> QED BY <2>1 DEF Service!Init
<1>2. Init => Bound
  BY DEF Init, Bound
<1>3. IndInv /\ Bound /\ [Next]_vars => Bound'
  BY RequestBound DEF IndInv, TypeOK, Bound
<1>4. IndInv /\ Bound /\ Bound' /\ [Next]_vars => [Service!Next]_(Service!vars)
  BY ServiceStep
<1> QED BY <1>1, <1>2, <1>3, <1>4, Invariance, PTL DEF Spec, ImplementsService, Service!Spec
=============================================================================
