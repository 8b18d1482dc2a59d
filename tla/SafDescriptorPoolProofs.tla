----------------------- MODULE SafDescriptorPoolProofs -----------------------
(***************************************************************************)
(* Proofs that the descriptor cache neither leaks nor double-closes, that  *)
(* no thread closes or renames what a job is reading or writing, and that  *)
(* the cache stays within its limit, for any torrents, files, descriptors  *)
(* and settings.                                                           *)
(***************************************************************************)
EXTENDS SafDescriptorPool, FiniteSetTheorems, TLAPS

Entries == [storage : Storages, file : Keys, path : AllPaths, fd : Fds,
            writable : BOOLEAN, used : Nat]

Types ==
    /\ cache \subseteq Entries /\ IsFiniteSet(cache)
    /\ uses \in Nat
    /\ limit \in Nat /\ 1 <= limit /\ peak \in Nat /\ limit <= peak
    /\ path \in [Storages -> [Keys -> AllPaths]]
    /\ scoped \subseteq Fds
    /\ worker \in {"waiting", "transfer", "copy", "ended"}
    /\ call \in [phase : {"idle", "evict", "open"}, request : Request \cup {NoRequest}]
    /\ call.phase # "idle" => call.request \in Request

\* A use count names one entry: evict_one finds one least last_use.
UsesDiffer ==
    /\ \A d \in cache : d.used <= uses
    /\ \A d, e \in cache : d.used = e.used => d = e

\* What the worker does at one moment: it is inside open_file or uses what it
\* returned only in a transfer, and never both at once; it holds descriptors of
\* its own only in a copy.  Between two jobs and after the last it does none.
OneThingAtATime ==
    /\ call.phase # "idle" => worker = "transfer" /\ using = Nothing
    /\ using # Nothing => worker = "transfer"
    /\ scoped # {} => worker = "copy"

\* Inside open_file: none of the file asked for is cached, by whatever name it
\* was opened.
MissIsMiss ==
    call.phase # "idle" =>
        \A d \in cache : ~(d.storage = call.request.storage /\ d.file = call.request.file)

\* After the eviction loop there is room below the largest limit so far.
RoomBelowPeak ==
    /\ Cardinality(cache) <= peak
    /\ call.phase = "open" => Cardinality(cache) < peak

IndInv ==
    /\ Types /\ UsesDiffer /\ OneThingAtATime /\ MissIsMiss /\ RoomBelowPeak
    /\ DescriptorsOwnedOnce /\ DescriptorInUseIsGood /\ OneDescriptorPerFile /\ PoolBounded
----------------------------------------------------------------------------
(* The cases of a step. *)

USE PoolAssumption

\* A job that closes entries before it renames what they were opened for, the
\* end of the worker, or what abort() closes after it.
CloseStep ==
    /\ worker \in {"waiting", "ended"} /\ worker' \in {worker, "ended"}
    /\ \E E \in SUBSET cache :
         /\ Drop(E)
         /\ \A d \in cache \ E : path'[d.storage][d.file] = path[d.storage][d.file]
    /\ path' \in [Storages -> [Keys -> AllPaths]]
    /\ UNCHANGED <<uses, limit, scoped, call, using, peak, steady>>

LEMMA CloseCases ==
    ASSUME Types,
           \/ \E s \in Storages : CloseStorage(s)
           \/ \E s \in Storages, k \in Keys : CloseFile(s, k)
           \/ \E s \in Storages, k \in Files, p \in Paths : RenameFile(s, k, p)
           \/ \E s \in Storages, names \in [Files -> Paths] : MoveStorage(s, names)
           \/ WorkerEnds \/ AbortClose
    PROVE  CloseStep
<1> USE DEF Types, CloseStep, Entries, TakesJob
<1>1. ASSUME NEW s, CloseStorage(s) PROVE CloseStep
  <2>1. OfStorage(s) \in SUBSET cache
    BY DEF OfStorage
  <2> QED BY <1>1, <2>1 DEF CloseStorage
<1>2. ASSUME NEW s, NEW k, CloseFile(s, k) PROVE CloseStep
  BY <1>2 DEF CloseFile, OfFile
<1>3. ASSUME NEW s \in Storages, NEW k \in Files, NEW p \in Paths, RenameFile(s, k, p) PROVE CloseStep
  <2>1. \A d \in cache \ OfFile(s, k) : path'[d.storage][d.file] = path[d.storage][d.file]
    BY <1>3 DEF RenameFile, OfFile
  <2>2. path' \in [Storages -> [Keys -> AllPaths]]
    <3>1. k \in Keys /\ p \in AllPaths
      BY DEF Keys, AllPaths
    <3>2. [path EXCEPT ![s][k] = p] \in [Storages -> [Keys -> AllPaths]]
      BY <3>1
    <3> QED BY <1>3, <3>2 DEF RenameFile
  <2>3. OfFile(s, k) \in SUBSET cache
    BY DEF OfFile
  <2> QED BY <1>3, <2>1, <2>2, <2>3 DEF RenameFile
<1>4. ASSUME NEW s \in Storages, NEW names \in [Files -> Paths], MoveStorage(s, names) PROVE CloseStep
  <2>1. \A d \in cache \ OfStorage(s) : path'[d.storage][d.file] = path[d.storage][d.file]
    BY <1>4 DEF MoveStorage, OfStorage
  <2>2. path' \in [Storages -> [Keys -> AllPaths]]
    <3>1. [k \in Keys |-> IF k = Part THEN PartPath ELSE names[k]] \in [Keys -> AllPaths]
      BY DEF Keys, AllPaths
    <3> QED BY <1>4, <3>1 DEF MoveStorage
  <2>3. OfStorage(s) \in SUBSET cache
    BY DEF OfStorage
  <2> QED BY <1>4, <2>1, <2>2, <2>3 DEF MoveStorage
<1>5. CASE WorkerEnds \/ AbortClose
  <2>1. cache \in SUBSET cache /\ path' = path
    BY <1>5 DEF WorkerEnds, AbortClose
  <2> QED BY <1>5, <2>1 DEF WorkerEnds, AbortClose
<1> QED BY <1>1, <1>2, <1>3, <1>4, <1>5

LEMMA StepCases ==
    ASSUME Types, [Next]_vars
    PROVE  \/ CloseStep
           \/ \E r \in Request : OpenHit(r) \/ OpenMiss(r)
           \/ EvictOne \/ EvictDone
           \/ \E fd \in Fds : BridgeOpen(fd)
           \/ BridgeOpenFails \/ SliceDone \/ TransferReturns
           \/ \E fd \in Fds, p \in AllPaths, w \in BOOLEAN : ScopedOpen(fd, p, w)
           \/ ScopedClose
           \/ \E n \in PoolSizes : SettingsUpdated(n)
           \/ UNCHANGED vars
<1> QED BY CloseCases DEF Next, Open

----------------------------------------------------------------------------
(* What closing and opening do to the kernel's table. *)

\* Entries that are erased and closed: the others keep their descriptors,
\* because no two entries hold the same one.
LEMMA DropOwned ==
    ASSUME DescriptorsOwnedOnce, NEW E \in SUBSET cache, Drop(E), scoped' = scoped
    PROVE  /\ DescriptorsOwnedOnce'
           /\ \A fd \in DOMAIN kernel' : fd \in DOMAIN kernel /\ kernel'[fd] = kernel[fd]
<1>1. /\ cache' = cache \ E
      /\ DOMAIN kernel' = (DOMAIN kernel) \ CachedFds(E)
      /\ \A fd \in DOMAIN kernel' : kernel'[fd] = kernel[fd]
  BY DEF Drop, KernelWithout
<1>2. CachedFds(cache') = CachedFds(cache) \ CachedFds(E)
  BY <1>1 DEF DescriptorsOwnedOnce, CachedFds
<1>3. CachedFds(E) \subseteq CachedFds(cache)
  BY DEF CachedFds
<1>4. \A d \in cache' : d \in cache /\ d.fd \in CachedFds(cache')
  BY <1>1 DEF CachedFds
<1>5. \A d \in cache' : kernel'[d.fd] = [path |-> d.path, writable |-> d.writable]
  BY <1>1, <1>2, <1>3, <1>4 DEF DescriptorsOwnedOnce
<1>6. DOMAIN kernel' = CachedFds(cache') \cup scoped' /\ CachedFds(cache') \cap scoped' = {}
  BY <1>1, <1>2, <1>3 DEF DescriptorsOwnedOnce
<1> QED BY <1>1, <1>4, <1>5, <1>6 DEF DescriptorsOwnedOnce

\* A smaller cache is finite and no larger.
LEMMA SmallerCache ==
    ASSUME Types, cache' \subseteq cache
    PROVE  /\ IsFiniteSet(cache') /\ Cardinality(cache') \in Nat
           /\ Cardinality(cache') <= Cardinality(cache) /\ Cardinality(cache) \in Nat
<1>1. IsFiniteSet(cache)
  BY DEF Types
<1> QED BY <1>1, FS_Subset, FS_CardinalityType

\* The entry that open_file adds or stamps.
NewEntry(r, fd) == [storage |-> r.storage, file |-> r.file, path |-> PathOf(r),
                    fd |-> fd, writable |-> r.write, used |-> NextUse]

LEMMA NewEntryFields ==
    ASSUME Types, NEW r \in Request, NEW fd \in Fds
    PROVE  LET e == NewEntry(r, fd)
           IN  /\ e \in Entries /\ e.storage = r.storage /\ e.file = r.file /\ e.path = PathOf(r)
               /\ e.fd = fd /\ e.writable = r.write /\ e.used = uses + 1
  BY DEF Types, NewEntry, Entries, Request, PathOf, NextUse

LEMMA StampedFields ==
    ASSUME Types, NEW d \in cache
    PROVE  LET e == [d EXCEPT !.used = NextUse]
           IN  /\ e \in Entries /\ e.storage = d.storage /\ e.file = d.file /\ e.path = d.path
               /\ e.fd = d.fd /\ e.writable = d.writable /\ e.used = uses + 1
  BY DEF Types, Entries, NextUse
\* A hit stamps the entry d, which becomes e.
Stamped(r, d, e) ==
    /\ d.storage = r.storage /\ d.file = r.file /\ d.path = PathOf(r)
    /\ r.write => d.writable
    /\ e.storage = d.storage /\ e.file = d.file /\ e.path = d.path
    /\ e.fd = d.fd /\ e.writable = d.writable /\ e.used = uses + 1
    /\ cache' = (cache \ {d}) \cup {e}
    /\ using' = [fd |-> d.fd, request |-> r]
    /\ uses' = uses + 1
    /\ worker' = "transfer" /\ call.phase = "idle"
    /\ UNCHANGED <<limit, path, kernel, scoped, call, peak, steady>>

LEMMA HitEffect ==
    ASSUME Types, NEW r \in Request, OpenHit(r)
    PROVE  \E d \in cache, e \in Entries : Stamped(r, d, e)
<1>1. PICK d \in Usable(r) : /\ cache' = (cache \ {d}) \cup {[d EXCEPT !.used = NextUse]}
                             /\ using' = [fd |-> d.fd, request |-> r]
  BY DEF OpenHit
<1>2. d \in cache /\ d.storage = r.storage /\ d.file = r.file /\ d.path = PathOf(r)
      /\ (r.write => d.writable)
  BY DEF Usable, Cached
<1>3. PICK e \in Entries : /\ e = [d EXCEPT !.used = NextUse]
                           /\ e.storage = d.storage /\ e.file = d.file /\ e.path = d.path
                           /\ e.fd = d.fd /\ e.writable = d.writable /\ e.used = uses + 1
  BY <1>2, StampedFields
<1>4. /\ uses' = uses + 1 /\ worker' = "transfer" /\ call.phase = "idle"
      /\ UNCHANGED <<limit, path, kernel, scoped, call, peak, steady>>
  BY DEF OpenHit, NextUse, NextSlice
<1>5. cache' = (cache \ {d}) \cup {e}
  BY <1>1, <1>3
<1>6. Stamped(r, d, e)
  BY <1>1, <1>2, <1>3, <1>4, <1>5 DEF Stamped
<1> QED BY <1>2, <1>6

\* The bridge opens a document: one new entry e for one new descriptor.
Opened(r, e, fd) ==
    /\ r = call.request /\ fd \notin DOMAIN kernel
    /\ e.storage = r.storage /\ e.file = r.file /\ e.path = PathOf(r)
    /\ e.fd = fd /\ e.writable = r.write /\ e.used = uses + 1
    /\ cache' = cache \cup {e}
    /\ DOMAIN kernel' = DOMAIN kernel \cup {fd}
    /\ kernel'[fd] = [path |-> PathOf(r), writable |-> r.write]
    /\ \A x \in DOMAIN kernel : kernel'[x] = kernel[x]
    /\ using' = [fd |-> fd, request |-> r]
    /\ uses' = uses + 1 /\ call' = Idle
    /\ UNCHANGED <<limit, path, scoped, worker, peak, steady>>

LEMMA OpenEffect ==
    ASSUME Types, NEW fd \in Fds, BridgeOpen(fd)
    PROVE  \E r \in Request, e \in Entries : Opened(r, e, fd)
<1>1. PICK r \in Request : r = call.request
  BY DEF Types, BridgeOpen
<1>2. PICK e \in Entries : /\ e = NewEntry(r, fd)
                           /\ e.storage = r.storage /\ e.file = r.file /\ e.path = PathOf(r)
                           /\ e.fd = fd /\ e.writable = r.write /\ e.used = uses + 1
  BY NewEntryFields
<1>3. cache' = cache \cup {e}
  BY <1>1, <1>2 DEF BridgeOpen, NewEntry
<1>4. /\ fd \notin DOMAIN kernel
      /\ DOMAIN kernel' = DOMAIN kernel \cup {fd}
      /\ kernel'[fd] = [path |-> PathOf(r), writable |-> r.write]
      /\ \A x \in DOMAIN kernel : kernel'[x] = kernel[x]
  BY <1>1 DEF BridgeOpen
<1>5. /\ using' = [fd |-> fd, request |-> r]
      /\ uses' = uses + 1 /\ call' = Idle
      /\ UNCHANGED <<limit, path, scoped, worker, peak, steady>>
  BY <1>1 DEF BridgeOpen, NextUse
<1>6. Opened(r, e, fd)
  BY <1>1, <1>2, <1>3, <1>4, <1>5 DEF Opened
<1> QED BY <1>6

----------------------------------------------------------------------------
(* The parts of the invariant. *)

LEMMA TypesStep ==
    ASSUME Types, [Next]_vars
    PROVE  Types'
<1>1. CASE CloseStep
  <2>1. cache' \subseteq cache
    BY <1>1 DEF CloseStep, Drop
  <2> QED BY <1>1, <2>1, SmallerCache DEF CloseStep, Types
<1>2. ASSUME NEW r \in Request, OpenHit(r) PROVE Types'
  <2>1. PICK d \in cache, e \in Entries : Stamped(r, d, e)
    BY <1>2, HitEffect
  <2>2. IsFiniteSet(cache')
    BY <2>1, FS_RemoveElement, FS_AddElement DEF Types, Stamped
  <2>3. cache' \subseteq Entries
    BY <2>1 DEF Types, Stamped
  <2> QED BY <1>2, <2>2, <2>3 DEF OpenHit, NextUse, NextSlice, Types
<1>3. ASSUME NEW r \in Request, OpenMiss(r) PROVE Types'
  <2>1. cache' \subseteq cache
    BY <1>3 DEF OpenMiss, Drop
  <2> QED BY <1>3, <2>1, SmallerCache DEF OpenMiss, NextSlice, Types, Idle
<1>4. CASE EvictOne \/ EvictDone \/ BridgeOpenFails
  <2>1. cache' \subseteq cache
    BY <1>4 DEF EvictOne, EvictDone, BridgeOpenFails, Drop
  <2>2. /\ call' \in [phase : {"idle", "evict", "open"}, request : Request \cup {NoRequest}]
        /\ call'.phase # "idle" => call'.request = call.request /\ call.phase # "idle"
    BY <1>4 DEF EvictOne, EvictDone, BridgeOpenFails, Idle, Types
  <2> QED BY <1>4, <2>1, <2>2, SmallerCache DEF EvictOne, EvictDone, BridgeOpenFails, Types
<1>5. ASSUME NEW fd \in Fds, BridgeOpen(fd) PROVE Types'
  <2>1. PICK r \in Request, e \in Entries : Opened(r, e, fd)
    BY <1>5, OpenEffect
  <2>2. IsFiniteSet(cache')
    BY <2>1, FS_AddElement DEF Types, Opened
  <2> QED BY <2>1, <2>2 DEF Opened, Types, Idle
<1>6. ASSUME NEW fd \in Fds, NEW p \in AllPaths, NEW w \in BOOLEAN, ScopedOpen(fd, p, w) PROVE Types'
  BY <1>6 DEF ScopedOpen, Types
<1>7. CASE ScopedClose
  BY <1>7 DEF ScopedClose, Types
<1>8. ASSUME NEW n \in PoolSizes, SettingsUpdated(n) PROVE Types'
  BY <1>8 DEF SettingsUpdated, AtLeastOne, Types
<1>9. CASE SliceDone \/ TransferReturns \/ UNCHANGED vars
  BY <1>9 DEF SliceDone, TransferReturns, vars, Types
<1> QED BY <1>1, <1>2, <1>3, <1>4, <1>5, <1>6, <1>7, <1>8, <1>9, StepCases

\* ++m_use_counter stamps with a number that was never used.
LEMMA UsesStep ==
    ASSUME Types, UsesDiffer, [Next]_vars
    PROVE  UsesDiffer'
<1> USE DEF UsesDiffer, Types, Entries
<1>1. CASE CloseStep \/ EvictOne \/ EvictDone \/ BridgeOpenFails \/ ScopedClose
  BY <1>1 DEF CloseStep, EvictOne, EvictDone, BridgeOpenFails, ScopedClose, Drop
<1>2. ASSUME NEW r \in Request, OpenHit(r) PROVE UsesDiffer'
  <2>1. PICK d \in cache, e \in Entries : Stamped(r, d, e)
    BY <1>2, HitEffect
  <2> QED BY <2>1 DEF Stamped
<1>3. ASSUME NEW r \in Request, OpenMiss(r) PROVE UsesDiffer'
  BY <1>3 DEF OpenMiss, Drop
<1>4. ASSUME NEW fd \in Fds, BridgeOpen(fd) PROVE UsesDiffer'
  <2>1. PICK r \in Request, e \in Entries : Opened(r, e, fd)
    BY <1>4, OpenEffect
  <2> QED BY <2>1 DEF Opened
<1>5. ASSUME NEW fd, NEW p, NEW w, ScopedOpen(fd, p, w) PROVE UsesDiffer'
  BY <1>5 DEF ScopedOpen
<1>6. ASSUME NEW n, SettingsUpdated(n) PROVE UsesDiffer'
  BY <1>6 DEF SettingsUpdated
<1>7. CASE SliceDone \/ TransferReturns \/ UNCHANGED vars
  BY <1>7 DEF SliceDone, TransferReturns, vars
<1> QED BY <1>1, <1>2, <1>3, <1>4, <1>5, <1>6, <1>7, StepCases

\* Every close(2) goes with an erase and every erase with a close(2).
LEMMA OwnedStep ==
    ASSUME Types, DescriptorsOwnedOnce, [Next]_vars
    PROVE  DescriptorsOwnedOnce'
<1>1. CASE CloseStep
  BY <1>1, DropOwned DEF CloseStep
<1>2. ASSUME NEW r \in Request, OpenHit(r) PROVE DescriptorsOwnedOnce'
  <2>1. PICK d \in cache, e \in Entries : Stamped(r, d, e)
    BY <1>2, HitEffect
  <2>2. CachedFds(cache') = CachedFds(cache)
    BY <2>1 DEF CachedFds, Stamped
  <2>3. \A x, y \in cache' : x.fd = y.fd => x = y
    BY <2>1 DEF DescriptorsOwnedOnce, Stamped
  <2>4. \A x \in cache' : \E y \in cache : x.fd = y.fd /\ x.path = y.path /\ x.writable = y.writable
    BY <2>1 DEF Stamped
  <2>5. ASSUME NEW x \in cache' PROVE kernel[x.fd] = [path |-> x.path, writable |-> x.writable]
    <3>1. PICK y \in cache : x.fd = y.fd /\ x.path = y.path /\ x.writable = y.writable
      BY <2>4
    <3>2. kernel[y.fd] = [path |-> y.path, writable |-> y.writable]
      BY DEF DescriptorsOwnedOnce
    <3> QED BY <3>1, <3>2
  <2>6. kernel' = kernel /\ scoped' = scoped
    BY <2>1 DEF Stamped
  <2> QED BY <2>2, <2>3, <2>5, <2>6 DEF DescriptorsOwnedOnce
<1>3. ASSUME NEW r \in Request, OpenMiss(r) PROVE DescriptorsOwnedOnce'
  <2>1. Cached(r) \in SUBSET cache /\ Drop(Cached(r)) /\ scoped' = scoped
    BY <1>3 DEF OpenMiss, Cached
  <2> QED BY <2>1, DropOwned
<1>4. CASE EvictOne
  <2>1. {d \in cache : \A e \in cache : d.used <= e.used} \in SUBSET cache
    OBVIOUS
  <2> QED BY <1>4, <2>1, DropOwned DEF EvictOne
<1>5. ASSUME NEW fd \in Fds, BridgeOpen(fd) PROVE DescriptorsOwnedOnce'
  <2>1. PICK r \in Request, e \in Entries : Opened(r, e, fd)
    BY <1>5, OpenEffect
  <2> USE DEF Opened
  <2>2. CachedFds(cache') = CachedFds(cache) \cup {fd}
    BY <2>1 DEF CachedFds
  <2>3. \A d \in cache : d.fd \in DOMAIN kernel
    BY DEF DescriptorsOwnedOnce, CachedFds
  <2>4. \A x, y \in cache' : x.fd = y.fd => x = y
    BY <2>1, <2>3 DEF DescriptorsOwnedOnce
  <2>5. \A x \in cache' : kernel'[x.fd] = [path |-> x.path, writable |-> x.writable]
    BY <2>1, <2>3 DEF DescriptorsOwnedOnce
  <2>6. DOMAIN kernel' = CachedFds(cache') \cup scoped' /\ CachedFds(cache') \cap scoped' = {}
    BY ZenonT(60), <2>1, <2>2 DEF DescriptorsOwnedOnce
  <2> QED BY <2>4, <2>5, <2>6 DEF DescriptorsOwnedOnce
<1>6. ASSUME NEW fd \in Fds, NEW p \in AllPaths, NEW w \in BOOLEAN, ScopedOpen(fd, p, w)
      PROVE  DescriptorsOwnedOnce'
  <2>1. /\ fd \notin DOMAIN kernel /\ cache' = cache /\ scoped' = scoped \cup {fd}
        /\ DOMAIN kernel' = DOMAIN kernel \cup {fd}
        /\ \A x \in DOMAIN kernel : kernel'[x] = kernel[x]
    BY <1>6 DEF ScopedOpen
  <2>2. CachedFds(cache') = CachedFds(cache) /\ \A d \in cache : d.fd \in CachedFds(cache)
    BY <2>1 DEF CachedFds
  <2> QED BY <2>1, <2>2 DEF DescriptorsOwnedOnce
<1>7. CASE ScopedClose
  <2>1. /\ cache' = cache /\ scoped' = {}
        /\ DOMAIN kernel' = (DOMAIN kernel) \ scoped
        /\ \A x \in DOMAIN kernel' : kernel'[x] = kernel[x]
    BY <1>7 DEF ScopedClose, KernelWithout
  <2>2. CachedFds(cache') = CachedFds(cache) /\ \A d \in cache : d.fd \in CachedFds(cache)
    BY <2>1 DEF CachedFds
  <2> QED BY <2>1, <2>2 DEF DescriptorsOwnedOnce
<1>8. CASE \/ EvictDone \/ BridgeOpenFails \/ SliceDone \/ TransferReturns
           \/ (\E n \in PoolSizes : SettingsUpdated(n)) \/ UNCHANGED vars
  <2>1. UNCHANGED <<cache, kernel, scoped>>
    BY <1>8 DEF EvictDone, BridgeOpenFails, SliceDone, TransferReturns, SettingsUpdated, vars
  <2> QED BY <2>1 DEF DescriptorsOwnedOnce, CachedFds
<1> QED BY <1>1, <1>2, <1>3, <1>4, <1>5, <1>6, <1>7, <1>8, StepCases

\* Renames and moves close before they rename, so an entry's name is its file's.
LEMMA OnePerFileStep ==
    ASSUME Types, OneDescriptorPerFile, MissIsMiss, [Next]_vars
    PROVE  OneDescriptorPerFile'
<1> USE DEF OneDescriptorPerFile
<1>1. CASE CloseStep
  BY <1>1 DEF CloseStep, Drop
<1>2. ASSUME NEW r \in Request, OpenHit(r) PROVE OneDescriptorPerFile'
  <2>1. PICK d \in cache, e \in Entries : Stamped(r, d, e)
    BY <1>2, HitEffect
  <2> QED BY <2>1 DEF Stamped
<1>3. ASSUME NEW r \in Request, OpenMiss(r) PROVE OneDescriptorPerFile'
  BY <1>3 DEF OpenMiss, Drop
<1>4. CASE EvictOne \/ EvictDone \/ BridgeOpenFails \/ ScopedClose
  BY <1>4 DEF EvictOne, EvictDone, BridgeOpenFails, ScopedClose, Drop
<1>5. ASSUME NEW fd \in Fds, BridgeOpen(fd) PROVE OneDescriptorPerFile'
  <2>1. PICK r \in Request, e \in Entries : Opened(r, e, fd)
    BY <1>5, OpenEffect
  <2>2. \A d \in cache : ~(d.storage = r.storage /\ d.file = r.file)
    BY <1>5, <2>1 DEF MissIsMiss, BridgeOpen, Opened
  <2> QED BY <2>1, <2>2 DEF Opened, PathOf
<1>6. ASSUME NEW fd, NEW p, NEW w, ScopedOpen(fd, p, w) PROVE OneDescriptorPerFile'
  BY <1>6 DEF ScopedOpen
<1>7. CASE SliceDone \/ TransferReturns \/ (\E n \in PoolSizes : SettingsUpdated(n)) \/ UNCHANGED vars
  BY <1>7 DEF SliceDone, TransferReturns, SettingsUpdated, vars
<1> QED BY <1>1, <1>2, <1>3, <1>4, <1>5, <1>6, <1>7, StepCases

LEMMA MissStep ==
    ASSUME Types, OneDescriptorPerFile, OneThingAtATime, MissIsMiss, [Next]_vars
    PROVE  MissIsMiss'
<1> USE DEF MissIsMiss
<1>1. CASE CloseStep
  BY <1>1 DEF CloseStep, OneThingAtATime
<1>2. ASSUME NEW r \in Request, OpenHit(r) PROVE MissIsMiss'
  BY <1>2 DEF OpenHit, NextSlice
<1>3. ASSUME NEW r \in Request, OpenMiss(r) PROVE MissIsMiss'
  <2>1. \A d \in cache' : ~(d.storage = r.storage /\ d.file = r.file)
    BY <1>3 DEF OpenMiss, Drop, Cached, PathOf, OneDescriptorPerFile
  <2> QED BY <1>3, <2>1 DEF OpenMiss, Idle
<1>4. CASE EvictOne
  BY <1>4 DEF EvictOne, Drop
<1>5. CASE EvictDone
  BY <1>5 DEF EvictDone, Types
<1>6. CASE BridgeOpenFails \/ \E fd \in Fds : BridgeOpen(fd)
  <2>1. call' = Idle
    BY <1>6 DEF BridgeOpenFails, BridgeOpen
  <2> QED BY <2>1 DEF Idle
<1>7. ASSUME NEW fd, NEW p, NEW w, ScopedOpen(fd, p, w) PROVE MissIsMiss'
  BY <1>7 DEF ScopedOpen
<1>8. CASE ScopedClose
  BY <1>8 DEF ScopedClose
<1>9. CASE SliceDone \/ TransferReturns \/ (\E n \in PoolSizes : SettingsUpdated(n)) \/ UNCHANGED vars
  BY <1>9 DEF SliceDone, TransferReturns, SettingsUpdated, vars
<1> QED BY <1>1, <1>2, <1>3, <1>4, <1>5, <1>6, <1>7, <1>8, <1>9, StepCases

\* The worker is one thread: it calls open_file when it is done with what the
\* call before returned, and takes another job when it is done with the last.
LEMMA OneThingStep ==
    ASSUME Types, OneThingAtATime, [Next]_vars
    PROVE  OneThingAtATime'
<1> USE DEF OneThingAtATime
<1>1. CASE CloseStep
  BY <1>1 DEF CloseStep
<1>2. ASSUME NEW r \in Request, OpenHit(r) PROVE OneThingAtATime'
  BY <1>2 DEF OpenHit, NextSlice
<1>3. ASSUME NEW r \in Request, OpenMiss(r) PROVE OneThingAtATime'
  BY <1>3 DEF OpenMiss, NextSlice, Idle
<1>4. CASE EvictOne \/ EvictDone
  BY <1>4 DEF EvictOne, EvictDone
<1>5. CASE BridgeOpenFails \/ \E fd \in Fds : BridgeOpen(fd)
  <2>1. call.phase = "open" /\ call' = Idle /\ worker' = worker /\ scoped' = scoped
    BY <1>5 DEF BridgeOpenFails, BridgeOpen
  <2> QED BY <2>1 DEF Idle
<1>6. CASE SliceDone \/ TransferReturns
  BY <1>6 DEF SliceDone, TransferReturns
<1>7. ASSUME NEW fd, NEW p, NEW w, ScopedOpen(fd, p, w) PROVE OneThingAtATime'
  BY <1>7 DEF ScopedOpen, TakesJob
<1>8. CASE ScopedClose
  BY <1>8 DEF ScopedClose
<1>9. CASE (\E n \in PoolSizes : SettingsUpdated(n)) \/ UNCHANGED vars
  BY <1>9 DEF SettingsUpdated, vars
<1> QED BY <1>1, <1>2, <1>3, <1>4, <1>5, <1>6, <1>7, <1>8, <1>9, StepCases

\* Whatever closes or renames takes place while no descriptor is in use: between
\* two jobs, after the worker ended, in a copy, or in open_file before it returns.
LEMMA InUseStep ==
    ASSUME Types, DescriptorsOwnedOnce, OneThingAtATime, DescriptorInUseIsGood, [Next]_vars
    PROVE  DescriptorInUseIsGood'
<1> USE DEF DescriptorInUseIsGood
<1>1. CASE CloseStep \/ ScopedClose \/ EvictOne \/ EvictDone \/ BridgeOpenFails
  <2>1. using = Nothing
    BY <1>1 DEF CloseStep, ScopedClose, EvictOne, EvictDone, BridgeOpenFails, OneThingAtATime
  <2>2. using' = using
    BY <1>1 DEF CloseStep, ScopedClose, EvictOne, EvictDone, BridgeOpenFails
  <2> QED BY <2>1, <2>2 DEF Nothing
<1>2. ASSUME NEW r \in Request, OpenHit(r) PROVE DescriptorInUseIsGood'
  <2>1. PICK d \in cache, e \in Entries : Stamped(r, d, e)
    BY <1>2, HitEffect
  <2>2. d.fd \in DOMAIN kernel /\ kernel[d.fd] = [path |-> d.path, writable |-> d.writable]
    BY DEF DescriptorsOwnedOnce, CachedFds
  <2> QED BY <2>1, <2>2 DEF Stamped, PathOf
<1>3. ASSUME NEW r \in Request, OpenMiss(r) PROVE DescriptorInUseIsGood'
  BY <1>3 DEF OpenMiss, NextSlice, Nothing
<1>4. CASE SliceDone \/ TransferReturns
  BY <1>4 DEF SliceDone, TransferReturns, Nothing
<1>5. ASSUME NEW fd \in Fds, BridgeOpen(fd) PROVE DescriptorInUseIsGood'
  <2>1. PICK r \in Request, e \in Entries : Opened(r, e, fd)
    BY <1>5, OpenEffect
  <2> QED BY <2>1 DEF Opened, PathOf
<1>6. ASSUME NEW fd, NEW p, NEW w, ScopedOpen(fd, p, w) PROVE DescriptorInUseIsGood'
  <2>1. /\ using' = using /\ path' = path /\ fd \notin DOMAIN kernel
        /\ DOMAIN kernel' = DOMAIN kernel \cup {fd}
        /\ \A x \in DOMAIN kernel : kernel'[x] = kernel[x]
    BY <1>6 DEF ScopedOpen
  <2> QED BY <2>1 DEF PathOf
<1>7. CASE (\E n \in PoolSizes : SettingsUpdated(n)) \/ UNCHANGED vars
  BY <1>7 DEF SettingsUpdated, vars, PathOf
<1> QED BY <1>1, <1>2, <1>3, <1>4, <1>5, <1>6, <1>7, StepCases

\* A stamp replaces an entry, so it does not make the cache larger.
LEMMA StampSize ==
    ASSUME Types, NEW d \in cache, NEW e, cache' = (cache \ {d}) \cup {e}
    PROVE  Cardinality(cache') \in Nat /\ Cardinality(cache') <= Cardinality(cache)
<1> DEFINE rest == cache \ {d}
<1>1. IsFiniteSet(cache) /\ Cardinality(cache) \in Nat
  BY FS_CardinalityType DEF Types
<1>2. IsFiniteSet(rest) /\ Cardinality(rest) = Cardinality(cache) - 1
  BY <1>1, FS_RemoveElement
<1>3. Cardinality(rest) \in Nat
  BY <1>2, FS_CardinalityType
<1> HIDE DEF rest
<1>4. Cardinality(rest \cup {e}) = IF e \in rest THEN Cardinality(rest) ELSE Cardinality(rest) + 1
  BY <1>2, FS_AddElement
<1>5. Cardinality(cache') = Cardinality(rest \cup {e})
  BY DEF rest
<1>6. \/ Cardinality(cache') = Cardinality(rest)
      \/ Cardinality(cache') = Cardinality(rest) + 1
  BY <1>4, <1>5
<1> QED BY <1>1, <1>2, <1>3, <1>6

LEMMA OpenSize ==
    ASSUME Types, NEW e, cache' = cache \cup {e}
    PROVE  Cardinality(cache') \in Nat /\ Cardinality(cache') <= Cardinality(cache) + 1
<1>1. IsFiniteSet(cache) /\ Cardinality(cache) \in Nat
  BY FS_CardinalityType DEF Types
<1>2. Cardinality(cache') = IF e \in cache THEN Cardinality(cache) ELSE Cardinality(cache) + 1
  BY <1>1, FS_AddElement
<1> QED BY <1>1, <1>2

\* The loop leaves room below the limit it read last; settings_updated may lower
\* the limit before the descriptor is added, so only the largest one bounds the
\* cache, and the present one when it did not change.
LEMMA BoundStep ==
    ASSUME Types, OneThingAtATime, RoomBelowPeak, PoolBounded, [Next]_vars
    PROVE  RoomBelowPeak' /\ PoolBounded'
<1> USE DEF RoomBelowPeak, PoolBounded
<1>0. Cardinality(cache) \in Nat /\ limit \in Nat /\ peak \in Nat /\ limit <= peak
  BY FS_CardinalityType DEF Types
<1>1. CASE CloseStep
  <2>1. cache' \subseteq cache /\ call' = call /\ limit' = limit /\ peak' = peak /\ call.phase = "idle"
    BY <1>1 DEF CloseStep, Drop, OneThingAtATime
  <2> QED BY <1>0, <2>1, SmallerCache
<1>2. ASSUME NEW r \in Request, OpenHit(r) PROVE RoomBelowPeak' /\ PoolBounded'
  <2>1. PICK d \in cache, e \in Entries : Stamped(r, d, e)
    BY <1>2, HitEffect
  <2>2. Cardinality(cache') \in Nat /\ Cardinality(cache') <= Cardinality(cache)
    BY <2>1, StampSize DEF Stamped
  <2>3. call' = call /\ peak' = peak /\ call.phase = "idle"
    BY <1>2 DEF OpenHit, NextSlice
  <2> QED BY <1>0, <2>2, <2>3
<1>3. ASSUME NEW r \in Request, OpenMiss(r) PROVE RoomBelowPeak' /\ PoolBounded'
  <2>1. cache' \subseteq cache /\ peak' = peak /\ call'.phase # "open"
    BY <1>3 DEF OpenMiss, Drop, Idle
  <2> QED BY <1>0, <2>1, SmallerCache
<1>4. CASE EvictOne
  <2>1. cache' \subseteq cache /\ peak' = peak /\ call' = call /\ call.phase = "evict"
    BY <1>4 DEF EvictOne, Drop
  <2> QED BY <1>0, <2>1, SmallerCache
<1>5. CASE EvictDone
  <2>1. cache' = cache /\ peak' = peak /\ limit' = limit /\ Cardinality(cache) < limit
    BY <1>0, <1>5 DEF EvictDone, PoolFull
  <2> QED BY <1>0, <2>1
<1>6. ASSUME NEW fd \in Fds, BridgeOpen(fd) PROVE RoomBelowPeak' /\ PoolBounded'
  <2>1. PICK r \in Request, e \in Entries : Opened(r, e, fd)
    BY <1>6, OpenEffect
  <2>2. Cardinality(cache') \in Nat /\ Cardinality(cache') <= Cardinality(cache) + 1
    BY <2>1, OpenSize DEF Opened
  <2>3. peak' = peak /\ call'.phase = "idle" /\ call.phase = "open"
    BY <1>6, <2>1 DEF Opened, Idle, BridgeOpen
  <2> QED BY <1>0, <2>2, <2>3
<1>7. CASE BridgeOpenFails
  <2>1. cache' = cache /\ peak' = peak /\ call'.phase = "idle"
    BY <1>7 DEF BridgeOpenFails, Idle
  <2> QED BY <1>0, <2>1
<1>8. ASSUME NEW fd, NEW p, NEW w, ScopedOpen(fd, p, w) PROVE RoomBelowPeak' /\ PoolBounded'
  BY <1>0, <1>8 DEF ScopedOpen
<1>9. CASE ScopedClose
  BY <1>0, <1>9 DEF ScopedClose
<1>10. ASSUME NEW n \in PoolSizes, SettingsUpdated(n) PROVE RoomBelowPeak' /\ PoolBounded'
  <2>1. /\ cache' = cache /\ call' = call /\ steady' = (steady /\ limit' = limit)
        /\ limit' \in Nat /\ peak' = IF limit' > peak THEN limit' ELSE peak
    BY <1>10 DEF SettingsUpdated, AtLeastOne
  <2>2. peak' \in Nat /\ peak <= peak'
    BY <1>0, <2>1
  <2>3. (call.phase = "open" /\ steady') => Cardinality(cache) < limit'
    BY <2>1
  <2> QED BY <1>0, <2>1, <2>2, <2>3
<1>11. CASE SliceDone \/ TransferReturns \/ UNCHANGED vars
  BY <1>0, <1>11 DEF SliceDone, TransferReturns, vars
<1> QED BY <1>1, <1>2, <1>3, <1>4, <1>5, <1>6, <1>7, <1>8, <1>9, <1>10, <1>11, StepCases

----------------------------------------------------------------------------
(* The invariant and what follows from it. *)

LEMMA InitInv == Init => IndInv
<1> SUFFICES ASSUME Init PROVE IndInv
  OBVIOUS
<1>1. /\ cache = {} /\ uses = 0 /\ scoped = {} /\ peak = limit
      /\ worker = "waiting" /\ call = Idle /\ using = Nothing
  BY DEF Init
<1>2. limit \in Nat /\ 1 <= limit
  BY DEF Init, AtLeastOne
<1>3. IsFiniteSet(cache) /\ Cardinality(cache) = 0
  BY <1>1, FS_EmptySet
<1>4. path \in [Storages -> [Keys -> AllPaths]]
  BY DEF Init
<1>5. Idle.phase = "idle" /\ Idle \in [phase : {"idle", "evict", "open"}, request : Request \cup {NoRequest}]
  BY DEF Idle
<1>6. Types
  BY <1>1, <1>2, <1>3, <1>4, <1>5 DEF Types
<1>7. UsesDiffer /\ OneThingAtATime /\ MissIsMiss /\ RoomBelowPeak /\ PoolBounded /\ OneDescriptorPerFile
  BY <1>1, <1>2, <1>3, <1>5 DEF UsesDiffer, OneThingAtATime, MissIsMiss, RoomBelowPeak, PoolBounded, OneDescriptorPerFile
<1>8. DescriptorsOwnedOnce /\ DescriptorInUseIsGood
  <2>1. DOMAIN kernel = {}
    BY DEF Init
  <2> QED BY <1>1, <2>1 DEF DescriptorsOwnedOnce, DescriptorInUseIsGood, CachedFds, Nothing
<1> QED BY <1>6, <1>7, <1>8 DEF IndInv

LEMMA StepInv == IndInv /\ [Next]_vars => IndInv'
  BY TypesStep, UsesStep, OneThingStep, MissStep, BoundStep, OwnedStep, InUseStep, OnePerFileStep DEF IndInv

\* The inductive invariant holds in every behaviour, for any torrents, files,
\* names, descriptors and pool sizes.
THEOREM Invariance == Spec => []IndInv
<1> QED BY InitInv, StepInv, PTL DEF Spec

\* No leak, no double close, no stray close: whatever is renamed, moved, evicted
\* or copied, the open descriptors are those of the cache and of the copies.
THEOREM OwnedOnce == Spec => []DescriptorsOwnedOnce
<1>1. IndInv => DescriptorsOwnedOnce
  BY DEF IndInv
<1> QED BY <1>1, Invariance, PTL

\* Until a job is done with the descriptor open_file gave it, no thread closes it,
\* has the kernel reuse its number or renames its file, whichever job, copy, end
\* of the worker or abort() the other step belongs to.
THEOREM InUseIsGood == Spec => []DescriptorInUseIsGood
<1>1. IndInv => DescriptorInUseIsGood
  BY DEF IndInv
<1> QED BY <1>1, Invariance, PTL

\* A file has one cached descriptor, opened under its present name.
THEOREM OnePerFile == Spec => []OneDescriptorPerFile
<1>1. IndInv => OneDescriptorPerFile
  BY DEF IndInv
<1> QED BY <1>1, Invariance, PTL

\* The cache stays within the largest limit set so far, with settings_updated
\* at any moment of the eviction loop.
THEOREM CacheBounded == Spec => []PoolBounded
<1>1. IndInv => PoolBounded
  BY DEF IndInv
<1> QED BY <1>1, Invariance, PTL

\* evict_one's victim: the entries with the least last_use.
Victims == {d \in cache : \A e \in cache : d.used <= e.used}

\* A turn of the eviction loop closes one entry at most, the least recently
\* used one: the order in which m_descriptors lists them makes no difference.
THEOREM EvictsOneEntry == Spec => [](\A d, e \in Victims : d = e)
<1>1. IndInv => \A d, e \in Victims : d = e
  <2> SUFFICES ASSUME IndInv, NEW d \in Victims, NEW e \in Victims PROVE d = e
    OBVIOUS
  <2>1. d \in cache /\ e \in cache /\ d.used <= e.used /\ e.used <= d.used
    BY DEF Victims
  <2>2. d.used \in Nat /\ e.used \in Nat
    BY <2>1 DEF IndInv, Types, Entries
  <2>3. d.used = e.used
    BY <2>1, <2>2
  <2> QED BY <2>1, <2>3 DEF IndInv, UsesDiffer
<1> QED BY <1>1, Invariance, PTL
=============================================================================
