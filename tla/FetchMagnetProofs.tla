-------------------------- MODULE FetchMagnetProofs --------------------------
(***************************************************************************)
(* Proofs that concurrent fetches of one magnet link never share a torrent *)
(* they believe to be their own, and leave none behind, for any number of  *)
(* fetching threads and whatever the native session posts.                 *)
(***************************************************************************)
EXTENDS FetchMagnet, TLAPS

\* Where a fetcher holds syncMagnet, and where its listener is registered.
Locked == {"find", "add", "unlock"}
Listening == Locked \cup {"lock", "wait"}

Types ==
    /\ added \in Nat /\ torrent \in 0..added
    /\ syncMagnet \in Fetchers \cup {NoFetcher}
    /\ listeners \subseteq Fetchers
    /\ place \in [Fetchers -> Listening \cup {"idle", "remove", "done"}]
    /\ mine \in [Fetchers -> BOOLEAN]
    /\ handle \in [Fetchers -> Nat] /\ \A f \in Fetchers : handle[f] <= added

\* syncMagnet excludes, and a listener is registered while its fetch waits.
Exclusion ==
    \A f \in Fetchers :
        /\ place[f] \in Locked <=> syncMagnet = f
        /\ f \in listeners => place[f] \in Listening

\* A fetcher that found no torrent: whatever is added before it adds its own,
\* nobody holds a handle of it.
Unclaimed ==
    \A f \in Fetchers : place[f] = "add" =>
        mine[f] /\ \A g \in Fetchers : handle[g] # 0 => handle[g] # torrent

\* Nothing but a download adds a torrent that no fetcher is going to remove.
Claimed ==
    ~asked =>
        /\ ~adding
        /\ torrent # 0 =>
             \E f \in Fetchers : /\ mine[f] /\ handle[f] = torrent
                                 /\ place[f] \in {"unlock", "wait", "remove"}

IndInv == Types /\ Exclusion /\ Unclaimed /\ Claimed /\ OneOwner
----------------------------------------------------------------------------
(* The cases of a step. *)

USE FetchAssumption DEF nativeVars, fetchVars

\* Metadata, answers and their delivery touch no torrent, lock or handle.
QuietStep == UNCHANGED <<torrent, added, adding, asked, syncMagnet, listeners, place, mine, handle>>

LEMMA StepCases ==
    ASSUME [FetchNext]_magnetVars
    PROVE  \/ \E f \in Fetchers : FetchStart(f) \/ Fetch(f)
           \/ Download \/ AsyncAdd \/ QuietStep
<1>1. MetadataArrives => QuietStep
  BY DEF MetadataArrives, QuietStep
<1>2. SaveAnswered => QuietStep
  BY DEF SaveAnswered, QuietStep
<1>3. Deliver => QuietStep
  BY DEF Deliver, QuietStep
<1>4. UNCHANGED magnetVars => QuietStep
  BY DEF magnetVars, QuietStep
<1> QED BY <1>1, <1>2, <1>3, <1>4 DEF FetchNext

----------------------------------------------------------------------------
(* The parts of the invariant. *)

LEMMA TypesStep ==
    ASSUME Types, [FetchNext]_magnetVars
    PROVE  Types'
<1> USE DEF Types, Locked, Listening, FetchGoto
<1>1. ASSUME NEW f \in Fetchers, FetchStart(f) PROVE Types'
  BY <1>1 DEF FetchStart
<1>2. ASSUME NEW f \in Fetchers, FetchLock(f) PROVE Types'
  BY <1>2 DEF FetchLock
<1>3. ASSUME NEW f \in Fetchers, FetchFind(f) PROVE Types'
  BY <1>3 DEF FetchFind
<1>4. ASSUME NEW f \in Fetchers, FetchAdd(f) PROVE Types'
  BY <1>4 DEF FetchAdd, AddTorrent
<1>5. ASSUME NEW f \in Fetchers, FetchUnlock(f) PROVE Types'
  BY <1>5 DEF FetchUnlock
<1>6. ASSUME NEW f \in Fetchers, FetchAwait(f) PROVE Types'
  BY <1>6 DEF FetchAwait
<1>7. ASSUME NEW f \in Fetchers, FetchRemove(f) PROVE Types'
  BY <1>7 DEF FetchRemove, Valid
<1>8. CASE Download
  BY <1>8 DEF Download
<1>9. CASE AsyncAdd
  <2>1. CASE torrent = 0
    BY <1>9, <2>1 DEF AsyncAdd, AddTorrent
  <2>2. CASE torrent # 0
    BY <1>9, <2>2 DEF AsyncAdd, AddTorrent
  <2> QED BY <2>1, <2>2
<1>10. CASE QuietStep
  BY <1>10 DEF QuietStep
<1> QED BY <1>1, <1>2, <1>3, <1>4, <1>5, <1>6, <1>7, <1>8, <1>9, <1>10, StepCases DEF Fetch

\* syncMagnet is a mutual exclusion lock, and await() ends with removeListener.
LEMMA ExclusionStep ==
    ASSUME Types, Exclusion, [FetchNext]_magnetVars
    PROVE  Exclusion'
<1> USE DEF Types, Exclusion, Locked, Listening, FetchGoto
<1>1. ASSUME NEW f \in Fetchers, FetchStart(f) PROVE Exclusion'
  BY <1>1 DEF FetchStart
<1>2. ASSUME NEW f \in Fetchers, FetchLock(f) PROVE Exclusion'
  BY <1>2 DEF FetchLock
<1>3. ASSUME NEW f \in Fetchers, FetchFind(f) PROVE Exclusion'
  BY <1>3 DEF FetchFind
<1>4. ASSUME NEW f \in Fetchers, FetchAdd(f) PROVE Exclusion'
  BY <1>4 DEF FetchAdd, AddTorrent
<1>5. ASSUME NEW f \in Fetchers, FetchUnlock(f) PROVE Exclusion'
  BY <1>5 DEF FetchUnlock
<1>6. ASSUME NEW f \in Fetchers, FetchAwait(f) PROVE Exclusion'
  BY <1>6 DEF FetchAwait
<1>7. ASSUME NEW f \in Fetchers, FetchRemove(f) PROVE Exclusion'
  BY <1>7 DEF FetchRemove, Valid
<1>8. CASE Download
  BY <1>8 DEF Download
<1>9. CASE AsyncAdd
  BY <1>9 DEF AsyncAdd, AddTorrent
<1>10. CASE QuietStep
  BY <1>10 DEF QuietStep
<1> QED BY <1>1, <1>2, <1>3, <1>4, <1>5, <1>6, <1>7, <1>8, <1>9, <1>10, StepCases DEF Fetch

\* The torrents that appear between a fetcher's find and its add are new ones:
\* the session numbers them past every handle.
LEMMA UnclaimedStep ==
    ASSUME Types, Exclusion, Unclaimed, [FetchNext]_magnetVars
    PROVE  Unclaimed'
<1> USE DEF Types, Exclusion, Unclaimed, Locked, Listening, FetchGoto
<1>1. ASSUME NEW f \in Fetchers, FetchStart(f) PROVE Unclaimed'
  BY <1>1 DEF FetchStart
<1>2. ASSUME NEW f \in Fetchers, FetchLock(f) PROVE Unclaimed'
  BY <1>2 DEF FetchLock
<1>3. ASSUME NEW f \in Fetchers, FetchFind(f) PROVE Unclaimed'
  BY <1>3 DEF FetchFind
<1>4. ASSUME NEW f \in Fetchers, FetchAdd(f) PROVE Unclaimed'
  BY <1>4 DEF FetchAdd, AddTorrent
<1>5. ASSUME NEW f \in Fetchers, FetchUnlock(f) PROVE Unclaimed'
  BY <1>5 DEF FetchUnlock
<1>6. ASSUME NEW f \in Fetchers, FetchAwait(f) PROVE Unclaimed'
  BY <1>6 DEF FetchAwait
<1>7. ASSUME NEW f \in Fetchers, FetchRemove(f) PROVE Unclaimed'
  BY <1>7 DEF FetchRemove, Valid
<1>8. CASE Download
  BY <1>8 DEF Download
<1>9. CASE AsyncAdd
  BY <1>9 DEF AsyncAdd, AddTorrent
<1>10. CASE QuietStep
  BY <1>10 DEF QuietStep
<1> QED BY <1>1, <1>2, <1>3, <1>4, <1>5, <1>6, <1>7, <1>8, <1>9, <1>10, StepCases DEF Fetch

\* The fetcher that added a torrent removes it on every way out; a fetcher that
\* found it does not.
LEMMA ClaimedStep ==
    ASSUME Types, Exclusion, Unclaimed, Claimed, [FetchNext]_magnetVars
    PROVE  Claimed'
<1> USE DEF Types, Exclusion, Unclaimed, Claimed, Locked, Listening, FetchGoto
<1>1. ASSUME NEW f \in Fetchers, FetchStart(f) PROVE Claimed'
  BY <1>1 DEF FetchStart
<1>2. ASSUME NEW f \in Fetchers, FetchLock(f) PROVE Claimed'
  BY <1>2 DEF FetchLock
<1>3. ASSUME NEW f \in Fetchers, FetchFind(f) PROVE Claimed'
  BY <1>3 DEF FetchFind
<1>4. ASSUME NEW f \in Fetchers, FetchAdd(f) PROVE Claimed'
  BY <1>4 DEF FetchAdd, AddTorrent
<1>5. ASSUME NEW f \in Fetchers, FetchUnlock(f) PROVE Claimed'
  BY <1>5 DEF FetchUnlock
<1>6. ASSUME NEW f \in Fetchers, FetchAwait(f) PROVE Claimed'
  BY <1>6 DEF FetchAwait
<1>7. ASSUME NEW f \in Fetchers, FetchRemove(f) PROVE Claimed'
  BY <1>7 DEF FetchRemove, Valid
<1>8. CASE Download
  BY <1>8 DEF Download
<1>9. CASE AsyncAdd
  BY <1>9 DEF AsyncAdd, AddTorrent
<1>10. CASE QuietStep
  BY <1>10 DEF QuietStep
<1> QED BY <1>1, <1>2, <1>3, <1>4, <1>5, <1>6, <1>7, <1>8, <1>9, <1>10, StepCases DEF Fetch

\* Handles are taken under syncMagnet: the second fetcher finds the torrent of
\* the first, and then it is not its own.
LEMMA OneOwnerStep ==
    ASSUME Types, Exclusion, Unclaimed, OneOwner, [FetchNext]_magnetVars
    PROVE  OneOwner'
<1> USE DEF Types, Exclusion, Unclaimed, OneOwner, Locked, Listening, FetchGoto
<1>1. ASSUME NEW f \in Fetchers, FetchStart(f) PROVE OneOwner'
  BY <1>1 DEF FetchStart
<1>2. ASSUME NEW f \in Fetchers, FetchLock(f) PROVE OneOwner'
  BY <1>2 DEF FetchLock
<1>3. ASSUME NEW f \in Fetchers, FetchFind(f) PROVE OneOwner'
  BY ZenonT(60), <1>3 DEF FetchFind
<1>4. ASSUME NEW f \in Fetchers, FetchAdd(f) PROVE OneOwner'
  BY <1>4 DEF FetchAdd, AddTorrent
<1>5. ASSUME NEW f \in Fetchers, FetchUnlock(f) PROVE OneOwner'
  BY <1>5 DEF FetchUnlock
<1>6. ASSUME NEW f \in Fetchers, FetchAwait(f) PROVE OneOwner'
  BY <1>6 DEF FetchAwait
<1>7. ASSUME NEW f \in Fetchers, FetchRemove(f) PROVE OneOwner'
  BY <1>7 DEF FetchRemove, Valid
<1>8. CASE Download
  BY <1>8 DEF Download
<1>9. CASE AsyncAdd
  BY <1>9 DEF AsyncAdd, AddTorrent
<1>10. CASE QuietStep
  BY <1>10 DEF QuietStep
<1> QED BY <1>1, <1>2, <1>3, <1>4, <1>5, <1>6, <1>7, <1>8, <1>9, <1>10, StepCases DEF Fetch

----------------------------------------------------------------------------
(* The invariant and what follows from it. *)

LEMMA InitInv == FetchInit => IndInv
<1> SUFFICES ASSUME FetchInit PROVE IndInv
  OBVIOUS
<1> USE DEF FetchInit, Locked, Listening
<1>1. Types
  <2>1. /\ mine \in [Fetchers -> BOOLEAN]
        /\ place \in [Fetchers -> Listening \cup {"idle", "remove", "done"}]
    OBVIOUS
  <2>2. handle \in [Fetchers -> Nat] /\ \A f \in Fetchers : handle[f] <= added
    OBVIOUS
  <2> QED BY <2>1, <2>2 DEF Types
<1>2. Exclusion /\ Unclaimed /\ Claimed /\ OneOwner
  BY DEF Exclusion, Unclaimed, Claimed, OneOwner
<1> QED BY <1>1, <1>2 DEF IndInv

LEMMA StepInv == IndInv /\ [FetchNext]_magnetVars => IndInv'
  BY TypesStep, ExclusionStep, UnclaimedStep, ClaimedStep, OneOwnerStep DEF IndInv

\* The inductive invariant holds in every behaviour, for any fetching threads.
THEOREM Invariance == FetchSpec => []IndInv
<1> QED BY InitInv, StepInv, PTL DEF FetchSpec

\* No two fetches believe they added the same torrent, also when a download
\* adds one between a fetch's find and its add.
THEOREM OwnersDiffer == FetchSpec => []OneOwner
<1>1. IndInv => OneOwner
  BY DEF IndInv
<1> QED BY <1>1, Invariance, PTL

\* When all fetches are over and nobody asked for a download, the session has
\* no torrent with the hash and no listener is registered.
THEOREM LeavesNothing == FetchSpec => []NothingLeftBehind
<1>1. IndInv => NothingLeftBehind
  BY DEF IndInv, Types, Exclusion, Claimed, NothingLeftBehind, Locked, Listening
<1> QED BY <1>1, Invariance, PTL
=============================================================================
