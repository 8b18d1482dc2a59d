----------------------------- MODULE FetchMagnet -----------------------------
(***************************************************************************)
(* SessionManager.fetchMagnet and download(magnet)                         *)
(* (org/libtorrent4j/SessionManager.java) for one info-hash: several       *)
(* threads fetch the metadata of the same magnet link while another one    *)
(* asks to download it, and the alerts thread delivers what the native     *)
(* session posts to the listeners.                                         *)
(*                                                                         *)
(* The native session (external) holds at most one torrent with the hash.  *)
(* Torrents are numbered as they are added, so a handle is a number and it *)
(* is valid while that torrent is the present one; 0 is no torrent.        *)
(***************************************************************************)
EXTENDS Naturals, Sequences, FiniteSets

CONSTANTS
    Fetchers,      \* threads in fetchMagnet
    NoFetcher,     \* syncMagnet is free
    MaxAlerts      \* bound: alerts not delivered yet

ASSUME FetchAssumption ==
    /\ NoFetcher \notin Fetchers
    /\ MaxAlerts \in Nat

VARIABLES
    torrent,     \* the present torrent, or 0
    added,       \* how many were added
    hasMeta,     \* the present torrent has its metadata
    saves,       \* save_resume_data calls the session has yet to answer
    alerts,      \* posted and not delivered, oldest first: kind and torrent
    adding,      \* async_add_torrent was called and has not happened yet
    asked,       \* history: download() returned to its caller
    syncMagnet,  \* its holder
    listeners,   \* fetchers whose listener is registered
    place,       \* where each fetcher is
    mine,        \* the local variable `add`
    handle,      \* the local variable `th`
    latch,       \* signal has counted down
    data         \* whether the AtomicReference holds the info

nativeVars == <<torrent, added, hasMeta, saves, alerts, adding>>
fetchVars == <<syncMagnet, listeners, place, mine, handle, latch, data>>
magnetVars == <<nativeVars, asked, fetchVars>>

FetchInit ==
    /\ torrent = 0 /\ added = 0 /\ hasMeta = FALSE /\ saves = 0
    /\ alerts = <<>> /\ adding = FALSE /\ asked = FALSE
    /\ syncMagnet = NoFetcher /\ listeners = {}
    /\ place = [f \in Fetchers |-> "idle"]
    /\ mine = [f \in Fetchers |-> FALSE]
    /\ handle = [f \in Fetchers |-> 0]
    /\ latch = [f \in Fetchers |-> FALSE]
    /\ data = [f \in Fetchers |-> FALSE]

Valid(t) == t # 0 /\ t = torrent
FetchGoto(f, label) == place' = [place EXCEPT ![f] = label]

----------------------------------------------------------------------------
(* The native session (external). *)

\* add_torrent: a new torrent, or the one that is there.
AddTorrent ==
    IF torrent = 0
    THEN torrent' = added + 1 /\ added' = added + 1 /\ hasMeta' = FALSE
    ELSE UNCHANGED <<torrent, added, hasMeta>>

Post(kind) ==
    /\ Len(alerts) < MaxAlerts
    /\ alerts' = Append(alerts, [kind |-> kind, torrent |-> torrent])

MetadataArrives ==
    /\ torrent # 0 /\ ~hasMeta
    /\ \/ hasMeta' = TRUE /\ Post("received")
       \/ UNCHANGED hasMeta /\ Post("failed")
    /\ UNCHANGED <<torrent, added, saves, adding, asked, fetchVars>>

\* save_resume_data is answered, or forgotten with its torrent.
SaveAnswered ==
    /\ saves > 0
    /\ saves' = saves - 1
    /\ \/ torrent # 0 /\ hasMeta /\ Post("resume")
       \/ torrent # 0 /\ Post("resumeFailed")
       \/ torrent = 0 /\ UNCHANGED alerts
    /\ UNCHANGED <<torrent, added, hasMeta, adding, asked, fetchVars>>

AsyncAdd ==
    /\ adding
    /\ adding' = FALSE
    /\ AddTorrent
    /\ UNCHANGED <<saves, alerts, asked, fetchVars>>

----------------------------------------------------------------------------
(* The alerts thread: one alert to every listener. *)

\* The alerts that let await() go, with or without data.
Signals(kind) == kind \in {"failed", "resume", "resumeFailed"}

Deliver ==
    /\ alerts # <<>>
    /\ alerts' = Tail(alerts)
    /\ LET a == Head(alerts)
           heard == IF Valid(a.torrent) THEN listeners ELSE {}
       IN  \E built \in {heard, {}} :   \* building the data may throw
             LET failing == a.kind = "resume" /\ built = {}
             IN  /\ saves' = IF a.kind = "received" THEN saves + Cardinality(heard) ELSE saves
                 /\ data' = [f \in Fetchers |-> data[f] \/ (a.kind = "resume" /\ f \in built)]
                 /\ latch' = [f \in Fetchers |->
                                latch[f] \/ (Signals(a.kind) /\ ~failing /\ f \in heard)]
    /\ UNCHANGED <<torrent, added, hasMeta, adding, asked, syncMagnet, listeners, place,
                   mine, handle>>

----------------------------------------------------------------------------
(* fetchMagnet *)

\* session is not null, the link parses: addListener(listener).
FetchStart(f) ==
    /\ place[f] = "idle"
    /\ listeners' = listeners \cup {f}
    /\ FetchGoto(f, "lock")
    /\ UNCHANGED <<nativeVars, asked, syncMagnet, mine, handle, latch, data>>

\* Wrong on purpose: fetches of one hash are not serialised.
FetchLockNone(f) ==
    /\ place[f] = "lock"
    /\ FetchGoto(f, "find")
    /\ UNCHANGED <<nativeVars, asked, syncMagnet, listeners, mine, handle, latch, data>>

FetchLock(f) ==
    /\ place[f] = "lock" /\ syncMagnet = NoFetcher
    /\ syncMagnet' = f
    /\ FetchGoto(f, "find")
    /\ UNCHANGED <<nativeVars, asked, listeners, mine, handle, latch, data>>

\* Found: ask for the info if it is there.  Not found: add.
FetchFind(f) ==
    /\ place[f] = "find"
    /\ handle' = [handle EXCEPT ![f] = torrent]
    /\ mine' = [mine EXCEPT ![f] = torrent = 0]
    /\ saves' = IF torrent # 0 /\ hasMeta THEN saves + 1 ELSE saves
    /\ FetchGoto(f, IF torrent = 0 THEN "add" ELSE "unlock")
    /\ UNCHANGED <<torrent, added, hasMeta, alerts, adding, asked, syncMagnet, listeners,
                   latch, data>>

FetchAdd(f) ==
    /\ place[f] = "add"
    /\ AddTorrent
    /\ handle' = [handle EXCEPT ![f] = torrent']
    /\ FetchGoto(f, "unlock")
    /\ UNCHANGED <<saves, alerts, adding, asked, syncMagnet, listeners, mine, latch, data>>

FetchUnlock(f) ==
    /\ place[f] = "unlock"
    /\ syncMagnet' = NoFetcher
    /\ FetchGoto(f, "wait")
    /\ UNCHANGED <<nativeVars, asked, listeners, mine, handle, latch, data>>

\* Wrong on purpose: await() without a limit; the handle is lost on a timeout.
FetchAwaitForever(f) ==
    /\ place[f] = "wait" /\ latch[f]
    /\ listeners' = listeners \ {f}
    /\ FetchGoto(f, "remove")
    /\ UNCHANGED <<nativeVars, asked, syncMagnet, mine, handle, latch, data>>

FetchAwaitForget(f) ==
    /\ place[f] = "wait"
    /\ listeners' = listeners \ {f}
    /\ FetchGoto(f, IF latch[f] THEN "remove" ELSE "done")
    /\ UNCHANGED <<nativeVars, asked, syncMagnet, mine, handle, latch, data>>

\* await() ends by the signal or by the timeout: removeListener.
FetchAwait(f) ==
    /\ place[f] = "wait"
    /\ listeners' = listeners \ {f}
    /\ FetchGoto(f, "remove")
    /\ UNCHANGED <<nativeVars, asked, syncMagnet, mine, handle, latch, data>>

\* The torrent this call added goes; the call returns data.get().
FetchRemove(f) ==
    /\ place[f] = "remove"
    /\ \/ mine[f] /\ Valid(handle[f]) /\ torrent' = 0 /\ hasMeta' = FALSE
       \/ ~(mine[f] /\ Valid(handle[f])) /\ UNCHANGED <<torrent, hasMeta>>
    /\ FetchGoto(f, "done")
    /\ UNCHANGED <<added, saves, alerts, adding, asked, syncMagnet, listeners, mine,
                   handle, latch, data>>

----------------------------------------------------------------------------
(* download(magnetUri, ...) *)

Download ==
    /\ ~asked
    /\ asked' = TRUE
    /\ adding' = (torrent = 0)     \* else: found a download with the same hash
    /\ UNCHANGED <<torrent, added, hasMeta, saves, alerts, fetchVars>>

----------------------------------------------------------------------------

Fetch(f) == \/ FetchLock(f) \/ FetchFind(f) \/ FetchAdd(f)
            \/ FetchUnlock(f) \/ FetchAwait(f) \/ FetchRemove(f)

FetchNext ==
    \/ \E f \in Fetchers : FetchStart(f) \/ Fetch(f)
    \/ Download
    \/ MetadataArrives \/ SaveAnswered \/ AsyncAdd
    \/ Deliver

FetchSpec == FetchInit /\ [][FetchNext]_magnetVars

\* The threads run and await() has a timeout; metadata may never arrive.  A
\* fetcher takes the lock once, so a waiting one finds it free in the end.
FetchFairSpec == FetchSpec /\ \A f \in Fetchers : WF_magnetVars(Fetch(f))

----------------------------------------------------------------------------
(* Properties. *)

\* No two fetches believe they added the same torrent: the one that returns
\* first never removes the torrent the other one waits for as its own.
OneOwner ==
    \A f, g \in Fetchers :
        /\ mine[f] /\ mine[g] /\ handle[f] = handle[g] /\ handle[f] # 0
        /\ place[f] # "done" /\ place[g] # "done"
        => f = g

\* Fetching leaves nothing behind: when all fetches are over and nobody asked
\* for a download, the session has no torrent with the hash and no listener
\* is registered, whether they ended by data, failure or timeout.
NothingLeftBehind ==
    (~asked /\ \A f \in Fetchers : place[f] \in {"idle", "done"}) =>
        torrent = 0 /\ listeners = {}

\* Every fetch returns, also one whose torrent another fetch removed.
FetchReturns == \A f \in Fetchers : (place[f] = "lock") ~> (place[f] = "done")

\* A download that was accepted stays: once download() has returned and its
\* request was carried out, the session has a torrent with the hash.
DownloadIsKept == (asked /\ ~adding) => torrent # 0
=============================================================================
