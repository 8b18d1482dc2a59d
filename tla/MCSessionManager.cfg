\* Three application threads and up to three native sessions; two fetches and a
\* download of one magnet link.
CONSTANTS
    c1 = c1
    c2 = c2
    c3 = c3
    Callers = {c1, c2, c3}
    NoCaller = NoCaller
    MaxSessions = 3
    Interrupts = FALSE
    f1 = f1
    f2 = f2
    Fetchers = {f1, f2}
    NoFetcher = NoFetcher
    MaxAlerts = 3
SPECIFICATION ManagerFairSpec
CHECK_DEADLOCK FALSE
INVARIANTS
    AlertsThreadIsSafe
    OneNativeSession
    AlertsAreServed
    OneOwner
    NothingLeftBehind
PROPERTIES
    StopReturns
    FetchReturns
