\* Two torrents share and reuse the storage numbers; every kind of request races
\* removals and abort, under the scheduling's fairness.
CONSTANTS
    Tenants = {t1, t2}
    NoTenant = NoTenant
    Ops = {"read", "drop", "release", "clear", "closeFile"}
    MaxRequests = 2
SPECIFICATION FairSpec
INVARIANTS
    TypeOK
    HandlerPostedOnce
    NoRequestLost
    DrainedAtAbort
    ReleaseIsFence
    NoForeignDescriptor
    FreeListExact
PROPERTIES
    EveryRequestAnswered
    AbortReturns
    ImplementsService
