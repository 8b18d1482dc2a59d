\* Two fetches and a download.
CONSTANTS
    f1 = f1
    f2 = f2
    Fetchers = {f1, f2}
    NoFetcher = NoFetcher
    MaxAlerts = 2
SPECIFICATION FetchSpec
CHECK_DEADLOCK FALSE
INVARIANTS
    DownloadIsKept
