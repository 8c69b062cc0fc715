SPECIFICATION SuggestSpec
CONSTANTS
    hiking = hiking
    chess = chess
    r1 = r1
    r2 = r2
    Worker = Worker
    NoOne = NoOne
    Activity <- MCActivity
    SuggestReq <- MCReq
    Gen <- MCGen
    MaxRate = 1
    MaxFaults = 1
INVARIANTS
    CacheOfOneRefresh
    SeenIsCounted
PROPERTIES
    StaleIsRefreshed
    RequestsEnd
\* Every request is made once, and the cache may be as fresh as it gets.
CHECK_DEADLOCK FALSE
