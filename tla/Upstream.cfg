\* One thread, three servers, each strategy; two groups, managers started three
\* times, a history of two results.
SPECIFICATION MCSpec
CONSTANTS
    N = 3
    Threads = {t1}
    Strategies = {"round_robin", "ip_hash", "least_conn", "random"}
    MaxConns = 1
    MaxFails = 2
    FailTimeout = 2
    None = None
    Groups = {g1, g2}
    Rise = 1
    Fall = 2
    Capacity = 2
    MaxStarts = 3
INVARIANTS
    LockInv
    ConnsExact
    FreshBudget
    NoThreadLeft
    HistoryIsRecent
PROPERTIES
    PicksAsMeant
    SelectionEnds
    StopReturns
    FailingGoesDown
CHECK_DEADLOCK FALSE
