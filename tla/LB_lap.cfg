\* One worker, two servers that have failed.
SPECIFICATION Spec
CONSTANTS
    N = 2
    Threads = {t1}
    Strategies = {"round_robin"}
    MaxConns = 1
    MaxFails = 1
    FailTimeout = 1
    None = None
PROPERTY OneLap
