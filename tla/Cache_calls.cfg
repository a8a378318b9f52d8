\* Two threads, two keys in one slot, every function of the cache.
SPECIFICATION Spec
CONSTANTS
    k1 = k1
    k2 = k2
    k3 = k3
    small = small
    large = large
    Threads = {t1, t2}
    Keys = {k1, k2}
    Values = {small, large}
    SizeOf <- MCSizeOf
    Cells = {c1, c2}
    Buckets = {0}
    Hash <- OneSlot
    MaxEntries = 2
    MaxSize = 3
    TTL = 1
    Ops = {"get", "put", "remove", "clear", "cleanup"}
    Null = Null
INVARIANTS
    NoDangling
    CountsExact
    MutexHeldInside
PROPERTY TableIsMap
SYMMETRY Symmetry
CHECK_DEADLOCK FALSE
