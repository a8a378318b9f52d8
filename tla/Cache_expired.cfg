\* One worker whose content expires.
SPECIFICATION Spec
CONSTANTS
    k1 = k1
    k2 = k2
    k3 = k3
    small = small
    large = large
    Threads = {t1}
    Keys = {k1}
    Values = {small}
    SizeOf <- MCSizeOf
    Cells = {c1, c2}
    Buckets = {0}
    Hash <- OneSlot
    MaxEntries = 3
    MaxSize = 3
    TTL = 1
    Ops = {"get", "put"}
    Null = Null
INVARIANT NoSelfDeadlock
CHECK_DEADLOCK FALSE
