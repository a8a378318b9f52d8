\* One listener and two clients on three descriptors; three threads and two event
\* streams; three workers and two
\* signals; three keys and every method of the cache.
SPECIFICATION MCSpec
CONSTANTS
    c1 = c1
    c2 = c2
    Listeners <- MCListeners
    Clients = {c1, c2}
    Fds = {3, 4, 5}
    MaxStarts = 1
    Talkers <- MCTalkers
    MaxMsgs = 2
    Handlers = {h1, h2, h3}
    PushClients = {k1, k2, k3, k4}
    MaxClients = 2
    W = 3
    Paths = {"cli", "config"}
    MaxSignals = 2
    small = small
    large = large
    Keys = {k1, k2, k3}
    Values = {small, large}
    SizeOf <- MCSizeOf
    MaxEntries = 2
    MaxSize = 3
    TTL = 1
    MaxListed = 4
    Ops = {"get", "put", "remove", "clear", "cleanup", "enable"}
    Null = Null
INVARIANTS
    DescriptorsOwned
    ReceivedInOrder
    ClientsAccounted
    WorkersKnown
    NobodyLeft
    StoreAccounted
PROPERTIES
    ProxyEnds
    ZombiesReaped
    SignalWhileWaiting
    LeastRecentEvicted
    PutEnds
    ImplementsMap
\* the services may be idle, and the processes may have ended
CHECK_DEADLOCK FALSE
