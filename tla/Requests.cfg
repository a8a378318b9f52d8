\* Vectors of 4 and blocks of 8 bytes, two pools, groups of three servers, two requests; a chunk
\* larger than its bucket, refills rounded off, waits clamped at both ends.
SPECIFICATION MCSpec
CONSTANTS
    Word = 4
    Vector = 4
    Block = 8
    Triples = 2
    MaxLen = 5
    MaxMove = 19
    Types = {1, 2}
    Preblocks = 2
    HeapBlocks = {1, 2, 3, 4}
    Requests = {r1}
    Slots = 3
    GcThreshold = 3
    Wrap = 16
    s1 = s1
    s2 = s2
    s3 = s3
    Addresses = {s1, s2, s3}
    GroupNames = {"g", "h"}
    Configurations <- MCConfigurations
    Weights = {0, 1, 2, 3}
    MaxChanges = 2
    ServerBlocks <- MCServerBlocks
    Hosts = {"h1", "h3"}
    Uris <- MCUris
    NotFoundPage <- MCNotFoundPage
    Port = 8443
    FileSizes = {0, 1, 2}
    MinLength = 2
    MaxRequests = 2
    MaxFileChanges = 1
    Usec = 3
    Rate = 2
    Burst = 2
    Chunk = 3
    MinSleep = 2
    MaxSleep = 3
    BlockedSleep = 1
    Sizes = {1, 4}
    MaxCalls = 2
    MaxBlocked = 1
    MaxLate = 3
INVARIANTS
    BytesRight
    HttpRight
    BlocksInOnePlace
    UsageBalanced
    WeightsRespected
    RoutedBest
    RequestSettled
    LengthHonest
    ChargedWithinRate
    OverrunBounded
\* a call or a request may be the last one, and the process may exit
CHECK_DEADLOCK FALSE
