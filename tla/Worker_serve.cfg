\* Two clients that do anything, one slot, one or two descriptors.
SPECIFICATION FairSpec
CONSTANTS
    Listen = Listen
    None = None
    Clients = {c1, c2}
    SlotCount = 1
    FDCounts = {1, 2}
    MaxAccept = 1
    MaxEvents = 2
    BufCap = 1
    MaxPieces = 2
    IdleLimit = 1
    Habits = {"part", "finish", "abort", "idle"}
PROPERTIES
    BacklogServed
    SlotsRecycled
\* the worker may have ended
CHECK_DEADLOCK FALSE
