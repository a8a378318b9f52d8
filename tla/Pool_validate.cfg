\* Two pools with lists of two blocks, one request of two blocks: it takes the lower
\* block of a mapping while the upper one is in the list.
SPECIFICATION PoolSpec
CONSTANTS
    Types = {1, 2}
    Preblocks = 2
    HeapBlocks = {1}
    Requests = {r1}
    Slots = 2
    GcThreshold = 3
    Wrap = 16
INVARIANT ListsValid
\* the process may exit or abort
CHECK_DEADLOCK FALSE
