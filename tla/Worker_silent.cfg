\* A client sends one whole request.
SPECIFICATION FairSpec
CONSTANTS
    Listen = Listen
    None = None
    Clients = {c1}
    SlotCount = 1
    FDCounts = {1}
    MaxAccept = 1
    MaxEvents = 2
    BufCap = 1
    MaxPieces = 1
    IdleLimit = 1
    Habits = {}
PROPERTY RequestsAnswered
