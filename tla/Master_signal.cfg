\* Two workers and a signal at any time.
SPECIFICATION FairSpec
CONSTANTS
    W = 2
    Paths = {"cli", "config"}
    MaxSignals = 1
PROPERTY SignalEnds
CHECK_DEADLOCK FALSE
