\* Two groups whose servers both fail, one of them now and then.
SPECIFICATION HealthFairSpec
CONSTANTS
    Groups = {g1, g2}
    Rise = 1
    Fall = 2
    Capacity = 2
    MaxStarts = 2
PROPERTY FaultyRemoved
CHECK_DEADLOCK FALSE
