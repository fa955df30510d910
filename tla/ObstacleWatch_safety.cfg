SPECIFICATION FairSpec
CONSTANTS
    Distances <- MCDistances
    First <- MCFirst
    Follows <- MCFollows
    Timeout = 1
    LossTicks = 0
    Modulus = 2
INVARIANTS
    TypeOK
PROPERTIES
    ObstacleLifted
    NoStartInSilence
    DangerStops
