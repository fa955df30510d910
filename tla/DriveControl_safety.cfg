SPECIFICATION FairSpec
CONSTANTS
    LoseLimit = 2
    JumpLimit = 1
    Modulus = 3
    MaxLeft = 1
    First <- MCFirst
    Follows <- MCFollows
INVARIANTS
    TypeOK
    SpeedOnPath
    JumpsBridged
PROPERTIES
    RetestedToStart
    JumpsStop
    FrozenStops
