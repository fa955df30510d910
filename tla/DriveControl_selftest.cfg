SPECIFICATION Spec
CONSTANTS
    LoseLimit = 2
    JumpLimit = 1
    Modulus = 3
    MaxLeft = 1
    First <- MCFirst
    Follows <- MCFollows
PROPERTIES
    TestedToDrive
