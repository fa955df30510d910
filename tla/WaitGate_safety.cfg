SPECIFICATION FairSpec
CONSTANTS
    Points <- MCPoints
    NoPoint = NoPoint
    Places <- MCPlaces
    Near <- MCNear
    Hold <- MCHold
    Inside <- MCInside
INVARIANTS
    TypeOK
    LockForThisVisit
    StopHasPoll
PROPERTY
    Released
