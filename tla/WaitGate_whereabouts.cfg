SPECIFICATION Spec
CONSTANTS
    Points <- MCPoints
    NoPoint = NoPoint
    Places <- MCPlaces
    Near <- MCNear
    Hold <- MCHold
    Inside <- MCInside
PROPERTY
    PollReportsWhereabouts
