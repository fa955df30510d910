SPECIFICATION Spec
CONSTANTS
    Codes <- MCCodes
    Published <- MCPublished
    Length <- MCLength
    Points <- MCPoints
    Away = "away"
    Start <- MCStart
    End <- MCEnd
    NonStop = {114}
    MaxRows = 2
INVARIANTS
    TypeOK
    TakenWhole
    OnePath
    StopAfterLastRow
PROPERTIES
    DoneAfterDriving
    AbstractVehicle
