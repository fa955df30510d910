SPECIFICATION Spec
CONSTANTS
    Codes = {114}
    Published = {114}
    Length <- LongReturn
    Points <- MCPoints
    Away = "away"
    Start <- ReturnStart
    End <- ReturnEnd
    NonStop = {114}
    MaxRows = 2
PROPERTY
    DoneMeansDriven
