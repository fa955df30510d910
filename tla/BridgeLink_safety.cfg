SPECIFICATION FairSpec
CONSTANTS
    Payloads <- MCPayloads
    NoFrame = NoFrame
INVARIANTS
    TypeOK
    ToldRight
PROPERTIES
    Implements
    Resyncs
