SPECIFICATION Spec
CONSTANTS
    OrderCodes <- MCOrders
    OrderTasks <- MCOrderTasks
    Positions <- MCPositions
    Home = "chargingPark001"
    Route <- MCRoute
    NoOrder = NoOrder
    NoTask = NoTask
    FlagInputs <- AllFlags
    MaxReply = 2
INVARIANTS
    TypeOK
    QueueIndexed
    ExecutingFrontOrder
    ProgressAddsUp
    OnlyOpenOrdersQueued
    DelayHasEnd
PROPERTIES
    ClosedOnlyWhenDone
    LeavesOnlyWhenDone
    ReportsTruthful
    DrivesVehicle
    ServesOrders
