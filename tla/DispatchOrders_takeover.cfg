SPECIFICATION Spec
CONSTANTS
    OrderCodes <- RoutableOrders
    OrderTasks <- RoutableOrderTasks
    Positions <- MCPositions
    Home = "chargingPark001"
    Route <- MCRoute
    NoOrder = NoOrder
    NoTask = NoTask
    FlagInputs <- AllFlags
    MaxReply = 1
PROPERTY
    TakeoverClosesEveryOrder
