SPECIFICATION FairSpec
CONSTANTS
    OrderCodes <- RoutableOrders
    OrderTasks <- RoutableOrderTasks
    Positions <- MCPositions
    Home = "chargingPark001"
    Route <- MCRoute
    NoOrder = NoOrder
    NoTask = NoTask
    FlagInputs <- NoFlags
    MaxReply = 1
PROPERTY
    OrdersServed
