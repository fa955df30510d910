--------------------------- MODULE MCDispatchOrders ---------------------------
(***************************************************************************)
(* Small instances of DispatchOrders.  The positions and codes are a piece *)
(* of ENDPOINT_CODE_MAP; a drive from the station to the park is left out  *)
(* of the map, as most pairs are.                                          *)
(***************************************************************************)
EXTENDS DispatchOrders, TLC

MCPositions == {"chargingPark001", "warehousePark001", "stationPark1-1"}

MCRoute == <<"chargingPark001", "warehousePark001">> :> 101
        @@ <<"warehousePark001", "stationPark1-1">> :> 102
        @@ <<"stationPark1-1", "warehousePark001">> :> 118

Drive(from, to) == [start |-> from, end |-> to]
ParkToStation == <<Drive("chargingPark001", "warehousePark001"),
                   Drive("warehousePark001", "stationPark1-1")>>
StationToStore == <<Drive("stationPark1-1", "warehousePark001")>>
Unmapped == <<Drive("stationPark1-1", "chargingPark001")>>

\* An ordinary order of two tasks and the awkward ones: an order without tasks
\* and an order over a route that is not in the map.
MCOrders == {"long", "unmapped", "empty"}
MCOrderTasks == "long" :> ParkToStation @@ "unmapped" :> Unmapped @@ "empty" :> <<>>

\* Everything a publisher of the flags could send, and the repository as it
\* stands: nobody publishes them.
AllFlags == BOOLEAN \X BOOLEAN
NoFlags == {}

\* Orders that can be driven.
RoutableOrders == {"long", "short"}
RoutableOrderTasks == "long" :> ParkToStation @@ "short" :> StationToStore
===============================================================================
