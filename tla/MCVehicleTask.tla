----------------------------- MODULE MCVehicleTask -----------------------------
(***************************************************************************)
(* VehicleTask for TLC: a delivery that ends in a pause, a return trip that *)
(* does not, and a code the firmware has no path for.                       *)
(***************************************************************************)
EXTENDS VehicleTask, TLC

MCCodes == {102, 114}
MCPublished == {102, 114, 142}
MCLength == (102 :> 2) @@ (114 :> 1)
LongReturn == 114 :> 2
MCPoints == {"warehouse", "station"}
MCStart == (102 :> "warehouse") @@ (114 :> "station")
MCEnd == (102 :> "station") @@ (114 :> "warehouse")
ReturnStart == 114 :> "station"
ReturnEnd == 114 :> "warehouse"
================================================================================
