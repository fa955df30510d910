------------------------------ MODULE MCWaitGate ------------------------------
(***************************************************************************)
(* WaitGate with two points: the waiting point of agv002 beside the lane   *)
(* and a crossing.  The ring of a point is between 0.6 m and 0.8 m.        *)
(***************************************************************************)
EXTENDS WaitGate

MCPoints == {"agv002", "crossing"}
MCPlaces == {"apart", "agv002 ring", "at agv002", "at crossing", "crossing ring", "lane"}
MCNear == [p \in MCPlaces |-> CASE p = "at agv002" -> "agv002"
                                [] p = "at crossing" -> "crossing"
                                [] OTHER -> NoPoint]
MCHold == [p \in MCPlaces |-> CASE p \in {"at agv002", "agv002 ring"} -> "agv002"
                                [] p \in {"at crossing", "crossing ring"} -> "crossing"
                                [] OTHER -> NoPoint]
MCInside == [p \in MCPlaces |-> p = "lane"]
===============================================================================
