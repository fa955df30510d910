---------------------------- MODULE MCObstacleWatch ----------------------------
(* A scanner sees something at hand or a clear road; a scan is old when a     *)
(* whole period of the bridge has passed, a bus silent after one tick, and    *)
(* the counter of the ticks goes round after two.  The rows follow each other *)
(* as they do in the 43 paths of 4g_comnet.c.                                 *)
EXTENDS ObstacleWatch

MCDistances == {0, 60}

MCFirst == {Line, Reverse}

MCFollows ==
    [row \in Rows |->
        CASE row = Line -> {Line, Turn, Stopping}
          [] row = Turn -> {Line, Reverse}
          [] row = Reverse -> {ReverseTurn, Stopping}
          [] row = ReverseTurn -> {Line}]

================================================================================
