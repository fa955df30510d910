---------------------------- MODULE MCDriveControl -----------------------------
(* Two poses that do not change stop the vehicle, and one jump is bridged;    *)
(* the count of the jumps goes round after three.                             *)
(* The rows follow each other as they do in the 43 paths of 4g_comnet.c.      *)
EXTENDS DriveControl

MCFirst == {Line, Reverse}

MCFollows ==
    [row \in Rows |->
        CASE row = Line -> {Line, Turn, Stopping}
          [] row = Turn -> {Line, Reverse}
          [] row = Reverse -> {ReverseTurn, Stopping}
          [] row = ReverseTurn -> {Line}]

================================================================================
