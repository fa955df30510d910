------------------------------ MODULE MCBridgeLink ------------------------------
(* Task 101 is over and the charge is 97, the header: under remote control the *)
(* rest of such a frame reads like a frame that ends in the next one, of task  *)
(* 141.  The last frame reads like another one when it loses its mode.         *)
EXTENDS BridgeLink

MCPayloads ==
    {<<101, 101, 0, mode, 97, 0, 0>> : mode \in {Remote, Automatic, Parked}}
    \cup {<<141, 0, 1, Automatic, 50, 0, 0>>, <<101, 0, 1, Automatic, 25, 0, 0>>}

================================================================================
