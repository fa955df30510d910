-------------------------------- MODULE Feedback --------------------------------
(***************************************************************************)
(* What the serial link from the firmware to the bridge promises: the       *)
(* bridge publishes the feedback frames that were sent, in their order,     *)
(* each at most once; a frame may be lost.  The one byte of checksum is too *)
(* weak for some frames: one of these may be read as something else.        *)
(***************************************************************************)
EXTENDS Naturals, Sequences

CONSTANTS
    Payloads,  \* what the frames may say
    Weak,      \* those of them that a checksum of one byte does not protect
    NoFrame

VARIABLES
    onWay,     \* the frame sent last, unless it has been read
    fb         \* what the bridge has published last

vars == <<onWay, fb>>

Init == onWay = NoFrame /\ fb = NoFrame

\* A frame that has not been read by now is lost.
Send ==
    /\ onWay' \in Payloads
    /\ UNCHANGED fb

Publish ==
    /\ onWay # NoFrame
    /\ \/ fb' = onWay
       \/ onWay \in Weak /\ fb' \in Seq(0..255)
    /\ onWay' = NoFrame

Next == Send \/ Publish

Spec == Init /\ [][Next]_vars

================================================================================
