------------------------------- MODULE BridgeLink -------------------------------
(***************************************************************************)
(* The serial link from the firmware to the bridge, byte by byte: the       *)
(* firmware sends a feedback frame of twelve bytes every few ticks of a     *)
(* timer, the receiving thread of the bridge finds the frames in the        *)
(* stream, publishes what they say, and reports the edges of the mode that  *)
(* the vehicle is taken over and given back by.                             *)
(*                                                                          *)
(* The thread is run for every byte: how the bytes are cut into reads does  *)
(* not change what it finds.  The two intervals of the debouncing are told  *)
(* only by whether they are over.                                           *)
(***************************************************************************)
EXTENDS Naturals, Sequences

CONSTANTS
    Payloads,    \* the seven bytes a frame may say: see usart5Create
    NoFrame

Byte == 0..255

\* FRAME_HEADER
Header == 97

\* The number of the task is 0 or from 101 on, what is over is a number or 0, and
\* the state of the task is 9 at the most: the first three bytes are no headers.
\* The charge may be one.
ASSUME BridgeLinkAssumption ==
    /\ Payloads \subseteq [1..7 -> Byte]
    /\ \A payload \in Payloads : \A i \in 1..3 : payload[i] # Header
    /\ NoFrame \notin [1..7 -> Byte]

\* The modes of AGV_remote_status.
Remote == 1
Automatic == 2
Parked == 3

VARIABLES
    line,                \* the bytes of the frame under way
    lost,                \* this frame has lost a byte
    buf,                 \* buf of rxThread
    fb,                  \* what was published last on task_sequence_complete
    g_last_agv_status,
    \* g_debounce_ms and debounces_ms are over
    takeoverSettled, cancelSettled,
    \* observation only: the frame sent last, unless it has been read; the last
    \* event published since the bridge was started; whether the last edge of the
    \* mode was one that the bridge passes over
    onWay, told, passedOver

linkVars  == <<line, lost, buf, fb, onWay>>
eventVars == <<g_last_agv_status, takeoverSettled, cancelSettled, told, passedOver>>

vars == <<linkVars, eventVars>>

Init ==
    /\ line = <<>> /\ lost = FALSE /\ buf = <<>>
    /\ fb = NoFrame /\ onWay = NoFrame
    /\ g_last_agv_status = Parked
    /\ takeoverSettled = TRUE /\ cancelSettled = TRUE
    /\ told = "nothing" /\ passedOver = FALSE

-----------------------------------------------------------------------------
(* Frames *)

\* The bytes of a frame before the padding.
FrameLength == 9

Checksum(f) == (f[1] + f[2] + f[3] + f[4] + f[5] + f[6] + f[7]) % 256

\* usart5Create and UART5_SendArray: the frame is three bytes longer than what
\* the bridge reads.
FrameOf(payload) == <<Header>> \o payload \o <<Checksum(payload)>> \o <<0, 0, 0>>

\* The mode a frame speaks of.
Mode(payload) == payload[4]

\* The message rxThread makes of a frame: there the mode comes before the state
\* of the task.
Message(payload) == [payload EXCEPT ![3] = payload[4], ![4] = payload[3]]

\* The stream from its first header on.
FromHeader(stream) ==
    LET headers == {i \in DOMAIN stream : stream[i] = Header}
    IN  IF headers = {} THEN <<>>
        ELSE SubSeq(stream, CHOOSE i \in headers : \A j \in headers : i <= j, Len(stream))

\* Mutant: everything a bad frame took is thrown away.
RestAll(stream) == <<>>

\* Mutant: nothing is thrown away.
RestKeeps(stream) == stream

\* After a bad checksum only the header is thrown away.
Rest(stream) == FromHeader(Tail(stream))

\* Mutant: the checksum is not looked at.
SoundAlways(stream) == Len(stream) = FrameLength

Sound(stream) == stream[9] = Checksum(Tail(stream))

-----------------------------------------------------------------------------
(* Events *)

\* Mutant: a cancellation is told only from remote control.
CancelsFromRemote(mode) == g_last_agv_status = Remote /\ mode = Automatic

Cancels(mode) == g_last_agv_status \in {Remote, Parked} /\ mode = Automatic

TakesOver(mode) == g_last_agv_status = Automatic /\ mode = Parked

\* The edges that are not published: within the intervals, and by another way
\* than through Parked.
PassedOver(mode) ==
    \/ mode = Automatic /\ (~cancelSettled \/ g_last_agv_status \notin {Remote, Parked})
    \/ mode # Automatic /\ (~takeoverSettled \/ mode # Parked)

\* What the bridge makes of the mode of a frame it has read.
Events(mode) ==
    LET takeover == TakesOver(mode) /\ takeoverSettled
        cancel   == Cancels(mode) /\ cancelSettled
        edge     == (g_last_agv_status = Automatic) # (mode = Automatic)
    IN  /\ g_last_agv_status' = mode
        /\ takeoverSettled' = (takeoverSettled /\ ~takeover)
        /\ cancelSettled' = (cancelSettled /\ ~cancel)
        /\ told' = IF takeover THEN "takeover" ELSE IF cancel THEN "cancel" ELSE told
        /\ passedOver' = IF edge THEN PassedOver(mode) ELSE passedOver

-----------------------------------------------------------------------------
(* Steps *)

\* The main loop sends a frame; the one before has left the port.
SendFeedback ==
    /\ line = <<>>
    /\ \E payload \in Payloads : line' = FrameOf(payload) /\ onWay' = payload
    /\ lost' = FALSE
    /\ UNCHANGED <<buf, fb, eventVars>>

\* A byte comes in, and rxThread looks at what it has.
rxThread ==
    /\ line # <<>> /\ line' = Tail(line)
    /\ LET stream == FromHeader(Append(buf, Head(line)))
       IN  \/ /\ Len(stream) < FrameLength
              /\ buf' = stream
              /\ UNCHANGED <<fb, onWay, eventVars>>
           \/ /\ Len(stream) = FrameLength /\ ~Sound(stream)
              /\ buf' = Rest(stream)
              /\ UNCHANGED <<fb, onWay, eventVars>>
           \/ /\ Len(stream) = FrameLength /\ Sound(stream)
              /\ buf' = <<>>
              /\ fb' = Message(SubSeq(stream, 2, 8))
              /\ onWay' = NoFrame
              /\ Events(Mode(SubSeq(stream, 2, 8)))
    /\ UNCHANGED lost

\* A byte is lost; at most one of a frame.
LoseByte ==
    /\ line # <<>> /\ ~lost
    /\ line' = Tail(line) /\ lost' = TRUE
    /\ UNCHANGED <<buf, fb, onWay, eventVars>>

\* An interval is over.
Settle ==
    /\ takeoverSettled' \in {takeoverSettled, TRUE}
    /\ cancelSettled' \in {cancelSettled, TRUE}
    /\ UNCHANGED <<linkVars, g_last_agv_status, told, passedOver>>

\* The bridge is started again, in the midst of a frame or between two.
Restart ==
    /\ buf' = <<>> /\ lost' = TRUE
    /\ g_last_agv_status' = Parked
    /\ takeoverSettled' = TRUE /\ cancelSettled' = TRUE
    /\ told' = "nothing" /\ passedOver' = FALSE
    /\ UNCHANGED <<line, fb, onWay>>

Next == SendFeedback \/ rxThread \/ LoseByte \/ Settle \/ Restart

Spec == Init /\ [][Next]_vars

\* The main loop goes on sending, and the bytes leave the port.
FairSpec == Spec /\ WF_vars(SendFeedback) /\ WF_vars(rxThread)

-----------------------------------------------------------------------------
(* Properties *)

\* Every variable has a value of its type.
TypeOK ==
    /\ line \in Seq(Byte) /\ Len(line) <= 12
    /\ buf \in Seq(Byte) /\ Len(buf) < FrameLength
    /\ lost \in BOOLEAN
    /\ onWay \in Payloads \cup {NoFrame}
    /\ fb = NoFrame \/ fb \in [1..7 -> Byte]
    /\ g_last_agv_status \in Byte
    /\ takeoverSettled \in BOOLEAN /\ cancelSettled \in BOOLEAN
    /\ told \in {"nothing", "takeover", "cancel"}
    /\ passedOver \in BOOLEAN

\* What may come in of a frame: at most one byte is lost.
Without(frame, i) == SubSeq(frame, 1, i - 1) \o SubSeq(frame, i + 1, Len(frame))

Received(payload) ==
    {FrameOf(payload)} \cup {Without(FrameOf(payload), i) : i \in 1..12}

\* From its i-th byte on the stream reads like a frame that says the payload.
ReadsAt(stream, i, payload) ==
    /\ stream[i] = Header
    /\ payload = SubSeq(stream, i + 1, i + 7)
    /\ stream[i + 8] = Checksum(payload)

\* The payloads that one byte of checksum does not protect: what comes in of such
\* a frame, after what came in of another one, may read like a frame that says
\* something else, from a byte of the other one or from its own header on.
Weak == {payload \in Payloads :
            \E other \in Payloads : \E x \in Received(other), y \in Received(payload) :
                \E i \in (Len(x) - 7)..(Len(x) + 1) :
                    LET said == SubSeq(x \o y, i + 1, i + 7)
                    IN  said # payload /\ ReadsAt(x \o y, i, said)}

\* What is published was sent, in its order and once, also when bytes are lost.
\* A message is taken for the frame it was made of.
Link == INSTANCE Feedback WITH fb <- IF fb = NoFrame THEN NoFrame ELSE Message(fb)
Implements == Link!Spec

\* Once no more bytes are lost every frame is read in the end, whatever the
\* bytes of the frames are: also one whose charge looks like a header.
Resyncs == <>[]~lost => <>[](line = <<>> => onWay = NoFrame)

\* The event told last is right, unless the bridge passed over the last edge.
ToldRight ==
    told # "nothing" /\ ~passedOver => (told = "cancel" <=> g_last_agv_status = Automatic)
===============================================================================
