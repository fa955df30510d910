---------------------------- MODULE BridgeLinkProofs ----------------------------
(***************************************************************************)
(* Type correctness of BridgeLink and the sense of its events, for all      *)
(* frames: the buffer of the receiving thread never holds a whole frame     *)
(* between two bytes, and the event told last is right unless the bridge    *)
(* passed over the last edge of the mode.                                   *)
(***************************************************************************)
EXTENDS BridgeLink, SequenceTheorems, TLAPS

\* The types of what the thread tells.
EventsOK ==
    /\ g_last_agv_status \in Byte
    /\ takeoverSettled \in BOOLEAN /\ cancelSettled \in BOOLEAN
    /\ told \in {"nothing", "takeover", "cancel"}
    /\ passedOver \in BOOLEAN

IInv == TypeOK /\ ToldRight

\* What is used of bytes.
LEMMA Bytes ==
    /\ Byte \subseteq Nat /\ 0..255 = Byte
    /\ 0 \in Byte /\ Header \in Byte /\ Parked \in Byte
BY DEF Byte, Header, Parked

\* A checksum is a byte.
LEMMA ChecksumType ==
    ASSUME NEW f \in Seq(Byte), Len(f) >= 7
    PROVE  Checksum(f) \in Byte
<1>1. \A i \in 1..7 : f[i] \in Nat
  <2> SUFFICES ASSUME NEW i \in 1..7 PROVE f[i] \in Nat
    OBVIOUS
  <2>1. i \in 1..Len(f)
    BY LenProperties
  <2> QED  BY <2>1, ElementOfSeq, Bytes
<1>5. f[1] \in Nat /\ f[2] \in Nat /\ f[3] \in Nat /\ f[4] \in Nat
      /\ f[5] \in Nat /\ f[6] \in Nat /\ f[7] \in Nat
  <2>1. 1 \in 1..7 /\ 2 \in 1..7 /\ 3 \in 1..7 /\ 4 \in 1..7 /\ 5 \in 1..7 /\ 6 \in 1..7 /\ 7 \in 1..7
    OBVIOUS
  <2> QED  BY <1>1, <2>1, Zenon
<1>2. f[1] + f[2] + f[3] + f[4] + f[5] + f[6] + f[7] \in Nat
  <2>1. \A a, b, c, d, e, g, h \in Nat : a + b + c + d + e + g + h \in Nat
    OBVIOUS
  <2> QED  BY <1>5, <2>1, ZenonT(40)
<1>3. \A sum \in Nat : sum % 256 \in 0..255
  OBVIOUS
<1>4. Checksum(f) \in 0..255
  BY <1>2, <1>3 DEF Checksum
<1> QED  BY <1>4, Bytes

\* A payload is a sequence of seven bytes.
LEMMA PayloadType ==
    ASSUME NEW payload \in Payloads
    PROVE  payload \in Seq(Byte) /\ Len(payload) = 7
<1>1. payload \in [1..7 -> Byte]
  BY BridgeLinkAssumption
<1>2. payload \in Seq(Byte)
  <2>1. payload \in UNION {[1..n -> Byte] : n \in Nat}
    BY <1>1
  <2> QED  BY <2>1, SeqDef, Zenon
<1>3. Len(payload) = 7
  <2>1. DOMAIN payload = 1..7 /\ DOMAIN payload = 1..Len(payload) /\ Len(payload) \in Nat
    BY <1>1, <1>2, LenProperties
  <2> QED  BY <2>1
<1> QED  BY <1>2, <1>3

\* A frame has twelve bytes.
LEMMA FrameType ==
    ASSUME NEW payload \in Payloads
    PROVE  FrameOf(payload) \in Seq(Byte) /\ Len(FrameOf(payload)) = 12
<1>1. payload \in Seq(Byte) /\ Len(payload) = 7
  BY PayloadType
<1>2. Checksum(payload) \in Byte
  <2>1. Len(payload) >= 7
    BY <1>1
  <2> QED  BY <1>1, <2>1, ChecksumType, Zenon
<1>3. /\ <<Header>> \in Seq(Byte) /\ Len(<<Header>>) = 1
      /\ <<Checksum(payload)>> \in Seq(Byte) /\ Len(<<Checksum(payload)>>) = 1
      /\ <<0, 0, 0>> \in Seq(Byte) /\ Len(<<0, 0, 0>>) = 3
  BY <1>2, Bytes
<1>4. /\ <<Header>> \o payload \in Seq(Byte)
      /\ Len(<<Header>> \o payload) = 8
  <2>1. Len(<<Header>> \o payload) = Len(<<Header>>) + Len(payload)
    BY <1>1, <1>3, ConcatProperties, Zenon
  <2> QED  BY <1>1, <1>3, <2>1, ConcatProperties
<1>5. /\ (<<Header>> \o payload) \o <<Checksum(payload)>> \in Seq(Byte)
      /\ Len((<<Header>> \o payload) \o <<Checksum(payload)>>) = 9
  BY <1>3, <1>4, ConcatProperties
<1>6. /\ ((<<Header>> \o payload) \o <<Checksum(payload)>>) \o <<0, 0, 0>> \in Seq(Byte)
      /\ Len(((<<Header>> \o payload) \o <<Checksum(payload)>>) \o <<0, 0, 0>>) = 12
  BY <1>3, <1>5, ConcatProperties
<1> QED  BY <1>6 DEF FrameOf

\* A set of positions in a short stream has a first one, unless it is empty.
LEMMA FirstPosition ==
    ASSUME NEW S \in SUBSET (1..9), S # {}
    PROVE  \E i \in S : \A j \in S : i <= j
<1>1. 1..9 = {1, 2, 3, 4, 5, 6, 7, 8, 9}
  OBVIOUS
<1>2. \A j \in S : j \in {1, 2, 3, 4, 5, 6, 7, 8, 9}
  BY <1>1
<1>3. CASE 1 \in S
  BY <1>2, <1>3
<1>4. CASE 1 \notin S /\ 2 \in S
  BY <1>2, <1>4
<1>5. CASE 1 \notin S /\ 2 \notin S /\ 3 \in S
  BY <1>2, <1>5
<1>6. CASE {1, 2, 3} \cap S = {} /\ 4 \in S
  BY <1>2, <1>6
<1>7. CASE {1, 2, 3, 4} \cap S = {} /\ 5 \in S
  BY <1>2, <1>7
<1>8. CASE {1, 2, 3, 4, 5} \cap S = {} /\ 6 \in S
  BY <1>2, <1>8
<1>9. CASE {1, 2, 3, 4, 5, 6} \cap S = {} /\ 7 \in S
  BY <1>2, <1>9
<1>10. CASE {1, 2, 3, 4, 5, 6, 7} \cap S = {} /\ 8 \in S
  BY <1>2, <1>10
<1>11. CASE {1, 2, 3, 4, 5, 6, 7, 8} \cap S = {}
  <2>1. S = {9}
    BY <1>2, <1>11
  <2> QED  BY <2>1
<1> QED  BY <1>3, <1>4, <1>5, <1>6, <1>7, <1>8, <1>9, <1>10, <1>11

\* What FromHeader leaves of a stream.
LEMMA FromHeaderType ==
    ASSUME NEW stream \in Seq(Byte), Len(stream) <= 9
    PROVE  FromHeader(stream) \in Seq(Byte) /\ Len(FromHeader(stream)) <= Len(stream)
<1> DEFINE headers == {i \in DOMAIN stream : stream[i] = Header}
<1>1. CASE headers = {}
  BY <1>1 DEF FromHeader
<1>2. CASE headers # {}
  <2> DEFINE first == CHOOSE i \in headers : \A j \in headers : i <= j
  <2>1. headers \subseteq 1..Len(stream) /\ Len(stream) \in Nat /\ headers \subseteq 1..9
    BY LenProperties
  <2>2. \E i \in headers : \A j \in headers : i <= j
    BY <1>2, <2>1, FirstPosition
  <2>3. first \in headers
    BY <2>2
  <2>4. FromHeader(stream) = SubSeq(stream, first, Len(stream))
    BY <1>2, Zenon DEF FromHeader
  <2> HIDE DEF first
  <2>5. \A i \in first..Len(stream) : stream[i] \in Byte
    BY <2>1, <2>3, ElementOfSeq
  <2>6. first \in Int /\ Len(stream) \in Int /\ first >= 1
    BY <2>1, <2>3
  <2>7. /\ SubSeq(stream, first, Len(stream)) \in Seq(Byte)
        /\ Len(SubSeq(stream, first, Len(stream)))
             = IF first <= Len(stream) THEN Len(stream) - first + 1 ELSE 0
    BY <2>5, <2>6, SubSeqProperties
  <2> QED  BY <2>1, <2>4, <2>6, <2>7
<1> QED  BY <1>1, <1>2

\* The events of a mode are right again, or the edge was passed over.
LEMMA EventsStep ==
    ASSUME EventsOK, ToldRight, NEW mode \in Byte, Events(mode)
    PROVE  EventsOK' /\ ToldRight'
<1> DEFINE takeover == TakesOver(mode) /\ takeoverSettled
           cancel == Cancels(mode) /\ cancelSettled
           edge == (g_last_agv_status = Automatic) # (mode = Automatic)
<1>1. /\ g_last_agv_status' = mode
      /\ takeoverSettled' = (takeoverSettled /\ ~takeover)
      /\ cancelSettled' = (cancelSettled /\ ~cancel)
      /\ told' = IF takeover THEN "takeover" ELSE IF cancel THEN "cancel" ELSE told
      /\ passedOver' = IF edge THEN PassedOver(mode) ELSE passedOver
  BY Zenon DEF Events
<1>2. takeoverSettled' \in BOOLEAN /\ cancelSettled' \in BOOLEAN
  BY <1>1, Zenon
<1>3. PassedOver(mode) \in BOOLEAN
  BY Zenon DEF PassedOver
<1>4. passedOver' \in BOOLEAN
  BY <1>1, <1>3, Zenon DEF EventsOK
<1>5. EventsOK'
  BY <1>1, <1>2, <1>4 DEF EventsOK
<1>6. CASE edge /\ mode = Automatic /\ ~PassedOver(mode)
  <2>1. cancelSettled /\ Cancels(mode) /\ ~TakesOver(mode)
    BY <1>6 DEF PassedOver, Cancels, TakesOver, Automatic, Parked
  <2>2. told' = "cancel"
    BY <1>1, <2>1, Zenon
  <2> QED  BY <1>1, <1>5, <1>6, <2>2 DEF ToldRight
<1>7. CASE edge /\ mode # Automatic /\ ~PassedOver(mode)
  <2>1. takeoverSettled /\ TakesOver(mode)
    BY <1>7 DEF PassedOver, TakesOver
  <2>2. told' = "takeover"
    BY <1>1, <2>1, Zenon
  <2> QED  BY <1>1, <1>5, <1>7, <2>2 DEF ToldRight
<1>8. CASE edge /\ PassedOver(mode)
  <2>1. passedOver'
    BY <1>1, <1>8, Zenon
  <2> QED  BY <1>5, <2>1 DEF ToldRight
<1>9. CASE ~edge
  <2>1. ~TakesOver(mode) /\ ~Cancels(mode)
    BY <1>9 DEF Cancels, TakesOver, Automatic, Parked, Remote
  <2>2. told' = told /\ passedOver' = passedOver
    BY <1>1, <1>9, <2>1, Zenon
  <2> QED  BY <1>1, <1>5, <1>9, <2>2 DEF ToldRight
<1> QED  BY <1>6, <1>7, <1>8, <1>9, Zenon

LEMMA Initial == Init => IInv
<1> SUFFICES ASSUME Init PROVE IInv
  OBVIOUS
<1>1. EventsOK
  BY Bytes DEF Init, EventsOK
<1>2. line \in Seq(Byte) /\ Len(line) <= 12 /\ buf \in Seq(Byte) /\ Len(buf) < FrameLength
  BY DEF Init, FrameLength
<1>3. lost \in BOOLEAN /\ onWay \in Payloads \cup {NoFrame} /\ fb = NoFrame
  BY DEF Init
<1> QED  BY <1>1, <1>2, <1>3 DEF IInv, TypeOK, EventsOK, ToldRight, Init

\* What a byte does.
LEMMA ThreadStep ==
    ASSUME IInv, rxThread
    PROVE  TypeOK' /\ ToldRight'
<1> USE DEF IInv, TypeOK
<1>1. line # <<>> /\ line' = Tail(line) /\ lost' = lost
  BY DEF rxThread
<1>2. line' \in Seq(Byte) /\ Len(line') <= 12 /\ Head(line) \in Byte
  BY <1>1
<1> DEFINE stream == FromHeader(Append(buf, Head(line)))
<1>3. Append(buf, Head(line)) \in Seq(Byte) /\ Len(Append(buf, Head(line))) <= 9
  BY <1>2 DEF FrameLength
<1>4. stream \in Seq(Byte) /\ Len(stream) <= 9
  <2>1. /\ FromHeader(Append(buf, Head(line))) \in Seq(Byte)
        /\ Len(FromHeader(Append(buf, Head(line)))) <= Len(Append(buf, Head(line)))
    BY <1>3, FromHeaderType, Zenon
  <2>2. Len(FromHeader(Append(buf, Head(line)))) \in Nat /\ Len(Append(buf, Head(line))) \in Nat
    BY <1>3, <2>1, LenProperties, Zenon
  <2> QED  BY <1>3, <2>1, <2>2 DEF stream
<1> HIDE DEF stream
<1>5. EventsOK
  BY DEF EventsOK
<1>6. CASE Len(stream) < FrameLength /\ buf' = stream /\ UNCHANGED <<fb, onWay, eventVars>>
  <2>1. UNCHANGED <<g_last_agv_status, takeoverSettled, cancelSettled, told, passedOver, fb, onWay>>
    BY <1>6 DEF eventVars
  <2> QED  BY <1>1, <1>2, <1>4, <1>6, <2>1 DEF ToldRight
<1>7. CASE Len(stream) = FrameLength /\ buf' = Rest(stream) /\ UNCHANGED <<fb, onWay, eventVars>>
  <2>1. UNCHANGED <<g_last_agv_status, takeoverSettled, cancelSettled, told, passedOver, fb, onWay>>
    BY <1>7 DEF eventVars
  <2>2. Tail(stream) \in Seq(Byte) /\ Len(Tail(stream)) = 8
    <3>1. stream # <<>>
      <4>1. Len(stream) = 9 /\ Len(<<>>) = 0 /\ 9 # 0
        BY <1>7 DEF FrameLength
      <4> QED  BY <4>1, Zenon
    <3> QED  BY <1>4, <1>7, <3>1, HeadTailProperties DEF FrameLength
  <2>3. buf' \in Seq(Byte) /\ Len(buf') < FrameLength
    <3>1. /\ FromHeader(Tail(stream)) \in Seq(Byte)
          /\ Len(FromHeader(Tail(stream))) <= Len(Tail(stream))
      <4>1. Len(Tail(stream)) <= 9
        <5>1. 8 <= 9
          OBVIOUS
        <5> QED  BY <2>2, <5>1, Zenon
      <4> QED  BY <2>2, <4>1, FromHeaderType, Zenon
    <3>2. buf' = FromHeader(Tail(stream))
      BY <1>7, Zenon DEF Rest
    <3>3. Len(FromHeader(Tail(stream))) \in Nat
      BY <3>1, LenProperties
    <3> QED  BY <2>2, <3>1, <3>2, <3>3, SMTT(30) DEF FrameLength
  <2> QED  BY <1>1, <1>2, <2>1, <2>3 DEF ToldRight
<1>8. CASE /\ Len(stream) = FrameLength /\ buf' = <<>>
           /\ fb' = Message(SubSeq(stream, 2, 8)) /\ onWay' = NoFrame
           /\ Events(Mode(SubSeq(stream, 2, 8)))
  <2> DEFINE payload == SubSeq(stream, 2, 8)
  <2>1. payload \in [1..7 -> Byte]
    <3>1. payload \in Seq(Byte) /\ Len(payload) = 7
      <4>1. \A i \in 2..8 : stream[i] \in Byte
        <5>1. Len(stream) = 9 /\ \A i \in 2..8 : i \in 1..9
          BY <1>8 DEF FrameLength
        <5>2. \A i \in 1..Len(stream) : stream[i] \in Byte
          BY <1>4, ElementOfSeq, Zenon
        <5> QED  BY <5>1, <5>2, Zenon
      <4> QED  BY <4>1, SubSeqProperties
    <3>2. payload \in [1..Len(payload) -> Byte]
      BY <3>1, LenProperties
    <3> QED  BY <3>1, <3>2
  <2> HIDE DEF payload
  <2>2. fb' \in [1..7 -> Byte] /\ Mode(payload) \in Byte
    <3>1. Mode(payload) \in Byte
      BY <2>1 DEF Mode
    <3>2. Message(payload) \in [1..7 -> Byte]
      <4>1. payload[3] \in Byte /\ payload[4] \in Byte
        BY <2>1
      <4> QED  BY <2>1, <4>1 DEF Message
    <3> QED  BY <1>8, <3>1, <3>2 DEF payload
  <2>3. EventsOK' /\ ToldRight'
    BY <1>5, <1>8, <2>2, EventsStep DEF payload
  <2>4. buf' \in Seq(Byte) /\ Len(buf') < FrameLength
    BY <1>8 DEF FrameLength
  <2> QED  BY <1>1, <1>2, <1>8, <2>2, <2>3, <2>4 DEF EventsOK
<1> QED  BY <1>6, <1>7, <1>8 DEF rxThread, stream

LEMMA Inductive == IInv /\ [Next]_vars => IInv'
<1> SUFFICES ASSUME IInv, [Next]_vars PROVE IInv'
  OBVIOUS
<1> USE DEF IInv
<1>1. CASE SendFeedback
  <2>1. PICK payload \in Payloads : line' = FrameOf(payload) /\ onWay' = payload
    BY <1>1 DEF SendFeedback
  <2>2. line' \in Seq(Byte) /\ Len(line') <= 12
    <3>1. FrameOf(payload) \in Seq(Byte) /\ Len(FrameOf(payload)) = 12
      BY FrameType
    <3> QED  BY <2>1, <3>1
  <2>3. lost' = FALSE /\ UNCHANGED <<buf, fb, g_last_agv_status, takeoverSettled, cancelSettled,
                                     told, passedOver>>
    BY <1>1 DEF SendFeedback, eventVars
  <2> QED  BY <2>1, <2>2, <2>3 DEF TypeOK, ToldRight
<1>2. CASE rxThread
  BY <1>2, ThreadStep
<1>3. CASE LoseByte
  <2>1. line' \in Seq(Byte) /\ Len(line') <= 12
    BY <1>3 DEF LoseByte, TypeOK
  <2> QED  BY <1>3, <2>1 DEF LoseByte, TypeOK, ToldRight, eventVars
<1>4. CASE Settle
  <2>1. takeoverSettled' \in BOOLEAN /\ cancelSettled' \in BOOLEAN
    BY <1>4, Zenon DEF Settle, TypeOK
  <2> QED  BY <1>4, <2>1 DEF Settle, TypeOK, ToldRight, linkVars
<1>5. CASE Restart
  <2>1. buf' \in Seq(Byte) /\ Len(buf') < FrameLength
    BY <1>5 DEF Restart, FrameLength
  <2> QED  BY <1>5, <2>1, Bytes DEF Restart, TypeOK, ToldRight
<1>6. CASE UNCHANGED vars
  BY <1>6 DEF vars, linkVars, eventVars, TypeOK, ToldRight
<1> QED  BY <1>1, <1>2, <1>3, <1>4, <1>5, <1>6 DEF Next

\* Every variable keeps its type, whatever the frames say.
THEOREM Typed == Spec => []TypeOK
<1>1. IInv => TypeOK
  BY DEF IInv
<1> QED  BY <1>1, Initial, Inductive, PTL DEF Spec

\* The event told last is right unless the bridge passed over the last edge.
THEOREM EventsRight == Spec => []ToldRight
<1>1. IInv => ToldRight
  BY DEF IInv
<1> QED  BY <1>1, Initial, Inductive, PTL DEF Spec

================================================================================
