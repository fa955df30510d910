----------------------------- MODULE FeedbackProofs -----------------------------
(***************************************************************************)
(* BridgeLink implements Feedback, for all payloads: whatever bytes are     *)
(* lost and whenever the bridge is started again, it publishes each frame   *)
(* at most once and none but the frame under way, unless the checksum       *)
(* agrees with bytes it does not belong to (Weak).                          *)
(*                                                                          *)
(* The invariant cuts the stream: what the thread has is the end of what    *)
(* came in of two frames.  So a window of nine bytes that ends in a frame   *)
(* begins in it, at its header, or in the frame before.                     *)
(***************************************************************************)
EXTENDS BridgeLinkProofs

\* How far the frame under way has come: x came in of the frame before, come of
\* this one, and buf is the end of the two.  A frame that was read has left a
\* byte of it behind.
Cut(x, come, before, payload) ==
    /\ come \o line \in Received(payload)
    /\ ~lost => come \o line = FrameOf(payload)
    /\ before \o buf = x \o come
    /\ onWay = payload \/ (onWay = NoFrame /\ Len(buf) < Len(come))

\* Before the first frame there is nothing.
Nothing == line = <<>> /\ buf = <<>> /\ onWay = NoFrame

Framed ==
    \/ Nothing
    \/ \E other, payload \in Payloads : \E x \in Received(other) :
          \E come, before \in Seq(Byte) : Cut(x, come, before, payload)

-----------------------------------------------------------------------------
(* Sequences of bytes *)

\* A sequence is its head and its tail.
LEMMA HeadAndTail ==
    \A s \in Seq(Byte) : s # <<>> => <<Head(s)>> \o Tail(s) = s
<1> SUFFICES ASSUME NEW s \in Seq(Byte), s # <<>> PROVE <<Head(s)>> \o Tail(s) = s
  OBVIOUS
<1>1. Head(s) \in Byte /\ Tail(s) \in Seq(Byte)
  BY HeadTailProperties
<1> QED  BY <1>1

\* A byte that comes in goes from the line to what has come.
LEMMA ByteComesIn ==
    ASSUME NEW come \in Seq(Byte), NEW rest \in Seq(Byte), rest # <<>>
    PROVE  /\ Append(come, Head(rest)) \in Seq(Byte)
           /\ Append(come, Head(rest)) \o Tail(rest) = come \o rest
<1>1. Head(rest) \in Byte /\ Tail(rest) \in Seq(Byte)
  BY HeadTailProperties
<1>2. Append(come, Head(rest)) \in Seq(Byte)
  BY <1>1, AppendProperties
<1>3. Append(come, Head(rest)) = come \o <<Head(rest)>>
  BY <1>1, AppendIsConcat
<1>4. <<Head(rest)>> \in Seq(Byte)
  BY <1>1
<1>5. (come \o <<Head(rest)>>) \o Tail(rest) = come \o (<<Head(rest)>> \o Tail(rest))
  BY <1>1, <1>4, ConcatAssociative
<1>6. <<Head(rest)>> \o Tail(rest) = rest
  BY HeadAndTail, Zenon
<1> QED  BY <1>2, <1>3, <1>5, <1>6

\* A byte that is lost is the one after those that have come.
LEMMA ByteIsLost ==
    ASSUME NEW come \in Seq(Byte), NEW rest \in Seq(Byte), rest # <<>>
    PROVE  Without(come \o rest, Len(come) + 1) = come \o Tail(rest)
<1> DEFINE all == come \o rest  n == Len(come)
<1>1. /\ all \in Seq(Byte) /\ Len(all) = n + Len(rest)
      /\ n \in Nat /\ Len(rest) \in Nat \ {0}
      /\ \A i \in 1..n + Len(rest) : all[i] = IF i <= n THEN come[i] ELSE rest[i - n]
  BY ConcatProperties, LenProperties, EmptySeq
<1>2. /\ Tail(rest) \in Seq(Byte) /\ Len(Tail(rest)) = Len(rest) - 1
      /\ \A i \in 1..Len(Tail(rest)) : Tail(rest)[i] = rest[i + 1]
  BY HeadTailProperties
<1> HIDE DEF all, n
<1>3. \A i \in 1..Len(all) : all[i] \in Byte
  BY <1>1, ElementOfSeq
<1>4. SubSeq(all, 1, n) = come
  <2>1. /\ SubSeq(all, 1, n) \in Seq(Byte) /\ Len(SubSeq(all, 1, n)) = n
        /\ \A i \in 1..n : SubSeq(all, 1, n)[i] = all[i]
    BY <1>1, <1>3, SubSeqProperties
  <2>2. \A i \in 1..n : SubSeq(all, 1, n)[i] = come[i]
    BY <1>1, <2>1
  <2> QED  BY <2>1, <2>2, SeqEqual DEF n
<1>5. SubSeq(all, n + 2, Len(all)) = Tail(rest)
  <2>1. \A i \in (n + 2)..Len(all) : all[i] \in Byte
    BY <1>1, <1>3
  <2>2. /\ SubSeq(all, n + 2, Len(all)) \in Seq(Byte)
        /\ Len(SubSeq(all, n + 2, Len(all)))
             = IF n + 2 <= Len(all) THEN Len(all) - (n + 2) + 1 ELSE 0
        /\ \A i \in 1..(Len(all) - (n + 2) + 1) :
              SubSeq(all, n + 2, Len(all))[i] = all[n + 2 + i - 1]
    <3>1. n + 2 \in Int /\ Len(all) \in Int
      BY <1>1
    <3> QED  BY <2>1, <3>1, SubSeqProperties
  <2>3. Len(SubSeq(all, n + 2, Len(all))) = Len(Tail(rest))
    BY <1>1, <1>2, <2>2
  <2>4. ASSUME NEW i \in 1..Len(Tail(rest))
        PROVE  SubSeq(all, n + 2, Len(all))[i] = Tail(rest)[i]
    <3>1. SubSeq(all, n + 2, Len(all))[i] = all[n + 1 + i]
      BY <1>1, <1>2, <2>2
    <3>2. all[n + 1 + i] = rest[i + 1]
      BY <1>1, <1>2
    <3> QED  BY <1>2, <3>1, <3>2
  <2> QED  BY <1>2, <2>2, <2>3, <2>4, SeqEqual
<1>6. Without(all, n + 1) = SubSeq(all, 1, n) \o SubSeq(all, n + 2, Len(all))
  <2>1. (n + 1) - 1 = n /\ (n + 1) + 1 = n + 2
    BY <1>1
  <2> QED  BY <2>1, Zenon DEF Without
<1> QED  BY <1>4, <1>5, <1>6 DEF all, n

\* The sequence ends with another one.
EndsWith(s, end) == \E head \in Seq(Byte) : head \o end = s

\* The end of two sequences that is not longer than the second is an end of it.
LEMMA EndOfSecond ==
    ASSUME NEW x \in Seq(Byte), NEW y \in Seq(Byte),
           NEW before \in Seq(Byte), NEW end \in Seq(Byte),
           before \o end = x \o y, Len(end) <= Len(y)
    PROVE  EndsWith(y, end)
<1> DEFINE n == Len(y) - Len(end)
<1>1. /\ Len(x) \in Nat /\ Len(y) \in Nat /\ Len(before) \in Nat /\ Len(end) \in Nat
      /\ n \in Nat /\ n <= Len(y)
  BY LenProperties
<1>2. /\ Len(before) + Len(end) = Len(x) + Len(y)
      /\ \A i \in 1..Len(before) + Len(end) :
            (before \o end)[i] = IF i <= Len(before) THEN before[i] ELSE end[i - Len(before)]
      /\ \A i \in 1..Len(x) + Len(y) :
            (x \o y)[i] = IF i <= Len(x) THEN x[i] ELSE y[i - Len(x)]
  BY ConcatProperties
<1>3. Len(before) = Len(x) + n
  <2>1. Len(before) + Len(end) = Len(x) + Len(y)
    BY <1>2
  <2> QED  BY <1>1, <2>1
<1>4. \A i \in 1..Len(end) : end[i] = y[n + i]
  <2> SUFFICES ASSUME NEW i \in 1..Len(end) PROVE end[i] = y[n + i]
    OBVIOUS
  <2>1. /\ Len(before) + i \in 1..Len(before) + Len(end)
        /\ ~(Len(before) + i <= Len(before)) /\ Len(before) + i - Len(before) = i
    BY <1>1
  <2>2. (before \o end)[Len(before) + i] = end[i]
    BY <1>2, <2>1
  <2>3. /\ Len(before) + i \in 1..Len(x) + Len(y)
        /\ ~(Len(before) + i <= Len(x)) /\ Len(before) + i - Len(x) = n + i
    BY <1>1, <1>3
  <2>4. (x \o y)[Len(before) + i] = y[n + i]
    BY <1>2, <2>3
  <2> QED  BY <2>2, <2>4
<1>5. SubSeq(y, n + 1, Len(y)) = end
  <2>1. \A i \in n + 1..Len(y) : y[i] \in Byte
    <3>1. \A i \in n + 1..Len(y) : i \in 1..Len(y)
      BY <1>1
    <3> QED  BY <3>1, ElementOfSeq
  <2>2. /\ SubSeq(y, n + 1, Len(y)) \in Seq(Byte)
        /\ Len(SubSeq(y, n + 1, Len(y))) = IF n + 1 <= Len(y) THEN Len(y) - (n + 1) + 1 ELSE 0
        /\ \A i \in 1..Len(y) - (n + 1) + 1 :
              SubSeq(y, n + 1, Len(y))[i] = y[n + 1 + i - 1]
    <3>1. n + 1 \in Int /\ Len(y) \in Int
      BY <1>1
    <3> HIDE DEF n
    <3> QED  BY <2>1, <3>1, SubSeqProperties
  <2>3. Len(SubSeq(y, n + 1, Len(y))) = Len(end)
    BY <1>1, <2>2
  <2>4. ASSUME NEW i \in 1..Len(end)
        PROVE  SubSeq(y, n + 1, Len(y))[i] = end[i]
    <3>1. i \in 1..Len(y) - (n + 1) + 1 /\ n + 1 + i - 1 = n + i
      BY <1>1
    <3> QED  BY <1>4, <2>2, <3>1
  <2> QED  BY <2>2, <2>3, <2>4, SeqEqual
<1>6. SubSeq(y, 1, n) \o SubSeq(y, n + 1, Len(y)) = SubSeq(y, 1, Len(y))
  <2>1. 1 \in 1..Len(y) + 1 /\ n \in 1 - 1..Len(y) /\ Len(y) \in n..Len(y)
    BY <1>1
  <2> HIDE DEF n
  <2> QED  BY <2>1, ConcatAdjacentSubSeq
<1>7. SubSeq(y, 1, n) \in Seq(Byte)
  <2>1. \A i \in 1..n : y[i] \in Byte
    <3>1. \A i \in 1..n : i \in 1..Len(y)
      BY <1>1
    <3> QED  BY <3>1, ElementOfSeq
  <2> QED  BY <1>1, <2>1, SubSeqProperties
<1>8. SubSeq(y, 1, n) \o end = y
  BY <1>5, <1>6, SubSeqFull
<1> QED  BY <1>7, <1>8, Zenon DEF EndsWith

\* Whatever follows two sequences may be put to the second first.
Associates(s, t) == \A u \in Seq(Byte) : (s \o t) \o u = s \o (t \o u)

LEMMA ConcatAssoc ==
    ASSUME NEW s \in Seq(Byte), NEW t \in Seq(Byte)
    PROVE  Associates(s, t)
BY ConcatAssociative DEF Associates

\* The length of two sequences.
LEMMA ConcatLen == \A s, t \in Seq(Byte) : Len(s \o t) = Len(s) + Len(t)
BY ConcatProperties

-----------------------------------------------------------------------------
(* Frames *)

\* The bytes of a frame: its header, and what it says.
LEMMA FrameBytes ==
    ASSUME NEW payload \in Payloads
    PROVE  /\ FrameOf(payload)[1] = Header
           /\ \A i \in 1..7 : FrameOf(payload)[i + 1] = payload[i]
<1>1. payload \in Seq(Byte) /\ Len(payload) = 7
  BY PayloadType
<1>2. Checksum(payload) \in Byte
  <2>1. Len(payload) >= 7
    BY <1>1
  <2> QED  BY <1>1, <2>1, ChecksumType, Zenon
<1> DEFINE head == <<Header>>  sum == <<Checksum(payload)>>  padding == <<0, 0, 0>>
           one == head \o payload  two == one \o sum  frame == two \o padding
<1>3. /\ head \in Seq(Byte) /\ Len(head) = 1 /\ head[1] = Header
      /\ sum \in Seq(Byte) /\ Len(sum) = 1
      /\ padding \in Seq(Byte) /\ Len(padding) = 3
  BY <1>2, Bytes
<1>4. FrameOf(payload) = frame
  BY Zenon DEF FrameOf
<1> HIDE DEF head, sum, padding
<1>5. /\ one \in Seq(Byte) /\ Len(one) = 8
      /\ \A i \in 1..8 : one[i] = IF i <= 1 THEN head[i] ELSE payload[i - 1]
  <2>1. /\ one \in Seq(Byte) /\ Len(one) = Len(head) + Len(payload)
        /\ \A i \in 1..Len(head) + Len(payload) :
              one[i] = IF i <= Len(head) THEN head[i] ELSE payload[i - Len(head)]
    BY <1>1, <1>3, ConcatProperties
  <2> HIDE DEF one
  <2> QED  BY <1>1, <1>3, <2>1
<1> HIDE DEF one
<1>6. two \in Seq(Byte) /\ Len(two) = 9 /\ \A i \in 1..8 : two[i] = one[i]
  <2>1. /\ two \in Seq(Byte) /\ Len(two) = Len(one) + Len(sum)
        /\ \A i \in 1..Len(one) + Len(sum) :
              two[i] = IF i <= Len(one) THEN one[i] ELSE sum[i - Len(one)]
    BY <1>3, <1>5, ConcatProperties
  <2> HIDE DEF two
  <2> QED  BY <1>3, <1>5, <2>1
<1> HIDE DEF two
<1>7. \A i \in 1..8 : frame[i] = two[i]
  <2>1. \A i \in 1..Len(two) + Len(padding) :
           frame[i] = IF i <= Len(two) THEN two[i] ELSE padding[i - Len(two)]
    BY <1>3, <1>6, ConcatProperties
  <2> HIDE DEF frame
  <2> QED  BY <1>3, <1>6, <2>1
<1> HIDE DEF frame
<1>8. ASSUME NEW i \in 1..8
      PROVE  frame[i] = IF i <= 1 THEN head[i] ELSE payload[i - 1]
  <2>1. frame[i] = two[i] /\ two[i] = one[i]
    BY <1>6, <1>7, Zenon
  <2>2. one[i] = IF i <= 1 THEN head[i] ELSE payload[i - 1]
    BY <1>5, Zenon
  <2> QED  BY <2>1, <2>2, Zenon
<1>9. frame[1] = Header
  <2>1. 1 \in 1..8 /\ 1 <= 1
    OBVIOUS
  <2> QED  BY <1>3, <1>8, <2>1, Zenon
<1>10. ASSUME NEW i \in 1..7 PROVE frame[i + 1] = payload[i]
  <2>1. i + 1 \in 1..8 /\ ~(i + 1 <= 1) /\ (i + 1) - 1 = i
    OBVIOUS
  <2> QED  BY <1>8, <2>1
<1> QED  BY <1>4, <1>9, <1>10

\* A sequence without one of its elements.
LEMMA WithoutOne ==
    ASSUME NEW frame \in Seq(Byte), NEW i \in 1..Len(frame)
    PROVE  /\ Without(frame, i) \in Seq(Byte)
           /\ Len(Without(frame, i)) = Len(frame) - 1
           /\ \A k \in 1..Len(frame) - 1 :
                 Without(frame, i)[k] = IF k < i THEN frame[k] ELSE frame[k + 1]
<1> DEFINE a == SubSeq(frame, 1, i - 1)  b == SubSeq(frame, i + 1, Len(frame))
<1>1. Len(frame) \in Nat /\ i \in Nat /\ i >= 1 /\ i <= Len(frame)
  BY LenProperties
<1>2. \A k \in 1..Len(frame) : frame[k] \in Byte
  BY ElementOfSeq
<1>3. /\ a \in Seq(Byte) /\ Len(a) = i - 1
      /\ \A k \in 1..i - 1 : a[k] = frame[k]
  <2>1. \A k \in 1..i - 1 : frame[k] \in Byte
    BY <1>1, <1>2
  <2>2. i - 1 \in Int
    BY <1>1
  <2>3. /\ a \in Seq(Byte) /\ Len(a) = IF 1 <= i - 1 THEN (i - 1) - 1 + 1 ELSE 0
        /\ \A k \in 1..(i - 1) - 1 + 1 : a[k] = frame[1 + k - 1]
    BY <2>1, <2>2, SubSeqProperties
  <2> HIDE DEF a
  <2> QED  BY <1>1, <2>3
<1>4. /\ b \in Seq(Byte) /\ Len(b) = Len(frame) - i
      /\ \A k \in 1..Len(frame) - i : b[k] = frame[i + k]
  <2>1. \A k \in i + 1..Len(frame) : frame[k] \in Byte
    BY <1>1, <1>2
  <2>2. i + 1 \in Int /\ Len(frame) \in Int
    BY <1>1
  <2>3. /\ b \in Seq(Byte)
        /\ Len(b) = IF i + 1 <= Len(frame) THEN Len(frame) - (i + 1) + 1 ELSE 0
        /\ \A k \in 1..Len(frame) - (i + 1) + 1 : b[k] = frame[i + 1 + k - 1]
    BY <2>1, <2>2, SubSeqProperties
  <2> HIDE DEF b
  <2> QED  BY <1>1, <2>3
<1> HIDE DEF a, b
<1>5. Without(frame, i) = a \o b
  BY Zenon DEF Without, a, b
<1>6. /\ a \o b \in Seq(Byte) /\ Len(a \o b) = Len(a) + Len(b)
      /\ \A k \in 1..Len(a) + Len(b) : (a \o b)[k] = IF k <= Len(a) THEN a[k] ELSE b[k - Len(a)]
  BY <1>3, <1>4, ConcatProperties
<1>7. Len(a) + Len(b) = Len(frame) - 1
  BY <1>1, <1>3, <1>4
<1>8. ASSUME NEW k \in 1..Len(frame) - 1
      PROVE  (a \o b)[k] = IF k < i THEN frame[k] ELSE frame[k + 1]
  <2>1. CASE k < i
    <3>1. k \in 1..i - 1 /\ k <= Len(a) /\ k \in 1..Len(a) + Len(b)
      BY <1>1, <1>3, <1>7, <2>1
    <3> QED  BY <1>3, <1>6, <2>1, <3>1
  <2>2. CASE ~(k < i)
    <3>1. /\ ~(k <= Len(a)) /\ k - Len(a) = k - (i - 1) /\ k \in 1..Len(a) + Len(b)
          /\ k - (i - 1) \in 1..Len(frame) - i /\ i + (k - (i - 1)) = k + 1
      BY <1>1, <1>3, <1>7, <2>2
    <3>2. (a \o b)[k] = b[k - (i - 1)]
      BY <1>6, <3>1
    <3>3. b[k - (i - 1)] = frame[k + 1]
      BY <1>4, <3>1
    <3> QED  BY <2>2, <3>2, <3>3
  <2> QED  BY <2>1, <2>2
<1> QED  BY <1>5, <1>6, <1>7, <1>8

\* What comes in of a frame has eleven bytes at the least, and no window that
\* begins after its first byte and ends in it begins with a header.
LEMMA ReceivedBytes ==
    ASSUME NEW payload \in Payloads, NEW y \in Received(payload)
    PROVE  /\ y \in Seq(Byte) /\ Len(y) \in {11, 12}
           /\ \A k \in 2..Len(y) - 8 : y[k] # Header
<1> DEFINE frame == FrameOf(payload)
<1>1. frame \in Seq(Byte) /\ Len(frame) = 12
  BY FrameType
<1>2. \A k \in 2..4 : frame[k] # Header
  <2> SUFFICES ASSUME NEW k \in 2..4 PROVE frame[k] # Header
    OBVIOUS
  <2>1. k - 1 \in 1..3 /\ k - 1 \in 1..7 /\ (k - 1) + 1 = k
    OBVIOUS
  <2>2. FrameOf(payload)[k] = payload[k - 1]
    BY <2>1, FrameBytes
  <2>3. payload[k - 1] # Header
    BY <2>1, BridgeLinkAssumption
  <2> QED  BY <2>2, <2>3
<1> HIDE DEF frame
<1>3. CASE y = frame
  <2>1. y \in Seq(Byte) /\ Len(y) = 12 /\ \A k \in 2..4 : y[k] # Header
    BY <1>1, <1>2, <1>3
  <2>2. 2..Len(y) - 8 = 2..4
    BY <2>1
  <2> QED  BY <2>1, <2>2
<1>4. ASSUME NEW i \in 1..12, y = Without(frame, i)
      PROVE  /\ y \in Seq(Byte) /\ Len(y) \in {11, 12}
             /\ \A k \in 2..Len(y) - 8 : y[k] # Header
  <2>1. /\ y \in Seq(Byte) /\ Len(y) = 11
        /\ \A k \in 1..11 : y[k] = IF k < i THEN frame[k] ELSE frame[k + 1]
    <3>1. i \in 1..Len(frame) /\ Len(frame) - 1 = 11
      BY <1>1
    <3>2. /\ Without(frame, i) \in Seq(Byte)
          /\ Len(Without(frame, i)) = Len(frame) - 1
          /\ \A k \in 1..Len(frame) - 1 :
                Without(frame, i)[k] = IF k < i THEN frame[k] ELSE frame[k + 1]
      BY <1>1, <3>1, WithoutOne
    <3> QED  BY <1>4, <3>1, <3>2
  <2>2. \A k \in 2..3 : y[k] # Header
    BY <1>2, <2>1
  <2> QED  BY <2>1, <2>2
<1> QED  BY <1>3, <1>4 DEF Received, frame

\* FromHeader drops what comes before the first header.
LEMMA FromHeaderDrops ==
    ASSUME NEW stream \in Seq(Byte), Len(stream) <= 9
    PROVE  \E dropped \in Seq(Byte) :
              /\ dropped \o FromHeader(stream) = stream
              /\ FromHeader(stream) = <<>> \/ FromHeader(stream)[1] = Header
<1> DEFINE headers == {i \in DOMAIN stream : stream[i] = Header}
<1>1. CASE headers = {}
  <2>1. FromHeader(stream) = <<>>
    BY <1>1 DEF FromHeader
  <2>2. stream \o <<>> = stream
    BY ConcatEmptySeq
  <2> QED  BY <2>1, <2>2
<1>2. CASE headers # {}
  <2> DEFINE first == CHOOSE i \in headers : \A j \in headers : i <= j
  <2>1. headers \subseteq 1..Len(stream) /\ Len(stream) \in Nat /\ headers \subseteq 1..9
    BY LenProperties
  <2>2. \E i \in headers : \A j \in headers : i <= j
    BY <1>2, <2>1, FirstPosition
  <2>3. first \in headers
    BY <2>2
  <2>4. FromHeader(stream) = SubSeq(stream, first, Len(stream))
    BY <1>2, Zenon DEF FromHeader
  <2>5. first \in 1..Len(stream) /\ stream[first] = Header
    BY <2>1, <2>3
  <2> HIDE DEF first
  <2>6. \A i \in 1..Len(stream) : stream[i] \in Byte
    BY ElementOfSeq
  <2>7. SubSeq(stream, 1, first - 1) \in Seq(Byte)
    <3>1. \A i \in 1..first - 1 : stream[i] \in Byte
      BY <2>1, <2>5, <2>6
    <3>2. first - 1 \in Int
      BY <2>1, <2>5
    <3> QED  BY <3>1, <3>2, SubSeqProperties
  <2>8. SubSeq(stream, 1, first - 1) \o SubSeq(stream, first, Len(stream)) = stream
    <3> DEFINE k == first - 1
    <3>1. k \in 1 - 1..Len(stream) /\ Len(stream) \in k..Len(stream) /\ 1 \in 1..Len(stream) + 1
          /\ k + 1 = first
      BY <2>1, <2>5
    <3> HIDE DEF k
    <3>2. SubSeq(stream, 1, k) \o SubSeq(stream, k + 1, Len(stream)) = SubSeq(stream, 1, Len(stream))
      BY <3>1, ConcatAdjacentSubSeq
    <3> QED  BY <3>1, <3>2, SubSeqFull DEF k
  <2>9. SubSeq(stream, first, Len(stream))[1] = Header
    <3>1. \A i \in first..Len(stream) : stream[i] \in Byte
      BY <2>1, <2>5, <2>6
    <3>2. \A i \in 1..Len(stream) - first + 1 :
             SubSeq(stream, first, Len(stream))[i] = stream[first + i - 1]
      <4>1. first \in Int /\ Len(stream) \in Int
        BY <2>1, <2>5
      <4> QED  BY <3>1, <4>1, SubSeqProperties
    <3>3. 1 \in 1..Len(stream) - first + 1 /\ first + 1 - 1 = first
      BY <2>1, <2>5
    <3> QED  BY <2>5, <3>2, <3>3
  <2> QED  BY <2>4, <2>7, <2>8, <2>9
<1> QED  BY <1>1, <1>2

-----------------------------------------------------------------------------
(* Windows *)

\* The window stands in the stream after the first n bytes.
Stands(window, stream, n) ==
    stream \in Seq(Byte) /\ \A k \in 1..9 : stream[n + k] = window[k]

\* A window of nine bytes that ends what has come of two frames stands at the
\* same place in the two frames.
LEMMA WindowInStream ==
    ASSUME NEW x \in Seq(Byte), NEW come \in Seq(Byte), NEW rest \in Seq(Byte),
           NEW before \in Seq(Byte), NEW window \in Seq(Byte),
           Len(window) = 9, before \o window = x \o come
    PROVE  Stands(window, x \o (come \o rest), Len(before))
<1> DEFINE stream == x \o (come \o rest)  end == before \o window
<1>1. Len(before) \in Nat /\ Len(rest) \in Nat
  BY LenProperties
<1>2. /\ end \in Seq(Byte) /\ Len(end) = Len(before) + 9
      /\ \A i \in 1..Len(before) + 9 :
            end[i] = IF i <= Len(before) THEN before[i] ELSE window[i - Len(before)]
  <2>1. /\ end \in Seq(Byte) /\ Len(end) = Len(before) + Len(window)
        /\ \A i \in 1..Len(before) + Len(window) :
              end[i] = IF i <= Len(before) THEN before[i] ELSE window[i - Len(before)]
    <3>1. end = before \o window
      OBVIOUS
    <3> HIDE DEF end
    <3> QED  BY <3>1, ConcatProperties
  <2> HIDE DEF end
  <2> QED  BY <2>1
<1>3. stream = end \o rest
  <2>1. Associates(x, come)
    BY ConcatAssoc, Zenon
  <2> QED  BY <2>1, Zenon DEF Associates
<1> HIDE DEF end
<1>4. /\ stream \in Seq(Byte)
      /\ \A i \in 1..Len(end) + Len(rest) :
            stream[i] = IF i <= Len(end) THEN end[i] ELSE rest[i - Len(end)]
  BY <1>2, <1>3, ConcatProperties, SMTT(20)
<1> HIDE DEF stream
<1>5. ASSUME NEW k \in 1..9
      PROVE  stream[Len(before) + k] = window[k]
  <2> DEFINE place == Len(before) + k
  <2>1. /\ place \in 1..Len(end) + Len(rest) /\ place <= Len(end)
        /\ place \in 1..Len(before) + 9 /\ ~(place <= Len(before))
        /\ place - Len(before) = k
    BY <1>1, <1>2
  <2> HIDE DEF place
  <2>2. stream[place] = end[place]
    BY <1>4, <2>1, Zenon
  <2>3. end[place] = window[place - Len(before)]
    BY <1>2, <2>1, Zenon
  <2> QED  BY <2>1, <2>2, <2>3, Zenon DEF place
<1>6. Stands(window, stream, Len(before))
  BY <1>4, <1>5 DEF Stands
<1> QED  BY <1>6 DEF stream

\* What a sound window says is a payload with its checksum.
LEMMA SoundWindow ==
    ASSUME NEW window \in Seq(Byte), Len(window) = 9
    PROVE  /\ SubSeq(window, 2, 8) \in Seq(Byte) /\ Len(SubSeq(window, 2, 8)) = 7
           /\ SubSeq(window, 2, 8) \in [1..7 -> Byte]
           /\ \A k \in 1..7 : SubSeq(window, 2, 8)[k] = window[k + 1]
           /\ Sound(window) => window[9] = Checksum(SubSeq(window, 2, 8))
<1> DEFINE said == SubSeq(window, 2, 8)  tail == Tail(window)
<1>1. \A i \in 2..8 : window[i] \in Byte
  <2>1. \A i \in 2..8 : i \in 1..Len(window)
    OBVIOUS
  <2> QED  BY <2>1, ElementOfSeq
<1>2. /\ said \in Seq(Byte) /\ Len(said) = 7
      /\ \A k \in 1..7 : said[k] = window[2 + k - 1]
  BY <1>1, SubSeqProperties
<1>3. said \in [1..Len(said) -> Byte]
  BY <1>2, LenProperties
<1>4. said \in [1..7 -> Byte]
  BY <1>2, <1>3
<1>5. \A k \in 1..8 : tail[k] = window[k + 1]
  <2>1. window # <<>>
    <3>1. Len(<<>>) = 0 /\ 9 # 0
      OBVIOUS
    <3> QED  BY <3>1, Zenon
  <2>2. Len(tail) = 8 /\ \A k \in 1..Len(tail) : tail[k] = window[k + 1]
    <3>1. Len(tail) = Len(window) - 1 /\ \A k \in 1..Len(tail) : tail[k] = window[k + 1]
      BY <2>1, HeadTailProperties
    <3> QED  BY <3>1
  <2> QED  BY <2>2
<1> HIDE DEF said, tail
<1>6. \A k \in 1..7 : said[k] = window[k + 1]
  <2>1. \A k \in 1..7 : 2 + k - 1 = k + 1
    OBVIOUS
  <2> QED  BY <1>2, <2>1
<1>7. /\ said[1] = tail[1] /\ said[2] = tail[2] /\ said[3] = tail[3] /\ said[4] = tail[4]
      /\ said[5] = tail[5] /\ said[6] = tail[6] /\ said[7] = tail[7]
  BY <1>5, <1>6
<1>8. Checksum(tail) = Checksum(said)
  BY <1>7, Zenon DEF Checksum
<1> QED  BY <1>2, <1>4, <1>6, <1>8 DEF Sound, said, tail

\* A message is made of a payload, and the other way round.
LEMMA MessageTwice ==
    ASSUME NEW payload \in [1..7 -> Byte]
    PROVE  Message(payload) \in [1..7 -> Byte] /\ Message(Message(payload)) = payload
<1> DEFINE message == Message(payload)  again == Message(message)
<1>1. /\ message \in [1..7 -> Byte]
      /\ \A i \in 1..7 : message[i] = IF i = 3 THEN payload[4] ELSE IF i = 4 THEN payload[3] ELSE payload[i]
  BY DEF Message
<1> HIDE DEF message
<1>2. /\ again \in [1..7 -> Byte]
      /\ \A i \in 1..7 : again[i] = IF i = 3 THEN message[4] ELSE IF i = 4 THEN message[3] ELSE message[i]
  BY <1>1 DEF Message
<1> HIDE DEF again
<1>3. \A i \in 1..7 : again[i] = payload[i]
  BY <1>1, <1>2
<1>4. again = payload
  BY <1>2, <1>3
<1> QED  BY <1>1, <1>4 DEF message, again

\* A sound window that ends in the frame under way says what the frame says, or
\* the frame is weak; and the frame has not been read yet.
LEMMA WindowRead ==
    ASSUME NEW other \in Payloads, NEW payload \in Payloads, NEW x \in Received(other),
           NEW come \in Seq(Byte), NEW rest \in Seq(Byte), NEW before \in Seq(Byte),
           come \o rest \in Received(payload),
           NEW window \in Seq(Byte), Len(window) = 9, before \o window = x \o come,
           window[1] = Header, Sound(window), Len(come) >= 1
    PROVE  /\ SubSeq(window, 2, 8) = payload \/ payload \in Weak
           /\ Len(come) <= 9
<1> DEFINE y == come \o rest  stream == x \o y  i == Len(before) + 1
           said == SubSeq(window, 2, 8)
<1>1. x \in Seq(Byte) /\ Len(x) \in {11, 12}
  BY ReceivedBytes
<1>2. /\ y \in Seq(Byte) /\ Len(y) \in {11, 12}
      /\ \A k \in 2..Len(y) - 8 : y[k] # Header
  BY ReceivedBytes
<1>3. /\ Len(before) \in Nat /\ Len(come) \in Nat /\ Len(rest) \in Nat
      /\ Len(y) = Len(come) + Len(rest)
  BY LenProperties, ConcatProperties
<1>4. Len(before) + 9 = Len(x) + Len(come)
  <2>1. Len(before \o window) = Len(before) + Len(window)
    BY ConcatLen, Zenon
  <2>2. Len(x \o come) = Len(x) + Len(come)
    BY <1>1, ConcatLen, Zenon
  <2>3. Len(before) + Len(window) = Len(x) + Len(come)
    BY <2>1, <2>2, Zenon
  <2> QED  BY <2>3
<1>5. stream \in Seq(Byte) /\ \A k \in 1..9 : stream[Len(before) + k] = window[k]
  <2>1. Stands(window, x \o (come \o rest), Len(before))
    BY <1>1, WindowInStream
  <2> QED  BY <2>1, Zenon DEF Stands
<1>6. \A k \in 1..Len(x) + Len(y) : stream[k] = IF k <= Len(x) THEN x[k] ELSE y[k - Len(x)]
  BY <1>1, <1>2, ConcatProperties
<1> HIDE DEF y, stream, said
<1>7. Len(before) <= Len(x)
  <2> SUFFICES ASSUME Len(before) > Len(x) PROVE FALSE
    BY <1>1, <1>3
  <2> DEFINE k == Len(before) - Len(x) + 1
  <2>1. /\ k \in 2..Len(y) - 8 /\ Len(before) + 1 \in 1..Len(x) + Len(y)
        /\ ~(Len(before) + 1 <= Len(x)) /\ Len(before) + 1 - Len(x) = k
    BY <1>1, <1>2, <1>3, <1>4
  <2> HIDE DEF k
  <2>2. stream[Len(before) + 1] = y[k]
    BY <1>6, <2>1
  <2>3. stream[Len(before) + 1] = window[1]
    BY <1>5
  <2> QED  BY <1>2, <2>1, <2>2, <2>3
<1>8. Len(come) <= 9
  BY <1>1, <1>3, <1>4, <1>7
<1>9. i \in (Len(x) - 7)..(Len(x) + 1)
  BY <1>1, <1>3, <1>4, <1>7
<1>10. /\ said \in Seq(Byte) /\ Len(said) = 7
       /\ \A k \in 1..7 : said[k] = window[k + 1]
       /\ window[9] = Checksum(said)
  BY SoundWindow DEF said
<1>11. said = SubSeq(stream, i + 1, i + 7)
  <2> DEFINE sub == SubSeq(stream, i + 1, i + 7)
  <2>1. Len(stream) = Len(x) + Len(y)
    BY <1>1, <1>2, ConcatProperties DEF stream
  <2>2. \A k \in i + 1..i + 7 : stream[k] \in Byte
    <3>1. \A k \in i + 1..i + 7 : k \in 1..Len(stream)
      BY <1>1, <1>2, <1>3, <1>4, <2>1
    <3> QED  BY <1>5, <3>1, ElementOfSeq
  <2>3. i + 1 \in Int /\ i + 7 \in Int /\ (i + 7) - (i + 1) + 1 = 7 /\ i + 1 <= i + 7
    BY <1>3
  <2>4. /\ sub \in Seq(Byte)
        /\ Len(sub) = (i + 7) - (i + 1) + 1
        /\ \A k \in 1..(i + 7) - (i + 1) + 1 : sub[k] = stream[i + 1 + k - 1]
    <3> HIDE DEF i
    <3> QED  BY <2>2, <2>3, SubSeqProperties
  <2> HIDE DEF sub
  <2>5. ASSUME NEW k \in 1..7 PROVE sub[k] = said[k]
    <3>1. /\ i + 1 + k - 1 = Len(before) + (k + 1)
          /\ k + 1 \in 1..9 /\ k \in 1..(i + 7) - (i + 1) + 1
      BY <1>3
    <3>2. sub[k] = stream[Len(before) + (k + 1)]
      BY <2>4, <3>1
    <3>3. stream[Len(before) + (k + 1)] = window[k + 1]
      BY <1>5, <3>1
    <3> QED  BY <1>10, <3>2, <3>3
  <2>6. Len(sub) = 7
    BY <2>3, <2>4
  <2>7. sub = said
    BY <1>10, <2>4, <2>5, <2>6, SeqEqual
  <2> QED  BY <2>7 DEF sub
<1>12. ReadsAt(stream, i, said)
  <2>1. stream[i] = window[1]
    BY <1>5
  <2>2. stream[i + 8] = window[9]
    <3>1. i + 8 = Len(before) + 9
      BY <1>3
    <3> QED  BY <1>5, <3>1
  <2> QED  BY <1>10, <1>11, <2>1, <2>2, Zenon DEF ReadsAt
<1>13. ASSUME said # payload PROVE payload \in Weak
  <2>1. SubSeq(x \o y, i + 1, i + 7) # payload
        /\ ReadsAt(x \o y, i, SubSeq(x \o y, i + 1, i + 7))
    BY <1>11, <1>12, <1>13, Zenon DEF stream
  <2>2. x \in Received(other) /\ y \in Received(payload)
    BY DEF y
  <2> HIDE DEF i
  <2> QED  BY <1>9, <2>1, <2>2, Zenon DEF Weak
<1> QED  BY <1>8, <1>13 DEF said

-----------------------------------------------------------------------------
(* The invariant *)

\* A cut of the stream after a step is one of the next state.
LEMMA CutIsFramed ==
    ASSUME NEW other \in Payloads, NEW payload \in Payloads, NEW x \in Received(other),
           NEW come \in Seq(Byte), NEW before \in Seq(Byte), Cut(x, come, before, payload)'
    PROVE  Framed'
BY Zenon DEF Framed

\* A frame that is sent follows what came in of the one before.
LEMMA SendFramed ==
    ASSUME TypeOK, Framed, NEW payload \in Payloads,
           line = <<>>, line' = FrameOf(payload), onWay' = payload, lost' = FALSE, buf' = buf
    PROVE  Framed'
<1>1. FrameOf(payload) \in Seq(Byte) /\ FrameOf(payload) \in Received(payload)
  BY FrameType DEF Received
<1>2. <<>> \in Seq(Byte) /\ <<>> \o line' = FrameOf(payload)
  BY <1>1, ConcatEmptySeq
<1>3. CASE Nothing
  <2> DEFINE x == FrameOf(payload)
  <2>1. x \o buf' = x \o <<>>
    BY <1>3 DEF Nothing
  <2>2. Cut(x, <<>>, x, payload)'
    BY <1>1, <1>2, <2>1 DEF Cut
  <2> QED  BY <1>1, <1>2, <2>2, CutIsFramed, Zenon
<1>4. ASSUME NEW other \in Payloads, NEW old \in Payloads, NEW x \in Received(other),
             NEW come \in Seq(Byte), NEW before \in Seq(Byte), Cut(x, come, before, old)
      PROVE  Framed'
  <2>1. come \in Received(old)
    <3>1. come \o line = come
      BY ConcatEmptySeq
    <3> QED  BY <1>4, <3>1 DEF Cut
  <2>2. Len(come) \in {11, 12} /\ x \in Seq(Byte)
    BY <2>1, ReceivedBytes
  <2>3. buf \in Seq(Byte) /\ Len(buf) \in Nat /\ Len(buf) < 9
    BY LenProperties DEF TypeOK, FrameLength
  <2>4. before \o buf = x \o come
    BY <1>4, Zenon DEF Cut
  <2>5. Len(buf) <= Len(come)
    <3>1. \A m, n \in Nat : m < 9 /\ n \in {11, 12} => m <= n
      OBVIOUS
    <3> QED  BY <2>2, <2>3, <3>1, LenProperties, Zenon
  <2>6. EndsWith(come, buf)
    BY <2>2, <2>3, <2>4, <2>5, EndOfSecond
  <2>7. PICK head \in Seq(Byte) : head \o buf = come
    BY <2>6, Zenon DEF EndsWith
  <2>8. head \o buf' = come \o <<>>
    BY <2>7, ConcatEmptySeq
  <2>9. Cut(come, <<>>, head, payload)'
    BY <1>1, <1>2, <2>8 DEF Cut
  <2> QED  BY <1>2, <2>1, <2>7, <2>9, CutIsFramed, Zenon
<1> QED  BY <1>3, <1>4, Zenon DEF Framed

\* A byte that is lost is missing in what comes in.
LEMMA LoseFramed ==
    ASSUME TypeOK, Framed, line # <<>>, ~lost, line' = Tail(line), lost' = TRUE,
           buf' = buf, onWay' = onWay
    PROVE  Framed'
<1>1. line \in Seq(Byte)
  BY DEF TypeOK
<1>2. PICK other \in Payloads, payload \in Payloads :
        \E x \in Received(other) : \E come, before \in Seq(Byte) : Cut(x, come, before, payload)
  BY Zenon DEF Framed, Nothing
<1>3. PICK x \in Received(other), come \in Seq(Byte), before \in Seq(Byte) :
        Cut(x, come, before, payload)
  BY <1>2, Zenon
<1>4. come \o line = FrameOf(payload) /\ before \o buf = x \o come
      /\ (onWay = payload \/ (onWay = NoFrame /\ Len(buf) < Len(come)))
  BY <1>3, Zenon DEF Cut
<1>5. Len(come) + 1 \in 1..12
  <2>1. Len(come \o line) = Len(come) + Len(line) /\ Len(FrameOf(payload)) = 12
    BY <1>1, ConcatLen, FrameType, Zenon
  <2>2. Len(come) \in Nat /\ Len(line) \in Nat \ {0}
    BY <1>1, LenProperties, EmptySeq
  <2>3. Len(come) + Len(line) = 12
    BY <1>4, <2>1, Zenon
  <2>4. \A m, n \in Nat : n # 0 /\ m + n = 12 => m + 1 \in 1..12
    OBVIOUS
  <2>5. Len(line) \in Nat /\ Len(line) # 0
    BY <2>2
  <2> QED  BY <2>2, <2>3, <2>4, <2>5, Zenon
<1>6. come \o Tail(line) = Without(FrameOf(payload), Len(come) + 1)
  BY <1>1, <1>4, ByteIsLost, Zenon
<1>7. come \o line' \in Received(payload)
  BY <1>5, <1>6, Zenon DEF Received
<1>8. Cut(x, come, before, payload)'
  BY <1>4, <1>7, Zenon DEF Cut
<1> QED  BY <1>8, CutIsFramed, Zenon

\* A bridge that is started again has nothing of what has come.
LEMMA RestartFramed ==
    ASSUME TypeOK, Framed, buf' = <<>>, lost' = TRUE, line' = line, onWay' = onWay
    PROVE  Framed'
<1>1. CASE Nothing
  BY <1>1, Zenon DEF Framed, Nothing
<1>2. ASSUME NEW other \in Payloads, NEW payload \in Payloads, NEW x \in Received(other),
             NEW come \in Seq(Byte), NEW before \in Seq(Byte), Cut(x, come, before, payload)
      PROVE  Framed'
  <2> DEFINE all == x \o come
  <2>1. x \in Seq(Byte)
    BY ReceivedBytes
  <2>2. all \in Seq(Byte)
    BY <2>1, ConcatProperties
  <2>3. all \o buf' = x \o come
    BY <2>2, ConcatEmptySeq
  <2>4. onWay' = payload \/ (onWay' = NoFrame /\ Len(buf') < Len(come))
    <3>1. Len(buf) \in Nat /\ Len(come) \in Nat /\ Len(buf') = 0
      BY LenProperties DEF TypeOK
    <3>2. onWay = payload \/ (onWay = NoFrame /\ Len(buf) < Len(come))
      BY <1>2, Zenon DEF Cut
    <3> QED  BY <3>1, <3>2
  <2>5. come \o line' \in Received(payload)
    BY <1>2, Zenon DEF Cut
  <2> HIDE DEF all
  <2>6. Cut(x, come, all, payload)'
    BY <2>3, <2>4, <2>5, Zenon DEF Cut
  <2> QED  BY <2>2, <2>6, CutIsFramed, Zenon
<1> QED  BY <1>1, <1>2, Zenon DEF Framed

\* A byte that comes in, of which the thread keeps what ends with it.
LEMMA ByteFramed ==
    ASSUME TypeOK, line # <<>>, line' = Tail(line), lost' = lost,
           NEW other \in Payloads, NEW payload \in Payloads, NEW x \in Received(other),
           NEW come \in Seq(Byte), NEW before \in Seq(Byte), Cut(x, come, before, payload),
           NEW dropped \in Seq(Byte), dropped \o buf' = Append(buf, Head(line)),
           buf' \in Seq(Byte),
           \/ onWay' = onWay /\ Len(buf') <= Len(buf) + 1
           \/ onWay' = NoFrame /\ buf' = <<>>
    PROVE  Framed'
<1>1. line \in Seq(Byte) /\ buf \in Seq(Byte) /\ x \in Seq(Byte)
  BY ReceivedBytes DEF TypeOK
<1>2. PICK byte \in Byte : byte = Head(line)
  BY <1>1, HeadTailProperties
<1>3. PICK final \in Seq(Byte) : final = <<byte>>
  <2>1. <<byte>> \in Seq(Byte)
    OBVIOUS
  <2> QED  BY <2>1, Zenon
<1>4. final \in Seq(Byte)
  BY <1>3
<1>5. PICK next \in Seq(Byte) : next = Append(come, byte)
  BY AppendProperties
<1>6. /\ next \o line' = come \o line
      /\ next = come \o final /\ Len(next) = Len(come) + 1
  <2>1. Append(come, byte) \o line' = come \o line
    BY <1>1, <1>2, ByteComesIn, Zenon
  <2>2. Append(come, byte) = come \o <<byte>>
    BY AppendIsConcat
  <2>3. Len(Append(come, byte)) = Len(come) + 1
    BY AppendProperties
  <2> QED  BY <1>3, <1>5, <2>1, <2>2, <2>3, Zenon
<1>7. Append(buf, Head(line)) = buf \o final
  <2>1. Append(buf, byte) = buf \o <<byte>>
    BY <1>1, AppendIsConcat
  <2> QED  BY <1>2, <1>3, <2>1, Zenon
<1>8. (before \o dropped) \o buf' = x \o next
  <2>1. (before \o dropped) \o buf' = before \o (dropped \o buf')
    <3>1. Associates(before, dropped)
      BY ConcatAssoc, Zenon
    <3> QED  BY <3>1, Zenon DEF Associates
  <2>2. before \o (buf \o final) = (before \o buf) \o final
    <3>1. Associates(before, buf)
      BY <1>1, ConcatAssoc, Zenon
    <3> QED  BY <1>4, <3>1, Zenon DEF Associates
  <2>3. before \o buf = x \o come
    BY Zenon DEF Cut
  <2>4. (x \o come) \o final = x \o (come \o final)
    <3>1. Associates(x, come)
      BY <1>1, ConcatAssoc, Zenon
    <3> QED  BY <1>4, <3>1, Zenon DEF Associates
  <2> QED  BY <1>6, <1>7, <2>1, <2>2, <2>3, <2>4, Zenon
<1>9. onWay' = payload \/ (onWay' = NoFrame /\ Len(buf') < Len(next))
  <2>1. Len(buf) \in Nat /\ Len(come) \in Nat /\ Len(buf') \in Nat /\ Len(<<>>) = 0
    BY <1>1, LenProperties
  <2>2. onWay = payload \/ (onWay = NoFrame /\ Len(buf) < Len(come))
    BY Zenon DEF Cut
  <2> QED  BY <1>6, <2>1, <2>2
<1>10. next \o line' \in Received(payload) /\ (~lost' => next \o line' = FrameOf(payload))
  BY <1>6, Zenon DEF Cut
<1>11. PICK gone \in Seq(Byte) : gone = before \o dropped
  BY ConcatProperties
<1>12. Cut(x, next, gone, payload)'
  BY <1>8, <1>9, <1>10, <1>11, Zenon DEF Cut
<1> QED  BY <1>12, CutIsFramed, Zenon

\* What is left of a bad window is an end of it.
LEMMA RestDrops ==
    ASSUME NEW stream \in Seq(Byte), Len(stream) = 9
    PROVE  /\ Rest(stream) \in Seq(Byte) /\ Len(Rest(stream)) <= 8
           /\ EndsWith(stream, Rest(stream))
<1> DEFINE tail == Tail(stream)
<1>1. stream # <<>>
  <2>1. Len(<<>>) = 0 /\ 9 # 0
    OBVIOUS
  <2> QED  BY <2>1, Zenon
<1>2. tail \in Seq(Byte) /\ Len(tail) = 8 /\ Head(stream) \in Byte
  <2>1. Len(tail) = Len(stream) - 1 /\ tail \in Seq(Byte) /\ Head(stream) \in Byte
    BY <1>1, HeadTailProperties
  <2> QED  BY <2>1
<1>3. <<Head(stream)>> \in Seq(Byte) /\ <<Head(stream)>> \o tail = stream
  <2>1. <<Head(stream)>> \in Seq(Byte)
    BY <1>2
  <2>2. <<Head(stream)>> \o Tail(stream) = stream
    BY <1>1, HeadAndTail, Zenon
  <2> QED  BY <2>1, <2>2
<1> HIDE DEF tail
<1>4. Rest(stream) = FromHeader(tail)
  BY Zenon DEF Rest, tail
<1>5. Len(tail) <= 9
  BY <1>2
<1>6. Rest(stream) \in Seq(Byte) /\ Len(Rest(stream)) <= 8
  BY <1>2, <1>4, <1>5, FromHeaderType, Zenon
<1>7. PICK dropped \in Seq(Byte) : dropped \o Rest(stream) = tail
  BY <1>2, <1>4, <1>5, FromHeaderDrops, Zenon
<1>8. PICK first \in Seq(Byte) : first = <<Head(stream)>>
  BY <1>3, Zenon
<1>9. PICK gone \in Seq(Byte) : gone = first \o dropped
  BY ConcatProperties
<1>10. gone \o Rest(stream) = stream
  <2>1. (first \o dropped) \o Rest(stream) = first \o (dropped \o Rest(stream))
    <3>1. Associates(first, dropped)
      BY ConcatAssoc, Zenon
    <3> QED  BY <1>6, <3>1, Zenon DEF Associates
  <2> QED  BY <1>3, <1>7, <1>8, <1>9, <2>1, Zenon
<1> QED  BY <1>6, <1>10, Zenon DEF EndsWith

\* An end of an end is an end.
LEMMA EndOfEnd ==
    ASSUME NEW s \in Seq(Byte), NEW t \in Seq(Byte), NEW u \in Seq(Byte),
           EndsWith(s, t), EndsWith(t, u)
    PROVE  EndsWith(s, u)
<1>1. PICK a \in Seq(Byte) : a \o t = s
  BY Zenon DEF EndsWith
<1>2. PICK b \in Seq(Byte) : b \o u = t
  BY Zenon DEF EndsWith
<1>3. PICK c \in Seq(Byte) : c = a \o b
  BY ConcatProperties
<1>4. (a \o b) \o u = a \o (b \o u)
  <2>1. Associates(a, b)
    BY ConcatAssoc, Zenon
  <2> QED  BY <2>1, Zenon DEF Associates
<1>5. c \o u = s
  BY <1>1, <1>2, <1>3, <1>4, Zenon
<1> QED  BY <1>5, Zenon DEF EndsWith

-----------------------------------------------------------------------------
(* The steps *)

\* What was published last, as Feedback sees it.
Published == IF fb = NoFrame THEN NoFrame ELSE Message(fb)

\* A byte that comes in keeps the cut, and what it completes is what Feedback lets
\* the bridge publish.
LEMMA ThreadFramed ==
    ASSUME TypeOK, Framed, rxThread
    PROVE  Framed' /\ (Link!Publish \/ UNCHANGED <<onWay, Published>>)
<1>1. line # <<>> /\ line' = Tail(line) /\ lost' = lost
  BY DEF rxThread
<1>2. PICK other \in Payloads, payload \in Payloads :
        \E x \in Received(other) : \E come, before \in Seq(Byte) : Cut(x, come, before, payload)
  BY <1>1, Zenon DEF Framed, Nothing
<1>3. PICK x \in Received(other), come \in Seq(Byte), before \in Seq(Byte) :
        Cut(x, come, before, payload)
  BY <1>2, Zenon
<1>4. line \in Seq(Byte) /\ buf \in Seq(Byte) /\ Len(buf) \in Nat /\ Len(buf) < 9
  BY LenProperties DEF TypeOK, FrameLength
<1>5. PICK byte \in Byte : byte = Head(line)
  BY <1>1, <1>4, HeadTailProperties
<1>6. PICK bytes \in Seq(Byte) : bytes = Append(buf, byte)
  BY <1>4, AppendProperties
<1>7. Len(bytes) = Len(buf) + 1 /\ Len(bytes) <= 9
  BY <1>4, <1>6, AppendProperties
<1>8. PICK stream \in Seq(Byte) : stream = FromHeader(bytes)
  BY <1>7, FromHeaderType, Zenon
<1>9. /\ EndsWith(bytes, stream)
      /\ stream = <<>> \/ stream[1] = Header
  BY <1>7, <1>8, FromHeaderDrops, Zenon DEF EndsWith
<1>10. Len(stream) \in Nat /\ Len(stream) <= Len(buf) + 1
  <2>1. Len(stream) <= Len(bytes)
    BY <1>7, <1>8, FromHeaderType, Zenon
  <2>2. Len(stream) \in Nat
    BY LenProperties
  <2> QED  BY <1>7, <2>1, <2>2, Zenon
<1>11. stream = FromHeader(Append(buf, Head(line)))
  BY <1>5, <1>6, <1>8, Zenon
\* Whatever end of the bytes is kept.
<1>12. ASSUME NEW kept \in Seq(Byte), buf' = kept, EndsWith(bytes, kept),
              \/ onWay' = onWay /\ Len(kept) <= Len(buf) + 1
              \/ onWay' = NoFrame /\ kept = <<>>
       PROVE  Framed'
  <2>1. PICK dropped \in Seq(Byte) : dropped \o kept = bytes
    BY <1>12, Zenon DEF EndsWith
  <2>2. dropped \o buf' = Append(buf, Head(line)) /\ buf' \in Seq(Byte)
    BY <1>5, <1>6, <1>12, <2>1, Zenon
  <2>3. \/ onWay' = onWay /\ Len(buf') <= Len(buf) + 1
        \/ onWay' = NoFrame /\ buf' = <<>>
    BY <1>12, Zenon
  <2> QED  BY <1>1, <1>3, <2>2, <2>3, ByteFramed, Zenon
<1>13. CASE /\ Len(stream) < FrameLength /\ buf' = stream /\ UNCHANGED <<fb, onWay, eventVars>>
  <2>1. onWay' = onWay /\ fb' = fb
    BY <1>13, Zenon
  <2>2. UNCHANGED <<onWay, Published>>
    BY <2>1, Zenon DEF Published
  <2>3. Framed'
    BY <1>9, <1>10, <1>12, <1>13, <2>1, Zenon
  <2> QED  BY <2>2, <2>3, Zenon
<1>14. CASE /\ Len(stream) = FrameLength /\ buf' = Rest(stream)
            /\ UNCHANGED <<fb, onWay, eventVars>>
  <2>1. onWay' = onWay /\ fb' = fb
    BY <1>14, Zenon
  <2>2. UNCHANGED <<onWay, Published>>
    BY <2>1, Zenon DEF Published
  <2>3. PICK kept \in Seq(Byte) : kept = Rest(stream) /\ Len(kept) <= 8 /\ EndsWith(stream, kept)
    BY <1>14, RestDrops, Zenon DEF FrameLength
  <2>4. EndsWith(bytes, kept)
    BY <1>9, <2>3, EndOfEnd, Zenon
  <2>5. Len(kept) <= Len(buf) + 1
    <3>1. Len(stream) = 9 /\ Len(kept) \in Nat
      BY <1>14, LenProperties DEF FrameLength
    <3> QED  BY <1>4, <1>10, <2>3, <3>1
  <2>6. Framed'
    BY <1>12, <1>14, <2>1, <2>3, <2>4, <2>5, Zenon
  <2> QED  BY <2>2, <2>6, Zenon
<1>15. CASE /\ Len(stream) = FrameLength /\ Sound(stream) /\ buf' = <<>>
            /\ fb' = Message(SubSeq(stream, 2, 8)) /\ onWay' = NoFrame
  <2>1. Framed'
    <3>1. <<>> \in Seq(Byte) /\ bytes \o <<>> = bytes
      BY ConcatEmptySeq
    <3>2. EndsWith(bytes, <<>>)
      BY <3>1, Zenon DEF EndsWith
    <3> QED  BY <1>12, <1>15, <3>1, <3>2, Zenon
  <2>2. Len(stream) = 9 /\ stream # <<>> /\ stream[1] = Header
    <3>1. Len(stream) = 9 /\ Len(<<>>) = 0 /\ 9 # 0
      BY <1>15 DEF FrameLength
    <3> QED  BY <1>9, <3>1, Zenon
  <2>3. PICK next \in Seq(Byte) : next = Append(come, byte)
    BY AppendProperties
  <2>4. PICK rest \in Seq(Byte) : rest = Tail(line)
    BY <1>1, <1>4, HeadTailProperties
  <2>5. next \o rest \in Received(payload)
    <3>1. come \o line \in Received(payload)
      BY <1>3, Zenon DEF Cut
    <3>2. Append(come, byte) \o Tail(line) = come \o line
      BY <1>1, <1>4, <1>5, ByteComesIn, Zenon
    <3> QED  BY <2>3, <2>4, <3>1, <3>2, Zenon
  <2>6. PICK gone \in Seq(Byte) : gone \o stream = x \o next
    <3>1. PICK dropped \in Seq(Byte) : dropped \o stream = bytes
      BY <1>9, Zenon DEF EndsWith
    <3>2. PICK last \in Seq(Byte) : last = <<byte>>
      <4>1. <<byte>> \in Seq(Byte)
        OBVIOUS
      <4> QED  BY <4>1, Zenon
    <3>3. bytes = buf \o last /\ next = come \o last
      <4>1. Append(buf, byte) = buf \o <<byte>>
        BY <1>4, AppendIsConcat
      <4>2. Append(come, byte) = come \o <<byte>>
        BY AppendIsConcat
      <4> QED  BY <1>6, <2>3, <3>2, <4>1, <4>2, Zenon
    <3>4. x \in Seq(Byte)
      BY ReceivedBytes
    <3>5. before \o buf = x \o come
      BY <1>3, Zenon DEF Cut
    <3>6. PICK all \in Seq(Byte) : all = before \o dropped
      BY ConcatProperties
    <3>7. (before \o dropped) \o stream = before \o (dropped \o stream)
      <4>1. Associates(before, dropped)
        BY ConcatAssoc, Zenon
      <4> QED  BY <4>1, Zenon DEF Associates
    <3>8. (before \o buf) \o last = before \o (buf \o last)
      <4>1. Associates(before, buf)
        BY <1>4, ConcatAssoc, Zenon
      <4> QED  BY <4>1, Zenon DEF Associates
    <3>9. (x \o come) \o last = x \o (come \o last)
      <4>1. Associates(x, come)
        BY <3>4, ConcatAssoc, Zenon
      <4> QED  BY <4>1, Zenon DEF Associates
    <3>10. all \o stream = x \o next
      BY <3>1, <3>3, <3>5, <3>6, <3>7, <3>8, <3>9, Zenon
    <3> QED  BY <3>10
  <2>7. Len(next) = Len(come) + 1 /\ Len(come) \in Nat
    BY <2>3, AppendProperties, LenProperties
  <2>8. /\ SubSeq(stream, 2, 8) = payload \/ payload \in Weak
        /\ Len(next) <= 9
    <3>1. Len(next) >= 1
      BY <2>7
    <3> QED  BY <1>15, <2>2, <2>5, <2>6, <3>1, WindowRead
  <2>9. onWay = payload
    <3>1. onWay = payload \/ (onWay = NoFrame /\ Len(buf) < Len(come))
      BY <1>3, Zenon DEF Cut
    <3>2. ~(Len(buf) < Len(come))
      BY <1>4, <1>10, <2>2, <2>7, <2>8
    <3> QED  BY <3>1, <3>2
  <2>10. PICK said \in [1..7 -> Byte] : said = SubSeq(stream, 2, 8)
    BY <2>2, SoundWindow
  <2>11. fb' # NoFrame /\ Published' = said
    <3>1. Message(said) \in [1..7 -> Byte] /\ Message(Message(said)) = said
      BY <2>10, MessageTwice
    <3>2. fb' = Message(said)
      BY <1>15, <2>10, Zenon
    <3>3. fb' # NoFrame
      BY <3>1, <3>2, BridgeLinkAssumption, Zenon
    <3> QED  BY <3>1, <3>2, <3>3, Zenon DEF Published
  <2>12. said \in Seq(0..255)
    <3>1. SubSeq(stream, 2, 8) \in Seq(Byte)
      BY <2>2, SoundWindow
    <3> QED  BY <2>10, <3>1, Bytes, Zenon
  <2>13. onWay # NoFrame
    BY <2>9, BridgeLinkAssumption
  <2>14. Link!Publish
    BY <1>15, <2>8, <2>9, <2>10, <2>11, <2>12, <2>13, Zenon DEF Link!Publish, Published
  <2> QED  BY <2>1, <2>14, Zenon
<1> QED  BY <1>11, <1>13, <1>14, <1>15, Zenon DEF rxThread

\* Every step keeps the cut and is a step of Feedback, or none of its.
LEMMA StepFramed ==
    TypeOK /\ Framed /\ [Next]_vars => Framed' /\ [Link!Next]_(Link!vars)
<1> SUFFICES ASSUME TypeOK, Framed, [Next]_vars
             PROVE  Framed' /\ (Link!Next \/ UNCHANGED <<onWay, Published>>)
  BY Zenon DEF Link!vars, Published
<1>1. CASE SendFeedback
  <2>1. PICK payload \in Payloads : line' = FrameOf(payload) /\ onWay' = payload
    BY <1>1, Zenon DEF SendFeedback
  <2>2. line = <<>> /\ lost' = FALSE /\ buf' = buf /\ fb' = fb
    BY <1>1, Zenon DEF SendFeedback
  <2>3. Framed'
    BY <2>1, <2>2, SendFramed, Zenon
  <2>4. Link!Send
    BY <2>1, <2>2, Zenon DEF Link!Send
  <2> QED  BY <2>3, <2>4, Zenon DEF Link!Next
<1>2. CASE rxThread
  BY <1>2, ThreadFramed, Zenon DEF Link!Next
<1>3. CASE LoseByte
  <2>1. line # <<>> /\ ~lost /\ line' = Tail(line) /\ lost' = TRUE
    BY <1>3, Zenon DEF LoseByte
  <2>2. buf' = buf /\ onWay' = onWay /\ fb' = fb
    BY <1>3, Zenon DEF LoseByte
  <2> QED  BY <2>1, <2>2, LoseFramed, Zenon DEF Published
<1>4. CASE Settle \/ UNCHANGED vars
  <2>1. line' = line /\ lost' = lost /\ buf' = buf /\ fb' = fb /\ onWay' = onWay
    BY <1>4, Zenon DEF Settle, vars, linkVars
  <2>2. Framed'
    BY <2>1, Zenon DEF Framed, Nothing, Cut
  <2> QED  BY <2>1, <2>2, Zenon DEF Published
<1>5. CASE Restart
  <2>1. buf' = <<>> /\ lost' = TRUE /\ line' = line /\ fb' = fb /\ onWay' = onWay
    BY <1>5, Zenon DEF Restart
  <2> QED  BY <2>1, RestartFramed, Zenon DEF Published
<1> QED  BY <1>1, <1>2, <1>3, <1>4, <1>5, Zenon DEF Next

\* What the thread has is always the end of what came in of two frames.
THEOREM FramedAlways == Spec => []Framed
<1>1. Init => Framed
  BY Zenon DEF Init, Framed, Nothing
<1> QED  BY <1>1, StepFramed, Typed, PTL DEF Spec

\* What is published was sent, in its order and once, whatever bytes are lost and
\* whenever the bridge is started again: the bridge implements Feedback.
THEOREM LinkImplements == Spec => Implements
<1>1. Init => Link!Init
  BY Zenon DEF Init, Link!Init
<1>2. Spec => []Framed
  BY FramedAlways
<1> QED  BY <1>1, <1>2, StepFramed, Typed, PTL DEF Spec, Implements, Link!Spec

================================================================================
