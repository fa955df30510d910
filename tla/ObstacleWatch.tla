----------------------------- MODULE ObstacleWatch -----------------------------
(***************************************************************************)
(* How an obstacle, or the loss of a lidar, reaches the wheels: the two     *)
(* laser scanners, agv_bridge, can_node, the CAN and timer interrupts of    *)
(* the firmware, LidarRead and the tests of the main loop.                  *)
(*                                                                          *)
(* Five clocks run side by side: the scans, the timer of the bridge, the    *)
(* timer of can_node, the tick of the firmware and its main loop.  Only the *)
(* main loop can be interrupted while it reads: a frame may come in while   *)
(* LidarRead looks at the bytes of the frame before.                        *)
(*                                                                          *)
(* drive stands for Expect_Gear and Expect_speed: the side the vehicle is   *)
(* told to drive towards, if any.  The topic between the bridge and         *)
(* can_node is left out: a message that is late is a timer that is late.    *)
(* Brakes, the mode and the self test, and the poses that let a pass drive  *)
(* or not, are left open.                                                   *)
(***************************************************************************)
EXTENDS Integers

CONSTANTS
    Distances,   \* what a scanner may report, in dm; 0 among them
    Timeout,     \* LIDAR_TIMEOUT in periods of the bridge's timer
    LossTicks,   \* 100: ticks without a frame after which the lidar is lost
    Modulus,     \* 256: Lidarflag is an unsigned char
    First,       \* the rows a path may begin with
    Follows      \* for each row, what may come next in a path

Sides == {"front", "rear"}
NoSide == "none"

\* The values of task_status: rows of a path, stopping, waiting for a task, and
\* passing over the rows of a path that has been cleared.
Line == 1
Turn == 2
Reverse == 3
Stopping == 4
ReverseTurn == 5
Idle == 0
Fetching == 9
Rows == {Line, Turn, Reverse, ReverseTurn}

\* A frame of can_node: whether some scanner is lost, and the two distances.
Frames == [lost : BOOLEAN, dist : [Sides -> Distances]]

ASSUME ObstacleWatchAssumption ==
    /\ Distances \subseteq 0..84       \* three bytes do not wrap the checksum
    /\ 0 \in Distances
    /\ Timeout \in Nat \ {0}
    /\ LossTicks \in Nat
    /\ Modulus \in Nat
    /\ LossTicks < Modulus
    /\ First \subseteq Rows
    /\ Follows \in [Rows -> SUBSET (Rows \cup {Stopping})]

VARIABLES
    \* agv_bridge, for each side
    minDistance, age,       \* the last scan, and the ticks of the timer since
    \* can_node
    rp_buf,                 \* the frame it sends again and again
    \* the interrupts of the firmware
    Lidarcanbuf, Lidarflag, \* the last frame, and the ticks since it
    \* the main loop
    Lidar_Status, lidarLoss, LidarObstacle,
    task_status, LidarTestSwitch, line_start, drive,
    \* observation only: the true number of ticks since the last frame, counted
    \* to Modulus
    silence

bridgeVars == <<minDistance, age>>
canVars    == <<Lidarcanbuf, Lidarflag, silence>>
lidarVars  == <<Lidar_Status, lidarLoss, LidarObstacle>>
rowVars    == <<task_status, LidarTestSwitch, line_start>>
vars == <<bridgeVars, rp_buf, canVars, lidarVars, rowVars, drive>>

NoFrame == [lost |-> FALSE, dist |-> [s \in Sides |-> 0]]

Init ==
    /\ minDistance = [s \in Sides |-> 0]
    /\ age = [s \in Sides |-> Timeout]
    /\ rp_buf = NoFrame
    /\ Lidarcanbuf = NoFrame
    /\ Lidarflag = 0
    /\ Lidar_Status = FALSE
    /\ lidarLoss = FALSE
    /\ LidarObstacle = FALSE
    /\ task_status = Idle
    /\ LidarTestSwitch = 1
    /\ line_start = FALSE
    /\ drive = NoSide
    /\ silence = 0

-----------------------------------------------------------------------------
(* The industrial PC *)

\* A scan of one side, reduced to the nearest point on the way.
scanCallback(s, d) ==
    /\ minDistance' = [minDistance EXCEPT ![s] = d]
    /\ age' = [age EXCEPT ![s] = 0]
    /\ UNCHANGED <<rp_buf, canVars, lidarVars, rowVars, drive>>

\* Mutant: a lidar is lost only when both are.
LostTogether(ages) == \A s \in Sides : ages[s] >= Timeout

\* rp_errorFlag: the last scan of some side is too old, or never came.
rp_errorFlag(ages) == \E s \in Sides : ages[s] >= Timeout

\* timerCallback publishes what it has, and obCallback of can_node keeps it.
timerCallback ==
    /\ rp_buf' = [lost |-> rp_errorFlag(age), dist |-> minDistance]
    /\ age' = [s \in Sides |-> IF age[s] < Timeout THEN age[s] + 1 ELSE Timeout]
    /\ UNCHANGED <<minDistance, canVars, lidarVars, rowVars, drive>>

\* Either node is started again.
RestartBridge ==
    /\ minDistance' = [s \in Sides |-> 0]
    /\ age' = [s \in Sides |-> Timeout]
    /\ UNCHANGED <<rp_buf, canVars, lidarVars, rowVars, drive>>

RestartCan ==
    /\ rp_buf' = NoFrame
    /\ UNCHANGED <<bridgeVars, canVars, lidarVars, rowVars, drive>>

-----------------------------------------------------------------------------
(* The interrupts of the firmware *)

\* obSend_TimerCallback, and CAN2_RX_IRQHandler at the other end of the bus.
Received == Lidarcanbuf' = rp_buf /\ silence' = 0

CAN2_RX_IRQHandler ==
    /\ Received
    /\ Lidarflag' = 0
    /\ UNCHANGED <<bridgeVars, rp_buf, lidarVars, rowVars, drive>>

\* Mutant: the tick is counted up to the limit and starts again.
NextFlagShort == IF Lidarflag >= LossTicks THEN 0 ELSE Lidarflag + 1

\* Mutant: the counter is wider than a byte.
NextFlagWide == Lidarflag + 1

NextFlag == (Lidarflag + 1) % Modulus

TIM2_IRQHandler ==
    /\ Lidarflag' = NextFlag
    /\ silence' = IF silence < Modulus THEN silence + 1 ELSE silence
    /\ UNCHANGED <<bridgeVars, rp_buf, Lidarcanbuf, lidarVars, rowVars, drive>>

-----------------------------------------------------------------------------
(* The main loop *)

\* The side a row is watched on, and the distance that stops it, by
\* LidarTestSwitch; before the first row no side is.
Obstacle(switch, dist) ==
    \/ switch = 3 /\ dist["front"] <= 15
    \/ switch = 4 /\ dist["front"] <= 9
    \/ switch = 15 /\ dist["rear"] <= 10

\* Mutant: the counter is not looked at.
LostByStatus(status, flag) == status

Lost(status, flag) == status \/ flag > LossTicks

\* The bytes newcanLidarTrans takes when a frame comes in before byte k of the
\* status, the front and the rear: the rest is of the new frame.
Taken(k) ==
    [lost |-> (IF k = 0 THEN rp_buf ELSE Lidarcanbuf).lost,
     dist |-> [s \in Sides |->
                 IF k <= (IF s = "front" THEN 1 ELSE 2) THEN rp_buf.dist[s]
                                                       ELSE Lidarcanbuf.dist[s]]]

\* The frame is sound: its bytes are taken.  LidarTestSwitch is the one of the
\* row, and LidarObstacle keeps its value while no row has set it.
ReadSound(k) ==
    LET frame == Taken(k) IN
    /\ Lidar_Status' = frame.lost
    /\ LidarObstacle' = IF LidarTestSwitch = 1 THEN LidarObstacle
                        ELSE Obstacle(LidarTestSwitch, frame.dist)

\* LidarRead with newcanLidarTrans, undisturbed.
LidarReadAlone ==
    /\ UNCHANGED canVars
    /\ ReadSound(3)
    /\ lidarLoss' = Lost(Lidar_Status', Lidarflag')

\* The same while a frame comes in: its bytes may be mixed with those of the
\* frame before, or spoil the checksum, and then nothing is taken.  An equal
\* frame disturbs nothing, but two with a lost lidar may differ in which.
LidarReadDisturbed ==
    /\ rp_buf # Lidarcanbuf \/ rp_buf.lost
    /\ Received
    /\ Lidarflag' = 0
    /\ \/ \E k \in 1..3 : ReadSound(k)
       \/ UNCHANGED <<Lidar_Status, LidarObstacle>>
    /\ lidarLoss' = Lost(Lidar_Status', Lidarflag')

\* The side a row is driven to.
Towards(row) == IF row \in {Line, Turn} THEN "front" ELSE "rear"

\* Mutant: a reverse row keeps the switch of a line.
SwitchOfLine(row) == IF row = Turn THEN 4 ELSE 3

Switch(row) == CASE row = Line -> 3 [] row = Turn -> 4 [] OTHER -> 15

\* GetTaskParameter: a row of the path, the end of it, or a row that has been
\* cleared, whose status stays 9.
GetTaskParameter(next) ==
    /\ task_status' = next
    /\ LidarTestSwitch' = IF next \in Rows THEN Switch(next) ELSE LidarTestSwitch
    /\ line_start' = FALSE

\* What may come after a row: any row but the last may be followed by one that
\* a task switched to in mid-path has cleared.
Nexts(row) ==
    Follows[row] \cup (IF Follows[row] \cap Rows = {} THEN {} ELSE {Fetching})

\* GetTaskSystem, for a vehicle that waits for a task: it stands, and takes
\* the first row of a path that has come.
GetTaskSystem ==
    /\ task_status = Idle
    /\ ~LidarObstacle /\ ~lidarLoss
    /\ (\E row \in First : GetTaskParameter(row)) \/ UNCHANGED rowVars
    /\ drive' = NoSide
    /\ UNCHANGED <<bridgeVars, rp_buf, canVars, lidarVars>>

\* Line, Turn, NewReverse and ReverseTurn.  The first call on a line or a
\* reverse only prepares it; each later one may be the last of its row.
Drive ==
    IF task_status \in {Line, Reverse} /\ ~line_start
    THEN /\ line_start' = TRUE
         /\ UNCHANGED <<task_status, LidarTestSwitch, drive>>
    ELSE /\ drive' = IF task_status = ReverseTurn /\ LidarObstacle' THEN NoSide
                     ELSE Towards(task_status)
         /\ \/ \E next \in Nexts(task_status) : GetTaskParameter(next)
            \/ UNCHANGED rowVars

\* The rows whose process does not run with an obstacle ahead.
Refuses(row) == row \in {Line, Turn}

\* LineProcess, TurnProcess, ReverseProcess and ReverseTurnProcess after
\* LidarRead.  With a lidar lost, or a pose that is refused, Stop is called
\* when the vehicle moves and its parking brake is off.
Process ==
    \/ /\ Refuses(task_status) /\ LidarObstacle'
       /\ drive' = IF task_status = Line THEN NoSide ELSE drive
       /\ UNCHANGED rowVars
    \/ /\ ~(Refuses(task_status) /\ LidarObstacle')
       /\ drive' \in {NoSide, drive}
       /\ UNCHANGED rowVars
    \/ /\ ~(Refuses(task_status) /\ LidarObstacle')
       /\ ~lidarLoss'
       /\ Drive

\* A pass of the main loop on a row.
RowPass(LidarRead) ==
    /\ task_status \in Rows
    /\ ~LidarObstacle /\ ~lidarLoss
    /\ LidarRead
    /\ Process
    /\ UNCHANGED <<bridgeVars, rp_buf>>

\* A pass over a cleared row, or to the end of the path.  It brakes, and leaves
\* the gear and the speed as they are.
FetchPass ==
    /\ task_status = Fetching
    /\ ~LidarObstacle /\ ~lidarLoss
    /\ \E next \in {Fetching, Stopping} : GetTaskParameter(next)
    /\ UNCHANGED <<bridgeVars, rp_buf, canVars, lidarVars, drive>>

\* A pass that holds the vehicle: for an obstacle, a lost lidar or an
\* estimate out of tolerance it reads the lidar again, for a pause it does not.
HoldPass(LidarRead) ==
    /\ drive' = NoSide
    /\ \/ LidarRead
       \/ ~LidarObstacle /\ ~lidarLoss /\ UNCHANGED <<canVars, lidarVars>>
    /\ UNCHANGED <<bridgeVars, rp_buf, rowVars>>

\* StopTask, at the end of the path.
StopTask ==
    /\ task_status = Stopping
    /\ ~LidarObstacle /\ ~lidarLoss
    /\ task_status' = Idle
    /\ drive' = NoSide
    /\ UNCHANGED <<bridgeVars, rp_buf, canVars, lidarVars, LidarTestSwitch, line_start>>

\* Parking and the emergency stop: RevokeControl.
RevokeControl ==
    /\ task_status' = Idle
    /\ drive' = NoSide
    /\ UNCHANGED <<bridgeVars, rp_buf, canVars, lidarVars, LidarTestSwitch, line_start>>

\* A pass of automatic mode with the self test passed, perhaps in this pass.
Pass(LidarRead) ==
    \/ GetTaskSystem
    \/ RowPass(LidarRead)
    \/ FetchPass
    \/ HoldPass(LidarRead)
    \/ StopTask

\* Any other pass: the lidar is not looked at, and nothing that lidarLoss or
\* LidarObstacle ask for is done.  A pause, or a pose out of tolerance, stops the
\* vehicle even so.  The mode and the self test are left open: a task switched
\* to in mid-row is enough for it, and it may be followed by others for ever.
SkipPass ==
    /\ drive' \in {NoSide, drive}
    /\ UNCHANGED <<bridgeVars, rp_buf, canVars, lidarVars, rowVars>>

-----------------------------------------------------------------------------
Next ==
    \/ \E s \in Sides, d \in Distances : scanCallback(s, d)
    \/ timerCallback \/ RestartBridge \/ RestartCan
    \/ CAN2_RX_IRQHandler \/ TIM2_IRQHandler
    \/ Pass(LidarReadAlone) \/ Pass(LidarReadDisturbed)
    \/ SkipPass \/ RevokeControl

Spec == Init /\ [][Next]_vars

\* The two timers of the industrial PC run, and the bus delivers.  The main loop
\* goes round, but which passes skip the lidar is left open.
FairSpec ==
    /\ Spec
    /\ WF_vars(timerCallback)
    /\ WF_vars(CAN2_RX_IRQHandler)

-----------------------------------------------------------------------------
(* Properties *)

\* Every variable has a value of its type.
TypeOK ==
    /\ minDistance \in [Sides -> Distances]
    /\ age \in [Sides -> 0..Timeout]
    /\ rp_buf \in Frames /\ Lidarcanbuf \in Frames
    /\ Lidarflag \in 0..(Modulus - 1)
    /\ Lidar_Status \in BOOLEAN /\ lidarLoss \in BOOLEAN /\ LidarObstacle \in BOOLEAN
    /\ task_status \in Rows \cup {Idle, Stopping, Fetching}
    /\ LidarTestSwitch \in {1, 3, 4, 15}
    /\ line_start \in BOOLEAN
    /\ drive \in Sides \cup {NoSide}
    /\ silence \in 0..Modulus

\* The vehicle never starts, nor turns round, while the bus has been silent
\* for more than LossTicks ticks: unless the counter has gone round since.
NoStartInSilence ==
    [][drive' \notin {NoSide, drive} => silence' \notin (LossTicks + 1)..(Modulus - 1)]_vars

\* A lost lidar is lost until a frame has come in: what the text of the main
\* loop, that it waits for the recovery of the lidar, says of the counter.
LossLasts == [][lidarLoss /\ ~lidarLoss' => silence' <= LossTicks]_vars

\* What stops every row on the side it drives to.
Near(row, dist) == dist[Towards(row)] <= 9

\* On a row an obstacle is lifted only by a frame, or one of the two of a mixed
\* read, that shows the side the row drives to clear.
ObstacleLifted ==
    [][LidarObstacle /\ ~LidarObstacle' /\ task_status \in Rows
         => \E frame \in {Lidarcanbuf, Lidarcanbuf'} : ~Near(task_status, frame.dist)]_vars

\* The rows drive to one side, and there is an obstacle near on that side or one
\* scanner or the other is silent.
Danger(s) ==
    /\ task_status \in Rows /\ Towards(task_status) = s
    /\ Near(task_status, minDistance) \/ \E t \in Sides : age[t] = Timeout

\* Passes of automatic mode with the self test passed keep coming.  One of them
\* may change nothing: a state in which it may is a pass as well.
PassesRecur ==
    \/ []<><<Pass(LidarReadAlone)>>_vars
    \/ []<>(ENABLED (UNCHANGED vars /\ Pass(LidarReadAlone)))

\* While there is always danger on the side the rows drive to, the vehicle is
\* stopped, and again whenever it has started: through restarts of the nodes,
\* mixed frames, spoilt ones and passes that are skipped, as long as others of
\* automatic mode with the self test passed keep coming.
DangerStops ==
    \A s \in Sides : PassesRecur /\ <>[]Danger(s) => []<>(drive = NoSide)

================================================================================
