------------------------------ MODULE DriveControl ------------------------------
(***************************************************************************)
(* The main loop of the firmware as the one that decides whether the        *)
(* vehicle drives: the modes, the self test, the pose and its checks, the   *)
(* rows of a path and the ways to stop.                                     *)
(*                                                                          *)
(* A pass of Run is a few actions; pc names the part that comes next.       *)
(* Expect_speed stands for the speed asked for, zero or not.  A pose is     *)
(* only told by how far it lies from the one before, which is what          *)
(* GetPosition looks at; its frames come in at any time.  What the lidars   *)
(* see is ObstacleWatch's matter: here a pass may be held, or a row         *)
(* refused, at any time.  Where a row ends, and whether the vehicle stands  *)
(* at the start of its task, is left open.  How a path is read into rows is *)
(* VehicleTask's matter: here a path is there or has been cleared, when a   *)
(* frame has changed the task beneath the vehicle.                          *)
(***************************************************************************)
EXTENDS Integers

CONSTANTS
    LoseLimit,   \* 30: poses in a row that do not move a vehicle that does
    JumpLimit,   \* 2: jumps in a row that are bridged by dead reckoning
    Modulus,     \* 256: matchingcnt is a byte
    MaxLeft,     \* 49: rows that a path may have left when one is passed over
    First,       \* the rows a path may begin with
    Follows      \* for each row, what may come next in a path

\* The values of task_status.
Idle == 0
Line == 1
Turn == 2
Reverse == 3
Stopping == 4
ReverseTurn == 5
Fetching == 9
Rows == {Line, Turn, Reverse, ReverseTurn}
Turns == {Turn, ReverseTurn}

\* How far a pose is from the one before, against the two limits for a jump.
Distances == {"same", "near", "mid", "far"}

ASSUME DriveControlAssumption ==
    /\ LoseLimit \in Nat /\ LoseLimit > 1
    /\ JumpLimit \in Nat
    /\ Modulus \in Nat /\ Modulus > JumpLimit + 1
    /\ MaxLeft \in Nat
    /\ First \subseteq Rows \ Turns
    /\ Follows \in [Rows -> SUBSET (Rows \cup {Stopping})]
    /\ \A row \in Turns : Follows[row] \cap Turns = {}

VARIABLES
    pc,
    \* outside: the distance of the pose at hand, whether its frame is still in
    \* the buffer, and whether the parking brake is engaged
    distance, posed, EPB_System_Status,
    \* the speed of the vehicle, zero or not, as last read
    AGV_getVehicle,
    FB_IS_PAUSED, SelfTestResult, Task_Count,
    \* whether the path that was taken has been cleared from now_task since, and
    \* the rows of it that are still to be passed over (TaskTotal - TaskCount + 1)
    cleared, left,
    task_status, line_start, turn_start,
    Expect_speed,
    \* GetPosition
    lidardatalose, lidarlossStop, matchingcnt, MatchingLoss,
    OutTolerance, Stop_OutTo_flag,
    \* observation only: out of tolerance, and no self test passed since; the
    \* jumps bridged since the last pose that did not jump or stopped the vehicle
    doubted, bridged

outsideVars == <<distance, posed>>
poseVars    == <<lidardatalose, lidarlossStop, matchingcnt, MatchingLoss,
                 OutTolerance, Stop_OutTo_flag, doubted, bridged>>
rowVars     == <<task_status, line_start, turn_start, left>>
pathVars    == <<Task_Count, cleared>>
modeVars    == <<FB_IS_PAUSED, SelfTestResult, pathVars>>
driveVars   == <<EPB_System_Status, AGV_getVehicle, Expect_speed>>

vars == <<pc, outsideVars, poseVars, rowVars, modeVars, driveVars>>

Init ==
    /\ pc = "top"
    /\ distance = "same" /\ posed = FALSE
    /\ EPB_System_Status \in BOOLEAN /\ AGV_getVehicle = FALSE
    /\ FB_IS_PAUSED = FALSE /\ SelfTestResult = 0
    /\ Task_Count = FALSE /\ cleared = FALSE /\ left = 0
    /\ task_status = Idle /\ line_start = FALSE /\ turn_start = FALSE
    /\ Expect_speed = FALSE
    /\ lidardatalose = 0 /\ lidarlossStop = FALSE
    /\ matchingcnt = 0 /\ MatchingLoss = FALSE
    /\ OutTolerance = FALSE /\ Stop_OutTo_flag = FALSE
    /\ doubted = FALSE /\ bridged = 0

-----------------------------------------------------------------------------
(* Outside *)

\* A pose comes in, or a frame of another kind takes its place.
Frame ==
    /\ distance' \in Distances
    /\ posed' \in BOOLEAN
    /\ UNCHANGED <<pc, poseVars, rowVars, modeVars, driveVars>>

\* HomeTrans reads the speed: a vehicle that stands rolls only when it is asked
\* to, or steered by remote control, and never with the parking brake engaged.
Speed(remote) ==
    /\ AGV_getVehicle' \in BOOLEAN
    /\ AGV_getVehicle' => ~EPB_System_Status
    /\ AGV_getVehicle' => AGV_getVehicle \/ Expect_speed \/ remote

\* HomeTrans reads the two switches of the pause.
Pause == FB_IS_PAUSED' \in BOOLEAN

\* EPBControl asks for the parking brake and waits; it may fail to engage.
EPBControl == Expect_speed' = FALSE /\ EPB_System_Status' \in BOOLEAN

-----------------------------------------------------------------------------
(* GetPosition *)

\* A pose that does not change on a line counts, while the vehicle moves.
Repeats(status) == distance = "same" /\ status = Line /\ line_start

\* Mutant: the count of the repeated poses is not kept.
NextLoseForgets(status) == IF Repeats(status) /\ AGV_getVehicle THEN 1 ELSE 0

\* Counted up to LoseLimit: a count that is larger, or has gone round, changes
\* nothing before another pose comes in.
NextLose(status) ==
    IF ~Repeats(status) \/ ~AGV_getVehicle THEN 0
    ELSE IF lidardatalose < LoseLimit THEN lidardatalose + 1 ELSE LoseLimit

\* The limit is wider after repeated poses and on a turn.
Jump(status, lose) ==
    \/ distance = "far"
    \/ distance = "mid" /\ ~(lose > 1 \/ status = Turn)

\* Mutant: a jump is forgotten when the next pose is read.
NextJumpsForgets(jump) == IF jump THEN 1 ELSE 0

\* Mutant: the byte is let go one too far.
NextJumpsWide(jump) == IF jump THEN (matchingcnt % Modulus) + 1 ELSE 0

\* Jumps in a row.
NextJumps(jump) == IF jump THEN (matchingcnt + 1) % Modulus ELSE 0

\* Mutant: one jump too many is bridged.
TooManyLate(jumps) == jumps > JumpLimit + 1

TooMany(jumps) == jumps > JumpLimit

\* Counted up to JumpLimit + 2, where it is too many anyway.
NextBridged(jump) ==
    IF ~jump \/ OutTolerance' THEN 0
    ELSE IF bridged < JumpLimit + 2 THEN bridged + 1 ELSE bridged

\* Stop: the brakes, and the parking brake unless it is engaged.
Stop == IF EPB_System_Status THEN UNCHANGED <<Expect_speed, EPB_System_Status>> ELSE EPBControl

\* MatchingLoss after LidarData_Deal: any pose frame clears it.
LidarData_Deal == MatchingLoss /\ ~posed

\* GetPosition with CoordinateComple, in a pass that ends in a Stop if stops.
\* After a Stop, and while the vehicle stands, no pose is compared with the one
\* before.
GetPosition(status, stops) ==
    LET lose     == NextLose(status)
        compared == ~Stop_OutTo_flag /\ AGV_getVehicle
        jump     == compared /\ Jump(status, lose)
    IN  /\ lidardatalose' = lose
        /\ lidarlossStop' = (Repeats(status) /\ (lidarlossStop \/ lose >= LoseLimit))
        /\ matchingcnt' = IF compared THEN NextJumps(jump) ELSE matchingcnt
        /\ MatchingLoss' = IF compared THEN jump /\ (LidarData_Deal \/ TooMany(matchingcnt'))
                           ELSE LidarData_Deal
        /\ OutTolerance' = (jump /\ MatchingLoss')
        /\ bridged' = IF compared THEN NextBridged(jump) ELSE bridged
        /\ Stop_OutTo_flag' = (OutTolerance' \/ stops)

\* The same where nothing else asks for the vehicle to stop or to drive.
OnlyGetPosition(status) ==
    /\ GetPosition(status, FALSE)
    /\ doubted' = (doubted \/ OutTolerance')
    /\ IF OutTolerance' THEN Stop ELSE UNCHANGED <<Expect_speed, EPB_System_Status>>

-----------------------------------------------------------------------------
(* The loop, up to the self test *)

\* By remote control: the vehicle is steered by others, and only watched.
RemotePass ==
    /\ pc = "top"
    /\ Speed(TRUE)
    /\ FB_IS_PAUSED' = FALSE /\ SelfTestResult' = 0
    /\ OnlyGetPosition(task_status)
    /\ UNCHANGED <<pc, outsideVars, rowVars, pathVars>>

\* With the switch in none of the three positions the loop only reads.
NoModePass ==
    /\ pc = "top"
    /\ Speed(FALSE) /\ Pause
    /\ UNCHANGED <<pc, outsideVars, poseVars, rowVars, SelfTestResult, pathVars,
                   Expect_speed, EPB_System_Status>>

\* Mutant: the path is withdrawn, the speed is not.
RevokeSpeedKeeps == Expect_speed

RevokeSpeed == FALSE

\* Parked, or stopped in an emergency: the path is withdrawn (RevokeControl).
\* The emergency stop is seen in every mode; a pass that goes on is the next.
RevokePass ==
    /\ pc = "top"
    /\ Speed(FALSE) /\ Pause
    /\ SelfTestResult' = 0 /\ Task_Count' = FALSE /\ cleared' = FALSE /\ left' = 0
    /\ task_status' = Idle
    /\ Expect_speed' = RevokeSpeed
    /\ UNCHANGED <<pc, outsideVars, poseVars, line_start, turn_start, EPB_System_Status>>

\* In automatic mode a pause stops the vehicle; then comes the self test, if it
\* has not been passed, and after it the rows.
AutomaticPass ==
    /\ pc = "top"
    /\ Speed(FALSE) /\ Pause
    /\ IF FB_IS_PAUSED' THEN EPBControl ELSE UNCHANGED <<Expect_speed, EPB_System_Status>>
    /\ pc' = CASE SelfTestResult = 0 -> "test"
               [] SelfTestResult = 1 -> "control"
               [] OTHER -> "top"
    /\ UNCHANGED <<outsideVars, poseVars, rowVars, SelfTestResult, pathVars>>

\* What a frame does to the path: one may be loaded, and that of a new task
\* (switch) clears the rows of the path taken before.
Loads(switch) ==
    /\ Task_Count' \in {Task_Count, TRUE}
    /\ switch => Task_Count'
    /\ cleared' = (task_status # Idle /\ (cleared \/ switch))

\* SelfTest after comm_path_trans: it is passed at a starting point, and where
\* there is a task at the start of this task.  Away from it the test is to be
\* done again; without a task, away from all of them, the vehicle is left to the
\* remote control.
SelfTest ==
    /\ pc = "test"
    /\ \E switch \in BOOLEAN : Loads(switch)
    /\ GetPosition(task_status, FALSE)
    /\ IF OutTolerance' THEN Stop ELSE UNCHANGED <<Expect_speed, EPB_System_Status>>
    /\ SelfTestResult' \in (IF Task_Count' THEN {0, 1} ELSE {0, 1, 2})
    /\ doubted' = (SelfTestResult' # 1 /\ (doubted \/ OutTolerance'))
    /\ pc' = IF SelfTestResult' = 1 THEN "control" ELSE "top"
    /\ UNCHANGED <<outsideVars, rowVars, FB_IS_PAUSED, AGV_getVehicle>>

-----------------------------------------------------------------------------
(* The rows *)

\* comm_path_trans: a new task asks for a new self test, which does not keep
\* this pass from going on.
comm_path_trans ==
    \E switch \in BOOLEAN :
        /\ Loads(switch)
        /\ SelfTestResult' = IF switch THEN 0 ELSE SelfTestResult

Controls ==
    /\ pc = "control"
    /\ comm_path_trans
    /\ UNCHANGED outsideVars

\* Mutant: the tolerance is not looked at.
HeldByPause == FB_IS_PAUSED

Held == FB_IS_PAUSED \/ OutTolerance

\* A held pass.  An obstacle or a lost lidar may hold it too; a lost lidar
\* parks a vehicle that stands.
HoldPass ==
    /\ Controls
    /\ Expect_speed' = FALSE
    /\ EPB_System_Status' \in BOOLEAN
    /\ AGV_getVehicle => EPB_System_Status' = EPB_System_Status
    /\ pc' = "top"
    /\ UNCHANGED <<poseVars, rowVars, FB_IS_PAUSED, AGV_getVehicle>>

Runs == Controls /\ ~Held

\* TurnTask and ReverseTurnTask read the pose for the centre of the turn.
TakeRow(row) ==
    /\ task_status' = row
    /\ line_start' = IF row \in Turns THEN line_start ELSE FALSE
    /\ turn_start' = IF row \in Turns THEN FALSE ELSE turn_start
    /\ IF row \in Turns THEN OnlyGetPosition(row)
       ELSE UNCHANGED <<poseVars, Expect_speed, EPB_System_Status>>

\* GetTaskSystem: a vehicle without a path is parked, and waits for one; with
\* one it takes the first row, and the brake is released.
GetTaskSystem ==
    /\ Runs /\ task_status = Idle
    /\ Expect_speed' = (Expect_speed /\ EPB_System_Status)
    /\ EPB_System_Status' \in BOOLEAN
    /\ IF Task_Count'
       THEN \E row \in First :
                task_status' = row /\ line_start' = FALSE /\ UNCHANGED <<turn_start, left>>
       ELSE UNCHANGED rowVars
    /\ pc' = "top"
    /\ UNCHANGED <<poseVars, FB_IS_PAUSED, AGV_getVehicle>>

\* What Line, Turn, NewReverse and ReverseTurn do to a row that drives: the
\* switches and the speed are read again, the parking brake is released.
Drives ==
    /\ Speed(FALSE) /\ Pause
    /\ EPB_System_Status' \in {EPB_System_Status, FALSE}
    /\ Expect_speed' \in {TRUE, task_status # ReverseTurn}

\* Where a line or a reverse ends, and where a turn comes to its straight part,
\* is left open.
EndLineJudge == line_start' \in BOOLEAN
EndTurnJudge == turn_start' \in {turn_start, TRUE}

\* A line or a reverse: the first call prepares it, any later one may end it.
DriveLine ==
    /\ task_status \in {Line, Reverse}
    /\ UNCHANGED <<task_status, turn_start, left>>
    /\ IF line_start
       THEN /\ Drives
            /\ EndLineJudge
            /\ pc' = IF line_start' THEN "top" ELSE "next"
       ELSE /\ line_start' = TRUE /\ pc' = "top"
            /\ UNCHANGED <<FB_IS_PAUSED, AGV_getVehicle, Expect_speed, EPB_System_Status>>

\* A turn: its straight part ends with another pose.
DriveTurn ==
    /\ task_status \in Turns
    /\ Drives
    /\ EndTurnJudge
    /\ pc' \in (IF turn_start THEN {"top", "turned"} ELSE {"top"})
    /\ UNCHANGED <<task_status, line_start, left>>

\* LineProcess, TurnProcess, ReverseProcess and ReverseTurnProcess: the pose is
\* read, and the row drives unless the poses or a lidar are lost (lost), which
\* stops a vehicle that moves; a turn does not drive with an obstacle ahead.
Process(lost) ==
    LET refused == lidarlossStop' \/ MatchingLoss' \/ lost
    IN  /\ GetPosition(task_status, refused /\ AGV_getVehicle)
        /\ doubted' = (doubted \/ OutTolerance')
        /\ \/ /\ refused
              /\ IF AGV_getVehicle THEN Stop ELSE UNCHANGED <<Expect_speed, EPB_System_Status>>
              /\ pc' = "top"
              /\ UNCHANGED <<rowVars, FB_IS_PAUSED, AGV_getVehicle>>
           \/ ~refused /\ (DriveLine \/ DriveTurn)
           \/ /\ ~refused /\ task_status = Turn
              /\ pc' = "top"
              /\ UNCHANGED <<rowVars, FB_IS_PAUSED, driveVars>>

RowPass ==
    /\ Runs /\ task_status \in Rows
    /\ \E lost \in BOOLEAN : Process(lost)

\* LineProcess with an obstacle ahead.
LineRefused ==
    /\ Runs /\ task_status = Line
    /\ Expect_speed' = FALSE
    /\ pc' = "top"
    /\ UNCHANGED <<poseVars, rowVars, FB_IS_PAUSED, AGV_getVehicle, EPB_System_Status>>

\* The end of SectinReturn, still in the pass.
TurnEnds ==
    /\ pc = "turned"
    /\ OnlyGetPosition(task_status)
    /\ turn_start' = FALSE
    /\ pc' = "next"
    /\ UNCHANGED <<outsideVars, modeVars, task_status, line_start, left, AGV_getVehicle>>

\* The next row of the path.
NextRow ==
    /\ ~cleared
    /\ \E row \in Follows[task_status] \cap Rows : TakeRow(row)
    /\ UNCHANGED <<left, FB_IS_PAUSED, AGV_getVehicle>>

\* A row that has been cleared is a "Task data error": ehbstop brakes, and reads
\* the speed and the switches again, but the speed asked for is left as it is.
\* The row is passed over, and the status stays 9 for the next pass.
DataError ==
    /\ cleared
    /\ IF task_status = Fetching
       THEN left > 0 /\ left' = left - 1
       ELSE Follows[task_status] \cap Rows # {} /\ left' \in 0..MaxLeft
    /\ task_status' = Fetching
    /\ Speed(FALSE) /\ Pause
    /\ UNCHANGED <<poseVars, line_start, turn_start, Expect_speed, EPB_System_Status>>

\* The end of the path, after its last row.
EndOfPath ==
    /\ IF task_status = Fetching THEN left = 0 ELSE Stopping \in Follows[task_status]
    /\ task_status' = Stopping
    /\ UNCHANGED <<poseVars, line_start, turn_start, left, FB_IS_PAUSED, driveVars>>

GetTaskParameter == NextRow \/ DataError \/ EndOfPath

\* In the pass that ended a row.
RowEnds ==
    /\ pc = "next"
    /\ GetTaskParameter
    /\ pc' = "top"
    /\ UNCHANGED <<outsideVars, SelfTestResult, pathVars>>

\* In a pass of its own, while the rows of a cleared path are passed over.
FetchPass ==
    /\ Runs /\ task_status = Fetching
    /\ GetTaskParameter
    /\ pc' = "top"

\* StopTask: the task is done, and most tasks end in a pause.
StopTask ==
    /\ pc = "control" /\ ~Held /\ task_status = Stopping
    /\ task_status' = Idle /\ Task_Count' = FALSE /\ cleared' = FALSE
    /\ SelfTestResult' = 0
    /\ FB_IS_PAUSED' \in {FB_IS_PAUSED, TRUE}
    /\ GetPosition(Idle, FALSE)
    /\ doubted' = (doubted \/ OutTolerance')
    /\ Expect_speed' = FALSE
    /\ IF OutTolerance' THEN EPB_System_Status' \in BOOLEAN ELSE UNCHANGED EPB_System_Status
    /\ pc' = "top"
    /\ UNCHANGED <<outsideVars, line_start, turn_start, left, AGV_getVehicle>>

-----------------------------------------------------------------------------
Loop ==
    \/ RemotePass \/ RevokePass \/ AutomaticPass
    \/ SelfTest
    \/ HoldPass \/ GetTaskSystem \/ RowPass \/ LineRefused \/ FetchPass \/ StopTask
    \/ TurnEnds \/ RowEnds

Next == Frame \/ Loop \/ NoModePass

Spec == Init /\ [][Next]_vars

\* The main loop goes round, with the mode switch in one of its positions.
FairSpec == Spec /\ WF_vars(Loop)

-----------------------------------------------------------------------------
(* Properties *)

\* Every variable has a value of its type.
TypeOK ==
    /\ pc \in {"top", "test", "control", "turned", "next"}
    /\ distance \in Distances /\ posed \in BOOLEAN
    /\ EPB_System_Status \in BOOLEAN /\ AGV_getVehicle \in BOOLEAN
    /\ Expect_speed \in BOOLEAN
    /\ FB_IS_PAUSED \in BOOLEAN /\ SelfTestResult \in 0..2
    /\ Task_Count \in BOOLEAN /\ cleared \in BOOLEAN /\ left \in 0..MaxLeft
    /\ task_status \in Rows \cup {Idle, Stopping, Fetching}
    /\ line_start \in BOOLEAN /\ turn_start \in BOOLEAN
    /\ lidardatalose \in 0..LoseLimit /\ lidarlossStop \in BOOLEAN
    /\ matchingcnt \in 0..(Modulus - 1) /\ MatchingLoss \in BOOLEAN
    /\ OutTolerance \in BOOLEAN /\ Stop_OutTo_flag \in BOOLEAN
    /\ doubted \in BOOLEAN
    /\ bridged \in 0..(JumpLimit + 2)

\* A vehicle whose pose was out of tolerance does not start again before a self
\* test has been passed, whatever poses, tasks and modes come in between.
RetestedToStart == [][~Expect_speed /\ Expect_speed' => ~doubted]_vars

\* A speed is in force only for a path that is taken: on one of its rows, at its
\* end, or while what is left of it is passed over because a frame has cleared
\* it; never once the path is withdrawn, the task done, or no path taken.
SpeedOnPath ==
    Expect_speed => \/ task_status \in Rows \cup {Stopping}
                    \/ task_status = Fetching /\ cleared

\* However many passes are held, paths withdrawn and tests made in between, no
\* more than JumpLimit jumps in a row are made up for by dead reckoning before
\* the vehicle is stopped; one more where the count has gone round.
JumpsBridged == bridged <= JumpLimit + 1

\* Poses that jump and jump again stop a vehicle that moves: on any row, with
\* the path cleared, and in any mode.
JumpsStop == [](distance = "far" /\ AGV_getVehicle) ~> ~Expect_speed

\* A pose that never changes stops a vehicle that moves along a line.
FrozenStops ==
    [](/\ distance = "same" /\ AGV_getVehicle
       /\ task_status = Line /\ line_start /\ SelfTestResult = 1) ~> ~Expect_speed

\* What the comments of the main loop and of comm_path_trans say: a vehicle
\* drives on its own only with its self test passed.
TestedToDrive == [][pc = "test" /\ pc' = "top" => ~Expect_speed']_vars

================================================================================
